-------------------------------- MODULE Lobby --------------------------------
(***************************************************************************)
(* How a running game gets its host and its players: register_as_admin,    *)
(* register_as_remote, join_game, rejoin_game, echo_time_sync, kick_player *)
(* and start_game of classquiz/socket_server, and the join of the box      *)
(* controllers.  As in QuestionRound a handler is one action per Redis     *)
(* call on a shared key, with the code up to the next await.               *)
(*                                                                         *)
(* Socket.IO gives every connection a new sid and forgets the rooms of a   *)
(* connection only when it notices that the client has gone; an event for  *)
(* a connection the client has left is lost.                               *)
(***************************************************************************)
EXTENDS Naturals, FiniteSets

CONSTANTS
  Phones,    \* browsers on the play page
  Hosts,     \* browsers on the admin page
  Remotes,   \* browsers on the remote page
  Reused,    \* the remotes whose connection already has a session
  FirstHost, \* the host that registered before anybody connected, or NoPage
  Boxes,     \* controllers
  BoxName,   \* BoxName[b]: the player_name of controller b
  Names,     \* usernames
  Runs,      \* runs of join_game / rejoin_game
  Kicks,     \* runs of kick_player
  Conns,     \* Conns[t]: connections phone t makes at most
  NoName, NoSid, NoPage

Sids  == UNION {{t} \X (1..Conns[t]) : t \in Phones}
Pages == Hosts \cup Remotes

ASSUME LobbyAssumption ==
  /\ Reused \subseteq Remotes
  /\ FirstHost \in Hosts \cup {NoPage}
  /\ BoxName \in [Boxes -> Names]
  /\ Conns \in [Phones -> Nat]
  /\ NoName \notin Names
  /\ NoSid \notin Sids
  /\ NoPage \notin Pages

VARIABLES
  started,  \* PlayGame.started
  session,  \* admin of the game_session key
  seats,    \* seats[n]: the players:{n} key, the sid of player n
  roster,   \* the players set: <<name, sid>>, without a sid for a controller
  sess,     \* sess[s]: the session of a phone's connection
  admin,    \* pages whose session says admin
  room,     \* phones' connections in the game's room
  stage,    \* pages in the game's room and in the admin room
  alive,    \* phones' connections the server believes in
  run,      \* runs of join_game and rejoin_game
  echo,     \* echo[r]: the run of echo_time_sync that answers run r's time_sync
  kick,     \* runs of kick_player
  reg,      \* each page's run of register_as_admin or register_as_remote
  start,    \* each page's run of start_game
  box,      \* each controller's join
  phone,    \* the phones' pages and cookies
  board,    \* the hosts' pages
  clash,    \* history: names that two runs held at once
  crossed,  \* history: connections with a run under way when start_game was emitted
  early,    \* history: connections that echoed before their session was stored
  named,    \* history: names a host has clicked on
  thrown,   \* history: connections kick_player has removed
  begun     \* history: start_game was emitted

keys    == <<started, session, seats, roster>>
sockets == <<sess, admin, room, stage, alive>>
calls   == <<run, echo, kick, reg, start, box>>
screens == <<phone, board>>
history == <<clash, crossed, early, named, thrown, begun>>
vars    == <<keys, sockets, calls, screens, history>>

MaybeName == Names \cup {NoName}
MaybeSid  == Sids \cup {NoSid}

Run == [pc: {"idle", "sent", "name", "save", "seat", "add", "enter",
             "match", "unseat", "done", "failed"},
        kind: {"join", "rejoin"}, sid: MaybeSid, name: MaybeName, old: MaybeSid,
        saw: BOOLEAN]                           \* PlayGame.started as it was read
Echo    == [pc: {"none", "sent", "write", "done", "failed"}, name: MaybeName]
Kick    == [pc: {"idle", "sent", "remove", "done", "failed"}, page: Pages \cup {NoPage},
            name: MaybeName, sid: MaybeSid]
Session == [name: MaybeName, ping: BOOLEAN]
Cookie  == [name: MaybeName, sid: MaybeSid]     \* joined_game
Phone   == [conns: Nat, online: BOOLEAN, name: MaybeName, cookie: Cookie,
            joined: BOOLEAN,                    \* gameData is defined
            started: BOOLEAN,                   \* gameMeta.started
            kicked: BOOLEAN]                    \* the cookie of that name
Board   == [registered: BOOLEAN, players: SUBSET (Names \X MaybeSid), started: BOOLEAN]

NoSession == [name |-> NoName, ping |-> FALSE]
NoCookie  == [name |-> NoName, sid |-> NoSid]
IdleRun   == [pc |-> "idle", kind |-> "join", sid |-> NoSid, name |-> NoName,
              old |-> NoSid, saw |-> FALSE]

TypeOK ==
  /\ started \in BOOLEAN
  /\ session \in Pages \cup {NoPage}
  /\ seats \in [Names -> MaybeSid]
  /\ roster \subseteq Names \X MaybeSid
  /\ sess \in [Sids -> Session]
  /\ admin \subseteq Pages
  /\ room \subseteq Sids
  /\ stage \subseteq Pages
  /\ alive \subseteq Sids
  /\ run \in [Runs -> Run]
  /\ echo \in [Runs -> Echo]
  /\ kick \in [Kicks -> Kick]
  /\ reg \in [Pages -> {"idle", "check", "claim", "welcome", "save", "done", "refused"}]
  /\ start \in [Pages -> {"idle", "sent", "emit"}]
  /\ box \in [Boxes -> {"off", "found", "named", "on", "refused"}]
  /\ phone \in [Phones -> Phone]
  /\ board \in [Pages -> Board]
  /\ clash \subseteq Names
  /\ crossed \subseteq Sids
  /\ early \subseteq Sids
  /\ named \subseteq Names
  /\ thrown \subseteq Sids
  /\ begun \in BOOLEAN

\* start_quiz has stored the game; of all pages only FirstHost has connected.
Init ==
  /\ started = FALSE
  /\ session = FirstHost
  /\ seats = [n \in Names |-> NoSid]
  /\ roster = {}
  /\ sess = [s \in Sids |-> NoSession]
  /\ admin = {FirstHost} \ {NoPage}
  /\ room = {}
  /\ stage = {FirstHost} \ {NoPage}
  /\ alive = {}
  /\ run = [r \in Runs |-> IdleRun]
  /\ echo = [r \in Runs |-> [pc |-> "none", name |-> NoName]]
  /\ kick = [k \in Kicks |-> [pc |-> "idle", page |-> NoPage, name |-> NoName, sid |-> NoSid]]
  /\ reg = [p \in Pages |-> IF p = FirstHost THEN "done" ELSE "idle"]
  /\ start = [p \in Pages |-> "idle"]
  /\ box = [b \in Boxes |-> "off"]
  /\ phone = [t \in Phones |-> [conns |-> 0, online |-> FALSE, name |-> NoName, cookie |-> NoCookie,
                                joined |-> FALSE, started |-> FALSE, kicked |-> FALSE]]
  /\ board = [p \in Pages |-> [registered |-> p = FirstHost, players |-> {}, started |-> FALSE]]
  /\ clash = {}
  /\ crossed = {}
  /\ early = {}
  /\ named = {}
  /\ thrown = {}
  /\ begun = FALSE

(***************************************************************************)
(* Helpers.                                                                *)
(***************************************************************************)
Becomes(r, rec)  == run' = [run EXCEPT ![r] = rec]
Goto(r, step)    == Becomes(r, [run[r] EXCEPT !.pc = step])
PhoneAs(t, rec)  == phone' = [phone EXCEPT ![t] = rec]

\* The GamePlayer that SADD enters, and the one that SREM takes out at a rejoin.
\* Faulty: each with the other's sid.
Entry_Old(r)    == <<run[r].name, IF run[r].kind = "rejoin" THEN run[r].old ELSE run[r].sid>>
Entry(r)        == <<run[r].name, run[r].sid>>
OldEntry_New(r) == <<run[r].name, run[r].sid>>
OldEntry(r)     == <<run[r].name, run[r].old>>

\* An event for connection s arrives if its phone is still on that connection.
Listens(s) == s \in Sids /\ phone[s[1]].online /\ phone[s[1]].conns = s[2]

\* Runs that have found their name free (or theirs) and not finished the entry.
Holds(r) == \/ run[r].pc \in {"seat", "unseat", "add"}
            \/ run[r].pc = "save" /\ run[r].kind = "join"
Holders(n) == {r \in Runs : run[r].name = n /\ Holds(r)}
NoteHolder(n) == clash' = IF Holders(n) # {} THEN clash \cup {n} ELSE clash

\* player_joined for the pages in the admin room.  Faulty: it carries the name alone.
Joined_NameOnly(n, s) == n
Joined(n, s) == <<n, s>>
Boards(n, s) == [p \in Pages |-> IF p \in stage
                                 THEN [board[p] EXCEPT !.players = @ \cup {Joined(n, s)}]
                                 ELSE board[p]]

\* time_sync of run r: the phone answers with echo_time_sync at once.
SyncOf(r) == [echo EXCEPT ![r].pc = IF Listens(run[r].sid) THEN "sent" ELSE "none"]

(***************************************************************************)
(* The phone.  With the cookie joined_game it asks to rejoin whenever it   *)
(* connects, also when it has been kicked.                                 *)
(***************************************************************************)
\* The page as it is loaded; cookies stay.
Reset(page) == [page EXCEPT !.name = NoName, !.joined = FALSE, !.started = FALSE]

\* A new connection: after the old one was lost, or of a page loaded anew.
Connect(t) ==
  /\ phone[t].conns < Conns[t]
  /\ LET s    == <<t, phone[t].conns + 1>>
         page == IF phone[t].online THEN Reset(phone[t]) ELSE phone[t] IN
       /\ PhoneAs(t, [page EXCEPT !.online = TRUE, !.conns = @ + 1])
       /\ alive' = alive \cup {s}
       /\ \/ /\ page.cookie = NoCookie
             /\ UNCHANGED run
          \/ /\ page.cookie # NoCookie
             /\ \E r \in Runs :
                  /\ run[r].pc = "idle"
                  /\ Becomes(r, [IdleRun EXCEPT !.pc = "sent", !.kind = "rejoin", !.sid = s,
                                    !.name = page.cookie.name, !.old = page.cookie.sid])
  /\ UNCHANGED <<keys, sess, admin, room, stage, echo, kick, reg, start, box, board, history>>

Lose(t) ==
  /\ phone[t].online
  /\ PhoneAs(t, [phone[t] EXCEPT !.online = FALSE])
  /\ UNCHANGED <<keys, sockets, calls, board, history>>

\* The server notices that the client of connection s has gone.
Timeout(s) ==
  /\ s \in alive
  /\ ~Listens(s)
  /\ alive' = alive \ {s}
  /\ room' = room \ {s}
  /\ UNCHANGED <<keys, sess, admin, stage, calls, screens, history>>

\* The player sends the form, which stays until joined_game arrives.
Enter(r, t, n) ==
  /\ run[r].pc = "idle"
  /\ phone[t].online
  /\ ~phone[t].joined
  /\ ~phone[t].kicked
  /\ Becomes(r, [IdleRun EXCEPT !.pc = "sent", !.sid = <<t, phone[t].conns>>, !.name = n])
  /\ PhoneAs(t, [phone[t] EXCEPT !.name = n])
  /\ UNCHANGED <<keys, sockets, echo, kick, reg, start, box, board, history>>

(***************************************************************************)
(* join_game, run r.                                                       *)
(***************************************************************************)
ReadStarted(r) ==
  /\ run[r].pc = "sent"
  /\ run[r].kind = "join"
  /\ Goto(r, IF started THEN "done" ELSE "name")
  /\ UNCHANGED <<keys, sockets, echo, kick, reg, start, box, screens, history>>

\* The name is free if no phone has it.
CheckName(r) ==
  /\ run[r].pc = "name"
  /\ \/ /\ seats[run[r].name] # NoSid
        /\ Goto(r, "done")
        /\ UNCHANGED clash
     \/ /\ seats[run[r].name] = NoSid
        /\ Goto(r, "save")
        /\ NoteHolder(run[r].name)
  /\ UNCHANGED <<keys, sockets, echo, kick, reg, start, box, screens,
                 crossed, early, named, thrown, begun>>

\* save_session raises when the connection has gone.  On joined_game the page
\* stores its sid and its name field in the cookie.
SaveSession(r) ==
  /\ run[r].pc = "save"
  /\ run[r].kind = "join"
  /\ LET s == run[r].sid IN
       \/ /\ s \notin alive
          /\ Goto(r, "failed")
          /\ UNCHANGED <<sess, phone>>
       \/ /\ s \in alive
          /\ Goto(r, "seat")
          /\ sess' = [sess EXCEPT ![s] = [name |-> run[r].name, ping |-> FALSE]]
          /\ IF Listens(s)
             THEN PhoneAs(s[1], [phone[s[1]] EXCEPT !.joined = TRUE,
                                   !.cookie = [name |-> phone[s[1]].name, sid |-> s]])
             ELSE UNCHANGED phone
  /\ UNCHANGED <<keys, admin, room, stage, alive, echo, kick, reg, start, box, board, history>>

\* SET of the player's key, by both handlers.  join_game first parses the
\* game_session, which there is not without a host and which stays once set.
TakeSeat(r) ==
  /\ run[r].pc = "seat"
  /\ \/ /\ run[r].kind = "join"
        /\ session = NoPage
        /\ Goto(r, "failed")
        /\ UNCHANGED seats
     \/ /\ run[r].kind = "rejoin" \/ session # NoPage
        /\ seats' = [seats EXCEPT ![run[r].name] = run[r].sid]
        /\ Goto(r, IF run[r].kind = "join" THEN "add" ELSE "unseat")
  /\ UNCHANGED <<started, session, roster, sockets, echo, kick, reg, start, box, screens, history>>

\* SADD by both handlers; join_game then emits player_joined and time_sync.
AddPlayer(r) ==
  /\ run[r].pc = "add"
  /\ roster' = roster \cup {Entry(r)}
  /\ \/ /\ run[r].kind = "join"
        /\ Goto(r, "enter")
        /\ board' = Boards(run[r].name, run[r].sid)
        /\ echo' = SyncOf(r)
     \/ /\ run[r].kind = "rejoin"
        /\ Goto(r, "save")
        /\ UNCHANGED <<board, echo>>
  /\ UNCHANGED <<started, session, seats, sockets, kick, reg, start, box, phone, history>>

\* Entering a room raises when the connection has gone.  Faulty: it is not entered.
Entered_Not(s) == room
Entered(s)     == room \cup {s}

EnterRoom(r) ==
  /\ run[r].pc = "enter"
  /\ \/ /\ run[r].sid \in alive
        /\ room' = Entered(run[r].sid)
        /\ Goto(r, "done")
     \/ /\ run[r].sid \notin alive
        /\ Goto(r, "failed")
        /\ UNCHANGED room
  /\ UNCHANGED <<keys, sess, admin, stage, alive, echo, kick, reg, start, box, screens, history>>

(***************************************************************************)
(* rejoin_game, run r.                                                     *)
(***************************************************************************)
ReadGame(r) ==
  /\ run[r].pc = "sent"
  /\ run[r].kind = "rejoin"
  /\ Becomes(r, [run[r] EXCEPT !.pc = "match", !.saw = started])
  /\ UNCHANGED <<keys, sockets, echo, kick, reg, start, box, screens, history>>

\* The phone must name the sid its player has; otherwise nothing is answered.
\* time_sync is emitted before the session is stored.
Match(r) ==
  /\ run[r].pc = "match"
  /\ \/ /\ seats[run[r].name] # run[r].old
        /\ Goto(r, "done")
        /\ UNCHANGED <<clash, echo>>
     \/ /\ seats[run[r].name] = run[r].old
        /\ Goto(r, "seat")
        /\ NoteHolder(run[r].name)
        /\ echo' = SyncOf(r)
  /\ UNCHANGED <<keys, sockets, kick, reg, start, box, screens,
                 crossed, early, named, thrown, begun>>

Unseat(r) ==
  /\ run[r].pc = "unseat"
  /\ roster' = roster \ {OldEntry(r)}
  /\ Goto(r, "add")
  /\ UNCHANGED <<started, session, seats, sockets, echo, kick, reg, start, box, screens, history>>

\* rejoined_game carries the game as it was read at first.  Faulty: it does not
\* say that the game has started.
Rejoined_Silent(page, saw) == [page EXCEPT !.joined = TRUE]
Rejoined(page, saw)        == [page EXCEPT !.joined = TRUE, !.started = @ \/ saw]

\* The session is stored, the room entered and rejoined_game emitted.
Return(r) ==
  /\ run[r].pc = "save"
  /\ run[r].kind = "rejoin"
  /\ LET s == run[r].sid IN
       \/ /\ s \notin alive
          /\ Goto(r, "failed")
          /\ UNCHANGED <<sess, room, phone>>
       \/ /\ s \in alive
          /\ Goto(r, "done")
          /\ sess' = [sess EXCEPT ![s] = [name |-> run[r].name, ping |-> FALSE]]
          /\ room' = Entered(s)
          /\ IF Listens(s)
             THEN PhoneAs(s[1], Rejoined(phone[s[1]], run[r].saw))
             ELSE UNCHANGED phone
  /\ UNCHANGED <<keys, admin, stage, alive, echo, kick, reg, start, box, board, history>>

(***************************************************************************)
(* echo_time_sync: the session is read, given the ping and stored again.   *)
(***************************************************************************)
EchoRead(r) ==
  /\ echo[r].pc = "sent"
  /\ LET s == run[r].sid IN
       /\ echo' = [echo EXCEPT ![r] =
                     IF s \in alive /\ sess[s] # NoSession
                     THEN [pc |-> "write", name |-> sess[s].name]
                     ELSE [pc |-> "failed", name |-> NoName]]
       /\ early' = IF run[r].kind = "rejoin" /\ run[r].pc # "done" THEN early \cup {s} ELSE early
  /\ UNCHANGED <<keys, sockets, run, kick, reg, start, box, screens,
                 clash, crossed, named, thrown, begun>>

\* Faulty: the ping is not put in.
Pinged_Not(n) == [name |-> n, ping |-> FALSE]
Pinged(n)     == [name |-> n, ping |-> TRUE]

EchoWrite(r) ==
  /\ echo[r].pc = "write"
  /\ LET s == run[r].sid IN
       \/ /\ s \in alive
          /\ sess' = [sess EXCEPT ![s] = Pinged(echo[r].name)]
          /\ echo' = [echo EXCEPT ![r].pc = "done"]
       \/ /\ s \notin alive
          /\ echo' = [echo EXCEPT ![r].pc = "failed"]
          /\ UNCHANGED sess
  /\ UNCHANGED <<keys, admin, room, stage, alive, run, kick, reg, start, box, screens, history>>

(***************************************************************************)
(* register_as_admin and register_as_remote of page p.                     *)
(***************************************************************************)
RegAs(p, step) == reg' = [reg EXCEPT ![p] = step]

Register(p) ==
  /\ p \in Hosts
  /\ reg[p] = "idle"
  /\ RegAs(p, "check")
  /\ UNCHANGED <<keys, sockets, run, echo, kick, start, box, screens, history>>

CheckSession(p) ==
  /\ reg[p] = "check"
  /\ RegAs(p, IF session = NoPage THEN "claim" ELSE "refused")
  /\ UNCHANGED <<keys, sockets, run, echo, kick, start, box, screens, history>>

ClaimSession(p) ==
  /\ reg[p] = "claim"
  /\ session' = p
  /\ RegAs(p, "welcome")
  /\ UNCHANGED <<started, seats, roster, sockets, run, echo, kick, start, box, screens, history>>

BoardAs(p, rec) == board' = [board EXCEPT ![p] = rec]

\* registered_as_admin comes before the session is stored.
Welcome(p) ==
  /\ reg[p] = "welcome"
  /\ BoardAs(p, [board[p] EXCEPT !.registered = TRUE])
  /\ RegAs(p, "save")
  /\ UNCHANGED <<keys, sockets, run, echo, kick, start, box, phone, history>>

\* connect stores no session: on a fresh connection get_session raises.
OpenRemote(p) ==
  /\ p \in Remotes
  /\ reg[p] = "idle"
  /\ BoardAs(p, [board[p] EXCEPT !.registered = TRUE])
  /\ RegAs(p, IF p \in Reused THEN "save" ELSE "refused")
  /\ UNCHANGED <<keys, sockets, run, echo, kick, start, box, phone, history>>

SaveAdmin(p) ==
  /\ reg[p] = "save"
  /\ admin' = admin \cup {p}
  /\ stage' = stage \cup {p}
  /\ RegAs(p, "done")
  /\ UNCHANGED <<keys, sess, room, alive, run, echo, kick, start, box, screens, history>>

(***************************************************************************)
(* start_game of page p.  The admin page needs a player on its list.       *)
(***************************************************************************)
ClickStart(p) ==
  /\ start[p] = "idle"
  /\ board[p].registered
  /\ ~board[p].started
  /\ p \in Remotes \/ board[p].players # {}
  /\ start' = [start EXCEPT ![p] = "sent"]
  /\ UNCHANGED <<keys, sockets, run, echo, kick, reg, box, screens, history>>

\* Without a session get_session raises.
StoreStarted(p) ==
  /\ start[p] = "sent"
  /\ \/ /\ p \in admin
        /\ started' = TRUE
        /\ start' = [start EXCEPT ![p] = "emit"]
     \/ /\ p \notin admin
        /\ start' = [start EXCEPT ![p] = "idle"]
        /\ UNCHANGED started
  /\ UNCHANGED <<session, seats, roster, sockets, run, echo, kick, reg, box, screens, history>>

EmitStart(p) ==
  /\ start[p] = "emit"
  /\ start' = [start EXCEPT ![p] = "idle"]
  /\ phone' = [t \in Phones |-> [phone[t] EXCEPT
                 !.started = @ \/ \E s \in room : s[1] = t /\ Listens(s)]]
  /\ board' = [q \in Pages |-> [board[q] EXCEPT !.started = @ \/ q \in stage]]
  /\ begun' = TRUE
  /\ crossed' = crossed \cup {s \in Sids : \E r \in Runs :
                  run[r].sid = s /\ run[r].pc \notin {"idle", "done", "failed"}}
  /\ UNCHANGED <<keys, sockets, run, echo, kick, reg, box, clash, early, named, thrown>>

(***************************************************************************)
(* kick_player, run k.                                                     *)
(***************************************************************************)
KickAs(k, rec) == kick' = [kick EXCEPT ![k] = rec]

\* The host clicks on an entry of the list, which goes.
ClickKick(k, p) ==
  /\ kick[k].pc = "idle"
  /\ ~board[p].started
  /\ \E e \in board[p].players :
       /\ KickAs(k, [kick[k] EXCEPT !.pc = "sent", !.page = p, !.name = e[1]])
       /\ BoardAs(p, [board[p] EXCEPT !.players = @ \ {e}])
       /\ named' = named \cup {e[1]}
  /\ UNCHANGED <<keys, sockets, run, echo, reg, start, box, phone,
                 clash, crossed, early, thrown, begun>>

\* The sid of the player, None for a controller's.  Faulty: always None.
SeatOf_None(n) == NoSid
SeatOf(n)      == seats[n]

FindSeat(k) ==
  /\ kick[k].pc = "sent"
  /\ KickAs(k, IF kick[k].page \in admin
               THEN [kick[k] EXCEPT !.pc = "remove", !.sid = SeatOf(kick[k].name)]
               ELSE [kick[k] EXCEPT !.pc = "failed"])
  /\ UNCHANGED <<keys, sockets, run, echo, reg, start, box, screens, history>>

\* Phones an event for sid s reaches: without a sid it goes to everybody.
Reached(s) == {t \in Phones : phone[t].online /\ s \in {NoSid, <<t, phone[t].conns>>}}

\* A kicked page sets the cookie and loads itself anew.
Remove(k) ==
  /\ kick[k].pc = "remove"
  /\ roster' = roster \ {<<kick[k].name, kick[k].sid>>}
  /\ room' = room \ {kick[k].sid}
  /\ phone' = [t \in Phones |->
                 IF t \in Reached(kick[k].sid)
                 THEN [Reset(phone[t]) EXCEPT !.online = FALSE, !.kicked = TRUE]
                 ELSE phone[t]]
  /\ KickAs(k, [kick[k] EXCEPT !.pc = "done"])
  /\ thrown' = thrown \cup ({kick[k].sid} \ {NoSid})
  /\ UNCHANGED <<started, session, seats, sess, admin, stage, alive, run, echo, reg, start, box,
                 board, clash, crossed, early, named, begun>>

(***************************************************************************)
(* A controller: /join looks the game up and the name; the WebSocket then  *)
(* enters the player.  No players:{name} key is set.                       *)
(***************************************************************************)
BoxAs(b, step) == box' = [box EXCEPT ![b] = step]

BoxLookUp(b) ==
  /\ box[b] = "off"
  /\ BoxAs(b, IF started THEN "refused" ELSE "found")
  /\ UNCHANGED <<keys, sockets, run, echo, kick, reg, start, screens, history>>

BoxCheckName(b) ==
  /\ box[b] = "found"
  /\ BoxAs(b, IF seats[BoxName[b]] = NoSid THEN "named" ELSE "refused")
  /\ UNCHANGED <<keys, sockets, run, echo, kick, reg, start, screens, history>>

BoxConnect(b) ==
  /\ box[b] = "named"
  /\ BoxAs(b, "on")
  /\ roster' = roster \cup {<<BoxName[b], NoSid>>}
  /\ board' = Boards(BoxName[b], NoSid)
  /\ UNCHANGED <<started, session, seats, sockets, run, echo, kick, reg, start, phone, history>>

(***************************************************************************)
(* The specification.                                                      *)
(***************************************************************************)
RunStep(r) == ReadStarted(r) \/ CheckName(r) \/ SaveSession(r) \/ TakeSeat(r)
              \/ AddPlayer(r) \/ EnterRoom(r) \/ ReadGame(r) \/ Match(r) \/ Unseat(r) \/ Return(r)
EchoStep(r) == EchoRead(r) \/ EchoWrite(r)
PageStep(p) == CheckSession(p) \/ ClaimSession(p) \/ Welcome(p) \/ SaveAdmin(p)
               \/ StoreStarted(p) \/ EmitStart(p)
KickStep(k) == FindSeat(k) \/ Remove(k)
BoxStep(b)  == BoxLookUp(b) \/ BoxCheckName(b) \/ BoxConnect(b)
UserStep ==
  \/ \E t \in Phones : Connect(t) \/ Lose(t)
  \/ \E r \in Runs, t \in Phones, n \in Names : Enter(r, t, n)
  \/ \E p \in Pages : Register(p) \/ OpenRemote(p) \/ ClickStart(p)
  \/ \E k \in Kicks, p \in Pages : ClickKick(k, p)

Next ==
  \/ UserStep
  \/ \E s \in Sids : Timeout(s)
  \/ \E r \in Runs : RunStep(r) \/ EchoStep(r)
  \/ \E p \in Pages : PageStep(p)
  \/ \E k \in Kicks : KickStep(k)
  \/ \E b \in Boxes : BoxStep(b)

\* The event loop resumes the handlers; nobody has to do anything.
Fairness == /\ \A r \in Runs : WF_vars(RunStep(r)) /\ WF_vars(EchoStep(r))
            /\ \A p \in Pages : WF_vars(PageStep(p))

Spec == Init /\ [][Next]_vars

FairSpec == Spec /\ Fairness

(***************************************************************************)
(* Properties.                                                             *)
(***************************************************************************)
\* A username has one phone in the players set: a name is looked up and taken
\* in two steps, and a rejoin takes the old entry out and puts the new one in.
\* Two entries come only from two runs that held the name at once.
OneEntryPerName ==
  \A e, f \in roster :
    e[1] = f[1] /\ NoSid \notin {e[2], f[2]} => e = f \/ e[1] \in clash

\* The players set and the players:{name} keys are written by separate calls.
\* A player's sid is in the set, or about to be, or was kicked, again unless two
\* runs held the name.
SeatIsListed ==
  \A n \in Names \ clash : seats[n] # NoSid =>
    \/ <<n, seats[n]>> \in roster
    \/ seats[n] \in thrown
    \/ \E r \in Runs : run[r].name = n /\ run[r].sid = seats[n] /\ run[r].pc \in {"unseat", "add"}

\* A phone that is in the game's room hears that the game has started, from
\* start_game or from rejoined_game.  It misses both only if its own run was
\* under way when start_game was emitted.
StartHeard ==
  \A t \in Phones : \A s \in room :
    s[1] = t /\ Listens(s) /\ begun => phone[t].started \/ s \in crossed

\* submit_answer needs the ping in the session.  Once the runs of a connection
\* are over, a phone in the room has one, however its joins and echoes
\* interleaved, unless it echoed before rejoin_game had stored the session.
Busy(s) == \E r \in Runs : run[r].sid = s /\ (run[r].pc \notin {"idle", "done", "failed"}
                                              \/ echo[r].pc \in {"sent", "write"})
CanAnswer ==
  \A s \in room : Listens(s) /\ ~Busy(s) => sess[s].ping \/ s \in early

\* A phone is kicked only if the host has clicked on the name of one of its
\* players, or on a controller's.
KickHitsNamed ==
  \A t \in Phones : phone[t].kicked =>
    \/ \E r \in Runs : run[r].sid # NoSid /\ run[r].sid[1] = t /\ run[r].name \in named
    \/ \E b \in Boxes : BoxName[b] \in named

\* A phone whose join has found the host, or whose rejoin has been accepted,
\* ends up in the room with a session to answer with, if it stays connected.
Playing(s) == s \in room /\ (sess[s].ping \/ s \in early)
AcceptedGetsIn ==
  \A r \in Runs : run[r].pc \in {"unseat", "add"} ~> Playing(run[r].sid) \/ ~Listens(run[r].sid)

(***************************************************************************)
(* What the documentation says and the code does not keep.                 *)
(***************************************************************************)
\* SocketIo.md: already_registered_as_admin "means, that an admin already
\* exists": so no second page gets registered_as_admin.
OneHost == \A p, q \in Hosts : board[p].registered /\ board[q].registered => p = q

\* SocketIo.md: who receives registered_as_admin "is successfully registered
\* as an admin".
RegisteredMeansAdmin ==
  \A p \in Pages : board[p].registered /\ reg[p] \in {"done", "refused"} => p \in admin

\* live_redis_data.md: the players set is "a list of all current players"; a
\* kicked player ("You're Banned!", says the join form) does not come back with
\* the connection its page makes after the kick.
KickedStaysOut ==
  \A e \in roster : Listens(e[2]) => ~phone[e[2][1]].kicked
=============================================================================
