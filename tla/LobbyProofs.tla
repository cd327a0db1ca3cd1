----------------------------- MODULE LobbyProofs -----------------------------
(***************************************************************************)
(* Proofs about Lobby for every number of phones, connections, names and   *)
(* handler runs: type correctness and what each step does to its run, then *)
(* the properties that relate the players set to the players:{name} keys,  *)
(* then who hears that the game has started, who can answer, and whom a    *)
(* kick hits.                                                              *)
(***************************************************************************)
EXTENDS Lobby, TLAPS

(***************************************************************************)
(* The inductive strengthening of TypeOK.                                  *)
(***************************************************************************)
\* A phone has made no more connections than it may.
PhonesKnown ==
  \A t \in Phones :
    /\ phone[t].conns <= Conns[t]
    /\ phone[t].online => phone[t].conns # 0
    /\ phone[t].cookie # NoCookie => phone[t].cookie.name \in Names

\* A run that has started knows its player and came on a connection that its
\* phone has made; as long as the phone is on it, the name is still in the form.
Known(r) ==
  /\ run[r].pc = "idle" => run[r].kind = "join"
  /\ run[r].pc # "idle" =>
       /\ run[r].name \in Names
       /\ run[r].sid \in Sids
       /\ run[r].sid[2] <= phone[run[r].sid[1]].conns
       /\ run[r].kind = "join" /\ Listens(run[r].sid) => phone[run[r].sid[1]].name \in Names
RunsKnown == \A r \in Runs : Known(r)

\* A run of kick_player knows whom it removes.
KicksKnown == \A k \in Kicks : kick[k].pc # "idle" => kick[k].name \in Names

Typed == TypeOK /\ PhonesKnown /\ RunsKnown /\ KicksKnown

(***************************************************************************)
(* Sids and records.                                                       *)
(***************************************************************************)
LEMMA SidFacts ==
  ASSUME NEW s \in Sids
  PROVE  s[1] \in Phones /\ s[2] \in 1..Conns[s[1]] /\ s = <<s[1], s[2]>>
BY DEF Sids

LEMMA SidExists ==
  ASSUME NEW t \in Phones, NEW i \in 1..Conns[t]
  PROVE  <<t, i>> \in Sids
BY DEF Sids

RunSteps == {"idle", "sent", "name", "save", "seat", "add", "enter",
             "match", "unseat", "done", "failed"}

\* y is run x at another step.
Follows(y, x, step) ==
  /\ y \in Run /\ y.pc = step
  /\ y.kind = x.kind /\ y.sid = x.sid /\ y.name = x.name /\ y.old = x.old

\* The records that the steps of a run make of its record x, and of a new run.
WithPc(x, step)          == [x EXCEPT !.pc = step]
WithGame(x, b)           == [x EXCEPT !.pc = "match", !.saw = b]
JoinRun(s, n)            == [IdleRun EXCEPT !.pc = "sent", !.sid = s, !.name = n]
RejoinRun(s, n, o)       == [IdleRun EXCEPT !.pc = "sent", !.kind = "rejoin", !.sid = s,
                                            !.name = n, !.old = o]

LEMMA RunRecords ==
  ASSUME NEW x \in Run, NEW step \in RunSteps, NEW b \in BOOLEAN
  PROVE  Follows(WithPc(x, step), x, step) /\ Follows(WithGame(x, b), x, "match")
<1> USE DEF Run, Follows, RunSteps
<1>1. Follows(WithPc(x, step), x, step)
  BY DEF WithPc
<1>2. Follows(WithGame(x, b), x, "match")
  BY DEF WithGame
<1> QED BY <1>1, <1>2

LEMMA NewRuns ==
  ASSUME NEW s \in Sids, NEW n \in Names, NEW o \in MaybeSid
  PROVE  /\ IdleRun \in Run
         /\ JoinRun(s, n) \in Run /\ JoinRun(s, n).pc = "sent" /\ JoinRun(s, n).kind = "join"
         /\ JoinRun(s, n).sid = s /\ JoinRun(s, n).name = n
         /\ RejoinRun(s, n, o) \in Run /\ RejoinRun(s, n, o).pc = "sent"
         /\ RejoinRun(s, n, o).kind = "rejoin" /\ RejoinRun(s, n, o).sid = s
         /\ RejoinRun(s, n, o).name = n
<1> USE DEF IdleRun, Run, MaybeSid, MaybeName
<1>1. IdleRun \in Run
  OBVIOUS
<1>2. /\ JoinRun(s, n) \in Run /\ JoinRun(s, n).pc = "sent" /\ JoinRun(s, n).kind = "join"
      /\ JoinRun(s, n).sid = s /\ JoinRun(s, n).name = n
  BY DEF JoinRun
<1>3. /\ RejoinRun(s, n, o) \in Run /\ RejoinRun(s, n, o).pc = "sent"
      /\ RejoinRun(s, n, o).kind = "rejoin" /\ RejoinRun(s, n, o).sid = s
      /\ RejoinRun(s, n, o).name = n
  BY DEF RejoinRun
<1> QED BY <1>1, <1>2, <1>3

LEMMA TypedInit == Init => Typed
<1> SUFFICES ASSUME Init PROVE Typed
  OBVIOUS
<1> USE DEF Init, MaybeName, MaybeSid
<1>1. run \in [Runs -> Run]
  BY DEF IdleRun, Run
<1>2. kick \in [Kicks -> Kick] /\ echo \in [Runs -> Echo]
  BY DEF Kick, Echo
<1>3. phone \in [Phones -> Phone]
  BY DEF Phone, Cookie, NoCookie
<1>4. board \in [Pages -> Board]
  <2>1. \A p \in Pages : (p = FirstHost) \in BOOLEAN
    OBVIOUS
  <2> QED BY <2>1, Zenon DEF Board
<1>5. sess \in [Sids -> Session]
  BY DEF NoSession, Session
<1>6. session \in Pages \cup {NoPage} /\ admin \subseteq Pages /\ stage \subseteq Pages
  BY LobbyAssumption DEF Pages
<1>7. TypeOK
  BY <1>1, <1>2, <1>3, <1>4, <1>5, <1>6 DEF TypeOK
<1>8. PhonesKnown
  BY LobbyAssumption DEF PhonesKnown
<1>9. RunsKnown /\ KicksKnown
  BY DEF RunsKnown, Known, KicksKnown, IdleRun
<1> QED BY <1>7, <1>8, <1>9 DEF Typed

(***************************************************************************)
(* What a step does to its run, and what it may do to the pages.           *)
(***************************************************************************)
Moves(r, step) ==
  /\ run' \in [Runs -> Run]
  /\ Follows(run'[r], run[r], step)
  /\ \A q \in Runs \ {r} : run'[q] = run[q]

\* Connections only get newer, and a phone that stays on one keeps its name or
\* takes another.
PagesGoOn ==
  \A t \in Phones :
    /\ phone[t].conns \in Nat /\ phone'[t].conns \in Nat
    /\ phone[t].conns <= phone'[t].conns
    /\ phone'[t].online /\ phone'[t].conns = phone[t].conns =>
         phone[t].online /\ phone'[t].name \in Names \cup {phone[t].name}

LEMMA RunKept ==
  ASSUME Typed, PagesGoOn, NEW r \in Runs,
         \/ run'[r] = run[r]
         \/ run[r].pc # "idle" /\ \E step \in RunSteps \ {"idle"} : Follows(run'[r], run[r], step)
  PROVE  Known(r)'
<1>1. CASE run[r].pc = "idle"
  BY <1>1 DEF Typed, RunsKnown, Known
<1>2. CASE run[r].pc # "idle"
  <2> DEFINE s == run[r].sid
  <2>1. /\ run[r].name \in Names /\ s \in Sids /\ s[2] <= phone[s[1]].conns
        /\ run[r].kind = "join" /\ Listens(s) => phone[s[1]].name \in Names
    BY <1>2 DEF Typed, RunsKnown, Known
  <2>2. /\ run'[r].pc # "idle" /\ run'[r].name = run[r].name /\ run'[r].sid = s
        /\ run'[r].kind = run[r].kind
    BY <1>2 DEF Follows
  <2>3. s[1] \in Phones /\ s[2] \in Nat
    BY <2>1, SidFacts, LobbyAssumption
  <2>4. s[2] <= phone'[s[1]].conns
    BY <2>1, <2>3 DEF PagesGoOn
  <2>5. ASSUME run[r].kind = "join", Listens(s)' PROVE phone'[s[1]].name \in Names
    <3>1. phone'[s[1]].online /\ phone'[s[1]].conns = s[2]
      BY <2>2, <2>5 DEF Listens
    <3>2. phone[s[1]].conns = s[2]
      BY <2>1, <2>3, <3>1 DEF PagesGoOn
    <3>3. phone[s[1]].online /\ phone'[s[1]].name \in Names \cup {phone[s[1]].name}
      BY <2>3, <3>1, <3>2 DEF PagesGoOn
    <3> QED BY <2>1, <2>5, <3>2, <3>3 DEF Listens
  <2> QED BY <2>1, <2>2, <2>4, <2>5 DEF Known
<1> QED BY <1>1, <1>2

LEMMA AllRunsKept ==
  ASSUME Typed, PagesGoOn, UNCHANGED run
  PROVE  RunsKnown'
<1>1. \A r \in Runs : Known(r)'
  BY RunKept
<1> QED BY <1>1 DEF RunsKnown

LEMMA MovesKnown ==
  ASSUME Typed, PagesGoOn, NEW r \in Runs, NEW step \in RunSteps \ {"idle"}, Moves(r, step),
         run[r].pc # "idle"
  PROVE  RunsKnown'
<1>1. \A q \in Runs : Known(q)'
  BY RunKept DEF Moves
<1> QED BY <1>1 DEF RunsKnown

LEMMA StandStill ==
  ASSUME Typed, UNCHANGED phone
  PROVE  PagesGoOn
BY DEF Typed, TypeOK, Phone, PagesGoOn

LEMMA GotoEffect ==
  ASSUME Typed, NEW r \in Runs, NEW step \in RunSteps, Goto(r, step)
  PROVE  Moves(r, step)
<1>1. run \in [Runs -> Run] /\ run' = [run EXCEPT ![r] = WithPc(run[r], step)]
  BY DEF Typed, TypeOK, Goto, Becomes, WithPc
<1>2. Follows(WithPc(run[r], step), run[r], step)
  BY <1>1, RunRecords
<1> QED BY <1>1, <1>2 DEF Moves, Follows

LEMMA ReadGameEffect ==
  ASSUME Typed, NEW r \in Runs, ReadGame(r)
  PROVE  Moves(r, "match")
<1>1. /\ run \in [Runs -> Run] /\ started \in BOOLEAN
      /\ run' = [run EXCEPT ![r] = WithGame(run[r], started)]
  BY DEF Typed, TypeOK, ReadGame, Becomes, WithGame
<1>2. Follows(WithGame(run[r], started), run[r], "match")
  BY <1>1, RunRecords DEF RunSteps
<1> QED BY <1>1, <1>2 DEF Moves, Follows

(***************************************************************************)
(* The other records.                                                      *)
(***************************************************************************)
LEMMA EchoTyped ==
  ASSUME Typed, NEW r \in Runs
  PROVE  /\ SyncOf(r) \in [Runs -> Echo]
         /\ \A step \in {"done", "failed"} : [echo EXCEPT ![r].pc = step] \in [Runs -> Echo]
<1>1. echo \in [Runs -> Echo]
  BY DEF Typed, TypeOK
<1>2. ASSUME NEW step \in {"sent", "none", "done", "failed"}
      PROVE  [echo EXCEPT ![r].pc = step] \in [Runs -> Echo]
  BY <1>1 DEF Echo
<1> QED BY <1>2 DEF SyncOf

\* A phone's page p, as it gets other values.
LEMMA PageTyped ==
  ASSUME Typed, NEW t \in Phones, NEW p \in Phone, PhoneAs(t, p),
         phone[t].conns <= p.conns, p.conns <= Conns[t], p.online => p.conns # 0,
         p.cookie # NoCookie => p.cookie.name \in Names,
         p.online /\ p.conns = phone[t].conns =>
           phone[t].online /\ p.name \in Names \cup {phone[t].name}
  PROVE  phone' \in [Phones -> Phone] /\ PhonesKnown' /\ PagesGoOn
<1>1. phone \in [Phones -> Phone]
  BY DEF Typed, TypeOK
<1>2. phone' \in [Phones -> Phone] /\ phone'[t] = p /\ \A u \in Phones \ {t} : phone'[u] = phone[u]
  BY <1>1 DEF PhoneAs
<1>3. PhonesKnown'
  BY <1>2 DEF Typed, PhonesKnown
<1>4. PagesGoOn
  BY <1>1, <1>2 DEF PagesGoOn, Phone
<1> QED BY <1>2, <1>3, <1>4

\* The pages as joined_game and rejoined_game, and a kick, leave them.
Accepted(x, s)  == [x EXCEPT !.joined = TRUE, !.cookie = [name |-> x.name, sid |-> s]]
Sent(x)         == [Reset(x) EXCEPT !.online = FALSE, !.kicked = TRUE]

\* y is page x with the same connection and name.
SamePage(y, x) == /\ y \in Phone /\ y.conns = x.conns /\ y.online = x.online
                  /\ y.name = x.name

LEMMA SamePageTyped ==
  ASSUME Typed, NEW t \in Phones, NEW p, PhoneAs(t, p), SamePage(p, phone[t]),
         p.cookie # NoCookie => p.cookie.name \in Names
  PROVE  phone' \in [Phones -> Phone] /\ PhonesKnown' /\ PagesGoOn
<1>1. /\ phone[t].conns \in Nat /\ phone[t].conns <= Conns[t]
      /\ phone[t].online => phone[t].conns # 0
  BY DEF Typed, TypeOK, Phone, PhonesKnown
<1>2. p \in Phone /\ p.conns = phone[t].conns /\ p.online = phone[t].online
      /\ p.name = phone[t].name
  BY DEF SamePage
<1> QED BY <1>1, <1>2, PageTyped

LEMMA PageRecords ==
  ASSUME NEW x \in Phone, NEW s \in Sids, NEW b \in BOOLEAN
  PROVE  /\ SamePage(Accepted(x, s), x) /\ Accepted(x, s).cookie = [name |-> x.name, sid |-> s]
         /\ SamePage(Rejoined(x, b), x) /\ Rejoined(x, b).cookie = x.cookie
<1> USE DEF Phone, Cookie, MaybeName, MaybeSid, SamePage
<1>1. SamePage(Accepted(x, s), x) /\ Accepted(x, s).cookie = [name |-> x.name, sid |-> s]
  BY DEF Accepted
<1>2. SamePage(Rejoined(x, b), x) /\ Rejoined(x, b).cookie = x.cookie
  <2>1. (x.started \/ b) \in BOOLEAN
    OBVIOUS
  <2>2. ASSUME NEW c \in BOOLEAN
        PROVE  LET y == [x EXCEPT !.joined = TRUE, !.started = c] IN
                 SamePage(y, x) /\ y.cookie = x.cookie
    OBVIOUS
  <2>3. Rejoined(x, b) = [x EXCEPT !.joined = TRUE, !.started = x.started \/ b]
    BY DEF Rejoined
  <2> HIDE DEF SamePage, Phone
  <2> QED BY <2>1, <2>2, <2>3, Zenon
<1> QED BY <1>1, <1>2

LEMMA ResetRecords ==
  ASSUME NEW x \in Phone
  PROVE  /\ Reset(x) \in Phone /\ Reset(x).conns = x.conns /\ Reset(x).online = x.online
         /\ Reset(x).cookie = x.cookie
         /\ Sent(x) \in Phone /\ Sent(x).conns = x.conns /\ ~Sent(x).online
         /\ Sent(x).cookie = x.cookie
<1> USE DEF Phone
<1>1. Reset(x) \in Phone /\ Reset(x).conns = x.conns /\ Reset(x).online = x.online
      /\ Reset(x).cookie = x.cookie
  BY DEF Reset, MaybeName
<1> QED BY <1>1 DEF Sent

LEMMA SessionTyped ==
  ASSUME Typed, NEW s, NEW n \in MaybeName, NEW b \in BOOLEAN
  PROVE  [sess EXCEPT ![s] = [name |-> n, ping |-> b]] \in [Sids -> Session]
<1>1. sess \in [Sids -> Session] /\ [name |-> n, ping |-> b] \in Session
  BY DEF Typed, TypeOK, Session
<1> QED BY <1>1, Zenon

LEMMA PlayerJoins ==
  ASSUME Typed, NEW n \in Names, NEW s \in MaybeSid
  PROVE  Boards(n, s) \in [Pages -> Board]
BY DEF Typed, TypeOK, Boards, Joined, Board

(***************************************************************************)
(* Types: one step per action.                                             *)
(***************************************************************************)
LEMMA TypedRun ==
  ASSUME Typed, NEW r \in Runs, RunStep(r)
  PROVE  Typed'
<1> USE DEF TypeOK, KicksKnown, keys, sockets, calls, screens, history, RunSteps
<1>0. run[r].pc # "idle" => run[r].name \in Names /\ run[r].sid \in Sids
  BY DEF Typed, RunsKnown, Known
<1>1. ASSUME NEW step \in RunSteps \ {"idle"}, Moves(r, step), run[r].pc # "idle",
             UNCHANGED phone
      PROVE  run' \in [Runs -> Run] /\ RunsKnown' /\ PhonesKnown'
  BY <1>1, StandStill, MovesKnown DEF Typed, PhonesKnown, Moves
<1>2. CASE ReadStarted(r)
  <2>1. \E step \in {"done", "name"} : Goto(r, step)
    BY <1>2 DEF ReadStarted
  <2>2. run' \in [Runs -> Run] /\ RunsKnown' /\ PhonesKnown'
    BY <1>1, <1>2, <2>1, GotoEffect DEF ReadStarted
  <2> QED BY <1>2, <2>2 DEF ReadStarted, Typed
<1>3. CASE CheckName(r)
  <2>1. (\E step \in {"done", "save"} : Goto(r, step)) /\ clash' \subseteq Names
    BY <1>0, <1>3 DEF CheckName, NoteHolder, Typed
  <2>2. run' \in [Runs -> Run] /\ RunsKnown' /\ PhonesKnown'
    BY <1>1, <1>3, <2>1, GotoEffect DEF CheckName
  <2> QED BY <1>3, <2>1, <2>2 DEF CheckName, Typed
<1>4. CASE SaveSession(r)
  <2>1. CASE run[r].sid \notin alive
    BY <1>1, <1>4, <2>1, GotoEffect DEF SaveSession, Typed
  <2>2. CASE run[r].sid \in alive /\ ~Listens(run[r].sid)
    <3>1. Goto(r, "seat") /\ UNCHANGED phone
      BY <1>4, <2>2 DEF SaveSession
    <3>2. run' \in [Runs -> Run] /\ RunsKnown' /\ PhonesKnown'
      BY <1>1, <1>4, <3>1, GotoEffect DEF SaveSession
    <3>3. sess' \in [Sids -> Session]
      <4>1. sess' = [sess EXCEPT ![run[r].sid] = [name |-> run[r].name, ping |-> FALSE]]
        BY <1>4, <2>2 DEF SaveSession
      <4>2. run[r].name \in MaybeName
        BY <1>0, <1>4 DEF SaveSession, MaybeName
      <4> QED BY <4>1, <4>2, SessionTyped, Zenon
    <3> QED BY <1>4, <3>1, <3>2, <3>3 DEF SaveSession, Typed
  <2>3. CASE run[r].sid \in alive /\ Listens(run[r].sid)
    <3> DEFINE s == run[r].sid
               t == s[1]
    <3>1. /\ Goto(r, "seat") /\ PhoneAs(t, Accepted(phone[t], s))
          /\ run[r].pc = "save" /\ run[r].kind = "join"
      BY <1>4, <2>3 DEF SaveSession, Accepted
    <3>2. s \in Sids /\ t \in Phones /\ phone[t].name \in Names
      BY <1>0, <2>3, <3>1, SidFacts DEF Typed, RunsKnown, Known
    <3>3. phone[t] \in Phone
      BY <3>2 DEF Typed
    <3>4. phone' \in [Phones -> Phone] /\ PhonesKnown' /\ PagesGoOn
      <4>1. SamePage(Accepted(phone[t], s), phone[t])
            /\ Accepted(phone[t], s).cookie = [name |-> phone[t].name, sid |-> s]
        BY <3>2, <3>3, PageRecords
      <4>2. Accepted(phone[t], s).cookie.name \in Names
        BY <3>2, <4>1
      <4> QED BY <3>1, <3>2, <4>1, <4>2, SamePageTyped
    <3>5. run' \in [Runs -> Run] /\ RunsKnown'
      BY <3>1, <3>4, GotoEffect, MovesKnown DEF Moves
    <3>6. sess' \in [Sids -> Session]
      <4>1. sess' = [sess EXCEPT ![run[r].sid] = [name |-> run[r].name, ping |-> FALSE]]
        BY <1>4, <2>3 DEF SaveSession
      <4>2. run[r].name \in MaybeName
        BY <1>0, <1>4 DEF SaveSession, MaybeName
      <4> QED BY <4>1, <4>2, SessionTyped, Zenon
    <3> QED BY <1>4, <3>4, <3>5, <3>6 DEF SaveSession, Typed
  <2> QED BY <2>1, <2>2, <2>3
<1>5. CASE TakeSeat(r)
  <2>1. \E step \in {"failed", "add", "unseat"} : Goto(r, step)
    BY <1>5 DEF TakeSeat
  <2>2. run' \in [Runs -> Run] /\ RunsKnown' /\ PhonesKnown'
    BY <1>1, <1>5, <2>1, GotoEffect DEF TakeSeat
  <2>3. seats' \in [Names -> MaybeSid]
    BY <1>0, <1>5 DEF TakeSeat, Typed, MaybeSid
  <2> QED BY <1>5, <2>2, <2>3 DEF TakeSeat, Typed
<1>6. CASE AddPlayer(r)
  <2>0. run[r].name \in Names /\ run[r].sid \in Sids
    BY <1>0, <1>6 DEF AddPlayer
  <2>1. \E step \in {"enter", "save"} : Goto(r, step)
    BY <1>6 DEF AddPlayer
  <2>2. run' \in [Runs -> Run] /\ RunsKnown' /\ PhonesKnown'
    BY <1>1, <1>6, <2>1, GotoEffect DEF AddPlayer
  <2>3. board' \in [Pages -> Board]
    BY <1>6, <2>0, PlayerJoins DEF AddPlayer, Typed, MaybeSid
  <2>5. echo' \in [Runs -> Echo]
    BY <1>6, EchoTyped DEF AddPlayer, Typed
  <2>4. roster' \subseteq Names \X MaybeSid
    BY <1>6, <2>0 DEF AddPlayer, Entry, Typed, MaybeSid
  <2> QED BY <1>6, <2>2, <2>3, <2>4, <2>5 DEF AddPlayer, Typed
<1>7. CASE EnterRoom(r)
  <2>1. \E step \in {"done", "failed"} : Goto(r, step)
    BY <1>7 DEF EnterRoom
  <2>2. run' \in [Runs -> Run] /\ RunsKnown' /\ PhonesKnown'
    BY <1>1, <1>7, <2>1, GotoEffect DEF EnterRoom
  <2>3. room' \subseteq Sids
    BY <1>7 DEF EnterRoom, Entered, Typed
  <2> QED BY <1>7, <2>2, <2>3 DEF EnterRoom, Typed
<1>8. CASE ReadGame(r)
  <2>1. run' \in [Runs -> Run] /\ RunsKnown' /\ PhonesKnown'
    BY <1>1, <1>8, ReadGameEffect DEF ReadGame
  <2> QED BY <1>8, <2>1 DEF ReadGame, Typed
<1>9. CASE Match(r)
  <2>1. (\E step \in {"done", "seat"} : Goto(r, step)) /\ clash' \subseteq Names
    BY <1>0, <1>9 DEF Match, NoteHolder, Typed
  <2>2. run' \in [Runs -> Run] /\ RunsKnown' /\ PhonesKnown'
    BY <1>1, <1>9, <2>1, GotoEffect DEF Match
  <2>3. echo' \in [Runs -> Echo]
    BY <1>9, EchoTyped DEF Match, Typed
  <2> QED BY <1>9, <2>1, <2>2, <2>3 DEF Match, Typed
<1>10. CASE Unseat(r)
  <2>1. run' \in [Runs -> Run] /\ RunsKnown' /\ PhonesKnown'
    BY <1>1, <1>10, GotoEffect DEF Unseat
  <2> QED BY <1>10, <2>1 DEF Unseat, Typed
<1>11. CASE Return(r)
  <2>1. CASE run[r].sid \notin alive
    BY <1>1, <1>11, <2>1, GotoEffect DEF Return, Typed
  <2>2. CASE run[r].sid \in alive
    <3> DEFINE s == run[r].sid
               t == s[1]
    <3>1. s \in Sids /\ t \in Phones
      BY <1>0, <1>11, SidFacts DEF Return
    <3>2. sess' \in [Sids -> Session]
      <4>1. sess' = [sess EXCEPT ![run[r].sid] = [name |-> run[r].name, ping |-> FALSE]]
        BY <1>11, <2>2 DEF Return
      <4>2. run[r].name \in MaybeName
        BY <1>0, <1>11 DEF Return, MaybeName
      <4> QED BY <4>1, <4>2, SessionTyped, Zenon
    <3>5. room' \subseteq Sids
      BY <1>11, <2>2, <3>1 DEF Return, Typed, Entered
    <3>3. phone' \in [Phones -> Phone] /\ PhonesKnown' /\ PagesGoOn
      <4>1. CASE ~Listens(s)
        BY <1>11, <2>2, <4>1, StandStill DEF Return, Typed, PhonesKnown
      <4>2. CASE Listens(s)
        <5>1. PhoneAs(t, Rejoined(phone[t], run[r].saw)) /\ run[r].saw \in BOOLEAN
          BY <1>11, <2>2, <4>2 DEF Return, Typed, Run
        <5>2. phone[t] \in Phone /\ (phone[t].cookie # NoCookie => phone[t].cookie.name \in Names)
          BY <3>1 DEF Typed, PhonesKnown
        <5>3. SamePage(Rejoined(phone[t], run[r].saw), phone[t])
              /\ Rejoined(phone[t], run[r].saw).cookie = phone[t].cookie
          BY <3>1, <5>1, <5>2, PageRecords
        <5> QED BY <3>1, <5>1, <5>2, <5>3, SamePageTyped
      <4> QED BY <4>1, <4>2
    <3>4. run' \in [Runs -> Run] /\ RunsKnown'
      BY <1>11, <2>2, <3>3, GotoEffect, MovesKnown DEF Moves, Return
    <3> QED BY <1>11, <3>2, <3>3, <3>4, <3>5 DEF Return, Typed
  <2> QED BY <2>1, <2>2
<1> QED BY <1>2, <1>3, <1>4, <1>5, <1>6, <1>7, <1>8, <1>9, <1>10, <1>11 DEF RunStep

\* Steps of others leave runs and pages alone.
LEMMA RunsAlone ==
  ASSUME Typed, UNCHANGED <<run, phone>>
  PROVE  RunsKnown' /\ PhonesKnown'
BY AllRunsKept, StandStill DEF Typed, PhonesKnown

LEMMA TypedEcho ==
  ASSUME Typed, NEW r \in Runs, EchoStep(r)
  PROVE  Typed'
<1> USE DEF TypeOK, KicksKnown, keys, sockets, calls, screens, history
<1>1. RunsKnown' /\ PhonesKnown'
  BY RunsAlone DEF EchoStep, EchoRead, EchoWrite
<1>2. CASE EchoRead(r)
  <2>1. sess \in [Sids -> Session] /\ alive \subseteq Sids /\ echo \in [Runs -> Echo]
        /\ early \subseteq Sids
    BY DEF Typed
  <2>2. PICK e \in Echo : echo' = [echo EXCEPT ![r] = e]
    <3>1. CASE run[r].sid \in alive /\ sess[run[r].sid] # NoSession
      <4>1. sess[run[r].sid].name \in MaybeName
        BY <2>1, <3>1 DEF Session
      <4>2. [pc |-> "write", name |-> sess[run[r].sid].name] \in Echo
        BY <4>1 DEF Echo
      <4> QED BY <1>2, <3>1, <4>2 DEF EchoRead
    <3>2. CASE ~(run[r].sid \in alive /\ sess[run[r].sid] # NoSession)
      <4>1. [pc |-> "failed", name |-> NoName] \in Echo
        BY DEF Echo, MaybeName
      <4> QED BY <1>2, <3>2, <4>1 DEF EchoRead
    <3> QED BY <3>1, <3>2
  <2>3. echo' \in [Runs -> Echo]
    BY <2>1, <2>2
  <2>4. early' \subseteq Sids
    <3>1. run[r].kind = "rejoin" => run[r].sid \in Sids
      BY DEF Typed, RunsKnown, Known
    <3> QED BY <1>2, <2>1, <3>1 DEF EchoRead
  <2> QED BY <1>1, <1>2, <2>3, <2>4 DEF EchoRead, Typed
<1>3. CASE EchoWrite(r)
  <2>1. echo' \in [Runs -> Echo]
    BY <1>3, EchoTyped DEF EchoWrite
  <2>2. sess' \in [Sids -> Session]
    <3>1. CASE run[r].sid \notin alive
      BY <1>3, <3>1 DEF EchoWrite, Typed
    <3>2. CASE run[r].sid \in alive
      <4>1. sess' = [sess EXCEPT ![run[r].sid] = [name |-> echo[r].name, ping |-> TRUE]]
        BY <1>3, <3>2 DEF EchoWrite, Pinged
      <4>2. echo[r].name \in MaybeName
        BY DEF Typed, Echo
      <4> QED BY <4>1, <4>2, SessionTyped, Zenon
    <3> QED BY <3>1, <3>2
  <2> QED BY <1>1, <1>3, <2>1, <2>2 DEF EchoWrite, Typed
<1> QED BY <1>2, <1>3 DEF EchoStep

LEMMA BoardRecords ==
  ASSUME NEW x \in Board, NEW b \in BOOLEAN, NEW l \in SUBSET (Names \X MaybeSid)
  PROVE  /\ [x EXCEPT !.registered = b] \in Board
         /\ [x EXCEPT !.started = b] \in Board
         /\ [x EXCEPT !.players = l] \in Board
BY DEF Board

\* start_game reaches the pages b tells.
Begun(x, b) == [x EXCEPT !.started = @ \/ b]

LEMMA BegunPhone ==
  ASSUME NEW x \in Phone, NEW b \in BOOLEAN
  PROVE  SamePage(Begun(x, b), x) /\ Begun(x, b).cookie = x.cookie
<1>1. (x.started \/ b) \in BOOLEAN
  OBVIOUS
<1>2. ASSUME NEW c \in BOOLEAN
      PROVE  SamePage([x EXCEPT !.started = c], x) /\ [x EXCEPT !.started = c].cookie = x.cookie
  BY DEF Phone, SamePage
<1>3. Begun(x, b) = [x EXCEPT !.started = x.started \/ b]
  BY DEF Begun
<1> QED BY <1>1, <1>2, <1>3, Zenon

LEMMA BegunBoard ==
  ASSUME NEW x \in Board, NEW b \in BOOLEAN
  PROVE  Begun(x, b) \in Board
<1>1. (x.started \/ b) \in BOOLEAN
  OBVIOUS
<1>2. ASSUME NEW c \in BOOLEAN PROVE [x EXCEPT !.started = c] \in Board
  BY DEF Board
<1>3. Begun(x, b) = [x EXCEPT !.started = x.started \/ b]
  BY DEF Begun
<1> QED BY <1>1, <1>2, <1>3, Zenon

LEMMA EmitStartPages ==
  ASSUME Typed, NEW p \in Pages, EmitStart(p)
  PROVE  /\ phone' \in [Phones -> Phone] /\ PhonesKnown' /\ PagesGoOn
         /\ board' \in [Pages -> Board]
<1>1. phone \in [Phones -> Phone] /\ board \in [Pages -> Board]
  BY DEF Typed, TypeOK
<1> DEFINE heard(t) == \E s \in room : s[1] = t /\ Listens(s)
<1>2. \A t \in Phones : heard(t) \in BOOLEAN
  OBVIOUS
<1>3. /\ phone' = [t \in Phones |-> Begun(phone[t], heard(t))]
      /\ board' = [q \in Pages |-> Begun(board[q], q \in stage)]
  BY DEF EmitStart, Begun
<1> HIDE DEF heard
<1>4. \A t \in Phones : /\ SamePage(Begun(phone[t], heard(t)), phone[t])
                        /\ Begun(phone[t], heard(t)).cookie = phone[t].cookie
  BY <1>1, <1>2, BegunPhone
<1>5. \A t \in Phones : /\ phone'[t] \in Phone /\ phone'[t].conns = phone[t].conns
                        /\ phone'[t].online = phone[t].online /\ phone'[t].name = phone[t].name
                        /\ phone'[t].cookie = phone[t].cookie
  BY <1>3, <1>4 DEF SamePage
<1>6. phone' \in [Phones -> Phone]
  BY <1>3, <1>5
<1>7. PhonesKnown'
  BY <1>5 DEF Typed, PhonesKnown
<1>8. PagesGoOn
  BY <1>1, <1>5 DEF PagesGoOn, Phone
<1>9. board' \in [Pages -> Board]
  <2>1. \A q \in Pages : (q \in stage) \in BOOLEAN
    OBVIOUS
  <2>2. \A q \in Pages : Begun(board[q], q \in stage) \in Board
    BY <1>1, <2>1, BegunBoard, Zenon
  <2> QED BY <1>3, <2>2, Zenon
<1> QED BY <1>6, <1>7, <1>8, <1>9

LEMMA TypedPage ==
  ASSUME Typed, NEW p \in Pages, PageStep(p)
  PROVE  Typed'
<1> USE DEF TypeOK, KicksKnown, keys, sockets, calls, screens, history
<1>1. UNCHANGED <<run, phone>> => RunsKnown' /\ PhonesKnown'
  BY RunsAlone
<1>2. CASE CheckSession(p)
  BY <1>1, <1>2 DEF CheckSession, RegAs, Typed
<1>3. CASE ClaimSession(p)
  BY <1>1, <1>3 DEF ClaimSession, RegAs, Typed
<1>4. CASE Welcome(p)
  <2>1. [board[p] EXCEPT !.registered = TRUE] \in Board
    BY BoardRecords DEF Typed
  <2> QED BY <1>1, <1>4, <2>1 DEF Welcome, RegAs, BoardAs, Typed
<1>5. CASE SaveAdmin(p)
  BY <1>1, <1>5 DEF SaveAdmin, RegAs, Typed
<1>6. CASE StoreStarted(p)
  BY <1>1, <1>6 DEF StoreStarted, Typed
<1>7. CASE EmitStart(p)
  <2>1. RunsKnown'
    BY <1>7, EmitStartPages, AllRunsKept DEF EmitStart
  <2>2. crossed' \subseteq Sids
    BY <1>7 DEF EmitStart, Typed
  <2> QED BY <1>7, <2>1, <2>2, EmitStartPages DEF EmitStart, Typed
<1> QED BY <1>2, <1>3, <1>4, <1>5, <1>6, <1>7 DEF PageStep

\* A run of kick_player at another step, with the sid it has found.
KickTo(x, step, s) == [x EXCEPT !.pc = step, !.sid = s]
NewKick(x, p, n)   == [x EXCEPT !.pc = "sent", !.page = p, !.name = n]

LEMMA KickTyped ==
  ASSUME Typed, NEW k \in Kicks, NEW x \in Kick, KickAs(k, x), x.name \in Names
  PROVE  kick' \in [Kicks -> Kick] /\ KicksKnown'
<1>1. kick \in [Kicks -> Kick] /\ kick' = [kick EXCEPT ![k] = x]
  BY DEF Typed, TypeOK, KickAs
<1> QED BY <1>1 DEF Typed, KicksKnown

LEMMA RemovePages ==
  ASSUME Typed, NEW k \in Kicks, Remove(k)
  PROVE  phone' \in [Phones -> Phone] /\ PhonesKnown' /\ PagesGoOn
<1>1. phone \in [Phones -> Phone]
  BY DEF Typed, TypeOK
<1>2. phone' = [t \in Phones |-> IF t \in Reached(kick[k].sid) THEN Sent(phone[t]) ELSE phone[t]]
  BY DEF Remove, Sent
<1>3. \A t \in Phones : /\ Sent(phone[t]) \in Phone /\ ~Sent(phone[t]).online
                        /\ Sent(phone[t]).conns = phone[t].conns
                        /\ Sent(phone[t]).cookie = phone[t].cookie
  BY <1>1, ResetRecords
<1>4. \A t \in Phones : /\ phone'[t] \in Phone /\ phone'[t].conns = phone[t].conns
                        /\ phone'[t].cookie = phone[t].cookie
                        /\ phone'[t].online => phone'[t] = phone[t]
  BY <1>1, <1>2, <1>3
<1>5. phone' \in [Phones -> Phone]
  BY <1>2, <1>4
<1>6. PhonesKnown'
  BY <1>4 DEF Typed, PhonesKnown
<1>7. PagesGoOn
  BY <1>1, <1>4 DEF PagesGoOn, Phone
<1> QED BY <1>5, <1>6, <1>7

LEMMA TypedKick ==
  ASSUME Typed, NEW k \in Kicks, KickStep(k)
  PROVE  Typed'
<1> USE DEF keys, sockets, calls, screens, history
<1>0. kick[k] \in Kick /\ (kick[k].pc # "idle" => kick[k].name \in Names)
  BY DEF Typed, TypeOK, KicksKnown
<1>1. CASE FindSeat(k)
  <2>1. seats[kick[k].name] \in MaybeSid /\ kick[k].name \in Names
    BY <1>0, <1>1 DEF FindSeat, Typed, TypeOK
  <2>2. \/ KickAs(k, KickTo(kick[k], "remove", seats[kick[k].name]))
        \/ KickAs(k, [kick[k] EXCEPT !.pc = "failed"])
    BY <1>1 DEF FindSeat, KickTo, SeatOf
  <2>3. PICK x \in Kick : KickAs(k, x) /\ x.name \in Names
    <3>1. kick[k].page \in Pages \/ kick[k].page = NoPage
      BY <1>0 DEF Kick
    <3> DEFINE y == KickTo(kick[k], "remove", seats[kick[k].name])
               z == [kick[k] EXCEPT !.pc = "failed"]
    <3>2. y \in Kick /\ y.name = kick[k].name
      BY <1>0, <2>1 DEF KickTo, Kick
    <3>3. z \in Kick /\ z.name = kick[k].name
      BY <1>0 DEF Kick
    <3> HIDE DEF y, z
    <3> QED BY <2>1, <2>2, <3>2, <3>3 DEF y, z
  <2>4. kick' \in [Kicks -> Kick] /\ KicksKnown'
    BY <2>3, KickTyped
  <2> QED BY <1>1, <2>4, RunsAlone DEF FindSeat, Typed, TypeOK
<1>2. CASE Remove(k)
  <2>1. kick[k].name \in Names
    BY <1>0, <1>2 DEF Remove
  <2>2. /\ [kick[k] EXCEPT !.pc = "done"] \in Kick
        /\ [kick[k] EXCEPT !.pc = "done"].name = kick[k].name
    BY <1>0 DEF Kick
  <2>3. kick' \in [Kicks -> Kick] /\ KicksKnown'
    BY <1>2, <2>1, <2>2, KickTyped DEF Remove
  <2>4. RunsKnown'
    BY <1>2, RemovePages, AllRunsKept DEF Remove
  <2>5. thrown' \subseteq Sids
    BY <1>0, <1>2 DEF Remove, Typed, TypeOK, Kick, MaybeSid
  <2> QED BY <1>2, <2>3, <2>4, <2>5, RemovePages DEF Remove, Typed, TypeOK
<1> QED BY <1>1, <1>2 DEF KickStep

LEMMA TypedBox ==
  ASSUME Typed, NEW b \in Boxes, BoxStep(b)
  PROVE  Typed'
<1> USE DEF TypeOK, KicksKnown, keys, sockets, calls, screens, history, BoxAs
<1>1. RunsKnown' /\ PhonesKnown'
  BY RunsAlone DEF BoxStep, BoxLookUp, BoxCheckName, BoxConnect
<1>2. CASE BoxLookUp(b)
  BY <1>1, <1>2 DEF BoxLookUp, Typed
<1>3. CASE BoxCheckName(b)
  BY <1>1, <1>3 DEF BoxCheckName, Typed
<1>4. CASE BoxConnect(b)
  <2>1. BoxName[b] \in Names /\ NoSid \in MaybeSid
    BY LobbyAssumption DEF MaybeSid
  <2>2. board' \in [Pages -> Board]
    BY <1>4, <2>1, PlayerJoins DEF BoxConnect
  <2>3. roster' \subseteq Names \X MaybeSid
    BY <1>4, <2>1 DEF BoxConnect, Typed
  <2> QED BY <1>1, <1>4, <2>2, <2>3 DEF BoxConnect, Typed
<1> QED BY <1>2, <1>3, <1>4 DEF BoxStep

LEMMA TypedUser ==
  ASSUME Typed, UserStep
  PROVE  Typed'
<1> USE DEF keys, sockets, calls, screens, history
<1>0. /\ phone \in [Phones -> Phone] /\ run \in [Runs -> Run] /\ board \in [Pages -> Board]
      /\ alive \subseteq Sids
      /\ \A t \in Phones : /\ phone[t] \in Phone /\ phone[t].conns <= Conns[t]
                           /\ phone[t].conns \in Nat /\ Conns[t] \in Nat
                           /\ phone[t].online => phone[t].conns # 0
                           /\ phone[t].cookie # NoCookie => phone[t].cookie.name \in Names
                           /\ phone[t].cookie.sid \in MaybeSid
  BY LobbyAssumption DEF Typed, TypeOK, PhonesKnown, Phone, Cookie
<1>1. ASSUME NEW t \in Phones, Connect(t) PROVE Typed'
  <2> DEFINE x    == phone[t]
             s    == <<t, x.conns + 1>>
             page == IF x.online THEN Reset(x) ELSE x
             y    == [page EXCEPT !.online = TRUE, !.conns = @ + 1]
  <2>1. s \in Sids /\ s[1] = t /\ s[2] = x.conns + 1
    BY <1>0, <1>1, SidExists DEF Connect
  <2>2. page \in Phone /\ page.conns = x.conns /\ page.cookie = x.cookie
    BY <1>0, ResetRecords
  <2>3. PhoneAs(t, y) /\ alive' = alive \cup {s}
        /\ (run' = run \/ \E r \in Runs :
              /\ run[r].pc = "idle" /\ page.cookie # NoCookie
              /\ Becomes(r, RejoinRun(s, page.cookie.name, page.cookie.sid)))
    BY <1>1 DEF Connect, RejoinRun
  <2> HIDE DEF page
  <2>4. y \in Phone /\ y.conns = x.conns + 1 /\ y.cookie = x.cookie
    <3>1. ASSUME NEW g \in Phone, NEW i \in Nat
          PROVE  LET h == [g EXCEPT !.online = TRUE, !.conns = i] IN
                   h \in Phone /\ h.conns = i /\ h.cookie = g.cookie
      BY DEF Phone
    <3>2. x.conns + 1 \in Nat /\ y = [page EXCEPT !.online = TRUE, !.conns = x.conns + 1]
      BY <1>0, <2>2
    <3> HIDE DEF y
    <3> QED BY <2>2, <3>1, <3>2
  <2>5. phone' \in [Phones -> Phone] /\ PhonesKnown' /\ PagesGoOn
    <3>1. x.conns < Conns[t]
      BY <1>1 DEF Connect
    <3> HIDE DEF y
    <3> QED BY <1>0, <2>3, <2>4, <3>1, PageTyped
  <2>6. phone'[t].conns = s[2]
    BY <1>0, <2>1, <2>3, <2>4 DEF PhoneAs
  <2>7. run' \in [Runs -> Run] /\ RunsKnown'
    <3>1. CASE run' = run
      BY <1>0, <2>5, <3>1, AllRunsKept
    <3>2. ASSUME NEW r \in Runs, page.cookie # NoCookie,
                 Becomes(r, RejoinRun(s, page.cookie.name, page.cookie.sid))
          PROVE  run' \in [Runs -> Run] /\ RunsKnown'
      <4> DEFINE z == RejoinRun(s, page.cookie.name, page.cookie.sid)
      <4>1. /\ z \in Run /\ z.pc = "sent" /\ z.kind = "rejoin" /\ z.sid = s
            /\ z.name \in Names
        BY <1>0, <2>1, <2>2, <3>2, NewRuns
      <4>2. run' \in [Runs -> Run] /\ run'[r] = z /\ \A q \in Runs \ {r} : run'[q] = run[q]
        BY <1>0, <3>2, <4>1 DEF Becomes
      <4> HIDE DEF z
      <4>3. Known(r)'
        BY <1>0, <2>1, <2>6, <4>1, <4>2 DEF Known
      <4>4. \A q \in Runs \ {r} : Known(q)'
        BY <2>5, <4>2, RunKept
      <4> QED BY <4>2, <4>3, <4>4 DEF RunsKnown
    <3> QED BY <2>3, <3>1, <3>2
  <2>8. alive' \subseteq Sids
    BY <1>0, <2>1, <2>3
  <2> QED BY <1>1, <2>5, <2>7, <2>8 DEF Connect, Typed, TypeOK, KicksKnown
<1>2. ASSUME NEW t \in Phones, Lose(t) PROVE Typed'
  <2> DEFINE y == [phone[t] EXCEPT !.online = FALSE]
  <2>1. y \in Phone /\ y.conns = phone[t].conns /\ ~y.online /\ y.cookie = phone[t].cookie
    BY <1>0 DEF Phone
  <2>2. PhoneAs(t, y)
    BY <1>2 DEF Lose
  <2> HIDE DEF y
  <2>3. phone' \in [Phones -> Phone] /\ PhonesKnown' /\ PagesGoOn
    BY <1>0, <2>1, <2>2, PageTyped
  <2>4. RunsKnown'
    BY <1>2, <2>3, AllRunsKept DEF Lose
  <2> QED BY <1>2, <2>3, <2>4 DEF Lose, Typed, TypeOK, KicksKnown
<1>3. ASSUME NEW r \in Runs, NEW t \in Phones, NEW n \in Names, Enter(r, t, n) PROVE Typed'
  <2> DEFINE s == <<t, phone[t].conns>>
             y == [phone[t] EXCEPT !.name = n]
             z == JoinRun(s, n)
  <2>1. y \in Phone /\ y.conns = phone[t].conns /\ y.online /\ y.cookie = phone[t].cookie
        /\ y.name = n
    BY <1>0, <1>3 DEF Enter, Phone, MaybeName
  <2>2. PhoneAs(t, y) /\ Becomes(r, z)
    BY <1>3 DEF Enter, JoinRun
  <2>3. s \in Sids /\ s[1] = t /\ s[2] = phone[t].conns
    BY <1>0, <1>3, SidExists DEF Enter
  <2>4. z \in Run /\ z.pc = "sent" /\ z.kind = "join" /\ z.sid = s /\ z.name = n
    BY <2>3, NewRuns DEF MaybeSid
  <2> HIDE DEF y, z
  <2>5. phone' \in [Phones -> Phone] /\ PhonesKnown' /\ PagesGoOn
    BY <1>0, <1>3, <2>1, <2>2, PageTyped DEF Enter
  <2>6. run' \in [Runs -> Run] /\ run'[r] = z /\ \A q \in Runs \ {r} : run'[q] = run[q]
    BY <1>0, <2>2, <2>4 DEF Becomes
  <2>7. phone'[t] = y
    BY <1>0, <2>2 DEF PhoneAs
  <2>8. RunsKnown'
    <3>1. Known(r)'
      BY <1>0, <2>1, <2>3, <2>4, <2>6, <2>7 DEF Known
    <3>2. \A q \in Runs \ {r} : Known(q)'
      BY <2>5, <2>6, RunKept
    <3> QED BY <3>1, <3>2 DEF RunsKnown
  <2> QED BY <1>3, <2>5, <2>6, <2>8 DEF Enter, Typed, TypeOK, KicksKnown
<1>4. ASSUME NEW p \in Pages, Register(p) PROVE Typed'
  BY <1>4, RunsAlone DEF Register, RegAs, Typed, TypeOK, KicksKnown
<1>5. ASSUME NEW p \in Pages, OpenRemote(p) PROVE Typed'
  <2>1. [board[p] EXCEPT !.registered = TRUE] \in Board
    BY <1>0, BoardRecords
  <2> QED BY <1>5, <2>1, RunsAlone DEF OpenRemote, RegAs, BoardAs, Typed, TypeOK, KicksKnown
<1>6. ASSUME NEW p \in Pages, ClickStart(p) PROVE Typed'
  BY <1>6, RunsAlone DEF ClickStart, Typed, TypeOK, KicksKnown
<1>7. ASSUME NEW k \in Kicks, NEW p \in Pages, ClickKick(k, p) PROVE Typed'
  <2>1. PICK e \in board[p].players :
          /\ KickAs(k, NewKick(kick[k], p, e[1]))
          /\ BoardAs(p, [board[p] EXCEPT !.players = @ \ {e}])
          /\ named' = named \cup {e[1]}
    BY <1>7 DEF ClickKick, NewKick
  <2>2. board[p] \in Board /\ board[p].players \in SUBSET (Names \X MaybeSid)
    BY <1>0 DEF Board
  <2>3. e[1] \in Names
    BY <2>1, <2>2
  <2>4. NewKick(kick[k], p, e[1]) \in Kick /\ NewKick(kick[k], p, e[1]).name \in Names
    <3>1. kick[k] \in Kick
      BY DEF Typed, TypeOK
    <3> QED BY <2>3, <3>1 DEF Kick, NewKick, MaybeName
  <2>5. kick' \in [Kicks -> Kick] /\ KicksKnown'
    BY <2>1, <2>4, KickTyped
  <2>6. board' \in [Pages -> Board]
    <3>1. board[p].players \ {e} \in SUBSET (Names \X MaybeSid)
      BY <2>2
    <3>2. [board[p] EXCEPT !.players = board[p].players \ {e}] \in Board
      BY <2>2, <3>1, BoardRecords
    <3> QED BY <1>0, <2>1, <3>2 DEF BoardAs
  <2> QED BY <1>7, <2>1, <2>3, <2>5, <2>6, RunsAlone DEF ClickKick, Typed, TypeOK
<1> QED BY <1>1, <1>2, <1>3, <1>4, <1>5, <1>6, <1>7 DEF UserStep

LEMMA TypedTimeout ==
  ASSUME Typed, NEW s \in Sids, Timeout(s)
  PROVE  Typed'
BY RunsAlone DEF Timeout, Typed, TypeOK, KicksKnown, keys, sockets, calls, screens, history

LEMMA TypedStep == Typed /\ [Next]_vars => Typed'
<1> SUFFICES ASSUME Typed, [Next]_vars PROVE Typed'
  OBVIOUS
<1>1. CASE UserStep
  BY <1>1, TypedUser
<1>2. CASE \E s \in Sids : Timeout(s)
  BY <1>2, TypedTimeout
<1>3. CASE \E r \in Runs : RunStep(r) \/ EchoStep(r)
  BY <1>3, TypedRun, TypedEcho
<1>4. CASE \E p \in Pages : PageStep(p)
  BY <1>4, TypedPage
<1>5. CASE \E k \in Kicks : KickStep(k)
  BY <1>5, TypedKick
<1>6. CASE \E b \in Boxes : BoxStep(b)
  BY <1>6, TypedBox
<1>7. CASE UNCHANGED vars
  BY <1>7, RunsAlone DEF vars, keys, sockets, calls, screens, history, Typed, TypeOK, KicksKnown
<1> QED BY <1>1, <1>2, <1>3, <1>4, <1>5, <1>6, <1>7 DEF Next

\* Every step keeps every variable of its type: sids in the keys and the rooms,
\* names in the runs, pages and cookies, players on the hosts' lists.
THEOREM TypeCorrect == Spec => []TypeOK
<1>1. Typed => TypeOK
  BY DEF Typed
<1> QED BY <1>1, TypedInit, TypedStep, PTL DEF Spec

(***************************************************************************)
(* The inductive invariant of the players set and keys, in named parts.    *)
(***************************************************************************)
\* e is a phone's entry for name n.
EntryOf(e, n) == e[1] = n /\ e[2] # NoSid
HeldBy(r, n)  == Holds(r) /\ run[r].name = n

\* A run that holds a name which nobody else has held meanwhile: the key is its
\* own once it is set, and the only entry there can be is the one it takes out.
HolderOK(r) ==
  /\ run[r].pc \in {"unseat", "add"} => seats[run[r].name] = run[r].sid
  /\ \A e \in roster : EntryOf(e, run[r].name) =>
       run[r].kind = "rejoin" /\ run[r].pc \in {"seat", "unseat"} /\ e[2] = run[r].old

\* The same for a name: one run holds it, or none and its entry is its key.
NameOK(n) ==
  /\ \A r, q \in Runs : HeldBy(r, n) /\ HeldBy(q, n) => r = q
  /\ \A r \in Runs : HeldBy(r, n) => HolderOK(r)
  /\ (\A r \in Runs : ~HeldBy(r, n)) => \A e \in roster : EntryOf(e, n) => e[2] = seats[n]

MatchRejoins == \A r \in Runs : run[r].pc = "match" => run[r].kind = "rejoin"

NamesInv == MatchRejoins /\ \A n \in Names \ clash : NameOK(n)

IInv == Typed /\ NamesInv /\ SeatIsListed

(***************************************************************************)
(* Steps that change neither the runs that hold a name nor their names.    *)
(***************************************************************************)
HoldersQuiet ==
  /\ UNCHANGED <<seats, clash>>
  /\ \A r \in Runs : /\ Holds(r)' <=> Holds(r)
                     /\ Holds(r) => run'[r] = run[r]
                     /\ run'[r].pc = "match" => run'[r].kind = "rejoin"
  /\ \A e \in roster' : e \in roster \/ e[2] = NoSid

LEMMA QuietNames ==
  ASSUME NamesInv, HoldersQuiet
  PROVE  NamesInv'
<1>1. MatchRejoins'
  BY DEF HoldersQuiet, MatchRejoins
<1>2. ASSUME NEW n \in Names \ clash PROVE NameOK(n)'
  <2>1. NameOK(n)
    BY DEF NamesInv
  <2>2. \A r \in Runs : HeldBy(r, n)' <=> HeldBy(r, n)
    BY DEF HoldersQuiet, HeldBy
  <2>3. \A r \in Runs : HeldBy(r, n) => HolderOK(r)'
    BY <2>1 DEF HoldersQuiet, HeldBy, NameOK, HolderOK, EntryOf
  <2> QED BY <2>1, <2>2, <2>3 DEF NameOK, HoldersQuiet, EntryOf
<1> QED BY <1>1, <1>2 DEF NamesInv, HoldersQuiet

\* A phone's run before it has found its name, or after it has entered it.
LEMMA QuietMove ==
  ASSUME Typed, NamesInv, NEW r \in Runs, NEW step \in RunSteps, Moves(r, step),
         UNCHANGED <<seats, clash, roster>>, ~Holds(r),
         step \in {"name", "match", "done", "failed"},
         step = "match" => run[r].kind = "rejoin"
  PROVE  HoldersQuiet
BY DEF HoldersQuiet, Moves, Follows, Holds, NamesInv, MatchRejoins

LEMMA QuietOthers ==
  ASSUME Typed, NamesInv, UNCHANGED <<run, seats, clash>>,
         \A e \in roster' : e \in roster \/ e[2] = NoSid
  PROVE  HoldersQuiet
BY DEF HoldersQuiet, Holds, NamesInv, MatchRejoins

LEMMA QuietUser ==
  ASSUME Typed, NamesInv, UserStep
  PROVE  HoldersQuiet /\ UNCHANGED <<seats, clash, roster, thrown>>
<1> USE DEF keys, sockets, calls, screens, history
<1>1. ASSUME NEW t \in Phones, Connect(t) PROVE HoldersQuiet
  <2>1. CASE UNCHANGED run
    BY <1>1, <2>1, QuietOthers DEF Connect
  <2>2. CASE ~UNCHANGED run
    <3>1. PICK r \in Runs : /\ run[r].pc = "idle"
                            /\ \E s, n, o : Becomes(r, RejoinRun(s, n, o))
      BY <1>1, <2>2 DEF Connect, RejoinRun
    <3>2. PICK s, n, o : Becomes(r, RejoinRun(s, n, o))
      BY <3>1
    <3>3. run' = [run EXCEPT ![r] = RejoinRun(s, n, o)] /\ RejoinRun(s, n, o).pc = "sent"
      BY <3>2 DEF Becomes, RejoinRun, IdleRun
    <3>4. run \in [Runs -> Run]
      BY DEF Typed, TypeOK
    <3> QED BY <1>1, <3>1, <3>3, <3>4 DEF Connect, HoldersQuiet, Holds, NamesInv, MatchRejoins
  <2> QED BY <2>1, <2>2
<1>2. ASSUME NEW r \in Runs, NEW t \in Phones, NEW n \in Names, Enter(r, t, n)
      PROVE  HoldersQuiet
  <2> DEFINE z == JoinRun(<<t, phone[t].conns>>, n)
  <2>1. run[r].pc = "idle" /\ run' = [run EXCEPT ![r] = z] /\ run \in [Runs -> Run]
    BY <1>2 DEF Enter, Becomes, JoinRun, Typed, TypeOK
  <2>2. z.pc = "sent"
    BY DEF JoinRun, IdleRun
  <2> HIDE DEF z
  <2> QED BY <1>2, <2>1, <2>2 DEF Enter, HoldersQuiet, Holds, NamesInv, MatchRejoins
<1>3. ASSUME NEW t \in Phones, Lose(t) PROVE HoldersQuiet
  BY <1>3, QuietOthers DEF Lose
<1>4. ASSUME NEW p \in Pages, Register(p) \/ OpenRemote(p) \/ ClickStart(p) PROVE HoldersQuiet
  BY <1>4, QuietOthers DEF Register, OpenRemote, ClickStart
<1>5. ASSUME NEW k \in Kicks, NEW p \in Pages, ClickKick(k, p) PROVE HoldersQuiet
  BY <1>5, QuietOthers DEF ClickKick
<1>6. HoldersQuiet
  BY <1>1, <1>2, <1>3, <1>4, <1>5 DEF UserStep
<1>7. UNCHANGED <<seats, clash, roster, thrown>>
  BY DEF UserStep, Connect, Lose, Enter, Register, OpenRemote, ClickStart, ClickKick
<1> QED BY <1>6, <1>7

(***************************************************************************)
(* Steps of a run that holds a name, or comes to hold it: only this name   *)
(* is touched.                                                             *)
(***************************************************************************)
LEMMA OneNameMoves ==
  ASSUME Typed, NamesInv, NEW r \in Runs, NEW n \in Names, run[r].name = n,
         NEW step \in RunSteps \ {"match"}, Moves(r, step),
         \A m \in Names \ {n} : seats'[m] = seats[m],
         clash \subseteq clash', clash' \subseteq clash \cup {n},
         \A e \in roster' : e \in roster \/ e[1] = n,
         n \notin clash' => NameOK(n)'
  PROVE  NamesInv'
<1>1. MatchRejoins'
  BY DEF Moves, Follows, NamesInv, MatchRejoins
<1>2. ASSUME NEW m \in Names \ clash', m # n PROVE NameOK(m)'
  <2>1. NameOK(m)
    BY <1>2 DEF NamesInv
  <2>2. \A q \in Runs : HeldBy(q, m)' <=> HeldBy(q, m)
    BY <1>2 DEF HeldBy, Holds, Moves, Follows
  <2>3. \A q \in Runs : HeldBy(q, m) => HolderOK(q)'
    <3> TAKE q \in Runs
    <3> HAVE HeldBy(q, m)
    <3>1. run'[q] = run[q] /\ run[q].name = m
      BY <1>2 DEF HeldBy, Moves
    <3> QED BY <1>2, <2>1, <3>1 DEF NameOK, HolderOK, EntryOf
  <2>4. \A e \in roster' : EntryOf(e, m) => e \in roster
    BY <1>2 DEF EntryOf
  <2> QED BY <1>2, <2>1, <2>2, <2>3, <2>4 DEF NameOK, EntryOf
<1> QED BY <1>1, <1>2 DEF NamesInv

\* The name of the run that moves has no other holder, unless it is noted.
Alone(r, n) == \A q \in Runs \ {r} : ~HeldBy(q, n)

LEMMA StaysAlone ==
  ASSUME NamesInv, NEW r \in Runs, NEW n \in Names \ clash, run[r].name = n, Holds(r)
  PROVE  Alone(r, n) /\ HolderOK(r)
BY DEF NamesInv, NameOK, Alone, HeldBy

LEMMA HolderNow ==
  ASSUME NEW r \in Runs, NEW n, run[r].name = n, NEW step, Moves(r, step), Alone(r, n),
         Holds(r)', HolderOK(r)'
  PROVE  NameOK(n)'
<1>1. \A q \in Runs : HeldBy(q, n)' => q = r
  BY DEF Alone, HeldBy, Holds, Moves
<1>2. HeldBy(r, n)'
  BY DEF HeldBy, Moves, Follows
<1> QED BY <1>1, <1>2 DEF NameOK

LEMMA HolderNoMore ==
  ASSUME NEW r \in Runs, NEW n, run[r].name = n, NEW step, Moves(r, step), Alone(r, n),
         ~Holds(r)', \A e \in roster' : EntryOf(e, n) => e[2] = seats'[n]
  PROVE  NameOK(n)'
<1>1. \A q \in Runs : ~HeldBy(q, n)'
  BY DEF Alone, HeldBy, Holds, Moves
<1> QED BY <1>1 DEF NameOK, EntryOf

\* A run that finds its name is alone with it, or two runs are noted.
LEMMA FindsName ==
  ASSUME NamesInv, NEW r \in Runs, NEW n \in Names, NoteHolder(n), n \notin clash'
  PROVE  Alone(r, n) /\ \A e \in roster : EntryOf(e, n) => e[2] = seats[n]
<1>1. Holders(n) = {} /\ n \notin clash
  BY DEF NoteHolder
<1>2. \A q \in Runs : ~HeldBy(q, n)
  BY <1>1 DEF Holders, HeldBy
<1> QED BY <1>1, <1>2 DEF Alone, NamesInv, NameOK

LEMMA NamesRun ==
  ASSUME Typed, NamesInv, NEW r \in Runs, NEW n \in Names, run[r].name = n, RunStep(r)
  PROVE  NamesInv'
<1> USE DEF keys, sockets, calls, screens, history, RunSteps
<1>0. /\ run[r].pc # "idle" => run[r].sid \in Sids
      /\ run[r].kind \in {"join", "rejoin"}
      /\ seats \in [Names -> MaybeSid] /\ NoSid \notin Sids
  BY LobbyAssumption DEF Typed, TypeOK, RunsKnown, Known, Run
<1>1. CASE ReadStarted(r)
  <2>1. \E step \in {"done", "name"} : Moves(r, step)
    BY <1>1, GotoEffect DEF ReadStarted
  <2> QED BY <1>1, <2>1, QuietMove, QuietNames DEF ReadStarted, Holds
<1>2. CASE CheckName(r)
  <2>1. CASE seats[n] # NoSid
    BY <1>2, <2>1, GotoEffect, QuietMove, QuietNames DEF CheckName, Holds
  <2>2. CASE seats[n] = NoSid
    <3>1. Moves(r, "save") /\ NoteHolder(n) /\ ~Holds(r)
          /\ UNCHANGED <<seats, roster>>
      BY <1>0, <1>2, <2>2, GotoEffect DEF CheckName, Holds
    <3>2. ASSUME n \notin clash' PROVE NameOK(n)'
      <4>1. Alone(r, n) /\ \A e \in roster : ~EntryOf(e, n)
        BY <2>2, <3>1, <3>2, FindsName DEF EntryOf
      <4>2. CASE Holds(r)'
        <5>1. HolderOK(r)'
          BY <3>1, <4>1 DEF HolderOK, Moves, Follows, EntryOf
        <5> QED BY <3>1, <4>1, <4>2, <5>1, HolderNow
      <4>3. CASE ~Holds(r)'
        BY <3>1, <4>1, <4>3, HolderNoMore
      <4> QED BY <4>2, <4>3
    <3> QED BY <3>1, <3>2, OneNameMoves DEF NoteHolder
  <2> QED BY <2>1, <2>2
<1>3. CASE SaveSession(r)
  <2>1. PICK step \in {"failed", "seat"} : Moves(r, step)
    BY <1>3, GotoEffect DEF SaveSession
  <2>2. Holds(r) /\ run[r].kind = "join" /\ UNCHANGED <<seats, clash, roster>>
    BY <1>0, <1>3 DEF SaveSession, Holds
  <2>3. ASSUME n \notin clash' PROVE NameOK(n)'
    <3>1. Alone(r, n) /\ \A e \in roster : ~EntryOf(e, n)
      BY <2>2, <2>3, StaysAlone DEF HolderOK
    <3>2. CASE step = "failed"
      BY <2>1, <2>2, <3>1, <3>2, HolderNoMore DEF Moves, Follows, Holds, EntryOf
    <3>3. CASE step = "seat"
      <4>1. Holds(r)' /\ HolderOK(r)'
        BY <2>1, <2>2, <3>1, <3>3 DEF Moves, Follows, Holds, HolderOK, EntryOf
      <4> QED BY <2>1, <3>1, <4>1, HolderNow
    <3> QED BY <2>1, <3>2, <3>3
  <2> QED BY <2>1, <2>2, <2>3, OneNameMoves
<1>4. CASE TakeSeat(r)
  <2>0. Holds(r) /\ run[r].pc = "seat" /\ UNCHANGED <<clash, roster>>
    BY <1>0, <1>4 DEF TakeSeat, Holds
  <2>1. CASE UNCHANGED seats /\ run[r].kind = "join" /\ Moves(r, "failed")
    <3>1. ASSUME n \notin clash' PROVE NameOK(n)'
      <4>1. Alone(r, n) /\ \A e \in roster : ~EntryOf(e, n)
        BY <2>0, <2>1, <3>1, StaysAlone DEF HolderOK
      <4> QED BY <2>0, <2>1, <4>1, HolderNoMore DEF Moves, Follows, Holds, EntryOf
    <3> QED BY <2>0, <2>1, <3>1, OneNameMoves
  <2>2. CASE /\ seats' = [seats EXCEPT ![n] = run[r].sid]
             /\ Moves(r, IF run[r].kind = "join" THEN "add" ELSE "unseat")
    <3>0. PICK step \in {"add", "unseat"} : Moves(r, step) /\ (step = "add" => run[r].kind = "join")
                                           /\ (step = "unseat" => run[r].kind = "rejoin")
      BY <1>0, <2>2
    <3>1. ASSUME n \notin clash' PROVE NameOK(n)'
      <4>1. Alone(r, n) /\ HolderOK(r)
        BY <2>0, <3>1, StaysAlone
      <4>2. Holds(r)' /\ HolderOK(r)'
        BY <1>0, <2>0, <2>2, <3>0, <4>1 DEF HolderOK, Holds, Moves, Follows, EntryOf
      <4> QED BY <3>0, <4>1, <4>2, HolderNow
    <3>2. \A m \in Names \ {n} : seats'[m] = seats[m]
      BY <1>0, <2>2
    <3> QED BY <2>0, <3>0, <3>1, <3>2, OneNameMoves
  <2>3. \/ UNCHANGED seats /\ run[r].kind = "join" /\ Moves(r, "failed")
        \/ /\ seats' = [seats EXCEPT ![n] = run[r].sid]
           /\ Moves(r, IF run[r].kind = "join" THEN "add" ELSE "unseat")
    BY <1>4, GotoEffect DEF TakeSeat
  <2> QED BY <2>1, <2>2, <2>3
<1>5. CASE AddPlayer(r)
  <2>1. PICK step \in {"enter", "save"} : /\ Moves(r, step)
                                          /\ step = "save" => run[r].kind = "rejoin"
    BY <1>5, GotoEffect DEF AddPlayer
  <2>2. /\ Holds(r) /\ run[r].pc = "add" /\ UNCHANGED <<seats, clash>>
        /\ roster' = roster \cup {<<n, run[r].sid>>}
    BY <1>0, <1>5 DEF AddPlayer, Holds, Entry
  <2>3. ASSUME n \notin clash' PROVE NameOK(n)'
    <3>1. Alone(r, n) /\ seats[n] = run[r].sid /\ \A e \in roster : ~EntryOf(e, n)
      BY <2>2, <2>3, StaysAlone DEF HolderOK
    <3>2. \A e \in roster' : EntryOf(e, n) => e[2] = seats'[n]
      BY <2>2, <3>1 DEF EntryOf
    <3>3. ~Holds(r)'
      BY <2>1 DEF Moves, Follows, Holds
    <3> QED BY <2>1, <3>1, <3>2, <3>3, HolderNoMore
  <2> QED BY <2>1, <2>2, <2>3, OneNameMoves
<1>6. CASE EnterRoom(r)
  <2>1. \E step \in {"done", "failed"} : Moves(r, step)
    BY <1>6, GotoEffect DEF EnterRoom
  <2> QED BY <1>6, <2>1, QuietMove, QuietNames DEF EnterRoom, Holds
<1>7. CASE ReadGame(r)
  BY <1>7, ReadGameEffect, QuietMove, QuietNames DEF ReadGame, Holds
<1>8. CASE Match(r)
  <2>1. CASE seats[n] # run[r].old
    BY <1>8, <2>1, GotoEffect, QuietMove, QuietNames DEF Match, Holds
  <2>2. CASE seats[n] = run[r].old
    <3>1. /\ Moves(r, "seat") /\ NoteHolder(n) /\ ~Holds(r)
          /\ UNCHANGED <<seats, roster>> /\ run[r].kind = "rejoin"
      BY <1>0, <1>8, <2>2, GotoEffect DEF Match, Holds, NamesInv, MatchRejoins
    <3>2. ASSUME n \notin clash' PROVE NameOK(n)'
      <4>1. Alone(r, n) /\ \A e \in roster : EntryOf(e, n) => e[2] = run[r].old
        BY <2>2, <3>1, <3>2, FindsName
      <4>2. Holds(r)' /\ HolderOK(r)'
        BY <3>1, <4>1 DEF HolderOK, Holds, Moves, Follows, EntryOf
      <4> QED BY <3>1, <4>1, <4>2, HolderNow
    <3> QED BY <3>1, <3>2, OneNameMoves DEF NoteHolder
  <2> QED BY <2>1, <2>2
<1>9. CASE Unseat(r)
  <2>1. /\ Moves(r, "add") /\ Holds(r) /\ run[r].pc = "unseat"
        /\ UNCHANGED <<seats, clash>> /\ roster' = roster \ {<<n, run[r].old>>}
    BY <1>0, <1>9, GotoEffect DEF Unseat, Holds, OldEntry
  <2>2. ASSUME n \notin clash' PROVE NameOK(n)'
    <3>1. Alone(r, n) /\ HolderOK(r)
      BY <2>1, <2>2, StaysAlone
    <3>2. \A e \in roster' : ~EntryOf(e, n)
      <4>1. roster \subseteq Names \X MaybeSid
        BY DEF Typed, TypeOK
      <4> QED BY <2>1, <3>1, <4>1 DEF HolderOK, EntryOf
    <3>3. Holds(r)' /\ HolderOK(r)'
      BY <2>1, <3>1, <3>2 DEF HolderOK, Holds, Moves, Follows, EntryOf
    <3> QED BY <2>1, <3>1, <3>3, HolderNow
  <2> QED BY <2>1, <2>2, OneNameMoves
<1>10. CASE Return(r)
  <2>1. \E step \in {"done", "failed"} : Moves(r, step)
    BY <1>10, GotoEffect DEF Return
  <2> QED BY <1>10, <2>1, QuietMove, QuietNames DEF Return, Holds
<1> QED BY <1>1, <1>2, <1>3, <1>4, <1>5, <1>6, <1>7, <1>8, <1>9, <1>10 DEF RunStep

LEMMA QuietNext ==
  ASSUME Typed, NamesInv, ~(\E r \in Runs : RunStep(r)), [Next]_vars
  PROVE  HoldersQuiet
<1> USE DEF keys, sockets, calls, screens, history
<1>1. CASE UserStep
  BY <1>1, QuietUser
<1>2. ASSUME NEW s \in Sids, Timeout(s) PROVE HoldersQuiet
  BY <1>2, QuietOthers DEF Timeout
<1>3. ASSUME NEW r \in Runs, EchoStep(r) PROVE HoldersQuiet
  BY <1>3, QuietOthers DEF EchoStep, EchoRead, EchoWrite
<1>4. ASSUME NEW p \in Pages, PageStep(p) PROVE HoldersQuiet
  BY <1>4, QuietOthers DEF PageStep, CheckSession, ClaimSession, Welcome, SaveAdmin,
                           StoreStarted, EmitStart
<1>5. ASSUME NEW k \in Kicks, KickStep(k) PROVE HoldersQuiet
  BY <1>5, QuietOthers DEF KickStep, FindSeat, Remove
<1>6. ASSUME NEW b \in Boxes, BoxStep(b) PROVE HoldersQuiet
  BY <1>6, QuietOthers DEF BoxStep, BoxLookUp, BoxCheckName, BoxConnect
<1>7. CASE UNCHANGED vars
  BY <1>7, QuietOthers DEF vars
<1> QED BY <1>1, <1>2, <1>3, <1>4, <1>5, <1>6, <1>7 DEF Next

\* A run that takes a step knows its name.
LEMMA NamedRun ==
  ASSUME Typed, NEW r \in Runs, RunStep(r)
  PROVE  run[r].name \in Names
<1>1. run[r].pc # "idle"
  BY DEF RunStep, ReadStarted, CheckName, SaveSession, TakeSeat, AddPlayer, EnterRoom,
         ReadGame, Match, Unseat, Return
<1> QED BY <1>1 DEF Typed, RunsKnown, Known

LEMMA NamesStep ==
  ASSUME Typed, NamesInv, [Next]_vars
  PROVE  NamesInv'
<1>1. ASSUME NEW r \in Runs, RunStep(r) PROVE NamesInv'
  BY <1>1, NamedRun, NamesRun
<1>2. CASE ~(\E r \in Runs : RunStep(r))
  BY <1>2, QuietNext, QuietNames
<1> QED BY <1>1, <1>2

LEMMA NamesImply == Typed /\ NamesInv => OneEntryPerName
<1> SUFFICES ASSUME Typed, NamesInv, NEW e \in roster, NEW f \in roster,
                    e[1] = f[1], NoSid \notin {e[2], f[2]}, e[1] \notin clash
             PROVE  e = f
  BY DEF OneEntryPerName
<1>1. e = <<e[1], e[2]>> /\ f = <<f[1], f[2]>> /\ e[1] \in Names
  BY DEF Typed, TypeOK
<1>2. NameOK(e[1]) /\ EntryOf(e, e[1]) /\ EntryOf(f, e[1])
  BY <1>1 DEF NamesInv, EntryOf
<1>3. e[2] = f[2]
  <2>1. CASE \E r \in Runs : HeldBy(r, e[1])
    BY <1>2, <2>1 DEF NameOK, HolderOK, HeldBy
  <2>2. CASE \A r \in Runs : ~HeldBy(r, e[1])
    BY <1>2, <2>2 DEF NameOK
  <2> QED BY <2>1, <2>2
<1> QED BY <1>1, <1>3

LEMMA InvInit == Init => IInv
<1> SUFFICES ASSUME Init PROVE IInv
  OBVIOUS
<1>1. \A r \in Runs : run[r].pc = "idle"
  BY DEF Init, IdleRun
<1>2. NamesInv
  BY <1>1 DEF Init, NamesInv, NameOK, MatchRejoins, HeldBy, Holds
<1>3. SeatIsListed
  BY DEF Init, SeatIsListed
<1> QED BY <1>2, <1>3, TypedInit DEF IInv

(***************************************************************************)
(* Every seat is listed.                                                   *)
(***************************************************************************)
\* Steps that take no seat and no entry away, and move no run that is about to
\* enter its player.
SeatsQuiet ==
  /\ UNCHANGED seats
  /\ clash \subseteq clash' /\ roster \subseteq roster' /\ thrown \subseteq thrown'
  /\ \A q \in Runs : run[q].pc \in {"unseat", "add"} => run'[q] = run[q]

LEMMA QuietSeats ==
  ASSUME SeatIsListed, SeatsQuiet
  PROVE  SeatIsListed'
BY DEF SeatIsListed, SeatsQuiet

LEMMA SeatsRun ==
  ASSUME IInv, NEW r \in Runs, NEW n \in Names, run[r].name = n, RunStep(r)
  PROVE  SeatIsListed'
<1> USE DEF keys, sockets, calls, screens, history, RunSteps
<1>0. seats \in [Names -> MaybeSid] /\ Typed /\ NamesInv /\ SeatIsListed
      /\ roster \subseteq Names \X MaybeSid
  BY DEF IInv, Typed, TypeOK
<1>1. ASSUME NEW step \in RunSteps, Moves(r, step), run[r].pc \notin {"unseat", "add"},
             UNCHANGED <<seats, roster, thrown>>, clash \subseteq clash'
      PROVE  SeatIsListed'
  BY <1>0, <1>1, QuietSeats DEF SeatsQuiet, Moves
<1>2. CASE ReadStarted(r)
  <2>1. \E step \in {"done", "name"} : Moves(r, step)
    BY <1>0, <1>2, GotoEffect DEF ReadStarted
  <2> QED BY <1>1, <1>2, <2>1 DEF ReadStarted
<1>3. CASE CheckName(r)
  <2>1. \E step \in {"done", "save"} : Moves(r, step)
    BY <1>0, <1>3, GotoEffect DEF CheckName
  <2>2. clash \subseteq clash'
    BY <1>3 DEF CheckName, NoteHolder
  <2> QED BY <1>1, <1>3, <2>1, <2>2 DEF CheckName
<1>4. CASE SaveSession(r)
  <2>1. \E step \in {"failed", "seat"} : Moves(r, step)
    BY <1>0, <1>4, GotoEffect DEF SaveSession
  <2> QED BY <1>1, <1>4, <2>1 DEF SaveSession
<1>5. CASE TakeSeat(r)
  <2>1. CASE UNCHANGED seats /\ Moves(r, "failed")
    BY <1>1, <1>5, <2>1 DEF TakeSeat
  <2>2. CASE /\ seats' = [seats EXCEPT ![n] = run[r].sid]
             /\ \E step \in {"add", "unseat"} : Moves(r, step)
    <3> SUFFICES ASSUME NEW m \in Names \ clash, seats'[m] # NoSid
                 PROVE  \/ <<m, seats'[m]>> \in roster \/ seats'[m] \in thrown
                        \/ \E q \in Runs : /\ run'[q].name = m /\ run'[q].sid = seats'[m]
                                           /\ run'[q].pc \in {"unseat", "add"}
      BY <1>5 DEF TakeSeat, SeatIsListed
    <3>1. CASE m = n
      BY <1>0, <2>2, <3>1 DEF Moves, Follows
    <3>2. CASE m # n
      BY <1>0, <1>5, <2>2, <3>2 DEF SeatIsListed, Moves, TakeSeat
    <3> QED BY <3>1, <3>2
  <2>3. \/ UNCHANGED seats /\ Moves(r, "failed")
        \/ /\ seats' = [seats EXCEPT ![n] = run[r].sid]
           /\ \E step \in {"add", "unseat"} : Moves(r, step)
    BY <1>0, <1>5, GotoEffect DEF TakeSeat
  <2> QED BY <2>1, <2>2, <2>3
<1>6. CASE AddPlayer(r)
  <2>1. \E step \in {"enter", "save"} : Moves(r, step)
    BY <1>0, <1>6, GotoEffect DEF AddPlayer
  <2>2. /\ UNCHANGED <<seats, clash, thrown>>
        /\ roster' = roster \cup {<<n, run[r].sid>>}
    BY <1>6 DEF AddPlayer, Entry
  <2> SUFFICES ASSUME NEW m \in Names \ clash, seats[m] # NoSid,
                      <<m, seats[m]>> \notin roster', seats[m] \notin thrown
               PROVE  \E q \in Runs : /\ run'[q].name = m /\ run'[q].sid = seats[m]
                                      /\ run'[q].pc \in {"unseat", "add"}
    BY <2>2 DEF SeatIsListed
  <2>3. PICK q \in Runs : run[q].name = m /\ run[q].sid = seats[m]
                          /\ run[q].pc \in {"unseat", "add"}
    BY <1>0, <2>2 DEF SeatIsListed
  <2>4. q # r
    BY <2>2, <2>3
  <2> QED BY <2>1, <2>3, <2>4 DEF Moves
<1>7. CASE EnterRoom(r)
  <2>1. \E step \in {"done", "failed"} : Moves(r, step)
    BY <1>0, <1>7, GotoEffect DEF EnterRoom
  <2> QED BY <1>1, <1>7, <2>1 DEF EnterRoom
<1>8. CASE ReadGame(r)
  BY <1>0, <1>1, <1>8, ReadGameEffect DEF ReadGame
<1>9. CASE Match(r)
  <2>1. \E step \in {"done", "seat"} : Moves(r, step)
    BY <1>0, <1>9, GotoEffect DEF Match
  <2>2. clash \subseteq clash'
    BY <1>9 DEF Match, NoteHolder
  <2> QED BY <1>1, <1>9, <2>1, <2>2 DEF Match
<1>10. CASE Unseat(r)
  <2>1. /\ Moves(r, "add") /\ Holds(r) /\ run[r].pc = "unseat"
        /\ UNCHANGED <<seats, clash, thrown>> /\ roster' = roster \ {<<n, run[r].old>>}
    BY <1>0, <1>10, GotoEffect DEF Unseat, Holds, OldEntry
  <2> SUFFICES ASSUME NEW m \in Names \ clash, seats[m] # NoSid,
                      <<m, seats[m]>> \notin roster', seats[m] \notin thrown
               PROVE  \E q \in Runs : /\ run'[q].name = m /\ run'[q].sid = seats[m]
                                      /\ run'[q].pc \in {"unseat", "add"}
    BY <2>1 DEF SeatIsListed
  <2>2. CASE m = n
    <3>1. run[r].sid = seats[m]
      BY <1>0, <2>1, <2>2, StaysAlone DEF HolderOK
    <3> QED BY <2>1, <2>2, <3>1 DEF Moves, Follows
  <2>3. CASE m # n
    BY <1>0, <2>1, <2>3 DEF SeatIsListed, Moves
  <2> QED BY <2>2, <2>3
<1>11. CASE Return(r)
  <2>1. \E step \in {"done", "failed"} : Moves(r, step)
    BY <1>0, <1>11, GotoEffect DEF Return
  <2> QED BY <1>1, <1>11, <2>1 DEF Return
<1> QED BY <1>2, <1>3, <1>4, <1>5, <1>6, <1>7, <1>8, <1>9, <1>10, <1>11 DEF RunStep

LEMMA SeatsOthers ==
  ASSUME IInv, ~(\E r \in Runs : RunStep(r)), [Next]_vars
  PROVE  SeatIsListed'
<1> USE DEF keys, sockets, calls, screens, history
<1>0. Typed /\ NamesInv /\ SeatIsListed /\ HoldersQuiet
  BY QuietNext DEF IInv
<1>1. \A q \in Runs : run[q].pc \in {"unseat", "add"} => run'[q] = run[q]
  BY <1>0 DEF HoldersQuiet, Holds
<1>2. UNCHANGED <<seats, clash>>
  BY <1>0 DEF HoldersQuiet
<1>3. CASE roster \subseteq roster' /\ thrown \subseteq thrown'
  BY <1>0, <1>1, <1>2, <1>3, QuietSeats DEF SeatsQuiet
<1>4. ASSUME NEW k \in Kicks, Remove(k) PROVE SeatIsListed'
  <2>1. /\ roster' = roster \ {<<kick[k].name, kick[k].sid>>}
        /\ thrown' = thrown \cup ({kick[k].sid} \ {NoSid}) /\ run' = run
    BY <1>4 DEF Remove
  <2>2. ASSUME NEW n \in Names \ clash, seats[n] # NoSid, <<n, seats[n]>> \in roster
        PROVE  <<n, seats[n]>> \in roster' \/ seats[n] \in thrown'
    BY <2>1, <2>2
  <2> QED BY <1>0, <1>2, <2>1, <2>2 DEF SeatIsListed
<1>5. CASE ~(\E k \in Kicks : Remove(k))
  <2>1. CASE UserStep
    BY <1>0, <1>3, <2>1, QuietUser
  <2>2. ASSUME NEW s \in Sids, Timeout(s) PROVE SeatIsListed'
    BY <1>3, <2>2 DEF Timeout
  <2>3. ASSUME NEW r \in Runs, EchoStep(r) PROVE SeatIsListed'
    BY <1>3, <2>3 DEF EchoStep, EchoRead, EchoWrite
  <2>4. ASSUME NEW p \in Pages, PageStep(p) PROVE SeatIsListed'
    BY <1>3, <2>4 DEF PageStep, CheckSession, ClaimSession, Welcome, SaveAdmin,
                      StoreStarted, EmitStart
  <2>5. ASSUME NEW k \in Kicks, FindSeat(k) PROVE SeatIsListed'
    BY <1>3, <2>5 DEF FindSeat
  <2>6. ASSUME NEW b \in Boxes, BoxStep(b) PROVE SeatIsListed'
    BY <1>3, <2>6 DEF BoxStep, BoxLookUp, BoxCheckName, BoxConnect
  <2>7. CASE UNCHANGED vars
    BY <1>3, <2>7 DEF vars
  <2> QED BY <1>5, <2>1, <2>2, <2>3, <2>4, <2>5, <2>6, <2>7 DEF Next, KickStep
<1> QED BY <1>4, <1>5

LEMMA InvStep == IInv /\ [Next]_vars => IInv'
<1> SUFFICES ASSUME IInv, [Next]_vars PROVE IInv'
  OBVIOUS
<1>1. Typed' /\ NamesInv'
  BY TypedStep, NamesStep DEF IInv
<1>2. SeatIsListed'
  <2>1. ASSUME NEW r \in Runs, RunStep(r) PROVE SeatIsListed'
    BY <2>1, NamedRun, SeatsRun DEF IInv
  <2>2. CASE ~(\E r \in Runs : RunStep(r))
    BY <2>2, SeatsOthers
  <2> QED BY <2>1, <2>2
<1> QED BY <1>1, <1>2 DEF IInv

LEMMA InvAlways == Spec => []IInv
BY InvInit, InvStep, PTL DEF Spec

(***************************************************************************)
(* The theorems.                                                           *)
(***************************************************************************)
\* A username has at most one phone in the players set, unless two runs of
\* join_game and rejoin_game held it at the same time.
THEOREM OneEntry == Spec => []OneEntryPerName
<1>1. IInv => OneEntryPerName
  BY NamesImply DEF IInv
<1> QED BY <1>1, InvAlways, PTL

\* The sid in a players:{name} key is in the players set, or about to be
\* entered, or was kicked, unless two runs held the name at the same time.
THEOREM SeatsAreListed == Spec => []SeatIsListed
<1>1. IInv => SeatIsListed
  BY DEF IInv
<1> QED BY <1>1, InvAlways, PTL

(***************************************************************************)
(* Who hears that the game has started.                                    *)
(***************************************************************************)
\* A run that will enter the room began before start_game was emitted, and is
\* noted, or it has read that the game has started and will say so.
Entering(r) == run[r].pc \notin {"idle", "sent", "done", "failed"}

HeardAlready(r) == run[r].sid \in crossed \/ (run[r].kind = "rejoin" /\ run[r].saw)

StartInv ==
  /\ begun => started
  /\ \A p \in Pages : start[p] = "emit" => started
  /\ \A s \in room : s[2] <= phone[s[1]].conns
  /\ \A r \in Runs : begun /\ Entering(r) => HeardAlready(r)
  /\ StartHeard

(***************************************************************************)
(* Who can answer.                                                         *)
(***************************************************************************)
\* A run of connection s after which the session will get its ping: a join
\* before its time_sync, or the echo of a run whose session is stored.
Owes(r, s) ==
  /\ run[r].sid = s /\ run[r].pc # "idle"
  /\ \/ run[r].kind = "join" /\ run[r].pc \in {"seat", "add"}
     \/ echo[r].pc \in {"sent", "write"} /\ (run[r].kind = "join" \/ run[r].pc = "done")

\* A connection in the room, or of a join whose host has registered.
Enters(r, s) == run[r].sid = s /\ run[r].kind = "join" /\ run[r].pc \in {"add", "enter"}
Inside(s) == s \in room \/ \E r \in Runs : Enters(r, s)

RunFits(r) ==
  /\ run[r].kind = "rejoin" => run[r].old \in Sids
  /\ run[r].kind = "rejoin" /\ run[r].pc \in {"seat", "unseat", "add", "save"} =>
       /\ session # NoPage
       /\ Listens(run[r].sid) /\ run[r].sid \notin early => echo[r].pc = "sent"
  /\ run[r].kind = "join" /\ run[r].pc \in {"seat", "add", "enter"} => sess[run[r].sid] # NoSession

Served(s) ==
  /\ session # NoPage
  /\ sess[s] # NoSession
  /\ Listens(s) /\ s \notin early => sess[s].ping \/ \E r \in Runs : Owes(r, s)

AnswerInv ==
  /\ \A s \in Sids : Listens(s) => s \in alive
  /\ \A t \in Phones : phone[t].cookie # NoCookie => phone[t].cookie.sid \in Sids
  /\ \A n \in Names : seats[n] # NoSid => session # NoPage
  /\ \A r \in Runs : RunFits(r)
  /\ \A s \in Sids : Inside(s) => Served(s)

(***************************************************************************)
(* Whom a kick hits.                                                       *)
(***************************************************************************)
Took(r, n, s) == run[r].pc # "idle" /\ run[r].name = n /\ run[r].sid = s
SeatTaken(n)  == \E r \in Runs : Took(r, n, seats[n])
ABoxIs(n)     == \E b \in Boxes : BoxName[b] = n
Playing_as(n) == seats[n] # NoSid \/ ABoxIs(n)

\* The player that a run of kick_player is to remove; Hit(t) says who may be hit.
KickOK(k) ==
  /\ kick[k].pc # "idle" => kick[k].name \in named /\ Playing_as(kick[k].name)
  /\ kick[k].pc = "remove" => IF kick[k].sid = NoSid THEN ABoxIs(kick[k].name)
                              ELSE \E r \in Runs : Took(r, kick[k].name, kick[k].sid)
Hit(t) ==
  \/ \E r \in Runs : run[r].pc # "idle" /\ run[r].sid[1] = t /\ run[r].name \in named
  \/ \E b \in Boxes : BoxName[b] \in named

KickInv ==
  /\ \A n \in Names : seats[n] # NoSid => SeatTaken(n)
  /\ \A r \in Runs : run[r].pc \in {"unseat", "add"} => seats[run[r].name] # NoSid
  /\ \A p \in Pages : \A e \in board[p].players : Playing_as(e[1])
  /\ \A k \in Kicks : KickOK(k)
  /\ \A t \in Phones : phone[t].kicked => Hit(t)

(***************************************************************************)
(* What each step does, field by field.                                    *)
(***************************************************************************)
\* A run knows which handler it is.
Paths ==
  \A r \in Runs : /\ run[r].pc \in {"name", "enter"} => run[r].kind = "join"
                  /\ run[r].pc \in {"match", "unseat"} => run[r].kind = "rejoin"

begins == <<started, start, begun, crossed>>
seated == <<session, seats>>
conns  == <<sess, room, alive, early>>
kicks  == <<kick, named, board>>

OtherRuns(r)  == \A q \in Runs : q # r => run'[q] = run[q]
OtherPages(t) == \A u \in Phones : u # t => phone'[u] = phone[u]

Advances(r, pc, saw) ==
  /\ OtherRuns(r)
  /\ run'[r].pc = pc /\ run'[r].kind = run[r].kind /\ run'[r].sid = run[r].sid
  /\ run'[r].name = run[r].name /\ run'[r].old = run[r].old /\ run'[r].saw = saw

Steps(r, pc) == Advances(r, pc, run[r].saw)

Begins(r, kind, s, n, old) ==
  /\ run[r].pc = "idle" /\ OtherRuns(r)
  /\ run'[r].pc = "sent" /\ run'[r].kind = kind /\ run'[r].sid = s
  /\ run'[r].name = n /\ run'[r].old = old

PageIs(t, count, online, kicked, cookie) ==
  /\ phone'[t].conns = count /\ phone'[t].online = online
  /\ phone'[t].kicked = kicked /\ phone'[t].cookie = cookie

SamePages == \A t \in Phones : /\ PageIs(t, phone[t].conns, phone[t].online, phone[t].kicked, phone[t].cookie)
                               /\ phone'[t].started = phone[t].started

SessionAs(s, ping) ==
  /\ \A q \in Sids : q # s => sess'[q] = sess[q]
  /\ sess'[s] # NoSession /\ sess'[s].ping = ping

EchoAs(r, pc) == echo'[r].pc = pc /\ \A q \in Runs : q # r => echo'[q] = echo[q]

Syncs(r) == EchoAs(r, IF Listens(run[r].sid) THEN "sent" ELSE "none")

Listed(n) == \A p \in Pages : \A e \in board'[p].players : e \in board[p].players \/ e[1] = n

\* Joining.
Reads_started(r) ==
  /\ run[r].pc = "sent" /\ run[r].kind = "join" /\ Steps(r, IF started THEN "done" ELSE "name")
  /\ UNCHANGED <<begins, seated, conns, kicks, echo, phone>>

Checks_name(r) ==
  /\ run[r].pc = "name" /\ (Steps(r, "done") \/ Steps(r, "save"))
  /\ UNCHANGED <<begins, seated, conns, kicks, echo, phone>>

Saves_session(r) ==
  LET s == run[r].sid
  IN /\ run[r].pc = "save" /\ run[r].kind = "join"
     /\ \/ s \notin alive /\ Steps(r, "failed") /\ UNCHANGED <<sess, phone>>
        \/ /\ s \in alive /\ Steps(r, "seat") /\ SessionAs(s, FALSE)
           /\ \/ UNCHANGED phone
              \/ /\ OtherPages(s[1]) /\ phone'[s[1]].cookie.sid = s
                 /\ PageIs(s[1], phone[s[1]].conns, phone[s[1]].online, phone[s[1]].kicked, phone'[s[1]].cookie)
                 /\ phone'[s[1]].started = phone[s[1]].started
     /\ UNCHANGED <<begins, seated, room, alive, early, kicks, echo>>

Takes_seat(r) ==
  /\ run[r].pc = "seat"
  /\ \/ run[r].kind = "join" /\ session = NoPage /\ Steps(r, "failed") /\ UNCHANGED seats
     \/ /\ run[r].kind = "rejoin" \/ session # NoPage
        /\ Steps(r, IF run[r].kind = "join" THEN "add" ELSE "unseat")
        /\ seats'[run[r].name] = run[r].sid
        /\ \A n \in Names : n # run[r].name => seats'[n] = seats[n]
  /\ UNCHANGED <<begins, session, conns, kicks, echo, phone>>

Adds_player(r) ==
  /\ run[r].pc = "add"
  /\ \/ run[r].kind = "join" /\ Steps(r, "enter") /\ Syncs(r) /\ Listed(run[r].name)
     \/ run[r].kind = "rejoin" /\ Steps(r, "save") /\ UNCHANGED <<echo, board>>
  /\ UNCHANGED <<begins, seated, conns, kick, named, phone>>

Enters_room(r) ==
  /\ run[r].pc = "enter"
  /\ \/ run[r].sid \in alive /\ Steps(r, "done") /\ room' = room \cup {run[r].sid}
     \/ run[r].sid \notin alive /\ Steps(r, "failed") /\ UNCHANGED room
  /\ UNCHANGED <<begins, seated, sess, alive, early, kicks, echo, phone>>

\* Rejoining.
Reads_game(r) ==
  /\ run[r].pc = "sent" /\ run[r].kind = "rejoin" /\ Advances(r, "match", started)
  /\ UNCHANGED <<begins, seated, conns, kicks, echo, phone>>

Matches(r) ==
  /\ run[r].pc = "match"
  /\ \/ Steps(r, "done") /\ UNCHANGED echo
     \/ seats[run[r].name] = run[r].old /\ Steps(r, "seat") /\ Syncs(r)
  /\ UNCHANGED <<begins, seated, conns, kicks, phone>>

Unseats(r) ==
  /\ run[r].pc = "unseat" /\ Steps(r, "add")
  /\ UNCHANGED <<begins, seated, conns, kicks, echo, phone>>

Returns(r) ==
  LET s == run[r].sid
  IN /\ run[r].pc = "save" /\ run[r].kind = "rejoin"
     /\ \/ s \notin alive /\ Steps(r, "failed") /\ UNCHANGED <<sess, room, phone>>
        \/ /\ s \in alive /\ Steps(r, "done") /\ SessionAs(s, FALSE) /\ room' = room \cup {s}
           /\ IF Listens(s)
              THEN /\ OtherPages(s[1])
                   /\ PageIs(s[1], phone[s[1]].conns, phone[s[1]].online, phone[s[1]].kicked, phone[s[1]].cookie)
                   /\ phone'[s[1]].started = (phone[s[1]].started \/ run[r].saw)
              ELSE UNCHANGED phone
     /\ UNCHANGED <<begins, seated, alive, early, kicks, echo>>

\* Echoes.
Echo_reads(r) ==
  /\ echo[r].pc = "sent"
  /\ EchoAs(r, IF run[r].sid \in alive /\ sess[run[r].sid] # NoSession THEN "write" ELSE "failed")
  /\ early' = IF run[r].kind = "rejoin" /\ run[r].pc # "done" THEN early \cup {run[r].sid} ELSE early
  /\ UNCHANGED <<begins, seated, sess, room, alive, kicks, run, phone>>

Echo_writes(r) ==
  /\ echo[r].pc = "write"
  /\ \/ run[r].sid \in alive /\ SessionAs(run[r].sid, TRUE) /\ EchoAs(r, "done")
     \/ run[r].sid \notin alive /\ UNCHANGED sess /\ EchoAs(r, "failed")
  /\ UNCHANGED <<begins, seated, room, alive, early, kicks, run, phone>>

\* Phones and their connections.
Connects(t) ==
  LET s == <<t, phone[t].conns + 1>>
  IN /\ OtherPages(t) /\ PageIs(t, phone[t].conns + 1, TRUE, phone[t].kicked, phone[t].cookie)
     /\ s \in Sids /\ alive' = alive \cup {s}
     /\ \/ UNCHANGED run
        \/ /\ phone[t].cookie # NoCookie
           /\ \E r \in Runs : Begins(r, "rejoin", s, phone[t].cookie.name, phone[t].cookie.sid)
     /\ UNCHANGED <<begins, seated, sess, room, early, kicks, echo>>

Loses(t) ==
  /\ OtherPages(t) /\ PageIs(t, phone[t].conns, FALSE, phone[t].kicked, phone[t].cookie)
  /\ UNCHANGED <<begins, seated, conns, kicks, run, echo>>

Sends_form(r) ==
  /\ \E t \in Phones : \E n \in Names : Begins(r, "join", <<t, phone[t].conns>>, n, NoSid)
  /\ SamePages
  /\ UNCHANGED <<begins, seated, conns, kicks, echo>>

Times_out(s) ==
  /\ ~Listens(s) /\ alive' = alive \ {s} /\ room' = room \ {s}
  /\ UNCHANGED <<begins, seated, sess, early, kicks, run, echo, phone>>

\* The hosts' pages, and the controllers' look-ups.
Hosts_only ==
  /\ session' = session \/ session' # NoPage
  /\ started => started'
  /\ \A p \in Pages : start'[p] = "emit" => start[p] = "emit" \/ started'
  /\ \A p \in Pages : board'[p].players = board[p].players
  /\ UNCHANGED <<begun, crossed, seats, conns, kick, named, run, echo, phone>>

Emits_start(p) ==
  /\ start[p] = "emit" /\ \A q \in Pages : start'[q] = "emit" => start[q] = "emit"
  /\ begun' = TRUE
  /\ crossed \subseteq crossed'
  /\ \A r \in Runs : Entering(r) /\ run[r].sid \in Sids => run[r].sid \in crossed'
  /\ \A t \in Phones : /\ PageIs(t, phone[t].conns, phone[t].online, phone[t].kicked, phone[t].cookie)
                       /\ phone'[t].started = (phone[t].started \/ \E s \in room : s[1] = t /\ Listens(s))
  /\ \A q \in Pages : board'[q].players = board[q].players
  /\ UNCHANGED <<started, seated, conns, kick, named, run, echo>>

Box_enters(b) ==
  /\ Listed(BoxName[b])
  /\ UNCHANGED <<begins, seated, conns, kick, named, run, echo, phone>>

\* Kicks.
OtherKicks(k) == \A c \in Kicks : c # k => kick'[c] = kick[c]

Clicks_kick(k, p) ==
  /\ OtherKicks(k)
  /\ \E e \in board[p].players : /\ kick'[k].pc = "sent" /\ kick'[k].name = e[1]
                                 /\ named' = named \cup {e[1]}
  /\ \A q \in Pages : board'[q].players \subseteq board[q].players
  /\ UNCHANGED <<begins, seated, conns, run, echo, phone>>

Finds_seat(k) ==
  /\ kick[k].pc = "sent" /\ OtherKicks(k) /\ kick'[k].name = kick[k].name
  /\ \/ kick'[k].pc = "failed"
     \/ kick'[k].pc = "remove" /\ kick'[k].sid = seats[kick[k].name]
  /\ UNCHANGED <<begins, seated, conns, named, board, run, echo, phone>>

Removes(k) ==
  /\ kick[k].pc = "remove" /\ OtherKicks(k) /\ kick'[k].name = kick[k].name /\ kick'[k].pc = "done"
  /\ room' = room \ {kick[k].sid}
  /\ \A t \in Phones : IF t \in Reached(kick[k].sid)
                       THEN PageIs(t, phone[t].conns, FALSE, TRUE, phone[t].cookie)
                       ELSE phone'[t] = phone[t]
  /\ UNCHANGED <<begins, seated, sess, alive, early, named, board, run, echo>>

Run_kind(r) ==
  \/ Reads_started(r) \/ Checks_name(r) \/ Saves_session(r) \/ Takes_seat(r) \/ Adds_player(r)
  \/ Enters_room(r) \/ Reads_game(r) \/ Matches(r) \/ Unseats(r) \/ Returns(r)

Kind ==
  \/ \E r \in Runs : Run_kind(r) \/ Echo_reads(r) \/ Echo_writes(r) \/ Sends_form(r)
  \/ \E t \in Phones : Connects(t) \/ Loses(t)
  \/ \E s \in Sids : Times_out(s)
  \/ Hosts_only
  \/ \E p \in Pages : Emits_start(p)
  \/ \E b \in Boxes : Box_enters(b)
  \/ \E k \in Kicks : Finds_seat(k) \/ Removes(k) \/ \E p \in Pages : Clicks_kick(k, p)

(***************************************************************************)
(* Runs of the handlers.                                                   *)
(***************************************************************************)
LEMMA StepsOn == ASSUME Typed, NEW r \in Runs, NEW pc, Goto(r, pc) PROVE Steps(r, pc)
BY DEF Typed, TypeOK, Run, Goto, Becomes, Steps, Advances, OtherRuns

LEMMA AcceptedPage ==
  ASSUME NEW x \in Phone, NEW s
  PROVE  /\ Accepted(x, s).conns = x.conns /\ Accepted(x, s).online = x.online
         /\ Accepted(x, s).kicked = x.kicked /\ Accepted(x, s).started = x.started
         /\ Accepted(x, s).cookie.sid = s
BY DEF Phone, Accepted

LEMMA ReturnedPage ==
  ASSUME NEW x \in Phone, NEW saw \in BOOLEAN
  PROVE  /\ Rejoined(x, saw).conns = x.conns /\ Rejoined(x, saw).online = x.online
         /\ Rejoined(x, saw).kicked = x.kicked /\ Rejoined(x, saw).cookie = x.cookie
         /\ Rejoined(x, saw).started = (x.started \/ saw)
<1>1. (x.started \/ saw) \in BOOLEAN
  OBVIOUS
<1>2. ASSUME NEW c \in BOOLEAN
      PROVE  LET y == [x EXCEPT !.joined = TRUE, !.started = c]
             IN y.conns = x.conns /\ y.online = x.online /\ y.kicked = x.kicked /\ y.cookie = x.cookie /\ y.started = c
  BY DEF Phone
<1>3. Rejoined(x, saw) = [x EXCEPT !.joined = TRUE, !.started = x.started \/ saw]
  BY DEF Rejoined
<1> QED BY <1>1, <1>2, <1>3, Zenon

LEMMA NewSession ==
  ASSUME Typed, NEW s \in Sids, NEW n, NEW ping \in BOOLEAN, n \in Names \/ ping,
         sess' = [sess EXCEPT ![s] = [name |-> n, ping |-> ping]]
  PROVE  SessionAs(s, ping)
BY LobbyAssumption DEF Typed, TypeOK, SessionAs, NoSession

LEMMA SyncsRun == ASSUME Typed, NEW r \in Runs, echo' = SyncOf(r) PROVE Syncs(r)
BY DEF Typed, TypeOK, Echo, SyncOf, Syncs, EchoAs

LEMMA ListedAs == ASSUME Typed, NEW n, NEW s, board' = Boards(n, s) PROVE Listed(n)
BY DEF Typed, TypeOK, Board, Boards, Joined, Listed

LEMMA JoinKinds ==
  ASSUME Typed, NEW r \in Runs,
         ReadStarted(r) \/ CheckName(r) \/ SaveSession(r) \/ TakeSeat(r) \/ AddPlayer(r) \/ EnterRoom(r)
  PROVE  Run_kind(r)
<1> USE DEF keys, sockets, calls, screens, history, begins, seated, conns, kicks
<1>0. run[r].pc # "idle" => run[r].name \in Names /\ run[r].sid \in Sids /\ run[r].sid[1] \in Phones
  BY SidFacts DEF Typed, RunsKnown, Known
<1>1. CASE ReadStarted(r)
  <2>1. Steps(r, IF started THEN "done" ELSE "name")
    BY <1>1, StepsOn DEF ReadStarted
  <2> QED BY <1>1, <2>1 DEF ReadStarted, Reads_started, Run_kind
<1>2. CASE CheckName(r)
  <2>1. Steps(r, "done") \/ Steps(r, "save")
    BY <1>2, StepsOn DEF CheckName
  <2> QED BY <1>2, <2>1 DEF CheckName, Checks_name, Run_kind
<1>3. CASE SaveSession(r)
  <2>1. CASE run[r].sid \notin alive
    <3>1. Steps(r, "failed") /\ UNCHANGED <<sess, phone>>
      BY <1>3, <2>1, StepsOn DEF SaveSession
    <3> QED BY <1>3, <2>1, <3>1 DEF SaveSession, Saves_session, Run_kind
  <2>2. CASE run[r].sid \in alive
    <3>1. Steps(r, "seat") /\ sess' = [sess EXCEPT ![run[r].sid] = [name |-> run[r].name, ping |-> FALSE]]
      BY <1>3, <2>2, StepsOn DEF SaveSession
    <3>2. SessionAs(run[r].sid, FALSE)
      BY <1>0, <1>3, <3>1, NewSession DEF SaveSession
    <3>3. CASE ~Listens(run[r].sid)
      BY <1>3, <2>2, <3>1, <3>2, <3>3 DEF SaveSession, Saves_session, Run_kind
    <3>4. CASE Listens(run[r].sid)
      <4> SUFFICES ASSUME NEW t \in Phones, t = run[r].sid[1] PROVE Run_kind(r)
        BY <1>0, <1>3 DEF SaveSession
      <4>1. phone' = [phone EXCEPT ![t] = Accepted(phone[t], run[r].sid)] /\ phone \in [Phones -> Phone]
        BY <1>3, <2>2, <3>4 DEF SaveSession, PhoneAs, Accepted, Typed, TypeOK
      <4>2. phone'[t] = Accepted(phone[t], run[r].sid) /\ phone[t] \in Phone /\ OtherPages(t)
        BY <4>1 DEF OtherPages
      <4>3. /\ phone'[t].cookie.sid = run[r].sid
            /\ PageIs(t, phone[t].conns, phone[t].online, phone[t].kicked, phone'[t].cookie)
            /\ phone'[t].started = phone[t].started
        BY <4>2, AcceptedPage DEF PageIs
      <4> QED BY <1>3, <2>2, <3>1, <3>2, <4>2, <4>3 DEF SaveSession, Saves_session, Run_kind
    <3> QED BY <3>3, <3>4
  <2> QED BY <2>1, <2>2
<1>4. CASE TakeSeat(r)
  <2>1. seats \in [Names -> MaybeSid] /\ run[r].name \in Names
    BY <1>0, <1>4 DEF TakeSeat, Typed, TypeOK
  <2>2. CASE Goto(r, "failed") /\ run[r].kind = "join" /\ session = NoPage /\ UNCHANGED seats
    BY <1>4, <2>2, StepsOn DEF TakeSeat, Takes_seat, Run_kind
  <2>3. CASE /\ run[r].kind = "rejoin" \/ session # NoPage
             /\ seats' = [seats EXCEPT ![run[r].name] = run[r].sid]
             /\ Goto(r, IF run[r].kind = "join" THEN "add" ELSE "unseat")
    <3>1. Steps(r, IF run[r].kind = "join" THEN "add" ELSE "unseat")
      BY <2>3, StepsOn
    <3>2. seats'[run[r].name] = run[r].sid /\ \A n \in Names : n # run[r].name => seats'[n] = seats[n]
      BY <2>1, <2>3
    <3> QED BY <1>4, <2>3, <3>1, <3>2 DEF TakeSeat, Takes_seat, Run_kind
  <2> QED BY <1>4, <2>2, <2>3 DEF TakeSeat
<1>5. CASE AddPlayer(r)
  <2>1. CASE run[r].kind = "join" /\ Goto(r, "enter") /\ board' = Boards(run[r].name, run[r].sid) /\ echo' = SyncOf(r)
    <3>1. Steps(r, "enter") /\ Syncs(r) /\ Listed(run[r].name)
      BY <2>1, StepsOn, SyncsRun, ListedAs
    <3> QED BY <1>5, <2>1, <3>1 DEF AddPlayer, Adds_player, Run_kind
  <2>2. CASE run[r].kind = "rejoin" /\ Goto(r, "save") /\ UNCHANGED <<board, echo>>
    BY <1>5, <2>2, StepsOn DEF AddPlayer, Adds_player, Run_kind
  <2> QED BY <1>5, <2>1, <2>2 DEF AddPlayer
<1>6. CASE EnterRoom(r)
  <2>1. \/ run[r].sid \in alive /\ Steps(r, "done") /\ room' = room \cup {run[r].sid}
        \/ run[r].sid \notin alive /\ Steps(r, "failed") /\ UNCHANGED room
    BY <1>6, StepsOn DEF EnterRoom, Entered
  <2> QED BY <1>6, <2>1 DEF EnterRoom, Enters_room, Run_kind
<1> QED BY <1>1, <1>2, <1>3, <1>4, <1>5, <1>6

LEMMA RejoinKinds ==
  ASSUME Typed, NEW r \in Runs, ReadGame(r) \/ Match(r) \/ Unseat(r) \/ Return(r)
  PROVE  Run_kind(r)
<1> USE DEF keys, sockets, calls, screens, history, begins, seated, conns, kicks
<1>0. run[r].pc # "idle" => run[r].name \in Names /\ run[r].sid \in Sids /\ run[r].sid[1] \in Phones
  BY SidFacts DEF Typed, RunsKnown, Known
<1>1. CASE ReadGame(r)
  <2>1. Advances(r, "match", started)
    BY <1>1 DEF ReadGame, Becomes, Advances, OtherRuns, Typed, TypeOK, Run
  <2> QED BY <1>1, <2>1 DEF ReadGame, Reads_game, Run_kind
<1>2. CASE Match(r)
  <2>1. \/ Steps(r, "done") /\ UNCHANGED echo
        \/ seats[run[r].name] = run[r].old /\ Steps(r, "seat") /\ Syncs(r)
    BY <1>2, StepsOn, SyncsRun DEF Match
  <2> QED BY <1>2, <2>1 DEF Match, Matches, Run_kind
<1>3. CASE Unseat(r)
  <2>1. Steps(r, "add")
    BY <1>3, StepsOn DEF Unseat
  <2> QED BY <1>3, <2>1 DEF Unseat, Unseats, Run_kind
<1>4. CASE Return(r)
  <2>1. CASE run[r].sid \notin alive
    <3>1. Steps(r, "failed") /\ UNCHANGED <<sess, room, phone>>
      BY <1>4, <2>1, StepsOn DEF Return
    <3> QED BY <1>4, <2>1, <3>1 DEF Return, Returns, Run_kind
  <2>2. CASE run[r].sid \in alive
    <3>1. /\ Steps(r, "done") /\ room' = room \cup {run[r].sid}
          /\ sess' = [sess EXCEPT ![run[r].sid] = [name |-> run[r].name, ping |-> FALSE]]
      BY <1>4, <2>2, StepsOn DEF Return, Entered
    <3>2. SessionAs(run[r].sid, FALSE)
      BY <1>0, <1>4, <3>1, NewSession DEF Return
    <3>3. CASE ~Listens(run[r].sid)
      BY <1>4, <2>2, <3>1, <3>2, <3>3 DEF Return, Returns, Run_kind
    <3>4. CASE Listens(run[r].sid)
      <4> SUFFICES ASSUME NEW t \in Phones, t = run[r].sid[1] PROVE Run_kind(r)
        BY <1>0, <1>4 DEF Return
      <4>1. /\ phone' = [phone EXCEPT ![t] = Rejoined(phone[t], run[r].saw)]
            /\ phone \in [Phones -> Phone] /\ run[r].saw \in BOOLEAN
        BY <1>4, <2>2, <3>4 DEF Return, PhoneAs, Typed, TypeOK, Run
      <4>2. phone'[t] = Rejoined(phone[t], run[r].saw) /\ phone[t] \in Phone /\ OtherPages(t)
        BY <4>1 DEF OtherPages
      <4>3. /\ PageIs(t, phone[t].conns, phone[t].online, phone[t].kicked, phone[t].cookie)
            /\ phone'[t].started = (phone[t].started \/ run[r].saw)
        BY <4>1, <4>2, ReturnedPage DEF PageIs
      <4> QED BY <1>4, <2>2, <3>1, <3>2, <3>4, <4>2, <4>3 DEF Return, Returns, Run_kind
    <3> QED BY <3>3, <3>4
  <2> QED BY <2>1, <2>2
<1> QED BY <1>1, <1>2, <1>3, <1>4

(***************************************************************************)
(* Echoes, phones and their connections.                                   *)
(***************************************************************************)
LEMMA EchoRecord ==
  ASSUME Typed, NEW r \in Runs, NEW pc, NEW n, echo' = [echo EXCEPT ![r] = [pc |-> pc, name |-> n]]
  PROVE  EchoAs(r, pc)
BY DEF Typed, TypeOK, EchoAs

LEMMA EchoPc == ASSUME Typed, NEW r \in Runs, NEW pc, echo' = [echo EXCEPT ![r].pc = pc] PROVE EchoAs(r, pc)
BY DEF Typed, TypeOK, Echo, EchoAs

LEMMA EchoKinds ==
  ASSUME Typed, NEW r \in Runs, EchoStep(r)
  PROVE  Echo_reads(r) \/ Echo_writes(r)
<1> USE DEF keys, sockets, calls, screens, history, begins, seated, conns, kicks
<1>1. CASE EchoRead(r)
  <2>1. CASE run[r].sid \in alive /\ sess[run[r].sid] # NoSession
    BY <1>1, <2>1, EchoRecord DEF EchoRead, Echo_reads
  <2>2. CASE ~(run[r].sid \in alive /\ sess[run[r].sid] # NoSession)
    BY <1>1, <2>2, EchoRecord DEF EchoRead, Echo_reads
  <2> QED BY <2>1, <2>2
<1>2. CASE EchoWrite(r)
  <2>1. CASE /\ run[r].sid \in alive /\ echo' = [echo EXCEPT ![r].pc = "done"]
             /\ sess' = [sess EXCEPT ![run[r].sid] = Pinged(echo[r].name)]
    <3>1. run[r].sid \in Sids
      BY <2>1 DEF Typed, TypeOK
    <3>2. SessionAs(run[r].sid, TRUE)
      BY <2>1, <3>1, NewSession DEF Pinged
    <3> QED BY <1>2, <2>1, <3>2, EchoPc DEF EchoWrite, Echo_writes
  <2>2. CASE run[r].sid \notin alive /\ echo' = [echo EXCEPT ![r].pc = "failed"] /\ UNCHANGED sess
    BY <1>2, <2>2, EchoPc DEF EchoWrite, Echo_writes
  <2> QED BY <1>2, <2>1, <2>2 DEF EchoWrite
<1> QED BY <1>1, <1>2 DEF EchoStep

LEMMA ResetPage ==
  ASSUME NEW x \in Phone
  PROVE  /\ Reset(x) \in Phone
         /\ Reset(x).conns = x.conns /\ Reset(x).online = x.online
         /\ Reset(x).kicked = x.kicked /\ Reset(x).cookie = x.cookie
         /\ Sent(x).conns = x.conns /\ Sent(x).online = FALSE
         /\ Sent(x).kicked = TRUE /\ Sent(x).cookie = x.cookie
<1>1. Reset(x) \in Phone
  BY ResetRecords
<1>2. /\ Reset(x).conns = x.conns /\ Reset(x).online = x.online
      /\ Reset(x).kicked = x.kicked /\ Reset(x).cookie = x.cookie
  BY DEF Phone, Reset
<1>3. /\ Sent(x).conns = x.conns /\ Sent(x).online = FALSE
      /\ Sent(x).kicked = TRUE /\ Sent(x).cookie = x.cookie
  BY <1>1, <1>2 DEF Phone, Sent
<1> QED BY <1>1, <1>2, <1>3

LEMMA RunBegins ==
  ASSUME Typed, NEW r \in Runs, run[r].pc = "idle", NEW kind, NEW s, NEW n, NEW old,
         Becomes(r, [IdleRun EXCEPT !.pc = "sent", !.kind = kind, !.sid = s, !.name = n, !.old = old])
  PROVE  Begins(r, kind, s, n, old)
BY DEF Typed, TypeOK, Becomes, IdleRun, Begins, OtherRuns

LEMMA ConnectKind ==
  ASSUME Typed, NEW t \in Phones, Connect(t)
  PROVE  Connects(t)
<1> USE DEF keys, sockets, calls, screens, history, begins, seated, conns, kicks
<1> DEFINE x    == phone[t]
           s    == <<t, x.conns + 1>>
           page == IF x.online THEN Reset(x) ELSE x
           y    == [page EXCEPT !.online = TRUE, !.conns = @ + 1]
<1>1. x \in Phone /\ x.conns \in Nat /\ Conns[t] \in Nat /\ x.conns < Conns[t] /\ phone \in [Phones -> Phone]
  BY LobbyAssumption DEF Typed, TypeOK, Phone, Connect
<1>2. s \in Sids
  BY <1>1, SidExists
<1>3. page \in Phone /\ page.conns = x.conns /\ page.cookie = x.cookie /\ page.kicked = x.kicked
  BY <1>1, ResetPage
<1>4. /\ PhoneAs(t, y) /\ alive' = alive \cup {s}
      /\ \/ UNCHANGED run
         \/ /\ page.cookie # NoCookie
            /\ \E r \in Runs : run[r].pc = "idle"
                 /\ Becomes(r, [IdleRun EXCEPT !.pc = "sent", !.kind = "rejoin", !.sid = s,
                                  !.name = page.cookie.name, !.old = page.cookie.sid])
  BY <1>1 DEF Connect
<1> HIDE DEF page, s, x
<1>5. y.conns = x.conns + 1 /\ y.online = TRUE /\ y.kicked = x.kicked /\ y.cookie = x.cookie
  BY <1>3 DEF Phone
<1> HIDE DEF y
<1>6. OtherPages(t) /\ PageIs(t, x.conns + 1, TRUE, x.kicked, x.cookie)
  BY <1>1, <1>4, <1>5 DEF PhoneAs, OtherPages, PageIs
<1>7. \/ UNCHANGED run
      \/ /\ x.cookie # NoCookie
         /\ \E r \in Runs : Begins(r, "rejoin", s, x.cookie.name, x.cookie.sid)
  BY <1>3, <1>4, RunBegins
<1> QED BY <1>2, <1>4, <1>6, <1>7 DEF Connect, Connects, s, x

LEMMA UserKinds ==
  ASSUME Typed, UserStep
  PROVE  Kind
<1> USE DEF keys, sockets, calls, screens, history, begins, seated, conns, kicks
<1>0. phone \in [Phones -> Phone] /\ board \in [Pages -> Board] /\ kick \in [Kicks -> Kick]
  BY DEF Typed, TypeOK
<1>1. ASSUME NEW t \in Phones, Connect(t) PROVE Kind
  BY <1>1, ConnectKind DEF Kind
<1>2. ASSUME NEW t \in Phones, Lose(t) PROVE Kind
  <2>1. OtherPages(t) /\ PageIs(t, phone[t].conns, FALSE, phone[t].kicked, phone[t].cookie)
    BY <1>0, <1>2 DEF Lose, PhoneAs, OtherPages, PageIs, Phone
  <2> QED BY <1>2, <2>1 DEF Lose, Loses, Kind
<1>3. ASSUME NEW r \in Runs, NEW t \in Phones, NEW n \in Names, Enter(r, t, n) PROVE Kind
  <2> DEFINE s == <<t, phone[t].conns>>
  <2>1. run[r].pc = "idle" /\ run' = [run EXCEPT ![r] = JoinRun(s, n)]
    BY <1>3 DEF Enter, Becomes, JoinRun
  <2>2. Begins(r, "join", s, n, NoSid)
    <3>1. /\ JoinRun(s, n).pc = "sent" /\ JoinRun(s, n).kind = "join" /\ JoinRun(s, n).sid = s
          /\ JoinRun(s, n).name = n /\ JoinRun(s, n).old = NoSid
      BY DEF JoinRun, IdleRun
    <3> QED BY <2>1, <3>1 DEF Typed, TypeOK, Begins, OtherRuns
  <2>3. SamePages
    <3>1. phone' = [phone EXCEPT ![t] = [phone[t] EXCEPT !.name = n]]
      BY <1>3 DEF Enter, PhoneAs
    <3> QED BY <1>0, <3>1 DEF SamePages, PageIs, Phone
  <2>4. Sends_form(r)
    BY <1>3, <2>2, <2>3 DEF Enter, Sends_form
  <2> QED BY <2>4 DEF Kind
<1>4. ASSUME NEW p \in Pages, Register(p) PROVE Hosts_only
  BY <1>4 DEF Register, Hosts_only
<1>5. ASSUME NEW p \in Pages, OpenRemote(p) PROVE Hosts_only
  <2>1. \A q \in Pages : board'[q].players = board[q].players
    BY <1>0, <1>5 DEF OpenRemote, BoardAs, Board
  <2> QED BY <1>5, <2>1 DEF OpenRemote, Hosts_only
<1>6. ASSUME NEW p \in Pages, ClickStart(p) PROVE Hosts_only
  BY <1>6 DEF ClickStart, Hosts_only, Typed, TypeOK
<1>7. ASSUME NEW k \in Kicks, NEW p \in Pages, ClickKick(k, p) PROVE Kind
  <2>1. PICK e \in board[p].players :
          /\ KickAs(k, NewKick(kick[k], p, e[1]))
          /\ BoardAs(p, [board[p] EXCEPT !.players = @ \ {e}])
          /\ named' = named \cup {e[1]}
    BY <1>7 DEF ClickKick, NewKick
  <2>2. NewKick(kick[k], p, e[1]).pc = "sent" /\ NewKick(kick[k], p, e[1]).name = e[1]
    BY <1>0 DEF Kick, NewKick
  <2>3. OtherKicks(k) /\ kick'[k].pc = "sent" /\ kick'[k].name = e[1]
    BY <1>0, <2>1, <2>2 DEF KickAs, OtherKicks
  <2>4. \A q \in Pages : board'[q].players \subseteq board[q].players
    BY <1>0, <2>1 DEF BoardAs, Board
  <2>5. Clicks_kick(k, p)
    BY <1>7, <2>1, <2>3, <2>4 DEF ClickKick, Clicks_kick
  <2> QED BY <2>5 DEF Kind
<1> QED BY <1>1, <1>2, <1>3, <1>4, <1>5, <1>6, <1>7 DEF UserStep, Kind

(***************************************************************************)
(* The hosts' pages, the kicks and the controllers.                        *)
(***************************************************************************)
LEMMA StartedPage ==
  ASSUME NEW x \in Phone, NEW c \in BOOLEAN
  PROVE  LET y == [x EXCEPT !.started = c]
         IN y.conns = x.conns /\ y.online = x.online /\ y.kicked = x.kicked /\ y.cookie = x.cookie /\ y.started = c
BY DEF Phone

LEMMA PageKinds ==
  ASSUME Typed, NEW p \in Pages, PageStep(p)
  PROVE  Kind
<1> USE DEF keys, sockets, calls, screens, history, begins, seated, conns, kicks
<1>0. phone \in [Phones -> Phone] /\ board \in [Pages -> Board] /\ start \in [Pages -> {"idle", "sent", "emit"}]
  BY DEF Typed, TypeOK
<1>1. CASE CheckSession(p)
  BY <1>1 DEF CheckSession, Hosts_only, Kind
<1>2. CASE ClaimSession(p)
  BY <1>2, LobbyAssumption DEF ClaimSession, Hosts_only, Kind
<1>3. CASE Welcome(p)
  <2>1. \A q \in Pages : board'[q].players = board[q].players
    BY <1>0, <1>3 DEF Welcome, BoardAs, Board
  <2> QED BY <1>3, <2>1 DEF Welcome, Hosts_only, Kind
<1>4. CASE SaveAdmin(p)
  BY <1>4 DEF SaveAdmin, Hosts_only, Kind
<1>5. CASE StoreStarted(p)
  <2>1. /\ started => started'
        /\ \A q \in Pages : start'[q] = "emit" => start[q] = "emit" \/ started'
    BY <1>0, <1>5 DEF StoreStarted
  <2> QED BY <1>5, <2>1 DEF StoreStarted, Hosts_only, Kind
<1>6. CASE EmitStart(p)
  <2>1. \A q \in Pages : start'[q] = "emit" => start[q] = "emit"
    BY <1>0, <1>6 DEF EmitStart
  <2>2. \A r \in Runs : Entering(r) /\ run[r].sid \in Sids => run[r].sid \in crossed'
    BY <1>6 DEF EmitStart, Entering
  <2>3. \A t \in Phones : /\ PageIs(t, phone[t].conns, phone[t].online, phone[t].kicked, phone[t].cookie)
                          /\ phone'[t].started = (phone[t].started \/ \E s \in room : s[1] = t /\ Listens(s))
    <3> TAKE t \in Phones
    <3> DEFINE c == phone[t].started \/ \E s \in room : s[1] = t /\ Listens(s)
    <3>1. phone' = [u \in Phones |-> [phone[u] EXCEPT
                      !.started = @ \/ \E s \in room : s[1] = u /\ Listens(s)]]
      BY <1>6 DEF EmitStart
    <3>2. phone'[t] = [phone[t] EXCEPT !.started = c]
      BY <3>1, Zenon
    <3>3. phone[t] \in Phone /\ c \in BOOLEAN
      BY <1>0, Zenon
    <3> HIDE DEF c
    <3>4. /\ PageIs(t, phone[t].conns, phone[t].online, phone[t].kicked, phone[t].cookie)
          /\ phone'[t].started = c
      BY <3>2, <3>3, StartedPage DEF PageIs
    <3> QED BY <3>4 DEF c
  <2>4. \A q \in Pages : board'[q].players = board[q].players
    BY <1>0, <1>6 DEF EmitStart, Board
  <2>5. begun' = TRUE /\ crossed \subseteq crossed' /\ start[p] = "emit"
    BY <1>6 DEF EmitStart
  <2>6. UNCHANGED <<started, seated, conns, kick, named, run, echo>>
    BY <1>6 DEF EmitStart
  <2>7. Emits_start(p)
    BY <2>1, <2>2, <2>3, <2>4, <2>5, <2>6 DEF Emits_start
  <2> QED BY <2>7 DEF Kind
<1> QED BY <1>1, <1>2, <1>3, <1>4, <1>5, <1>6 DEF PageStep

LEMMA KickKinds ==
  ASSUME Typed, NEW k \in Kicks, KickStep(k)
  PROVE  Kind
<1> USE DEF keys, sockets, calls, screens, history, begins, seated, conns, kicks
<1>0. phone \in [Phones -> Phone] /\ kick \in [Kicks -> Kick]
  BY DEF Typed, TypeOK
<1>1. CASE FindSeat(k)
  <2>1. OtherKicks(k) /\ kick'[k].name = kick[k].name
        /\ \/ kick'[k].pc = "failed"
           \/ kick'[k].pc = "remove" /\ kick'[k].sid = seats[kick[k].name]
    BY <1>0, <1>1 DEF FindSeat, KickAs, OtherKicks, Kick, SeatOf
  <2> QED BY <1>1, <2>1 DEF FindSeat, Finds_seat, Kind
<1>2. CASE Remove(k)
  <2>1. kick[k].pc = "remove" /\ OtherKicks(k) /\ kick'[k].name = kick[k].name /\ kick'[k].pc = "done"
    BY <1>0, <1>2 DEF Remove, KickAs, OtherKicks, Kick
  <2>2. phone' = [t \in Phones |-> IF t \in Reached(kick[k].sid) THEN Sent(phone[t]) ELSE phone[t]]
    BY <1>2 DEF Remove, Sent
  <2>3. \A t \in Phones : IF t \in Reached(kick[k].sid)
                          THEN PageIs(t, phone[t].conns, FALSE, TRUE, phone[t].cookie)
                          ELSE phone'[t] = phone[t]
    BY <1>0, <2>2, ResetPage DEF PageIs
  <2> QED BY <1>2, <2>1, <2>3 DEF Remove, Removes, Kind
<1> QED BY <1>1, <1>2 DEF KickStep

LEMMA BoxKinds ==
  ASSUME Typed, NEW b \in Boxes, BoxStep(b)
  PROVE  Kind
<1> USE DEF keys, sockets, calls, screens, history, begins, seated, conns, kicks
<1>1. CASE BoxLookUp(b)
  BY <1>1 DEF BoxLookUp, Hosts_only, Kind
<1>2. CASE BoxCheckName(b)
  BY <1>2 DEF BoxCheckName, Hosts_only, Kind
<1>3. CASE BoxConnect(b)
  BY <1>3, ListedAs DEF BoxConnect, Box_enters, Kind
<1> QED BY <1>1, <1>2, <1>3 DEF BoxStep

LEMMA NextKinds ==
  ASSUME Typed, Next
  PROVE  Kind
<1>1. CASE UserStep
  BY <1>1, UserKinds
<1>2. ASSUME NEW s \in Sids, Timeout(s) PROVE Kind
  BY <1>2 DEF Timeout, Times_out, Kind, keys, sockets, calls, screens, history, begins, seated, conns, kicks
<1>3. ASSUME NEW r \in Runs, RunStep(r) \/ EchoStep(r) PROVE Kind
  BY <1>3, JoinKinds, RejoinKinds, EchoKinds DEF RunStep, Kind
<1> QED BY <1>1, <1>2, <1>3, PageKinds, KickKinds, BoxKinds DEF Next

(***************************************************************************)
(* A run knows which handler it is.                                        *)
(***************************************************************************)
\* A run's own step: its handler, player and connection stay.
Moved(r) ==
  /\ OtherRuns(r)
  /\ run[r].pc # "idle" /\ run'[r].pc \notin {"idle", "sent"}
  /\ run'[r].kind = run[r].kind /\ run'[r].sid = run[r].sid
  /\ run'[r].name = run[r].name /\ run'[r].old = run[r].old

LEMMA RunMoved ==
  ASSUME Typed, Paths, NEW r \in Runs, Run_kind(r)
  PROVE  Moved(r) /\ Paths'
<1> SUFFICES /\ Moved(r)
             /\ run'[r].pc \in {"name", "enter"} => run[r].kind = "join"
             /\ run'[r].pc \in {"match", "unseat"} => run[r].kind = "rejoin"
  BY DEF Moved, OtherRuns, Paths
<1> USE DEF Moved, Steps, Advances
<1>0. run[r].kind \in {"join", "rejoin"}
  BY DEF Typed, TypeOK, Run
<1>1. CASE Reads_started(r)
  BY <1>1 DEF Reads_started
<1>2. CASE Checks_name(r)
  BY <1>2 DEF Checks_name
<1>3. CASE Saves_session(r)
  BY <1>3 DEF Saves_session
<1>4. CASE Takes_seat(r)
  BY <1>0, <1>4 DEF Takes_seat
<1>5. CASE Adds_player(r)
  BY <1>5 DEF Adds_player
<1>6. CASE Enters_room(r)
  BY <1>6 DEF Enters_room
<1>7. CASE Reads_game(r)
  BY <1>7 DEF Reads_game
<1>8. CASE Matches(r)
  BY <1>8 DEF Matches
<1>9. CASE Unseats(r)
  BY <1>9 DEF Unseats
<1>10. CASE Returns(r)
  BY <1>10 DEF Returns
<1> QED BY <1>1, <1>2, <1>3, <1>4, <1>5, <1>6, <1>7, <1>8, <1>9, <1>10 DEF Run_kind

LEMMA PathsStep ==
  ASSUME Typed, Paths, Kind
  PROVE  Paths'
<1> USE DEF begins, seated, conns, kicks, Paths
<1>1. ASSUME NEW r \in Runs, Run_kind(r) PROVE Paths'
  BY <1>1, RunMoved
<1>2. ASSUME NEW r \in Runs, Sends_form(r) PROVE Paths'
  BY <1>2 DEF Sends_form, Begins, OtherRuns
<1>3. ASSUME NEW t \in Phones, Connects(t) PROVE Paths'
  BY <1>3 DEF Connects, Begins, OtherRuns
<1>4. CASE UNCHANGED run
  BY <1>4
<1> QED BY <1>1, <1>2, <1>3, <1>4 DEF Kind, Echo_reads, Echo_writes,
       Loses, Times_out, Hosts_only, Emits_start, Box_enters, Finds_seat, Removes, Clicks_kick

(***************************************************************************)
(* The start is heard.                                                     *)
(***************************************************************************)
\* A phone that stays on its connection still knows that the game has started.
PagesHeard ==
  \A t \in Phones :
    /\ phone[t].conns \in Nat /\ phone'[t].conns \in Nat /\ phone[t].conns <= phone'[t].conns
    /\ phone'[t].online /\ phone'[t].conns = phone[t].conns =>
         phone[t].online /\ (phone[t].started => phone'[t].started)

\* A step that is not start_game's emit.
NothingEmitted ==
  /\ begun' = begun /\ crossed' = crossed /\ (started => started')
  /\ \A p \in Pages : start'[p] = "emit" => start[p] = "emit" \/ started'

EntrantOK(s) == s[2] <= phone[s[1]].conns /\ (Listens(s) /\ begun => phone[s[1]].started \/ s \in crossed)

LEMMA StartGoesOn ==
  ASSUME Typed, StartInv, Typed', PagesHeard, NothingEmitted,
         \A r \in Runs : begun' /\ Entering(r)' => HeardAlready(r)',
         \A s \in room' : s \in room \/ EntrantOK(s)'
  PROVE  StartInv'
<1>1. (begun' => started') /\ \A p \in Pages : start'[p] = "emit" => started'
  BY DEF NothingEmitted, StartInv
<1>2. ASSUME NEW s \in room' PROVE EntrantOK(s)'
  <2>1. CASE s \in room
    <3>1. s[1] \in Phones /\ s[2] \in Nat /\ s[2] <= phone[s[1]].conns /\ room \subseteq Sids
      BY <2>1, SidFacts, LobbyAssumption DEF Typed, TypeOK, StartInv
    <3>2. s[2] <= phone'[s[1]].conns
      BY <3>1 DEF PagesHeard
    <3>3. ASSUME Listens(s)', begun' PROVE phone'[s[1]].started \/ s \in crossed'
      <4>1. phone'[s[1]].online /\ phone'[s[1]].conns = s[2]
        BY <3>3 DEF Listens
      <4>2. phone[s[1]].conns = s[2]
        BY <3>1, <4>1 DEF PagesHeard
      <4>3. Listens(s) /\ (phone[s[1]].started => phone'[s[1]].started)
        BY <2>1, <3>1, <4>1, <4>2 DEF PagesHeard, Listens
      <4> QED BY <2>1, <3>1, <3>3, <4>3 DEF StartInv, StartHeard, NothingEmitted
    <3> QED BY <3>2, <3>3 DEF EntrantOK
  <2> QED BY <1>2, <2>1
<1> QED BY <1>1, <1>2 DEF StartInv, StartHeard, EntrantOK

LEMMA PagesStill ==
  ASSUME Typed,
         \A t \in Phones : /\ phone'[t].conns = phone[t].conns
                           /\ phone'[t].online => phone[t].online
                           /\ phone'[t].online /\ phone[t].started => phone'[t].started
  PROVE  PagesHeard
BY DEF Typed, TypeOK, Phone, PagesHeard

LEMMA StartRun ==
  ASSUME Typed, Paths, StartInv, Typed', NEW r \in Runs, Run_kind(r)
  PROVE  StartInv'
<1> USE DEF begins, seated, conns, kicks
<1>0. /\ Moved(r) /\ run[r].sid \in Sids /\ run[r].sid[2] <= phone[run[r].sid[1]].conns
      /\ run[r].sid[1] \in Phones /\ run[r].saw \in BOOLEAN /\ run[r].kind \in {"join", "rejoin"}
  BY RunMoved, SidFacts DEF Moved, Typed, TypeOK, RunsKnown, Known, Run
<1>1. NothingEmitted
  <2>1. UNCHANGED <<started, start, begun, crossed>>
    <3>1. CASE Takes_seat(r) \/ Saves_session(r) \/ Returns(r)
      BY <3>1 DEF Takes_seat, Saves_session, Returns
    <3>2. CASE Adds_player(r) \/ Enters_room(r) \/ Matches(r)
      BY <3>2 DEF Adds_player, Enters_room, Matches
    <3>3. CASE Reads_started(r) \/ Checks_name(r) \/ Reads_game(r) \/ Unseats(r)
      BY <3>3 DEF Reads_started, Checks_name, Reads_game, Unseats
    <3> QED BY <3>1, <3>2, <3>3 DEF Run_kind
  <2> QED BY <2>1 DEF NothingEmitted
<1>2. PagesHeard
  <2>1. CASE phone' = phone
    BY <2>1, PagesStill
  <2>2. CASE Saves_session(r)
    BY <2>1, <2>2, PagesStill DEF Saves_session, OtherPages, PageIs
  <2>3. CASE Returns(r)
    <3>1. CASE Listens(run[r].sid) /\ phone' # phone
      <4> SUFFICES ASSUME NEW t \in Phones, t = run[r].sid[1] PROVE PagesHeard
        BY <1>0
      <4>1. /\ OtherPages(t) /\ phone'[t].conns = phone[t].conns /\ phone'[t].online = phone[t].online
            /\ phone'[t].started = (phone[t].started \/ run[r].saw)
        BY <2>3, <3>1 DEF Returns, PageIs
      <4>2. phone[t].started => phone'[t].started
        BY <4>1, Zenon
      <4> QED BY <4>1, <4>2, PagesStill DEF OtherPages
    <3> QED BY <2>1, <2>3, <3>1 DEF Returns
  <2> QED BY <2>1, <2>2, <2>3 DEF Run_kind, Reads_started, Checks_name, Takes_seat, Adds_player,
             Enters_room, Reads_game, Matches, Unseats
<1>3. begun => started
  BY DEF StartInv
<1>4. ASSUME NEW q \in Runs, begun', Entering(q)' PROVE HeardAlready(q)'
  <2>1. begun /\ crossed' = crossed
    BY <1>1, <1>4 DEF NothingEmitted
  <2>2. CASE q # r
    BY <1>0, <1>4, <2>1, <2>2 DEF Moved, OtherRuns, Entering, HeardAlready, StartInv
  <2>3. CASE Reads_started(r)
    BY <1>3, <1>4, <2>1, <2>2, <2>3 DEF Reads_started, Steps, Advances, Entering
  <2>4. CASE Reads_game(r)
    BY <1>3, <2>1, <2>2, <2>4 DEF Reads_game, Advances, HeardAlready
  <2>5. CASE Entering(r) /\ run'[r].saw = run[r].saw
    BY <1>0, <2>1, <2>2, <2>5 DEF Moved, HeardAlready, StartInv
  <2>6. Reads_started(r) \/ Reads_game(r) \/ (Entering(r) /\ run'[r].saw = run[r].saw)
    BY DEF Run_kind, Checks_name, Saves_session, Takes_seat, Adds_player, Enters_room,
       Matches, Unseats, Returns, Steps, Advances, Entering
  <2> QED BY <2>3, <2>4, <2>5, <2>6
<1>5. ASSUME NEW s \in room', s \notin room PROVE EntrantOK(s)'
  <2>1. s = run[r].sid /\ (Enters_room(r) \/ (Returns(r) /\ run[r].sid \in alive))
    <3>1. CASE Enters_room(r)
      BY <1>5, <3>1 DEF Enters_room
    <3>2. CASE Returns(r)
      BY <1>5, <3>2 DEF Returns
    <3>3. CASE room' = room
      BY <1>5, <3>3
    <3> QED BY <3>1, <3>2, <3>3 DEF Run_kind, Reads_started, Checks_name, Saves_session, Takes_seat,
               Adds_player, Reads_game, Matches, Unseats
  <2>2. s[2] <= phone'[s[1]].conns
    <3>1. s[2] \in Nat
      BY <1>0, <2>1, SidFacts, LobbyAssumption
    <3> QED BY <1>0, <1>2, <2>1, <3>1 DEF PagesHeard
  <2>3. ASSUME Listens(s)', begun' PROVE phone'[s[1]].started \/ s \in crossed'
    <3>1. begun /\ crossed' = crossed
      BY <1>1, <2>3 DEF NothingEmitted
    <3>2. Entering(r) /\ HeardAlready(r)
      BY <2>1, <3>1 DEF Enters_room, Returns, Entering, StartInv
    <3>3. CASE Enters_room(r)
      BY <2>1, <3>1, <3>2, <3>3 DEF Enters_room, Paths, HeardAlready
    <3>4. CASE Returns(r) /\ run[r].sid \in alive /\ run[r].saw
      <4> SUFFICES ASSUME NEW t \in Phones, t = run[r].sid[1] PROVE phone'[t].started
        BY <1>0, <2>1
      <4>1. Listens(s)
        <5>1. CASE ~Listens(s)
          BY <2>1, <2>3, <3>4, <5>1 DEF Returns, Listens
        <5> QED BY <5>1
      <4>2. phone'[t].started = (phone[t].started \/ run[r].saw)
        BY <2>1, <3>4, <4>1 DEF Returns
      <4> QED BY <3>4, <4>2, Zenon
    <3> QED BY <2>1, <3>1, <3>2, <3>3, <3>4 DEF HeardAlready
  <2> QED BY <2>2, <2>3 DEF EntrantOK
<1> QED BY <1>1, <1>2, <1>4, <1>5, StartGoesOn

LEMMA StartEmitted ==
  ASSUME Typed, StartInv, Typed', NEW p \in Pages, Emits_start(p)
  PROVE  StartInv'
<1> USE DEF begins, seated, conns, kicks
<1>1. started' /\ room' = room /\ room \subseteq Sids
  BY DEF StartInv, Emits_start, Typed, TypeOK
<1>2. ASSUME NEW r \in Runs, Entering(r)' PROVE HeardAlready(r)'
  <2>1. Entering(r) /\ run' = run /\ run[r].sid \in Sids
    BY <1>2 DEF Emits_start, Entering, Typed, RunsKnown, Known
  <2> QED BY <2>1 DEF Emits_start, HeardAlready
<1>3. ASSUME NEW s \in room PROVE EntrantOK(s)'
  <2>1. s \in Sids /\ s[1] \in Phones
    BY <1>1, <1>3, SidFacts
  <2> SUFFICES ASSUME NEW t \in Phones, t = s[1] PROVE EntrantOK(s)'
    BY <2>1
  <2>2. /\ phone'[t].conns = phone[t].conns /\ phone'[t].online = phone[t].online
        /\ phone'[t].started = (phone[t].started \/ \E q \in room : q[1] = t /\ Listens(q))
    BY DEF Emits_start, PageIs
  <2>3. s[2] <= phone'[t].conns
    BY <1>3, <2>2 DEF StartInv
  <2>4. Listens(s)' => Listens(s)
    BY <2>2 DEF Listens
  <2>5. Listens(s) => phone'[t].started
    BY <1>3, <2>2, Zenon
  <2> QED BY <2>3, <2>4, <2>5 DEF EntrantOK
<1> QED BY <1>1, <1>2, <1>3 DEF StartInv, StartHeard, EntrantOK, Emits_start

LEMMA StartStep ==
  ASSUME Typed, Paths, StartInv, Typed', Kind
  PROVE  StartInv'
<1> USE DEF begins, seated, conns, kicks
<1>1. ASSUME NEW r \in Runs, Run_kind(r) PROVE StartInv'
  BY <1>1, StartRun
<1>2. ASSUME NEW p \in Pages, Emits_start(p) PROVE StartInv'
  BY <1>2, StartEmitted
<1>3. ASSUME NothingEmitted, room' \subseteq room, PagesHeard,
             \A q \in Runs : run'[q] = run[q] \/ run'[q].pc = "sent"
      PROVE  StartInv'
  <2>1. \A q \in Runs : begun' /\ Entering(q)' => HeardAlready(q)'
    BY <1>3 DEF NothingEmitted, Entering, HeardAlready, StartInv
  <2> QED BY <1>3, <2>1, StartGoesOn
<1>4. ASSUME NEW r \in Runs, Echo_reads(r) \/ Echo_writes(r) PROVE StartInv'
  BY <1>3, <1>4, PagesStill DEF Echo_reads, Echo_writes, NothingEmitted
<1>5. ASSUME NEW r \in Runs, Sends_form(r) PROVE StartInv'
  BY <1>3, <1>5, PagesStill DEF Sends_form, Begins, OtherRuns, SamePages, PageIs, NothingEmitted
<1>6. ASSUME NEW t \in Phones, Connects(t) PROVE StartInv'
  <2>1. phone[t].conns \in Nat /\ \A u \in Phones : phone[u].conns \in Nat
    BY DEF Typed, TypeOK, Phone
  <2>2. PagesHeard
    BY <1>6, <2>1 DEF Connects, OtherPages, PageIs, PagesHeard
  <2> QED BY <1>3, <1>6, <2>2 DEF Connects, Begins, OtherRuns, NothingEmitted
<1>7. ASSUME NEW t \in Phones, Loses(t) PROVE StartInv'
  BY <1>3, <1>7, PagesStill DEF Loses, OtherPages, PageIs, NothingEmitted
<1>8. ASSUME NEW s \in Sids, Times_out(s) PROVE StartInv'
  BY <1>3, <1>8, PagesStill DEF Times_out, NothingEmitted
<1>9. CASE Hosts_only
  BY <1>3, <1>9, PagesStill DEF Hosts_only, NothingEmitted
<1>10. ASSUME NEW b \in Boxes, Box_enters(b) PROVE StartInv'
  BY <1>3, <1>10, PagesStill DEF Box_enters, NothingEmitted
<1>11. ASSUME NEW k \in Kicks, Finds_seat(k) \/ \E p \in Pages : Clicks_kick(k, p) PROVE StartInv'
  BY <1>3, <1>11, PagesStill DEF Finds_seat, Clicks_kick, NothingEmitted
<1>12. ASSUME NEW k \in Kicks, Removes(k) PROVE StartInv'
  <2>1. PagesHeard
    BY <1>12, PagesStill DEF Removes, PageIs
  <2> QED BY <1>3, <1>12, <2>1 DEF Removes, NothingEmitted
<1> QED BY <1>1, <1>2, <1>4, <1>5, <1>6, <1>7, <1>8, <1>9, <1>10, <1>11, <1>12 DEF Kind

(***************************************************************************)
(* A kick hits whom the host has named.                                    *)
(***************************************************************************)
\* What is known of players stays known.
PlayersStay ==
  /\ named \subseteq named'
  /\ \A n \in Names : seats[n] # NoSid => seats'[n] # NoSid
  /\ \A r \in Runs : run[r].pc # "idle" =>
       run'[r].pc # "idle" /\ run'[r].name = run[r].name /\ run'[r].sid = run[r].sid

LEMMA KnownStay ==
  ASSUME Typed, PlayersStay
  PROVE  /\ \A n \in Names : Playing_as(n) => Playing_as(n)'
         /\ \A n, s : (\E r \in Runs : Took(r, n, s)) => (\E r \in Runs : Took(r, n, s)')
         /\ \A t \in Phones : Hit(t) => Hit(t)'
<1>1. \A n \in Names : Playing_as(n) => Playing_as(n)'
  BY DEF PlayersStay, Playing_as, ABoxIs
<1>2. \A n, s : (\E r \in Runs : Took(r, n, s)) => (\E r \in Runs : Took(r, n, s)')
  BY DEF PlayersStay, Took
<1>3. \A t \in Phones : Hit(t) => Hit(t)'
  BY DEF PlayersStay, Hit
<1> QED BY <1>1, <1>2, <1>3

LEMMA KicksGoOn ==
  ASSUME Typed, KickInv, PlayersStay,
         \A n \in Names : seats'[n] = seats[n] \/ SeatTaken(n)',
         \A r \in Runs : run'[r].pc \in {"unseat", "add"} =>
           \/ run[r].pc \in {"unseat", "add"}
           \/ seats'[run'[r].name] # NoSid,
         \A p \in Pages : \A e \in board'[p].players : e \in board[p].players \/ Playing_as(e[1])',
         \A k \in Kicks : kick'[k] = kick[k] \/ KickOK(k)',
         \A t \in Phones : phone'[t].kicked => phone[t].kicked \/ Hit(t)'
  PROVE  KickInv'
<1>1. /\ \A n \in Names : Playing_as(n) => Playing_as(n)'
      /\ \A n, s : (\E r \in Runs : Took(r, n, s)) => (\E r \in Runs : Took(r, n, s)')
      /\ \A t \in Phones : Hit(t) => Hit(t)'
  BY KnownStay
<1>2. ASSUME NEW n \in Names, seats'[n] # NoSid PROVE SeatTaken(n)'
  <2>1. CASE seats'[n] = seats[n]
    <3>1. PICK r \in Runs : Took(r, n, seats[n])
      BY <1>2, <2>1 DEF KickInv, SeatTaken
    <3> QED BY <2>1, <3>1 DEF PlayersStay, SeatTaken, Took
  <2> QED BY <1>2, <2>1
<1>3. \A r \in Runs : run'[r].pc \in {"unseat", "add"} => seats'[run'[r].name] # NoSid
  <2> TAKE r \in Runs
  <2>1. CASE run[r].pc \in {"unseat", "add"}
    <3>1. run[r].name \in Names /\ seats[run[r].name] # NoSid /\ run'[r].name = run[r].name
      BY <2>1 DEF KickInv, PlayersStay, Typed, RunsKnown, Known
    <3> QED BY <3>1 DEF PlayersStay
  <2> QED BY <2>1
<1>4. \A p \in Pages : \A e \in board'[p].players : Playing_as(e[1])'
  <2> TAKE p \in Pages
  <2> TAKE e \in board'[p].players
  <2>1. CASE e \in board[p].players
    <3>1. e[1] \in Names /\ Playing_as(e[1])
      BY <2>1 DEF KickInv, Typed, TypeOK, Board
    <3> QED BY <1>1, <3>1
  <2> QED BY <2>1
<1>5. ASSUME NEW k \in Kicks PROVE KickOK(k)'
  <2>1. CASE kick'[k] = kick[k]
    <3>1. KickOK(k) /\ (kick[k].pc # "idle" => kick[k].name \in Names)
      BY DEF KickInv, Typed, KicksKnown
    <3>2. kick[k].pc # "idle" => kick[k].name \in named' /\ Playing_as(kick[k].name)'
      <4> SUFFICES ASSUME NEW n, n = kick[k].name, kick[k].pc # "idle" PROVE n \in named' /\ Playing_as(n)'
        BY <2>1
      <4> QED BY <1>1, <3>1 DEF KickOK, PlayersStay
    <3>3. kick[k].pc = "remove" => IF kick[k].sid = NoSid THEN ABoxIs(kick[k].name)
                                   ELSE \E r \in Runs : Took(r, kick[k].name, kick[k].sid)
      BY <3>1 DEF KickOK
    <3>4. CASE kick[k].pc = "remove" /\ kick[k].sid # NoSid
      <4>1. PICK r \in Runs : Took(r, kick[k].name, kick[k].sid)
        BY <3>3, <3>4
      <4>2. Took(r, kick[k].name, kick[k].sid)'
        BY <2>1, <4>1 DEF PlayersStay, Took
      <4> QED BY <2>1, <3>2, <3>4, <4>2 DEF KickOK, Playing_as
    <3>5. CASE ~(kick[k].pc = "remove" /\ kick[k].sid # NoSid)
      BY <2>1, <3>2, <3>3, <3>5 DEF KickOK, Playing_as, ABoxIs
    <3> QED BY <3>4, <3>5
  <2> QED BY <1>5, <2>1
<1>6. \A t \in Phones : phone'[t].kicked => Hit(t)'
  BY <1>1 DEF KickInv
<1> QED BY <1>2, <1>3, <1>4, <1>5, <1>6 DEF KickInv

LEMMA KickRun ==
  ASSUME Typed, Paths, KickInv, NEW r \in Runs, Run_kind(r)
  PROVE  KickInv'
<1> USE DEF begins, seated, conns, kicks
<1>0. /\ Moved(r) /\ run[r].sid \in Sids /\ run[r].name \in Names
      /\ run[r].kind \in {"join", "rejoin"} /\ NoSid \notin Sids
  BY RunMoved, LobbyAssumption DEF Moved, Typed, TypeOK, RunsKnown, Known, Run
<1>1. UNCHANGED <<kick, named>> /\ \A t \in Phones : phone'[t].kicked = phone[t].kicked
  <2>1. CASE UNCHANGED <<kick, named, phone>>
    BY <2>1
  <2>2. CASE Saves_session(r)
    BY <2>2 DEF Saves_session, OtherPages, PageIs
  <2>3. CASE Returns(r)
    BY <2>3 DEF Returns, OtherPages, PageIs
  <2> QED BY <2>1, <2>2, <2>3 DEF Run_kind, Reads_started, Checks_name, Takes_seat, Adds_player,
             Enters_room, Reads_game, Matches, Unseats
<1>2. CASE Takes_seat(r)
  <2>1. /\ \/ UNCHANGED seats /\ run'[r].pc = "failed"
           \/ seats'[run[r].name] = run[r].sid
        /\ \A n \in Names : n # run[r].name => seats'[n] = seats[n]
        /\ UNCHANGED board
    BY <1>2 DEF Takes_seat, Steps, Advances
  <2>2. PlayersStay
    BY <1>0, <1>1, <2>1 DEF Moved, OtherRuns, PlayersStay
  <2>3. \A n \in Names : seats'[n] = seats[n] \/ SeatTaken(n)'
    BY <1>0, <2>1 DEF Moved, SeatTaken, Took
  <2>4. \A q \in Runs : run'[q].pc \in {"unseat", "add"} =>
          run[q].pc \in {"unseat", "add"} \/ seats'[run'[q].name] # NoSid
    BY <1>0, <2>1 DEF Moved, OtherRuns
  <2> QED BY <1>1, <2>1, <2>2, <2>3, <2>4, KicksGoOn
<1>3. CASE ~Takes_seat(r)
  <2>1. UNCHANGED seats /\ (run'[r].pc \in {"unseat", "add"} => run[r].pc = "unseat")
    BY <1>3 DEF Run_kind, Reads_started, Checks_name, Saves_session, Adds_player,
       Enters_room, Reads_game, Matches, Unseats, Returns, Steps, Advances
  <2>2. PlayersStay
    BY <1>0, <1>1, <2>1 DEF Moved, OtherRuns, PlayersStay
  <2>3. \A p \in Pages : \A e \in board'[p].players : e \in board[p].players \/ Playing_as(e[1])'
    <3>1. CASE Adds_player(r) /\ Listed(run[r].name)
      <4>1. Playing_as(run[r].name)'
        <5>1. seats[run[r].name] # NoSid /\ run'[r].name = run[r].name
          BY <1>0, <3>1 DEF Adds_player, KickInv, Moved
        <5> QED BY <2>1, <5>1 DEF Playing_as
      <4>2. \A e : e[1] = run[r].name => Playing_as(e[1])'
        BY <1>0, <4>1 DEF Moved, Playing_as, ABoxIs
      <4> QED BY <3>1, <4>2 DEF Listed
    <3>2. CASE UNCHANGED board
      BY <3>2
    <3> QED BY <1>3, <3>1, <3>2 DEF Run_kind, Reads_started, Checks_name, Saves_session, Adds_player,
               Enters_room, Reads_game, Matches, Unseats, Returns
  <2>4. \A q \in Runs : run'[q].pc \in {"unseat", "add"} => run[q].pc \in {"unseat", "add"}
    BY <1>0, <2>1 DEF Moved, OtherRuns
  <2> QED BY <1>1, <2>1, <2>2, <2>3, <2>4, KicksGoOn
<1> QED BY <1>2, <1>3

LEMMA KickInvStep ==
  ASSUME Typed, Paths, KickInv, Kind
  PROVE  KickInv'
<1> USE DEF begins, seated, conns, kicks
<1>1. ASSUME NEW r \in Runs, Run_kind(r) PROVE KickInv'
  BY <1>1, KickRun
<1>2. ASSUME NEW r \in Runs, Echo_reads(r) \/ Echo_writes(r) PROVE KickInv'
  BY <1>2, KicksGoOn DEF Echo_reads, Echo_writes, PlayersStay
<1>3. ASSUME NEW r \in Runs, Sends_form(r) PROVE KickInv'
  BY <1>3, KicksGoOn DEF Sends_form, Begins, OtherRuns, SamePages, PageIs, PlayersStay
<1>4. ASSUME NEW t \in Phones, Connects(t) PROVE KickInv'
  <2>1. PlayersStay /\ \A q \in Runs : run'[q].pc \in {"unseat", "add"} => run[q].pc \in {"unseat", "add"}
    BY <1>4 DEF Connects, Begins, OtherRuns, PlayersStay
  <2>2. \A u \in Phones : phone'[u].kicked = phone[u].kicked
    BY <1>4 DEF Connects, OtherPages, PageIs
  <2> QED BY <1>4, <2>1, <2>2, KicksGoOn DEF Connects
<1>5. ASSUME NEW t \in Phones, Loses(t) PROVE KickInv'
  BY <1>5, KicksGoOn DEF Loses, OtherPages, PageIs, PlayersStay
<1>6. ASSUME NEW s \in Sids, Times_out(s) PROVE KickInv'
  BY <1>6, KicksGoOn DEF Times_out, PlayersStay
<1>7. CASE Hosts_only
  BY <1>7, KicksGoOn DEF Hosts_only, PlayersStay
<1>8. ASSUME NEW p \in Pages, Emits_start(p) PROVE KickInv'
  <2>1. \A u \in Phones : phone'[u].kicked = phone[u].kicked
    BY <1>8 DEF Emits_start, PageIs
  <2> QED BY <1>8, <2>1, KicksGoOn DEF Emits_start, PlayersStay
<1>9. ASSUME NEW b \in Boxes, Box_enters(b) PROVE KickInv'
  <2>1. \A e : e[1] = BoxName[b] => Playing_as(e[1])'
    BY DEF Playing_as, ABoxIs
  <2> QED BY <1>9, <2>1, KicksGoOn DEF Box_enters, Listed, PlayersStay
<1>10. ASSUME NEW k \in Kicks, NEW p \in Pages, Clicks_kick(k, p) PROVE KickInv'
  <2>1. PICK e \in board[p].players : /\ kick'[k].pc = "sent" /\ kick'[k].name = e[1]
                                      /\ named' = named \cup {e[1]}
    BY <1>10 DEF Clicks_kick
  <2>2. PlayersStay
    BY <1>10, <2>1 DEF Clicks_kick, PlayersStay
  <2>3. Playing_as(e[1])
    BY DEF KickInv
  <2>4. KickOK(k)'
    BY <1>10, <2>1, <2>3 DEF Clicks_kick, KickOK, Playing_as, ABoxIs
  <2> QED BY <1>10, <2>2, <2>4, KicksGoOn DEF Clicks_kick, OtherKicks
<1>11. ASSUME NEW k \in Kicks, Finds_seat(k) PROVE KickInv'
  <2>1. PlayersStay
    BY <1>11 DEF Finds_seat, PlayersStay
  <2>2. kick[k].name \in Names /\ kick[k].name \in named /\ Playing_as(kick[k].name)
    BY <1>11 DEF Finds_seat, KickInv, KickOK, Typed, KicksKnown
  <2>3. CASE kick'[k].pc = "failed"
    <3>1. KickOK(k)'
      BY <1>11, <2>2, <2>3 DEF Finds_seat, KickOK, Playing_as, ABoxIs
    <3> QED BY <1>11, <2>1, <3>1, KicksGoOn DEF Finds_seat, OtherKicks
  <2>4. CASE kick'[k].pc = "remove" /\ kick'[k].sid = seats[kick[k].name]
    <3>1. kick'[k].sid = NoSid => ABoxIs(kick[k].name)
      BY <2>2, <2>4 DEF Playing_as
    <3>2. kick'[k].sid # NoSid => \E r \in Runs : Took(r, kick[k].name, kick'[k].sid)
      BY <2>2, <2>4 DEF KickInv, SeatTaken
    <3>3. KickOK(k)'
      BY <1>11, <2>2, <2>4, <3>1, <3>2 DEF Finds_seat, KickOK, Playing_as, ABoxIs, Took
    <3> QED BY <1>11, <2>1, <3>3, KicksGoOn DEF Finds_seat, OtherKicks
  <2> QED BY <1>11, <2>3, <2>4 DEF Finds_seat
<1>12. ASSUME NEW k \in Kicks, Removes(k) PROVE KickInv'
  <2>1. PlayersStay
    BY <1>12 DEF Removes, PlayersStay
  <2>2. KickOK(k) /\ kick[k].pc = "remove" /\ kick[k].name \in Names
    BY <1>12 DEF Removes, KickInv, Typed, KicksKnown
  <2>3. KickOK(k)'
    BY <1>12, <2>2 DEF Removes, KickOK, Playing_as, ABoxIs
  <2>4. ASSUME NEW t \in Phones, t \in Reached(kick[k].sid) PROVE Hit(t)'
    <3>1. CASE kick[k].sid = NoSid
      <4>1. PICK b \in Boxes : BoxName[b] \in named
        BY <2>2, <3>1 DEF KickOK, ABoxIs
      <4> QED BY <1>12, <4>1 DEF Removes, Hit
    <3>2. CASE kick[k].sid # NoSid
      <4>1. PICK r \in Runs : Took(r, kick[k].name, kick[k].sid)
        BY <2>2, <3>2 DEF KickOK
      <4>2. run[r].pc # "idle" /\ run[r].name \in named /\ run[r].sid[1] = t
        BY <2>2, <2>4, <3>2, <4>1 DEF KickOK, Took, Reached
      <4> QED BY <1>12, <4>2 DEF Removes, Hit
    <3> QED BY <3>1, <3>2
  <2>5. \A t \in Phones : phone'[t].kicked => phone[t].kicked \/ Hit(t)'
    BY <1>12, <2>4 DEF Removes
  <2> QED BY <1>12, <2>1, <2>3, <2>5, KicksGoOn DEF Removes, OtherKicks
<1> QED BY <1>1, <1>2, <1>3, <1>4, <1>5, <1>6, <1>7, <1>8, <1>9, <1>10, <1>11, <1>12 DEF Kind

LEMMA KickHits == ASSUME Typed, KickInv PROVE KickHitsNamed
<1>1. \A r \in Runs : run[r].pc # "idle" => run[r].sid # NoSid
  BY LobbyAssumption DEF Typed, RunsKnown, Known
<1> QED BY <1>1 DEF KickInv, Hit, KickHitsNamed

(***************************************************************************)
(* Who is in the room can answer.                                          *)
(***************************************************************************)
\* Connections are not taken up again.
ConnsGoOn ==
  \A s \in Sids : Listens(s)' => s \in alive' /\ (Listens(s) \/ ~(s[2] <= phone[s[1]].conns))

LEMMA InsideCounted ==
  ASSUME Typed, StartInv, NEW s, Inside(s)
  PROVE  s[2] <= phone[s[1]].conns
BY DEF Typed, RunsKnown, Known, StartInv, Inside, Enters

\* Steps of the pages and of the clients, which touch no session.
LEMMA AnswersGoOn ==
  ASSUME Typed, StartInv, AnswerInv, ConnsGoOn,
         UNCHANGED <<seats, sess, echo, early>>, room' \subseteq room,
         session' = session \/ session' # NoPage,
         \A t \in Phones : phone'[t].cookie = phone[t].cookie,
         \A r \in Runs : \/ run'[r] = run[r]
                         \/ run[r].pc = "idle" /\ run'[r].pc = "sent" /\ (run'[r].kind = "rejoin" => run'[r].old \in Sids)
  PROVE  AnswerInv'
<1>1. \A s \in Sids : Listens(s)' => s \in alive'
  BY DEF ConnsGoOn
<1>2. \A t \in Phones : phone'[t].cookie # NoCookie => phone'[t].cookie.sid \in Sids
  BY DEF AnswerInv
<1>3. \A n \in Names : seats'[n] # NoSid => session' # NoPage
  BY DEF AnswerInv
<1>4. ASSUME NEW r \in Runs PROVE RunFits(r)'
  <2>1. CASE run'[r] = run[r]
    <3>1. RunFits(r)
      BY DEF AnswerInv
    <3> SUFFICES ASSUME NEW s, s = run[r].sid PROVE RunFits(r)'
      OBVIOUS
    <3>2. run[r].pc # "idle" => (Listens(s)' => Listens(s))
      BY DEF ConnsGoOn, Typed, RunsKnown, Known
    <3> QED BY <2>1, <3>1, <3>2 DEF RunFits, Listens
  <2>2. CASE run'[r] # run[r]
    BY <2>2 DEF RunFits
  <2> QED BY <2>1, <2>2
<1>5. ASSUME NEW s \in Sids, Inside(s)' PROVE Served(s)'
  <2>1. Inside(s)
    BY <1>5 DEF Inside, Enters
  <2>2. Served(s) /\ (Listens(s)' => Listens(s))
    BY <2>1, InsideCounted DEF AnswerInv, ConnsGoOn
  <2>3. \A r \in Runs : Owes(r, s) => Owes(r, s)'
    BY DEF Owes
  <2> QED BY <2>2, <2>3 DEF Served
<1> QED BY <1>1, <1>2, <1>3, <1>4, <1>5 DEF AnswerInv

LEMMA ConnsStill ==
  ASSUME AnswerInv, alive' = alive,
         \A t \in Phones : phone'[t].conns = phone[t].conns /\ (phone'[t].online => phone[t].online)
  PROVE  ConnsGoOn /\ \A s \in Sids : Listens(s)' => Listens(s)
<1>1. \A s \in Sids : Listens(s)' => Listens(s)
  BY SidFacts DEF Listens
<1> QED BY <1>1 DEF ConnsGoOn, AnswerInv

LEMMA AnswerClients ==
  ASSUME Typed, StartInv, AnswerInv,
         \/ \E r \in Runs : Sends_form(r)
         \/ \E t \in Phones : Connects(t) \/ Loses(t)
         \/ \E s \in Sids : Times_out(s)
         \/ Hosts_only
         \/ \E p \in Pages : Emits_start(p)
         \/ \E b \in Boxes : Box_enters(b)
         \/ \E k \in Kicks : Finds_seat(k) \/ Removes(k) \/ \E p \in Pages : Clicks_kick(k, p)
  PROVE  AnswerInv'
<1> USE DEF begins, seated, conns, kicks
<1>1. ASSUME NEW r \in Runs, Sends_form(r) PROVE AnswerInv'
  <2>1. ConnsGoOn
    BY <1>1, ConnsStill DEF Sends_form, SamePages, PageIs
  <2> QED BY <1>1, <2>1, AnswersGoOn DEF Sends_form, SamePages, PageIs, Begins, OtherRuns
<1>2. ASSUME NEW t \in Phones, Connects(t) PROVE AnswerInv'
  <2> DEFINE s == <<t, phone[t].conns + 1>>
  <2>1. phone[t].conns \in Nat
    BY DEF Typed, TypeOK, Phone
  <2>2. ConnsGoOn
    <3> SUFFICES ASSUME NEW q \in Sids, Listens(q)'
                 PROVE  q \in alive' /\ (Listens(q) \/ ~(q[2] <= phone[q[1]].conns))
      BY DEF ConnsGoOn
    <3>1. q[1] \in Phones /\ q = <<q[1], q[2]>>
      BY SidFacts
    <3>2. CASE q[1] = t
      <4>1. q[2] = phone[t].conns + 1
        BY <1>2, <3>2 DEF Connects, PageIs, Listens
      <4>2. q = s
        BY <3>1, <3>2, <4>1
      <4> QED BY <1>2, <2>1, <3>2, <4>1, <4>2 DEF Connects
    <3>3. CASE q[1] # t
      <4>1. Listens(q)
        BY <1>2, <3>1, <3>3 DEF Connects, OtherPages, Listens
      <4> QED BY <1>2, <4>1 DEF Connects, AnswerInv
    <3> QED BY <3>2, <3>3
  <2>3. \A u \in Phones : phone'[u].cookie = phone[u].cookie
    BY <1>2 DEF Connects, OtherPages, PageIs
  <2>4. \A r \in Runs : \/ run'[r] = run[r]
                        \/ run[r].pc = "idle" /\ run'[r].pc = "sent" /\ (run'[r].kind = "rejoin" => run'[r].old \in Sids)
    BY <1>2 DEF Connects, Begins, OtherRuns, AnswerInv
  <2> QED BY <1>2, <2>2, <2>3, <2>4, AnswersGoOn DEF Connects
<1>3. ASSUME NEW t \in Phones, Loses(t) PROVE AnswerInv'
  <2>1. ConnsGoOn
    BY <1>3, ConnsStill DEF Loses, OtherPages, PageIs
  <2> QED BY <1>3, <2>1, AnswersGoOn DEF Loses, OtherPages, PageIs
<1>4. ASSUME NEW s \in Sids, Times_out(s) PROVE AnswerInv'
  <2>1. ConnsGoOn
    BY <1>4 DEF Times_out, ConnsGoOn, Listens, AnswerInv
  <2> QED BY <1>4, <2>1, AnswersGoOn DEF Times_out
<1>5. CASE Hosts_only
  BY <1>5, ConnsStill, AnswersGoOn DEF Hosts_only
<1>6. ASSUME NEW p \in Pages, Emits_start(p) PROVE AnswerInv'
  <2>1. ConnsGoOn
    BY <1>6, ConnsStill DEF Emits_start, PageIs
  <2> QED BY <1>6, <2>1, AnswersGoOn DEF Emits_start, PageIs
<1>7. ASSUME NEW b \in Boxes, Box_enters(b) PROVE AnswerInv'
  BY <1>7, ConnsStill, AnswersGoOn DEF Box_enters
<1>8. ASSUME NEW k \in Kicks, Finds_seat(k) \/ \E p \in Pages : Clicks_kick(k, p) PROVE AnswerInv'
  BY <1>8, ConnsStill, AnswersGoOn DEF Finds_seat, Clicks_kick
<1>9. ASSUME NEW k \in Kicks, Removes(k) PROVE AnswerInv'
  <2>1. ConnsGoOn /\ \A t \in Phones : phone'[t].cookie = phone[t].cookie
    BY <1>9, ConnsStill DEF Removes, PageIs
  <2> QED BY <1>9, <2>1, AnswersGoOn DEF Removes
<1> QED BY <1>1, <1>2, <1>3, <1>4, <1>5, <1>6, <1>7, <1>8, <1>9

\* Steps of the handlers: the clients stay as they are, up to their cookies.
LEMMA AnswersServed ==
  ASSUME Typed, StartInv, AnswerInv, Typed', alive' = alive, session' = session, early \subseteq early',
         \A t \in Phones : /\ phone'[t].conns = phone[t].conns /\ phone'[t].online = phone[t].online
                           /\ (phone'[t].cookie = phone[t].cookie \/ phone'[t].cookie.sid \in Sids),
         \A n \in Names : seats'[n] # NoSid => seats[n] # NoSid \/ session # NoPage,
         \A r \in Runs : RunFits(r)',
         \A s \in Sids : Inside(s)' => Served(s)'
  PROVE  AnswerInv'
<1>1. \A s \in Sids : Listens(s)' => s \in alive'
  BY ConnsStill DEF ConnsGoOn
<1> QED BY <1>1 DEF AnswerInv

LEMMA AnswerEchoes ==
  ASSUME Typed, StartInv, AnswerInv, Typed', NEW r \in Runs, Echo_reads(r) \/ Echo_writes(r)
  PROVE  AnswerInv'
<1> USE DEF begins, seated, conns, kicks
<1> DEFINE x == run[r].sid
<1>1. /\ UNCHANGED <<run, phone, alive, session, seats, room>> /\ early \subseteq early'
      /\ \A s \in Sids : sess'[s] = sess[s] \/ (s = x /\ sess'[s] # NoSession /\ sess'[s].ping = TRUE)
      /\ \A q \in Runs : q # r => echo'[q] = echo[q]
  BY DEF Echo_reads, Echo_writes, EchoAs, SessionAs
<1>2. \A s : Listens(s)' <=> Listens(s)
  BY <1>1 DEF Listens
<1>3. ASSUME NEW q \in Runs PROVE RunFits(q)'
  <2>1. RunFits(q) /\ (run[q].pc # "idle" => run[q].sid \in Sids)
    BY DEF AnswerInv, Typed, RunsKnown, Known
  <2>2. (sess[run[q].sid] # NoSession /\ run[q].pc # "idle") => sess'[run[q].sid] # NoSession
    BY <1>1, <2>1
  <2>3. CASE q # r
    BY <1>1, <1>2, <2>1, <2>2, <2>3 DEF RunFits, Listens
  <2>4. CASE q = r
    <3>1. ASSUME run[r].kind = "rejoin", run[r].pc \in {"seat", "unseat", "add", "save"}, Listens(x), x \notin early'
          PROVE  FALSE
      BY <1>1, <2>1, <2>4, <3>1 DEF RunFits, Echo_reads, Echo_writes
    <3> QED BY <1>1, <1>2, <2>1, <2>2, <2>4, <3>1 DEF RunFits, Listens
  <2> QED BY <2>3, <2>4
<1>4. ASSUME NEW s \in Sids, Inside(s)' PROVE Served(s)'
  <2>1. Served(s) /\ Inside(s)
    BY <1>1, <1>4 DEF Inside, Enters, AnswerInv
  <2>2. ASSUME Listens(s), s \notin early', ~sess'[s].ping PROVE \E q \in Runs : Owes(q, s)'
    <3>1. s \notin early /\ sess'[s] = sess[s] /\ s \in alive
      BY <1>1, <2>2 DEF AnswerInv
    <3>2. PICK q \in Runs : Owes(q, s)
      BY <2>1, <2>2, <3>1 DEF Served
    <3>3. CASE q # r
      BY <1>1, <3>2, <3>3 DEF Owes
    <3>4. CASE q = r /\ run[r].kind = "join" /\ run[r].pc \in {"seat", "add"}
      BY <1>1, <3>2, <3>4 DEF Owes
    <3>5. CASE q = r /\ ~(run[r].kind = "join" /\ run[r].pc \in {"seat", "add"})
      <4>1. x = s /\ (run[r].kind = "join" \/ run[r].pc = "done")
        BY <3>2, <3>5 DEF Owes
      <4>2. CASE Echo_reads(r)
        <5>1. echo'[r].pc = "write"
          BY <2>1, <3>1, <4>1, <4>2 DEF Echo_reads, EchoAs, Served
        <5> QED BY <1>1, <3>2, <3>5, <4>1, <5>1 DEF Owes
      <4>3. CASE Echo_writes(r)
        BY <2>2, <3>1, <4>1, <4>3 DEF Echo_writes, SessionAs
      <4> QED BY <4>2, <4>3
    <3> QED BY <3>3, <3>4, <3>5
  <2>3. sess'[s] # NoSession
    BY <1>1, <2>1 DEF Served
  <2> QED BY <1>1, <1>2, <2>1, <2>2, <2>3 DEF Served
<1> QED BY <1>1, <1>3, <1>4, AnswersServed

\* What a run's step leaves alone, and what it does to the session it stores.
LEMMA RunSurround ==
  ASSUME Typed, Paths, NEW r \in Runs, Run_kind(r)
  PROVE  /\ UNCHANGED <<alive, session, early>>
         /\ \A s : Listens(s)' <=> Listens(s)
         /\ \A t \in Phones : /\ phone'[t].conns = phone[t].conns /\ phone'[t].online = phone[t].online
                              /\ (phone'[t].cookie = phone[t].cookie \/ phone'[t].cookie.sid \in Sids)
         /\ \A n \in Names : seats'[n] # NoSid => seats[n] # NoSid \/ session # NoPage \/ run[r].kind = "rejoin"
         /\ \A s \in Sids : sess'[s] = sess[s] \/ (s = run[r].sid /\ sess'[s] # NoSession)
         /\ \A q \in Runs : q # r => echo'[q] = echo[q]
<1> USE DEF begins, seated, conns, kicks
<1>0. run[r].sid \in Sids /\ run[r].sid[1] \in Phones /\ run[r].name \in Names
  BY RunMoved, SidFacts DEF Moved, Typed, RunsKnown, Known
<1>1. UNCHANGED <<alive, session, early>>
  BY DEF Run_kind, Reads_started, Checks_name, Saves_session, Takes_seat, Adds_player, Enters_room,
     Reads_game, Matches, Unseats, Returns
<1>2. \A t \in Phones : /\ phone'[t].conns = phone[t].conns /\ phone'[t].online = phone[t].online
                        /\ (phone'[t].cookie = phone[t].cookie \/ phone'[t].cookie.sid \in Sids)
  <2>1. CASE phone' = phone
    BY <2>1
  <2>2. CASE Saves_session(r)
    BY <1>0, <2>1, <2>2 DEF Saves_session, OtherPages, PageIs
  <2>3. CASE Returns(r)
    BY <1>0, <2>1, <2>3 DEF Returns, OtherPages, PageIs
  <2> QED BY <2>1, <2>2, <2>3 DEF Run_kind, Reads_started, Checks_name, Takes_seat, Adds_player,
             Enters_room, Reads_game, Matches, Unseats
<1>3. \A s : Listens(s)' <=> Listens(s)
  BY <1>2, SidFacts DEF Listens
<1>4. \A n \in Names : seats'[n] # NoSid => seats[n] # NoSid \/ session # NoPage \/ run[r].kind = "rejoin"
  <2>1. CASE seats' = seats
    BY <2>1
  <2>2. CASE Takes_seat(r)
    BY <2>1, <2>2 DEF Takes_seat
  <2> QED BY <2>1, <2>2 DEF Run_kind, Reads_started, Checks_name, Saves_session, Adds_player,
             Enters_room, Reads_game, Matches, Unseats, Returns
<1>5. \A s \in Sids : sess'[s] = sess[s] \/ (s = run[r].sid /\ sess'[s] # NoSession)
  <2>1. CASE sess' = sess
    BY <2>1
  <2>2. CASE Saves_session(r) \/ Returns(r)
    BY <2>1, <2>2 DEF Saves_session, Returns, SessionAs
  <2> QED BY <2>1, <2>2 DEF Run_kind, Reads_started, Checks_name, Takes_seat, Adds_player,
             Enters_room, Reads_game, Matches, Unseats
<1>6. \A q \in Runs : q # r => echo'[q] = echo[q]
  <2>1. CASE echo' = echo
    BY <2>1
  <2>2. CASE Syncs(r)
    BY <2>2 DEF Syncs, EchoAs
  <2> QED BY <2>1, <2>2 DEF Run_kind, Reads_started, Checks_name, Saves_session, Takes_seat, Adds_player,
             Enters_room, Reads_game, Matches, Unseats, Returns
<1> QED BY <1>1, <1>2, <1>3, <1>4, <1>5, <1>6

\* The run itself goes on as a rejoin with an echo to come, or as a join with a session.
LEMMA RunStaysFit ==
  ASSUME Typed, Paths, AnswerInv, NEW r \in Runs, Run_kind(r)
  PROVE  RunFits(r)'
<1> USE DEF begins, seated, conns, kicks
<1>0. /\ Moved(r) /\ run[r].sid \in Sids /\ RunFits(r) /\ run[r].kind \in {"join", "rejoin"}
      /\ run[r].name \in Names
  BY RunMoved DEF Moved, Typed, TypeOK, RunsKnown, Known, AnswerInv, Run
<1>1. /\ UNCHANGED <<alive, session, early>> /\ (\A s : Listens(s)' <=> Listens(s))
      /\ \A s \in Sids : sess'[s] = sess[s] \/ (s = run[r].sid /\ sess'[s] # NoSession)
  BY RunSurround
<1> SUFFICES ASSUME NEW s, s = run[r].sid PROVE RunFits(r)'
  OBVIOUS
<1>2. run'[r].kind = "rejoin" => run'[r].old \in Sids
  BY <1>0 DEF Moved, RunFits
<1>3. ASSUME run'[r].kind = "rejoin", run'[r].pc \in {"seat", "unseat", "add", "save"}
      PROVE  session # NoPage /\ (Listens(s) /\ s \notin early => echo'[r].pc = "sent")
  <2>1. run[r].kind = "rejoin" /\ run[r].old \in Sids /\ NoSid \notin Sids
    BY <1>0, <1>3, LobbyAssumption DEF Moved, RunFits
  <2>2. CASE Matches(r)
    BY <1>0, <1>3, <2>1, <2>2 DEF Matches, Steps, Advances, Syncs, EchoAs, AnswerInv
  <2>3. CASE Takes_seat(r) \/ Unseats(r) \/ Adds_player(r)
    BY <1>0, <2>1, <2>3 DEF Takes_seat, Unseats, Adds_player, RunFits
  <2> QED BY <1>3, <2>1, <2>2, <2>3 DEF Run_kind, Reads_started, Checks_name, Saves_session,
             Enters_room, Reads_game, Returns, Steps, Advances, Paths
<1>4. ASSUME run'[r].kind = "join", run'[r].pc \in {"seat", "add", "enter"} PROVE sess'[s] # NoSession
  <2>1. run[r].kind = "join"
    BY <1>0, <1>4 DEF Moved
  <2>2. CASE Saves_session(r)
    BY <1>0, <1>4, <2>2 DEF Saves_session, SessionAs, Steps, Advances
  <2>3. CASE Takes_seat(r) \/ Adds_player(r)
    BY <1>0, <1>1, <2>1, <2>3 DEF Takes_seat, Adds_player, RunFits
  <2> QED BY <1>4, <2>1, <2>2, <2>3 DEF Run_kind, Reads_started, Checks_name,
             Enters_room, Reads_game, Matches, Unseats, Returns, Steps, Advances, Paths
<1>5. run'[r].sid = s /\ (Listens(s)' <=> Listens(s))
  BY <1>0, <1>1 DEF Moved
<1> QED BY <1>1, <1>2, <1>3, <1>4, <1>5 DEF RunFits, Listens

\* A step that stores no session leaves the run its promise of a ping.
LEMMA RunStillOwes ==
  ASSUME Typed, Paths, NEW r \in Runs, Run_kind(r), NEW s, Listens(s), Owes(r, s), session # NoPage,
         ~(Saves_session(r) /\ run[r].sid \in alive), ~(Returns(r) /\ run[r].sid \in alive)
  PROVE  Owes(r, s)'
<1> USE DEF begins, seated, conns, kicks
<1>0. Moved(r) /\ run[r].kind \in {"join", "rejoin"} /\ run[r].sid = s
  BY RunMoved DEF Typed, TypeOK, Run, Owes
<1>1. run[r].kind = "join" /\ (run[r].pc \in {"seat", "add"} \/ echo[r].pc \in {"sent", "write"})
  <2>1. run[r].pc # "done"
    BY DEF Run_kind, Reads_started, Checks_name, Saves_session, Takes_seat, Adds_player, Enters_room,
       Reads_game, Matches, Unseats, Returns
  <2> QED BY <1>0, <2>1 DEF Owes
<1>2. CASE Takes_seat(r)
  BY <1>0, <1>1, <1>2 DEF Takes_seat, Steps, Advances, Moved, Owes
<1>3. CASE Adds_player(r)
  BY <1>0, <1>1, <1>3 DEF Adds_player, Syncs, EchoAs, Moved, Owes
<1>4. CASE echo' = echo /\ run[r].pc \notin {"seat", "add"}
  BY <1>0, <1>1, <1>4 DEF Moved, Owes
<1>5. CASE Matches(r)
  BY <1>1, <1>5 DEF Matches, Paths
<1> QED BY <1>2, <1>3, <1>4, <1>5 DEF Run_kind, Reads_started, Checks_name, Saves_session, Enters_room,
           Reads_game, Unseats, Returns

LEMMA RunServes ==
  ASSUME Typed, Paths, AnswerInv, NEW r \in Runs, Run_kind(r), NEW s \in Sids, Inside(s)'
  PROVE  Served(s)'
<1> USE DEF begins, seated, conns, kicks
<1>0. /\ Moved(r) /\ run[r].sid \in Sids /\ RunFits(r) /\ run[r].kind \in {"join", "rejoin"}
  BY RunMoved DEF Moved, Typed, TypeOK, RunsKnown, Known, AnswerInv, Run
<1>1. /\ UNCHANGED <<alive, session, early>> /\ (Listens(s)' <=> Listens(s))
      /\ \A q \in Sids : sess'[q] = sess[q] \/ (q = run[r].sid /\ sess'[q] # NoSession)
      /\ \A q \in Runs : q # r => echo'[q] = echo[q]
  BY RunSurround
<1>2. \A q \in Runs : q # r /\ Owes(q, s) => Owes(q, s)'
  BY <1>0, <1>1 DEF Moved, OtherRuns, Owes
<1>3. CASE Saves_session(r) /\ run[r].sid = s /\ run[r].sid \in alive
  <2>1. Inside(s)
    BY <1>0, <1>3 DEF Inside, Enters, Saves_session, Steps, Advances, OtherRuns
  <2>2. Owes(r, s)' /\ sess'[s] # NoSession
    BY <1>3 DEF Saves_session, Steps, Advances, SessionAs, Owes
  <2> QED BY <1>1, <2>1, <2>2 DEF AnswerInv, Served
<1>4. CASE Returns(r) /\ run[r].sid = s /\ run[r].sid \in alive
  <2>1. session # NoPage /\ (Listens(s) /\ s \notin early => echo[r].pc = "sent")
    BY <1>4 DEF Returns, RunFits, AnswerInv
  <2>2. echo' = echo /\ sess'[s] # NoSession /\ run'[r].pc = "done" /\ run'[r].sid = s
    BY <1>4 DEF Returns, Steps, Advances, SessionAs
  <2> QED BY <1>1, <2>1, <2>2 DEF Served, Owes
<1>5. CASE Takes_seat(r) /\ run[r].sid = s /\ run[r].kind = "join" /\ session # NoPage
  <2>1. Owes(r, s)'
    BY <1>5 DEF Takes_seat, Steps, Advances, Owes
  <2>2. sess'[s] # NoSession
    BY <1>0, <1>1, <1>5 DEF Takes_seat, RunFits
  <2> QED BY <1>1, <1>5, <2>1, <2>2 DEF Served
<1>6. CASE /\ ~(Saves_session(r) /\ run[r].sid = s /\ run[r].sid \in alive)
           /\ ~(Returns(r) /\ run[r].sid = s /\ run[r].sid \in alive)
           /\ ~(Takes_seat(r) /\ run[r].sid = s /\ run[r].kind = "join" /\ session # NoPage)
  <2>1. sess'[s] = sess[s]
    <3>1. CASE Saves_session(r) \/ Returns(r)
      BY <1>0, <1>6, <3>1 DEF Saves_session, Returns, SessionAs
    <3>2. CASE sess' = sess
      BY <3>2
    <3> QED BY <3>1, <3>2 DEF Run_kind, Reads_started, Checks_name, Takes_seat, Adds_player, Enters_room,
               Reads_game, Matches, Unseats
  <2>2. Inside(s)
    <3>1. CASE s \in room' /\ s \notin room
      <4>1. run[r].sid = s /\ Enters_room(r)
        <5>1. CASE Returns(r)
          BY <1>6, <3>1, <5>1 DEF Returns
        <5>2. CASE Enters_room(r)
          BY <3>1, <5>2 DEF Enters_room
        <5>3. CASE room' = room
          BY <3>1, <5>3
        <5> QED BY <5>1, <5>2, <5>3 DEF Run_kind, Reads_started, Checks_name, Saves_session, Takes_seat,
                   Adds_player, Reads_game, Matches, Unseats
      <4> QED BY <4>1 DEF Enters_room, Paths, Inside, Enters
    <3>2. ASSUME NEW q \in Runs, Enters(q, s)' PROVE Inside(s)
      <4>1. CASE q # r
        BY <1>0, <3>2, <4>1 DEF Moved, OtherRuns, Enters, Inside
      <4>2. CASE q = r
        <5>1. run[r].sid = s /\ run[r].kind = "join" /\ run'[r].pc \in {"add", "enter"}
          BY <1>0, <3>2, <4>2 DEF Moved, Enters
        <5>2. CASE Adds_player(r)
          BY <5>1, <5>2 DEF Adds_player, Enters, Inside
        <5>3. CASE Takes_seat(r)
          BY <1>6, <5>1, <5>3 DEF Takes_seat, Steps, Advances
        <5> QED BY <5>1, <5>2, <5>3 DEF Run_kind, Reads_started, Checks_name, Saves_session, Enters_room,
                   Reads_game, Matches, Unseats, Returns, Steps, Advances, Paths
      <4> QED BY <4>1, <4>2
    <3> QED BY <3>1, <3>2 DEF Inside
  <2>3. Served(s)
    BY <2>2 DEF AnswerInv
  <2>4. ASSUME Listens(s), Owes(r, s) PROVE Owes(r, s)'
    <3>1. run[r].sid = s
      BY <2>4 DEF Owes
    <3> QED BY <1>6, <2>3, <2>4, <3>1, RunStillOwes DEF Served
  <2> QED BY <1>1, <1>2, <2>1, <2>3, <2>4 DEF Served
<1> QED BY <1>3, <1>4, <1>5, <1>6

LEMMA AnswerRun ==
  ASSUME Typed, Typed', Paths, StartInv, AnswerInv, NEW r \in Runs, Run_kind(r)
  PROVE  AnswerInv'
<1>1. \A q \in Runs : RunFits(q)'
  <2> TAKE q \in Runs
  <2>1. CASE q = r
    BY <2>1, RunStaysFit
  <2>2. CASE q # r
    <3>1. run'[q] = run[q] /\ echo'[q] = echo[q] /\ RunFits(q) /\ (run[q].pc # "idle" => run[q].sid \in Sids)
      BY <2>2, RunMoved, RunSurround DEF Moved, OtherRuns, AnswerInv, Typed, RunsKnown, Known
    <3> SUFFICES ASSUME NEW s, s = run[q].sid PROVE RunFits(q)'
      OBVIOUS
    <3>2. (Listens(s)' <=> Listens(s)) /\ (s \in Sids /\ sess[s] # NoSession => sess'[s] # NoSession)
          /\ UNCHANGED <<session, early>>
      BY RunSurround
    <3> QED BY <3>1, <3>2 DEF RunFits, Listens
  <2> QED BY <2>1, <2>2
<1>2. \A s \in Sids : Inside(s)' => Served(s)'
  BY RunServes
<1>3. \A n \in Names : seats'[n] # NoSid => seats[n] # NoSid \/ session # NoPage
  <2>1. CASE seats' = seats
    BY <2>1
  <2>2. CASE Takes_seat(r) /\ run[r].kind = "rejoin"
    BY <2>2 DEF Takes_seat, AnswerInv, RunFits
  <2>3. CASE Takes_seat(r) /\ run[r].kind # "rejoin"
    BY <2>3 DEF Takes_seat, seated
  <2> QED BY <2>1, <2>2, <2>3 DEF Run_kind, Reads_started, Checks_name, Saves_session, Adds_player,
             Enters_room, Reads_game, Matches, Unseats, Returns, seated
<1> QED BY <1>1, <1>2, <1>3, RunSurround, AnswersServed

LEMMA AnswerStep ==
  ASSUME Typed, Typed', Paths, StartInv, AnswerInv, Kind
  PROVE  AnswerInv'
<1>1. ASSUME NEW r \in Runs, Run_kind(r) PROVE AnswerInv'
  BY <1>1, AnswerRun
<1>2. ASSUME NEW r \in Runs, Echo_reads(r) \/ Echo_writes(r) PROVE AnswerInv'
  BY <1>2, AnswerEchoes
<1> QED BY <1>1, <1>2, AnswerClients DEF Kind

LEMMA AnswersImply == ASSUME Typed, AnswerInv PROVE CanAnswer
<1> SUFFICES ASSUME NEW s \in room, Listens(s), ~Busy(s) PROVE sess[s].ping \/ s \in early
  BY DEF CanAnswer
<1>1. s \in Sids /\ Served(s)
  BY DEF Typed, TypeOK, AnswerInv, Inside
<1>2. \A r \in Runs : ~Owes(r, s)
  BY DEF Busy, Owes
<1> QED BY <1>1, <1>2 DEF Served

(***************************************************************************)
(* The three together.                                                     *)
(***************************************************************************)
RoomInv == Typed /\ Paths /\ StartInv /\ AnswerInv /\ KickInv

LEMMA RoomInit == Init => RoomInv
<1> SUFFICES ASSUME Init PROVE RoomInv
  OBVIOUS
<1> USE DEF Init
<1>1. \A r \in Runs : run[r].pc = "idle" /\ run[r].kind = "join"
  BY DEF IdleRun
<1>2. Paths
  BY <1>1 DEF Paths
<1>3. StartInv
  BY DEF StartInv, StartHeard
<1>4. AnswerInv
  <2>1. \A s : ~Listens(s)
    BY SidFacts DEF Listens
  <2>2. \A s : ~Inside(s)
    BY <1>1 DEF Inside, Enters
  <2> QED BY <1>1, <2>1, <2>2 DEF AnswerInv, RunFits
<1>5. KickInv
  BY <1>1 DEF KickInv, KickOK
<1> QED BY <1>2, <1>3, <1>4, <1>5, TypedInit DEF RoomInv

LEMMA RoomStep == RoomInv /\ [Next]_vars => RoomInv'
<1> SUFFICES ASSUME RoomInv, [Next]_vars PROVE RoomInv'
  OBVIOUS
<1>1. Typed'
  BY TypedStep DEF RoomInv
<1>2. CASE Next
  <2>1. Kind
    BY <1>2, NextKinds DEF RoomInv
  <2> QED BY <1>1, <2>1, PathsStep, StartStep, AnswerStep, KickInvStep DEF RoomInv
<1>3. CASE UNCHANGED vars
  <2> USE <1>3 DEF vars, keys, sockets, calls, screens, history
  <2>1. Paths' /\ StartInv'
    BY DEF RoomInv, Paths, StartInv, StartHeard, Entering, HeardAlready, Listens
  <2>2. AnswerInv'
    BY DEF RoomInv, AnswerInv, RunFits, Served, Inside, Enters, Owes, Listens
  <2>3. KickInv'
    BY DEF RoomInv, KickInv, KickOK, Hit, SeatTaken, Took, Playing_as, ABoxIs
  <2> QED BY <1>1, <2>1, <2>2, <2>3 DEF RoomInv
<1> QED BY <1>2, <1>3

\* RoomInv holds in every state: what runs still owe phones, sessions and seats.
THEOREM RoomAlways == Spec => []RoomInv
BY RoomInit, RoomStep, PTL DEF Spec

\* A phone in the game's room that is on its connection knows that the game has
\* started once start_game was emitted, from start_game or from rejoined_game,
\* unless a run of its connection was under way when it was emitted.
THEOREM StartIsHeard == Spec => []StartHeard
<1>1. RoomInv => StartHeard
  BY DEF RoomInv, StartInv
<1> QED BY <1>1, RoomAlways, PTL

\* A phone in the game's room whose runs and echoes are over has the session
\* with the ping that submit_answer reads, however its joins and rejoins
\* interleaved, unless its echo overtook rejoin_game's save_session.
THEOREM PlayersCanAnswer == Spec => []CanAnswer
<1>1. RoomInv => CanAnswer
  BY AnswersImply DEF RoomInv
<1> QED BY <1>1, RoomAlways, PTL

\* kick_player takes a phone out of the game only after a host has clicked on
\* the name of one of its players or, as the event then goes to everybody, on a
\* controller's.
THEOREM KicksHitNamed == Spec => []KickHitsNamed
<1>1. RoomInv => KickHitsNamed
  BY KickHits DEF RoomInv
<1> QED BY <1>1, RoomAlways, PTL
=============================================================================
