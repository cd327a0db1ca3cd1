---------------------------- MODULE QuestionRound ----------------------------
(***************************************************************************)
(* The questions of one running game, as classquiz/socket_server handles   *)
(* them.  All handlers run in one asyncio process and interleave only at   *)
(* an await, so that a handler is modelled as one action per Redis call    *)
(* that touches shared keys; everything between two awaits is atomic.      *)
(*                                                                         *)
(* Redis keys of the game (PIN left out):                                  *)
(*   game                    the PlayGame JSON, always read and written    *)
(*                           as a whole; the fields the handlers change    *)
(*   game:current_time       the instant the question was shown            *)
(*   game_session:{i}        the answers given to question i               *)
(*   ...:player_scores       the hash that HINCRBY updates                 *)
(*   answer_given:{box}:{i}  the mark of the box controllers               *)
(*                                                                         *)
(* Clients: the phones (play/+page.svelte, question.svelte), the host's    *)
(* screen (admin.svelte, controls.svelte), the box controllers' buttons    *)
(* and the host's scripts that call /live/set_question.                    *)
(***************************************************************************)
EXTENDS Integers, FiniteSets, Functions

CONSTANTS
  Phones,       \* players with a browser
  Boxes,        \* players with a ClassQuizController
  NQ,           \* number of questions of the quiz
  Slides,       \* questions of type SLIDE: shown by the host only
  Texts,        \* questions of type TEXT (for a controller ORDER and CHECK are alike)
  Ranges,       \* questions of type RANGE
  Hidden,       \* questions with hide_results
  Points,       \* what an answer can score
  Subs,         \* runs of submit_answer / submit_answer_fn
  Ctls,         \* concurrent runs of the host's handlers
  LiveNumbers,  \* numbers the live API is called with
  Nobody        \* the player of a run that has not started

Players   == Phones \cup Boxes
Questions == 0..(NQ - 1)
Numbers   == (-1..NQ) \cup LiveNumbers

ASSUME QuizAssumption ==
  /\ NQ \in Nat \ {0}
  /\ Slides \subseteq Questions
  /\ Texts \subseteq Questions
  /\ Ranges \subseteq Questions
  /\ Hidden \subseteq Questions
  /\ LiveNumbers \subseteq Nat

ASSUME PlayerAssumption ==
  /\ Phones \cap Boxes = {}
  /\ Nobody \notin Players
  /\ IsFiniteSet(Players)

ASSUME PointsAssumption == Points \subseteq Int /\ 0 \in Points

VARIABLES
  game,      \* [current: current_question, show: question_show]
  clock,     \* the question whose start current_time holds; -1 when unset
  answers,   \* answers[i]: the runs whose answer is in the list of question i
  scores,    \* the player_scores hash
  given,     \* <<box, question>> pairs with an answer_given key
  sub,       \* the runs of the submission handlers
  ctl,       \* the runs of the host's handlers
  screen,    \* screen[p]: question on the phone, and whether it can be answered
  wired,     \* controllers whose WebSocket is served
  host,      \* state of the host's screen
  asked,     \* history: number in the latest set_question_number that was stored
  overlap,   \* history: questions on whose list two read-append-write overlapped
  blobRace,  \* history: two read-modify-write of the game key overlapped
  announced  \* history: questions for which everyone_answered was emitted

redis   == <<game, clock, answers, scores, given>>
clients == <<screen, wired, host>>
history == <<asked, overlap, blobRace, announced>>
vars    == <<redis, sub, ctl, clients, history>>

Blob   == [current: Numbers, show: BOOLEAN]
NoBlob == [current |-> -1, show |-> FALSE]

SubSteps == {"idle", "sent", "check", "mark", "credit", "read", "append",
             "count", "readgame", "writegame", "done", "failed"}
Sub == [pc: SubSteps, who: Players \cup {Nobody}, q: Questions \cup {-1},
        pts: Points, ref: Questions \cup {-1, NQ}, list: SUBSET Subs, blob: Blob]
Ctl == [pc: {"idle", "sent", "write", "clock", "emit"},
        kind: {"set", "results", "live"}, q: Numbers, blob: Blob]

PhoneScreen == [q: Questions \cup {-1}, open: BOOLEAN]
HostScreen  == [selected: Int,                \* selected_question
                shown: Questions \cup {-1},   \* the question that was sent
                results: BOOLEAN,             \* question_results has arrived
                later: BOOLEAN]               \* set_question_number is to follow

IdleSub == [pc |-> "idle", who |-> Nobody, q |-> -1, pts |-> 0, ref |-> -1,
            list |-> {}, blob |-> NoBlob]
IdleCtl == [pc |-> "idle", kind |-> "set", q |-> -1, blob |-> NoBlob]

TypeOK ==
  /\ game \in Blob
  /\ clock \in Questions \cup {-1, NQ}
  /\ answers \in [Questions -> SUBSET Subs]
  /\ scores \in [Players -> Int]
  /\ given \subseteq Boxes \X Questions
  /\ sub \in [Subs -> Sub]
  /\ ctl \in [Ctls -> Ctl]
  /\ screen \in [Phones -> PhoneScreen]
  /\ wired \subseteq Boxes
  /\ host \in HostScreen
  /\ asked \in Numbers
  /\ overlap \subseteq Questions
  /\ blobRace \in BOOLEAN
  /\ announced \subseteq Questions

\* start_quiz stores current_question = -1 and question_show = False.
Init ==
  /\ game = NoBlob
  /\ clock = -1
  /\ answers = [i \in Questions |-> {}]
  /\ scores = [p \in Players |-> 0]
  /\ given = {}
  /\ sub = [s \in Subs |-> IdleSub]
  /\ ctl = [c \in Ctls |-> IdleCtl]
  /\ screen = [p \in Phones |-> [q |-> -1, open |-> FALSE]]
  /\ wired = Boxes
  /\ host = [selected |-> -1, shown |-> -1, results |-> FALSE, later |-> FALSE]
  /\ asked = -1
  /\ overlap = {}
  /\ blobRace = FALSE
  /\ announced = {}

(***************************************************************************)
(* Helpers.                                                                *)
(***************************************************************************)
\* Some handler has read the game key and not written it back yet.
BlobHeld == (\E s \in Subs : sub[s].pc = "writegame") \/ (\E c \in Ctls : ctl[c].pc = "write")

\* Reading the game key to modify it: a race when another run holds a copy.
NoteBlobRead == blobRace' = (blobRace \/ BlobHeld)

\* Run s of a submission handler, or run c of a host's handler, goes on as r.
Becomes(s, r)    == sub' = [sub EXCEPT ![s] = r]
CtlBecomes(c, r) == ctl' = [ctl EXCEPT ![c] = r]
Goto(s, step)    == Becomes(s, [sub[s] EXCEPT !.pc = step])

\* Answers given to question i whose append is between its read and its write.
Appending(i) == {s \in Subs : sub[s].pc = "append" /\ sub[s].q = i}

(***************************************************************************)
(* submit_answer, run s.                                                   *)
(***************************************************************************)
\* The player answers the question on the phone.  The screen then takes no
\* second answer; only a TEXT field left empty stays enabled.
Submit(s, p) ==
  /\ sub[s].pc = "idle"
  /\ screen[p].open
  /\ Becomes(s, [IdleSub EXCEPT !.pc = "sent", !.who = p, !.q = screen[p].q])
  /\ \E again \in (IF screen[p].q \in Texts THEN BOOLEAN ELSE {FALSE}) :
       screen' = [screen EXCEPT ![p].open = again]
  /\ UNCHANGED <<redis, ctl, wired, host, history>>

\* current_time is read; fromisoformat(None) raises when it was never set.
\* What the answer scores is left open.
ReadClock(s) ==
  /\ sub[s].pc = "sent"
  /\ \/ /\ clock = -1
        /\ Goto(s, "failed")
     \/ /\ clock # -1
        /\ \E x \in Points :
             Becomes(s, [sub[s] EXCEPT !.pc = "credit", !.ref = clock, !.pts = x])
  /\ UNCHANGED <<redis, ctl, clients, history>>

\* Faulty: the score replaces the old one; the score is added in two places.
Credit_Replaces(s) ==
  /\ sub[s].pc = "credit"
  /\ scores' = [scores EXCEPT ![sub[s].who] = sub[s].pts]
  /\ Goto(s, "read")
  /\ UNCHANGED <<game, clock, answers, given, ctl, clients, history>>
Credit_Twice(s) ==
  /\ sub[s].pc = "credit"
  /\ scores' = [scores EXCEPT ![sub[s].who] = @ + 2 * sub[s].pts]
  /\ Goto(s, "read")
  /\ UNCHANGED <<game, clock, answers, given, ctl, clients, history>>

\* HINCRBY is atomic in Redis.
Credit(s) ==
  /\ sub[s].pc = "credit"
  /\ scores' = [scores EXCEPT ![sub[s].who] = @ + sub[s].pts]
  /\ Goto(s, "read")
  /\ UNCHANGED <<game, clock, answers, given, ctl, clients, history>>

\* The list is read ...
ReadAnswers(s) ==
  /\ sub[s].pc = "read"
  /\ Becomes(s, [sub[s] EXCEPT !.pc = "append", !.list = answers[sub[s].q]])
  /\ overlap' = IF Appending(sub[s].q) # {} THEN overlap \cup {sub[s].q} ELSE overlap
  /\ UNCHANGED <<redis, ctl, clients, asked, blobRace, announced>>

\* SET of the list of question i; the caller goes on with the appended list.
StoreAs(s, i, list) ==
  /\ sub[s].pc = "append"
  /\ answers' = [answers EXCEPT ![i] = list]
  /\ Becomes(s, [sub[s] EXCEPT !.pc = "count", !.list = sub[s].list \cup {s}])
  /\ UNCHANGED <<game, clock, scores, given, ctl, clients, history>>

\* Faulty: stored under current_question; the old list dropped; the answer not
\* appended; stored only if the list is still the one that was read.
SetAnswer_Current(s)   == StoreAs(s, game.current, sub[s].list \cup {s})
SetAnswer_Only(s)      == StoreAs(s, sub[s].q, {s})
SetAnswer_NoAppend(s)  == StoreAs(s, sub[s].q, sub[s].list)
SetAnswer_IfSame(s)    == /\ StoreAs(s, sub[s].q, sub[s].list \cup {s})
                          /\ answers[sub[s].q] = sub[s].list

\* ... and set_answer stores the list it was given, with the answer appended.
SetAnswer(s) == StoreAs(s, sub[s].q, sub[s].list \cup {s})

\* Faulty: off by one.
IsLast_Above(s) == Cardinality(sub[s].list) > Cardinality(Players)

\* The returned list is compared with the number of registered players.
IsLast(s) == Cardinality(sub[s].list) = Cardinality(Players)

\* A controller's run announces without touching the game key.
Count(s) ==
  /\ sub[s].pc = "count"
  /\ Becomes(s, [sub[s] EXCEPT
       !.pc = IF IsLast(s) /\ sub[s].who \in Phones THEN "readgame" ELSE "done", !.list = {}])
  /\ announced' = IF IsLast(s) /\ sub[s].who \in Boxes THEN announced \cup {sub[s].q} ELSE announced
  /\ UNCHANGED <<redis, ctl, clients, asked, overlap, blobRace>>

\* Faulty: the copy is not read again after the answer was stored.
CloseRead_Old(s) ==
  /\ sub[s].pc = "readgame"
  /\ Becomes(s, [sub[s] EXCEPT !.pc = "writegame",
                               !.blob = [current |-> sub[s].q, show |-> FALSE]])
  /\ NoteBlobRead
  /\ UNCHANGED <<redis, ctl, clients, asked, overlap, announced>>

CloseRead(s) ==
  /\ sub[s].pc = "readgame"
  /\ Becomes(s, [sub[s] EXCEPT !.pc = "writegame", !.blob = [game EXCEPT !.show = FALSE]])
  /\ NoteBlobRead
  /\ UNCHANGED <<redis, ctl, clients, asked, overlap, announced>>

\* The copy is stored and everyone_answered emitted.
CloseWrite(s) ==
  /\ sub[s].pc = "writegame"
  /\ game' = sub[s].blob
  /\ Becomes(s, [sub[s] EXCEPT !.pc = "done", !.blob = NoBlob])
  /\ announced' = announced \cup {sub[s].q}
  /\ UNCHANGED <<clock, answers, scores, given, ctl, clients, asked, overlap, blobRace>>

(***************************************************************************)
(* submit_answer_fn, run s for a button of controller p.  The WebSocket    *)
(* loop awaits each run before it receives the next button.                *)
(***************************************************************************)
BoxBusy(p) == \E s \in Subs : sub[s].who = p /\ sub[s].pc \notin {"idle", "done", "failed"}

Press(s, p) ==
  /\ sub[s].pc = "idle"
  /\ p \in wired
  /\ ~BoxBusy(p)
  /\ game.show
  /\ game.current \in Questions \ (Slides \cup Ranges)
  /\ Becomes(s, [IdleSub EXCEPT !.pc = "check", !.who = p, !.q = game.current])
  /\ UNCHANGED <<redis, ctl, clients, history>>

\* question.answers[n].answer of a slide or a range, or a current_question out
\* of range, raises something the loop does not catch.
PressRaises(p) ==
  /\ p \in wired
  /\ ~BoxBusy(p)
  /\ game.show
  /\ game.current \notin Questions \ (Slides \cup Ranges)
  /\ wired' = wired \ {p}
  /\ UNCHANGED <<redis, sub, ctl, screen, host, history>>

\* current_time, then answer_given, then the type of the question.
BoxCheck(s) ==
  /\ sub[s].pc = "check"
  /\ \/ /\ clock = -1
        /\ Goto(s, "failed")
        /\ wired' = wired \ {sub[s].who}
     \/ /\ clock # -1
        /\ <<sub[s].who, sub[s].q>> \in given \/ sub[s].q \in Texts
        /\ Goto(s, "failed")
        /\ UNCHANGED wired
     \/ /\ clock # -1
        /\ <<sub[s].who, sub[s].q>> \notin given
        /\ sub[s].q \notin Texts
        /\ \E x \in Points :
             Becomes(s, [sub[s] EXCEPT !.pc = "mark", !.ref = clock, !.pts = x])
        /\ UNCHANGED wired
  /\ UNCHANGED <<redis, ctl, screen, host, history>>

\* Faulty: the mark is forgotten.
BoxMark_Forgotten(s) ==
  /\ sub[s].pc = "mark"
  /\ Goto(s, "credit")
  /\ UNCHANGED <<redis, ctl, clients, history>>

BoxMark(s) ==
  /\ sub[s].pc = "mark"
  /\ given' = given \cup {<<sub[s].who, sub[s].q>>}
  /\ Goto(s, "credit")
  /\ UNCHANGED <<game, clock, answers, scores, ctl, clients, history>>

(***************************************************************************)
(* The host's screen.  A button stays enabled until the event that answers *)
(* it arrives; the timer may be at zero at any time.                       *)
(***************************************************************************)
Send(c, kind, n) ==
  /\ ctl[c].pc = "idle"
  /\ CtlBecomes(c, [IdleCtl EXCEPT !.pc = "sent", !.kind = kind, !.q = n])

\* The Next button; after the last question it is replaced by the final results.
NextEnabled ==
  /\ host.selected + 1 # NQ
  /\ \/ host.selected = -1
     \/ host.selected \in Questions /\ (host.results \/ host.selected \in Slides)

ClickNext(c) ==
  /\ NextEnabled
  /\ Send(c, "set", host.selected + 1)
  /\ UNCHANGED <<redis, sub, clients, history>>

ClickResults(c) ==
  /\ host.selected \in Questions \ Slides
  /\ ~host.results
  /\ Send(c, "results", host.shown)
  /\ host' = [host EXCEPT !.later = host.selected \in Hidden]
  /\ UNCHANGED <<redis, sub, screen, wired, history>>

\* With hide_results, set_question_number follows 200 ms later.
ClickLater(c) ==
  /\ host.later
  /\ host.selected \in Questions
  /\ Send(c, "set", host.selected + 1)
  /\ host' = [host EXCEPT !.later = FALSE]
  /\ UNCHANGED <<redis, sub, screen, wired, history>>

\* A script of the host calls the live API.  Bound: selected stays finite.
CallLive(c, n) ==
  /\ host.selected < NQ
  /\ Send(c, "live", n)
  /\ UNCHANGED <<redis, sub, clients, history>>

(***************************************************************************)
(* set_question_number, get_question_results and /live/set_question.       *)
(***************************************************************************)
Modified(c) ==
  CASE ctl[c].kind = "set"     -> [current |-> ctl[c].q, show |-> TRUE]
    [] ctl[c].kind = "results" -> [game EXCEPT !.show = FALSE]
    [] ctl[c].kind = "live"    -> [game EXCEPT !.current = ctl[c].q]

ReadGame(c) ==
  /\ ctl[c].pc = "sent"
  /\ CtlBecomes(c, [ctl[c] EXCEPT !.pc = "write", !.blob = Modified(c)])
  /\ NoteBlobRead
  /\ UNCHANGED <<redis, sub, clients, asked, overlap, announced>>

\* What follows the write: questions[n] raises for a number out of range, and
\* the live API cannot build a ReturnQuestion of a slide.
AfterWrite(c) ==
  CASE ctl[c].kind = "set"     -> "clock"
    [] ctl[c].kind = "results" -> "emit"
    [] ctl[c].kind = "live"    -> IF ctl[c].q \in Questions \ Slides THEN "emit" ELSE "idle"

WriteGame(c) ==
  /\ ctl[c].pc = "write"
  /\ game' = ctl[c].blob
  /\ asked' = IF ctl[c].kind = "results" THEN asked ELSE ctl[c].q
  /\ CtlBecomes(c, IF AfterWrite(c) = "idle" THEN IdleCtl
                    ELSE [ctl[c] EXCEPT !.pc = AfterWrite(c), !.blob = NoBlob])
  /\ UNCHANGED <<clock, answers, scores, given, sub, clients, overlap, blobRace, announced>>

\* Faulty: the number is not used as an index before it is emitted.
SetClock_Unchecked(c) ==
  /\ ctl[c].pc = "clock"
  /\ clock' = ctl[c].q
  /\ CtlBecomes(c, [ctl[c] EXCEPT !.pc = "emit"])
  /\ UNCHANGED <<game, answers, scores, given, sub, clients, history>>

SetClock(c) ==
  /\ ctl[c].pc = "clock"
  /\ clock' = ctl[c].q
  /\ CtlBecomes(c, IF ctl[c].q \in Questions THEN [ctl[c] EXCEPT !.pc = "emit"] ELSE IdleCtl)
  /\ UNCHANGED <<game, answers, scores, given, sub, clients, history>>

\* The phones' screens after set_question_number with number i.
Shown(i) == IF i \in Slides THEN screen ELSE [p \in Phones |-> [q |-> i, open |-> TRUE]]

EmitQuestion(c) ==
  /\ ctl[c].pc = "emit"
  /\ ctl[c].kind # "results"
  /\ screen' = Shown(ctl[c].q)
  /\ host' = [host EXCEPT !.selected = @ + 1, !.shown = ctl[c].q, !.results = FALSE]
  /\ CtlBecomes(c, IdleCtl)
  /\ UNCHANGED <<redis, sub, wired, history>>

EmitResults(c) ==
  /\ ctl[c].pc = "emit"
  /\ ctl[c].kind = "results"
  /\ screen' = [p \in Phones |-> [screen[p] EXCEPT !.open = FALSE]]
  /\ host' = [host EXCEPT !.results = TRUE]
  /\ CtlBecomes(c, IdleCtl)
  /\ UNCHANGED <<redis, sub, wired, history>>

(***************************************************************************)
(* The specification.                                                      *)
(***************************************************************************)
SubStep(s) == ReadClock(s) \/ BoxCheck(s) \/ BoxMark(s) \/ Credit(s) \/ ReadAnswers(s)
              \/ SetAnswer(s) \/ Count(s) \/ CloseRead(s) \/ CloseWrite(s)

CtlStep(c) == ReadGame(c) \/ WriteGame(c) \/ SetClock(c) \/ EmitQuestion(c) \/ EmitResults(c)

UserStep ==
  \/ \E s \in Subs, p \in Phones : Submit(s, p)
  \/ \E s \in Subs, p \in Boxes : Press(s, p)
  \/ \E p \in Boxes : PressRaises(p)
  \/ \E c \in Ctls : ClickNext(c) \/ ClickResults(c) \/ ClickLater(c)
  \/ \E c \in Ctls, n \in LiveNumbers : CallLive(c, n)

Next == UserStep \/ (\E s \in Subs : SubStep(s)) \/ (\E c \in Ctls : CtlStep(c))

\* The event loop resumes every coroutine whose Redis reply has arrived;
\* nobody is obliged to press a button.
Fairness == (\A s \in Subs : WF_vars(SubStep(s))) /\ (\A c \in Ctls : WF_vars(CtlStep(c)))

Spec == Init /\ [][Next]_vars

FairSpec == Spec /\ Fairness

(***************************************************************************)
(* Properties.                                                             *)
(***************************************************************************)
\* Runs whose answer has been stored, and those that have scored.
Stored   == {s \in Subs : sub[s].pc \in {"count", "readgame", "writegame", "done"}}
Credited == Stored \cup {s \in Subs : sub[s].pc \in {"read", "append"}}
By(p, i) == {s \in Subs : sub[s].who = p /\ sub[s].q = i}

\* The list of a question holds only answers to that question, given by a
\* player and already added to that player's score.
ListsHoldScoredAnswers ==
  \A i \in Questions : \A s \in answers[i] : s \in Stored /\ sub[s].q = i /\ sub[s].who \in Players

\* set_answer writes back a list read earlier.  The only way an answer can
\* disappear is that two of these windows overlapped on the same question.
LostOnlyByOverlap ==
  \A s \in Stored : sub[s].q \notin overlap => s \in answers[sub[s].q]

\* However the windows overlap, a question somebody has answered never looks
\* unanswered again (the live API and the final results skip such questions).
AnsweredStaysAnswered == \A s \in Stored : answers[sub[s].q] # {}

\* Score hash and lists are written by separate calls.  While no append has
\* overlapped, a player's score is the sum of the listed answers and of those
\* scored but not listed yet.
PointsOf(runs) == SumFunctionOnSet([s \in Subs |-> sub[s].pts], runs)
ScoresMatchLists ==
  overlap = {} =>
    \A p \in Players :
      scores[p] = PointsOf({s \in UNION {answers[i] : i \in Questions} : sub[s].who = p})
                  + PointsOf({s \in Credited \ Stored : sub[s].who = p})

\* current_question is what the host (or the host's script) asked for last,
\* unless two read-modify-write of the game key overlapped: get_question_results
\* and the closing of a question by the last answer keep it.
BlobFollowsHost == ~blobRace => game.current = asked

\* A controller's player scores at most once per question, however often the
\* button is pressed and the question shown.
BoxScoresOnce ==
  \A p \in Boxes, i \in Questions : Cardinality(By(p, i) \cap Credited) <= 1

\* When every player has answered a question exactly once and all runs are
\* over, everyone_answered has been emitted, unless appends overlapped: the
\* host's timer stops without waiting for its end.
AllOnce(i) == Players # {} /\ \A p \in Players : Cardinality(By(p, i)) = 1
LastAnswerAnnounced ==
  \A i \in Questions \ overlap :
    AllOnce(i) /\ (\A p \in Players : \A s \in By(p, i) : sub[s].pc = "done") => i \in announced

\* Every run of a submission handler comes to its end.
EveryRunEnds ==
  \A s \in Subs : sub[s].pc \notin {"idle", "done", "failed"} ~> sub[s].pc \in {"done", "failed"}

\* When every player has sent one answer and none is refused, the host is told
\* so, unless appends overlapped or somebody answers again.
AllSent(i) == AllOnce(i) /\ (\A p \in Players : \A s \in By(p, i) : sub[s].pc # "failed")
EveryoneAnsweredIsTold ==
  \A i \in Questions : AllSent(i) ~> (i \in announced \/ i \in overlap \/ ~AllSent(i))

\* The handlers implement the answer book: scored once, then entered, and the
\* list made only of answers that had been entered.
StageOf == [pc \in SubSteps |->
  CASE pc = "idle" -> "none"
    [] pc \in {"sent", "check", "mark", "credit"} -> "taken"
    [] pc \in {"read", "append"} -> "scored"
    [] pc = "failed" -> "refused"
    [] OTHER -> "entered"]
Book == INSTANCE AnswerBook WITH
  Runs  <- Subs,
  stage <- [s \in Subs |-> StageOf[sub[s].pc]],
  about <- [s \in Subs |-> <<sub[s].who, sub[s].q>>],
  book  <- answers,
  total <- scores
ImplementsBook == Book!BookSpec

(***************************************************************************)
(* What the documentation says and the code does not keep.                 *)
(***************************************************************************)
\* live_redis_data.md: game_session:{i} "stores the answer per question which
\* the players submitted".
EveryAnswerListed == \A s \in Stored : s \in answers[sub[s].q]

\* live_redis_data.md: the list of players is used "to check if everyone has
\* answered".
AnnouncedMeansEveryone ==
  \A i \in announced : \A p \in Players : By(p, i) \cap Stored # {}

\* live_redis_data.md: current_time is "the time when the question was shown to
\* measure the time the players needed to answer".
TimedByOwnQuestion == \A s \in Credited : sub[s].ref = sub[s].q
=============================================================================
