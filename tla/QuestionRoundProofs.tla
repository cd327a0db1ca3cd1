------------------------- MODULE QuestionRoundProofs -------------------------
(***************************************************************************)
(* Proofs about QuestionRound for every number of players, questions and   *)
(* concurrent handlers: type correctness and what each step does to its    *)
(* run, the safety properties, and that the handlers implement AnswerBook. *)
(***************************************************************************)
EXTENDS QuestionRound, Sums

(***************************************************************************)
(* The inductive strengthening of TypeOK.                                  *)
(***************************************************************************)
\* A run that has started knows its player and its question.
SubsKnown ==
  \A s \in Subs :
    /\ sub[s].pc # "idle" => sub[s].who \in Players /\ sub[s].q \in Questions
    /\ sub[s].pc \in {"check", "mark"} => sub[s].who \in Boxes

\* A phone can answer only a question of the quiz.
ScreensKnown == \A p \in Phones : screen[p].open => screen[p].q \in Questions

\* The numbers a host's handler carries.
CtlNumbers ==
  \A c \in Ctls :
    /\ ctl[c].pc # "idle" /\ ctl[c].kind = "set" => ctl[c].q \in 0..NQ
    /\ ctl[c].pc = "clock" => ctl[c].kind = "set"
    /\ ctl[c].pc = "emit" /\ ctl[c].kind # "results" => ctl[c].q \in Questions

Typed == TypeOK /\ SubsKnown /\ ScreensKnown /\ CtlNumbers

(***************************************************************************)
(* Records of runs.                                                        *)
(***************************************************************************)
LEMMA Constants == NoBlob \in Blob /\ IdleSub \in Sub /\ IdleCtl \in Ctl
<1> USE QuizAssumption, PointsAssumption DEF Numbers, Questions, Players
<1>1. NoBlob \in Blob
  BY DEF NoBlob, Blob
<1>2. IdleSub \in Sub
  BY <1>1 DEF IdleSub, Sub, SubSteps
<1>3. IdleCtl \in Ctl
  BY <1>1 DEF IdleCtl, Ctl
<1> QED BY <1>1, <1>2, <1>3

LEMMA SubTyped ==
  ASSUME Typed, NEW s \in Subs, NEW r \in Sub, Becomes(s, r),
         r.who \in Players, r.q \in Questions, r.pc \in {"check", "mark"} => r.who \in Boxes
  PROVE  /\ sub' \in [Subs -> Sub]
         /\ SubsKnown'
         /\ sub'[s] = r
         /\ \A t \in Subs \ {s} : sub'[t] = sub[t]
<1>1. sub \in [Subs -> Sub]
  BY DEF Typed, TypeOK
<1>2. sub' \in [Subs -> Sub]
  BY <1>1 DEF Becomes
<1>3. sub'[s] = r /\ \A t \in Subs \ {s} : sub'[t] = sub[t]
  BY <1>1 DEF Becomes
<1>4. SubsKnown'
  BY <1>3 DEF Typed, SubsKnown
<1> QED BY <1>2, <1>3, <1>4

LEMMA SubFacts ==
  ASSUME Typed, NEW s \in Subs
  PROVE  /\ sub[s] \in Sub
         /\ sub[s].list \in SUBSET Subs /\ sub[s].blob \in Blob /\ sub[s].pts \in Points
         /\ sub[s].pc # "idle" => sub[s].who \in Players /\ sub[s].q \in Questions
         /\ sub[s].pc \in {"check", "mark"} => sub[s].who \in Boxes
<1>1. sub[s] \in Sub
  BY DEF Typed, TypeOK
<1> QED BY <1>1 DEF Sub, Typed, SubsKnown

\* The records that the steps of a run make of its record x.
WithPc(x, step)          == [x EXCEPT !.pc = step]
WithScore(x, step, i, p) == [x EXCEPT !.pc = step, !.ref = i, !.pts = p]
WithList(x, step, l)     == [x EXCEPT !.pc = step, !.list = l]
WithBlob(x, step, b)     == [x EXCEPT !.pc = step, !.blob = b]

\* y is x at another step, with list l and copy b.
Follows(y, x, step, l, b) ==
  y \in Sub /\ y.pc = step /\ y.who = x.who /\ y.q = x.q /\ y.list = l /\ y.blob = b

LEMMA SubRecords ==
  ASSUME NEW x \in Sub, NEW step \in SubSteps, NEW i \in Questions \cup {-1, NQ},
         NEW p \in Points, NEW l \in SUBSET Subs, NEW b \in Blob
  PROVE  /\ Follows(WithPc(x, step), x, step, x.list, x.blob)
         /\ Follows(WithScore(x, step, i, p), x, step, x.list, x.blob)
         /\ Follows(WithList(x, step, l), x, step, l, x.blob)
         /\ Follows(WithBlob(x, step, b), x, step, x.list, b)
<1> USE DEF Sub, Follows
<1>1. Follows(WithPc(x, step), x, step, x.list, x.blob)
  BY DEF WithPc
<1>2. Follows(WithScore(x, step, i, p), x, step, x.list, x.blob)
  BY DEF WithScore
<1>3. Follows(WithList(x, step, l), x, step, l, x.blob)
  BY DEF WithList
<1>4. Follows(WithBlob(x, step, b), x, step, x.list, b)
  BY DEF WithBlob
<1> QED BY <1>1, <1>2, <1>3, <1>4

\* The record of a run that takes an answer.
NewSub(step, p, i) == [IdleSub EXCEPT !.pc = step, !.who = p, !.q = i]

LEMMA NewRecord ==
  ASSUME NEW step \in SubSteps, NEW p \in Players, NEW i \in Questions
  PROVE  /\ NewSub(step, p, i) \in Sub /\ NewSub(step, p, i).pc = step
         /\ NewSub(step, p, i).who = p /\ NewSub(step, p, i).q = i
BY Constants DEF NewSub, IdleSub, Sub

\* The records of the host's screen.
LEMMA LaterRecord ==
  ASSUME NEW h \in HostScreen, NEW b \in BOOLEAN
  PROVE  [h EXCEPT !.later = b] \in HostScreen
BY DEF HostScreen

LEMMA HostRecord ==
  ASSUME NEW h \in HostScreen, NEW b \in BOOLEAN, NEW n \in Int, NEW i \in Questions
  PROVE  [h EXCEPT !.selected = n, !.shown = i, !.results = b] \in HostScreen
BY DEF HostScreen

LEMMA TypedInit == Init => Typed
<1> SUFFICES ASSUME Init PROVE Typed
  OBVIOUS
<1> USE DEF Init
<1>1. game \in Blob /\ sub \in [Subs -> Sub] /\ ctl \in [Ctls -> Ctl]
  BY Constants
<1>2. clock \in Questions \cup {-1, NQ} /\ asked \in Numbers
  BY QuizAssumption DEF Numbers
<1>3. answers \in [Questions -> SUBSET Subs] /\ scores \in [Players -> Int]
  OBVIOUS
<1>4. screen \in [Phones -> PhoneScreen]
  BY DEF PhoneScreen
<1>5. host \in HostScreen
  BY DEF HostScreen
<1>6. given \subseteq Boxes \X Questions /\ wired \subseteq Boxes /\ overlap \subseteq Questions
      /\ blobRace \in BOOLEAN /\ announced \subseteq Questions
  OBVIOUS
<1>7. TypeOK
  BY <1>1, <1>2, <1>3, <1>4, <1>5, <1>6 DEF TypeOK
<1>8. SubsKnown /\ ScreensKnown /\ CtlNumbers
  BY DEF SubsKnown, ScreensKnown, CtlNumbers, IdleSub, IdleCtl
<1> QED BY <1>7, <1>8 DEF Typed

(***************************************************************************)
(* The steps of a run of submit_answer or submit_answer_fn.                *)
(***************************************************************************)
\* Run s goes on to a step, with a list and a copy of the game key; its player
\* and question stay.
Moves(s, step, l, b) ==
  /\ sub' \in [Subs -> Sub]
  /\ SubsKnown'
  /\ sub'[s].pc = step /\ sub'[s].list = l /\ sub'[s].blob = b
  /\ sub'[s].who = sub[s].who /\ sub'[s].q = sub[s].q
  /\ \A t \in Subs \ {s} : sub'[t] = sub[t]

\* Run s takes an answer of player p to question i.
Starts(s, step, p, i) ==
  /\ sub' \in [Subs -> Sub]
  /\ SubsKnown'
  /\ sub'[s].pc = step /\ sub'[s].who = p /\ sub'[s].q = i
  /\ \A t \in Subs \ {s} : sub'[t] = sub[t]

LEMMA MovesBy ==
  ASSUME Typed, NEW s \in Subs, sub[s].pc # "idle", NEW y, Becomes(s, y),
         NEW step, NEW l, NEW b, Follows(y, sub[s], step, l, b),
         step \in {"check", "mark"} => sub[s].who \in Boxes
  PROVE  Moves(s, step, l, b)
<1>1. y \in Sub /\ y.who \in Players /\ y.q \in Questions
      /\ (y.pc \in {"check", "mark"} => y.who \in Boxes)
  BY SubFacts DEF Follows
<1> QED BY <1>1, SubTyped DEF Moves, Follows

LEMMA GotoMoves ==
  ASSUME Typed, NEW s \in Subs, sub[s].pc # "idle", NEW step \in SubSteps, Goto(s, step),
         step \notin {"check", "mark"}
  PROVE  Moves(s, step, sub[s].list, sub[s].blob)
<1>1. Follows(WithPc(sub[s], step), sub[s], step, sub[s].list, sub[s].blob)
  BY SubFacts, SubRecords, Constants, QuizAssumption, PointsAssumption
<1>2. Becomes(s, WithPc(sub[s], step))
  BY DEF Goto, WithPc
<1> QED BY <1>1, <1>2, MovesBy

LEMMA ScoreMoves ==
  ASSUME Typed, NEW s \in Subs, sub[s].pc # "idle", NEW step \in SubSteps, NEW p \in Points,
         Becomes(s, [sub[s] EXCEPT !.pc = step, !.ref = clock, !.pts = p]),
         step \in {"check", "mark"} => sub[s].who \in Boxes
  PROVE  Moves(s, step, sub[s].list, sub[s].blob)
<1>1. clock \in Questions \cup {-1, NQ}
  BY DEF Typed, TypeOK
<1>2. Follows(WithScore(sub[s], step, clock, p), sub[s], step, sub[s].list, sub[s].blob)
  BY <1>1, SubFacts, SubRecords
<1>3. Becomes(s, WithScore(sub[s], step, clock, p))
  BY DEF WithScore
<1> QED BY <1>2, <1>3, MovesBy

LEMMA ListMoves ==
  ASSUME Typed, NEW s \in Subs, sub[s].pc # "idle", NEW step \in SubSteps, NEW l \in SUBSET Subs,
         Becomes(s, [sub[s] EXCEPT !.pc = step, !.list = l]), step \notin {"check", "mark"}
  PROVE  Moves(s, step, l, sub[s].blob)
<1>1. Follows(WithList(sub[s], step, l), sub[s], step, l, sub[s].blob)
  BY SubFacts, SubRecords, QuizAssumption
<1>2. Becomes(s, WithList(sub[s], step, l))
  BY DEF WithList
<1> QED BY <1>1, <1>2, MovesBy

LEMMA BlobMoves ==
  ASSUME Typed, NEW s \in Subs, sub[s].pc # "idle", NEW step \in SubSteps, NEW b \in Blob,
         Becomes(s, [sub[s] EXCEPT !.pc = step, !.blob = b]), step \notin {"check", "mark"}
  PROVE  Moves(s, step, sub[s].list, b)
<1>1. Follows(WithBlob(sub[s], step, b), sub[s], step, sub[s].list, b)
  BY SubFacts, SubRecords, QuizAssumption
<1>2. Becomes(s, WithBlob(sub[s], step, b))
  BY DEF WithBlob
<1> QED BY <1>1, <1>2, MovesBy

LEMMA AnswerStarts ==
  ASSUME Typed, NEW s \in Subs, NEW p \in Players, NEW i \in Questions, NEW step \in SubSteps,
         step \in {"check", "mark"} => p \in Boxes, Becomes(s, NewSub(step, p, i))
  PROVE  Starts(s, step, p, i)
BY NewRecord, SubTyped DEF Starts

(***************************************************************************)
(* What each step does to its own run.                                     *)
(***************************************************************************)
LEMMA ReadClockEffect ==
  ASSUME Typed, NEW s \in Subs, ReadClock(s)
  PROVE  \E step \in {"failed", "credit"} : Moves(s, step, sub[s].list, sub[s].blob)
<1>1. sub[s].pc # "idle"
  BY DEF ReadClock
<1>2. CASE Goto(s, "failed")
  BY <1>1, <1>2, GotoMoves DEF SubSteps
<1>3. ASSUME NEW x \in Points, Becomes(s, [sub[s] EXCEPT !.pc = "credit", !.ref = clock, !.pts = x])
      PROVE  Moves(s, "credit", sub[s].list, sub[s].blob)
  BY <1>1, <1>3, ScoreMoves DEF SubSteps
<1> QED BY <1>2, <1>3 DEF ReadClock

LEMMA BoxCheckEffect ==
  ASSUME Typed, NEW s \in Subs, BoxCheck(s)
  PROVE  \E step \in {"failed", "mark"} : Moves(s, step, sub[s].list, sub[s].blob)
<1>1. sub[s].pc # "idle"
  BY DEF BoxCheck
<1>2. CASE Goto(s, "failed")
  BY <1>1, <1>2, GotoMoves DEF SubSteps
<1>3. ASSUME NEW x \in Points, Becomes(s, [sub[s] EXCEPT !.pc = "mark", !.ref = clock, !.pts = x])
      PROVE  Moves(s, "mark", sub[s].list, sub[s].blob)
  BY <1>1, <1>3, SubFacts, ScoreMoves DEF SubSteps, BoxCheck
<1> QED BY <1>2, <1>3 DEF BoxCheck

LEMMA BoxMarkEffect ==
  ASSUME Typed, NEW s \in Subs, BoxMark(s)
  PROVE  Moves(s, "credit", sub[s].list, sub[s].blob)
BY GotoMoves DEF BoxMark, SubSteps

LEMMA CreditEffect ==
  ASSUME Typed, NEW s \in Subs, Credit(s)
  PROVE  Moves(s, "read", sub[s].list, sub[s].blob)
BY GotoMoves DEF Credit, SubSteps

LEMMA ReadAnswersEffect ==
  ASSUME Typed, NEW s \in Subs, ReadAnswers(s)
  PROVE  Moves(s, "append", answers[sub[s].q], sub[s].blob)
<1>1. sub[s].pc # "idle" /\ answers[sub[s].q] \in SUBSET Subs
  BY SubFacts DEF ReadAnswers, Typed, TypeOK
<1> QED BY <1>1, ListMoves DEF ReadAnswers, SubSteps

LEMMA SetAnswerEffect ==
  ASSUME Typed, NEW s \in Subs, SetAnswer(s)
  PROVE  Moves(s, "count", sub[s].list \cup {s}, sub[s].blob)
<1>1. sub[s].pc # "idle" /\ sub[s].list \cup {s} \in SUBSET Subs
  BY SubFacts DEF SetAnswer, StoreAs
<1>2. Becomes(s, [sub[s] EXCEPT !.pc = "count", !.list = sub[s].list \cup {s}])
  BY DEF SetAnswer, StoreAs
<1> QED BY <1>1, <1>2, ListMoves DEF SubSteps

LEMMA CountEffect ==
  ASSUME Typed, NEW s \in Subs, Count(s)
  PROVE  \E step \in {"readgame", "done"} : Moves(s, step, {}, sub[s].blob)
<1> DEFINE step == IF IsLast(s) /\ sub[s].who \in Phones THEN "readgame" ELSE "done"
<1>1. sub[s].pc # "idle" /\ step \in {"readgame", "done"} /\ step \in SubSteps
  BY DEF Count, SubSteps
<1>2. Becomes(s, [sub[s] EXCEPT !.pc = step, !.list = {}])
  BY DEF Count
<1> HIDE DEF step
<1>3. Moves(s, step, {}, sub[s].blob)
  BY <1>1, <1>2, ListMoves
<1> QED BY <1>1, <1>3

LEMMA CloseReadEffect ==
  ASSUME Typed, NEW s \in Subs, CloseRead(s)
  PROVE  Moves(s, "writegame", sub[s].list, [game EXCEPT !.show = FALSE])
<1>1. [game EXCEPT !.show = FALSE] \in Blob
  BY DEF Typed, TypeOK, Blob
<1>2. sub[s].pc # "idle"
  BY DEF CloseRead
<1> QED BY <1>1, <1>2, BlobMoves DEF CloseRead, SubSteps

LEMMA CloseWriteEffect ==
  ASSUME Typed, NEW s \in Subs, CloseWrite(s)
  PROVE  Moves(s, "done", sub[s].list, NoBlob)
BY BlobMoves, Constants DEF CloseWrite, SubSteps

(***************************************************************************)
(* The steps of a run of the host's handlers.                              *)
(***************************************************************************)
\* The numbers record x may carry.
NumberFits(x) ==
  /\ x.pc # "idle" /\ x.kind = "set" => x.q \in 0..NQ
  /\ x.pc = "clock" => x.kind = "set"
  /\ x.pc = "emit" /\ x.kind # "results" => x.q \in Questions

\* Run c is now at a step, with kind, number and copy of the game key.
Goes(c, step, kind, n, b) ==
  /\ ctl' \in [Ctls -> Ctl]
  /\ CtlNumbers'
  /\ ctl'[c].pc = step /\ ctl'[c].kind = kind /\ ctl'[c].q = n /\ ctl'[c].blob = b
  /\ \A d \in Ctls \ {c} : ctl'[d] = ctl[d]

LEMMA CtlTyped ==
  ASSUME Typed, NEW c \in Ctls, NEW r \in Ctl, CtlBecomes(c, r), NumberFits(r)
  PROVE  Goes(c, r.pc, r.kind, r.q, r.blob)
<1>1. ctl \in [Ctls -> Ctl] /\ \A d \in Ctls : NumberFits(ctl[d])
  BY DEF Typed, TypeOK, CtlNumbers, NumberFits
<1>2. ctl' \in [Ctls -> Ctl] /\ ctl'[c] = r /\ \A d \in Ctls \ {c} : ctl'[d] = ctl[d]
  BY <1>1 DEF CtlBecomes
<1>3. \A d \in Ctls : NumberFits(ctl'[d])
  BY <1>1, <1>2
<1>4. CtlNumbers'
  BY <1>3 DEF CtlNumbers, NumberFits
<1> QED BY <1>2, <1>4 DEF Goes

LEMMA CtlFacts ==
  ASSUME Typed, NEW c \in Ctls
  PROVE  ctl[c] \in Ctl /\ NumberFits(ctl[c]) /\ ctl[c].q \in Numbers /\ ctl[c].blob \in Blob
         /\ ctl[c].kind \in {"set", "results", "live"}
<1>1. ctl[c] \in Ctl /\ NumberFits(ctl[c])
  BY DEF Typed, TypeOK, CtlNumbers, NumberFits
<1> QED BY <1>1 DEF Ctl

\* The records that the steps of a host's handler make.
AtStep(x, step)       == [x EXCEPT !.pc = step]
WithCopy(x, step, b)  == [x EXCEPT !.pc = step, !.blob = b]
Fresh(kind, n)        == [IdleCtl EXCEPT !.pc = "sent", !.kind = kind, !.q = n]

\* y is x at another step, with copy b.
GoesOn(y, x, step, b) ==
  y \in Ctl /\ y.pc = step /\ y.kind = x.kind /\ y.q = x.q /\ y.blob = b

CtlSteps == {"idle", "sent", "write", "clock", "emit"}

LEMMA CtlRecords ==
  ASSUME NEW x \in Ctl, NEW step \in CtlSteps, NEW b \in Blob
  PROVE  GoesOn(WithCopy(x, step, b), x, step, b) /\ GoesOn(AtStep(x, step), x, step, x.blob)
BY DEF Ctl, WithCopy, AtStep, GoesOn, CtlSteps

LEMMA GoesBy ==
  ASSUME Typed, NEW c \in Ctls, NEW y, CtlBecomes(c, y), NEW step, NEW b,
         GoesOn(y, ctl[c], step, b), NumberFits(y)
  PROVE  Goes(c, step, ctl[c].kind, ctl[c].q, b)
<1>1. Goes(c, y.pc, y.kind, y.q, y.blob)
  BY CtlTyped DEF GoesOn
<1> QED BY <1>1 DEF GoesOn

LEMMA FreshRecord ==
  ASSUME NEW kind \in {"set", "results", "live"}, NEW n \in Numbers
  PROVE  /\ Fresh(kind, n) \in Ctl
         /\ Fresh(kind, n).pc = "sent" /\ Fresh(kind, n).kind = kind
         /\ Fresh(kind, n).q = n /\ Fresh(kind, n).blob = NoBlob
BY Constants DEF Ctl, Fresh, IdleCtl

LEMMA SendEffect ==
  ASSUME Typed, NEW c \in Ctls, NEW kind \in {"set", "results", "live"}, NEW n \in Numbers,
         kind = "set" => n \in 0..NQ, Send(c, kind, n)
  PROVE  Goes(c, "sent", kind, n, NoBlob)
<1>1. CtlBecomes(c, Fresh(kind, n))
  BY DEF Send, Fresh
<1>2. NumberFits(Fresh(kind, n))
  BY FreshRecord DEF NumberFits
<1>3. Goes(c, Fresh(kind, n).pc, Fresh(kind, n).kind, Fresh(kind, n).q, Fresh(kind, n).blob)
  BY <1>1, <1>2, FreshRecord, CtlTyped
<1> QED BY <1>3, FreshRecord

LEMMA EndEffect ==
  ASSUME Typed, NEW c \in Ctls, CtlBecomes(c, IdleCtl)
  PROVE  Goes(c, "idle", "set", -1, NoBlob)
<1>1. NumberFits(IdleCtl)
  BY DEF NumberFits, IdleCtl
<1>2. Goes(c, IdleCtl.pc, IdleCtl.kind, IdleCtl.q, IdleCtl.blob)
  BY <1>1, Constants, CtlTyped
<1> QED BY <1>2 DEF IdleCtl

LEMMA ModifiedBlob ==
  ASSUME Typed, NEW c \in Ctls, ctl[c].pc # "idle"
  PROVE  /\ Modified(c) \in Blob
         /\ Modified(c).current = IF ctl[c].kind = "results" THEN game.current ELSE ctl[c].q
<1>1. game \in Blob /\ ctl[c].q \in Numbers /\ ctl[c].kind \in {"set", "results", "live"}
  BY CtlFacts DEF Typed, TypeOK
<1>2. CASE ctl[c].kind = "set"
  BY <1>1, <1>2 DEF Modified, Blob
<1>3. CASE ctl[c].kind = "results"
  BY <1>1, <1>3 DEF Modified, Blob
<1>4. CASE ctl[c].kind = "live"
  BY <1>1, <1>4 DEF Modified, Blob
<1> QED BY <1>1, <1>2, <1>3, <1>4

LEMMA ReadGameEffect ==
  ASSUME Typed, NEW c \in Ctls, ReadGame(c)
  PROVE  Goes(c, "write", ctl[c].kind, ctl[c].q, Modified(c))
<1>1. ctl[c].pc = "sent" /\ CtlBecomes(c, WithCopy(ctl[c], "write", Modified(c)))
  BY DEF ReadGame, WithCopy
<1>2. GoesOn(WithCopy(ctl[c], "write", Modified(c)), ctl[c], "write", Modified(c))
  BY <1>1, CtlFacts, ModifiedBlob, CtlRecords DEF CtlSteps
<1>3. NumberFits(WithCopy(ctl[c], "write", Modified(c)))
  BY <1>1, <1>2, CtlFacts DEF NumberFits, GoesOn
<1> QED BY <1>1, <1>2, <1>3, GoesBy

LEMMA WriteGameEffect ==
  ASSUME Typed, NEW c \in Ctls, WriteGame(c)
  PROVE  \E step \in {"idle", "clock", "emit"}, kind \in {"set", "results", "live"}, n \in Numbers :
           Goes(c, step, kind, n, NoBlob)
<1>1. ctl[c].pc = "write" /\ -1 \in Numbers
  BY QuizAssumption DEF WriteGame, Numbers
<1>2. CASE AfterWrite(c) = "idle"
  <2>1. CtlBecomes(c, IdleCtl)
    BY <1>2 DEF WriteGame
  <2> QED BY <1>1, <2>1, EndEffect
<1>3. CASE AfterWrite(c) # "idle"
  <2> DEFINE step == AfterWrite(c)
  <2>1. CtlBecomes(c, WithCopy(ctl[c], step, NoBlob))
    BY <1>3 DEF WriteGame, WithCopy
  <2>2. /\ step \in {"clock", "emit"}
        /\ step = "clock" => ctl[c].kind = "set"
        /\ step = "emit" /\ ctl[c].kind # "results" => ctl[c].q \in Questions
    BY <1>3, CtlFacts DEF AfterWrite
  <2> HIDE DEF step
  <2>3. GoesOn(WithCopy(ctl[c], step, NoBlob), ctl[c], step, NoBlob)
    BY <2>2, CtlFacts, Constants, CtlRecords DEF CtlSteps
  <2>4. NumberFits(WithCopy(ctl[c], step, NoBlob))
    BY <1>1, <2>2, <2>3, CtlFacts DEF NumberFits, GoesOn
  <2>5. Goes(c, step, ctl[c].kind, ctl[c].q, NoBlob)
    BY <2>1, <2>3, <2>4, GoesBy
  <2> QED BY <2>2, <2>5, CtlFacts
<1> QED BY <1>2, <1>3

LEMMA SetClockEffect ==
  ASSUME Typed, NEW c \in Ctls, SetClock(c)
  PROVE  \E step \in {"idle", "emit"}, kind \in {"set", "results", "live"}, n \in Numbers, b \in Blob :
           Goes(c, step, kind, n, b)
<1>1. ctl[c].pc = "clock" /\ -1 \in Numbers
  BY QuizAssumption DEF SetClock, Numbers
<1>2. CASE ctl[c].q \notin Questions
  <2>1. CtlBecomes(c, IdleCtl)
    BY <1>2 DEF SetClock
  <2> QED BY <1>1, <2>1, EndEffect, Constants
<1>3. CASE ctl[c].q \in Questions
  <2>1. CtlBecomes(c, AtStep(ctl[c], "emit"))
    BY <1>3 DEF SetClock, AtStep
  <2>2. GoesOn(AtStep(ctl[c], "emit"), ctl[c], "emit", ctl[c].blob)
    BY CtlFacts, CtlRecords, Constants DEF CtlSteps
  <2>3. NumberFits(AtStep(ctl[c], "emit"))
    BY <1>1, <1>3, <2>2, CtlFacts DEF NumberFits, GoesOn
  <2>4. Goes(c, "emit", ctl[c].kind, ctl[c].q, ctl[c].blob)
    BY <2>1, <2>2, <2>3, GoesBy
  <2> QED BY <2>4, CtlFacts
<1> QED BY <1>2, <1>3

(***************************************************************************)
(* Types.                                                                  *)
(***************************************************************************)
LEMMA TypedSub ==
  ASSUME Typed, NEW s \in Subs, SubStep(s)
  PROVE  Typed'
<1> USE DEF Typed, TypeOK, Moves, ScreensKnown, CtlNumbers, redis, clients, history
<1>0. /\ sub[s].pc # "idle" => sub[s].who \in Players /\ sub[s].q \in Questions
      /\ sub[s].pc \in {"check", "mark"} => sub[s].who \in Boxes
  BY SubFacts
<1>1. CASE ReadClock(s)
  BY <1>1, ReadClockEffect DEF ReadClock
<1>2. CASE BoxCheck(s)
  <2>1. wired' \subseteq Boxes
    BY <1>2 DEF BoxCheck
  <2> QED BY <1>2, <2>1, BoxCheckEffect DEF BoxCheck
<1>3. CASE BoxMark(s)
  <2>1. given' \subseteq Boxes \X Questions
    BY <1>0, <1>3 DEF BoxMark
  <2> QED BY <1>3, <2>1, BoxMarkEffect DEF BoxMark
<1>4. CASE Credit(s)
  <2>1. sub[s].pts \in Int /\ sub[s].who \in Players /\ scores[sub[s].who] \in Int
    BY <1>0, <1>4, SubFacts, PointsAssumption DEF Credit
  <2>2. scores' \in [Players -> Int]
    BY <1>4, <2>1 DEF Credit
  <2> QED BY <1>4, <2>2, CreditEffect DEF Credit
<1>5. CASE ReadAnswers(s)
  <2>1. overlap' \subseteq Questions
    BY <1>0, <1>5 DEF ReadAnswers
  <2> QED BY <1>5, <2>1, ReadAnswersEffect DEF ReadAnswers
<1>6. CASE SetAnswer(s)
  <2>1. answers' \in [Questions -> SUBSET Subs]
    BY <1>6, SubFacts DEF SetAnswer, StoreAs
  <2> QED BY <1>6, <2>1, SetAnswerEffect DEF SetAnswer, StoreAs
<1>7. CASE Count(s)
  <2>1. announced' \subseteq Questions
    BY <1>0, <1>7 DEF Count
  <2> QED BY <1>7, <2>1, CountEffect DEF Count
<1>8. CASE CloseRead(s)
  BY <1>8, CloseReadEffect DEF CloseRead, NoteBlobRead, BlobHeld
<1>9. CASE CloseWrite(s)
  <2>1. game' \in Blob /\ announced' \subseteq Questions
    BY <1>0, <1>9, SubFacts DEF CloseWrite
  <2> QED BY <1>9, <2>1, CloseWriteEffect DEF CloseWrite
<1> QED BY <1>1, <1>2, <1>3, <1>4, <1>5, <1>6, <1>7, <1>8, <1>9 DEF SubStep

LEMMA TypedCtl ==
  ASSUME Typed, NEW c \in Ctls, CtlStep(c)
  PROVE  Typed'
<1> USE DEF Typed, TypeOK, Goes, SubsKnown, ScreensKnown, redis, clients, history
<1>1. CASE ReadGame(c)
  BY <1>1, ReadGameEffect DEF ReadGame, NoteBlobRead, BlobHeld
<1>2. CASE WriteGame(c)
  <2>1. game' \in Blob /\ asked' \in Numbers
    BY <1>2, CtlFacts DEF WriteGame
  <2> QED BY <1>2, <2>1, WriteGameEffect DEF WriteGame
<1>3. CASE SetClock(c)
  <2>1. ctl[c].q \in 0..NQ
    BY <1>3, CtlFacts DEF SetClock, NumberFits
  <2>2. clock' \in Questions \cup {-1, NQ}
    BY <1>3, <2>1, QuizAssumption DEF SetClock, Questions
  <2> QED BY <1>3, <2>2, SetClockEffect DEF SetClock
<1>4. CASE EmitQuestion(c)
  <2>1. ctl[c].q \in Questions /\ FALSE \in BOOLEAN
    BY <1>4, CtlFacts DEF EmitQuestion, NumberFits
  <2>2. screen' \in [Phones -> PhoneScreen] /\ ScreensKnown'
    BY <1>4, <2>1 DEF EmitQuestion, Shown, PhoneScreen
  <2>3. host' \in HostScreen
    <3>1. host' = [host EXCEPT !.selected = host.selected + 1, !.shown = ctl[c].q, !.results = FALSE]
      BY <1>4 DEF EmitQuestion
    <3>2. host.selected + 1 \in Int
      BY DEF HostScreen
    <3> QED BY <2>1, <3>1, <3>2, HostRecord
  <2> QED BY <1>4, <2>2, <2>3, EndEffect DEF EmitQuestion
<1>5. CASE EmitResults(c)
  <2>1. screen' \in [Phones -> PhoneScreen] /\ ScreensKnown'
    <3>1. screen' = [p \in Phones |-> [screen[p] EXCEPT !.open = FALSE]]
      BY <1>5 DEF EmitResults
    <3> QED BY <3>1 DEF PhoneScreen
  <2>2. host' = [host EXCEPT !.results = TRUE]
    BY <1>5 DEF EmitResults
  <2>3. host' \in HostScreen
    BY <2>2 DEF HostScreen
  <2> QED BY <1>5, <2>1, <2>3, EndEffect DEF EmitResults
<1> QED BY <1>1, <1>2, <1>3, <1>4, <1>5 DEF CtlStep

LEMMA ClickNextEffect ==
  ASSUME Typed, NEW c \in Ctls, ClickNext(c)
  PROVE  \E n \in Numbers : Goes(c, "sent", "set", n, NoBlob)
<1>1. host.selected + 1 \in 0..NQ
  BY QuizAssumption DEF Typed, TypeOK, ClickNext, NextEnabled, Questions
<1>2. host.selected + 1 \in Numbers
  BY <1>1, QuizAssumption DEF Numbers
<1> QED BY <1>1, <1>2, SendEffect DEF ClickNext

LEMMA ClickResultsEffect ==
  ASSUME Typed, NEW c \in Ctls, ClickResults(c)
  PROVE  \E n \in Numbers : Goes(c, "sent", "results", n, NoBlob)
<1>1. host.shown \in Numbers
  BY QuizAssumption DEF Typed, TypeOK, Numbers, Questions, HostScreen
<1> QED BY <1>1, SendEffect DEF ClickResults

LEMMA ClickLaterEffect ==
  ASSUME Typed, NEW c \in Ctls, ClickLater(c)
  PROVE  \E n \in Numbers : Goes(c, "sent", "set", n, NoBlob)
<1>1. host.selected + 1 \in 0..NQ
  BY QuizAssumption DEF Typed, TypeOK, ClickLater, Questions
<1>2. host.selected + 1 \in Numbers
  BY <1>1, QuizAssumption DEF Numbers
<1> QED BY <1>1, <1>2, SendEffect DEF ClickLater

LEMMA CallLiveEffect ==
  ASSUME Typed, NEW c \in Ctls, NEW n \in LiveNumbers, CallLive(c, n)
  PROVE  Goes(c, "sent", "live", n, NoBlob)
<1>1. n \in Numbers
  BY DEF Numbers
<1> QED BY <1>1, SendEffect DEF CallLive

LEMMA SubmitEffect ==
  ASSUME Typed, NEW s \in Subs, NEW p \in Phones, Submit(s, p)
  PROVE  Starts(s, "sent", p, screen[p].q)
<1>1. p \in Players /\ screen[p].q \in Questions
  BY DEF Players, Submit, Typed, ScreensKnown
<1>2. Becomes(s, NewSub("sent", p, screen[p].q)) /\ "sent" \in SubSteps
  BY DEF Submit, NewSub, SubSteps
<1> QED BY <1>1, <1>2, AnswerStarts

LEMMA PressEffect ==
  ASSUME Typed, NEW s \in Subs, NEW p \in Boxes, Press(s, p)
  PROVE  Starts(s, "check", p, game.current)
<1>1. p \in Players /\ game.current \in Questions
  BY DEF Players, Press
<1>2. Becomes(s, NewSub("check", p, game.current)) /\ "check" \in SubSteps
  BY DEF Press, NewSub, SubSteps
<1> QED BY <1>1, <1>2, AnswerStarts

LEMMA TypedUser ==
  ASSUME Typed, UserStep
  PROVE  Typed'
<1> USE DEF Typed, TypeOK, SubsKnown, ScreensKnown, redis, clients, history
<1>1. ASSUME NEW s \in Subs, NEW p \in Phones, Submit(s, p) PROVE Typed'
  <2>1. screen[p].q \in Questions
    BY <1>1 DEF Submit
  <2>2. Starts(s, "sent", p, screen[p].q)
    BY <1>1, SubmitEffect
  <2>3. PICK again \in BOOLEAN : screen' = [screen EXCEPT ![p].open = again]
    BY <1>1 DEF Submit
  <2>4. /\ screen' \in [Phones -> PhoneScreen]
        /\ \A r \in Phones : screen'[r].q = screen[r].q /\ (r # p => screen'[r] = screen[r])
    BY <2>3 DEF PhoneScreen
  <2>5. ScreensKnown'
    BY <2>1, <2>4
  <2> QED BY <1>1, <2>2, <2>4, <2>5 DEF Starts, Submit, CtlNumbers
<1>2. ASSUME NEW s \in Subs, NEW p \in Boxes, Press(s, p) PROVE Typed'
  <2>1. Starts(s, "check", p, game.current)
    BY <1>2, PressEffect
  <2> QED BY <1>2, <2>1 DEF Starts, Press, CtlNumbers
<1>3. ASSUME NEW p \in Boxes, PressRaises(p) PROVE Typed'
  BY <1>3 DEF PressRaises, CtlNumbers
<1>4. ASSUME NEW c \in Ctls, ClickNext(c) PROVE Typed'
  BY <1>4, ClickNextEffect DEF Goes, ClickNext
<1>5. ASSUME NEW c \in Ctls, ClickResults(c) PROVE Typed'
  <2>1. host' = [host EXCEPT !.later = host.selected \in Hidden] /\ (host.selected \in Hidden) \in BOOLEAN
    BY <1>5 DEF ClickResults
  <2>2. host' \in HostScreen
    BY <2>1, LaterRecord, Zenon
  <2> QED BY <1>5, <2>2, ClickResultsEffect DEF Goes, ClickResults
<1>6. ASSUME NEW c \in Ctls, ClickLater(c) PROVE Typed'
  <2>1. host' = [host EXCEPT !.later = FALSE]
    BY <1>6 DEF ClickLater
  <2>2. host' \in HostScreen
    BY <2>1 DEF HostScreen
  <2> QED BY <1>6, <2>2, ClickLaterEffect DEF Goes, ClickLater
<1>7. ASSUME NEW c \in Ctls, NEW n \in LiveNumbers, CallLive(c, n) PROVE Typed'
  BY <1>7, CallLiveEffect DEF Goes, CallLive
<1> QED BY <1>1, <1>2, <1>3, <1>4, <1>5, <1>6, <1>7 DEF UserStep

LEMMA TypedStep == Typed /\ [Next]_vars => Typed'
<1> SUFFICES ASSUME Typed, [Next]_vars PROVE Typed'
  OBVIOUS
<1>1. CASE UserStep
  BY <1>1, TypedUser
<1>2. CASE \E s \in Subs : SubStep(s)
  BY <1>2, TypedSub
<1>3. CASE \E c \in Ctls : CtlStep(c)
  BY <1>3, TypedCtl
<1>4. CASE UNCHANGED vars
  BY <1>4 DEF vars, redis, clients, history, Typed, TypeOK, SubsKnown, ScreensKnown, CtlNumbers
<1> QED BY <1>1, <1>2, <1>3, <1>4 DEF Next

\* Every step keeps every variable, and every record a handler carries between
\* its awaits, of its type: indices of lists, numbers in the game key, scores.
THEOREM TypeCorrect == Spec => []TypeOK
<1>1. Typed => TypeOK
  BY DEF Typed
<1> QED BY <1>1, TypedInit, TypedStep, PTL DEF Spec

\* The strengthening itself, for the theorems that build on it.
THEOREM TypedAlways == Spec => []Typed
BY TypedInit, TypedStep, PTL DEF Spec

(***************************************************************************)
(* The inductive invariant of the safety properties, in named parts.       *)
(***************************************************************************)
\* What a run has read from a list had been stored for the same question.
CopiesHoldStored ==
  \A s \in Subs : sub[s].pc = "append" =>
    \A r \in sub[s].list : r \in Stored /\ sub[r].q = sub[s].q
ListsInv == ListsHoldScoredAnswers /\ CopiesHoldStored

\* Without overlap one run at a time appends, and its copy is the list itself.
AppendsAlone ==
  \A s, r \in Subs :
    sub[s].pc = "append" /\ sub[r].pc = "append" /\ sub[s].q = sub[r].q /\ s # r
      => sub[s].q \in overlap
CopiesCurrent ==
  \A s \in Subs : sub[s].pc = "append" /\ sub[s].q \notin overlap => sub[s].list = answers[sub[s].q]
LostInv == LostOnlyByOverlap /\ AppendsAlone /\ CopiesCurrent

\* Copies of the game key: at most one while no race was noted, and up to date.
SubHolds(s) == sub[s].pc = "writegame"
CtlHolds(c) == ctl[c].pc = "write"
HeldAlone ==
  /\ \A s, r \in Subs : SubHolds(s) /\ SubHolds(r) => s = r
  /\ \A c, d \in Ctls : CtlHolds(c) /\ CtlHolds(d) => c = d
  /\ \A s \in Subs, c \in Ctls : ~(SubHolds(s) /\ CtlHolds(c))
CopiesFollow ==
  /\ \A s \in Subs : SubHolds(s) => sub[s].blob.current = asked
  /\ \A c \in Ctls : CtlHolds(c) =>
       ctl[c].blob.current = IF ctl[c].kind = "results" THEN asked ELSE ctl[c].q
BlobInv == ~blobRace => game.current = asked /\ HeldAlone /\ CopiesFollow

\* Runs of a controller's player that have marked the question as answered.
PastMark == {"credit", "read", "append", "count", "readgame", "writegame", "done"}
BoxRun(s) == sub[s].who \in Boxes
Running(s) == sub[s].pc \notin {"idle", "done", "failed"}

SentByPhones == \A s \in Subs : sub[s].pc = "sent" => sub[s].who \in Phones
\* The loop awaits a run before it takes the next button.
OneButton ==
  \A s \in Subs : \A r \in Subs :
    BoxRun(s) /\ sub[s].who = sub[r].who /\ Running(s) /\ Running(r) => s = r
\* Between check and mark nobody else marks the question for this player.
MarksTold ==
  /\ \A s \in Subs : sub[s].pc = "mark" => <<sub[s].who, sub[s].q>> \notin given
  /\ \A s \in Subs : BoxRun(s) /\ sub[s].pc \in PastMark => <<sub[s].who, sub[s].q>> \in given
MarkedOnce ==
  \A s \in Subs : \A r \in Subs :
    BoxRun(s) /\ sub[s].who = sub[r].who /\ sub[s].q = sub[r].q
      /\ sub[s].pc \in PastMark /\ sub[r].pc \in PastMark => s = r
BoxInv == SentByPhones /\ OneButton /\ MarksTold /\ MarkedOnce

\* Whoever wrote the list as it is goes on to compare it with the players.
WroteLast(s, i) ==
  /\ s \in answers[i]
  /\ sub[s].q = i
  /\ \/ sub[s].pc = "count" /\ sub[s].list = answers[i]
     \/ /\ sub[s].pc \in {"readgame", "writegame", "done"}
        /\ Cardinality(answers[i]) = Cardinality(Players) =>
             sub[s].pc # "done" \/ i \in announced
LastCompares == \A i \in Questions : answers[i] # {} => \E s \in Subs : WroteLast(s, i)

\* Only finitely many runs have started, however many there may be.
Started == {s \in Subs : sub[s].pc # "idle"}
FewStarted == IsFiniteSet(Started) /\ \A s \in Subs \ Started : sub[s].who = Nobody

\* The score hash holds the sum of all runs that have scored, overlap or not.
CreditedOf(p) == {s \in Credited : sub[s].who = p}
ScoresAreSums == \A p \in Players : scores[p] = PointsOf(CreditedOf(p))

IInv ==
  /\ Typed /\ ListsInv /\ LostInv /\ AnsweredStaysAnswered /\ BlobInv
  /\ BoxInv /\ LastCompares /\ FewStarted /\ ScoresAreSums

(***************************************************************************)
(* Steps that touch neither the lists nor the runs between ReadAnswers     *)
(* and the end of SetAnswer.                                               *)
(***************************************************************************)
ListsQuiet ==
  /\ UNCHANGED <<answers, overlap>>
  /\ \A s \in Subs :
       /\ s \in Stored' <=> s \in Stored
       /\ s \in Stored => sub'[s].q = sub[s].q /\ sub'[s].who = sub[s].who
       /\ sub'[s].pc = "append" <=> sub[s].pc = "append"
       /\ sub[s].pc = "append" => sub'[s] = sub[s]

LEMMA QuietMove ==
  ASSUME Typed, NEW s \in Subs, NEW step, NEW l, NEW b, Moves(s, step, l, b),
         UNCHANGED <<answers, overlap>>, sub[s].pc # "append", step # "append",
         s \in Stored <=> step \in {"count", "readgame", "writegame", "done"}
  PROVE  ListsQuiet
BY DEF ListsQuiet, Moves, Stored

LEMMA QuietSub ==
  ASSUME Typed, NEW s \in Subs, SubStep(s), ~ReadAnswers(s), ~SetAnswer(s)
  PROVE  ListsQuiet
<1> USE DEF redis, clients, history, Stored
<1>1. CASE ReadClock(s)
  BY <1>1, ReadClockEffect, QuietMove DEF ReadClock
<1>2. CASE BoxCheck(s)
  BY <1>2, BoxCheckEffect, QuietMove DEF BoxCheck
<1>3. CASE BoxMark(s)
  BY <1>3, BoxMarkEffect, QuietMove DEF BoxMark
<1>4. CASE Credit(s)
  BY <1>4, CreditEffect, QuietMove DEF Credit
<1>5. CASE Count(s)
  BY <1>5, CountEffect, QuietMove DEF Count
<1>6. CASE CloseRead(s)
  BY <1>6, CloseReadEffect, QuietMove DEF CloseRead
<1>7. CASE CloseWrite(s)
  BY <1>7, CloseWriteEffect, QuietMove DEF CloseWrite
<1> QED BY <1>1, <1>2, <1>3, <1>4, <1>5, <1>6, <1>7 DEF SubStep

LEMMA QuietStart ==
  ASSUME Typed, NEW s \in Subs, sub[s].pc = "idle", NEW step \in {"sent", "check"}, NEW p, NEW i,
         Starts(s, step, p, i), UNCHANGED <<answers, overlap>>
  PROVE  ListsQuiet
BY DEF ListsQuiet, Starts, Stored

LEMMA QuietOther ==
  ASSUME Typed, UserStep \/ (\E c \in Ctls : CtlStep(c)) \/ UNCHANGED vars
  PROVE  ListsQuiet
<1> USE DEF redis, clients, history
<1>1. ASSUME NEW s \in Subs, NEW p \in Phones, Submit(s, p) PROVE ListsQuiet
  BY <1>1, SubmitEffect, QuietStart DEF Submit
<1>2. ASSUME NEW s \in Subs, NEW p \in Boxes, Press(s, p) PROVE ListsQuiet
  BY <1>2, PressEffect, QuietStart DEF Press
<1>3. ASSUME UNCHANGED <<answers, overlap, sub>> PROVE ListsQuiet
  BY <1>3 DEF ListsQuiet, Stored
<1>4. ASSUME NEW c \in Ctls, CtlStep(c) PROVE UNCHANGED <<answers, overlap, sub>>
  BY <1>4 DEF CtlStep, ReadGame, WriteGame, SetClock, EmitQuestion, EmitResults
<1>5. ASSUME UNCHANGED vars PROVE UNCHANGED <<answers, overlap, sub>>
  BY <1>5 DEF vars
<1>6. ASSUME \/ \E p \in Boxes : PressRaises(p)
             \/ \E c \in Ctls : ClickNext(c) \/ ClickResults(c) \/ ClickLater(c)
             \/ \E c \in Ctls, n \in LiveNumbers : CallLive(c, n)
      PROVE  UNCHANGED <<answers, overlap, sub>>
  BY <1>6 DEF PressRaises, ClickNext, ClickResults, ClickLater, CallLive
<1> QED BY <1>1, <1>2, <1>3, <1>4, <1>5, <1>6 DEF UserStep

LEMMA ListSteps ==
  ASSUME Typed, [Next]_vars
  PROVE  ListsQuiet \/ \E s \in Subs : ReadAnswers(s) \/ SetAnswer(s)
BY QuietSub, QuietOther DEF Next

(***************************************************************************)
(* The lists.                                                              *)
(***************************************************************************)
LEMMA ListsInit == Init => ListsInv
BY DEF Init, ListsInv, ListsHoldScoredAnswers, CopiesHoldStored, IdleSub

LEMMA ListsStep ==
  ASSUME Typed, ListsInv, [Next]_vars
  PROVE  ListsInv'
<1> USE DEF ListsInv, ListsHoldScoredAnswers, CopiesHoldStored
<1>0. answers \in [Questions -> SUBSET Subs] /\ \A s \in Subs : sub[s].list \in SUBSET Subs
  BY SubFacts DEF Typed, TypeOK
<1>1. CASE ListsQuiet
  BY <1>0, <1>1 DEF ListsQuiet
<1>2. ASSUME NEW s \in Subs, ReadAnswers(s) PROVE ListsInv'
  <2>1. answers' = answers /\ sub[s].pc = "read" /\ sub[s].q \in Questions
    BY <1>2, SubFacts DEF ReadAnswers, redis
  <2>2. Moves(s, "append", answers[sub[s].q], sub[s].blob)
    BY <1>2, ReadAnswersEffect
  <2>3. \A r \in Stored : r \in Stored' /\ sub'[r] = sub[r]
    BY <2>1, <2>2 DEF Moves, Stored
  <2>4. ListsHoldScoredAnswers'
    BY <2>1, <2>3
  <2>5. CopiesHoldStored'
    BY <1>0, <2>1, <2>2, <2>3 DEF Moves
  <2> QED BY <2>4, <2>5
<1>3. ASSUME NEW s \in Subs, SetAnswer(s) PROVE ListsInv'
  <2>1. /\ answers' = [answers EXCEPT ![sub[s].q] = sub[s].list \cup {s}]
        /\ sub[s].pc = "append" /\ sub[s].q \in Questions /\ sub[s].who \in Players
    BY <1>3, SubFacts DEF SetAnswer, StoreAs
  <2>2. Moves(s, "count", sub[s].list \cup {s}, sub[s].blob)
    BY <1>3, SetAnswerEffect
  <2>3. /\ s \in Stored' /\ sub'[s].q = sub[s].q /\ sub'[s].who \in Players
        /\ \A r \in Stored : r \in Stored' /\ sub'[r] = sub[r]
    BY <2>1, <2>2 DEF Moves, Stored
  <2>4. \A r \in Stored : sub[r].who \in Players
    BY SubFacts DEF Stored
  <2>5. ListsHoldScoredAnswers'
    BY <1>0, <2>1, <2>3, <2>4
  <2>6. CopiesHoldStored'
    BY <1>0, <2>1, <2>2, <2>3 DEF Moves
  <2> QED BY <2>5, <2>6
<1> QED BY <1>1, <1>2, <1>3, ListSteps

\* The list of a question holds only answers to that question whose points have
\* been added to a player's score: set_answer writes a list read before an
\* await, and still never brings in anything else.
THEOREM ListsAreScored == Spec => []ListsHoldScoredAnswers
<1>1. Init => Typed /\ ListsInv
  BY TypedInit, ListsInit
<1>2. Typed /\ ListsInv /\ [Next]_vars => (Typed /\ ListsInv)'
  BY TypedStep, ListsStep
<1>3. ListsInv => ListsHoldScoredAnswers
  BY DEF ListsInv
<1> QED BY <1>1, <1>2, <1>3, PTL DEF Spec

(***************************************************************************)
(* Lost answers.                                                           *)
(***************************************************************************)
LEMMA LostInit == Init => LostInv /\ AnsweredStaysAnswered
BY DEF Init, LostInv, LostOnlyByOverlap, AppendsAlone, CopiesCurrent, AnsweredStaysAnswered,
       Stored, IdleSub

LEMMA LostStep ==
  ASSUME Typed, LostInv, [Next]_vars
  PROVE  LostInv'
<1> USE DEF LostInv, LostOnlyByOverlap, AppendsAlone, CopiesCurrent
<1>0. answers \in [Questions -> SUBSET Subs] /\ \A s \in Stored : s \in Subs /\ sub[s].q \in Questions
  BY SubFacts DEF Typed, TypeOK, Stored
<1>1. CASE ListsQuiet
  <2>1. \A s \in Stored' : s \in Stored /\ sub'[s].q = sub[s].q
    BY <1>1 DEF ListsQuiet, Stored
  <2> QED BY <1>1, <2>1 DEF ListsQuiet
<1>2. ASSUME NEW s \in Subs, ReadAnswers(s) PROVE LostInv'
  <2>1. /\ answers' = answers /\ overlap \subseteq overlap'
        /\ Appending(sub[s].q) # {} => sub[s].q \in overlap'
        /\ sub[s].pc = "read" /\ sub[s].q \in Questions
    BY <1>2, SubFacts DEF ReadAnswers, redis
  <2>2. Moves(s, "append", answers[sub[s].q], sub[s].blob)
    BY <1>2, ReadAnswersEffect
  <2>3. LostOnlyByOverlap'
    BY <2>1, <2>2 DEF Moves, Stored
  <2>4. AppendsAlone'
    BY <2>1, <2>2 DEF Moves, Appending
  <2>5. CopiesCurrent'
    BY <2>1, <2>2 DEF Moves
  <2> QED BY <2>3, <2>4, <2>5
<1>3. ASSUME NEW s \in Subs, SetAnswer(s) PROVE LostInv'
  <2> DEFINE i == sub[s].q
  <2>1. /\ answers' = [answers EXCEPT ![i] = sub[s].list \cup {s}] /\ overlap' = overlap
        /\ sub[s].pc = "append" /\ i \in Questions
    BY <1>3, SubFacts DEF SetAnswer, StoreAs, history
  <2>2. Moves(s, "count", sub[s].list \cup {s}, sub[s].blob)
    BY <1>3, SetAnswerEffect
  <2>3. ASSUME NEW r \in Stored', sub'[r].q \notin overlap' PROVE r \in answers'[sub'[r].q]
    <3>1. CASE r = s
      BY <1>0, <2>1, <2>2, <3>1 DEF Moves
    <3>2. CASE r # s
      <4>1. r \in Stored /\ sub'[r] = sub[r]
        BY <2>2, <3>2 DEF Moves, Stored
      <4>2. r \in answers[sub[r].q] /\ sub[r].q \in Questions
        BY <1>0, <2>1, <2>3, <4>1
      <4>3. CASE sub[r].q = i
        BY <1>0, <2>1, <2>3, <4>1, <4>2, <4>3
      <4>4. CASE sub[r].q # i
        BY <1>0, <2>1, <4>1, <4>2, <4>4
      <4> QED BY <4>3, <4>4
    <3> QED BY <3>1, <3>2
  <2>4. AppendsAlone'
    BY <2>1, <2>2 DEF Moves
  <2>5. ASSUME NEW r \in Subs, sub'[r].pc = "append", sub'[r].q \notin overlap'
        PROVE  sub'[r].list = answers'[sub'[r].q]
    <3>1. r # s /\ sub'[r] = sub[r]
      BY <2>2, <2>5 DEF Moves
    <3>2. sub[r].q # i
      BY <2>1, <2>5, <3>1
    <3> QED BY <1>0, <2>1, <2>5, <3>1, <3>2
  <2> QED BY <2>3, <2>4, <2>5
<1> QED BY <1>1, <1>2, <1>3, ListSteps

\* An answer that was stored is in the list of its question unless the windows
\* between reading and writing that list overlapped for two answers.
THEOREM OnlyOverlapLoses == Spec => []LostOnlyByOverlap
<1>1. Init => Typed /\ LostInv
  BY TypedInit, LostInit
<1>2. Typed /\ LostInv /\ [Next]_vars => (Typed /\ LostInv)'
  BY TypedStep, LostStep
<1>3. LostInv => LostOnlyByOverlap
  BY DEF LostInv
<1> QED BY <1>1, <1>2, <1>3, PTL DEF Spec

LEMMA AnsweredStep ==
  ASSUME Typed, AnsweredStaysAnswered, [Next]_vars
  PROVE  AnsweredStaysAnswered'
<1> USE DEF AnsweredStaysAnswered
<1>0. answers \in [Questions -> SUBSET Subs] /\ \A s \in Stored : s \in Subs /\ sub[s].q \in Questions
  BY SubFacts DEF Typed, TypeOK, Stored
<1>1. CASE ListsQuiet
  <2>1. \A s \in Stored' : s \in Stored /\ sub'[s].q = sub[s].q
    BY <1>1 DEF ListsQuiet, Stored
  <2> QED BY <1>1, <2>1 DEF ListsQuiet
<1>2. ASSUME NEW s \in Subs, ReadAnswers(s) PROVE AnsweredStaysAnswered'
  <2>1. answers' = answers
    BY <1>2 DEF ReadAnswers, redis
  <2>2. Moves(s, "append", answers[sub[s].q], sub[s].blob)
    BY <1>2, ReadAnswersEffect
  <2> QED BY <2>1, <2>2 DEF Moves, Stored
<1>3. ASSUME NEW s \in Subs, SetAnswer(s) PROVE AnsweredStaysAnswered'
  <2>1. answers' = [answers EXCEPT ![sub[s].q] = sub[s].list \cup {s}] /\ sub[s].q \in Questions
    BY <1>3, SubFacts DEF SetAnswer, StoreAs
  <2>2. Moves(s, "count", sub[s].list \cup {s}, sub[s].blob)
    BY <1>3, SetAnswerEffect
  <2>3. \A r \in Stored' : sub'[r].q = sub[r].q /\ (r # s => r \in Stored)
    BY <2>2 DEF Moves, Stored
  <2> QED BY <1>0, <2>1, <2>3
<1> QED BY <1>1, <1>2, <1>3, ListSteps

\* Answers may be lost, but a question somebody has answered is never stored as
\* unanswered again.
THEOREM NeverUnanswered == Spec => []AnsweredStaysAnswered
<1>1. Init => Typed /\ AnsweredStaysAnswered
  BY TypedInit, LostInit
<1>2. Typed /\ AnsweredStaysAnswered /\ [Next]_vars => (Typed /\ AnsweredStaysAnswered)'
  BY TypedStep, AnsweredStep
<1> QED BY <1>1, <1>2, PTL DEF Spec

(***************************************************************************)
(* The game key.                                                           *)
(***************************************************************************)
\* Steps after which the same runs hold the same copies and the key is the same.
BlobQuiet ==
  /\ UNCHANGED <<game, asked, blobRace>>
  /\ \A s \in Subs : SubHolds(s)' => SubHolds(s) /\ sub'[s].blob = sub[s].blob
  /\ \A c \in Ctls : CtlHolds(c)' => CtlHolds(c) /\ ctl'[c] = ctl[c]

LEMMA BlobQuietSub ==
  ASSUME Typed, NEW s \in Subs, SubStep(s), ~CloseRead(s), ~CloseWrite(s)
  PROVE  BlobQuiet
<1> USE DEF redis, clients, history
<1>1. ASSUME NEW step, NEW l, NEW b, Moves(s, step, l, b), step # "writegame",
             UNCHANGED <<game, asked, blobRace, ctl>>
      PROVE  BlobQuiet
  BY <1>1 DEF Moves, BlobQuiet, SubHolds, CtlHolds
<1>2. CASE ReadClock(s)
  BY <1>1, <1>2, ReadClockEffect DEF ReadClock
<1>3. CASE BoxCheck(s)
  BY <1>1, <1>3, BoxCheckEffect DEF BoxCheck
<1>4. CASE BoxMark(s)
  BY <1>1, <1>4, BoxMarkEffect DEF BoxMark
<1>5. CASE Credit(s)
  BY <1>1, <1>5, CreditEffect DEF Credit
<1>6. CASE ReadAnswers(s)
  BY <1>1, <1>6, ReadAnswersEffect DEF ReadAnswers
<1>7. CASE SetAnswer(s)
  BY <1>1, <1>7, SetAnswerEffect DEF SetAnswer, StoreAs
<1>8. CASE Count(s)
  BY <1>1, <1>8, CountEffect DEF Count
<1> QED BY <1>2, <1>3, <1>4, <1>5, <1>6, <1>7, <1>8 DEF SubStep

LEMMA BlobQuietOther ==
  ASSUME Typed,
         UserStep \/ UNCHANGED vars
           \/ (\E c \in Ctls : CtlStep(c) /\ ~ReadGame(c) /\ ~WriteGame(c))
  PROVE  BlobQuiet
<1> USE DEF redis, clients, history
<1>1. ASSUME NEW s \in Subs, NEW step, NEW p, NEW i, Starts(s, step, p, i), step # "writegame",
             UNCHANGED <<game, asked, blobRace, ctl>>
      PROVE  BlobQuiet
  BY <1>1 DEF Starts, BlobQuiet, SubHolds, CtlHolds
<1>2. ASSUME NEW c \in Ctls, NEW step, NEW kind, NEW n, NEW b, Goes(c, step, kind, n, b),
             step # "write", UNCHANGED <<game, asked, blobRace, sub>>
      PROVE  BlobQuiet
  BY <1>2 DEF Goes, BlobQuiet, SubHolds, CtlHolds
<1>3. ASSUME UNCHANGED <<game, asked, blobRace, sub, ctl>> PROVE BlobQuiet
  BY <1>3 DEF BlobQuiet, SubHolds, CtlHolds
<1>4. ASSUME NEW s \in Subs, NEW p \in Phones, Submit(s, p) PROVE BlobQuiet
  BY <1>1, <1>4, SubmitEffect DEF Submit
<1>5. ASSUME NEW s \in Subs, NEW p \in Boxes, Press(s, p) PROVE BlobQuiet
  BY <1>1, <1>5, PressEffect DEF Press
<1>6. ASSUME NEW p \in Boxes, PressRaises(p) PROVE BlobQuiet
  BY <1>3, <1>6 DEF PressRaises
<1>7. ASSUME NEW c \in Ctls, ClickNext(c) PROVE BlobQuiet
  BY <1>2, <1>7, ClickNextEffect DEF ClickNext
<1>8. ASSUME NEW c \in Ctls, ClickResults(c) PROVE BlobQuiet
  BY <1>2, <1>8, ClickResultsEffect DEF ClickResults
<1>9. ASSUME NEW c \in Ctls, ClickLater(c) PROVE BlobQuiet
  BY <1>2, <1>9, ClickLaterEffect DEF ClickLater
<1>10. ASSUME NEW c \in Ctls, NEW n \in LiveNumbers, CallLive(c, n) PROVE BlobQuiet
  BY <1>2, <1>10, CallLiveEffect DEF CallLive
<1>11. ASSUME NEW c \in Ctls, SetClock(c) PROVE BlobQuiet
  BY <1>2, <1>11, SetClockEffect DEF SetClock
<1>12. ASSUME NEW c \in Ctls, EmitQuestion(c) \/ EmitResults(c) PROVE BlobQuiet
  BY <1>2, <1>12, EndEffect DEF EmitQuestion, EmitResults
<1>13. ASSUME UNCHANGED vars PROVE BlobQuiet
  BY <1>3, <1>13 DEF vars
<1> QED BY <1>4, <1>5, <1>6, <1>7, <1>8, <1>9, <1>10, <1>11, <1>12, <1>13 DEF UserStep, CtlStep

LEMMA BlobInit == Init => BlobInv
BY DEF Init, BlobInv, HeldAlone, CopiesFollow, SubHolds, CtlHolds, IdleSub, IdleCtl, NoBlob

LEMMA BlobStep ==
  ASSUME Typed, BlobInv, [Next]_vars
  PROVE  BlobInv'
<1> USE DEF redis, clients, history
<1>1. CASE BlobQuiet
  <2> USE DEF BlobQuiet
  <2> SUFFICES ASSUME ~blobRace PROVE game.current = asked /\ HeldAlone' /\ CopiesFollow'
    BY <1>1 DEF BlobInv
  <2>1. game.current = asked /\ HeldAlone /\ CopiesFollow
    BY DEF BlobInv
  <2>2. HeldAlone'
    BY <1>1, <2>1 DEF HeldAlone
  <2>3. CopiesFollow'
    BY <1>1, <2>1 DEF CopiesFollow
  <2> QED BY <2>1, <2>2, <2>3
<1>2. ASSUME NEW s \in Subs, CloseRead(s) PROVE BlobInv'
  <2>1. Moves(s, "writegame", sub[s].list, [game EXCEPT !.show = FALSE])
    BY <1>2, CloseReadEffect
  <2>2. [game EXCEPT !.show = FALSE].current = game.current
    BY DEF Typed, TypeOK, Blob
  <2>3. game' = game /\ asked' = asked /\ ctl' = ctl /\ blobRace' = (blobRace \/ BlobHeld)
    BY <1>2 DEF CloseRead, NoteBlobRead
  <2> SUFFICES ASSUME ~blobRace, ~BlobHeld PROVE game.current = asked /\ HeldAlone' /\ CopiesFollow'
    BY <2>3 DEF BlobInv
  <2>4. game.current = asked
    BY DEF BlobInv
  <2>5. /\ \A r \in Subs : SubHolds(r)' => r = s
        /\ \A c \in Ctls : ~CtlHolds(c)'
    BY <2>1, <2>3 DEF Moves, SubHolds, CtlHolds, BlobHeld
  <2>6. sub'[s].blob.current = asked
    BY <2>1, <2>2, <2>4 DEF Moves
  <2> QED BY <2>3, <2>4, <2>5, <2>6 DEF HeldAlone, CopiesFollow
<1>3. ASSUME NEW s \in Subs, CloseWrite(s) PROVE BlobInv'
  <2>1. Moves(s, "done", sub[s].list, NoBlob)
    BY <1>3, CloseWriteEffect
  <2>2. SubHolds(s) /\ game' = sub[s].blob /\ asked' = asked /\ ctl' = ctl /\ blobRace' = blobRace
    BY <1>3 DEF CloseWrite, SubHolds
  <2> SUFFICES ASSUME ~blobRace PROVE game'.current = asked /\ HeldAlone' /\ CopiesFollow'
    BY <2>2 DEF BlobInv
  <2>3. HeldAlone /\ CopiesFollow
    BY DEF BlobInv
  <2>4. /\ \A r \in Subs : ~SubHolds(r)'
        /\ \A c \in Ctls : ~CtlHolds(c)'
    BY <2>1, <2>2, <2>3 DEF Moves, SubHolds, CtlHolds, HeldAlone
  <2>5. game'.current = asked
    BY <2>2, <2>3 DEF CopiesFollow
  <2> QED BY <2>4, <2>5 DEF HeldAlone, CopiesFollow
<1>4. ASSUME NEW c \in Ctls, ReadGame(c) PROVE BlobInv'
  <2>1. Goes(c, "write", ctl[c].kind, ctl[c].q, Modified(c))
    BY <1>4, ReadGameEffect
  <2>2. Modified(c).current = IF ctl[c].kind = "results" THEN game.current ELSE ctl[c].q
    BY <1>4, ModifiedBlob DEF ReadGame
  <2>3. game' = game /\ asked' = asked /\ sub' = sub /\ blobRace' = (blobRace \/ BlobHeld)
    BY <1>4 DEF ReadGame, NoteBlobRead
  <2> SUFFICES ASSUME ~blobRace, ~BlobHeld PROVE game.current = asked /\ HeldAlone' /\ CopiesFollow'
    BY <2>3 DEF BlobInv
  <2>4. game.current = asked
    BY DEF BlobInv
  <2>5. /\ \A s \in Subs : ~SubHolds(s)'
        /\ \A d \in Ctls : CtlHolds(d)' => d = c
    BY <2>1, <2>3 DEF Goes, SubHolds, CtlHolds, BlobHeld
  <2>6. ctl'[c].blob.current = IF ctl'[c].kind = "results" THEN asked ELSE ctl'[c].q
    BY <2>1, <2>2, <2>4 DEF Goes
  <2> QED BY <2>3, <2>4, <2>5, <2>6 DEF HeldAlone, CopiesFollow
<1>5. ASSUME NEW c \in Ctls, WriteGame(c) PROVE BlobInv'
  <2>1. PICK step \in {"idle", "clock", "emit"}, kind \in {"set", "results", "live"}, n \in Numbers :
             Goes(c, step, kind, n, NoBlob)
    BY <1>5, WriteGameEffect
  <2>2. /\ CtlHolds(c) /\ game' = ctl[c].blob /\ sub' = sub /\ blobRace' = blobRace
        /\ asked' = IF ctl[c].kind = "results" THEN asked ELSE ctl[c].q
    BY <1>5 DEF WriteGame, CtlHolds
  <2> SUFFICES ASSUME ~blobRace PROVE game'.current = asked' /\ HeldAlone' /\ CopiesFollow'
    BY <2>2 DEF BlobInv
  <2>3. HeldAlone /\ CopiesFollow
    BY DEF BlobInv
  <2>4. /\ \A s \in Subs : ~SubHolds(s)'
        /\ \A d \in Ctls : ~CtlHolds(d)'
    BY <2>1, <2>2, <2>3 DEF Goes, SubHolds, CtlHolds, HeldAlone
  <2>5. game'.current = asked'
    BY <2>2, <2>3 DEF CopiesFollow
  <2> QED BY <2>4, <2>5 DEF HeldAlone, CopiesFollow
<1> QED BY <1>1, <1>2, <1>3, <1>4, <1>5, BlobQuietSub, BlobQuietOther DEF Next, CtlStep

\* current_question is what was asked for last as long as no two handlers held
\* copies of the game key at once: neither the results nor the closing of a
\* question by its last answer brings an older number back.
THEOREM HostIsFollowed == Spec => []BlobFollowsHost
<1>1. Init => Typed /\ BlobInv
  BY TypedInit, BlobInit
<1>2. Typed /\ BlobInv /\ [Next]_vars => (Typed /\ BlobInv)'
  BY TypedStep, BlobStep
<1>3. BlobInv => BlobFollowsHost
  BY DEF BlobInv, BlobFollowsHost
<1> QED BY <1>1, <1>2, <1>3, PTL DEF Spec

(***************************************************************************)
(* The runs of the controllers' buttons.                                   *)
(***************************************************************************)
\* What a step is to the controllers' runs.
BoxQuiet == UNCHANGED <<sub, given>>
BoxStart(s) ==
  /\ sub[s].pc = "idle" /\ given' = given
  /\ \E p, i :
       \/ p \in Phones /\ Starts(s, "sent", p, i)
       \/ p \in Boxes /\ ~BoxBusy(p) /\ Starts(s, "check", p, i)
BoxGo(s) ==
  /\ given' = given
  /\ \E step, l, b :
       /\ Moves(s, step, l, b)
       /\ \/ Running(s) /\ step = "failed"
          \/ sub[s].pc = "sent" /\ step = "credit"
          \/ sub[s].pc \in PastMark \ {"done"} /\ step \in PastMark
          \/ sub[s].pc = "check" /\ step = "mark" /\ <<sub[s].who, sub[s].q>> \notin given
BoxMarks(s) ==
  /\ sub[s].pc = "mark" /\ given' = given \cup {<<sub[s].who, sub[s].q>>}
  /\ \E l, b : Moves(s, "credit", l, b)

LEMMA BoxSubSteps ==
  ASSUME Typed, NEW s \in Subs, SubStep(s)
  PROVE  BoxGo(s) \/ BoxMarks(s)
<1> USE DEF redis, clients, history, PastMark, Running
<1>1. CASE ReadClock(s)
  BY <1>1, ReadClockEffect DEF ReadClock, BoxGo
<1>2. CASE BoxCheck(s)
  <2>1. sub[s].pc = "check" /\ given' = given
    BY <1>2 DEF BoxCheck
  <2>2. PICK step \in {"failed", "mark"} : Moves(s, step, sub[s].list, sub[s].blob)
    BY <1>2, BoxCheckEffect
  <2>3. CASE <<sub[s].who, sub[s].q>> \notin given
    BY <2>1, <2>2, <2>3 DEF BoxGo
  <2>4. CASE <<sub[s].who, sub[s].q>> \in given
    <3>1. Goto(s, "failed")
      BY <1>2, <2>4 DEF BoxCheck
    <3>2. Moves(s, "failed", sub[s].list, sub[s].blob)
      BY <2>1, <3>1, GotoMoves DEF SubSteps
    <3> QED BY <2>1, <3>2 DEF BoxGo
  <2> QED BY <2>3, <2>4
<1>3. CASE BoxMark(s)
  BY <1>3, BoxMarkEffect DEF BoxMark, BoxMarks
<1>4. CASE Credit(s)
  BY <1>4, CreditEffect DEF Credit, BoxGo
<1>5. CASE ReadAnswers(s)
  BY <1>5, ReadAnswersEffect DEF ReadAnswers, BoxGo
<1>6. CASE SetAnswer(s)
  BY <1>6, SetAnswerEffect DEF SetAnswer, StoreAs, BoxGo
<1>7. CASE Count(s)
  BY <1>7, CountEffect DEF Count, BoxGo
<1>8. CASE CloseRead(s)
  BY <1>8, CloseReadEffect DEF CloseRead, BoxGo
<1>9. CASE CloseWrite(s)
  BY <1>9, CloseWriteEffect DEF CloseWrite, BoxGo
<1> QED BY <1>1, <1>2, <1>3, <1>4, <1>5, <1>6, <1>7, <1>8, <1>9 DEF SubStep

LEMMA BoxSteps ==
  ASSUME Typed, [Next]_vars
  PROVE  BoxQuiet \/ \E s \in Subs : BoxStart(s) \/ BoxGo(s) \/ BoxMarks(s)
<1> USE DEF redis, clients, history
<1>1. ASSUME NEW s \in Subs, NEW p \in Phones, Submit(s, p) PROVE BoxStart(s)
  BY <1>1, SubmitEffect DEF Submit, BoxStart
<1>2. ASSUME NEW s \in Subs, NEW p \in Boxes, Press(s, p) PROVE BoxStart(s)
  BY <1>2, PressEffect DEF Press, BoxStart
<1>3. ASSUME NEW c \in Ctls, CtlStep(c) PROVE BoxQuiet
  BY <1>3 DEF CtlStep, ReadGame, WriteGame, SetClock, EmitQuestion, EmitResults, BoxQuiet
<1>4. ASSUME UNCHANGED vars PROVE BoxQuiet
  BY <1>4 DEF vars, BoxQuiet
<1>5. ASSUME \/ \E p \in Boxes : PressRaises(p)
             \/ \E c \in Ctls : ClickNext(c) \/ ClickResults(c) \/ ClickLater(c)
             \/ \E c \in Ctls, n \in LiveNumbers : CallLive(c, n)
      PROVE  BoxQuiet
  BY <1>5 DEF PressRaises, ClickNext, ClickResults, ClickLater, CallLive, BoxQuiet
<1> QED BY <1>1, <1>2, <1>3, <1>4, <1>5, BoxSubSteps DEF UserStep, Next

LEMMA BoxInit == Init => BoxInv
BY DEF Init, BoxInv, SentByPhones, OneButton, MarksTold, MarkedOnce, IdleSub, Running, PastMark

LEMMA BoxStep ==
  ASSUME Typed, BoxInv, [Next]_vars
  PROVE  BoxInv'
<1> USE DEF BoxInv, BoxRun, Running, PastMark
<1>0. Phones \cap Boxes = {}
  BY PlayerAssumption
<1>1. CASE BoxQuiet
  BY <1>1 DEF BoxQuiet, SentByPhones, OneButton, MarksTold, MarkedOnce
<1>2. ASSUME NEW s \in Subs, BoxStart(s) PROVE BoxInv'
  <2>1. /\ sub[s].pc = "idle" /\ given' = given
        /\ \A r \in Subs \ {s} : sub'[r] = sub[r]
        /\ sub'[s].pc \in {"sent", "check"}
        /\ sub'[s].pc = "sent" => sub'[s].who \in Phones
        /\ sub'[s].pc = "check" => ~BoxBusy(sub'[s].who)
    BY <1>2 DEF BoxStart, Starts
  <2>2. SentByPhones' /\ MarksTold' /\ MarkedOnce'
    BY <2>1 DEF SentByPhones, MarksTold, MarkedOnce
  <2>3. OneButton'
    BY <1>0, <2>1 DEF OneButton, BoxBusy
  <2> QED BY <2>2, <2>3
<1>3. ASSUME NEW s \in Subs, BoxGo(s) PROVE BoxInv'
  <2>1. /\ given' = given /\ \A r \in Subs \ {s} : sub'[r] = sub[r]
        /\ sub'[s].who = sub[s].who /\ sub'[s].q = sub[s].q
        /\ Running(s) /\ sub'[s].pc # "sent"
    BY <1>3 DEF BoxGo, Moves
  <2>2. sub'[s].pc \in PastMark => sub[s].pc \in PastMark \/ sub[s].pc = "sent"
    BY <1>3 DEF BoxGo, Moves
  <2>3. sub'[s].pc = "mark" => <<sub[s].who, sub[s].q>> \notin given
    BY <1>3 DEF BoxGo, Moves
  <2>4. BoxRun(s) => sub[s].pc # "sent"
    BY <1>0 DEF SentByPhones
  <2>5. SentByPhones'
    BY <2>1 DEF SentByPhones
  <2>6. OneButton'
    BY <2>1 DEF OneButton
  <2>7. MarksTold'
    BY <2>1, <2>2, <2>3, <2>4 DEF MarksTold
  <2>8. MarkedOnce'
    BY <2>1, <2>2, <2>4 DEF MarkedOnce
  <2> QED BY <2>5, <2>6, <2>7, <2>8
<1>4. ASSUME NEW s \in Subs, BoxMarks(s) PROVE BoxInv'
  <2>1. /\ given' = given \cup {<<sub[s].who, sub[s].q>>}
        /\ \A r \in Subs \ {s} : sub'[r] = sub[r]
        /\ sub'[s].who = sub[s].who /\ sub'[s].q = sub[s].q
        /\ sub[s].pc = "mark" /\ sub'[s].pc = "credit"
    BY <1>4 DEF BoxMarks, Moves
  <2>2. sub[s].who \in Boxes
    BY <2>1, SubFacts
  <2>3. SentByPhones'
    BY <2>1 DEF SentByPhones
  <2>4. OneButton'
    BY <2>1 DEF OneButton
  <2>5. \A r \in Subs : sub[r].pc = "mark" /\ sub[r].who = sub[s].who => r = s
    BY <2>1, <2>2 DEF OneButton
  <2>6. MarksTold'
    BY <2>1, <2>5 DEF MarksTold
  <2>7. <<sub[s].who, sub[s].q>> \notin given
    BY <2>1 DEF MarksTold
  <2>8. \A r \in Subs : sub[r].who = sub[s].who /\ sub[r].q = sub[s].q => sub[r].pc \notin PastMark
    <3> SUFFICES ASSUME NEW r \in Subs, sub[r].who = sub[s].who, sub[r].q = sub[s].q,
                        sub[r].pc \in PastMark
                 PROVE  FALSE
      OBVIOUS
    <3>1. <<sub[r].who, sub[r].q>> \in given
      BY <2>2 DEF MarksTold
    <3> QED BY <2>7, <3>1
  <2>9. MarkedOnce'
    BY <2>1, <2>8 DEF MarkedOnce
  <2> QED BY <2>3, <2>4, <2>6, <2>9
<1> QED BY <1>1, <1>2, <1>3, <1>4, BoxSteps

\* A set whose members are all equal.
LEMMA AtMostOne ==
  ASSUME NEW S, \A x \in S : \A y \in S : x = y
  PROVE  Cardinality(S) <= 1
<1>1. CASE S = {}
  BY <1>1, FS_EmptySet
<1>2. CASE S # {}
  <2>1. PICK x : S = {x}
    BY <1>2
  <2> QED BY <2>1, FS_Singleton
<1> QED BY <1>1, <1>2

\* The buttons of a controller score once per question: answer_given is read
\* and set by two calls, and no second run of the same controller can pass
\* between them because the loop awaits each button.
THEOREM ButtonsScoreOnce == Spec => []BoxScoresOnce
<1>1. Init => Typed /\ BoxInv
  BY TypedInit, BoxInit
<1>2. Typed /\ BoxInv /\ [Next]_vars => (Typed /\ BoxInv)'
  BY TypedStep, BoxStep
<1>3. BoxInv => BoxScoresOnce
  <2> SUFFICES ASSUME BoxInv, NEW p \in Boxes, NEW i \in Questions
               PROVE  Cardinality(By(p, i) \cap Credited) <= 1
    BY DEF BoxScoresOnce
  <2>1. \A s \in By(p, i) \cap Credited : \A r \in By(p, i) \cap Credited : s = r
    BY DEF By, Credited, Stored, BoxInv, MarkedOnce, BoxRun, PastMark
  <2> QED BY <2>1, AtMostOne
<1> QED BY <1>1, <1>2, <1>3, PTL DEF Spec

(***************************************************************************)
(* The last answer.                                                        *)
(***************************************************************************)
LEMMA FewStep ==
  ASSUME Typed, FewStarted, [Next]_vars
  PROVE  FewStarted'
<1>1. CASE BoxQuiet
  <2>1. Started' = Started /\ sub' = sub
    BY <1>1 DEF BoxQuiet, Started
  <2> QED BY <2>1 DEF FewStarted
<1>2. ASSUME NEW s \in Subs, BoxStart(s) \/ BoxGo(s) \/ BoxMarks(s) PROVE FewStarted'
  <2>1. sub'[s].pc # "idle" /\ \A r \in Subs \ {s} : sub'[r] = sub[r]
    BY <1>2 DEF BoxStart, Starts, BoxGo, BoxMarks, Moves, PastMark
  <2>2. Started' = Started \cup {s}
    BY <2>1 DEF Started
  <2>3. IsFiniteSet(Started \cup {s})
    BY FS_AddElement DEF FewStarted
  <2>4. \A r \in Subs \ (Started \cup {s}) : sub'[r].who = Nobody
    BY <2>1 DEF FewStarted, Started
  <2> QED BY <2>2, <2>3, <2>4 DEF FewStarted
<1> QED BY <1>1, <1>2, BoxSteps

\* Steps after which the same run is still the one that wrote the list.
LastQuiet ==
  /\ answers' = answers /\ announced \subseteq announced'
  /\ \A s \in Subs : sub[s].pc \in {"count", "readgame", "writegame", "done"} => sub'[s] = sub[s]

LEMMA LastQuietSub ==
  ASSUME Typed, NEW s \in Subs, SubStep(s),
         ~SetAnswer(s), ~Count(s), ~CloseRead(s), ~CloseWrite(s)
  PROVE  LastQuiet
<1> USE DEF redis, clients, history, LastQuiet, Moves
<1>1. CASE ReadClock(s)
  BY <1>1, ReadClockEffect DEF ReadClock
<1>2. CASE BoxCheck(s)
  BY <1>2, BoxCheckEffect DEF BoxCheck
<1>3. CASE BoxMark(s)
  BY <1>3, BoxMarkEffect DEF BoxMark
<1>4. CASE Credit(s)
  BY <1>4, CreditEffect DEF Credit
<1>5. CASE ReadAnswers(s)
  BY <1>5, ReadAnswersEffect DEF ReadAnswers
<1> QED BY <1>1, <1>2, <1>3, <1>4, <1>5 DEF SubStep

LEMMA LastQuietOther ==
  ASSUME Typed, UserStep \/ (\E c \in Ctls : CtlStep(c)) \/ UNCHANGED vars
  PROVE  LastQuiet
<1> USE DEF redis, clients, history, LastQuiet
<1>1. ASSUME NEW s \in Subs, NEW p \in Phones, Submit(s, p) PROVE LastQuiet
  BY <1>1, SubmitEffect DEF Submit, Starts
<1>2. ASSUME NEW s \in Subs, NEW p \in Boxes, Press(s, p) PROVE LastQuiet
  BY <1>2, PressEffect DEF Press, Starts
<1>3. ASSUME NEW c \in Ctls, CtlStep(c) PROVE LastQuiet
  BY <1>3 DEF CtlStep, ReadGame, WriteGame, SetClock, EmitQuestion, EmitResults
<1>4. ASSUME UNCHANGED vars PROVE LastQuiet
  BY <1>4 DEF vars
<1>5. ASSUME \/ \E p \in Boxes : PressRaises(p)
             \/ \E c \in Ctls : ClickNext(c) \/ ClickResults(c) \/ ClickLater(c)
             \/ \E c \in Ctls, n \in LiveNumbers : CallLive(c, n)
      PROVE  LastQuiet
  BY <1>5 DEF PressRaises, ClickNext, ClickResults, ClickLater, CallLive
<1> QED BY <1>1, <1>2, <1>3, <1>4, <1>5 DEF UserStep

LEMMA LastStep ==
  ASSUME Typed, LastCompares, [Next]_vars
  PROVE  LastCompares'
<1>1. CASE LastQuiet
  BY <1>1 DEF LastQuiet, LastCompares, WroteLast
<1>2. ASSUME NEW s \in Subs, SetAnswer(s) PROVE LastCompares'
  <2>1. sub[s].q \in Questions /\ answers \in [Questions -> SUBSET Subs]
    BY <1>2, SubFacts DEF SetAnswer, StoreAs, Typed, TypeOK
  <2>2. answers' = [answers EXCEPT ![sub[s].q] = sub[s].list \cup {s}] /\ sub[s].pc = "append"
        /\ announced' = announced
    BY <1>2 DEF SetAnswer, StoreAs, history
  <2>3. Moves(s, "count", sub[s].list \cup {s}, sub[s].blob)
    BY <1>2, SetAnswerEffect
  <2>4. WroteLast(s, sub[s].q)'
    BY <2>1, <2>2, <2>3 DEF WroteLast, Moves
  <2>5. \A i \in Questions \ {sub[s].q} : \A r \in Subs : WroteLast(r, i) => WroteLast(r, i)'
    BY <2>1, <2>2, <2>3 DEF WroteLast, Moves
  <2>6. \A i \in Questions \ {sub[s].q} : answers'[i] = answers[i]
    BY <2>1, <2>2
  <2> QED
    BY <2>3, <2>4, <2>5, <2>6 DEF LastCompares, Moves
<1>3. ASSUME NEW s \in Subs, Count(s) PROVE LastCompares'
  <2>1. answers' = answers /\ announced \subseteq announced' /\ sub[s].pc = "count"
    BY <1>3 DEF Count, redis
  <2>2. PICK step \in {"readgame", "done"} : Moves(s, step, {}, sub[s].blob)
    BY <1>3, CountEffect
  <2>3. IsLast(s) => sub'[s].pc = "readgame" \/ sub[s].q \in announced'
    <3>1. CASE IsLast(s) /\ sub[s].who \in Phones
      BY <1>3, <3>1, SubFacts DEF Count, Becomes, Typed, TypeOK, Sub
    <3>2. CASE IsLast(s) /\ sub[s].who \in Boxes
      BY <1>3, <3>2 DEF Count
    <3> QED BY <2>1, <3>1, <3>2, SubFacts DEF Players
  <2>4. \A i \in Questions : WroteLast(s, i) => WroteLast(s, i)'
    BY <2>1, <2>2, <2>3 DEF WroteLast, Moves, IsLast
  <2>5. \A i \in Questions : \A r \in Subs \ {s} : WroteLast(r, i) => WroteLast(r, i)'
    BY <2>1, <2>2 DEF WroteLast, Moves
  <2> QED BY <2>1, <2>4, <2>5 DEF LastCompares
<1>4. ASSUME NEW s \in Subs, CloseRead(s) PROVE LastCompares'
  <2>1. answers' = answers /\ announced' = announced /\ sub[s].pc = "readgame"
    BY <1>4 DEF CloseRead, redis
  <2>2. PICK b : Moves(s, "writegame", sub[s].list, b)
    BY <1>4, CloseReadEffect
  <2>3. \A i \in Questions : \A r \in Subs : WroteLast(r, i) => WroteLast(r, i)'
    BY <2>1, <2>2 DEF WroteLast, Moves
  <2> QED BY <2>1, <2>3 DEF LastCompares
<1>5. ASSUME NEW s \in Subs, CloseWrite(s) PROVE LastCompares'
  <2>1. answers' = answers /\ announced' = announced \cup {sub[s].q} /\ sub[s].pc = "writegame"
    BY <1>5 DEF CloseWrite
  <2>2. Moves(s, "done", sub[s].list, NoBlob)
    BY <1>5, CloseWriteEffect
  <2>3. \A i \in Questions : \A r \in Subs : WroteLast(r, i) => WroteLast(r, i)'
    BY <2>1, <2>2 DEF WroteLast, Moves
  <2> QED BY <2>1, <2>3 DEF LastCompares
<1> QED BY <1>1, <1>2, <1>3, <1>4, <1>5, LastQuietSub, LastQuietOther DEF Next

LEMMA LastInit == Init => LastCompares /\ FewStarted
<1> SUFFICES ASSUME Init PROVE LastCompares /\ FewStarted
  OBVIOUS
<1>1. Started = {} /\ \A s \in Subs : sub[s].who = Nobody
  BY DEF Init, Started, IdleSub
<1> QED BY <1>1, FS_EmptySet DEF Init, LastCompares, FewStarted

LEMMA AllListed ==
  ASSUME Typed, FewStarted, ListsHoldScoredAnswers, LostOnlyByOverlap,
         NEW i \in Questions \ overlap, AllOnce(i),
         \A p \in Players : \A s \in By(p, i) : sub[s].pc = "done"
  PROVE  /\ answers[i] # {}
         /\ Cardinality(answers[i]) = Cardinality(Players)
<1>1. \A p \in Players : \E s : By(p, i) = {s}
  <2> SUFFICES ASSUME NEW p \in Players PROVE \E s : By(p, i) = {s}
    OBVIOUS
  <2>1. By(p, i) \in SUBSET Started
    BY PlayerAssumption DEF By, FewStarted
  <2>2. IsFiniteSet(By(p, i))
    BY <2>1, FS_Subset DEF FewStarted
  <2> QED BY <2>2, FS_Singleton DEF AllOnce
<1>2. \A p \in Players : By(p, i) \subseteq answers[i]
  BY DEF LostOnlyByOverlap, Stored, By
<1>3. \A s \in answers[i] : s \in Subs /\ sub[s].who \in Players /\ s \in By(sub[s].who, i)
  BY DEF ListsHoldScoredAnswers, Stored, By
<1> DEFINE f == [s \in answers[i] |-> sub[s].who]
<1>4. f \in [answers[i] -> Players]
  BY <1>3
<1>5. \A s \in answers[i] : \A r \in answers[i] : f[s] = f[r] => s = r
  BY <1>1, <1>3
<1>6. \A p \in Players : \E s \in answers[i] : f[s] = p
  BY <1>1, <1>2 DEF By
<1> HIDE DEF f
<1>7. f \in Injection(answers[i], Players)
  BY <1>4, <1>5 DEF Injection, IsInjective
<1>8. f \in Surjection(answers[i], Players)
  BY <1>4, <1>6 DEF Surjection
<1>9. Cardinality(answers[i]) = Cardinality(Players)
  BY <1>7, <1>8, FS_Injection, PlayerAssumption
<1>10. answers[i] # {}
  BY <1>6 DEF AllOnce
<1> QED BY <1>9, <1>10

\* The host is told when the last answer is stored: whichever run wrote the
\* list as it stands compares it with the players before it ends, so that the
\* comparison that counts every answer cannot be missed.
THEOREM LastAnswerIsTold == Spec => []LastAnswerAnnounced
<1> DEFINE J == Typed /\ ListsInv /\ LostInv /\ LastCompares /\ FewStarted
<1>1. Init => J
  BY TypedInit, ListsInit, LostInit, LastInit
<1>2. J /\ [Next]_vars => J'
  BY TypedStep, ListsStep, LostStep, LastStep, FewStep
<1>3. J => LastAnswerAnnounced
  <2> SUFFICES ASSUME J, NEW i \in Questions \ overlap, AllOnce(i),
                      \A p \in Players : \A s \in By(p, i) : sub[s].pc = "done"
               PROVE  i \in announced
    BY DEF LastAnswerAnnounced
  <2>1. answers[i] # {} /\ Cardinality(answers[i]) = Cardinality(Players)
    BY AllListed DEF ListsInv, LostInv
  <2>2. PICK s \in Subs : WroteLast(s, i)
    BY <2>1 DEF LastCompares
  <2>3. s \in By(sub[s].who, i) /\ sub[s].who \in Players
    BY <2>2 DEF WroteLast, By, ListsInv, ListsHoldScoredAnswers
  <2>4. sub[s].pc = "done"
    BY <2>3
  <2> QED BY <2>1, <2>2, <2>4 DEF WroteLast
<1> HIDE DEF J
<1> QED BY <1>1, <1>2, <1>3, PTL DEF Spec

(***************************************************************************)
(* The scores.                                                             *)
(***************************************************************************)
\* What a step does to the runs that have scored.
SumsQuiet ==
  /\ scores' = scores /\ Credited' = Credited
  /\ \A s \in Credited : sub'[s].pts = sub[s].pts /\ sub'[s].who = sub[s].who
SumsGrow(s) ==
  /\ s \notin Credited /\ sub[s].who \in Players
  /\ scores' = [scores EXCEPT ![sub[s].who] = @ + sub[s].pts]
  /\ Credited' = Credited \cup {s}
  /\ \A r \in Credited \cup {s} : sub'[r].pts = sub[r].pts /\ sub'[r].who = sub[r].who

LEMMA PointsKept ==
  ASSUME Typed, NEW s \in Subs
  PROVE  /\ \A step : Goto(s, step) => sub'[s].pts = sub[s].pts
         /\ \A step, l : Becomes(s, [sub[s] EXCEPT !.pc = step, !.list = l]) => sub'[s].pts = sub[s].pts
         /\ \A step, b : Becomes(s, [sub[s] EXCEPT !.pc = step, !.blob = b]) => sub'[s].pts = sub[s].pts
<1>1. sub \in [Subs -> Sub] /\ sub[s] \in Sub
  BY SubFacts DEF Typed, TypeOK
<1> USE <1>1 DEF Becomes, Sub
<1>2. \A step : Goto(s, step) => sub'[s].pts = sub[s].pts
  BY DEF Goto
<1>3. \A step, l : Becomes(s, [sub[s] EXCEPT !.pc = step, !.list = l]) => sub'[s].pts = sub[s].pts
  OBVIOUS
<1>4. \A step, b : Becomes(s, [sub[s] EXCEPT !.pc = step, !.blob = b]) => sub'[s].pts = sub[s].pts
  OBVIOUS
<1> QED BY <1>2, <1>3, <1>4

LEMMA SumsMove ==
  ASSUME NEW s \in Subs, NEW step, NEW l, NEW b, Moves(s, step, l, b), scores' = scores,
         \/ s \notin Credited /\ step \in {"failed", "credit", "mark"}
         \/ /\ s \in Credited /\ sub'[s].pts = sub[s].pts
            /\ step \in {"read", "append", "count", "readgame", "writegame", "done"}
  PROVE  SumsQuiet
BY DEF SumsQuiet, Moves, Credited, Stored

LEMMA SumsSub ==
  ASSUME Typed, NEW s \in Subs, SubStep(s)
  PROVE  SumsQuiet \/ SumsGrow(s)
<1> USE DEF redis, Credited, Stored
<1>1. CASE ReadClock(s)
  BY <1>1, ReadClockEffect, SumsMove DEF ReadClock
<1>2. CASE BoxCheck(s)
  BY <1>2, BoxCheckEffect, SumsMove DEF BoxCheck
<1>3. CASE BoxMark(s)
  BY <1>3, BoxMarkEffect, SumsMove DEF BoxMark
<1>4. CASE Credit(s)
  <2>1. Moves(s, "read", sub[s].list, sub[s].blob) /\ sub[s].pc = "credit" /\ sub[s].who \in Players
    BY <1>4, CreditEffect, SubFacts DEF Credit
  <2>2. sub'[s].pts = sub[s].pts /\ scores' = [scores EXCEPT ![sub[s].who] = @ + sub[s].pts]
    BY <1>4, PointsKept DEF Credit
  <2> QED BY <2>1, <2>2 DEF SumsGrow, Moves
<1>5. CASE ReadAnswers(s)
  BY <1>5, ReadAnswersEffect, SumsMove, PointsKept DEF ReadAnswers
<1>6. CASE SetAnswer(s)
  BY <1>6, SetAnswerEffect, SumsMove, PointsKept DEF SetAnswer, StoreAs
<1>7. CASE Count(s)
  <2>1. sub[s].pc = "count" /\ scores' = scores
    BY <1>7 DEF Count
  <2>2. sub'[s].pts = sub[s].pts
    BY <1>7, PointsKept DEF Count
  <2> QED BY <1>7, <2>1, <2>2, CountEffect, SumsMove
<1>8. CASE CloseRead(s)
  BY <1>8, CloseReadEffect, SumsMove, PointsKept DEF CloseRead
<1>9. CASE CloseWrite(s)
  BY <1>9, CloseWriteEffect, SumsMove, PointsKept DEF CloseWrite
<1> QED BY <1>1, <1>2, <1>3, <1>4, <1>5, <1>6, <1>7, <1>8, <1>9 DEF SubStep

LEMMA SumsOther ==
  ASSUME Typed, UserStep \/ (\E c \in Ctls : CtlStep(c)) \/ UNCHANGED vars
  PROVE  SumsQuiet
<1> USE DEF redis, clients, history
<1>1. ASSUME NEW s \in Subs, NEW p \in Phones, Submit(s, p) PROVE SumsQuiet
  BY <1>1, SubmitEffect DEF Submit, Starts, SumsQuiet, Credited, Stored
<1>2. ASSUME NEW s \in Subs, NEW p \in Boxes, Press(s, p) PROVE SumsQuiet
  BY <1>2, PressEffect DEF Press, Starts, SumsQuiet, Credited, Stored
<1>3. ASSUME UNCHANGED <<sub, scores>> PROVE SumsQuiet
  BY <1>3 DEF SumsQuiet, Credited, Stored
<1>4. ASSUME NEW c \in Ctls, CtlStep(c) PROVE UNCHANGED <<sub, scores>>
  BY <1>4 DEF CtlStep, ReadGame, WriteGame, SetClock, EmitQuestion, EmitResults
<1>5. ASSUME UNCHANGED vars PROVE UNCHANGED <<sub, scores>>
  BY <1>5 DEF vars
<1>6. ASSUME \/ \E p \in Boxes : PressRaises(p)
             \/ \E c \in Ctls : ClickNext(c) \/ ClickResults(c) \/ ClickLater(c)
             \/ \E c \in Ctls, n \in LiveNumbers : CallLive(c, n)
      PROVE  UNCHANGED <<sub, scores>>
  BY <1>6 DEF PressRaises, ClickNext, ClickResults, ClickLater, CallLive
<1> QED BY <1>1, <1>2, <1>3, <1>4, <1>5, <1>6 DEF UserStep

LEMMA CreditedFacts ==
  ASSUME Typed, FewStarted, NEW S \in SUBSET Credited
  PROVE  /\ IsFiniteSet(S) /\ S \subseteq Subs
         /\ \A s \in S : [r \in Subs |-> sub[r].pts][s] = sub[s].pts /\ sub[s].pts \in Int
<1>1. Credited \in SUBSET Started
  BY DEF Credited, Stored, Started
<1>2. S \in SUBSET Started
  BY <1>1
<1>3. IsFiniteSet(S)
  BY <1>2, FS_Subset DEF FewStarted
<1> QED BY <1>2, <1>3, SubFacts, PointsAssumption DEF Started

LEMMA SumsStep ==
  ASSUME Typed, FewStarted, ScoresAreSums, [Next]_vars
  PROVE  ScoresAreSums'
<1> DEFINE w == [r \in Subs |-> sub[r].pts]
           v == [r \in Subs |-> sub'[r].pts]
<1>1. CASE SumsQuiet
  <2> SUFFICES ASSUME NEW p \in Players PROVE scores'[p] = PointsOf(CreditedOf(p))'
    BY DEF ScoresAreSums
  <2>1. CreditedOf(p)' = CreditedOf(p) /\ CreditedOf(p) \in SUBSET Credited
    BY <1>1 DEF SumsQuiet, CreditedOf
  <2>2. IsFiniteSet(CreditedOf(p)) /\ \A s \in CreditedOf(p) : w[s] = v[s]
    BY <1>1, <2>1, CreditedFacts DEF SumsQuiet
  <2>3. SumFunctionOnSet(w, CreditedOf(p)) = SumFunctionOnSet(v, CreditedOf(p))
    <3> HIDE DEF w, v
    <3> QED BY <2>2, SumSame
  <2>4. PointsOf(CreditedOf(p))' = SumFunctionOnSet(v, CreditedOf(p)')
    BY DEF PointsOf
  <2>5. PointsOf(CreditedOf(p)) = SumFunctionOnSet(w, CreditedOf(p))
    BY DEF PointsOf
  <2>6. scores'[p] = PointsOf(CreditedOf(p))
    BY <1>1 DEF SumsQuiet, ScoresAreSums
  <2> HIDE DEF w, v
  <2> QED BY <2>1, <2>3, <2>4, <2>5, <2>6
<1>2. ASSUME NEW s \in Subs, SumsGrow(s) PROVE ScoresAreSums'
  <2> SUFFICES ASSUME NEW p \in Players PROVE scores'[p] = PointsOf(CreditedOf(p))'
    BY DEF ScoresAreSums
  <2> DEFINE S == CreditedOf(p)
  <2>1. S \in SUBSET Credited /\ s \notin S /\ scores \in [Players -> Int]
    BY <1>2 DEF SumsGrow, CreditedOf, Typed, TypeOK
  <2>2. CreditedOf(p)' = IF p = sub[s].who THEN S \cup {s} ELSE S
    BY <1>2 DEF SumsGrow, CreditedOf
  <2>3. /\ IsFiniteSet(S) /\ \A r \in S \cup {s} : w[r] = v[r] /\ v[r] \in Int
        /\ w[s] = sub[s].pts
    BY <1>2, <2>1, CreditedFacts, SubFacts, PointsAssumption DEF SumsGrow
  <2>4. SumFunctionOnSet(w, S) = SumFunctionOnSet(v, S)
    <3> HIDE DEF w, v, S
    <3> QED BY <2>3, SumSame
  <2>5. SumFunctionOnSet(v, S \cup {s}) = SumFunctionOnSet(v, S) + w[s]
    <3> HIDE DEF w, v, S
    <3>1. s \notin S /\ IsFiniteSet(S) /\ \A r \in S \cup {s} : v[r] \in Int
      BY <2>1, <2>3
    <3>2. SumFunctionOnSet(v, S \cup {s}) = SumFunctionOnSet(v, S) + v[s]
      BY <3>1, SumAdd
    <3> QED BY <2>3, <3>2
  <2>6. scores[p] = SumFunctionOnSet(w, S)
    BY DEF PointsOf, ScoresAreSums
  <2>7. scores'[p] = IF p = sub[s].who THEN scores[p] + w[s] ELSE scores[p]
    BY <1>2, <2>1, <2>3 DEF SumsGrow
  <2>8. PointsOf(CreditedOf(p))' = SumFunctionOnSet(v, CreditedOf(p)')
    BY DEF PointsOf
  <2> HIDE DEF w, v, S
  <2> QED BY <2>2, <2>4, <2>5, <2>6, <2>7, <2>8
<1> QED BY <1>1, <1>2, SumsSub, SumsOther DEF Next

LEMMA SumsInit == Init => ScoresAreSums
<1> SUFFICES ASSUME Init, NEW p \in Players PROVE scores[p] = PointsOf(CreditedOf(p))
  BY DEF ScoresAreSums
<1>1. CreditedOf(p) = {} /\ scores[p] = 0
  BY DEF Init, CreditedOf, Credited, Stored, IdleSub
<1> QED BY <1>1, SumEmpty DEF PointsOf

\* HINCRBY and the lists are written apart and the list by the last writer;
\* the scores still are the sum of what is listed and of what is on its way to
\* a list, for as long as no two appends have overlapped.
THEOREM ScoresFollowLists == Spec => []ScoresMatchLists
<1> DEFINE J == Typed /\ ListsInv /\ LostInv /\ FewStarted /\ ScoresAreSums
<1>1. Init => J
  BY TypedInit, ListsInit, LostInit, LastInit, SumsInit
<1>2. J /\ [Next]_vars => J'
  BY TypedStep, ListsStep, LostStep, FewStep, SumsStep
<1>3. J => ScoresMatchLists
  <2> SUFFICES ASSUME J, overlap = {}, NEW p \in Players
      PROVE scores[p] = PointsOf({s \in UNION {answers[i] : i \in Questions} : sub[s].who = p})
                        + PointsOf({s \in Credited \ Stored : sub[s].who = p})
    BY DEF ScoresMatchLists
  <2> DEFINE w == [r \in Subs |-> sub[r].pts]
             A == {s \in Stored : sub[s].who = p}
             B == {s \in Credited \ Stored : sub[s].who = p}
  <2>1. UNION {answers[i] : i \in Questions} = Stored
    <3>1. \A s \in Stored : sub[s].q \in Questions /\ s \in answers[sub[s].q]
      BY SubFacts DEF LostInv, LostOnlyByOverlap, Stored
    <3>2. \A i \in Questions : \A s \in answers[i] : s \in Stored
      BY DEF ListsInv, ListsHoldScoredAnswers
    <3> QED BY <3>1, <3>2
  <2>2. A \in SUBSET Credited /\ B \in SUBSET Credited
    BY DEF Credited
  <2>3. CreditedOf(p) = A \cup B /\ A \cap B = {}
    BY DEF CreditedOf, Credited
  <2>4. IsFiniteSet(A) /\ IsFiniteSet(B) /\ \A s \in A \cup B : w[s] \in Int
    BY <2>2, CreditedFacts
  <2>5. SumFunctionOnSet(w, A \cup B) = SumFunctionOnSet(w, A) + SumFunctionOnSet(w, B)
    <3> HIDE DEF w, A, B
    <3> QED BY <2>3, <2>4, SumUnion
  <2>6. scores[p] = SumFunctionOnSet(w, A \cup B)
    BY <2>3 DEF ScoresAreSums, PointsOf
  <2>7. {s \in UNION {answers[i] : i \in Questions} : sub[s].who = p} = A
    BY <2>1
  <2> QED BY <2>5, <2>6, <2>7 DEF PointsOf
<1> HIDE DEF J
<1> QED BY <1>1, <1>2, <1>3, PTL DEF Spec

(***************************************************************************)
(* The handlers implement the answer book.                                 *)
(***************************************************************************)
\* The answer book's view of the runs.
Stage == [s \in Subs |-> StageOf[sub[s].pc]]
About == [s \in Subs |-> <<sub[s].who, sub[s].q>>]

LEMMA Stages ==
  /\ StageOf["idle"] = "none"
  /\ \A step \in {"sent", "check", "mark", "credit"} : StageOf[step] = "taken"
  /\ \A step \in {"read", "append"} : StageOf[step] = "scored"
  /\ StageOf["failed"] = "refused"
  /\ \A step \in {"count", "readgame", "writegame", "done"} : StageOf[step] = "entered"
BY DEF StageOf, SubSteps

LEMMA StageMoves ==
  ASSUME NEW s \in Subs, NEW step, NEW l, NEW b, Moves(s, step, l, b)
  PROVE  /\ Stage' = [Stage EXCEPT ![s] = StageOf[step]]
         /\ About' = About
<1>1. \A r \in Subs \ {s} : sub'[r] = sub[r]
  BY DEF Moves
<1>2. sub'[s].pc = step /\ sub'[s].who = sub[s].who /\ sub'[s].q = sub[s].q
  BY DEF Moves
<1>3. Stage' = [Stage EXCEPT ![s] = StageOf[step]]
  BY <1>1, <1>2 DEF Stage
<1>4. About' = About
  BY <1>1, <1>2 DEF About
<1> QED BY <1>3, <1>4

LEMMA StageStays ==
  ASSUME NEW s \in Subs, NEW step, NEW l, NEW b, Moves(s, step, l, b),
         StageOf[step] = StageOf[sub[s].pc], UNCHANGED <<answers, scores>>
  PROVE  UNCHANGED Book!bookVars
<1>1. Stage' = Stage /\ About' = About
  BY StageMoves DEF Stage
<1> QED BY <1>1 DEF Book!bookVars, Stage, About

LEMMA Refuses ==
  ASSUME NEW s \in Subs, NEW l, NEW b, Moves(s, "failed", l, b),
         sub[s].pc \in {"sent", "check"}, UNCHANGED <<answers, scores>>
  PROVE  Book!Refuse(s)
<1>1. Stage' = [Stage EXCEPT ![s] = "refused"] /\ About' = About
  BY StageMoves, Stages
<1>2. Stage[s] = "taken"
  BY Stages DEF Stage
<1> QED BY <1>1, <1>2 DEF Book!Refuse, Stage, About

LEMMA Takes ==
  ASSUME NEW s \in Subs, NEW step \in {"sent", "check"}, NEW p \in Players, NEW i \in Questions,
         Starts(s, step, p, i), sub[s].pc = "idle", UNCHANGED <<answers, scores>>
  PROVE  Book!Take(s)
<1>1. /\ \A r \in Subs \ {s} : sub'[r] = sub[r]
      /\ sub'[s].pc = step /\ sub'[s].who = p /\ sub'[s].q = i
  BY DEF Starts
<1>2. Stage' = [Stage EXCEPT ![s] = "taken"]
  BY <1>1, Stages DEF Stage
<1>3. About' = [About EXCEPT ![s] = <<p, i>>]
  BY <1>1 DEF About
<1>4. Stage[s] = "none"
  BY Stages DEF Stage
<1> QED BY <1>2, <1>3, <1>4 DEF Book!Take, Stage, About

LEMMA CreditScores ==
  ASSUME Typed, NEW s \in Subs, Credit(s)
  PROVE  Book!Score(s)
<1>1. Moves(s, "read", sub[s].list, sub[s].blob) /\ sub[s].pc = "credit" /\ answers' = answers
  BY CreditEffect DEF Credit
<1>2. Stage' = [Stage EXCEPT ![s] = "scored"] /\ About' = About
  BY <1>1, StageMoves, Stages
<1>3. Stage[s] = "taken"
  BY <1>1, Stages DEF Stage
<1>4. sub[s].pts \in Points /\ scores' = [scores EXCEPT ![sub[s].who] = @ + sub[s].pts]
  BY SubFacts DEF Credit
<1>5. About[s][1] = sub[s].who
  BY DEF About
<1>6. \E x \in Points : scores' = [scores EXCEPT ![About[s][1]] = @ + x]
  BY <1>4, <1>5
<1> QED BY <1>1, <1>2, <1>3, <1>6 DEF Book!Score, Stage, About

LEMMA SetAnswerEnters ==
  ASSUME Typed, CopiesHoldStored, NEW s \in Subs, SetAnswer(s)
  PROVE  Book!Enter(s)
<1>1. /\ sub[s].pc = "append" /\ scores' = scores
      /\ answers' = [answers EXCEPT ![sub[s].q] = sub[s].list \cup {s}]
  BY DEF SetAnswer, StoreAs
<1>2. Stage' = [Stage EXCEPT ![s] = "entered"] /\ About' = About
  <2>1. Moves(s, "count", sub[s].list \cup {s}, sub[s].blob)
    BY SetAnswerEffect
  <2>2. StageOf["count"] = "entered"
    BY Stages
  <2> QED BY <2>1, <2>2, StageMoves
<1>3. Stage[s] = "scored"
  BY <1>1, Stages DEF Stage
<1>4. About[s][2] = sub[s].q
  BY DEF About
<1>5. sub[s].list \in SUBSET {r \in Subs : Stage[r] = "entered" /\ About[r][2] = About[s][2]}
  <2> SUFFICES ASSUME NEW r \in sub[s].list
               PROVE  r \in Subs /\ Stage[r] = "entered" /\ About[r][2] = About[s][2]
    OBVIOUS
  <2>1. r \in Stored /\ sub[r].q = sub[s].q
    BY <1>1 DEF CopiesHoldStored
  <2> QED BY <2>1, Stages DEF Stored, Stage, About
<1>6. \E kept \in SUBSET {r \in Subs : Stage[r] = "entered" /\ About[r][2] = About[s][2]} :
        answers' = [answers EXCEPT ![About[s][2]] = kept \cup {s}]
  BY <1>1, <1>4, <1>5
<1>7. {r \in Subs : Stage[r] = "entered" /\ About[r][2] = About[s][2]}
        = {r \in Book!Entered : About[r][2] = About[s][2]}
  BY DEF Book!Entered, Stage
<1>8. \E kept \in SUBSET {r \in Book!Entered : About[r][2] = About[s][2]} :
        answers' = [answers EXCEPT ![About[s][2]] = kept \cup {s}]
  BY <1>6, <1>7
<1> QED BY <1>1, <1>2, <1>3, <1>8 DEF Book!Enter, Stage, About

LEMMA SubStepBook ==
  ASSUME Typed, CopiesHoldStored, NEW s \in Subs, SubStep(s)
  PROVE  Book!BookNext \/ UNCHANGED Book!bookVars
<1> USE Stages DEF redis, clients, history, Book!BookNext
<1>1. CASE ReadClock(s)
  BY <1>1, ReadClockEffect, StageStays, Refuses DEF ReadClock
<1>2. CASE BoxCheck(s)
  BY <1>2, BoxCheckEffect, StageStays, Refuses DEF BoxCheck
<1>3. CASE BoxMark(s)
  BY <1>3, BoxMarkEffect, StageStays DEF BoxMark
<1>4. CASE Credit(s)
  BY <1>4, CreditScores
<1>5. CASE ReadAnswers(s)
  BY <1>5, ReadAnswersEffect, StageStays DEF ReadAnswers
<1>6. CASE SetAnswer(s)
  BY <1>6, SetAnswerEnters
<1>7. CASE Count(s)
  BY <1>7, CountEffect, StageStays DEF Count
<1>8. CASE CloseRead(s)
  BY <1>8, CloseReadEffect, StageStays DEF CloseRead
<1>9. CASE CloseWrite(s)
  BY <1>9, CloseWriteEffect, StageStays DEF CloseWrite
<1> QED BY <1>1, <1>2, <1>3, <1>4, <1>5, <1>6, <1>7, <1>8, <1>9 DEF SubStep

LEMMA OtherBook ==
  ASSUME Typed, UserStep \/ (\E c \in Ctls : CtlStep(c)) \/ UNCHANGED vars
  PROVE  Book!BookNext \/ UNCHANGED Book!bookVars
<1> USE DEF redis, clients, history
<1>1. ASSUME NEW s \in Subs, NEW p \in Phones, Submit(s, p) PROVE Book!BookNext
  <2>1. p \in Players /\ screen[p].q \in Questions
    BY <1>1 DEF Players, Submit, Typed, ScreensKnown
  <2>2. Book!Take(s)
    BY <1>1, <2>1, SubmitEffect, Takes DEF Submit
  <2> QED BY <2>2 DEF Book!BookNext
<1>2. ASSUME NEW s \in Subs, NEW p \in Boxes, Press(s, p) PROVE Book!BookNext
  <2>1. p \in Players /\ game.current \in Questions
    BY <1>2 DEF Players, Press
  <2>2. Book!Take(s)
    BY <1>2, <2>1, PressEffect, Takes DEF Press
  <2> QED BY <2>2 DEF Book!BookNext
<1>3. ASSUME UNCHANGED <<sub, answers, scores>> PROVE UNCHANGED Book!bookVars
  BY <1>3 DEF Book!bookVars
<1>4. ASSUME NEW c \in Ctls, CtlStep(c) PROVE UNCHANGED <<sub, answers, scores>>
  BY <1>4 DEF CtlStep, ReadGame, WriteGame, SetClock, EmitQuestion, EmitResults
<1>5. ASSUME UNCHANGED vars PROVE UNCHANGED <<sub, answers, scores>>
  BY <1>5 DEF vars
<1>6. ASSUME \/ \E p \in Boxes : PressRaises(p)
             \/ \E c \in Ctls : ClickNext(c) \/ ClickResults(c) \/ ClickLater(c)
             \/ \E c \in Ctls, n \in LiveNumbers : CallLive(c, n)
      PROVE  UNCHANGED <<sub, answers, scores>>
  BY <1>6 DEF PressRaises, ClickNext, ClickResults, ClickLater, CallLive
<1> QED BY <1>1, <1>2, <1>3, <1>4, <1>5, <1>6 DEF UserStep

LEMMA InitBook == Init => Book!BookInit
<1> SUFFICES ASSUME Init PROVE Book!BookInit
  OBVIOUS
<1>1. Stage = [s \in Subs |-> "none"]
  BY Stages DEF Init, Stage, IdleSub
<1>2. About = [s \in Subs |-> <<Nobody, -1>>]
  BY DEF Init, About, IdleSub
<1> QED BY <1>1, <1>2 DEF Init, Book!BookInit, Stage, About

\* Every step of the handlers is a step of the answer book or none: a run is
\* scored once before it is entered, nothing is entered twice, and a list is
\* made of answers that had been entered and the one that is written.
THEOREM HandlersKeepTheBook == Spec => Book!BookSafety
<1>1. Init => Book!BookInit /\ Typed /\ ListsInv
  BY InitBook, TypedInit, ListsInit
<1>2. Typed /\ ListsInv /\ [Next]_vars => (Typed /\ ListsInv)'
  BY TypedStep, ListsStep
<1>3. Typed /\ ListsInv /\ [Next]_vars => [Book!BookNext]_(Book!bookVars)
  BY SubStepBook, OtherBook DEF Next, ListsInv
<1> QED BY <1>1, <1>2, <1>3, PTL DEF Spec, Book!BookSafety

(***************************************************************************)
(* The inductive invariant as a whole.                                     *)
(***************************************************************************)
\* All parts hold together: what the theorems above take of it, each takes the
\* parts it needs.
THEOREM RoundAlways == Spec => []IInv
<1>1. Init => IInv
  BY TypedInit, ListsInit, LostInit, BlobInit, BoxInit, LastInit, SumsInit DEF IInv
<1>2. IInv /\ [Next]_vars => IInv'
  BY TypedStep, ListsStep, LostStep, AnsweredStep, BlobStep, BoxStep, LastStep, FewStep, SumsStep
     DEF IInv
<1> QED BY <1>1, <1>2, PTL DEF Spec
=============================================================================
