---------------------------- MODULE LibraryProofs ----------------------------
(***************************************************************************)
(* A moderator's verdict stands beside the texts it was given to, in any   *)
(* interleaving of any handlers and jobs.  The counters of a quiz are the  *)
(* numbers of its ratings, its pictures are linked, and the index holds    *)
(* the public quizzes, but for the steps the properties name.              *)
(***************************************************************************)
EXTENDS Library, FiniteSetTheorems, TLAPS

(***************************************************************************)
(* The inductive invariant.                                                *)
(***************************************************************************)
Columns   == {"rev", "by", "images", "public", "likes", "dislikes", "seen", "mod_rating", "imported_from_kahoot"}
RunFields == {"op", "pc", "quiz", "copy", "new", "edit", "user", "positive", "todo"}
JobFields == {"pc", "quiz", "old", "copy", "todo", "changed"}

\* A row, or a copy of one, with no verdict or one about its own texts.
Sound(row) == DOMAIN row = Columns /\ row.mod_rating \in {Nothing, row.rev}

SoundOrNone(x) == x = Nothing \/ Sound(x)

\* The runs of create and kahoot have no copy of a row but a new one.
RunOK(x) ==
  /\ DOMAIN x = RunFields
  /\ SoundOrNone(x.copy) /\ SoundOrNone(x.new)
  /\ x.op \notin {"none", "create", "kahoot"} => Sound(x.copy)
  /\ x.op = "edit" => Sound(x.new)

JobOK(x) == DOMAIN x = JobFields /\ SoundOrNone(x.copy)

RowsSound == quiz = [q \in Quizzes |-> quiz[q]] /\ \A q \in Quizzes : SoundOrNone(quiz[q])
RunsSound == run = [r \in Runs |-> run[r]] /\ \A r \in Runs : RunOK(run[r])
JobsSound == job = [r \in Runs |-> job[r]] /\ \A r \in Runs : JobOK(job[r])

\* Every row, and every copy that a handler or a job may write back, is sound.
IInv == RowsSound /\ RunsSound /\ JobsSound

(***************************************************************************)
(* What the handlers do to a copy of a row.                                *)
(***************************************************************************)
LEMMA Seen ==
  ASSUME NEW row, Sound(row) PROVE Sound([row EXCEPT !.seen = @ + 1])
BY DEF Sound, Columns

LEMMA Stamped ==
  ASSUME NEW row, Sound(row), NEW r PROVE Sound([row EXCEPT !.by = r])
BY DEF Sound, Columns

LEMMA Judged ==
  ASSUME NEW row, Sound(row) PROVE Sound([row EXCEPT !.mod_rating = row.rev])
BY DEF Sound, Columns

LEMMA Counted ==
  ASSUME NEW row, Sound(row), NEW positive, NEW n PROVE Sound(Count(positive, n, row))
BY DEF Sound, Columns, Count

LEMMA NewTexts ==
  ASSUME NEW row, Sound(row), NEW r, NEW public, NEW images
  PROVE  Sound(Edited(row, r, public, images)) /\ Sound([row EXCEPT !.rev = r, !.mod_rating = Nothing])
BY DEF Sound, Columns, Edited

LEMMA NewRow ==
  ASSUME NEW r, NEW public, NEW images, NEW from, NEW likes
  PROVE  /\ Sound(Blank(r, public, images, from))
         /\ Sound([Blank(r, public, images, from) EXCEPT !.likes = likes])
BY DEF Sound, Columns, Blank

LEMMA StoredIsSound == ASSUME RowsSound, NEW q \in Stored PROVE Sound(quiz[q])
BY DEF RowsSound, Stored, SoundOrNone

(***************************************************************************)
(* What a step does to the records.                                        *)
(***************************************************************************)
LEMMA RunMoves ==
  ASSUME NEW x, RunOK(x), NEW v
  PROVE  /\ RunOK([x EXCEPT !.pc = v]) /\ RunOK([x EXCEPT !.todo = v])
         /\ \A w : RunOK([x EXCEPT !.pc = v, !.todo = w])
BY DEF RunOK, RunFields

LEMMA IdleOK == RunOK(Idle) /\ RunOK([Idle EXCEPT !.pc = "done"])
BY DEF RunOK, RunFields, Idle, SoundOrNone

LEMMA SetRun ==
  ASSUME RunsSound, NEW r \in Runs, NEW x, RunOK(x), run' = [run EXCEPT ![r] = x]
  PROVE  RunsSound'
BY DEF RunsSound

LEMMA GoesOn == ASSUME RunsSound, NEW r \in Runs, NEW pc, Goes(r, pc) PROVE RunsSound'
<1>1. RunOK([run[r] EXCEPT !.pc = pc])
  BY RunMoves DEF RunsSound
<1>2. run' = [run EXCEPT ![r] = [run[r] EXCEPT !.pc = pc]]
  BY DEF Goes
<1> QED BY <1>1, <1>2, SetRun

LEMMA EndsRun == ASSUME RunsSound, NEW r \in Runs, Ends(r) PROVE RunsSound'
BY IdleOK, SetRun DEF Ends

LEMMA StartsRun ==
  ASSUME RunsSound, NEW r \in Runs, NEW op, op # "edit", NEW pc, NEW q, NEW copy, Sound(copy),
         Starts(r, op, pc, q, copy)
  PROVE  RunsSound'
<1> DEFINE x == [Idle EXCEPT !.op = op, !.pc = pc, !.quiz = q, !.copy = copy]
<1>1. RunOK(x)
  BY DEF RunOK, RunFields, Idle, SoundOrNone
<1>2. run' = [run EXCEPT ![r] = x]
  BY DEF Starts
<1> QED BY <1>1, <1>2, SetRun

LEMMA ReadsRow ==
  ASSUME IInv, NEW r \in Runs, NEW op, op # "edit", NEW pc, NEW visible, visible \subseteq Stored, Reads(r, op, pc, visible)
  PROVE  IInv'
<1>1. PICK q \in visible : Starts(r, op, pc, q, quiz[q])
  BY DEF Reads
<1>2. RunsSound'
  BY <1>1, StoredIsSound, StartsRun DEF IInv
<1> QED BY <1>2 DEF Reads, rows, about, IInv, RowsSound, JobsSound

LEMMA UpdatesRow ==
  ASSUME RowsSound, NEW q, NEW copy, NEW row, SoundOrNone(row), Updates(q, copy, row)
  PROVE  RowsSound'
BY DEF RowsSound, Updates, SoundOrNone

LEMMA WritesRow ==
  ASSUME IInv, NEW r \in Runs, NEW op, NEW row, Sound(row), Writes(r, op, row)
  PROVE  IInv'
<1> DEFINE new == [row EXCEPT !.by = r]
<1>0. SoundOrNone(new)
  BY Stamped DEF SoundOrNone
<1> HIDE DEF new
<1>1. RowsSound'
  BY <1>0, UpdatesRow DEF Writes, IInv, new
<1>2. RunsSound'
  BY EndsRun DEF Writes, IInv
<1> QED BY <1>1, <1>2 DEF Writes, about, IInv, JobsSound

\* The copy of a run that has one.
LEMMA CopyIsSound ==
  ASSUME IInv, NEW r \in Runs, run[r].op \notin {"none", "create", "kahoot"}
  PROVE  Sound(run[r].copy)
BY DEF IInv, RunsSound, RunOK

(***************************************************************************)
(* Steps.                                                                  *)
(***************************************************************************)
LEMMA ViewsAndPlays ==
  ASSUME IInv, NEW r \in Runs, get_public_quiz(r) \/ start_quiz(r) PROVE IInv'
<1>1. CASE Reads(r, "view", "write", Stored) \/ Reads(r, "start", "write", Stored)
  BY <1>1, ReadsRow
<1>2. ASSUME NEW op \in {"view", "start"}, Writes(r, op, [run[r].copy EXCEPT !.seen = @ + 1]) PROVE IInv'
  BY <1>2, CopyIsSound, Seen, WritesRow DEF Writes, At, SoundOrNone
<1> QED BY <1>1, <1>2 DEF get_public_quiz, start_quiz

LEMMA Moderates == ASSUME IInv, NEW r \in Runs, set_mod_rating_for_quiz(r) PROVE IInv'
<1>1. CASE Reads(r, "moderate", "write", Public)
  BY <1>1, ReadsRow DEF Public
<1>2. CASE Writes(r, "moderate", [run[r].copy EXCEPT !.mod_rating = run[r].copy.rev])
  BY <1>2, CopyIsSound, Judged, WritesRow DEF Writes, At, SoundOrNone
<1> QED BY <1>1, <1>2 DEF set_mod_rating_for_quiz

LEMMA ImportsSheet == ASSUME IInv, NEW r \in Runs, handle_import_from_excel(r) PROVE IInv'
<1>1. CASE Reads(r, "excel", "write", Stored)
  BY <1>1, ReadsRow
<1>2. CASE Writes(r, "excel", [run[r].copy EXCEPT !.rev = r, !.mod_rating = Nothing])
  BY <1>2, CopyIsSound, NewTexts, WritesRow DEF Writes, At, SoundOrNone
<1>3. CASE ~(Reads(r, "excel", "write", Stored)
             \/ Writes(r, "excel", [run[r].copy EXCEPT !.rev = r, !.mod_rating = Nothing]))
  <2>1. PICK q \in fresh : quiz' = [quiz EXCEPT ![q] = Blank(r, FALSE, {}, FALSE)]
    BY <1>3 DEF handle_import_from_excel
  <2>2. Ends(r) /\ UNCHANGED job
    BY <1>3 DEF handle_import_from_excel
  <2>3. RowsSound'
    BY <2>1, NewRow DEF IInv, RowsSound, SoundOrNone
  <2> QED BY <2>2, <2>3, EndsRun DEF IInv, JobsSound
<1> QED BY <1>1, <1>2, <1>3

\* Steps that leave the rows and the jobs alone.
LEMMA RunsOnly ==
  ASSUME IInv, RunsSound', UNCHANGED <<quiz, job>> PROVE IInv'
BY DEF IInv, RowsSound, JobsSound

LEMMA Rates == ASSUME IInv, NEW r \in Runs, rate_quiz(r) PROVE IInv'
<1>1. CASE \E q \in Public, u \in Users, positive \in BOOLEAN :
             run' = [run EXCEPT ![r] = [Idle EXCEPT !.op = "rate", !.pc = "own", !.quiz = q,
                                          !.copy = quiz[q], !.user = u, !.positive = positive]]
           /\ UNCHANGED <<rows, about, restarts>>
  <2>1. PICK q \in Public, u \in Users, positive \in BOOLEAN :
          run' = [run EXCEPT ![r] = [Idle EXCEPT !.op = "rate", !.pc = "own", !.quiz = q,
                                       !.copy = quiz[q], !.user = u, !.positive = positive]]
    BY <1>1
  <2> DEFINE x == [Idle EXCEPT !.op = "rate", !.pc = "own", !.quiz = q,
                     !.copy = quiz[q], !.user = u, !.positive = positive]
  <2>2. Sound(quiz[q])
    BY StoredIsSound DEF Public, IInv
  <2>3. RunOK(x)
    BY <2>2 DEF RunOK, RunFields, Idle, SoundOrNone
  <2> HIDE DEF x
  <2>4. RunsSound'
    BY <2>1, <2>3, SetRun DEF x, IInv
  <2> QED BY <1>1, <2>4, RunsOnly DEF rows, about
<1>2. CASE rate_finds(r)
  <2>1. Goes(r, "save") \/ Ends(r)
        \/ run' = [run EXCEPT ![r] = [run[r] EXCEPT !.pc = "delete", !.todo = Own(run[r].quiz, run[r].user)]]
    BY <1>2 DEF rate_finds
  <2>2. RunOK([run[r] EXCEPT !.pc = "delete", !.todo = Own(run[r].quiz, run[r].user)])
    BY RunMoves DEF IInv, RunsSound
  <2>3. RunsSound'
    BY <2>1, <2>2, GoesOn, EndsRun, SetRun DEF IInv
  <2> QED BY <1>2, <2>3, RunsOnly DEF rate_finds, rows, about
<1>3. CASE Writes(r, "rate", Rated(r))
  <2>1. Sound(run[r].copy)
    BY <1>3, CopyIsSound DEF Writes, At
  <2>2. Sound(Count(~run[r].positive, -1, run[r].copy))
    BY <2>1, Counted
  <2>3. Sound(Rated(r))
    BY <2>1, <2>2, Counted DEF Rated
  <2> QED BY <1>3, <2>3, WritesRow DEF SoundOrNone
<1>4. CASE /\ At(r, "rate", "delete") \/ At(r, "rate", "save")
           /\ Goes(r, "save") \/ Goes(r, "write") \/ Ends(r)
           /\ UNCHANGED <<quiz, job>>
  <2>1. RunsSound'
    BY <1>4, GoesOn, EndsRun DEF IInv
  <2> QED BY <1>4, <2>1, RunsOnly
<1>5. \/ \E q \in Public, u \in Users, positive \in BOOLEAN :
           /\ run' = [run EXCEPT ![r] = [Idle EXCEPT !.op = "rate", !.pc = "own", !.quiz = q,
                                           !.copy = quiz[q], !.user = u, !.positive = positive]]
           /\ UNCHANGED <<rows, about, restarts>>
      \/ rate_finds(r)
      \/ Writes(r, "rate", Rated(r))
      \/ /\ At(r, "rate", "delete") \/ At(r, "rate", "save")
         /\ Goes(r, "save") \/ Goes(r, "write") \/ Ends(r)
         /\ UNCHANGED <<quiz, job>>
  BY DEF rate_quiz, rows
<1> QED BY <1>1, <1>2, <1>3, <1>4, <1>5

LEMMA BeginsEdit == ASSUME IInv, NEW r \in Runs, finish_edit_begins(r) PROVE IInv'
<1>1. PICK e \in Edits, public \in BOOLEAN, images \in SUBSET Images :
        LET q == session[e].quiz
        IN /\ run[r].pc = "idle"
           /\ session[e].pc = "open"
           /\ session[e].edit => q \in Stored
           /\ run' = [run EXCEPT ![r] =
                IF session[e].edit
                THEN [Idle EXCEPT !.op = "edit", !.pc = "enqueue", !.edit = e, !.quiz = q,
                                  !.copy = quiz[q],
                                  !.new = Edited(quiz[q], r, public, images)]
                ELSE [Idle EXCEPT !.op = "create", !.pc = "index", !.edit = e, !.quiz = q,
                                  !.new = Blank(r, public, images, FALSE)]]
  BY DEF finish_edit_begins
<1> DEFINE q == session[e].quiz
           old == quiz[q]
           new == Edited(old, r, public, images)
           blank == Blank(r, public, images, FALSE)
           x == [Idle EXCEPT !.op = "edit", !.pc = "enqueue", !.edit = e, !.quiz = q,
                             !.copy = old, !.new = new]
           y == [Idle EXCEPT !.op = "create", !.pc = "index", !.edit = e, !.quiz = q, !.new = blank]
<1>2. UNCHANGED <<rows, about, restarts>>
  BY DEF finish_edit_begins
<1>3. run' = [run EXCEPT ![r] = IF session[e].edit THEN x ELSE y]
  BY <1>1
<1>4. session[e].edit => Sound(old) /\ Sound(new)
  BY <1>1, StoredIsSound, NewTexts DEF IInv
<1>5. Sound(blank)
  BY NewRow
<1> HIDE DEF old, new, blank
<1>6. session[e].edit => RunOK(x)
  BY <1>4 DEF RunOK, RunFields, Idle, SoundOrNone
<1>7. RunOK(y)
  BY <1>5 DEF RunOK, RunFields, Idle, SoundOrNone
<1> HIDE DEF x, y
<1>8. RunsSound'
  BY <1>3, <1>6, <1>7, SetRun DEF IInv
<1> QED BY <1>2, <1>8, RunsOnly DEF rows, about

LEMMA ClosesSession == ASSUME IInv, NEW r \in Runs, NEW pc, closes_session(r, pc) PROVE IInv'
BY GoesOn, RunsOnly DEF closes_session, rows, IInv

LEMMA LinksPictures == ASSUME IInv, NEW r \in Runs, Links(r) PROVE IInv'
<1>1. Ends(r) \/ \E i : run' = [run EXCEPT ![r] = [run[r] EXCEPT !.todo = @ \ {i}]]
  BY DEF Links
<1>2. \A i : RunOK([run[r] EXCEPT !.todo = @ \ {i}])
  BY RunMoves DEF IInv, RunsSound
<1>3. RunsSound'
  BY <1>1, <1>2, EndsRun, SetRun DEF IInv
<1> QED BY <1>3, RunsOnly DEF Links, rows

LEMMA SavesQuiz == ASSUME IInv, NEW r \in Runs, Saves(r) PROVE IInv'
<1>1. UNCHANGED job
  BY DEF Saves
<1>2. CASE quiz[run[r].quiz] # Nothing
  BY <1>1, <1>2, EndsRun, RunsOnly DEF Saves, IInv
<1>3. CASE quiz[run[r].quiz] = Nothing
  <2>1. /\ quiz' = [quiz EXCEPT ![run[r].quiz] = run[r].new]
        /\ run' = [run EXCEPT ![r] = [run[r] EXCEPT !.pc = "link", !.todo = run[r].new.images]]
    BY <1>3 DEF Saves
  <2>2. RunOK(run[r])
    BY DEF IInv, RunsSound
  <2>3. RowsSound'
    BY <2>1, <2>2 DEF IInv, RowsSound, RunOK
  <2>4. RunsSound'
    BY <2>1, <2>2, RunMoves, SetRun DEF IInv
  <2> QED BY <1>1, <2>3, <2>4 DEF IInv, JobsSound
<1> QED BY <1>2, <1>3

LEMMA SetJob ==
  ASSUME JobsSound, NEW r \in Runs, NEW x, JobOK(x), job' = [job EXCEPT ![r] = x]
  PROVE  JobsSound'
BY DEF JobsSound

LEMMA NoJobOK == JobOK(NoJob) /\ JobOK([NoJob EXCEPT !.pc = "done"])
BY DEF JobOK, JobFields, NoJob, SoundOrNone

LEMMA JobMoves ==
  ASSUME NEW x, JobOK(x), NEW v
  PROVE  /\ JobOK([x EXCEPT !.pc = v])
         /\ \A w : /\ JobOK([x EXCEPT !.pc = v, !.todo = w])
                  /\ JobOK([x EXCEPT !.todo = v, !.changed = w])
BY DEF JobOK, JobFields

LEMMA EditsQuiz == ASSUME IInv, NEW r \in Runs, finish_edit_edit(r) PROVE IInv'
<1>1. CASE At(r, "edit", "enqueue") /\ Goes(r, "index") /\ UNCHANGED rows
           /\ job' = [job EXCEPT ![r] = [NoJob EXCEPT !.pc = "queued", !.quiz = run[r].quiz,
                                                     !.old = run[r].copy.images]]
  <2> DEFINE x == [NoJob EXCEPT !.pc = "queued", !.quiz = run[r].quiz, !.old = run[r].copy.images]
  <2>1. JobOK(x)
    BY DEF JobOK, JobFields, NoJob, SoundOrNone
  <2> HIDE DEF x
  <2>2. JobsSound'
    BY <1>1, <2>1, SetJob DEF x, IInv
  <2>3. RunsSound'
    BY <1>1, GoesOn DEF IInv
  <2> QED BY <1>1, <2>2, <2>3 DEF IInv, RowsSound, rows
<1>2. CASE At(r, "edit", "index") /\ Goes(r, "close") /\ UNCHANGED <<rows, job>>
  BY <1>2, GoesOn, RunsOnly DEF rows, IInv
<1>3. CASE closes_session(r, "write")
  BY <1>3, ClosesSession
<1>4. CASE Writes(r, "edit", run[r].new)
  BY <1>4, WritesRow DEF Writes, At, IInv, RunsSound, RunOK
<1> QED BY <1>1, <1>2, <1>3, <1>4 DEF finish_edit_edit

LEMMA CreatesQuiz == ASSUME IInv, NEW r \in Runs, finish_edit_create(r) PROVE IInv'
<1>1. CASE Goes(r, "close") /\ UNCHANGED <<rows, job>>
  BY <1>1, GoesOn, RunsOnly DEF rows, IInv
<1> QED BY <1>1, ClosesSession, SavesQuiz, LinksPictures DEF finish_edit_create

LEMMA DeletesQuiz == ASSUME IInv, NEW r \in Runs, delete_quiz(r) PROVE IInv'
<1>1. CASE Reads(r, "delete", "index", Stored)
  BY <1>1, ReadsRow
<1>2. CASE Goes(r, "row") /\ UNCHANGED <<rows, job>>
  BY <1>2, GoesOn, RunsOnly DEF rows, IInv
<1>3. CASE /\ quiz' = [quiz EXCEPT ![run[r].quiz] = Nothing] \/ UNCHANGED quiz
           /\ Ends(r) /\ UNCHANGED job
  <2>1. RowsSound'
    BY <1>3 DEF IInv, RowsSound, SoundOrNone
  <2> QED BY <1>3, <2>1, EndsRun DEF IInv, JobsSound
<1>4. \/ Reads(r, "delete", "index", Stored)
      \/ Goes(r, "row") /\ UNCHANGED <<rows, job>>
      \/ /\ quiz' = [quiz EXCEPT ![run[r].quiz] = Nothing] \/ UNCHANGED quiz
         /\ Ends(r) /\ UNCHANGED job
  BY DEF delete_quiz
<1> QED BY <1>1, <1>2, <1>3, <1>4

LEMMA ImportsArchive == ASSUME IInv, NEW r \in Runs, import_cqa(r) PROVE IInv'
<1>1. PICK q \in fresh, public \in BOOLEAN, images \in SUBSET Images, likes \in 0..1 :
        quiz' = [quiz EXCEPT ![q] = [Blank(r, public, images, Nothing) EXCEPT !.likes = likes]]
  BY DEF import_cqa
<1> DEFINE x == [Blank(r, public, images, Nothing) EXCEPT !.likes = likes]
<1>2. Sound(x)
  BY NewRow
<1> HIDE DEF x
<1>3. RowsSound'
  BY <1>1, <1>2 DEF x, IInv, RowsSound, SoundOrNone
<1>4. Ends(r) /\ UNCHANGED job
  BY DEF import_cqa
<1> QED BY <1>3, <1>4, EndsRun DEF IInv, JobsSound

LEMMA ImportsKahoot == ASSUME IInv, NEW r \in Runs, import_kahoot(r) PROVE IInv'
<1>1. CASE \E q \in fresh, images \in SUBSET Images :
             /\ run' = [run EXCEPT ![r] = [Idle EXCEPT !.op = "kahoot", !.pc = "index", !.quiz = q,
                                             !.new = Blank(r, FALSE, images, TRUE)]]
             /\ UNCHANGED <<quiz, job>>
  <2>1. PICK q \in fresh, images \in SUBSET Images :
          run' = [run EXCEPT ![r] = [Idle EXCEPT !.op = "kahoot", !.pc = "index", !.quiz = q,
                                       !.new = Blank(r, FALSE, images, TRUE)]]
    BY <1>1
  <2> DEFINE b == Blank(r, FALSE, images, TRUE)
             x == [Idle EXCEPT !.op = "kahoot", !.pc = "index", !.quiz = q, !.new = b]
  <2>2. Sound(b)
    BY NewRow
  <2> HIDE DEF b
  <2>3. RunOK(x)
    BY <2>2 DEF RunOK, RunFields, Idle, SoundOrNone
  <2> HIDE DEF x
  <2>4. RunsSound'
    BY <2>1, <2>3, SetRun DEF x, b, IInv
  <2> QED BY <1>1, <2>4, RunsOnly
<1>2. CASE Goes(r, "save") /\ UNCHANGED <<quiz, job>>
  BY <1>2, GoesOn, RunsOnly DEF IInv
<1>3. \/ \E q \in fresh, images \in SUBSET Images :
           /\ run' = [run EXCEPT ![r] = [Idle EXCEPT !.op = "kahoot", !.pc = "index", !.quiz = q,
                                           !.new = Blank(r, FALSE, images, TRUE)]]
           /\ UNCHANGED <<quiz, job>>
      \/ Goes(r, "save") /\ UNCHANGED <<quiz, job>>
      \/ Saves(r) \/ Links(r)
  BY DEF import_kahoot
<1> QED BY <1>1, <1>2, <1>3, SavesQuiz, LinksPictures

LEMMA UpdatesLinks == ASSUME IInv, NEW r \in Runs, quiz_update(r) PROVE IInv'
<1> DEFINE j == job[r]
           q == j.quiz
           moved == [j EXCEPT !.pc = "remove", !.copy = quiz[q], !.todo = j.old \ quiz[q].images]
<1>1. JobOK(j)
  BY DEF IInv, JobsSound
<1>2. ASSUME NEW x, JobOK(x), job' = [job EXCEPT ![r] = x], UNCHANGED <<quiz, run>> PROVE IInv'
  <2>1. JobsSound'
    BY <1>2, SetJob DEF IInv
  <2> QED BY <1>2, <2>1 DEF IInv, RowsSound, RunsSound
<1>3. CASE j.pc = "queued"
  <2>1. UNCHANGED <<quiz, run>>
    BY <1>3 DEF quiz_update
  <2>2. CASE q \notin Stored \/ quiz[q].images = j.old
    <3>1. job' = [job EXCEPT ![r] = [NoJob EXCEPT !.pc = "done"]]
      BY <1>3, <2>2 DEF quiz_update
    <3> QED BY <1>2, <2>1, <3>1, NoJobOK
  <2>3. CASE ~(q \notin Stored \/ quiz[q].images = j.old)
    <3>1. job' = [job EXCEPT ![r] = moved]
      BY <1>3, <2>3 DEF quiz_update
    <3>2. Sound(quiz[q])
      BY <2>3, StoredIsSound DEF IInv
    <3>3. JobOK(moved)
      BY <1>1, <3>2 DEF JobOK, JobFields, SoundOrNone
    <3> HIDE DEF moved
    <3> QED BY <1>2, <2>1, <3>1, <3>3
  <2> QED BY <2>2, <2>3
<1>4. CASE j.pc = "remove"
  <2>1. UNCHANGED <<quiz, run>>
    BY <1>4 DEF quiz_update, rows
  <2>2. \/ job' = [job EXCEPT ![r] = [j EXCEPT !.pc = "add", !.todo = Added(j)]]
        \/ \E i \in j.todo, refused \in BOOLEAN :
             job' = [job EXCEPT ![r] = [j EXCEPT !.todo = @ \ {i}, !.changed = @ \/ ~refused]]
    BY <1>4 DEF quiz_update
  <2>3. JobOK([j EXCEPT !.pc = "add", !.todo = Added(j)])
    BY <1>1, JobMoves
  <2>4. \A i, refused : JobOK([j EXCEPT !.todo = @ \ {i}, !.changed = @ \/ ~refused])
    BY <1>1, JobMoves
  <2> QED BY <1>2, <2>1, <2>2, <2>3, <2>4
<1>5. CASE j.pc = "add"
  <2>1. UNCHANGED <<quiz, run>>
    BY <1>5 DEF quiz_update, rows
  <2>2. \/ job' = [job EXCEPT ![r] = [j EXCEPT !.pc = "write"]]
        \/ job' = [job EXCEPT ![r] = [NoJob EXCEPT !.pc = "done"]]
        \/ \E i : job' = [job EXCEPT ![r] = [j EXCEPT !.todo = @ \ {i}, !.changed = TRUE]]
    BY <1>5 DEF quiz_update
  <2>3. JobOK([j EXCEPT !.pc = "write"])
    BY <1>1, JobMoves
  <2>4. \A i : JobOK([j EXCEPT !.todo = @ \ {i}, !.changed = TRUE])
    BY <1>1, JobMoves
  <2> QED BY <1>2, <2>1, <2>2, <2>3, <2>4, NoJobOK
<1>6. CASE j.pc = "write"
  <2>1. /\ Updates(q, j.copy, j.copy)
        /\ job' = [job EXCEPT ![r] = [NoJob EXCEPT !.pc = "done"]]
        /\ UNCHANGED run
    BY <1>6 DEF quiz_update
  <2>2. RowsSound'
    BY <1>1, <2>1, UpdatesRow DEF IInv, JobOK
  <2>3. JobsSound'
    BY <2>1, NoJobOK, SetJob DEF IInv
  <2> QED BY <2>1, <2>2, <2>3 DEF IInv, RunsSound
<1> QED BY <1>3, <1>4, <1>5, <1>6 DEF quiz_update

LEMMA Restarts == ASSUME IInv, meilisearch_init PROVE IInv'
<1>1. UNCHANGED <<quiz, job>>
  BY DEF meilisearch_init
<1>2. run' = [r \in Runs |-> IF r \in Active THEN [Idle EXCEPT !.pc = "done"] ELSE run[r]]
  BY DEF meilisearch_init
<1>3. RunsSound'
  BY <1>2, IdleOK DEF IInv, RunsSound
<1> QED BY <1>1, <1>3, RunsOnly

LEMMA EditorSteps ==
  ASSUME IInv, NEW e \in Edits, init_editor(e) \/ SessionExpires(e) \/ clean_editor_images_up(e)
  PROVE  IInv'
<1>1. UNCHANGED <<quiz, job, run>>
  BY DEF init_editor, SessionExpires, clean_editor_images_up, rows
<1> QED BY <1>1 DEF IInv, RowsSound, RunsSound, JobsSound

LEMMA Handled == ASSUME IInv, NEW r \in Runs, Handler(r) PROVE IInv'
BY ViewsAndPlays, Moderates, Rates, BeginsEdit, EditsQuiz, CreatesQuiz, DeletesQuiz,
   ImportsArchive, ImportsKahoot, ImportsSheet DEF Handler, finish_edit

(***************************************************************************)
(* The theorems.                                                           *)
(***************************************************************************)
LEMMA Starting == ASSUME Init PROVE IInv
<1>1. RowsSound
  <2>1. Sound(Blank("first", TRUE, {}, FALSE))
    BY NewRow
  <2> QED BY <2>1 DEF Init, RowsSound, SoundOrNone
<1>2. RunsSound
  BY IdleOK DEF Init, RunsSound
<1>3. JobsSound
  BY NoJobOK DEF Init, JobsSound
<1> QED BY <1>1, <1>2, <1>3 DEF IInv

LEMMA StepsKeep == ASSUME IInv, [Next]_vars PROVE IInv'
<1>1. CASE UNCHANGED vars
  BY <1>1 DEF vars, rows, about, IInv, RowsSound, RunsSound, JobsSound
<1>2. CASE Next
  BY <1>2, Handled, UpdatesLinks, EditorSteps, Restarts DEF Next
<1> QED BY <1>1, <1>2

\* Every stored row of a quiz, and every copy of one that a handler of the API
\* or a job of the worker may still write back, has either no verdict of a
\* moderator or one about the texts it carries.
THEOREM RowsStaySound == Spec => []IInv
BY Starting, StepsKeep, PTL DEF Spec

\* So a verdict always is about the texts a visitor of the quiz sees, however
\* set_mod_rating, finish_edit, imports, counters and quiz_update interleave.
THEOREM VerdictsStand == Spec => []ModeratedAsShown
<1>1. ASSUME IInv PROVE ModeratedAsShown
  BY <1>1, StoredIsSound DEF IInv, Sound, ModeratedAsShown
<1> QED BY <1>1, RowsStaySound, PTL

(***************************************************************************)
(* Types, and which copies of a row are stale.                             *)
(***************************************************************************)
\* Where the run of an operation may be.
Staged(op, pc) ==
  \/ op = "none" /\ pc \in {"idle", "done"}
  \/ op \in {"view", "start", "moderate", "excel"} /\ pc = "write"
  \/ op = "rate" /\ pc \in {"own", "delete", "save", "write"}
  \/ op = "edit" /\ pc \in {"enqueue", "index", "close", "write"}
  \/ op = "create" /\ pc \in {"index", "close", "save", "link"}
  \/ op = "delete" /\ pc \in {"index", "row"}
  \/ op = "kahoot" /\ pc \in {"index", "save", "link"}

Ratings == [id : Runs, quiz : Quizzes, user : Users, positive : BOOLEAN]

\* Runs without a copy of a row, and runs with a row of their own.
Copyless == {"none", "create", "kahoot"}
Writing  == {"edit", "create", "kahoot"}

RunTyped(r, x) ==
  /\ Staged(x.op, x.pc)
  /\ x.op # "none" => x.quiz \in Quizzes
  /\ IF x.op \in Copyless THEN x.copy = Nothing ELSE x.copy \in Rows
  /\ x.op \in Writing => x.new \in Rows /\ (x.op # "edit" => x.new.by = r /\ x.new.likes = 0 /\ x.new.dislikes = 0)
  /\ x.op \in {"edit", "create"} => x.edit \in Edits
  /\ x.op = "edit" => /\ x.new.likes = x.copy.likes /\ x.new.dislikes = x.copy.dislikes
                      /\ x.new.imported_from_kahoot = x.copy.imported_from_kahoot
  /\ x.op = "rate" => x.user \in Users /\ x.positive \in BOOLEAN /\ (x.pc = "own" => x.todo = {})
                      /\ \A y \in x.todo : y.quiz = x.quiz
  /\ x.pc = "link" => x.todo \subseteq Images

Working == {"remove", "add", "write"}

JobTyped(j) ==
  /\ j.pc \in {"none", "queued", "done"} \cup Working /\ j.changed \in BOOLEAN
  /\ j.pc \notin {"none", "done"} => j.quiz \in Quizzes /\ j.old \subseteq Images /\ j.todo \subseteq Images
  /\ IF j.pc \in Working THEN j.copy \in Rows ELSE j.copy = Nothing

Tables ==
  /\ \A q \in Quizzes : quiz[q] \in Rows \cup {Nothing}
  /\ fresh \subseteq Quizzes /\ index \subseteq Quizzes /\ torn \subseteq Quizzes
  /\ fresh \cap Stored = {}
  /\ drift \in BOOLEAN
  /\ listed \subseteq Edits
  /\ links \in [Quizzes -> SUBSET Images] /\ \A q \in Quizzes : q \notin Stored => links[q] = {}
  /\ ratings \subseteq Ratings /\ IsFiniteSet(ratings) /\ \A x \in ratings : x.quiz \in Stored
  /\ session \in [Edits -> [pc : {"none", "added", "open", "gone"}, quiz : Quizzes \cup {Nothing}, edit : BOOLEAN]]
  /\ \A e \in Edits : session[e].pc \in {"added", "open"} => session[e].quiz \in Quizzes

Typed == Tables /\ (\A r \in Runs : RunTyped(r, run[r])) /\ \A r \in Runs : JobTyped(job[r])

\* A run that has not written yet is the last writer of no row and no copy.
Known(b) ==
  \/ \E q \in Quizzes : quiz[q] \in Rows /\ quiz[q].by = b
  \/ \E s \in Runs : \/ run[s].copy \in Rows /\ run[s].copy.by = b
                     \/ job[s].copy \in Rows /\ job[s].copy.by = b

WritersInv == \A r \in Runs : run[r].pc \notin {"done", "link"} => ~Known(r)

(***************************************************************************)
(* Links.                                                                  *)
(***************************************************************************)
Stale(q, copy) == quiz[q] = Nothing \/ quiz[q].by # copy.by

\* A run that will enqueue a job has not, and one that has still waits for it.
Enqueued(r) ==
  /\ run[r].pc \in {"idle", "enqueue"} => job[r].pc = "none"
  /\ run[r].op = "edit" /\ run[r].pc # "enqueue" /\ run[r].quiz \notin torn =>
       job[r].pc = "queued" /\ job[r].quiz = run[r].quiz /\ job[r].old = run[r].copy.images

\* A job takes away what its copy does not show, and its copy shows what the
\* row shows unless it is stale.
Agrees(r) ==
  LET q == job[r].quiz
  IN /\ job[r].pc = "remove" => job[r].todo \cap job[r].copy.images = {}
     /\ job[r].pc \in Working /\ q \in Stored \ torn /\ ~Stale(q, job[r].copy) =>
          job[r].copy.images = quiz[q].images

\* A job or a new quiz's run that will link the picture, or a job which has
\* changed links by a stale row, and tears the quiz in the end.
Promised(q, i, r) ==
  \/ job[r].quiz = q /\ job[r].pc = "queued" /\ i \notin job[r].old
  \/ job[r].quiz = q /\ job[r].pc = "remove" /\ i \in Added(job[r])
  \/ job[r].quiz = q /\ job[r].pc = "add" /\ i \in job[r].todo
  \/ job[r].quiz = q /\ job[r].pc \in Working /\ job[r].changed /\ Stale(q, job[r].copy)
  \/ run[r].quiz = q /\ run[r].pc = "link" /\ i \in run[r].todo

Linked(q) ==
  q \in Stored \ torn /\ quiz[q].imported_from_kahoot # Nothing =>
    \A i \in quiz[q].images : i \in links[q] \/ \E r \in Runs : Promised(q, i, r)

LinksInv == /\ \A r \in Runs : Enqueued(r) /\ Agrees(r)
            /\ \A q \in Quizzes : Linked(q)

(***************************************************************************)
(* The index.                                                              *)
(***************************************************************************)
PastIndex(op, pc) ==
  \/ op = "edit" /\ pc \in {"close", "write"}
  \/ op = "create" /\ pc \in {"close", "save"}
  \/ op = "delete" /\ pc = "row"

Indexed(q, r) == run[r].quiz = q /\ PastIndex(run[r].op, run[r].pc)

Shows(r) == run[r].op # "delete" /\ run[r].new.public

\* What the run does to the row in the end counts as drift.
Drifts(q, r) == IF run[r].op = "create" THEN q \notin fresh ELSE Stale(q, run[r].copy)

Told(q) ==
  IF \E r \in Runs : Indexed(q, r)
  THEN \E r \in Runs : Indexed(q, r) /\ (Drifts(q, r) \/ (q \in index <=> Shows(r)))
  ELSE q \in index <=> q \in Public

IndexInv == ~drift => /\ \A r \in Runs : run[r].op # "kahoot"
                      /\ \A q \in Quizzes : Told(q)

(***************************************************************************)
(* Ratings.                                                                *)
(***************************************************************************)
For(q)     == {x \in ratings : x.quiz = q /\ x.positive}
Against(q) == {x \in ratings : x.quiz = q /\ ~x.positive}

\* How many ratings on the side p, and on the other, the counters do not count.
Ahead(q, p, same, other) ==
  /\ Cardinality(For(q))     = quiz[q].likes    + (IF p THEN same ELSE other)
  /\ Cardinality(Against(q)) = quiz[q].dislikes + (IF p THEN other ELSE same)

Rater(q, r) == run[r].quiz = q /\ run[r].op = "rate" /\ run[r].pc # "own"

\* How far the ratings are ahead of the counters while r alone is rating q.
Progress(q, r) ==
  LET x == run[r]
  IN /\ Ahead(q, x.positive, IF x.pc = "write" THEN 1 ELSE 0,
                             IF x.pc = "delete" \/ x.todo = {} THEN 0 ELSE -1)
     /\ x.pc = "delete" => \E y \in IF x.positive THEN Against(q) ELSE For(q) : x.todo = {y}

Rateds(q) ==
  q \in Stored \ torn /\ quiz[q].imported_from_kahoot # Nothing =>
    /\ (\A r \in Runs : ~Rater(q, r)) => Ahead(q, TRUE, 0, 0)
    /\ \A r \in Runs : Rater(q, r) /\ ~Stale(q, run[r].copy) =>
         Progress(q, r) \/ \E s \in Runs \ {r} : Rater(q, s)

RatingsInv ==
  /\ \A x \in ratings : run[x.id].pc = "done" \/ (run[x.id].op = "rate" /\ run[x.id].pc = "write")
  /\ \A q \in Quizzes : Rateds(q)

(***************************************************************************)
(* What each step does, field by field.                                    *)
(***************************************************************************)
Others(r) == \A s \in Runs : s # r => run'[s] = run[s]

\* r goes on as it is, but for where it is and what it has left to do.
Carries(r, pc, todo) ==
  /\ Others(r)
  /\ run'[r].op = run[r].op /\ run'[r].quiz = run[r].quiz /\ run'[r].copy = run[r].copy
  /\ run'[r].new = run[r].new /\ run'[r].edit = run[r].edit /\ run'[r].user = run[r].user
  /\ run'[r].positive = run[r].positive
  /\ run'[r].pc = pc /\ run'[r].todo = todo

Goes_on(r, pc) == Carries(r, pc, run[r].todo)

Over(r) ==
  /\ Others(r)
  /\ run'[r].op = "none" /\ run'[r].pc = "done" /\ run'[r].copy = Nothing /\ run'[r].todo = {}

\* A run begins: with a copy of a row, with one of its own, or with both.
First_stage(op, pc) ==
  \/ op \in {"view", "start", "moderate", "excel"} /\ pc = "write"
  \/ op = "rate" /\ pc = "own"
  \/ op = "edit" /\ pc = "enqueue"
  \/ op \in {"create", "delete"} /\ pc = "index"

Begins(r) ==
  /\ run[r].pc = "idle" /\ run[r].op = "none" /\ Others(r)
  /\ RunTyped(r, run'[r])
  /\ First_stage(run'[r].op, run'[r].pc)
  /\ run'[r].op # "create" => run'[r].quiz \in Stored /\ run'[r].copy = quiz[run'[r].quiz]
  /\ UNCHANGED <<quiz, torn, drift, fresh, index, links, ratings, session, listed, job>>

\* Or it ends having changed nothing.
Gives_up(r) ==
  /\ \/ run[r].op = "rate" /\ run[r].pc = "own"
     \/ run[r].op = "rate" /\ run[r].pc = "save" /\ run[r].quiz \notin Stored
     \/ run[r].pc = "link" /\ (run[r].todo = {} \/ run[r].quiz \notin Stored)
  /\ Over(r)
  /\ UNCHANGED <<quiz, torn, drift, fresh, index, links, ratings, session, listed, job>>

\* The row of q becomes a value, and no other row changes.
Row(q, x) == quiz'[q] = x /\ \A p \in Quizzes : p # q => quiz'[p] = quiz[p]

\* What the run of an operation writes in the end.
Outcome(r, row) ==
  LET x == run[r]
      c == x.copy
      one == IF x.todo = {} THEN 0 ELSE -1
  IN /\ row \in Rows /\ row.by = r
     /\ row.imported_from_kahoot = c.imported_from_kahoot
     /\ IF x.op = "edit" THEN row.images = x.new.images /\ row.public = x.new.public
                         ELSE row.images = c.images /\ row.public = c.public
     /\ IF x.op # "rate" THEN row.likes = c.likes /\ row.dislikes = c.dislikes
        ELSE IF x.positive THEN row.likes = c.likes + 1 /\ row.dislikes = c.dislikes + one
                           ELSE row.likes = c.likes + one /\ row.dislikes = c.dislikes + 1

Writes_back(r) ==
  /\ run[r].pc = "write" /\ run[r].op \notin Copyless
  /\ \E row : /\ Outcome(r, row)
              /\ IF quiz[run[r].quiz] = run[r].copy
                 THEN Row(run[r].quiz, row) /\ UNCHANGED <<torn, drift>>
                 ELSE /\ Row(run[r].quiz, IF quiz[run[r].quiz] = Nothing THEN Nothing ELSE row)
                      /\ torn' = torn \cup {run[r].quiz} /\ drift' = TRUE
  /\ Over(r)
  /\ UNCHANGED <<fresh, index, links, ratings, session, listed, job>>

\* Rating.
Finds_own(r) ==
  /\ run[r].op = "rate" /\ run[r].pc = "own"
  /\ \/ Carries(r, "save", {})
     \/ \E y \in IF run[r].positive THEN Against(run[r].quiz) ELSE For(run[r].quiz) : Carries(r, "delete", {y})
  /\ UNCHANGED <<quiz, torn, drift, fresh, index, links, ratings, session, listed, job>>

Takes_back(r) ==
  /\ run[r].op = "rate" /\ run[r].pc = "delete"
  /\ ratings' = ratings \ run[r].todo
  /\ Goes_on(r, "save")
  /\ UNCHANGED <<quiz, torn, drift, fresh, index, links, session, listed, job>>

Adds_own(r) ==
  /\ run[r].op = "rate" /\ run[r].pc = "save" /\ run[r].quiz \in Stored
  /\ ratings' = ratings \cup {[id |-> r, quiz |-> run[r].quiz, user |-> run[r].user,
                               positive |-> run[r].positive]}
  /\ Goes_on(r, "write")
  /\ UNCHANGED <<quiz, torn, drift, fresh, index, links, session, listed, job>>

\* Editing.
Enqueues(r) ==
  /\ run[r].op = "edit" /\ run[r].pc = "enqueue"
  /\ \A s \in Runs : s # r => job'[s] = job[s]
  /\ job'[r].pc = "queued" /\ job'[r].quiz = run[r].quiz /\ job'[r].old = run[r].copy.images
  /\ job'[r].copy = Nothing /\ job'[r].todo = {} /\ job'[r].changed = FALSE
  /\ Goes_on(r, "index")
  /\ UNCHANGED <<quiz, torn, drift, fresh, index, links, ratings, session, listed>>

\* The document of a quiz goes into the index or out of it.
Indexes(r) ==
  /\ run[r].pc = "index"
  /\ \/ run[r].op = "edit" /\ Goes_on(r, "close") /\ index' = Reindexed(r)
     \/ run[r].op = "create" /\ Goes_on(r, "close")
        /\ index' = IF run[r].new.public THEN index \cup {run[r].quiz} ELSE index
     \/ run[r].op = "delete" /\ Goes_on(r, "row") /\ index' = index \ {run[r].quiz}
  /\ UNCHANGED <<quiz, torn, drift, fresh, links, ratings, session, listed, job>>

Closes(r) ==
  /\ run[r].pc = "close"
  /\ \/ run[r].op = "edit" /\ Goes_on(r, "write")
     \/ run[r].op = "create" /\ Goes_on(r, "save")
  /\ listed' = listed \ {run[r].edit}
  /\ session' = [session EXCEPT ![run[r].edit].pc = "gone"]
  /\ UNCHANGED <<quiz, torn, drift, fresh, index, links, ratings, job>>

\* New rows, their links, and rows that go.
Saves_row(r) ==
  /\ run[r].pc = "save" /\ run[r].op \in {"create", "kahoot"} /\ run[r].quiz \notin Stored
  /\ Row(run[r].quiz, run[r].new)
  /\ Carries(r, "link", run[r].new.images)
  /\ fresh' = fresh \ {run[r].quiz}
  /\ drift' = (drift \/ (run[r].op = "create" /\ run[r].quiz \notin fresh))
  /\ UNCHANGED <<torn, index, links, ratings, session, listed, job>>

Collides(r) ==
  /\ run[r].pc = "save" /\ run[r].op \in {"create", "kahoot"} /\ run[r].quiz \in Stored
  /\ drift' = (drift \/ run[r].op = "create")
  /\ Over(r)
  /\ UNCHANGED <<quiz, fresh, torn, index, links, ratings, session, listed, job>>

Adds_link(r) ==
  /\ run[r].pc = "link" /\ run[r].quiz \in Stored
  /\ \E i \in run[r].todo : /\ links' = [links EXCEPT ![run[r].quiz] = @ \cup {i}]
                            /\ Carries(r, "link", run[r].todo \ {i})
  /\ UNCHANGED <<quiz, torn, drift, fresh, index, ratings, session, listed, job>>

Deletes_row(r) ==
  LET q == run[r].quiz
  IN /\ run[r].op = "delete" /\ run[r].pc = "row"
     /\ IF Rateless(q) THEN Row(q, Nothing) /\ links' = [links EXCEPT ![q] = {}]
                       ELSE UNCHANGED <<quiz, links>>
     /\ drift' = (drift \/ quiz[q] # run[r].copy \/ ~Rateless(q))
     /\ Over(r)
     /\ UNCHANGED <<torn, fresh, index, ratings, session, listed, job>>

Imports(r) ==
  /\ run[r].pc = "idle"
  /\ \E q \in fresh, row \in Rows :
       /\ row.by = r
       /\ row.imported_from_kahoot # Nothing => row.images = {} /\ row.likes = 0 /\ row.dislikes = 0
       /\ Row(q, row) /\ fresh' = fresh \ {q} /\ drift' = (drift \/ row.public)
  /\ Over(r)
  /\ UNCHANGED <<torn, index, links, ratings, session, listed, job>>

Kahoot(r) ==
  /\ \/ /\ run[r].pc = "idle" /\ Others(r) /\ RunTyped(r, run'[r])
        /\ run'[r].op = "kahoot" /\ run'[r].pc = "index" /\ run'[r].copy = Nothing
        /\ fresh' \subseteq fresh /\ index' = {}
     \/ /\ run[r].op = "kahoot" /\ run[r].pc = "index" /\ Goes_on(r, "save")
        /\ UNCHANGED fresh /\ index' = index \cup {run[r].quiz}
  /\ drift' = TRUE
  /\ UNCHANGED <<quiz, torn, links, ratings, session, listed, job>>

\* The worker.
Job(r, pc, old, copy, todo, changed) ==
  /\ \A s \in Runs : s # r => job'[s] = job[s]
  /\ job'[r].pc = pc /\ job'[r].copy = copy /\ job'[r].todo = todo /\ job'[r].changed = changed
  /\ pc # "done" => job'[r].quiz = job[r].quiz /\ job'[r].old = old

Job_over(r) == Job(r, "done", {}, Nothing, {}, FALSE)

Job_begins(r) ==
  LET q == job[r].quiz
  IN /\ job[r].pc = "queued"
     /\ \/ Job_over(r) /\ (q \notin Stored \/ quiz[q].images = job[r].old)
        \/ q \in Stored /\ Job(r, "remove", job[r].old, quiz[q], job[r].old \ quiz[q].images, job[r].changed)
     /\ torn' = IF At(r, "none", "done") THEN torn ELSE torn \cup {q}
     /\ UNCHANGED <<quiz, drift, fresh, index, links, ratings, session, listed, run>>

Job_removes(r) ==
  LET j == job[r]
  IN /\ j.pc = "remove"
     /\ \/ j.todo = {} /\ Job(r, "add", j.old, j.copy, Added(j), j.changed) /\ UNCHANGED links
        \/ \E i \in j.todo : Job(r, "remove", j.old, j.copy, j.todo \ {i}, j.changed) /\ UNCHANGED links
        \/ \E i \in j.todo : /\ i \in links[j.quiz]
                             /\ Job(r, "remove", j.old, j.copy, j.todo \ {i}, TRUE)
                             /\ links' = [links EXCEPT ![j.quiz] = @ \ {i}]
     /\ UNCHANGED <<quiz, torn, drift, fresh, index, ratings, session, listed, run>>

Job_adds(r) ==
  LET j == job[r]
  IN /\ j.pc = "add"
     /\ \/ j.todo = {} /\ j.quiz \in Stored /\ j.changed /\ Job(r, "write", j.old, j.copy, j.todo, j.changed)
           /\ UNCHANGED links
        \/ j.quiz \notin Stored /\ Job_over(r) /\ UNCHANGED links
        \/ j.todo = {} /\ ~j.changed /\ Job_over(r) /\ UNCHANGED links
        \/ /\ j.quiz \in Stored
           /\ \E i \in j.todo : /\ Job(r, "add", j.old, j.copy, j.todo \ {i}, TRUE)
                                /\ links' = [links EXCEPT ![j.quiz] = @ \cup {i}]
     /\ UNCHANGED <<quiz, torn, drift, fresh, index, ratings, session, listed, run>>

Job_writes(r) ==
  LET j == job[r]
  IN /\ j.pc = "write"
     /\ IF quiz[j.quiz] = j.copy THEN UNCHANGED <<quiz, torn, drift>>
        ELSE /\ Row(j.quiz, IF quiz[j.quiz] = Nothing THEN Nothing ELSE j.copy)
             /\ torn' = torn \cup {j.quiz} /\ drift' = TRUE
     /\ Job_over(r)
     /\ UNCHANGED <<fresh, index, links, ratings, session, listed, run>>

\* Editor sessions, and restarts.
Editor_step ==
  /\ session' \in [Edits -> [pc : {"none", "added", "open", "gone"}, quiz : Quizzes \cup {Nothing}, edit : BOOLEAN]]
  /\ \A e \in Edits : session'[e].pc \in {"added", "open"} => session'[e].quiz \in Quizzes
  /\ listed' \subseteq Edits
  /\ UNCHANGED <<quiz, torn, drift, fresh, index, links, ratings, job, run>>

Restarted ==
  /\ \A r \in Runs : \/ run'[r] = run[r] /\ run[r].pc \in {"idle", "done"}
                     \/ /\ run[r].pc \notin {"idle", "done"} /\ run[r].quiz \in torn'
                        /\ run'[r].op = "none" /\ run'[r].pc = "done" /\ run'[r].copy = Nothing
  /\ torn \subseteq torn' /\ torn' \subseteq Quizzes
  /\ \/ drift' = drift /\ UNCHANGED index /\ \A r \in Runs : run[r].pc \in {"idle", "done"}
     \/ drift' = TRUE /\ UNCHANGED index
     \/ drift' = FALSE /\ index' = Public
  /\ session' \in [Edits -> [pc : {"none", "added", "open", "gone"}, quiz : Quizzes \cup {Nothing}, edit : BOOLEAN]]
  /\ \A e \in Edits : session'[e].pc \in {"added", "open"} => session'[e].quiz \in Quizzes
  /\ UNCHANGED <<quiz, fresh, links, ratings, listed, job>>

Run_kind(r) ==
  \/ Begins(r) \/ Gives_up(r) \/ Writes_back(r)
  \/ Finds_own(r) \/ Takes_back(r) \/ Adds_own(r)
  \/ Enqueues(r) \/ Indexes(r) \/ Closes(r)
  \/ Saves_row(r) \/ Collides(r) \/ Adds_link(r) \/ Deletes_row(r) \/ Imports(r) \/ Kahoot(r)

Job_kind(r) == Job_begins(r) \/ Job_removes(r) \/ Job_adds(r) \/ Job_writes(r)

(***************************************************************************)
(* From the actions to these steps.                                        *)
(***************************************************************************)
LEMMA GoesFields == ASSUME IInv, NEW r \in Runs, NEW pc, Goes(r, pc) PROVE Goes_on(r, pc)
BY DEF IInv, RunsSound, RunOK, RunFields, Goes, Goes_on, Carries, Others

LEMMA CarriesFields ==
  ASSUME IInv, NEW r \in Runs, NEW pc, NEW todo, run' = [run EXCEPT ![r].pc = pc, ![r].todo = todo]
  PROVE  Carries(r, pc, todo)
BY DEF IInv, RunsSound, RunOK, RunFields, Carries, Others

LEMMA EndsFields == ASSUME IInv, NEW r \in Runs, Ends(r) PROVE Over(r)
BY DEF IInv, RunsSound, Ends, Over, Others, Idle

LEMMA ReadsKind ==
  ASSUME IInv, Typed, NEW r \in Runs, NEW op, NEW pc, NEW visible, visible \subseteq Stored,
         op \notin {"none", "create", "kahoot", "edit", "rate"}, First_stage(op, pc), Reads(r, op, pc, visible)
  PROVE  Begins(r)
<1>1. PICK q \in visible : Starts(r, op, pc, q, quiz[q])
  BY DEF Reads
<1> DEFINE c == quiz[q]
<1>2. q \in Stored /\ c \in Rows
  BY DEF Stored, Typed, Tables
<1> HIDE DEF c
<1>3. run[r].pc = "idle" /\ run' = [run EXCEPT ![r] = [Idle EXCEPT !.op = op, !.pc = pc, !.quiz = q, !.copy = c]]
  BY <1>1 DEF Starts, c
<1>4. /\ Others(r) /\ run'[r].op = op /\ run'[r].pc = pc /\ run'[r].quiz = q /\ run'[r].copy = c
      /\ run'[r].todo = {}
  BY <1>3 DEF IInv, RunsSound, Others, Idle
<1>5. RunTyped(r, run'[r])
  BY <1>2, <1>4 DEF RunTyped, First_stage, Staged, Copyless, Writing, Stored
<1>6. UNCHANGED <<quiz, torn, drift, fresh, index, links, ratings, session, listed, job>>
  BY DEF Reads, rows, about
<1>7. run[r].op = "none"
  BY <1>3 DEF Typed, RunTyped, Staged
<1> QED BY <1>2, <1>3, <1>4, <1>5, <1>6, <1>7 DEF Begins, c

LEMMA UpdatesFields ==
  ASSUME IInv, Typed, NEW q \in Quizzes, NEW copy, NEW row, Updates(q, copy, row)
  PROVE  IF quiz[q] = copy
         THEN Row(q, IF copy = Nothing THEN Nothing ELSE row) /\ UNCHANGED <<torn, drift>>
         ELSE Row(q, IF quiz[q] = Nothing THEN Nothing ELSE row) /\ torn' = torn \cup {q} /\ drift' = TRUE
<1>1. CASE quiz[q] = copy
  <2>1. drift' = drift
    BY <1>1, Zenon DEF Updates, Typed, Tables
  <2> QED BY <1>1, <2>1 DEF Updates, Row, IInv, RowsSound
<1>2. CASE quiz[q] # copy
  <2>1. drift' = TRUE
    BY <1>2, Zenon DEF Updates
  <2> QED BY <1>2, <2>1 DEF Updates, Row, IInv, RowsSound
<1> QED BY <1>1, <1>2

LEMMA NotNothing == ASSUME NEW row \in Rows PROVE row # Nothing
BY LibraryAssumption

LEMMA WritesKind ==
  ASSUME IInv, Typed, NEW r \in Runs, NEW op, op \notin Copyless, NEW row,
         Outcome(r, [row EXCEPT !.by = r]), Writes(r, op, row)
  PROVE  Writes_back(r)
<1> DEFINE new == [row EXCEPT !.by = r]
           q == run[r].quiz
           copy == run[r].copy
<1>1. run[r].op = op /\ run[r].pc = "write" /\ Updates(q, copy, new) /\ Ends(r)
  BY DEF Writes, At
<1>2. q \in Quizzes /\ copy \in Rows
  BY <1>1 DEF Typed, RunTyped, Copyless
<1>3. UNCHANGED <<fresh, index, links, ratings, session, listed, job>>
  BY DEF Writes, about
<1>4. Outcome(r, new)
  OBVIOUS
<1> HIDE DEF new
<1>5. IF quiz[q] = copy
      THEN Row(q, new) /\ UNCHANGED <<torn, drift>>
      ELSE Row(q, IF quiz[q] = Nothing THEN Nothing ELSE new) /\ torn' = torn \cup {q} /\ drift' = TRUE
  BY <1>1, <1>2, UpdatesFields, NotNothing
<1>6. Over(r)
  BY <1>1, EndsFields
<1> QED BY <1>1, <1>3, <1>4, <1>5, <1>6 DEF Writes_back

LEMMA CopyInRows == ASSUME Typed, NEW r \in Runs, run[r].op \notin Copyless PROVE run[r].copy \in Rows
BY DEF Typed, RunTyped

\* The columns that the properties are about.
Alike(row, c) ==
  /\ row.images = c.images /\ row.public = c.public /\ row.likes = c.likes /\ row.dislikes = c.dislikes
  /\ row.imported_from_kahoot = c.imported_from_kahoot

LEMMA Stamp ==
  ASSUME NEW row \in Rows, NEW r \in Runs
  PROVE  /\ [row EXCEPT !.by = r] \in Rows /\ [row EXCEPT !.by = r].by = r
         /\ Alike([row EXCEPT !.by = r], row)
BY DEF Rows, Writers, Alike

LEMMA SeenRow ==
  ASSUME NEW row \in Rows
  PROVE  [row EXCEPT !.seen = @ + 1] \in Rows /\ Alike([row EXCEPT !.seen = @ + 1], row)
BY DEF Rows, Alike

LEMMA JudgedRow ==
  ASSUME NEW row \in Rows, NEW v \in Writers \cup {Nothing}
  PROVE  [row EXCEPT !.mod_rating = v] \in Rows /\ Alike([row EXCEPT !.mod_rating = v], row)
BY DEF Rows, Alike

LEMMA RetextedRow ==
  ASSUME NEW row \in Rows, NEW r \in Runs
  PROVE  /\ [row EXCEPT !.rev = r, !.mod_rating = Nothing] \in Rows
         /\ Alike([row EXCEPT !.rev = r, !.mod_rating = Nothing], row)
BY DEF Rows, Alike, Writers

LEMMA AlikeOutcome ==
  ASSUME Typed, NEW r \in Runs, NEW row \in Rows, run[r].op \notin Copyless \cup {"rate", "edit"},
         Alike(row, run[r].copy)
  PROVE  Outcome(r, [row EXCEPT !.by = r])
BY Stamp DEF Outcome, Alike

LEMMA ViewKind == ASSUME IInv, Typed, NEW r \in Runs, get_public_quiz(r) \/ start_quiz(r) PROVE Run_kind(r)
<1>1. CASE Reads(r, "view", "write", Stored) \/ Reads(r, "start", "write", Stored)
  BY <1>1, ReadsKind DEF First_stage, Run_kind
<1>2. ASSUME NEW op \in {"view", "start"}, Writes(r, op, [run[r].copy EXCEPT !.seen = @ + 1]) PROVE Run_kind(r)
  <2>1. run[r].op = op /\ run[r].copy \in Rows
    BY <1>2, CopyInRows DEF Writes, At, Copyless
  <2>2. Outcome(r, [[run[r].copy EXCEPT !.seen = @ + 1] EXCEPT !.by = r])
    BY <2>1, SeenRow, AlikeOutcome DEF Copyless
  <2> QED BY <1>2, <2>2, WritesKind DEF Copyless, Run_kind
<1> QED BY <1>1, <1>2 DEF get_public_quiz, start_quiz

LEMMA ModerateKind == ASSUME IInv, Typed, NEW r \in Runs, set_mod_rating_for_quiz(r) PROVE Run_kind(r)
<1>1. CASE Reads(r, "moderate", "write", Public)
  BY <1>1, ReadsKind DEF First_stage, Run_kind, Public
<1>2. CASE Writes(r, "moderate", [run[r].copy EXCEPT !.mod_rating = run[r].copy.rev])
  <2>1. run[r].op = "moderate" /\ run[r].copy \in Rows
    BY <1>2, CopyInRows DEF Writes, At, Copyless
  <2>2. run[r].copy.rev \in Writers \cup {Nothing}
    BY <2>1 DEF Rows
  <2>3. Outcome(r, [[run[r].copy EXCEPT !.mod_rating = run[r].copy.rev] EXCEPT !.by = r])
    BY <2>1, <2>2, JudgedRow, AlikeOutcome DEF Copyless
  <2> QED BY <1>2, <2>3, WritesKind DEF Copyless, Run_kind
<1> QED BY <1>1, <1>2 DEF set_mod_rating_for_quiz

LEMMA BlankRow ==
  ASSUME NEW r \in Runs, NEW public \in BOOLEAN, NEW images \in SUBSET Images, NEW from \in BOOLEAN \cup {Nothing},
         NEW row, row = Blank(r, public, images, from)
  PROVE  /\ row \in Rows /\ row.by = r /\ row.public = public /\ row.images = images
         /\ row.likes = 0 /\ row.dislikes = 0 /\ row.imported_from_kahoot = from
BY DEF Rows, Writers, Blank

LEMMA SheetKind == ASSUME IInv, Typed, NEW r \in Runs, handle_import_from_excel(r) PROVE Run_kind(r)
<1>1. CASE Reads(r, "excel", "write", Stored)
  BY <1>1, ReadsKind DEF First_stage, Run_kind
<1>2. CASE Writes(r, "excel", [run[r].copy EXCEPT !.rev = r, !.mod_rating = Nothing])
  <2>1. run[r].op = "excel" /\ run[r].copy \in Rows
    BY <1>2, CopyInRows DEF Writes, At, Copyless
  <2>2. Outcome(r, [[run[r].copy EXCEPT !.rev = r, !.mod_rating = Nothing] EXCEPT !.by = r])
    BY <2>1, RetextedRow, AlikeOutcome DEF Copyless
  <2> QED BY <1>2, <2>2, WritesKind DEF Copyless, Run_kind
<1>3. CASE ~(Reads(r, "excel", "write", Stored)
             \/ Writes(r, "excel", [run[r].copy EXCEPT !.rev = r, !.mod_rating = Nothing]))
  <2>1. PICK q \in fresh : /\ quiz' = [quiz EXCEPT ![q] = Blank(r, FALSE, {}, FALSE)]
                           /\ fresh' = fresh \ {q}
    BY <1>3 DEF handle_import_from_excel
  <2>2. /\ run[r].pc = "idle" /\ Ends(r)
        /\ UNCHANGED <<torn, drift, index, links, ratings, session, listed, job>>
    BY <1>3 DEF handle_import_from_excel
  <2> DEFINE row == Blank(r, FALSE, {}, FALSE)
  <2>3. /\ row \in Rows /\ row.by = r /\ row.public = FALSE /\ row.images = {}
        /\ row.likes = 0 /\ row.dislikes = 0
    BY DEF Rows, Writers, Blank
  <2> HIDE DEF row
  <2>4. q \in Quizzes
    BY DEF Typed, Tables
  <2>5. Row(q, row)
    BY <2>1, <2>4 DEF row, Row, IInv, RowsSound
  <2>6. drift' = (drift \/ row.public)
    BY <2>2, <2>3, Zenon DEF Typed, Tables
  <2> QED BY <2>1, <2>2, <2>3, <2>5, <2>6, EndsFields DEF Imports, Run_kind
<1> QED BY <1>1, <1>2, <1>3

LEMMA ArchiveKind == ASSUME IInv, Typed, NEW r \in Runs, import_cqa(r) PROVE Run_kind(r)
<1>1. PICK q \in fresh, public \in BOOLEAN, images \in SUBSET Images, likes \in 0..1 :
        /\ \A e \in Edits : session[e].quiz # q
        /\ quiz' = [quiz EXCEPT ![q] = [Blank(r, public, images, Nothing) EXCEPT !.likes = likes]]
        /\ fresh' = fresh \ {q}
        /\ drift' = (drift \/ public)
  BY DEF import_cqa
<1> DEFINE row == [Blank(r, public, images, Nothing) EXCEPT !.likes = likes]
<1>2. row \in Rows /\ row.by = r /\ row.public = public /\ row.imported_from_kahoot = Nothing
  BY DEF Rows, Writers, Blank
<1>3. quiz' = [quiz EXCEPT ![q] = row]
  BY <1>1
<1> HIDE DEF row
<1>4. Row(q, row)
  BY <1>3 DEF Row, IInv, RowsSound, Typed, Tables
<1>5. run[r].pc = "idle" /\ Over(r) /\ UNCHANGED <<torn, index, links, ratings, session, listed, job>>
  BY EndsFields DEF import_cqa
<1> QED BY <1>1, <1>2, <1>4, <1>5 DEF Imports, Run_kind

LEMMA RateKind == ASSUME IInv, Typed, NEW r \in Runs, rate_quiz(r) PROVE Run_kind(r)
<1> DEFINE q == run[r].quiz
           u == run[r].user
           p == run[r].positive
<1>1. CASE \E a \in Public, b \in Users, positive \in BOOLEAN :
             /\ run[r].pc = "idle"
             /\ run' = [run EXCEPT ![r] = [Idle EXCEPT !.op = "rate", !.pc = "own", !.quiz = a,
                                             !.copy = quiz[a], !.user = b, !.positive = positive]]
             /\ UNCHANGED <<rows, about, restarts>>
  <2>1. PICK a \in Public, b \in Users, positive \in BOOLEAN :
          /\ run[r].pc = "idle"
          /\ run' = [run EXCEPT ![r] = [Idle EXCEPT !.op = "rate", !.pc = "own", !.quiz = a,
                                          !.copy = quiz[a], !.user = b, !.positive = positive]]
    BY <1>1
  <2> DEFINE c == quiz[a]
  <2>2. a \in Stored /\ c \in Rows
    BY DEF Public, Stored, Typed, Tables
  <2> HIDE DEF c
  <2>3. /\ Others(r) /\ run'[r].op = "rate" /\ run'[r].pc = "own" /\ run'[r].quiz = a /\ run'[r].copy = c
        /\ run'[r].user = b /\ run'[r].positive = positive /\ run'[r].todo = {}
    BY <2>1 DEF c, IInv, RunsSound, Others, Idle
  <2>4. RunTyped(r, run'[r])
    BY <2>2, <2>3 DEF RunTyped, Staged, Copyless, Writing, Stored
  <2>5. UNCHANGED <<quiz, torn, drift, fresh, index, links, ratings, session, listed, job>>
    BY <1>1 DEF rows, about
  <2>6. run[r].op = "none"
    BY <2>1 DEF Typed, RunTyped, Staged
  <2> QED BY <2>1, <2>2, <2>3, <2>4, <2>5, <2>6 DEF Begins, First_stage, c, Run_kind
<1>2. CASE rate_finds(r)
  <2>1. /\ run[r].op = "rate" /\ run[r].pc = "own"
        /\ UNCHANGED <<quiz, torn, drift, fresh, index, links, ratings, session, listed, job>>
    BY <1>2 DEF rate_finds, At, rows, about
  <2>2. p \in BOOLEAN /\ run[r].todo = {}
    BY <2>1 DEF Typed, RunTyped
  <2>3. CASE Goes(r, "save")
    BY <2>1, <2>2, <2>3, GoesFields DEF Goes_on, Finds_own, Run_kind
  <2>4. CASE Ends(r)
    BY <2>1, <2>4, EndsFields DEF Gives_up, Run_kind
  <2>5. CASE /\ \E x \in Own(q, u) : Cardinality(Own(q, u)) = 1 /\ x.positive # p
             /\ run' = [run EXCEPT ![r].pc = "delete", ![r].todo = Own(q, u)]
    <3>1. PICK x \in Own(q, u) : Cardinality(Own(q, u)) = 1 /\ x.positive # p
      BY <2>5
    <3>2. IsFiniteSet(Own(q, u))
      BY FS_Subset DEF Own, Typed, Tables
    <3>3. Own(q, u) = {x}
      BY <3>1, <3>2, FS_Singleton
    <3>4. x \in ratings /\ x.quiz = q /\ x.positive \in BOOLEAN
      BY DEF Own, Typed, Tables, Ratings
    <3>5. x \in IF p THEN Against(q) ELSE For(q)
      BY <2>2, <3>1, <3>4 DEF Against, For
    <3>6. Carries(r, "delete", {x})
      BY <2>5, <3>3, CarriesFields
    <3> QED BY <2>1, <3>5, <3>6 DEF Finds_own, Run_kind
  <2> QED BY <1>2, <2>3, <2>4, <2>5 DEF rate_finds
<1>3. CASE /\ At(r, "rate", "delete") /\ ratings' = ratings \ run[r].todo /\ Goes(r, "save")
           /\ UNCHANGED <<rows, fresh, index, links, session, listed, job, restarts>>
  BY <1>3, GoesFields DEF At, rows, Takes_back, Run_kind
<1>4. CASE /\ At(r, "rate", "save") /\ quiz[q] = Nothing /\ Ends(r) /\ UNCHANGED ratings
           /\ UNCHANGED <<rows, fresh, index, links, session, listed, job, restarts>>
  BY <1>4, EndsFields DEF At, rows, Gives_up, Run_kind, Stored
<1>5. CASE /\ At(r, "rate", "save") /\ quiz[q] # Nothing /\ Goes(r, "write")
           /\ ratings' = ratings \cup {[id |-> r, quiz |-> q, user |-> u, positive |-> p]}
           /\ UNCHANGED <<rows, fresh, index, links, session, listed, job, restarts>>
  <2>1. q \in Stored
    BY <1>5 DEF At, Typed, RunTyped, Stored
  <2> QED BY <1>5, <2>1, GoesFields DEF At, rows, Adds_own, Run_kind
<1>6. CASE Writes(r, "rate", Rated(r))
  <2> DEFINE c == run[r].copy
  <2>1. run[r].op = "rate" /\ c \in Rows /\ p \in BOOLEAN
    BY <1>6, CopyInRows DEF Writes, At, Copyless, Typed, RunTyped
  <2>3. /\ Rated(r) \in Rows
        /\ Rated(r).images = c.images /\ Rated(r).public = c.public
        /\ Rated(r).imported_from_kahoot = c.imported_from_kahoot
        /\ p => /\ Rated(r).likes = c.likes + 1
                /\ Rated(r).dislikes = c.dislikes + (IF run[r].todo = {} THEN 0 ELSE -1)
        /\ ~p => /\ Rated(r).likes = c.likes + (IF run[r].todo = {} THEN 0 ELSE -1)
                 /\ Rated(r).dislikes = c.dislikes + 1
    BY <2>1 DEF Rated, Count, Rows
  <2>4. Outcome(r, [Rated(r) EXCEPT !.by = r])
    BY <2>1, <2>3, Stamp DEF Outcome, Alike
  <2> QED BY <1>6, <2>4, WritesKind DEF Copyless, Run_kind
<1> QED BY <1>1, <1>2, <1>3, <1>4, <1>5, <1>6 DEF rate_quiz

LEMMA BeginsEditKind == ASSUME IInv, Typed, NEW r \in Runs, finish_edit_begins(r) PROVE Run_kind(r)
<1>1. PICK e \in Edits, public \in BOOLEAN, images \in SUBSET Images :
        LET q == session[e].quiz
        IN /\ run[r].pc = "idle"
           /\ session[e].pc = "open"
           /\ session[e].edit => q \in Stored
           /\ run' = [run EXCEPT ![r] =
                IF session[e].edit
                THEN [Idle EXCEPT !.op = "edit", !.pc = "enqueue", !.edit = e, !.quiz = q,
                                  !.copy = quiz[q],
                                  !.new = Edited(quiz[q], r, public, images)]
                ELSE [Idle EXCEPT !.op = "create", !.pc = "index", !.edit = e, !.quiz = q,
                                  !.new = Blank(r, public, images, FALSE)]]
  BY DEF finish_edit_begins
<1> DEFINE q == session[e].quiz
           c == quiz[q]
           n == Edited(c, r, public, images)
           b == Blank(r, public, images, FALSE)
<1>2. UNCHANGED <<quiz, torn, drift, fresh, index, links, ratings, session, listed, job>>
  BY DEF finish_edit_begins, rows, about
<1>3. q \in Quizzes /\ run[r].pc = "idle" /\ run[r].op = "none"
  BY <1>1 DEF Typed, Tables, RunTyped, Staged
<1>4. b \in Rows /\ b.by = r /\ b.likes = 0 /\ b.dislikes = 0
  BY DEF Rows, Writers, Blank
<1>5. CASE session[e].edit
  <2>1. q \in Stored /\ c \in Rows
    BY <1>1, <1>5 DEF Stored, Typed, Tables
  <2>2. /\ n \in Rows /\ n.likes = c.likes /\ n.dislikes = c.dislikes
        /\ n.imported_from_kahoot = c.imported_from_kahoot
    BY <2>1 DEF Edited, Rows, Writers
  <2> HIDE DEF n
  <2>3. run' = [run EXCEPT ![r] = [Idle EXCEPT !.op = "edit", !.pc = "enqueue", !.edit = e, !.quiz = q,
                                     !.copy = c, !.new = n]]
    BY <1>1, <1>5 DEF n
  <2> HIDE DEF c
  <2>4. /\ Others(r) /\ run'[r].op = "edit" /\ run'[r].pc = "enqueue" /\ run'[r].quiz = q
        /\ run'[r].copy = c /\ run'[r].new = n /\ run'[r].edit = e
    BY <2>3 DEF IInv, RunsSound, Others, Idle
  <2>5. RunTyped(r, run'[r])
    BY <1>3, <2>1, <2>2, <2>4 DEF RunTyped, Staged, Copyless, Writing
  <2> QED BY <1>2, <1>3, <2>1, <2>4, <2>5 DEF Begins, First_stage, c, Run_kind
<1>6. CASE ~session[e].edit
  <2> HIDE DEF b
  <2>3. run' = [run EXCEPT ![r] = [Idle EXCEPT !.op = "create", !.pc = "index", !.edit = e, !.quiz = q,
                                     !.new = b]]
    BY <1>1, <1>6 DEF b
  <2>4. /\ Others(r) /\ run'[r].op = "create" /\ run'[r].pc = "index" /\ run'[r].quiz = q
        /\ run'[r].copy = Nothing /\ run'[r].new = b /\ run'[r].edit = e
    BY <2>3 DEF IInv, RunsSound, Others, Idle
  <2>5. RunTyped(r, run'[r])
    BY <1>3, <1>4, <2>4 DEF RunTyped, Staged, Copyless, Writing
  <2> QED BY <1>2, <1>3, <2>4, <2>5 DEF Begins, First_stage, Run_kind
<1> QED BY <1>5, <1>6

LEMMA ClosesKind ==
  ASSUME IInv, Typed, NEW r \in Runs,
         \/ run[r].op = "edit" /\ closes_session(r, "write")
         \/ run[r].op = "create" /\ closes_session(r, "save")
  PROVE  Run_kind(r)
BY GoesFields DEF closes_session, rows, Closes, Run_kind

LEMMA EditKind == ASSUME IInv, Typed, NEW r \in Runs, finish_edit_edit(r) PROVE Run_kind(r)
<1>1. CASE /\ At(r, "edit", "enqueue") /\ Goes(r, "index")
           /\ job' = [job EXCEPT ![r] = [NoJob EXCEPT !.pc = "queued", !.quiz = run[r].quiz,
                                                     !.old = run[r].copy.images]]
           /\ UNCHANGED <<rows, fresh, index, links, ratings, session, listed, restarts>>
  <2>1. /\ \A s \in Runs : s # r => job'[s] = job[s]
        /\ job'[r].pc = "queued" /\ job'[r].quiz = run[r].quiz /\ job'[r].old = run[r].copy.images
        /\ job'[r].copy = Nothing /\ job'[r].todo = {} /\ job'[r].changed = FALSE
    BY <1>1 DEF IInv, JobsSound, NoJob
  <2> QED BY <1>1, <2>1, GoesFields DEF At, rows, Enqueues, Run_kind
<1>2. CASE /\ At(r, "edit", "index") /\ index' = Reindexed(r) /\ Goes(r, "close")
           /\ UNCHANGED <<rows, fresh, links, ratings, session, listed, job, restarts>>
  BY <1>2, GoesFields DEF At, rows, Indexes, Run_kind
<1>3. CASE run[r].op = "edit" /\ closes_session(r, "write")
  BY <1>3, ClosesKind
<1>4. CASE Writes(r, "edit", run[r].new)
  <2>1. /\ run[r].op = "edit" /\ run[r].new \in Rows
        /\ run[r].new.likes = run[r].copy.likes /\ run[r].new.dislikes = run[r].copy.dislikes
        /\ run[r].new.imported_from_kahoot = run[r].copy.imported_from_kahoot
    BY <1>4 DEF Writes, At, Typed, RunTyped, Writing
  <2>2. Outcome(r, [run[r].new EXCEPT !.by = r])
    BY <2>1, Stamp DEF Outcome, Alike
  <2> QED BY <1>4, <2>2, WritesKind DEF Copyless, Run_kind
<1> QED BY <1>1, <1>2, <1>3, <1>4 DEF finish_edit_edit

LEMMA SavesKind ==
  ASSUME IInv, Typed, NEW r \in Runs, run[r].op \in {"create", "kahoot"}, Saves(r),
         drift' = (drift \/ (run[r].op = "create" /\ run[r].quiz \notin fresh))
  PROVE  Run_kind(r)
<1> DEFINE q == run[r].quiz
<1>1. /\ run[r].pc = "save" /\ fresh' = fresh \ {q}
      /\ UNCHANGED <<torn, index, links, ratings, session, listed, job>>
  BY DEF Saves
<1>2. q \in Quizzes
  BY DEF Typed, RunTyped
<1>3. CASE quiz[q] # Nothing
  <2>1. q \in Stored /\ q \notin fresh
    BY <1>2, <1>3 DEF Stored, Typed, Tables
  <2>2. fresh' = fresh /\ UNCHANGED quiz /\ Over(r)
    BY <1>1, <1>3, <2>1, EndsFields DEF Saves
  <2>3. drift' = (drift \/ run[r].op = "create")
    BY <2>1
  <2> QED BY <1>1, <2>1, <2>2, <2>3 DEF Collides, Run_kind
<1>4. CASE quiz[q] = Nothing
  <2>1. q \notin Stored
    BY <1>4 DEF Stored
  <2>2. /\ quiz' = [quiz EXCEPT ![q] = run[r].new]
        /\ run' = [run EXCEPT ![r].pc = "link", ![r].todo = run[r].new.images]
    BY <1>4 DEF Saves
  <2>3. Row(q, run[r].new)
    BY <1>2, <2>2 DEF Row, IInv, RowsSound
  <2> QED BY <1>1, <2>1, <2>2, <2>3, CarriesFields DEF Saves_row, Run_kind
<1> QED BY <1>3, <1>4

LEMMA LinksKind == ASSUME IInv, Typed, NEW r \in Runs, Links(r) PROVE Run_kind(r)
<1> DEFINE q == run[r].quiz
<1>1. /\ run[r].pc = "link"
      /\ UNCHANGED <<quiz, torn, drift, fresh, index, ratings, session, listed, job>>
  BY DEF Links, rows
<1>2. CASE run[r].todo = {} \/ q \notin Stored
  BY <1>1, <1>2, EndsFields DEF Links, Gives_up, Run_kind
<1>3. CASE ~(run[r].todo = {} \/ q \notin Stored)
  <2>1. PICK i \in run[r].todo : /\ links' = [links EXCEPT ![q] = @ \cup {i}]
                                 /\ run' = [run EXCEPT ![r].todo = @ \ {i}]
    BY <1>3 DEF Links
  <2>2. Carries(r, "link", run[r].todo \ {i})
    BY <1>1, <2>1 DEF IInv, RunsSound, RunOK, RunFields, Carries, Others
  <2> QED BY <1>1, <1>3, <2>1, <2>2 DEF Adds_link, Run_kind
<1> QED BY <1>2, <1>3

LEMMA CreateKind == ASSUME IInv, Typed, NEW r \in Runs, finish_edit_create(r) PROVE Run_kind(r)
<1>1. CASE /\ At(r, "create", "index")
           /\ index' = IF run[r].new.public THEN index \cup {run[r].quiz} ELSE index
           /\ Goes(r, "close")
           /\ UNCHANGED <<rows, fresh, links, ratings, session, listed, job, restarts>>
  BY <1>1, GoesFields DEF At, rows, Indexes, Run_kind
<1>2. CASE run[r].op = "create" /\ closes_session(r, "save")
  BY <1>2, ClosesKind
<1>3. CASE run[r].op = "create" /\ Saves(r) /\ drift' = (drift \/ run[r].quiz \notin fresh)
  <2>1. drift' = (drift \/ (run[r].op = "create" /\ run[r].quiz \notin fresh))
    BY <1>3
  <2> QED BY <1>3, <2>1, SavesKind
<1>4. CASE run[r].op = "create" /\ Links(r)
  BY <1>4, LinksKind
<1> QED BY <1>1, <1>2, <1>3, <1>4 DEF finish_edit_create

LEMMA DeleteKind == ASSUME IInv, Typed, NEW r \in Runs, delete_quiz(r) PROVE Run_kind(r)
<1> DEFINE q == run[r].quiz
<1>1. CASE Reads(r, "delete", "index", Stored)
  BY <1>1, ReadsKind DEF First_stage, Run_kind
<1>2. CASE /\ At(r, "delete", "index") /\ index' = index \ {q} /\ Goes(r, "row")
           /\ UNCHANGED <<rows, fresh, links, ratings, session, listed, job, restarts>>
  BY <1>2, GoesFields DEF At, rows, Indexes, Run_kind
<1>3. CASE ~(Reads(r, "delete", "index", Stored)) /\ At(r, "delete", "row")
  <2>1. /\ IF Rateless(q)
           THEN quiz' = [quiz EXCEPT ![q] = Nothing] /\ links' = [links EXCEPT ![q] = {}]
           ELSE UNCHANGED <<quiz, links>>
        /\ drift' = (drift \/ quiz[q] # run[r].copy \/ ~Rateless(q))
        /\ Ends(r)
        /\ UNCHANGED <<torn, fresh, index, ratings, session, listed, job>>
        /\ run[r].op = "delete" /\ run[r].pc = "row"
    BY <1>3 DEF delete_quiz, At
  <2>2. q \in Quizzes
    BY <2>1 DEF Typed, RunTyped
  <2>3. Rateless(q) => Row(q, Nothing)
    BY <2>1, <2>2 DEF Row, IInv, RowsSound
  <2> QED BY <2>1, <2>3, EndsFields DEF Deletes_row, Run_kind
<1> QED BY <1>1, <1>2, <1>3 DEF delete_quiz

LEMMA KahootKind == ASSUME IInv, Typed, NEW r \in Runs, import_kahoot(r) PROVE Run_kind(r)
<1>1. CASE /\ run[r].pc = "idle"
           /\ \E q \in fresh, images \in SUBSET Images :
                /\ \A e \in Edits : session[e].quiz # q
                /\ fresh' = fresh \ {q}
                /\ run' = [run EXCEPT ![r] = [Idle EXCEPT !.op = "kahoot", !.pc = "index", !.quiz = q,
                                                !.new = Blank(r, FALSE, images, TRUE)]]
           /\ index' = {} /\ drift' = TRUE
           /\ UNCHANGED <<quiz, torn, links, ratings, session, listed, job, restarts>>
  <2>1. PICK q \in fresh, images \in SUBSET Images :
          /\ fresh' = fresh \ {q}
          /\ run' = [run EXCEPT ![r] = [Idle EXCEPT !.op = "kahoot", !.pc = "index", !.quiz = q,
                                          !.new = Blank(r, FALSE, images, TRUE)]]
    BY <1>1
  <2> DEFINE b == Blank(r, FALSE, images, TRUE)
  <2>2. b \in Rows /\ b.by = r /\ b.likes = 0 /\ b.dislikes = 0
    BY DEF Rows, Writers, Blank
  <2> HIDE DEF b
  <2>3. /\ Others(r) /\ run'[r].op = "kahoot" /\ run'[r].pc = "index" /\ run'[r].quiz = q
        /\ run'[r].copy = Nothing /\ run'[r].new = b
    BY <2>1 DEF b, IInv, RunsSound, Others, Idle
  <2>4. RunTyped(r, run'[r])
    BY <2>2, <2>3 DEF Typed, Tables, RunTyped, Staged, Copyless, Writing
  <2> QED BY <1>1, <2>1, <2>3, <2>4 DEF Kahoot, Run_kind
<1>2. CASE /\ At(r, "kahoot", "index") /\ index' = index \cup {run[r].quiz} /\ drift' = TRUE
           /\ Goes(r, "save")
           /\ UNCHANGED <<quiz, torn, fresh, links, ratings, session, listed, job, restarts>>
  BY <1>2, GoesFields DEF At, Kahoot, Run_kind
<1>3. CASE run[r].op = "kahoot" /\ Saves(r) /\ UNCHANGED drift
  <2>1. drift' = (drift \/ (run[r].op = "create" /\ run[r].quiz \notin fresh))
    BY <1>3, Zenon DEF Typed, Tables
  <2> QED BY <1>3, <2>1, SavesKind
<1>4. CASE run[r].op = "kahoot" /\ Links(r)
  BY <1>4, LinksKind
<1> QED BY <1>1, <1>2, <1>3, <1>4 DEF import_kahoot

LEMMA HandlerKinds == ASSUME IInv, Typed, NEW r \in Runs, Handler(r) PROVE Run_kind(r)
BY ViewKind, ModerateKind, RateKind, BeginsEditKind, EditKind, CreateKind, DeleteKind, ArchiveKind,
   KahootKind, SheetKind DEF Handler, finish_edit

LEMMA JobEnds ==
  ASSUME IInv, NEW r \in Runs, job' = [job EXCEPT ![r] = [NoJob EXCEPT !.pc = "done"]]
  PROVE  Job_over(r)
BY DEF IInv, JobsSound, Job, Job_over, NoJob

LEMMA JobKinds == ASSUME IInv, Typed, NEW r \in Runs, quiz_update(r) PROVE Job_kind(r)
<1> DEFINE j == job[r]
           q == j.quiz
<1>0. DOMAIN j = JobFields /\ JobTyped(j)
  BY DEF IInv, JobsSound, JobOK, Typed
<1>1. CASE j.pc = "queued"
  <2>1. /\ torn' = IF At(r, "none", "done") THEN torn ELSE torn \cup {q}
        /\ UNCHANGED <<quiz, drift, fresh, index, links, ratings, session, listed, run>>
    BY <1>1 DEF quiz_update
  <2>2. CASE q \notin Stored \/ quiz[q].images = j.old
    <3>1. job' = [job EXCEPT ![r] = [NoJob EXCEPT !.pc = "done"]]
      BY <1>1, <2>2 DEF quiz_update
    <3> QED BY <1>1, <2>1, <2>2, <3>1, JobEnds DEF Job_begins, Job_kind
  <2>3. CASE ~(q \notin Stored \/ quiz[q].images = j.old)
    <3>1. job' = [job EXCEPT ![r] = [j EXCEPT !.pc = "remove", !.copy = quiz[q], !.todo = j.old \ quiz[q].images]]
      BY <1>1, <2>3 DEF quiz_update
    <3>2. Job(r, "remove", j.old, quiz[q], j.old \ quiz[q].images, j.changed)
      BY <1>0, <3>1 DEF Job, IInv, JobsSound, JobFields
    <3> QED BY <1>1, <2>1, <2>3, <3>2 DEF Job_begins, Job_kind
  <2> QED BY <2>2, <2>3
<1>2. CASE j.pc = "remove"
  <2>1. UNCHANGED <<quiz, torn, drift, fresh, index, ratings, session, listed, run>>
    BY <1>2 DEF quiz_update, rows
  <2>2. CASE j.todo = {}
    <3>1. job' = [job EXCEPT ![r].pc = "add", ![r].todo = Added(j)] /\ UNCHANGED links
      BY <1>2, <2>2 DEF quiz_update
    <3>2. Job(r, "add", j.old, j.copy, Added(j), j.changed)
      BY <1>0, <3>1 DEF Job, IInv, JobsSound, JobFields
    <3> QED BY <1>2, <2>1, <2>2, <3>1, <3>2 DEF Job_removes, Job_kind
  <2>3. CASE j.todo # {}
    <3>1. PICK i \in j.todo, refused \in BOOLEAN :
            /\ i \notin links[q] => refused
            /\ links' = IF refused THEN links ELSE [links EXCEPT ![q] = @ \ {i}]
            /\ job' = [job EXCEPT ![r].todo = @ \ {i}, ![r].changed = @ \/ ~refused]
      BY <1>2, <2>3 DEF quiz_update
    <3>2. CASE refused
      <4>1. Job(r, "remove", j.old, j.copy, j.todo \ {i}, j.changed \/ FALSE)
        BY <1>0, <1>2, <3>1, <3>2 DEF Job, IInv, JobsSound, JobFields
      <4>2. (j.changed \/ FALSE) = j.changed
        BY <1>0, Zenon DEF JobTyped
      <4>3. Job(r, "remove", j.old, j.copy, j.todo \ {i}, j.changed)
        BY <4>1, <4>2
      <4> QED BY <1>2, <2>1, <3>1, <3>2, <4>3 DEF Job_removes, Job_kind
    <3>3. CASE ~refused
      <4>1. Job(r, "remove", j.old, j.copy, j.todo \ {i}, j.changed \/ TRUE)
        BY <1>0, <1>2, <3>1, <3>3 DEF Job, IInv, JobsSound, JobFields
      <4>2. Job(r, "remove", j.old, j.copy, j.todo \ {i}, TRUE)
        BY <4>1
      <4> QED BY <1>2, <2>1, <3>1, <3>3, <4>2 DEF Job_removes, Job_kind
    <3> QED BY <3>2, <3>3
  <2> QED BY <2>2, <2>3
<1>3. CASE j.pc = "add"
  <2>1. UNCHANGED <<quiz, torn, drift, fresh, index, ratings, session, listed, run>>
    BY <1>3 DEF quiz_update, rows
  <2>2. CASE (j.todo = {} \/ q \notin Stored) /\ j.changed /\ ~(q \notin Stored)
    <3>1. job' = [job EXCEPT ![r] = [j EXCEPT !.pc = "write"]] /\ UNCHANGED links
      BY <1>3, <2>2 DEF quiz_update
    <3>2. Job(r, "write", j.old, j.copy, j.todo, j.changed)
      BY <1>0, <3>1 DEF Job, IInv, JobsSound, JobFields
    <3> QED BY <1>3, <2>1, <2>2, <3>1, <3>2 DEF Job_adds, Job_kind
  <2>3. CASE (j.todo = {} \/ q \notin Stored) /\ ~(j.changed /\ ~(q \notin Stored))
    <3>1. job' = [job EXCEPT ![r] = [NoJob EXCEPT !.pc = "done"]] /\ UNCHANGED links
      BY <1>3, <2>3 DEF quiz_update
    <3> QED BY <1>3, <2>1, <2>3, <3>1, JobEnds DEF Job_adds, Job_kind
  <2>4. CASE ~(j.todo = {} \/ q \notin Stored)
    <3>1. PICK i \in j.todo : /\ links' = [links EXCEPT ![q] = @ \cup {i}]
                              /\ job' = [job EXCEPT ![r].todo = @ \ {i}, ![r].changed = TRUE]
      BY <1>3, <2>4 DEF quiz_update
    <3>2. Job(r, "add", j.old, j.copy, j.todo \ {i}, TRUE)
      BY <1>0, <1>3, <3>1 DEF Job, IInv, JobsSound, JobFields
    <3> QED BY <1>3, <2>1, <2>4, <3>1, <3>2 DEF Job_adds, Job_kind
  <2> QED BY <2>2, <2>3, <2>4
<1>4. CASE j.pc = "write"
  <2>1. /\ Updates(q, j.copy, j.copy)
        /\ job' = [job EXCEPT ![r] = [NoJob EXCEPT !.pc = "done"]]
        /\ UNCHANGED <<fresh, index, links, ratings, session, listed, run>>
    BY <1>4 DEF quiz_update
  <2>2. q \in Quizzes /\ j.copy \in Rows
    BY <1>0, <1>4 DEF JobTyped, Working
  <2>3. IF quiz[q] = j.copy THEN Row(q, j.copy) /\ UNCHANGED <<torn, drift>>
        ELSE Row(q, IF quiz[q] = Nothing THEN Nothing ELSE j.copy) /\ torn' = torn \cup {q} /\ drift' = TRUE
    BY <2>1, <2>2, UpdatesFields, NotNothing
  <2>4. quiz[q] = j.copy => quiz' = quiz
    BY <2>1, <2>2, NotNothing DEF Updates, IInv, RowsSound
  <2> QED BY <1>4, <2>1, <2>3, <2>4, JobEnds DEF Job_writes, Job_kind
<1> QED BY <1>1, <1>2, <1>3, <1>4 DEF quiz_update

LEMMA EditorKind ==
  ASSUME IInv, Typed, NEW e \in Edits, init_editor(e) \/ SessionExpires(e) \/ clean_editor_images_up(e)
  PROVE  Editor_step
<1> USE DEF Typed, Tables, Editor_step
<1>1. UNCHANGED <<quiz, torn, drift, fresh, index, links, ratings, job, run>>
  BY DEF init_editor, SessionExpires, clean_editor_images_up, rows
<1>2. CASE init_editor(e)
  <2>1. listed' \subseteq Edits
    BY <1>2 DEF init_editor
  <2>2. CASE \E q \in Stored \cup fresh :
               session' = [session EXCEPT ![e] = [pc |-> "added", quiz |-> q, edit |-> q \in Stored]]
    <3>1. PICK q \in Stored \cup fresh :
            session' = [session EXCEPT ![e] = [pc |-> "added", quiz |-> q, edit |-> q \in Stored]]
      BY <2>2
    <3>2. q \in Quizzes /\ (q \in Stored) \in BOOLEAN
      BY DEF Stored
    <3>3. [pc |-> "added", quiz |-> q, edit |-> q \in Stored]
            \in [pc : {"none", "added", "open", "gone"}, quiz : Quizzes \cup {Nothing}, edit : BOOLEAN]
      BY <3>2
    <3> QED BY <1>1, <2>1, <3>1, <3>2, <3>3
  <2>3. CASE session[e].pc = "added" /\ session' = [session EXCEPT ![e].pc = "open"]
    BY <1>1, <2>1, <2>3
  <2> QED BY <1>2, <2>2, <2>3 DEF init_editor
<1>3. CASE SessionExpires(e)
  BY <1>1, <1>3 DEF SessionExpires
<1>4. CASE clean_editor_images_up(e)
  BY <1>1, <1>4 DEF clean_editor_images_up
<1> QED BY <1>2, <1>3, <1>4

LEMMA RestartKind == ASSUME IInv, Typed, meilisearch_init PROVE Restarted
<1>1. run' = [r \in Runs |-> IF r \in Active THEN [Idle EXCEPT !.pc = "done"] ELSE run[r]]
  BY DEF meilisearch_init
<1>2. torn' = torn \cup {run[r].quiz : r \in Active}
  BY DEF meilisearch_init
<1>3. \A r \in Runs : \/ run'[r] = run[r] /\ run[r].pc \in {"idle", "done"}
                      \/ /\ run[r].pc \notin {"idle", "done"} /\ run[r].quiz \in torn'
                         /\ run'[r].op = "none" /\ run'[r].pc = "done" /\ run'[r].copy = Nothing
  BY <1>1, <1>2 DEF Active, Idle
<1>4. torn \subseteq torn' /\ torn' \subseteq Quizzes
  BY <1>2 DEF Active, Typed, Tables, RunTyped, Staged
<1>5. \/ drift' = drift /\ UNCHANGED index /\ \A r \in Runs : run[r].pc \in {"idle", "done"}
      \/ drift' = TRUE /\ UNCHANGED index
      \/ drift' = FALSE /\ index' = Public
  <2>1. CASE Cardinality(index) = Cardinality(Public)
    <3>1. drift' = (drift \/ Active # {}) /\ UNCHANGED index
      BY <2>1 DEF meilisearch_init
    <3>2. CASE Active = {}
      BY <3>1, <3>2, Zenon DEF Active, Typed, Tables
    <3>3. CASE Active # {}
      BY <3>1, <3>3, Zenon
    <3> QED BY <3>2, <3>3
  <2>2. CASE Cardinality(index) # Cardinality(Public)
    BY <2>2 DEF meilisearch_init
  <2> QED BY <2>1, <2>2
<1>6. session' = [e \in Edits |-> IF session[e].pc = "added" THEN [session[e] EXCEPT !.pc = "gone"]
                                  ELSE session[e]]
  BY DEF meilisearch_init
<1>7. /\ session' \in [Edits -> [pc : {"none", "added", "open", "gone"}, quiz : Quizzes \cup {Nothing}, edit : BOOLEAN]]
      /\ \A e \in Edits : session'[e].pc \in {"added", "open"} => session'[e].quiz \in Quizzes
  BY <1>6 DEF Typed, Tables
<1>8. UNCHANGED <<quiz, fresh, links, ratings, listed, job>>
  BY DEF meilisearch_init
<1> QED BY <1>3, <1>4, <1>5, <1>7, <1>8 DEF Restarted

\* Every step is one of these.
Kind == (\E r \in Runs : Run_kind(r) \/ Job_kind(r)) \/ Editor_step \/ Restarted

LEMMA NextKinds == ASSUME IInv, Typed, Next PROVE Kind
BY HandlerKinds, JobKinds, EditorKind, RestartKind DEF Next, Kind

(***************************************************************************)
(* Types.                                                                  *)
(***************************************************************************)
LEMMA CarriedTyped ==
  ASSUME Typed, NEW r \in Runs, NEW pc, NEW todo, Carries(r, pc, todo), Staged(run[r].op, pc),
         pc # "own", pc = "link" => todo \subseteq Images,
         run[r].op = "rate" => \A y \in todo : y.quiz = run[r].quiz
  PROVE  \A s \in Runs : RunTyped(s, run'[s])
BY DEF Typed, RunTyped, Carries, Others

LEMMA OverTyped ==
  ASSUME Typed, NEW r \in Runs, Over(r) PROVE \A s \in Runs : RunTyped(s, run'[s])
BY DEF Typed, RunTyped, Over, Others, Staged, Copyless, Writing

LEMMA RowTyped ==
  ASSUME Tables, NEW q \in Quizzes, NEW x \in Rows \cup {Nothing}, Row(q, x)
  PROVE  /\ \A p \in Quizzes : quiz'[p] \in Rows \cup {Nothing}
         /\ x # Nothing => Stored' = Stored \cup {q}
         /\ x = Nothing => Stored' = Stored \ {q}
BY DEF Tables, Row, Stored

LEMMA SameRows == ASSUME UNCHANGED quiz PROVE Stored' = Stored
BY DEF Stored

\* The tables as they are left when only runs, jobs, index, marks move.
LEMMA TablesStay ==
  ASSUME Tables, UNCHANGED <<quiz, fresh, links, ratings, session, listed>>,
         index' \subseteq Quizzes, torn' \subseteq Quizzes, drift' \in BOOLEAN
  PROVE  Tables'
BY SameRows DEF Tables

LEMMA RunKindTyped == ASSUME Typed, NEW r \in Runs, Run_kind(r), JobTyped(job[r]) PROVE Typed'
<1> DEFINE q == run[r].quiz
<1>0. Tables /\ RunTyped(r, run[r]) /\ \A s \in Runs : JobTyped(job[s])
  BY DEF Typed
<1>1. CASE Begins(r)
  <2>1. Tables'
    BY <1>0, <1>1, TablesStay DEF Begins, Tables
  <2>2. \A s \in Runs : RunTyped(s, run'[s])
    BY <1>1 DEF Begins, Others, Typed
  <2> QED BY <1>0, <1>1, <2>1, <2>2 DEF Begins, Typed, RunTyped
<1>2. CASE Gives_up(r) \/ Collides(r)
  <2>1. Tables'
    BY <1>0, <1>2, TablesStay DEF Gives_up, Collides, Tables
  <2>2. \A s \in Runs : RunTyped(s, run'[s])
    BY <1>2, OverTyped DEF Gives_up, Collides
  <2>3. UNCHANGED job
    BY <1>2 DEF Gives_up, Collides
  <2> QED BY <1>0, <2>1, <2>2, <2>3 DEF Typed, RunTyped
<1>3. CASE Writes_back(r)
  <2>1. q \in Quizzes
    BY <1>0, <1>3 DEF Writes_back, RunTyped, Copyless
  <2>2. PICK row : /\ Outcome(r, row)
                   /\ \/ quiz[q] = run[r].copy /\ Row(q, row) /\ UNCHANGED <<torn, drift>>
                      \/ Row(q, IF quiz[q] = Nothing THEN Nothing ELSE row) /\ torn' = torn \cup {q} /\ drift' = TRUE
    BY <1>3, Zenon DEF Writes_back
  <2>3. row \in Rows /\ row # Nothing
    BY <2>2, NotNothing DEF Outcome
  <2>4. quiz[q] = run[r].copy => q \in Stored
    BY <1>0, <1>3, <2>1, NotNothing DEF Writes_back, RunTyped, Stored
  <2>5. Stored' = Stored /\ \A p \in Quizzes : quiz'[p] \in Rows \cup {Nothing}
    <3>1. CASE Row(q, row) /\ q \in Stored
      BY <1>0, <2>1, <2>3, <3>1, RowTyped
    <3>2. CASE Row(q, Nothing) /\ quiz[q] = Nothing
      BY <1>0, <2>1, <3>2, RowTyped DEF Stored
    <3> QED BY <2>1, <2>2, <2>4, <3>1, <3>2 DEF Stored
  <2>6. torn' \subseteq Quizzes /\ drift' \in BOOLEAN
    BY <1>0, <2>1, <2>2 DEF Tables
  <2>7. UNCHANGED <<fresh, index, links, ratings, session, listed, job>>
    BY <1>3 DEF Writes_back
  <2>8. Tables'
    BY <1>0, <2>5, <2>6, <2>7 DEF Tables
  <2>9. \A s \in Runs : RunTyped(s, run'[s])
    BY <1>3, OverTyped DEF Writes_back
  <2> QED BY <1>0, <2>7, <2>8, <2>9 DEF Typed, RunTyped
<1>4. CASE Finds_own(r) \/ Indexes(r)
  <2>1. index' \subseteq Quizzes
    BY <1>0, <1>4 DEF Finds_own, Indexes, Reindexed, Tables, RunTyped
  <2>2. Tables'
    BY <1>0, <1>4, <2>1, TablesStay DEF Finds_own, Indexes, Tables
  <2>3. \A s \in Runs : RunTyped(s, run'[s])
    BY <1>0, <1>4, CarriedTyped DEF Finds_own, Indexes, Goes_on, Staged, For, Against, RunTyped
  <2>4. UNCHANGED job
    BY <1>4 DEF Finds_own, Indexes
  <2> QED BY <1>0, <2>2, <2>3, <2>4 DEF Typed, RunTyped
<1>5. CASE Takes_back(r)
  <2>1. ratings' \subseteq ratings /\ IsFiniteSet(ratings')
    BY <1>0, <1>5, FS_Subset DEF Takes_back, Tables
  <2>2. Tables'
    BY <1>0, <1>5, <2>1, SameRows DEF Takes_back, Tables
  <2>3. \A s \in Runs : RunTyped(s, run'[s])
    BY <1>0, <1>5, CarriedTyped DEF Takes_back, Goes_on, Staged, RunTyped
  <2> QED BY <1>0, <1>5, <2>2, <2>3 DEF Takes_back, Typed, RunTyped
<1>6. CASE Adds_own(r)
  <2> DEFINE y == [id |-> r, quiz |-> q, user |-> run[r].user, positive |-> run[r].positive]
  <2>1. y \in Ratings /\ y.quiz \in Stored
    BY <1>0, <1>6 DEF Adds_own, RunTyped, Ratings, Stored
  <2>2. ratings' = ratings \cup {y}
    BY <1>6 DEF Adds_own
  <2> HIDE DEF y
  <2>3. IsFiniteSet(ratings')
    BY <1>0, <2>2, FS_AddElement DEF Tables
  <2>4. Tables'
    BY <1>0, <1>6, <2>1, <2>2, <2>3, SameRows DEF Adds_own, Tables
  <2>5. \A s \in Runs : RunTyped(s, run'[s])
    BY <1>0, <1>6, CarriedTyped DEF Adds_own, Goes_on, Staged, RunTyped
  <2> QED BY <1>0, <1>6, <2>4, <2>5 DEF Adds_own, Typed, RunTyped
<1>7. CASE Enqueues(r)
  <2>1. Tables'
    BY <1>0, <1>7, TablesStay DEF Enqueues, Tables
  <2>2. \A s \in Runs : RunTyped(s, run'[s])
    BY <1>7, CarriedTyped DEF Enqueues, Goes_on, Staged
  <2>3. run[r].copy.images \subseteq Images /\ q \in Quizzes
    BY <1>0, <1>7 DEF Enqueues, RunTyped, Copyless, Rows
  <2>4. \A s \in Runs : JobTyped(job'[s])
    BY <1>0, <1>7, <2>3 DEF Enqueues, JobTyped, Working
  <2> QED BY <2>1, <2>2, <2>4 DEF Typed, RunTyped, JobTyped
<1>8. CASE Closes(r)
  <2> DEFINE e == run[r].edit
  <2>1. /\ e \in Edits /\ session' = [session EXCEPT ![e].pc = "gone"] /\ listed' = listed \ {e}
        /\ UNCHANGED <<quiz, torn, drift, fresh, index, links, ratings, job>>
    BY <1>0, <1>8 DEF Closes, RunTyped
  <2> HIDE DEF e
  <2>4. /\ session' \in [Edits -> [pc : {"none", "added", "open", "gone"}, quiz : Quizzes \cup {Nothing}, edit : BOOLEAN]]
        /\ \A f \in Edits : session'[f].pc \in {"added", "open"} => session'[f].quiz \in Quizzes
    BY <1>0, <2>1 DEF Tables
  <2>2. Tables'
    BY <1>0, <2>1, <2>4, SameRows DEF Tables
  <2>3. \A s \in Runs : RunTyped(s, run'[s])
    BY <1>8, CarriedTyped DEF Closes, Goes_on, Staged
  <2> QED BY <1>0, <1>8, <2>2, <2>3 DEF Closes, Typed, RunTyped
<1>9. CASE Saves_row(r)
  <2> DEFINE n == run[r].new
  <2>1. n \in Rows /\ n # Nothing /\ q \in Quizzes /\ n.images \subseteq Images
    BY <1>0, <1>9, NotNothing DEF Saves_row, RunTyped, Writing, Rows
  <2>2. Stored' = Stored \cup {q} /\ \A p \in Quizzes : quiz'[p] \in Rows \cup {Nothing}
    BY <1>0, <1>9, <2>1, RowTyped DEF Saves_row
  <2>3. drift' \in BOOLEAN /\ fresh' = fresh \ {q} /\ UNCHANGED <<torn, index, links, ratings, session, listed, job>>
    BY <1>9 DEF Saves_row
  <2>4. Tables'
    BY <1>0, <2>1, <2>2, <2>3 DEF Tables
  <2>5. \A s \in Runs : RunTyped(s, run'[s])
    BY <1>9, <2>1, CarriedTyped DEF Saves_row, Staged
  <2> QED BY <1>0, <2>3, <2>4, <2>5 DEF Typed, RunTyped
<1>10. CASE Adds_link(r)
  <2>1. PICK i \in run[r].todo : /\ links' = [links EXCEPT ![q] = @ \cup {i}]
                                 /\ Carries(r, "link", run[r].todo \ {i})
    BY <1>10 DEF Adds_link
  <2>2. q \in Stored /\ run[r].pc = "link" /\ run[r].todo \subseteq Images
    BY <1>0, <1>10 DEF Adds_link, RunTyped
  <2>3. /\ links' \in [Quizzes -> SUBSET Images]
        /\ \A p \in Quizzes : p \notin Stored => links'[p] = {}
    BY <1>0, <2>1, <2>2 DEF Tables, Stored
  <2>4. Tables'
    BY <1>0, <1>10, <2>3, SameRows DEF Adds_link, Tables
  <2>5. \A s \in Runs : RunTyped(s, run'[s])
    BY <1>0, <2>1, <2>2, CarriedTyped DEF RunTyped, Staged
  <2> QED BY <1>0, <1>10, <2>4, <2>5 DEF Adds_link, Typed, RunTyped
<1>11. CASE Deletes_row(r)
  <2>1. q \in Quizzes /\ \A s \in Runs : RunTyped(s, run'[s])
    BY <1>0, <1>11, OverTyped DEF Deletes_row, RunTyped
  <2>2. drift' \in BOOLEAN /\ UNCHANGED <<torn, fresh, index, ratings, session, listed, job>>
    BY <1>11 DEF Deletes_row
  <2>3. CASE Rateless(q)
    <3>1. Row(q, Nothing) /\ links' = [links EXCEPT ![q] = {}]
      BY <1>11, <2>3 DEF Deletes_row
    <3>2. Stored' = Stored \ {q} /\ \A p \in Quizzes : quiz'[p] \in Rows \cup {Nothing}
      BY <1>0, <2>1, <3>1, RowTyped
    <3>3. Tables'
      BY <1>0, <2>1, <2>2, <2>3, <3>1, <3>2 DEF Tables, Rateless
    <3> QED BY <1>0, <2>1, <2>2, <3>3 DEF Typed, RunTyped
  <2>4. CASE ~Rateless(q)
    <3>1. Tables'
      BY <1>0, <1>11, <2>2, <2>4, TablesStay DEF Deletes_row, Tables
    <3> QED BY <1>0, <2>1, <2>2, <3>1 DEF Typed, RunTyped
  <2> QED BY <2>3, <2>4
<1>12. CASE Imports(r)
  <2>1. PICK p \in fresh, row \in Rows : /\ Row(p, row) /\ fresh' = fresh \ {p} /\ drift' = (drift \/ row.public)
    BY <1>12 DEF Imports
  <2>2. p \in Quizzes /\ row # Nothing
    BY <1>0, NotNothing DEF Tables
  <2>3. Stored' = Stored \cup {p} /\ \A a \in Quizzes : quiz'[a] \in Rows \cup {Nothing}
    BY <1>0, <2>1, <2>2, RowTyped
  <2>4. Tables'
    BY <1>0, <1>12, <2>1, <2>2, <2>3 DEF Tables, Imports
  <2>5. \A s \in Runs : RunTyped(s, run'[s])
    BY <1>12, OverTyped DEF Imports
  <2> QED BY <1>0, <1>12, <2>4, <2>5 DEF Imports, Typed, RunTyped
<1>13. CASE Kahoot(r)
  <2>1. \A s \in Runs : RunTyped(s, run'[s])
    BY <1>13, CarriedTyped DEF Kahoot, Goes_on, Staged, Others, Typed
  <2>2. /\ fresh' \subseteq fresh /\ index' \subseteq Quizzes /\ drift' = TRUE
        /\ UNCHANGED <<quiz, torn, links, ratings, session, listed, job>>
    BY <1>0, <1>13 DEF Kahoot, RunTyped, Tables
  <2>3. Tables'
    BY <1>0, <2>2, SameRows DEF Tables
  <2> QED BY <1>0, <2>1, <2>2, <2>3 DEF Typed, RunTyped
<1> QED BY <1>1, <1>2, <1>3, <1>4, <1>5, <1>6, <1>7, <1>8, <1>9, <1>10, <1>11, <1>12, <1>13 DEF Run_kind

LEMMA JobKindTyped == ASSUME Typed, NEW r \in Runs, Job_kind(r) PROVE Typed'
<1> DEFINE j == job[r]
           q == j.quiz
<1>0. Tables /\ JobTyped(j) /\ (\A s \in Runs : RunTyped(s, run[s])) /\ \A s \in Runs : JobTyped(job[s])
  BY DEF Typed
<1>1. ASSUME NEW pc, NEW old, NEW copy, NEW todo, NEW changed, Job(r, pc, old, copy, todo, changed),
             pc \in {"done"} \cup Working, changed \in BOOLEAN,
             pc # "done" => q \in Quizzes /\ old \subseteq Images /\ todo \subseteq Images,
             IF pc \in Working THEN copy \in Rows ELSE copy = Nothing
      PROVE  \A s \in Runs : JobTyped(job'[s])
  BY <1>0, <1>1 DEF Job, JobTyped, Working
<1>2. ASSUME Job_over(r) PROVE \A s \in Runs : JobTyped(job'[s])
  BY <1>1, <1>2 DEF Job_over, Working
<1>3. UNCHANGED run /\ (\A s \in Runs : RunTyped(s, run'[s]))
  BY <1>0 DEF Job_kind, Job_begins, Job_removes, Job_adds, Job_writes
<1>4. ASSUME Tables', \A s \in Runs : JobTyped(job'[s]) PROVE Typed'
  BY <1>3, <1>4 DEF Typed, JobTyped
<1>5. CASE Job_begins(r)
  <2>1. /\ q \in Quizzes /\ j.old \subseteq Images /\ j.changed \in BOOLEAN /\ j.pc = "queued"
        /\ UNCHANGED <<quiz, drift, fresh, index, links, ratings, session, listed>>
    BY <1>0, <1>5 DEF Job_begins, JobTyped
  <2>2. Tables'
    BY <1>0, <1>5, <2>1, TablesStay DEF Job_begins, Tables
  <2>3. CASE q \in Stored /\ Job(r, "remove", j.old, quiz[q], j.old \ quiz[q].images, j.changed)
    <3>1. quiz[q] \in Rows /\ (j.old \ quiz[q].images) \subseteq Images
      BY <1>0, <2>1, <2>3 DEF Stored, Tables
    <3>2. \A s \in Runs : JobTyped(job'[s])
      BY <1>1, <2>1, <2>3, <3>1 DEF Working
    <3> QED BY <1>4, <2>2, <3>2
  <2> QED BY <1>2, <1>4, <1>5, <2>2, <2>3 DEF Job_begins
<1>6. CASE Job_removes(r)
  <2>1. /\ q \in Quizzes /\ j.old \subseteq Images /\ j.changed \in BOOLEAN /\ j.pc = "remove"
        /\ j.copy \in Rows /\ j.todo \subseteq Images /\ Added(j) \subseteq Images
        /\ UNCHANGED <<quiz, torn, drift, fresh, index, ratings, session, listed>>
    BY <1>0, <1>6 DEF Job_removes, JobTyped, Working, Added, Rows
  <2>2. links' \in [Quizzes -> SUBSET Images] /\ \A p \in Quizzes : links'[p] \subseteq links[p]
    <3>1. links' = links \/ \E i : links' = [links EXCEPT ![q] = @ \ {i}]
      BY <1>6 DEF Job_removes
    <3>2. links \in [Quizzes -> SUBSET Images]
      BY <1>0 DEF Tables
    <3> HIDE DEF q
    <3> QED BY <2>1, <3>1, <3>2
  <2>3. Tables'
    BY <1>0, <2>1, <2>2, SameRows DEF Tables
  <2>4. \A i : (j.todo \ {i}) \subseteq Images
    BY <2>1
  <2>5. \A s \in Runs : JobTyped(job'[s])
    BY <1>1, <1>6, <2>1, <2>4 DEF Job_removes, Working
  <2> QED BY <1>4, <2>3, <2>5
<1>7. CASE Job_adds(r)
  <2>1. /\ q \in Quizzes /\ j.old \subseteq Images /\ j.changed \in BOOLEAN /\ j.pc = "add"
        /\ j.copy \in Rows /\ j.todo \subseteq Images
        /\ UNCHANGED <<quiz, torn, drift, fresh, index, ratings, session, listed>>
    BY <1>0, <1>7 DEF Job_adds, JobTyped, Working
  <2>2. /\ links' \in [Quizzes -> SUBSET Images]
        /\ \A p \in Quizzes : p \notin Stored => links'[p] = {}
    <3>1. links' = links \/ \E i \in Images : q \in Stored /\ links' = [links EXCEPT ![q] = @ \cup {i}]
      BY <1>7, <2>1 DEF Job_adds
    <3>2. links \in [Quizzes -> SUBSET Images] /\ \A p \in Quizzes : p \notin Stored => links[p] = {}
      BY <1>0 DEF Tables
    <3> HIDE DEF q
    <3> QED BY <2>1, <3>1, <3>2
  <2>3. Tables'
    BY <1>0, <2>1, <2>2, SameRows DEF Tables
  <2>4. \A i : (j.todo \ {i}) \subseteq Images
    BY <2>1
  <2>5. \A s \in Runs : JobTyped(job'[s])
    BY <1>1, <1>2, <1>7, <2>1, <2>4 DEF Job_adds, Working
  <2> QED BY <1>4, <2>3, <2>5
<1>8. CASE Job_writes(r)
  <2>1. /\ q \in Quizzes /\ j.copy \in Rows /\ j.copy # Nothing
        /\ UNCHANGED <<fresh, index, links, ratings, session, listed>>
    BY <1>0, <1>8, NotNothing DEF Job_writes, JobTyped, Working
  <2>2. \A s \in Runs : JobTyped(job'[s])
    BY <1>2, <1>8 DEF Job_writes
  <2>3. CASE UNCHANGED <<quiz, torn, drift>>
    BY <1>0, <1>4, <2>1, <2>2, <2>3, TablesStay DEF Tables
  <2>4. CASE /\ Row(q, IF quiz[q] = Nothing THEN Nothing ELSE j.copy)
             /\ torn' = torn \cup {q} /\ drift' = TRUE
    <3>1. Stored' = Stored /\ \A p \in Quizzes : quiz'[p] \in Rows \cup {Nothing}
      <4>1. CASE quiz[q] = Nothing
        BY <1>0, <2>1, <2>4, <4>1, RowTyped DEF Stored
      <4>2. CASE quiz[q] # Nothing
        BY <1>0, <2>1, <2>4, <4>2, RowTyped DEF Stored
      <4> QED BY <4>1, <4>2
    <3>2. Tables'
      BY <1>0, <2>1, <2>4, <3>1 DEF Tables
    <3> QED BY <1>4, <2>2, <3>2
  <2> QED BY <1>8, <2>3, <2>4 DEF Job_writes
<1> QED BY <1>5, <1>6, <1>7, <1>8 DEF Job_kind

LEMMA EditorTyped == ASSUME Typed, Editor_step PROVE Typed'
<1>1. Tables'
  BY SameRows DEF Typed, Tables, Editor_step
<1> QED BY <1>1 DEF Typed, Editor_step, RunTyped, JobTyped

LEMMA RestartTyped == ASSUME Typed, Restarted PROVE Typed'
<1>1. index' \subseteq Quizzes /\ torn' \subseteq Quizzes /\ drift' \in BOOLEAN
  BY DEF Restarted, Typed, Tables, Public, Stored
<1>2. /\ UNCHANGED <<quiz, fresh, links, ratings, listed, job>>
      /\ session' \in [Edits -> [pc : {"none", "added", "open", "gone"}, quiz : Quizzes \cup {Nothing}, edit : BOOLEAN]]
      /\ \A e \in Edits : session'[e].pc \in {"added", "open"} => session'[e].quiz \in Quizzes
  BY DEF Restarted
<1>3. Tables'
  BY <1>1, <1>2, SameRows DEF Typed, Tables
<1>4. \A r \in Runs : RunTyped(r, run'[r])
  BY DEF Restarted, Typed, RunTyped, Staged, Copyless, Writing
<1> QED BY <1>2, <1>3, <1>4 DEF Typed, RunTyped, JobTyped

LEMMA KindTyped == ASSUME Typed, Kind PROVE Typed'
BY RunKindTyped, JobKindTyped, EditorTyped, RestartTyped DEF Kind, Typed

(***************************************************************************)
(* Writers.                                                                *)
(***************************************************************************)
\* The copies of every run and job are copies that were there, or of rows.
CopiesFrom ==
  /\ \A s \in Runs : run'[s].copy \in Rows =>
       run'[s].copy = run[s].copy \/ \E q \in Quizzes : run'[s].copy = quiz[q]
  /\ \A s \in Runs : job'[s].copy \in Rows =>
       job'[s].copy = job[s].copy \/ \E q \in Quizzes : job'[s].copy = quiz[q]

\* A row is one that was there, a copy of a job, or by a run that is over.
RowsFrom ==
  \A q \in Quizzes : quiz'[q] \in Rows =>
    \/ quiz'[q] = quiz[q]
    \/ \E s \in Runs : quiz'[q] = job[s].copy
    \/ \E s \in Runs : quiz'[q].by = s /\ run'[s].pc \in {"done", "link"}

LEMMA WritersStay ==
  ASSUME WritersInv, CopiesFrom, RowsFrom,
         \A r \in Runs : run'[r].pc \notin {"done", "link"} => run[r].pc \notin {"done", "link"}
  PROVE  WritersInv'
<1>1. ASSUME NEW b, Known(b)' PROVE Known(b) \/ \E s \in Runs : s = b /\ run'[s].pc \in {"done", "link"}
  <2>1. CASE \E q \in Quizzes : quiz'[q] \in Rows /\ quiz'[q].by = b
    BY <2>1 DEF RowsFrom, Known
  <2>2. CASE \E s \in Runs : \/ run'[s].copy \in Rows /\ run'[s].copy.by = b
                             \/ job'[s].copy \in Rows /\ job'[s].copy.by = b
    BY <2>2 DEF CopiesFrom, Known
  <2> QED BY <1>1, <2>1, <2>2 DEF Known
<1> QED BY <1>1 DEF WritersInv

LEMMA CarriesCopies ==
  ASSUME NEW r \in Runs, NEW pc, NEW todo, Carries(r, pc, todo), UNCHANGED job PROVE CopiesFrom
BY DEF Carries, Others, CopiesFrom

LEMMA OverCopies == ASSUME Typed, NEW r \in Runs, Over(r), UNCHANGED job PROVE CopiesFrom
BY NotNothing DEF Over, Others, CopiesFrom

LEMMA RunWriters == ASSUME Typed, WritersInv, NEW r \in Runs, Run_kind(r) PROVE WritersInv'
<1> DEFINE q == run[r].quiz
<1>0. RunTyped(r, run[r]) /\ JobTyped(job[r]) /\ fresh \subseteq Quizzes
  BY DEF Typed, Tables
<1>1. CASE Begins(r)
  <2>1. CopiesFrom
    BY <1>1, NotNothing DEF Begins, Others, CopiesFrom, RunTyped, Copyless, Stored
  <2> QED BY <1>1, <2>1, WritersStay DEF Begins, Others, RowsFrom
<1>2. CASE Gives_up(r) \/ Collides(r)
  <2>1. CopiesFrom
    BY <1>2, OverCopies DEF Gives_up, Collides
  <2> QED BY <1>2, <2>1, WritersStay DEF Gives_up, Collides, Over, Others, RowsFrom
<1>3. CASE Writes_back(r)
  <2>1. CopiesFrom
    BY <1>3, OverCopies DEF Writes_back
  <2>2. PICK row : /\ Outcome(r, row)
                   /\ \/ Row(q, row)
                      \/ Row(q, IF quiz[q] = Nothing THEN Nothing ELSE row)
    BY <1>3, Zenon DEF Writes_back
  <2>3. row.by = r /\ run'[r].pc = "done"
    BY <1>3, <2>2 DEF Outcome, Writes_back, Over
  <2>4. RowsFrom
    BY <2>2, <2>3 DEF RowsFrom, Row
  <2> QED BY <1>3, <2>1, <2>4, WritersStay DEF Writes_back, Over, Others
<1>4. CASE Finds_own(r) \/ Takes_back(r) \/ Adds_own(r) \/ Indexes(r) \/ Closes(r) \/ Adds_link(r)
  <2>1. UNCHANGED <<quiz, job>>
    BY <1>4 DEF Finds_own, Takes_back, Adds_own, Indexes, Closes, Adds_link
  <2>2. PICK pc, todo : Carries(r, pc, todo) /\ (run[r].pc = "link" => pc = "link") /\ run[r].pc # "done"
    BY <1>4 DEF Finds_own, Takes_back, Adds_own, Indexes, Closes, Adds_link, Goes_on
  <2>3. CopiesFrom
    BY <2>1, <2>2, CarriesCopies
  <2> QED BY <2>1, <2>2, <2>3, WritersStay DEF RowsFrom, Carries, Others
<1>5. CASE Enqueues(r)
  <2>1. CopiesFrom
    BY <1>5, NotNothing DEF Enqueues, Goes_on, Carries, Others, CopiesFrom
  <2> QED BY <1>5, <2>1, WritersStay DEF Enqueues, Goes_on, Carries, Others, RowsFrom
<1>6. CASE Saves_row(r)
  <2>1. CopiesFrom
    BY <1>6, CarriesCopies DEF Saves_row
  <2>2. RowsFrom
    BY <1>0, <1>6 DEF Saves_row, Row, RowsFrom, RunTyped, Carries, Writing
  <2> QED BY <1>6, <2>1, <2>2, WritersStay DEF Saves_row, Carries, Others
<1>7. CASE Deletes_row(r)
  <2>1. CopiesFrom
    BY <1>7, OverCopies DEF Deletes_row
  <2>2. RowsFrom
    BY <1>7, NotNothing DEF Deletes_row, Row, RowsFrom
  <2> QED BY <1>7, <2>1, <2>2, WritersStay DEF Deletes_row, Over, Others
<1>8. CASE Imports(r)
  <2>1. CopiesFrom
    BY <1>8, OverCopies DEF Imports
  <2>2. RowsFrom
    BY <1>0, <1>8 DEF Imports, Row, RowsFrom, Over
  <2> QED BY <1>8, <2>1, <2>2, WritersStay DEF Imports, Over, Others
<1>9. CASE Kahoot(r)
  <2>1. CopiesFrom
    BY <1>9, NotNothing DEF Kahoot, Goes_on, Carries, Others, CopiesFrom
  <2> QED BY <1>9, <2>1, WritersStay DEF Kahoot, Goes_on, Carries, Others, RowsFrom
<1> QED BY <1>1, <1>2, <1>3, <1>4, <1>5, <1>6, <1>7, <1>8, <1>9 DEF Run_kind

LEMMA JobWriters == ASSUME Typed, WritersInv, NEW r \in Runs, Job_kind(r) PROVE WritersInv'
<1> DEFINE q == job[r].quiz
<1>0. UNCHANGED run /\ JobTyped(job[r])
  BY DEF Job_kind, Job_begins, Job_removes, Job_adds, Job_writes, Typed
<1>1. CASE Job_begins(r) \/ Job_removes(r) \/ Job_adds(r)
  <2>1. UNCHANGED quiz
    BY <1>1 DEF Job_begins, Job_removes, Job_adds
  <2>2. \A s \in Runs : s # r => job'[s] = job[s]
    BY <1>1 DEF Job_begins, Job_removes, Job_adds, Job, Job_over
  <2>3. job'[r].copy = Nothing \/ job'[r].copy = job[r].copy \/ (q \in Stored /\ job'[r].copy = quiz[q])
    <3>1. ASSUME Job_over(r) PROVE job'[r].copy = Nothing
      BY <3>1 DEF Job_over, Job
    <3>2. ASSUME NEW pc, NEW old, NEW copy, NEW todo, NEW changed, Job(r, pc, old, copy, todo, changed)
          PROVE  job'[r].copy = copy
      BY <3>2 DEF Job
    <3> QED BY <1>1, <3>1, <3>2 DEF Job_begins, Job_removes, Job_adds
  <2>4. CopiesFrom
    BY <1>0, <2>2, <2>3, NotNothing DEF CopiesFrom, Stored
  <2> QED BY <1>0, <2>1, <2>4, WritersStay DEF RowsFrom
<1>2. CASE Job_writes(r)
  <2>1. CopiesFrom
    BY <1>0, <1>2, NotNothing DEF Job_writes, Job_over, Job, CopiesFrom
  <2>2. RowsFrom
    BY <1>2, NotNothing DEF Job_writes, Row, RowsFrom
  <2> QED BY <1>0, <2>1, <2>2, WritersStay
<1> QED BY <1>1, <1>2 DEF Job_kind

LEMMA KindWriters == ASSUME Typed, WritersInv, Kind PROVE WritersInv'
<1>1. CASE Editor_step \/ Restarted
  <2>1. CopiesFrom /\ RowsFrom
    BY <1>1, NotNothing DEF Editor_step, Restarted, CopiesFrom, RowsFrom
  <2> QED BY <1>1, <2>1, WritersStay DEF Editor_step, Restarted
<1> QED BY <1>1, RunWriters, JobWriters DEF Kind

(***************************************************************************)
(* The index.                                                              *)
(***************************************************************************)
\* A step that touches neither the index nor the rows, and of the runs that
\* have been at the index at most moves one on within its last stages.
LEMMA IndexStays ==
  ASSUME IndexInv, UNCHANGED <<drift, fresh, index, quiz>>,
         \A r \in Runs : run'[r].op = "kahoot" => run[r].op = "kahoot",
         \A r \in Runs : PastIndex(run'[r].op, run'[r].pc) <=> PastIndex(run[r].op, run[r].pc),
         \A r \in Runs : PastIndex(run[r].op, run[r].pc) =>
           /\ run'[r].op = run[r].op /\ run'[r].quiz = run[r].quiz
           /\ run'[r].copy = run[r].copy /\ run'[r].new = run[r].new
  PROVE  IndexInv'
<1>1. \A q \in Quizzes, r \in Runs : /\ Indexed(q, r)' <=> Indexed(q, r)
                                     /\ Indexed(q, r) => (Drifts(q, r)' <=> Drifts(q, r))
                                     /\ Indexed(q, r) => (Shows(r)' <=> Shows(r))
  BY DEF Indexed, Drifts, Shows, Stale
<1>2. Public' = Public
  BY DEF Public, Stored
<1>3. \A q \in Quizzes : Told(q) => Told(q)'
  BY <1>1, <1>2 DEF Told
<1> QED BY <1>3 DEF IndexInv

\* A row of q is written by r: whoever else has been at the index will drift.
LEMMA RowIsNew ==
  ASSUME Typed, WritersInv, NEW q \in Quizzes, NEW r \in Runs, NEW x \in Rows \cup {Nothing},
         run[r].pc \notin {"done", "link"}, x # Nothing => x.by = r, Row(q, x), Others(r), ~Indexed(q, r)',
         q \notin fresh', UNCHANGED index, ~drift,
         Told(q),
         (\A s \in Runs : s # r => ~Indexed(q, s)) => (q \in index <=> q \in Public')
  PROVE  Told(q)'
<1>1. ASSUME NEW s \in Runs, Indexed(q, s)' PROVE Drifts(q, s)' /\ s # r
  <2>1. s # r /\ run'[s] = run[s]
    BY <1>1 DEF Others
  <2>2. CASE run[s].op = "create"
    BY <2>1, <2>2 DEF Drifts
  <2>3. CASE run[s].op # "create"
    <3>1. run[s].copy \in Rows
      BY <1>1, <2>1, <2>3 DEF Indexed, PastIndex, Typed, RunTyped, Copyless
    <3>2. run[s].copy.by # r
      BY <3>1 DEF WritersInv, Known
    <3>3. Stale(q, run[s].copy)'
      BY <2>1, <3>2 DEF Stale, Row
    <3> QED BY <2>1, <2>3, <3>3 DEF Drifts
  <2> QED BY <2>1, <2>2, <2>3
<1>2. CASE \E s \in Runs : Indexed(q, s)'
  BY <1>1, <1>2 DEF Told
<1>3. CASE ~ \E s \in Runs : Indexed(q, s)'
  <2>1. \A s \in Runs : s # r => ~Indexed(q, s)
    BY <1>3 DEF Indexed, Others
  <2> QED BY <1>3, <2>1 DEF Told
<1> QED BY <1>2, <1>3

\* The other quizzes are not touched.
LEMMA ElsewhereTold ==
  ASSUME NEW q \in Quizzes, NEW p \in Quizzes, p # q, NEW r \in Runs, Told(p), Others(r),
         run[r].quiz = q \/ ~Indexed(p, r), run'[r].quiz = q \/ ~Indexed(p, r)',
         quiz'[p] = quiz[p], p \in index' <=> p \in index, p \in fresh' <=> p \in fresh
  PROVE  Told(p)'
<1>1. \A s \in Runs : /\ Indexed(p, s)' <=> Indexed(p, s)
                      /\ Indexed(p, s) => s # r /\ run'[s] = run[s]
  BY DEF Indexed, Others
<1>2. \A s \in Runs : Indexed(p, s) => /\ Drifts(p, s)' <=> Drifts(p, s)
                                       /\ Shows(s)' <=> Shows(s)
  BY <1>1 DEF Drifts, Shows, Stale
<1>3. p \in Public' <=> p \in Public
  BY DEF Public, Stored
<1> QED BY <1>1, <1>2, <1>3 DEF Told

LEMMA FreshAndPublic ==
  ASSUME Typed, NEW q \in Quizzes, NEW x \in Rows \cup {Nothing}, Row(q, x)
  PROVE  /\ q \in Public' <=> x # Nothing /\ x.public
         /\ q \in Stored => q \notin fresh
         /\ quiz[q] # Nothing => q \in Stored
BY DEF Typed, Tables, Row, Public, Stored

\* A row of q changes, and nothing that another quiz depends on.
LEMMA IndexAfterRow ==
  ASSUME Typed, WritersInv, IndexInv, NEW q \in Quizzes, NEW r \in Runs, NEW x \in Rows \cup {Nothing},
         run[r].pc \notin {"done", "link"}, x # Nothing => x.by = r, Row(q, x), Others(r), UNCHANGED index,
         run'[r].op # "kahoot", ~PastIndex(run'[r].op, run'[r].pc), ~drift' => ~drift,
         run[r].quiz = q \/ ~PastIndex(run[r].op, run[r].pc),
         fresh' \subseteq fresh /\ fresh \subseteq fresh' \cup {q}, q \notin fresh',
         ~drift' => ((\A s \in Runs : s # r => ~Indexed(q, s)) => (q \in index <=> q \in Public'))
  PROVE  IndexInv'
<1> SUFFICES ASSUME ~drift' PROVE (\A s \in Runs : run'[s].op # "kahoot") /\ \A p \in Quizzes : Told(p)'
  BY DEF IndexInv
<1>1. ~drift /\ (\A s \in Runs : run[s].op # "kahoot") /\ \A p \in Quizzes : Told(p)
  BY DEF IndexInv
<1>2. Told(q)'
  BY <1>1, RowIsNew DEF Indexed
<1>3. ASSUME NEW p \in Quizzes, p # q PROVE Told(p)'
  BY <1>1, <1>3, ElsewhereTold DEF Indexed, Row
<1> QED BY <1>1, <1>2, <1>3 DEF Others

LEMMA ToldBy ==
  ASSUME NEW q, NEW r \in Runs, Indexed(q, r)', Drifts(q, r)' \/ (q \in index <=> Shows(r))'
  PROVE  Told(q)'
BY Zenon DEF Told

LEMMA IndexesIndex ==
  ASSUME Typed, WritersInv, IndexInv, NEW r \in Runs, Indexes(r) PROVE IndexInv'
<1> SUFFICES ASSUME NEW q, q = run[r].quiz PROVE IndexInv'
  OBVIOUS
<1>0. RunTyped(r, run[r]) /\ fresh \cap Stored = {}
  BY DEF Typed, Tables
<1>1. /\ q \in Quizzes /\ Others(r) /\ UNCHANGED <<drift, fresh, quiz>>
      /\ run'[r].quiz = q /\ run'[r].op = run[r].op /\ run'[r].new = run[r].new /\ run[r].op # "kahoot"
      /\ PastIndex(run'[r].op, run'[r].pc)
  BY <1>0 DEF Indexes, Goes_on, Carries, RunTyped, PastIndex
<1>2. \/ index' = index \cup {q} /\ run[r].op # "delete" /\ run[r].new.public
      \/ index' = index \ {q} /\ ~(run[r].op # "delete" /\ run[r].new.public)
      \/ index' = index /\ run[r].op = "create" /\ ~run[r].new.public
  BY DEF Indexes, Reindexed
<1> SUFFICES ASSUME ~drift' PROVE (\A s \in Runs : run'[s].op # "kahoot") /\ \A p \in Quizzes : Told(p)'
  BY DEF IndexInv
<1>3. (\A s \in Runs : run[s].op # "kahoot") /\ \A p \in Quizzes : Told(p)
  BY <1>1 DEF IndexInv
<1>4. Told(q)'
  <2>1. Indexed(q, r)' /\ (Shows(r)' <=> Shows(r))
    BY <1>1 DEF Indexed, Shows
  <2>2. CASE q \in index' <=> Shows(r)
    BY <2>1, <2>2, ToldBy
  <2>3. CASE ~(q \in index' <=> Shows(r))
    <3>1. index' = index /\ run[r].op = "create" /\ q \in index
      BY <1>2, <2>3 DEF Shows
    <3>2. ~Indexed(q, r)
      BY DEF Indexes, Indexed, PastIndex
    <3>3. CASE \E s \in Runs : Indexed(q, s)
      <4>1. PICK s \in Runs : Indexed(q, s) /\ (Drifts(q, s) \/ (q \in index <=> Shows(s)))
        BY <1>1, <1>3, <3>3 DEF Told
      <4>2. run'[s] = run[s]
        BY <1>1, <3>2, <4>1 DEF Others
      <4>3. Indexed(q, s)' /\ (Drifts(q, s)' <=> Drifts(q, s)) /\ (Shows(s)' <=> Shows(s))
        BY <1>1, <4>1, <4>2 DEF Indexed, Drifts, Shows, Stale
      <4> QED BY <3>1, <4>1, <4>3, ToldBy
    <3>4. CASE ~ \E s \in Runs : Indexed(q, s)
      <4>1. q \in Public /\ q \notin fresh
        BY <1>0, <1>1, <1>3, <3>1, <3>4 DEF Told, Public
      <4>2. Drifts(q, r)'
        BY <1>1, <3>1, <4>1 DEF Drifts
      <4> QED BY <2>1, <4>2, ToldBy
    <3> QED BY <3>3, <3>4
  <2> QED BY <2>2, <2>3
<1>5. ASSUME NEW p \in Quizzes, p # q PROVE Told(p)'
  BY <1>1, <1>2, <1>3, <1>5, ElsewhereTold
<1> QED BY <1>1, <1>3, <1>4, <1>5 DEF Others

LEMMA RunIndex == ASSUME Typed, WritersInv, IndexInv, NEW r \in Runs, Run_kind(r) PROVE IndexInv'
<1> DEFINE q == run[r].quiz
<1>0. RunTyped(r, run[r]) /\ fresh \subseteq Quizzes /\ fresh \cap Stored = {}
  BY DEF Typed, Tables
<1>1. CASE Begins(r)
  BY <1>1, IndexStays DEF Begins, First_stage, PastIndex, Others
<1>2. CASE Gives_up(r)
  BY <1>2, IndexStays DEF Gives_up, Over, PastIndex, Others
<1>3. CASE Finds_own(r) \/ Takes_back(r) \/ Adds_own(r) \/ Enqueues(r) \/ Closes(r) \/ Adds_link(r)
  <2>1. UNCHANGED <<drift, fresh, index, quiz>>
    BY <1>3 DEF Finds_own, Takes_back, Adds_own, Enqueues, Closes, Adds_link
  <2>2. PICK pc, todo : /\ Carries(r, pc, todo)
                        /\ PastIndex(run[r].op, pc) <=> PastIndex(run[r].op, run[r].pc)
    <3>1. CASE Finds_own(r)
      BY <3>1 DEF Finds_own, PastIndex
    <3>2. CASE Takes_back(r) \/ Adds_own(r) \/ Enqueues(r)
      BY <3>2 DEF Takes_back, Adds_own, Enqueues, Goes_on, PastIndex
    <3>3. CASE Closes(r)
      BY <3>3 DEF Closes, Goes_on, PastIndex
    <3>4. CASE Adds_link(r)
      BY <3>4 DEF Adds_link, PastIndex
    <3> QED BY <1>3, <3>1, <3>2, <3>3, <3>4
  <2> QED BY <2>1, <2>2, IndexStays DEF Carries, Others
<1>4. CASE Indexes(r)
  BY <1>4, IndexesIndex
<1>5. CASE Writes_back(r)
  <2>1. q \in Quizzes /\ run[r].copy \in Rows
    BY <1>0, <1>5 DEF Writes_back, RunTyped, Copyless
  <2>2. PICK row : /\ Outcome(r, row)
                   /\ \/ quiz[q] = run[r].copy /\ Row(q, row) /\ UNCHANGED <<torn, drift>>
                      \/ drift' = TRUE
    BY <1>5, Zenon DEF Writes_back
  <2>3. CASE drift' = TRUE
    BY <2>3 DEF IndexInv
  <2>4. CASE quiz[q] = run[r].copy /\ Row(q, row) /\ UNCHANGED <<torn, drift>>
    <3>1. row \in Rows /\ row # Nothing /\ row.by = r /\ q \in Stored /\ q \notin fresh
      BY <1>0, <2>1, <2>2, <2>4, NotNothing DEF Outcome, Stored
    <3>2. q \in Public' <=> row.public
      BY <2>1, <2>4, <3>1, FreshAndPublic
    <3>3. /\ run[r].pc = "write" /\ Over(r) /\ UNCHANGED <<fresh, index>> /\ run[r].op # "create"
      BY <1>5 DEF Writes_back, Copyless
    <3>4. ASSUME ~drift', \A s \in Runs : s # r => ~Indexed(q, s) PROVE q \in index <=> q \in Public'
      <4>1. Told(q)
        BY <2>1, <2>4, <3>4 DEF IndexInv
      <4>2. CASE run[r].op = "edit"
        <5>1. Indexed(q, r) /\ ~Drifts(q, r) /\ (Shows(r) <=> row.public)
          BY <2>1, <2>2, <2>4, <3>1, <3>3, <4>2, NotNothing DEF Indexed, PastIndex, Drifts, Stale, Shows, Outcome
        <5> QED BY <3>2, <3>4, <4>1, <5>1 DEF Told
      <4>3. CASE run[r].op # "edit"
        <5>1. ~Indexed(q, r) /\ row.public = run[r].copy.public
          BY <2>2, <3>3, <4>3 DEF Indexed, PastIndex, Outcome
        <5>2. q \in Public <=> row.public
          BY <2>4, <3>1, <5>1 DEF Public
        <5> QED BY <3>2, <3>4, <4>1, <5>1, <5>2 DEF Told
      <4> QED BY <4>2, <4>3
    <3> QED BY <2>1, <2>4, <3>1, <3>3, <3>4, IndexAfterRow DEF Over, PastIndex
  <2> QED BY <2>2, <2>3, <2>4
<1>6. CASE Saves_row(r)
  <2> DEFINE n == run[r].new
  <2>1. q \in Quizzes /\ n \in Rows /\ n.by = r /\ n # Nothing
    BY <1>0, <1>6, NotNothing DEF Saves_row, RunTyped, Writing
  <2>2. /\ run[r].pc = "save" /\ run[r].op \in {"create", "kahoot"} /\ Row(q, n) /\ Carries(r, "link", n.images)
        /\ fresh' = fresh \ {q} /\ drift' = (drift \/ (run[r].op = "create" /\ q \notin fresh)) /\ UNCHANGED index
    BY <1>6 DEF Saves_row
  <2> HIDE DEF n
  <2>3. CASE run[r].op = "kahoot"
    BY <2>2, <2>3 DEF IndexInv
  <2>4. CASE run[r].op = "create"
    <3>1. q \in Public' <=> n.public
      BY <2>1, <2>2, FreshAndPublic
    <3>2. ASSUME ~drift', \A s \in Runs : s # r => ~Indexed(q, s) PROVE q \in index <=> q \in Public'
      <4>1. Told(q) /\ q \in fresh
        BY <2>1, <2>2, <2>4, <3>2 DEF IndexInv
      <4>2. Indexed(q, r) /\ ~Drifts(q, r) /\ (Shows(r) <=> n.public)
        BY <2>2, <2>4, <4>1 DEF Indexed, PastIndex, Drifts, Shows, n
      <4> QED BY <3>1, <3>2, <4>1, <4>2 DEF Told
    <3> QED BY <2>1, <2>2, <2>4, <3>2, IndexAfterRow DEF Carries, PastIndex
  <2> QED BY <2>2, <2>3, <2>4
<1>7. CASE Collides(r)
  BY <1>7 DEF Collides, IndexInv
<1>8. CASE Deletes_row(r)
  <2>1. q \in Quizzes /\ run[r].copy \in Rows
    BY <1>0, <1>8 DEF Deletes_row, RunTyped, Copyless
  <2>2. /\ run[r].op = "delete" /\ run[r].pc = "row" /\ Over(r) /\ UNCHANGED <<fresh, index>>
        /\ drift' = (drift \/ quiz[q] # run[r].copy \/ ~Rateless(q))
        /\ Rateless(q) => Row(q, Nothing)
    BY <1>8 DEF Deletes_row
  <2>3. CASE quiz[q] = run[r].copy /\ Rateless(q)
    <3>1. q \notin Public' /\ q \in Stored /\ q \notin fresh
      BY <2>1, <2>2, <2>3, FreshAndPublic, NotNothing
    <3>2. ASSUME ~drift', \A s \in Runs : s # r => ~Indexed(q, s) PROVE q \in index <=> q \in Public'
      <4>1. Told(q)
        BY <2>1, <2>2, <3>2 DEF IndexInv
      <4>2. Indexed(q, r) /\ ~Drifts(q, r) /\ ~Shows(r)
        BY <2>1, <2>2, <2>3, NotNothing DEF Indexed, PastIndex, Drifts, Stale, Shows
      <4> QED BY <3>1, <3>2, <4>1, <4>2 DEF Told
    <3> QED BY <2>1, <2>2, <2>3, <3>1, <3>2, IndexAfterRow DEF Over, PastIndex
  <2>4. CASE ~(quiz[q] = run[r].copy /\ Rateless(q))
    BY <2>2, <2>4 DEF IndexInv
  <2> QED BY <2>3, <2>4
<1>9. CASE Imports(r)
  <2>1. PICK p \in fresh, row \in Rows :
          row.by = r /\ Row(p, row) /\ fresh' = fresh \ {p} /\ drift' = (drift \/ row.public)
    BY <1>9 DEF Imports
  <2>2. run[r].pc = "idle" /\ Over(r) /\ UNCHANGED index
    BY <1>9 DEF Imports
  <2>3. p \in Quizzes /\ p \notin Public /\ row # Nothing
    BY <1>0, NotNothing DEF Public
  <2>4. p \in Public' <=> row.public
    BY <2>1, <2>3, FreshAndPublic
  <2>5. ASSUME ~drift', \A s \in Runs : s # r => ~Indexed(p, s) PROVE p \in index <=> p \in Public'
    BY <2>1, <2>2, <2>3, <2>4, <2>5 DEF IndexInv, Told, Indexed, PastIndex
  <2> QED BY <2>1, <2>2, <2>3, <2>5, IndexAfterRow DEF Over, PastIndex
<1>10. CASE Kahoot(r)
  BY <1>10 DEF Kahoot, IndexInv
<1> QED BY <1>1, <1>2, <1>3, <1>4, <1>5, <1>6, <1>7, <1>8, <1>9, <1>10 DEF Run_kind

LEMMA KindIndex == ASSUME Typed, WritersInv, IndexInv, Kind PROVE IndexInv'
<1>1. ASSUME NEW r \in Runs, Job_kind(r) PROVE IndexInv'
  <2>1. UNCHANGED <<run, fresh, index>> /\ (UNCHANGED <<quiz, drift>> \/ drift' = TRUE)
    BY <1>1 DEF Job_kind, Job_begins, Job_removes, Job_adds, Job_writes
  <2>2. CASE UNCHANGED <<quiz, drift>>
    BY <2>1, <2>2, IndexStays
  <2> QED BY <2>1, <2>2 DEF IndexInv
<1>2. CASE Editor_step
  BY <1>2, IndexStays DEF Editor_step
<1>3. CASE Restarted
  <2>1. CASE drift' = drift /\ UNCHANGED index /\ \A r \in Runs : run[r].pc \in {"idle", "done"}
    <3>1. \A r \in Runs : run'[r] = run[r]
      BY <1>3, <2>1 DEF Restarted
    <3> QED BY <1>3, <2>1, <3>1, IndexStays DEF Restarted
  <2>2. CASE drift' = FALSE /\ index' = Public
    <3>1. \A r \in Runs : run'[r].op = "none"
      BY <1>3 DEF Restarted, Typed, RunTyped, Staged
    <3>2. \A q \in Quizzes : Told(q)'
      BY <1>3, <2>2, <3>1 DEF Restarted, Told, Indexed, PastIndex, Public, Stored
    <3> QED BY <3>1, <3>2 DEF IndexInv
  <2> QED BY <1>3, <2>1, <2>2 DEF Restarted, IndexInv
<1> QED BY <1>1, <1>2, <1>3, RunIndex DEF Kind

(***************************************************************************)
(* Links.                                                                  *)
(***************************************************************************)
\* The runs that are linking pictures of p, or will be asked by a job of
\* theirs, are where they were.
RunsStay(p) ==
  \A s \in Runs : run[s].pc = "link" /\ run[s].quiz = p =>
    run'[s].pc = "link" /\ run'[s].quiz = p /\ run'[s].todo = run[s].todo

EnqueuedStays ==
  \A s \in Runs :
    /\ run'[s].pc \in {"idle", "enqueue"} => run[s].pc \in {"idle", "enqueue"}
    /\ run'[s].op = "edit" /\ run'[s].pc # "enqueue" =>
         /\ run[s].op = "edit" /\ run[s].pc # "enqueue"
         /\ run'[s].quiz = run[s].quiz /\ run'[s].copy = run[s].copy

LEMMA StillEnqueued ==
  ASSUME LinksInv, EnqueuedStays, torn \subseteq torn', NEW s \in Runs, job'[s] = job[s]
  PROVE  Enqueued(s)'
BY DEF LinksInv, EnqueuedStays, Enqueued

\* A quiz whose row, links and jobs a step does not touch.
LEMMA LinkedElsewhere ==
  ASSUME NEW p \in Quizzes, Linked(p), quiz'[p] = quiz[p], links'[p] = links[p], torn \subseteq torn',
         p \in Stored \ torn' => RunsStay(p),
         \A s \in Runs : job'[s] = job[s] \/ (job[s].quiz # p)
  PROVE  Linked(p)'
<1> SUFFICES ASSUME p \in Stored', p \notin torn', quiz[p].imported_from_kahoot # Nothing, NEW i \in quiz[p].images
             PROVE  i \in links[p] \/ \E r \in Runs : Promised(p, i, r)'
  BY DEF Linked
<1>1. p \in Stored \ torn
  BY DEF Stored
<1>2. i \in links[p] \/ \E r \in Runs : Promised(p, i, r)
  BY <1>1 DEF Linked
<1>3. ASSUME NEW r \in Runs, Promised(p, i, r) PROVE Promised(p, i, r)'
  BY <1>1, <1>3 DEF Promised, RunsStay, Stale, Added
<1> QED BY <1>2, <1>3

LEMMA AgreesStill ==
  ASSUME NEW s \in Runs, Agrees(s), job'[s] = job[s], torn \subseteq torn',
         job[s].quiz \notin torn' => quiz'[job[s].quiz] = quiz[job[s].quiz]
  PROVE  Agrees(s)'
BY DEF Agrees, Stale, Stored

LEMMA LinksStay ==
  ASSUME LinksInv, UNCHANGED <<quiz, links, job>>, torn \subseteq torn', EnqueuedStays,
         \A p \in Quizzes : p \in Stored \ torn' => RunsStay(p)
  PROVE  LinksInv'
<1>1. \A s \in Runs : Enqueued(s)' /\ Agrees(s)'
  BY StillEnqueued, AgreesStill DEF LinksInv
<1>2. \A p \in Quizzes : Linked(p)'
  BY LinkedElsewhere DEF LinksInv
<1> QED BY <1>1, <1>2 DEF LinksInv

\* A row of q by a new writer: the copies that jobs hold of it are stale.
LEMMA LinksAfterRow ==
  ASSUME Typed, WritersInv, LinksInv, NEW q \in Quizzes, NEW r \in Runs, NEW x \in Rows \cup {Nothing},
         run[r].pc \notin {"done", "link"}, x # Nothing => x.by = r,
         Row(q, x), Others(r), UNCHANGED <<torn, job>>, EnqueuedStays,
         \A p \in Quizzes : p # q => links'[p] = links[p],
         x # Nothing /\ q \notin torn /\ x.imported_from_kahoot # Nothing => \A i \in x.images :
           \/ i \in links'[q]
           \/ \E s \in Runs : Promised(q, i, s)'
           \/ q \in Stored /\ quiz[q].imported_from_kahoot # Nothing /\ i \in quiz[q].images /\ links'[q] = links[q]
  PROVE  LinksInv'
<1>1. ASSUME NEW s \in Runs, job[s].pc \in Working PROVE Stale(q, job[s].copy)'
  <2>1. job[s].copy \in Rows
    BY <1>1 DEF Typed, JobTyped
  <2>2. job[s].copy.by # r
    BY <2>1 DEF WritersInv, Known
  <2> QED BY <2>2 DEF Stale, Row
<1>2. \A s \in Runs : Agrees(s)'
  <2> TAKE s \in Runs
  <2>1. CASE job[s].quiz = q
    BY <1>1, <2>1 DEF Agrees, LinksInv
  <2>2. CASE job[s].quiz # q
    <3>1. job[s].pc \in Working => job[s].quiz \in Quizzes
      BY DEF Typed, JobTyped, Working
    <3> QED BY <2>2, <3>1 DEF Agrees, LinksInv, Row, Stale, Stored
  <2> QED BY <2>1, <2>2
<1>3. \A s \in Runs : Enqueued(s)'
  BY StillEnqueued
<1>4. \A p \in Quizzes : p # q => Linked(p)'
  <2>1. \A p \in Quizzes : RunsStay(p)
    BY DEF RunsStay, Others
  <2> QED BY <2>1, LinkedElsewhere DEF LinksInv, Row
<1>5. Linked(q)'
  <2> SUFFICES ASSUME q \in Stored', q \notin torn', x.imported_from_kahoot # Nothing, x # Nothing,
                      NEW i \in x.images
               PROVE  i \in links'[q] \/ \E s \in Runs : Promised(q, i, s)'
    BY DEF Linked, Row, Stored
  <2>1. CASE q \in Stored /\ quiz[q].imported_from_kahoot # Nothing /\ i \in quiz[q].images /\ links'[q] = links[q]
    <3>1. i \in links[q] \/ \E s \in Runs : Promised(q, i, s)
      BY <2>1 DEF LinksInv, Linked
    <3>2. ASSUME NEW s \in Runs, Promised(q, i, s) PROVE Promised(q, i, s)'
      BY <1>1, <3>2 DEF Promised, Others, Added
    <3> QED BY <2>1, <3>1, <3>2
  <2> QED BY <2>1
<1> QED BY <1>2, <1>3, <1>4, <1>5 DEF LinksInv

LEMMA RunLinks == ASSUME Typed, WritersInv, LinksInv, NEW r \in Runs, Run_kind(r) PROVE LinksInv'
<1> SUFFICES ASSUME NEW q, q = run[r].quiz PROVE LinksInv'
  OBVIOUS
<1>0. RunTyped(r, run[r]) /\ JobTyped(job[r]) /\ Tables
  BY DEF Typed
<1>1. CASE Begins(r)
  <2>1. UNCHANGED <<quiz, links, job, torn>> /\ EnqueuedStays /\ \A p \in Quizzes : RunsStay(p)
    BY <1>1 DEF Begins, EnqueuedStays, RunsStay, Others, First_stage
  <2> QED BY <2>1, LinksStay
<1>2. CASE Gives_up(r)
  <2>1. UNCHANGED <<quiz, links, job, torn>> /\ EnqueuedStays
    BY <1>2 DEF Gives_up, EnqueuedStays, Over, Others
  <2>2. CASE run[r].pc # "link"
    <3>1. \A p \in Quizzes : RunsStay(p)
      BY <1>2, <2>2 DEF Gives_up, RunsStay, Over, Others
    <3> QED BY <2>1, <3>1, LinksStay
  <2>3. CASE run[r].pc = "link"
    <3>1. run[r].todo = {} \/ q \notin Stored
      BY <1>2, <2>3 DEF Gives_up
    <3>2. \A s \in Runs : Enqueued(s)' /\ Agrees(s)'
      BY <2>1, StillEnqueued, AgreesStill DEF LinksInv
    <3>3. ASSUME NEW p \in Quizzes, Linked(p) PROVE Linked(p)'
      <4>1. p \in Stored' <=> p \in Stored
        BY <2>1 DEF Stored
      <4>2. \A i \in Images, s \in Runs : p \in Stored /\ Promised(p, i, s) => Promised(p, i, s)'
        BY <1>2, <2>1, <3>1 DEF Gives_up, Over, Others, Promised, Stale, Added
      <4>3. p \in Stored => quiz[p].images \subseteq Images
        BY <1>0 DEF Tables, Stored, Rows
      <4> QED BY <2>1, <3>3, <4>1, <4>2, <4>3 DEF Linked
    <3> QED BY <3>2, <3>3 DEF LinksInv
  <2> QED BY <2>2, <2>3
<1>3. CASE Finds_own(r) \/ Takes_back(r) \/ Adds_own(r) \/ Indexes(r) \/ Closes(r) \/ Collides(r) \/ Kahoot(r)
  <2>1. UNCHANGED <<quiz, links, job, torn>>
    BY <1>3 DEF Finds_own, Takes_back, Adds_own, Indexes, Closes, Collides, Kahoot
  <2>2. Others(r) /\ run[r].pc # "link"
    BY <1>3 DEF Finds_own, Takes_back, Adds_own, Indexes, Closes, Collides, Kahoot, Goes_on, Carries, Over
  <2>3. /\ run'[r].pc \notin {"idle", "enqueue"}
        /\ run'[r].op = "edit" /\ run'[r].pc # "enqueue" =>
             /\ run[r].op = "edit" /\ run[r].pc # "enqueue"
             /\ run'[r].quiz = run[r].quiz /\ run'[r].copy = run[r].copy
    BY <1>3 DEF Finds_own, Takes_back, Adds_own, Indexes, Closes, Collides, Kahoot, Goes_on, Carries, Over
  <2>4. EnqueuedStays /\ \A p \in Quizzes : RunsStay(p)
    BY <2>2, <2>3 DEF EnqueuedStays, RunsStay, Others
  <2> QED BY <2>1, <2>4, LinksStay
<1>4. CASE Writes_back(r)
  <2>1. q \in Quizzes /\ run[r].copy \in Rows
    BY <1>0, <1>4 DEF Writes_back, RunTyped, Copyless
  <2>2. PICK row : /\ Outcome(r, row)
                   /\ \/ quiz[q] = run[r].copy /\ Row(q, row) /\ UNCHANGED <<torn, drift>>
                      \/ /\ Row(q, IF quiz[q] = Nothing THEN Nothing ELSE row)
                         /\ torn' = torn \cup {q} /\ drift' = TRUE
    BY <1>4, Zenon DEF Writes_back
  <2>3. run[r].pc = "write" /\ Over(r) /\ UNCHANGED <<links, job>>
    BY <1>4 DEF Writes_back
  <2>4. EnqueuedStays /\ \A p \in Quizzes : RunsStay(p)
    BY <2>3 DEF EnqueuedStays, RunsStay, Over, Others
  <2>5. CASE quiz[q] = run[r].copy /\ Row(q, row) /\ UNCHANGED <<torn, drift>>
    <3>1. row \in Rows /\ row # Nothing /\ row.by = r /\ q \in Stored
      BY <2>1, <2>2, <2>5, NotNothing DEF Outcome, Stored
    <3>2. ASSUME q \notin torn, NEW i \in row.images, i \notin quiz[q].images PROVE Promised(q, i, r)'
      <4>1. run[r].op = "edit"
        BY <2>2, <2>5, <3>2 DEF Outcome
      <4>2. job[r].pc = "queued" /\ job[r].quiz = q /\ job[r].old = quiz[q].images
        BY <2>3, <2>5, <3>2, <4>1 DEF LinksInv, Enqueued
      <4> QED BY <2>3, <3>2, <4>2 DEF Promised
    <3>3. row.imported_from_kahoot = quiz[q].imported_from_kahoot
      BY <2>2, <2>5 DEF Outcome
    <3> QED BY <2>1, <2>3, <2>4, <2>5, <3>1, <3>2, <3>3, LinksAfterRow DEF Over
  <2>6. CASE Row(q, IF quiz[q] = Nothing THEN Nothing ELSE row) /\ torn' = torn \cup {q}
    <3>1. \A s \in Runs : Enqueued(s)'
      BY <2>3, <2>4, <2>6, StillEnqueued
    <3>2. \A s \in Runs : Agrees(s)'
      <4> TAKE s \in Runs
      <4>1. job[s].pc \in Working => job[s].quiz \in Quizzes
        BY DEF Typed, JobTyped, Working
      <4> QED BY <2>1, <2>3, <2>6, <4>1 DEF Agrees, LinksInv, Row, Stale, Stored
    <3>3. Linked(q)'
      BY <2>6 DEF Linked
    <3>4. \A p \in Quizzes : p # q => Linked(p)'
      BY <2>3, <2>4, <2>6, LinkedElsewhere DEF LinksInv, Row
    <3> QED BY <3>1, <3>2, <3>3, <3>4 DEF LinksInv
  <2> QED BY <2>2, <2>5, <2>6
<1>5. CASE Enqueues(r)
  <2>1. /\ run[r].op = "edit" /\ run[r].pc = "enqueue" /\ job[r].pc = "none"
        /\ Others(r) /\ run'[r].op = "edit" /\ run'[r].pc = "index" /\ run'[r].quiz = q
        /\ run'[r].copy = run[r].copy
        /\ UNCHANGED <<quiz, torn, links>> /\ \A s \in Runs : s # r => job'[s] = job[s]
        /\ job'[r].pc = "queued" /\ job'[r].quiz = q /\ job'[r].old = run[r].copy.images
    BY <1>5 DEF Enqueues, Goes_on, Carries, LinksInv, Enqueued
  <2>2. \A s \in Runs : Enqueued(s)'
    BY <2>1 DEF LinksInv, Enqueued, Others
  <2>3. \A s \in Runs : Agrees(s)'
    BY <2>1 DEF LinksInv, Agrees, Working, Stale, Stored
  <2>4. ASSUME NEW p \in Quizzes PROVE Linked(p)'
    <3>1. \A i : \A s \in Runs : Promised(p, i, s) => Promised(p, i, s)'
      BY <2>1 DEF Promised, Others, Stale, Added, Working
    <3> QED BY <2>1, <3>1 DEF LinksInv, Linked, Stored
  <2> QED BY <2>2, <2>3, <2>4 DEF LinksInv
<1>6. CASE Saves_row(r)
  <2> DEFINE n == run[r].new
  <2>1. q \in Quizzes /\ n \in Rows /\ n.by = r /\ n # Nothing
    BY <1>0, <1>6, NotNothing DEF Saves_row, RunTyped, Writing
  <2>2. /\ run[r].pc = "save" /\ run[r].op \in {"create", "kahoot"} /\ Row(q, n) /\ Carries(r, "link", n.images)
        /\ UNCHANGED <<torn, job, links>>
    BY <1>6 DEF Saves_row
  <2> HIDE DEF n
  <2>3. EnqueuedStays
    BY <2>2 DEF EnqueuedStays, Carries, Others
  <2>4. \A i \in n.images : Promised(q, i, r)'
    BY <2>2 DEF Promised, Carries
  <2> QED BY <2>1, <2>2, <2>3, <2>4, LinksAfterRow DEF Carries
<1>7. CASE Adds_link(r)
  <2>1. PICK j \in run[r].todo : /\ links' = [links EXCEPT ![q] = @ \cup {j}]
                                 /\ Carries(r, "link", run[r].todo \ {j})
    BY <1>7 DEF Adds_link
  <2>2. run[r].pc = "link" /\ UNCHANGED <<quiz, torn, job>>
    BY <1>7 DEF Adds_link
  <2>3. EnqueuedStays
    BY <2>1, <2>2 DEF EnqueuedStays, Carries, Others
  <2>4. \A s \in Runs : Enqueued(s)' /\ Agrees(s)'
    BY <2>2, <2>3, StillEnqueued, AgreesStill DEF LinksInv
  <2>5. ASSUME NEW p \in Quizzes PROVE Linked(p)'
    <3>1. \A i : \A s \in Runs : Promised(p, i, s) => Promised(p, i, s)' \/ (p = q /\ i = j)
      BY <2>1, <2>2 DEF Promised, Carries, Others, Stale, Added
    <3>2. links[p] \subseteq links'[p] /\ (p = q => j \in links'[p])
      BY <1>0, <2>1 DEF Tables
    <3> QED BY <2>2, <3>1, <3>2 DEF LinksInv, Linked, Stored
  <2> QED BY <2>4, <2>5 DEF LinksInv
<1>8. CASE Deletes_row(r)
  <2>1. q \in Quizzes
    BY <1>0, <1>8 DEF Deletes_row, RunTyped
  <2>2. run[r].pc = "row" /\ Over(r) /\ UNCHANGED <<torn, job>>
    BY <1>8 DEF Deletes_row
  <2>3. EnqueuedStays /\ \A p \in Quizzes : RunsStay(p)
    BY <2>2 DEF EnqueuedStays, RunsStay, Over, Others
  <2>4. CASE Rateless(q)
    <3>1. Row(q, Nothing) /\ links' = [links EXCEPT ![q] = {}]
      BY <1>8, <2>4 DEF Deletes_row
    <3>2. \A p \in Quizzes : p # q => links'[p] = links[p]
      BY <1>0, <3>1 DEF Tables
    <3> QED BY <2>1, <2>2, <2>3, <3>1, <3>2, LinksAfterRow DEF Over
  <2>5. CASE ~Rateless(q)
    <3>1. UNCHANGED <<quiz, links>>
      BY <1>8, <2>5 DEF Deletes_row
    <3> QED BY <2>2, <2>3, <3>1, LinksStay
  <2> QED BY <2>4, <2>5
<1>9. CASE Imports(r)
  <2>1. PICK p \in fresh, row \in Rows :
          /\ row.by = r
          /\ row.imported_from_kahoot # Nothing => row.images = {} /\ row.likes = 0 /\ row.dislikes = 0
          /\ Row(p, row)
    BY <1>9 DEF Imports
  <2>2. run[r].pc = "idle" /\ Over(r) /\ UNCHANGED <<torn, job, links>>
    BY <1>9 DEF Imports
  <2>3. EnqueuedStays
    BY <2>2 DEF EnqueuedStays, Over, Others
  <2>4. row.by = r /\ (row.imported_from_kahoot # Nothing => row.images = {}) /\ p \in Quizzes
    BY <1>0, <1>9, <2>1 DEF Tables
  <2> QED BY <2>1, <2>2, <2>3, <2>4, LinksAfterRow DEF Over
<1> QED BY <1>1, <1>2, <1>3, <1>4, <1>5, <1>6, <1>7, <1>8, <1>9 DEF Run_kind

LEMMA JobLinks == ASSUME Typed, LinksInv, NEW r \in Runs, Job_kind(r) PROVE LinksInv'
<1> SUFFICES ASSUME NEW j, j = job[r], NEW q, q = job[r].quiz PROVE LinksInv'
  OBVIOUS
<1>0. JobTyped(j) /\ Tables /\ Enqueued(r) /\ Agrees(r)
  BY DEF Typed, LinksInv
<1>1. UNCHANGED run /\ torn \subseteq torn' /\ \A s \in Runs : s # r => job'[s] = job[s]
  BY DEF Job_kind, Job_begins, Job_removes, Job_adds, Job_writes, Job, Job_over
<1>2. EnqueuedStays /\ \A p \in Quizzes : RunsStay(p)
  BY <1>1 DEF EnqueuedStays, RunsStay
<1>3. \A s \in Runs : s # r => Enqueued(s)'
  BY <1>1, <1>2, StillEnqueued
<1>4. j.pc # "none" /\ q \in Quizzes
  BY <1>0 DEF Job_kind, Job_begins, Job_removes, Job_adds, Job_writes, JobTyped
<1>5. Enqueued(r)'
  <2>1. run[r].pc \notin {"idle", "enqueue"}
    BY <1>0, <1>4 DEF Enqueued
  <2>2. CASE Job_begins(r)
    BY <1>0, <1>1, <2>1, <2>2 DEF Job_begins, At, Enqueued
  <2>3. CASE j.pc # "queued"
    BY <1>0, <1>1, <2>1, <2>3 DEF Enqueued
  <2> QED BY <2>2, <2>3 DEF Job_kind, Job_removes, Job_adds, Job_writes
<1>6. ASSUME NEW p \in Quizzes, p # q, quiz'[p] = quiz[p], links'[p] = links[p] PROVE Linked(p)'
  BY <1>1, <1>2, <1>6, LinkedElsewhere DEF LinksInv
<1>7. CASE Job_begins(r)
  <2>1. UNCHANGED <<quiz, links>> /\ j.pc = "queued"
    BY <1>7 DEF Job_begins
  <2>2. \A s \in Runs : s # r => Agrees(s)'
    BY <1>1, <2>1, AgreesStill DEF LinksInv
  <2>3. CASE Job_over(r) /\ (q \notin Stored \/ quiz[q].images = j.old)
    <3>1. Agrees(r)'
      BY <2>3 DEF Agrees, Job_over, Job, Working
    <3>2. \A i : \A s \in Runs : q \in Stored /\ i \in quiz[q].images /\ Promised(q, i, s) => Promised(q, i, s)'
      BY <1>1, <2>1, <2>3 DEF Promised, Working, Stale, Added
    <3>3. Linked(q)'
      BY <1>1, <1>4, <2>1, <3>2 DEF LinksInv, Linked, Stored
    <3> QED BY <1>3, <1>5, <1>6, <2>1, <2>2, <3>1, <3>3 DEF LinksInv
  <2>4. CASE q \in Stored /\ Job(r, "remove", j.old, quiz[q], j.old \ quiz[q].images, j.changed)
    <3>1. /\ job'[r].pc = "remove" /\ job'[r].quiz = q /\ job'[r].old = j.old /\ job'[r].copy = quiz[q]
          /\ job'[r].todo = j.old \ quiz[q].images
      BY <2>4 DEF Job
    <3>2. Agrees(r)'
      BY <2>1, <3>1 DEF Agrees
    <3>3. \A i : \A s \in Runs : i \in quiz[q].images /\ Promised(q, i, s) => Promised(q, i, s)'
      BY <1>1, <2>1, <3>1 DEF Promised, Working, Stale, Added
    <3>4. Linked(q)'
      BY <1>1, <1>4, <2>1, <3>3 DEF LinksInv, Linked, Stored
    <3> QED BY <1>3, <1>5, <1>6, <2>1, <2>2, <3>2, <3>4 DEF LinksInv
  <2> QED BY <1>7, <2>3, <2>4 DEF Job_begins
<1>8. CASE Job_removes(r)
  <2>1. UNCHANGED <<quiz, torn>> /\ j.pc = "remove" /\ j.copy \in Rows /\ j.todo \cap j.copy.images = {}
    BY <1>0, <1>8 DEF Job_removes, JobTyped, Working, Agrees
  <2>2. \A s \in Runs : s # r => Agrees(s)'
    BY <1>1, <2>1, AgreesStill DEF LinksInv
  <2>3. CASE j.todo = {} /\ Job(r, "add", j.old, j.copy, Added(j), j.changed) /\ UNCHANGED links
    <3>1. /\ job'[r].pc = "add" /\ job'[r].quiz = q /\ job'[r].old = j.old /\ job'[r].copy = j.copy
          /\ job'[r].todo = Added(j) /\ job'[r].changed = j.changed
      BY <2>3 DEF Job
    <3>2. Agrees(r)'
      BY <1>0, <2>1, <3>1 DEF Agrees, Working, Stale, Stored
    <3>3. \A i : \A s \in Runs : Promised(q, i, s) => Promised(q, i, s)'
      BY <1>1, <2>1, <3>1 DEF Promised, Working, Stale
    <3>4. Linked(q)'
      BY <1>1, <1>4, <2>1, <2>3, <3>3 DEF LinksInv, Linked, Stored
    <3> QED BY <1>3, <1>5, <1>6, <2>1, <2>2, <2>3, <3>2, <3>4 DEF LinksInv
  <2>4. ASSUME NEW i \in j.todo, NEW changed, Job(r, "remove", j.old, j.copy, j.todo \ {i}, changed),
               \/ changed = j.changed /\ UNCHANGED links
               \/ changed = TRUE /\ links' = [links EXCEPT ![q] = @ \ {i}]
        PROVE  LinksInv'
    <3>1. /\ job'[r].pc = "remove" /\ job'[r].quiz = q /\ job'[r].old = j.old /\ job'[r].copy = j.copy
          /\ job'[r].todo = j.todo \ {i} /\ job'[r].changed = changed
      BY <2>4 DEF Job
    <3>2. Agrees(r)'
      BY <1>0, <2>1, <3>1 DEF Agrees, Working, Stale, Stored
    <3>3. \A k : \A s \in Runs : Promised(q, k, s) => Promised(q, k, s)'
      BY <1>1, <2>1, <2>4, <3>1 DEF Promised, Working, Stale, Added
    <3>4. \A p \in Quizzes : p # q => links'[p] = links[p]
      BY <1>0, <2>4 DEF Tables
    <3>5. CASE links' = links
      <4>1. Linked(q)'
        BY <1>1, <1>4, <2>1, <3>3, <3>5 DEF LinksInv, Linked, Stored
      <4> QED BY <1>3, <1>5, <1>6, <2>1, <2>2, <3>2, <3>5, <4>1 DEF LinksInv
    <3>6. CASE changed = TRUE /\ links' = [links EXCEPT ![q] = @ \ {i}]
      <4>1. links'[q] = links[q] \ {i}
        BY <1>0, <1>4, <3>6 DEF Tables
      <4>2. ASSUME q \in Stored \ torn, i \in quiz[q].images PROVE Promised(q, i, r)'
        <5>1. Stale(q, j.copy)
          BY <1>0, <2>1, <2>4, <4>2 DEF Agrees, Working
        <5>2. Stale(q, job[r].copy)'
          BY <2>1, <3>1, <5>1 DEF Stale
        <5> QED BY <3>1, <3>6, <5>2 DEF Promised, Working
      <4>3. Linked(q)'
        BY <1>1, <1>4, <2>1, <3>3, <4>1, <4>2 DEF LinksInv, Linked, Stored
      <4> QED BY <1>3, <1>5, <1>6, <2>1, <2>2, <3>2, <3>4, <4>3 DEF LinksInv
    <3> QED BY <2>4, <3>5, <3>6
  <2> QED BY <1>8, <2>3, <2>4 DEF Job_removes
<1>9. CASE Job_adds(r)
  <2>1. UNCHANGED <<quiz, torn>> /\ j.pc = "add"
    BY <1>9 DEF Job_adds
  <2>2. \A s \in Runs : s # r => Agrees(s)'
    BY <1>1, <2>1, AgreesStill DEF LinksInv
  <2>3. CASE j.todo = {} /\ q \in Stored /\ j.changed /\ Job(r, "write", j.old, j.copy, j.todo, j.changed) /\ UNCHANGED links
    <3>1. /\ job'[r].pc = "write" /\ job'[r].quiz = q /\ job'[r].copy = j.copy /\ job'[r].changed = j.changed
      BY <2>3 DEF Job
    <3>2. Agrees(r)'
      BY <1>0, <2>1, <3>1 DEF Agrees, Working, Stale, Stored
    <3>3. \A i : \A s \in Runs : Promised(q, i, s) => Promised(q, i, s)'
      BY <1>1, <2>1, <2>3, <3>1 DEF Promised, Working, Stale, Added
    <3>4. Linked(q)'
      BY <1>1, <1>4, <2>1, <2>3, <3>3 DEF LinksInv, Linked, Stored
    <3> QED BY <1>3, <1>5, <1>6, <2>1, <2>2, <2>3, <3>2, <3>4 DEF LinksInv
  <2>4. CASE Job_over(r) /\ (q \notin Stored \/ (j.todo = {} /\ ~j.changed)) /\ UNCHANGED links
    <3>1. Agrees(r)'
      BY <2>4 DEF Agrees, Job_over, Job, Working
    <3>2. \A i : \A s \in Runs : q \in Stored /\ Promised(q, i, s) => Promised(q, i, s)'
      BY <1>1, <2>1, <2>4 DEF Promised, Working, Stale, Added
    <3>3. Linked(q)'
      BY <1>1, <1>4, <2>1, <2>4, <3>2 DEF LinksInv, Linked, Stored
    <3> QED BY <1>3, <1>5, <1>6, <2>1, <2>2, <2>4, <3>1, <3>3 DEF LinksInv
  <2>5. ASSUME NEW i \in j.todo, Job(r, "add", j.old, j.copy, j.todo \ {i}, TRUE),
               links' = [links EXCEPT ![q] = @ \cup {i}]
        PROVE  LinksInv'
    <3>1. /\ job'[r].pc = "add" /\ job'[r].quiz = q /\ job'[r].copy = j.copy
          /\ job'[r].todo = j.todo \ {i} /\ job'[r].changed = TRUE
      BY <2>5 DEF Job
    <3>2. Agrees(r)'
      BY <1>0, <2>1, <3>1 DEF Agrees, Working, Stale, Stored
    <3>3. \A k : \A s \in Runs : Promised(q, k, s) => Promised(q, k, s)' \/ k = i
      BY <1>1, <2>1, <3>1 DEF Promised, Working, Stale, Added
    <3>4. links'[q] = links[q] \cup {i} /\ \A p \in Quizzes : p # q => links'[p] = links[p]
      BY <1>0, <1>4, <2>5 DEF Tables
    <3>5. Linked(q)'
      BY <1>1, <1>4, <2>1, <3>3, <3>4 DEF LinksInv, Linked, Stored
    <3> QED BY <1>3, <1>5, <1>6, <2>1, <2>2, <3>2, <3>4, <3>5 DEF LinksInv
  <2> QED BY <1>9, <2>3, <2>4, <2>5 DEF Job_adds
<1>10. CASE Job_writes(r)
  <2>1. j.pc = "write" /\ j.copy \in Rows /\ Job_over(r) /\ UNCHANGED links
    BY <1>0, <1>10 DEF Job_writes, JobTyped, Working
  <2>2. Agrees(r)'
    BY <2>1 DEF Agrees, Job_over, Job, Working
  <2>3. CASE quiz[q] = j.copy /\ UNCHANGED <<quiz, torn>>
    <3>1. \A s \in Runs : s # r => Agrees(s)'
      BY <1>1, <2>3, AgreesStill DEF LinksInv
    <3>2. \A i : \A s \in Runs : Promised(q, i, s) => Promised(q, i, s)'
      BY <1>1, <2>1, <2>3, NotNothing DEF Promised, Working, Stale, Added
    <3>3. Linked(q)'
      BY <1>1, <1>4, <2>1, <2>3, <3>2 DEF LinksInv, Linked, Stored
    <3> QED BY <1>3, <1>5, <1>6, <2>1, <2>2, <2>3, <3>1, <3>3 DEF LinksInv
  <2>4. CASE Row(q, IF quiz[q] = Nothing THEN Nothing ELSE j.copy) /\ torn' = torn \cup {q}
    <3>1. \A s \in Runs : s # r => Agrees(s)'
      <4> TAKE s \in Runs
      <4>1. job[s].pc \in Working => job[s].quiz \in Quizzes
        BY DEF Typed, JobTyped, Working
      <4> QED BY <1>1, <1>4, <2>4, <4>1 DEF Agrees, LinksInv, Row, Stale, Stored
    <3>2. Linked(q)'
      BY <2>4 DEF Linked
    <3>3. \A p \in Quizzes : p # q => Linked(p)'
      BY <1>6, <2>1, <2>4 DEF Row
    <3> QED BY <1>3, <1>5, <2>2, <3>1, <3>2, <3>3 DEF LinksInv
  <2> QED BY <1>10, <2>3, <2>4 DEF Job_writes
<1> QED BY <1>7, <1>8, <1>9, <1>10 DEF Job_kind

LEMMA KindLinks == ASSUME Typed, WritersInv, LinksInv, Kind PROVE LinksInv'
<1>1. CASE Editor_step
  <2>1. UNCHANGED <<quiz, links, job, torn, run>>
    BY <1>1 DEF Editor_step
  <2> QED BY <2>1, LinksStay DEF EnqueuedStays, RunsStay
<1>2. CASE Restarted
  <2>1. UNCHANGED <<quiz, links, job>> /\ torn \subseteq torn'
    BY <1>2 DEF Restarted
  <2>2. EnqueuedStays
    BY <1>2 DEF Restarted, EnqueuedStays
  <2>3. \A p \in Quizzes : p \in Stored \ torn' => RunsStay(p)
    BY <1>2 DEF Restarted, RunsStay
  <2> QED BY <2>1, <2>2, <2>3, LinksStay
<1> QED BY <1>1, <1>2, RunLinks, JobLinks DEF Kind

(***************************************************************************)
(* Ratings.                                                                *)
(***************************************************************************)
\* A run whose rating is saved keeps its place until it is over.
Steady ==
  \A s \in Runs : /\ run[s].pc = "done" => run'[s].pc = "done"
                  /\ run[s].op = "rate" /\ run[s].pc = "write" =>
                       run'[s].pc = "done" \/ (run'[s].op = "rate" /\ run'[s].pc = "write")

Ids == \A x \in ratings : run[x.id].pc = "done" \/ (run[x.id].op = "rate" /\ run[x.id].pc = "write")

LEMMA IdsStay == ASSUME Typed, Ids, Steady, ratings' \subseteq ratings PROVE Ids'
BY DEF Typed, Tables, Ratings, Ids, Steady

\* The runs that are rating p are where they were.
RatersStay(p) == \A s \in Runs : run'[s] = run[s] \/ (~Rater(p, s) /\ ~Rater(p, s)')

SameRatings(p) == For(p)' = For(p) /\ Against(p)' = Against(p)

LEMMA RatedElsewhere ==
  ASSUME NEW p \in Quizzes, Rateds(p), quiz'[p] = quiz[p], SameRatings(p), torn \subseteq torn',
         p \in Stored \ torn' => RatersStay(p)
  PROVE  Rateds(p)'
<1> SUFFICES ASSUME p \in Stored', p \notin torn', quiz[p].imported_from_kahoot # Nothing
             PROVE  /\ (\A r \in Runs : ~Rater(p, r)') => Ahead(p, TRUE, 0, 0)'
                    /\ \A r \in Runs : Rater(p, r)' /\ ~Stale(p, run[r].copy)' =>
                         Progress(p, r)' \/ \E s \in Runs \ {r} : Rater(p, s)'
  BY DEF Rateds
<1>1. p \in Stored \ torn
  BY DEF Stored
<1>2. \A s \in Runs : Rater(p, s)' <=> Rater(p, s)
  BY <1>1 DEF RatersStay, Rater
<1>3. \A s \in Runs : Rater(p, s) => run'[s] = run[s]
  BY <1>1 DEF RatersStay
<1>4. (\A r \in Runs : ~Rater(p, r)') => Ahead(p, TRUE, 0, 0)'
  BY <1>1, <1>2 DEF Rateds, Ahead, SameRatings
<1>5. ASSUME NEW r \in Runs, Rater(p, r)', ~Stale(p, run[r].copy)'
      PROVE  Progress(p, r)' \/ \E s \in Runs \ {r} : Rater(p, s)'
  <2>1. Rater(p, r) /\ ~Stale(p, run[r].copy) /\ run'[r] = run[r]
    BY <1>2, <1>3, <1>5 DEF Stale
  <2>2. CASE \E s \in Runs \ {r} : Rater(p, s)
    BY <1>2, <2>2
  <2>3. CASE Progress(p, r)
    BY <2>1, <2>3 DEF Progress, Ahead, SameRatings
  <2> QED BY <1>1, <2>1, <2>2, <2>3 DEF Rateds
<1> QED BY <1>4, <1>5

\* A row of q by a new writer: the copies that the runs which are rating it
\* hold are stale.
LEMMA RatedAfterRow ==
  ASSUME Typed, WritersInv, RatingsInv, NEW q \in Quizzes, NEW r \in Runs, NEW x \in Rows \cup {Nothing},
         run[r].pc \notin {"done", "link"}, x # Nothing => x.by = r,
         Row(q, x), Others(r), UNCHANGED ratings, torn \subseteq torn',
         \A p \in Quizzes : ~Rater(p, r)' /\ (p # q => ~Rater(p, r)),
         x # Nothing /\ q \notin torn' /\ x.imported_from_kahoot # Nothing
           /\ (\A s \in Runs : s # r => ~Rater(q, s)) => Ahead(q, TRUE, 0, 0)'
  PROVE  \A p \in Quizzes : Rateds(p)'
<1>1. ASSUME NEW p \in Quizzes, p # q PROVE Rateds(p)'
  <2>1. RatersStay(p)
    BY <1>1 DEF RatersStay, Others
  <2>2. quiz'[p] = quiz[p] /\ SameRatings(p)
    BY <1>1 DEF Row, SameRatings, For, Against
  <2> QED BY <2>1, <2>2, RatedElsewhere DEF RatingsInv
<1>2. ASSUME NEW s \in Runs, Rater(q, s)', x # Nothing PROVE Stale(q, run[s].copy)'
  <2>1. s # r /\ run'[s] = run[s]
    BY <1>2 DEF Others
  <2>2. run[s].copy \in Rows
    BY <1>2, <2>1 DEF Typed, RunTyped, Copyless, Rater
  <2>3. run[s].copy.by # r
    BY <2>2 DEF WritersInv, Known
  <2> QED BY <1>2, <2>1, <2>3 DEF Stale, Row
<1>3. Rateds(q)'
  <2> SUFFICES ASSUME q \in Stored', q \notin torn', quiz'[q].imported_from_kahoot # Nothing
               PROVE  /\ (\A s \in Runs : ~Rater(q, s)') => Ahead(q, TRUE, 0, 0)'
                      /\ \A s \in Runs : Rater(q, s)' /\ ~Stale(q, run[s].copy)' =>
                           Progress(q, s)' \/ \E t \in Runs \ {s} : Rater(q, t)'
    BY DEF Rateds
  <2>1. quiz'[q] = x /\ x # Nothing
    BY DEF Row, Stored
  <2>2. ASSUME \A s \in Runs : ~Rater(q, s)' PROVE Ahead(q, TRUE, 0, 0)'
    <3>1. \A s \in Runs : s # r => ~Rater(q, s)
      BY <2>2 DEF Others, Rater
    <3> QED BY <2>1, <3>1
  <2> QED BY <1>2, <2>1, <2>2
<1> QED BY <1>1, <1>3

\* Counting a rating more, and one less.
LEMMA CountedMore ==
  ASSUME Typed, NEW S \in SUBSET ratings, NEW z, z \notin S
  PROVE  Cardinality(S \cup {z}) = Cardinality(S) + 1 /\ Cardinality(S) \in Nat
<1>1. IsFiniteSet(S)
  BY FS_Subset DEF Typed, Tables
<1> QED BY <1>1, FS_AddElement, FS_CardinalityType

LEMMA CountedLess ==
  ASSUME Typed, NEW S \in SUBSET ratings, NEW z \in S
  PROVE  Cardinality(S \ {z}) = Cardinality(S) - 1 /\ Cardinality(S) \in Nat
<1>1. IsFiniteSet(S)
  BY FS_Subset DEF Typed, Tables
<1> QED BY <1>1, FS_RemoveElement, FS_CardinalityType

LEMMA RunSteady == ASSUME Typed, NEW r \in Runs, Run_kind(r) PROVE Steady
<1>0. RunTyped(r, run[r])
  BY DEF Typed
<1>1. run[r].pc # "done"
  BY DEF Run_kind, Begins, Gives_up, Writes_back, Finds_own, Takes_back, Adds_own, Enqueues, Indexes,
         Closes, Saves_row, Collides, Adds_link, Deletes_row, Imports, Kahoot
<1>2. Others(r)
  BY DEF Run_kind, Begins, Gives_up, Writes_back, Finds_own, Takes_back, Adds_own, Enqueues, Indexes,
         Closes, Saves_row, Collides, Adds_link, Deletes_row, Imports, Kahoot, Goes_on, Carries, Over
<1>3. run[r].op = "rate" /\ run[r].pc = "write" => run'[r].pc = "done"
  BY DEF Run_kind, Begins, Gives_up, Writes_back, Finds_own, Takes_back, Adds_own, Enqueues, Indexes,
         Closes, Saves_row, Collides, Adds_link, Deletes_row, Imports, Kahoot, Over
<1> QED BY <1>1, <1>2, <1>3 DEF Steady, Others

LEMMA RatedEverywhere ==
  ASSUME RatingsInv, UNCHANGED <<quiz, ratings>>, torn \subseteq torn',
         \A p \in Quizzes : p \in Stored \ torn' => RatersStay(p)
  PROVE  \A p \in Quizzes : Rateds(p)'
BY RatedElsewhere DEF RatingsInv, SameRatings, For, Against

\* One user's rating of q, from the look at the old one to the new one.
LEMMA RatedWhileRating ==
  ASSUME Typed, RatingsInv, NEW r \in Runs, NEW q \in Quizzes, Others(r), UNCHANGED <<quiz, torn>>,
         run[r].op = "rate", run[r].quiz = q, Rater(q, r)', run'[r].copy = run[r].copy,
         \A p \in Quizzes : p # q => SameRatings(p),
         \/ run[r].pc = "own"
         \/ Rater(q, r),
         q \in Stored \ torn /\ quiz[q].imported_from_kahoot # Nothing =>
           /\ run[r].pc = "own" /\ Ahead(q, TRUE, 0, 0) => Progress(q, r)'
           /\ run[r].pc # "own" /\ Progress(q, r) => Progress(q, r)'
  PROVE  \A p \in Quizzes : Rateds(p)'
<1>1. ASSUME NEW p \in Quizzes, p # q PROVE Rateds(p)'
  <2>1. RatersStay(p)
    BY <1>1 DEF RatersStay, Others, Rater
  <2> QED BY <1>1, <2>1, RatedElsewhere DEF RatingsInv
<1>2. Rateds(q)'
  <2> SUFFICES ASSUME q \in Stored', q \notin torn', quiz'[q].imported_from_kahoot # Nothing,
                      NEW s \in Runs, Rater(q, s)', ~Stale(q, run[s].copy)'
               PROVE  Progress(q, s)' \/ \E t \in Runs \ {s} : Rater(q, t)'
    BY DEF Rateds
  <2>1. q \in Stored \ torn /\ quiz[q].imported_from_kahoot # Nothing
    BY DEF Stored
  <2>2. CASE s # r
    BY <2>2
  <2>3. CASE s = r /\ \E t \in Runs \ {r} : Rater(q, t)
    BY <2>3 DEF Others, Rater
  <2>4. CASE s = r /\ \A t \in Runs \ {r} : ~Rater(q, t)
    <3>1. CASE run[r].pc = "own"
      <4>1. \A t \in Runs : ~Rater(q, t)
        BY <2>4, <3>1 DEF Rater
      <4> QED BY <2>1, <2>4, <3>1, <4>1 DEF RatingsInv, Rateds
    <3>2. CASE run[r].pc # "own"
      <4>1. Rater(q, r) /\ ~Stale(q, run[r].copy)
        BY <2>4, <3>2 DEF Stale
      <4> QED BY <2>1, <2>4, <3>2, <4>1 DEF RatingsInv, Rateds
    <3> QED BY <3>1, <3>2
  <2> QED BY <2>2, <2>3, <2>4
<1> QED BY <1>1, <1>2

LEMMA RatesRow ==
  ASSUME Typed, RatingsInv, NEW r \in Runs, Finds_own(r) \/ Takes_back(r) \/ Adds_own(r)
  PROVE  \A p \in Quizzes : Rateds(p)'
<1> SUFFICES ASSUME NEW q, q = run[r].quiz PROVE \A p \in Quizzes : Rateds(p)'
  OBVIOUS
<1>0. RunTyped(r, run[r]) /\ Tables /\ run[r].op = "rate"
  BY DEF Typed, Finds_own, Takes_back, Adds_own
<1>1. /\ q \in Quizzes /\ run[r].user \in Users /\ run[r].positive \in BOOLEAN
      /\ \A y \in run[r].todo : y.quiz = q
  BY <1>0 DEF RunTyped
<1>2. /\ Others(r) /\ UNCHANGED <<quiz, torn>> /\ run'[r].copy = run[r].copy
      /\ run'[r].quiz = q /\ run'[r].op = "rate" /\ run'[r].positive = run[r].positive
  BY <1>0 DEF Finds_own, Takes_back, Adds_own, Goes_on, Carries
<1>3. For(q) \subseteq ratings /\ Against(q) \subseteq ratings
  BY DEF For, Against
<1>4. CASE Finds_own(r)
  <2>1. run[r].pc = "own" /\ UNCHANGED ratings
    BY <1>4 DEF Finds_own
  <2>2. For(q)' = For(q) /\ Against(q)' = Against(q) /\ \A p \in Quizzes : SameRatings(p)
    BY <2>1 DEF For, Against, SameRatings
  <2>3. CASE Carries(r, "save", {})
    <3>1. run'[r].pc = "save" /\ run'[r].todo = {}
      BY <2>3 DEF Carries
    <3>2. Ahead(q, TRUE, 0, 0) => Progress(q, r)'
      BY <1>2, <2>2, <3>1 DEF Ahead, Progress
    <3>3. Rater(q, r)'
      BY <1>2, <3>1 DEF Rater
    <3> QED BY <1>0, <1>1, <1>2, <2>1, <2>2, <3>2, <3>3, RatedWhileRating
  <2>4. CASE \E y \in IF run[r].positive THEN Against(q) ELSE For(q) : Carries(r, "delete", {y})
    <3>1. PICK y \in IF run[r].positive THEN Against(q) ELSE For(q) : Carries(r, "delete", {y})
      BY <2>4
    <3>2. run'[r].pc = "delete" /\ run'[r].todo = {y}
      BY <3>1 DEF Carries
    <3>3. Ahead(q, TRUE, 0, 0) => Progress(q, r)'
      BY <1>2, <2>2, <3>1, <3>2 DEF Ahead, Progress
    <3>4. Rater(q, r)'
      BY <1>2, <3>2 DEF Rater
    <3> QED BY <1>0, <1>1, <1>2, <2>1, <2>2, <3>3, <3>4, RatedWhileRating
  <2> QED BY <1>4, <2>3, <2>4 DEF Finds_own
<1>5. CASE Takes_back(r)
  <2>1. run[r].pc = "delete" /\ run'[r].pc = "save" /\ run'[r].todo = run[r].todo /\ ratings' = ratings \ run[r].todo
    BY <1>5 DEF Takes_back, Goes_on, Carries
  <2>2. \A p \in Quizzes : p # q => SameRatings(p)
    BY <1>1, <2>1 DEF SameRatings, For, Against
  <2>3. Rater(q, r) /\ Rater(q, r)'
    BY <1>0, <1>2, <2>1 DEF Rater
  <2>4. ASSUME Progress(q, r), q \in Stored PROVE Progress(q, r)'
    <3>0. quiz[q].likes \in Int /\ quiz[q].dislikes \in Int
      BY <1>0, <1>1, <2>4, NotNothing DEF Tables, Stored, Rows
    <3>1. PICK y \in IF run[r].positive THEN Against(q) ELSE For(q) : run[r].todo = {y}
      BY <2>1, <2>4 DEF Progress
    <3>2. Ahead(q, run[r].positive, 0, 0)
      BY <2>1, <2>4 DEF Progress
    <3>3. CASE run[r].positive
      <4>1. For(q)' = For(q) /\ Against(q)' = Against(q) \ {y} /\ y \in Against(q)
        BY <2>1, <3>1, <3>3 DEF For, Against
      <4>2. Cardinality(Against(q)') = Cardinality(Against(q)) - 1 /\ Cardinality(Against(q)) \in Nat
        BY <1>3, <4>1, CountedLess
      <4> QED BY <1>2, <2>1, <3>0, <3>1, <3>2, <3>3, <4>1, <4>2 DEF Ahead, Progress
    <3>4. CASE ~run[r].positive
      <4>1. Against(q)' = Against(q) /\ For(q)' = For(q) \ {y} /\ y \in For(q)
        BY <2>1, <3>1, <3>4 DEF For, Against
      <4>2. Cardinality(For(q)') = Cardinality(For(q)) - 1 /\ Cardinality(For(q)) \in Nat
        BY <1>3, <4>1, CountedLess
      <4> QED BY <1>2, <2>1, <3>0, <3>1, <3>2, <3>4, <4>1, <4>2 DEF Ahead, Progress
    <3> QED BY <3>3, <3>4
  <2> QED BY <1>0, <1>1, <1>2, <2>1, <2>2, <2>3, <2>4, RatedWhileRating
<1>6. CASE Adds_own(r)
  <2> DEFINE z == [id |-> r, quiz |-> run[r].quiz, user |-> run[r].user, positive |-> run[r].positive]
  <2>1. run[r].pc = "save" /\ run'[r].pc = "write" /\ run'[r].todo = run[r].todo /\ ratings' = ratings \cup {z}
    BY <1>6 DEF Adds_own, Goes_on, Carries
  <2>2. z.id = r /\ z.quiz = q /\ z.positive = run[r].positive
    OBVIOUS
  <2>3. z \notin ratings
    BY <1>0, <2>1, <2>2 DEF RatingsInv
  <2> HIDE DEF z
  <2>4. \A p \in Quizzes : p # q => SameRatings(p)
    BY <2>1, <2>2 DEF SameRatings, For, Against
  <2>5. Rater(q, r) /\ Rater(q, r)'
    BY <1>0, <1>2, <2>1 DEF Rater
  <2>6. ASSUME Progress(q, r), q \in Stored PROVE Progress(q, r)'
    <3>0. quiz[q].likes \in Int /\ quiz[q].dislikes \in Int
      BY <1>0, <1>1, <2>6, NotNothing DEF Tables, Stored, Rows
    <3>1. Ahead(q, run[r].positive, 0, IF run[r].todo = {} THEN 0 ELSE -1)
      BY <2>1, <2>6 DEF Progress
    <3>2. CASE run[r].positive
      <4>1. Against(q)' = Against(q) /\ For(q)' = For(q) \cup {z} /\ z \notin For(q)
        BY <2>1, <2>2, <2>3, <3>2 DEF For, Against
      <4>2. Cardinality(For(q)') = Cardinality(For(q)) + 1 /\ Cardinality(For(q)) \in Nat
        BY <1>3, <4>1, CountedMore
      <4> QED BY <1>2, <2>1, <3>0, <3>1, <3>2, <4>1, <4>2 DEF Ahead, Progress
    <3>3. CASE ~run[r].positive
      <4>1. For(q)' = For(q) /\ Against(q)' = Against(q) \cup {z} /\ z \notin Against(q)
        BY <2>1, <2>2, <2>3, <3>3 DEF For, Against
      <4>2. Cardinality(Against(q)') = Cardinality(Against(q)) + 1 /\ Cardinality(Against(q)) \in Nat
        BY <1>3, <4>1, CountedMore
      <4> QED BY <1>2, <2>1, <3>0, <3>1, <3>3, <4>1, <4>2 DEF Ahead, Progress
    <3> QED BY <3>2, <3>3
  <2> QED BY <1>0, <1>1, <1>2, <2>1, <2>4, <2>5, <2>6, RatedWhileRating
<1> QED BY <1>4, <1>5, <1>6

\* Nobody has rated a quiz that is not there.
LEMMA Unrated ==
  ASSUME Typed, NEW q, q \notin Stored
  PROVE  Cardinality(For(q)) = 0 /\ Cardinality(Against(q)) = 0
<1>1. For(q) = {} /\ Against(q) = {}
  BY DEF Typed, Tables, For, Against
<1> QED BY <1>1, FS_EmptySet

LEMMA RowRatings ==
  ASSUME Typed, WritersInv, RatingsInv, NEW r \in Runs,
         Writes_back(r) \/ Saves_row(r) \/ Deletes_row(r) \/ Imports(r)
  PROVE  \A p \in Quizzes : Rateds(p)'
<1> SUFFICES ASSUME NEW q, q = run[r].quiz PROVE \A p \in Quizzes : Rateds(p)'
  OBVIOUS
<1>0. RunTyped(r, run[r]) /\ Tables
  BY DEF Typed
<1>1. CASE Writes_back(r)
  <2>1. q \in Quizzes /\ run[r].copy \in Rows /\ run[r].pc = "write" /\ Over(r) /\ UNCHANGED ratings
    BY <1>0, <1>1, NotNothing DEF Writes_back, RunTyped, Staged, Copyless
  <2>2. PICK row : /\ Outcome(r, row)
                   /\ \/ quiz[q] = run[r].copy /\ Row(q, row) /\ UNCHANGED torn
                      \/ /\ Row(q, IF quiz[q] = Nothing THEN Nothing ELSE row)
                         /\ torn' = torn \cup {q}
    BY <1>1, Zenon DEF Writes_back
  <2>3. row \in Rows /\ row.by = r
    BY <2>2 DEF Outcome
  <2>4. \A p \in Quizzes : ~Rater(p, r)' /\ (p # q => ~Rater(p, r))
    BY <2>1 DEF Rater, Over
  <2>5. CASE quiz[q] = run[r].copy /\ Row(q, row) /\ UNCHANGED torn
    <3>1. ASSUME q \notin torn', row.imported_from_kahoot # Nothing, \A s \in Runs : s # r => ~Rater(q, s)
          PROVE  Ahead(q, TRUE, 0, 0)'
      <4>1. /\ q \in Stored \ torn /\ quiz[q].imported_from_kahoot # Nothing /\ quiz'[q] = row
            /\ quiz[q].likes \in Int /\ quiz[q].dislikes \in Int
        BY <2>1, <2>2, <2>5, <3>1, NotNothing DEF Outcome, Stored, Row, Rows
      <4>2. For(q)' = For(q) /\ Against(q)' = Against(q)
        BY <2>1 DEF For, Against
      <4>3. CASE run[r].op = "rate"
        <5>1. Rater(q, r) /\ ~Stale(q, run[r].copy) /\ run[r].positive \in BOOLEAN
          BY <1>0, <2>1, <2>5, <4>1, <4>3 DEF Rater, Stale, Stored, RunTyped
        <5>2. Progress(q, r)
          BY <2>1, <3>1, <4>1, <5>1 DEF RatingsInv, Rateds
        <5>3. Ahead(q, run[r].positive, 1, IF run[r].todo = {} THEN 0 ELSE -1)
          BY <2>1, <5>2 DEF Progress
        <5>4. IF run[r].positive
              THEN row.likes = quiz[q].likes + 1 /\ row.dislikes = quiz[q].dislikes + (IF run[r].todo = {} THEN 0 ELSE -1)
              ELSE row.likes = quiz[q].likes + (IF run[r].todo = {} THEN 0 ELSE -1) /\ row.dislikes = quiz[q].dislikes + 1
          BY <2>2, <2>5, <4>3 DEF Outcome
        <5> QED BY <2>3, <4>1, <4>2, <5>1, <5>3, <5>4 DEF Ahead, Rows
      <4>4. CASE run[r].op # "rate"
        <5>1. \A s \in Runs : ~Rater(q, s)
          BY <3>1, <4>4 DEF Rater
        <5>2. Ahead(q, TRUE, 0, 0)
          BY <2>1, <4>1, <5>1 DEF RatingsInv, Rateds
        <5>3. row.likes = quiz[q].likes /\ row.dislikes = quiz[q].dislikes
          BY <2>2, <2>5, <4>4 DEF Outcome
        <5> QED BY <4>1, <4>2, <5>2, <5>3 DEF Ahead
      <4> QED BY <4>3, <4>4
    <3> QED BY <2>1, <2>3, <2>4, <2>5, <3>1, RatedAfterRow DEF Over
  <2>6. CASE Row(q, IF quiz[q] = Nothing THEN Nothing ELSE row) /\ torn' = torn \cup {q}
    <3>1. PICK x \in Rows \cup {Nothing} : Row(q, x) /\ (x # Nothing => x.by = r)
      BY <2>3, <2>6
    <3> QED BY <2>1, <2>4, <2>6, <3>1, RatedAfterRow DEF Over
  <2> QED BY <2>2, <2>5, <2>6
<1>2. CASE Saves_row(r)
  <2> DEFINE n == run[r].new
  <2>1. q \in Quizzes /\ n \in Rows /\ n.by = r /\ n.likes = 0 /\ n.dislikes = 0
    BY <1>0, <1>2 DEF Saves_row, RunTyped, Writing
  <2>2. /\ run[r].pc = "save" /\ run[r].op \in {"create", "kahoot"} /\ q \notin Stored
        /\ Row(q, n) /\ Carries(r, "link", n.images) /\ UNCHANGED <<torn, ratings>>
    BY <1>2 DEF Saves_row
  <2> HIDE DEF n
  <2>3. Ahead(q, TRUE, 0, 0)'
    <3>1. For(q)' = For(q) /\ Against(q)' = Against(q) /\ quiz'[q] = n
      BY <2>2 DEF For, Against, Row
    <3> QED BY <2>1, <2>2, <3>1, Unrated DEF Ahead
  <2>4. \A p \in Quizzes : ~Rater(p, r)' /\ ~Rater(p, r)
    BY <2>2 DEF Rater, Carries
  <2> QED BY <2>1, <2>2, <2>3, <2>4, RatedAfterRow DEF Carries
<1>3. CASE Deletes_row(r)
  <2>1. q \in Quizzes
    BY <1>0, <1>3 DEF Deletes_row, RunTyped
  <2>2. run[r].op = "delete" /\ run[r].pc = "row" /\ Over(r) /\ UNCHANGED <<torn, ratings>>
    BY <1>3 DEF Deletes_row
  <2>3. \A p \in Quizzes : ~Rater(p, r)' /\ ~Rater(p, r)
    BY <2>2 DEF Rater, Over
  <2>4. CASE Row(q, Nothing)
    BY <2>1, <2>2, <2>3, <2>4, RatedAfterRow DEF Over
  <2>5. CASE UNCHANGED quiz
    <3>1. \A p \in Quizzes : RatersStay(p)
      BY <2>2, <2>3 DEF RatersStay, Over, Others
    <3> QED BY <2>2, <2>5, <3>1, RatedEverywhere
  <2> QED BY <1>3, <2>4, <2>5 DEF Deletes_row
<1>4. CASE Imports(r)
  <2>1. PICK p \in fresh, row \in Rows :
          /\ row.by = r
          /\ row.imported_from_kahoot # Nothing => row.images = {} /\ row.likes = 0 /\ row.dislikes = 0
          /\ Row(p, row)
    BY <1>4 DEF Imports
  <2>2. run[r].pc = "idle" /\ Over(r) /\ UNCHANGED <<torn, ratings>>
    BY <1>4 DEF Imports
  <2>3. p \in Quizzes /\ p \notin Stored
    BY <1>0 DEF Tables
  <2>4. \A t \in Quizzes : ~Rater(t, r)' /\ ~Rater(t, r)
    BY <1>0, <2>2 DEF Rater, Over, RunTyped, Staged
  <2>5. row.imported_from_kahoot # Nothing => Ahead(p, TRUE, 0, 0)'
    <3>1. For(p)' = For(p) /\ Against(p)' = Against(p) /\ quiz'[p] = row
      BY <2>1, <2>2, <2>3 DEF For, Against, Row
    <3> QED BY <2>1, <2>3, <3>1, Unrated DEF Ahead
  <2> QED BY <2>1, <2>2, <2>3, <2>4, <2>5, RatedAfterRow DEF Over
<1> QED BY <1>1, <1>2, <1>3, <1>4

LEMMA RunRatings == ASSUME Typed, WritersInv, RatingsInv, NEW r \in Runs, Run_kind(r) PROVE \A p \in Quizzes : Rateds(p)'
<1>0. RunTyped(r, run[r])
  BY DEF Typed
<1>1. CASE Writes_back(r) \/ Saves_row(r) \/ Deletes_row(r) \/ Imports(r)
  BY <1>1, RowRatings
<1>2. CASE Finds_own(r) \/ Takes_back(r) \/ Adds_own(r)
  BY <1>2, RatesRow
<1>3. CASE Gives_up(r)
  <2>1. \A p \in Quizzes : p \in Stored => RatersStay(p)
    BY <1>0, <1>3 DEF Gives_up, Over, Others, RatersStay, Rater, RunTyped, Staged
  <2> QED BY <1>3, <2>1, RatedEverywhere DEF Gives_up
<1>4. CASE Begins(r) \/ Enqueues(r) \/ Indexes(r) \/ Closes(r) \/ Collides(r) \/ Adds_link(r) \/ Kahoot(r)
  <2>1. UNCHANGED <<quiz, ratings, torn>>
    BY <1>4 DEF Begins, Enqueues, Indexes, Closes, Collides, Adds_link, Kahoot
  <2>2. \A p \in Quizzes : RatersStay(p)
    <3>1. Others(r)
      BY <1>4 DEF Begins, Enqueues, Indexes, Closes, Collides, Adds_link, Kahoot, Goes_on, Carries, Over
    <3>2. run[r].op # "rate"
      BY <1>0, <1>4 DEF Begins, Enqueues, Indexes, Closes, Collides, Adds_link, Kahoot, RunTyped, Staged
    <3>3. run'[r].op # "rate" \/ run'[r].pc = "own"
      BY <1>0, <1>4, <3>2 DEF Begins, Enqueues, Indexes, Closes, Collides, Adds_link, Kahoot, Goes_on, Carries, Over, First_stage
    <3> QED BY <3>1, <3>2, <3>3 DEF RatersStay, Others, Rater
  <2> QED BY <2>1, <2>2, RatedEverywhere
<1> QED BY <1>1, <1>2, <1>3, <1>4 DEF Run_kind

LEMMA JobRatings == ASSUME Typed, RatingsInv, NEW r \in Runs, Job_kind(r) PROVE \A p \in Quizzes : Rateds(p)'
<1> SUFFICES ASSUME NEW q, q = job[r].quiz PROVE \A p \in Quizzes : Rateds(p)'
  OBVIOUS
<1>1. UNCHANGED <<run, ratings>> /\ torn \subseteq torn' /\ \A p \in Quizzes : RatersStay(p)
  BY DEF Job_kind, Job_begins, Job_removes, Job_adds, Job_writes, RatersStay
<1>2. CASE UNCHANGED quiz
  BY <1>1, <1>2, RatedEverywhere
<1>3. CASE \E x : Row(q, x) /\ q \in torn'
  <2>1. \A p \in Quizzes : p # q => Rateds(p)'
    BY <1>1, <1>3, RatedElsewhere DEF RatingsInv, Row, SameRatings, For, Against
  <2>2. Rateds(q)'
    BY <1>3 DEF Rateds
  <2> QED BY <2>1, <2>2
<1>4. UNCHANGED quiz \/ \E x : Row(q, x) /\ q \in torn'
  BY DEF Job_kind, Job_begins, Job_removes, Job_adds, Job_writes
<1> QED BY <1>2, <1>3, <1>4

LEMMA KindRatings == ASSUME Typed, WritersInv, RatingsInv, Kind PROVE RatingsInv'
<1>1. Steady
  <2>1. CASE Editor_step \/ Restarted
    BY <2>1 DEF Editor_step, Restarted, Steady
  <2>2. CASE \E r \in Runs : Job_kind(r)
    BY <2>2 DEF Job_kind, Job_begins, Job_removes, Job_adds, Job_writes, Steady
  <2> QED BY <2>1, <2>2, RunSteady DEF Kind
<1>2. Ids'
  <2>1. Ids
    BY DEF RatingsInv, Ids
  <2>2. CASE ratings' \subseteq ratings
    BY <1>1, <2>1, <2>2, IdsStay
  <2>3. CASE \E r \in Runs : Adds_own(r)
    <3>1. PICK r \in Runs : Adds_own(r)
      BY <2>3
    <3>2. run'[r].op = "rate" /\ run'[r].pc = "write"
      BY <3>1 DEF Adds_own, Goes_on, Carries
    <3>3. \A x \in ratings' : x \in ratings \/ x.id = r
      BY <3>1 DEF Adds_own
    <3>4. \A x \in ratings : x.id \in Runs
      BY DEF Typed, Tables, Ratings
    <3> QED BY <1>1, <2>1, <3>2, <3>3, <3>4 DEF Ids, Steady
  <2>4. ratings' \subseteq ratings \/ \E r \in Runs : Adds_own(r)
    BY DEF Kind, Run_kind, Begins, Gives_up, Writes_back, Finds_own, Takes_back, Enqueues, Indexes,
           Closes, Saves_row, Collides, Adds_link, Deletes_row, Imports, Kahoot, Editor_step, Restarted,
           Job_kind, Job_begins, Job_removes, Job_adds, Job_writes
  <2> QED BY <2>2, <2>3, <2>4
<1>3. \A p \in Quizzes : Rateds(p)'
  <2>1. CASE Editor_step
    BY <2>1, RatedEverywhere DEF Editor_step, RatersStay
  <2>2. CASE Restarted
    <3>1. UNCHANGED <<quiz, ratings>> /\ torn \subseteq torn'
      BY <2>2 DEF Restarted
    <3>2. ASSUME NEW p \in Quizzes, p \notin torn' PROVE RatersStay(p)
      BY <2>2, <3>2 DEF Restarted, RatersStay, Rater
    <3> QED BY <3>1, <3>2, RatedEverywhere
  <2> QED BY <2>1, <2>2, RunRatings, JobRatings DEF Kind
<1> QED BY <1>2, <1>3 DEF RatingsInv, Ids

(***************************************************************************)
(* The invariants together.                                                *)
(***************************************************************************)
LInv == IInv /\ Typed /\ WritersInv /\ LinksInv /\ IndexInv /\ RatingsInv

LEMMA FirstTyped == ASSUME Init PROVE Typed
<1>1. \A q \in Quizzes : quiz[q] \in Rows \cup {Nothing}
  <2>1. Blank("first", TRUE, {}, FALSE) \in Rows
    BY DEF Blank, Rows, Writers
  <2> QED BY <2>1 DEF Init
<1>2. /\ fresh \subseteq Quizzes /\ index \subseteq Quizzes /\ torn \subseteq Quizzes
      /\ drift \in BOOLEAN /\ listed \subseteq Edits
  BY LibraryAssumption DEF Init
<1>3. fresh \cap Stored = {}
  BY DEF Init, Stored
<1>4. links \in [Quizzes -> SUBSET Images] /\ \A q \in Quizzes : q \notin Stored => links[q] = {}
  BY DEF Init
<1>5. ratings \subseteq Ratings /\ IsFiniteSet(ratings) /\ \A x \in ratings : x.quiz \in Stored
  BY FS_EmptySet DEF Init
<1>6. /\ session \in [Edits -> [pc : {"none", "added", "open", "gone"}, quiz : Quizzes \cup {Nothing}, edit : BOOLEAN]]
      /\ \A e \in Edits : session[e].pc \in {"added", "open"} => session[e].quiz \in Quizzes
  BY DEF Init
<1>7. Tables
  BY <1>1, <1>2, <1>3, <1>4, <1>5, <1>6 DEF Tables
<1>8. \A r \in Runs : RunTyped(r, run[r])
  BY DEF Init, Idle, RunTyped, Staged, Copyless, Writing
<1>9. \A r \in Runs : JobTyped(job[r])
  BY DEF Init, NoJob, JobTyped, Working
<1> QED BY <1>7, <1>8, <1>9 DEF Typed

LEMMA FirstWritten == ASSUME Init PROVE WritersInv /\ LinksInv /\ IndexInv /\ RatingsInv
<1>1. /\ \A r \in Runs : run[r] = Idle /\ job[r] = NoJob
      /\ \A q \in Quizzes : links[q] = {}
      /\ \A q \in Quizzes : quiz[q] = IF q \in First THEN Blank("first", TRUE, {}, FALSE) ELSE Nothing
      /\ ratings = {} /\ index = First
  BY DEF Init
<1>2. \A r \in Runs : /\ run[r].op = "none" /\ run[r].pc = "idle" /\ run[r].copy = Nothing
                      /\ job[r].pc = "none" /\ job[r].copy = Nothing
  BY <1>1 DEF Idle, NoJob
<1>3. \A q \in Quizzes : quiz[q] # Nothing =>
        /\ q \in First /\ quiz[q].by = "first" /\ quiz[q].images = {} /\ quiz[q].public
        /\ quiz[q].likes = 0 /\ quiz[q].dislikes = 0
  BY <1>1 DEF Blank
<1>4. WritersInv
  BY <1>2, <1>3, NotNothing, LibraryAssumption DEF WritersInv, Known
<1>5. LinksInv
  BY <1>2, <1>3 DEF LinksInv, Enqueued, Agrees, Working, Linked, Stored
<1>6. \A q \in Quizzes : q \in Public <=> q \in First
  <2>1. Blank("first", TRUE, {}, FALSE) # Nothing /\ Blank("first", TRUE, {}, FALSE).public
    <3>1. Blank("first", TRUE, {}, FALSE) \in Rows
      BY DEF Blank, Rows, Writers
    <3> QED BY <3>1, NotNothing DEF Blank
  <2> QED BY <1>1, <2>1 DEF Public, Stored
<1>7. IndexInv
  BY <1>1, <1>2, <1>6 DEF IndexInv, Told, Indexed, PastIndex
<1>8. RatingsInv
  <2>1. \A q : For(q) = {} /\ Against(q) = {}
    BY <1>1 DEF For, Against
  <2>2. \A q \in Stored : Ahead(q, TRUE, 0, 0)
    BY <1>3, <2>1, FS_EmptySet DEF Ahead, Stored
  <2> QED BY <1>1, <1>2, <2>2 DEF RatingsInv, Rateds, Rater
<1> QED BY <1>4, <1>5, <1>7, <1>8

LEMMA NothingMoves == ASSUME LInv, UNCHANGED vars PROVE LInv'
<1>1. UNCHANGED <<quiz, torn, drift, fresh, index, links, ratings, session, listed, job, run>>
  BY DEF vars, rows, about
<1>2. IInv'
  BY StepsKeep DEF LInv
<1>3. Editor_step
  BY <1>1 DEF LInv, Typed, Tables, Editor_step
<1> QED BY <1>2, <1>3, KindTyped, KindWriters, KindLinks, KindIndex, KindRatings DEF LInv, Kind

LEMMA EveryStep == ASSUME LInv, [Next]_vars PROVE LInv'
<1>1. CASE Next
  <2>1. IInv' /\ Kind
    BY <1>1, StepsKeep, NextKinds DEF LInv
  <2> QED BY <2>1, KindTyped, KindWriters, KindLinks, KindIndex, KindRatings DEF LInv
<1>2. CASE UNCHANGED vars
  BY <1>2, NothingMoves
<1> QED BY <1>1, <1>2

\* In every state: the rows, runs and jobs are of their types; the ratings of a
\* quiz are ahead of its counters by what the one run that is rating it has yet
\* to write; a picture a quiz shows is linked to it or promised by a job; and
\* the index is off by what the runs that have told it have yet to write.
THEOREM EverythingStays == Spec => []LInv
<1>1. Init => LInv
  BY Starting, FirstTyped, FirstWritten DEF LInv
<1> QED BY <1>1, EveryStep, PTL DEF Spec

\* The types of the tables, the index and the redis set; links and ratings
\* belong to quizzes that exist, though rows go by delete_quiz at any time.
THEOREM TypeCorrect == Spec => []TypeOK
<1>1. ASSUME LInv PROVE TypeOK
  BY <1>1, NotNothing DEF LInv, Typed, Tables, TypeOK, Stored, Rows, Ratings
<1> QED BY <1>1, EverythingStays, PTL

\* When no request is under way the search index holds exactly the public
\* quizzes, unless a step that leaves it behind has happened since.
THEOREM IndexIsTold == Spec => []IndexTells
<1>1. ASSUME LInv PROVE IndexTells
  <2> SUFFICES ASSUME Active = {}, ~drift PROVE index = Public
    BY DEF IndexTells
  <2>1. \A r \in Runs : run[r].op = "none"
    BY <1>1 DEF LInv, Typed, RunTyped, Staged, Active
  <2>2. \A q \in Quizzes : q \in index <=> q \in Public
    BY <1>1, <2>1 DEF LInv, IndexInv, Told, Indexed, PastIndex
  <2>3. index \subseteq Quizzes /\ Public \subseteq Quizzes
    BY <1>1 DEF LInv, Typed, Tables, Public, Stored
  <2> QED BY <2>2, <2>3
<1> QED BY <1>1, EverythingStays, PTL

\* likes and dislikes are the numbers of a quiz's ratings, whoever rates it
\* and changes his mind, unless a stale row of it was written back.
THEOREM CountersMatch == Spec => []LikesMatchRatings
<1>1. ASSUME LInv PROVE LikesMatchRatings
  <2> SUFFICES ASSUME NEW q \in Stored \ torn, Quiet(q), quiz[q].imported_from_kahoot # Nothing
               PROVE  /\ quiz[q].likes = Cardinality(For(q))
                      /\ quiz[q].dislikes = Cardinality(Against(q))
    BY DEF LikesMatchRatings, For, Against
  <2>1. q \in Quizzes /\ quiz[q].likes \in Int /\ quiz[q].dislikes \in Int
    BY <1>1, NotNothing DEF LInv, Typed, Tables, Stored, Rows
  <2>2. \A r \in Runs : ~Rater(q, r)
    BY <1>1 DEF LInv, Typed, RunTyped, Staged, Quiet, Rater
  <2>3. Ahead(q, TRUE, 0, 0)
    BY <1>1, <2>1, <2>2 DEF LInv, RatingsInv, Rateds
  <2> QED BY <2>1, <2>3 DEF Ahead
<1> QED BY <1>1, EverythingStays, PTL

\* When the jobs of a quiz are done, every picture it shows is linked to it,
\* unless handlers and jobs overtook each other on its row.
THEOREM LinksComplete == Spec => []ShownIsLinked
<1>1. ASSUME LInv PROVE ShownIsLinked
  <2> SUFFICES ASSUME NEW q \in Stored \ torn, Quiet(q), quiz[q].imported_from_kahoot # Nothing,
                      NEW i \in quiz[q].images
               PROVE  i \in links[q]
    BY DEF ShownIsLinked
  <2>1. i \in links[q] \/ \E r \in Runs : Promised(q, i, r)
    BY <1>1 DEF LInv, LinksInv, Linked, Stored
  <2>2. \A r \in Runs : ~Promised(q, i, r)
    BY DEF Promised, Quiet, Working
  <2> QED BY <2>1, <2>2
<1> QED BY <1>1, EverythingStays, PTL
=============================================================================
