------------------------------ MODULE Library ------------------------------
(***************************************************************************)
(* Quizzes in the database, their editor sessions, the search index, the   *)
(* links from quizzes to stored pictures, ratings, and the worker.  Every  *)
(* handler reads the whole row of a quiz, changes a few columns of its     *)
(* copy and writes the whole row back (ormar's Model.update()); between    *)
(* two awaits of one handler any other handler may run.  A request that is *)
(* refused before it has changed anything is no step.  The texts of a quiz *)
(* are a version: the run that wrote them.  All quizzes have one owner.    *)
(***************************************************************************)
EXTENDS Integers, FiniteSets

CONSTANTS
  Quizzes,     \* ids of quizzes
  First,       \* those that exist, public and indexed, when the model starts
  Images,      \* pictures a quiz may show: ids of storage items
  Users,       \* who rates
  Edits,       \* ids of editor sessions
  Runs,        \* runs of handlers, each used once
  MaxRestarts, \* bound on restarts of the API process
  Nothing      \* null

\* A row; by is no column: whichever wrote the row last, as rev its texts.
Writers == Runs \cup {"first"}

Rows == [rev : Writers, by : Writers, images : SUBSET Images, public : BOOLEAN,
         likes : Int, dislikes : Int, seen : Int, mod_rating : Writers \cup {Nothing},
         imported_from_kahoot : BOOLEAN \cup {Nothing}]

ASSUME LibraryAssumption ==
  /\ First \subseteq Quizzes
  /\ MaxRestarts \in Nat
  /\ "first" \notin Runs
  /\ Nothing \notin Quizzes \cup Images \cup Users \cup Edits \cup Runs \cup Rows

VARIABLES
  quiz,      \* [Quizzes -> row or Nothing]
  fresh,     \* ids under which no quiz was ever saved
  index,     \* quizzes with a document in the search index
  links,     \* [Quizzes -> pictures]: the table storageitems_quizs
  ratings,   \* rows of the table rating
  session,   \* [Edits -> edit_session:<id>, or how far init_editor is]
  listed,    \* the redis set edit_sessions
  job,       \* [Runs -> the quiz_update that run enqueued]
  run,       \* [Runs -> run of a handler]
  restarts,
  torn,      \* quizzes of which a stale row was written back, a run was cut
             \* short, or a quiz_update ran before its finish_edit had ended
  drift      \* a step that does not keep the index has left it behind

rows  == <<quiz, torn, drift>>
about == <<fresh, index, links, ratings, session, listed, job>>
vars  == <<rows, about, run, restarts>>

-----------------------------------------------------------------------------
Blank(r, public, images, from) ==
  [rev |-> r, by |-> r, images |-> images, public |-> public, likes |-> 0, dislikes |-> 0,
   seen |-> 0, mod_rating |-> Nothing, imported_from_kahoot |-> from]

Idle == [op |-> "none", pc |-> "idle", quiz |-> Nothing, copy |-> Nothing,
         new |-> Nothing, edit |-> Nothing, user |-> Nothing, positive |-> FALSE, todo |-> {}]

NoJob == [pc |-> "none", quiz |-> Nothing, old |-> {}, copy |-> Nothing,
          todo |-> {}, changed |-> FALSE]

Init ==
  /\ quiz     = [q \in Quizzes |-> IF q \in First THEN Blank("first", TRUE, {}, FALSE) ELSE Nothing]
  /\ fresh    = Quizzes \ First
  /\ index    = First
  /\ links    = [q \in Quizzes |-> {}]
  /\ ratings  = {}
  /\ session  = [e \in Edits |-> [pc |-> "none", quiz |-> Nothing, edit |-> FALSE]]
  /\ listed   = {}
  /\ job      = [r \in Runs |-> NoJob]
  /\ run      = [r \in Runs |-> Idle]
  /\ restarts = 0
  /\ torn = {} /\ drift = FALSE

Stored == {q \in Quizzes : quiz[q] # Nothing}
Public == {q \in Stored : quiz[q].public}

At(r, op, pc) == run[r].op = op /\ run[r].pc = pc

Starts(r, op, pc, q, copy) ==
  /\ run[r].pc = "idle"
  /\ run' = [run EXCEPT ![r] = [Idle EXCEPT !.op = op, !.pc = pc, !.quiz = q, !.copy = copy]]

\* A handler that begins with reading the row of a quiz it can see.
Reads(r, op, pc, visible) ==
  /\ \E q \in visible : Starts(r, op, pc, q, quiz[q])
  /\ UNCHANGED <<rows, about, restarts>>

Goes(r, pc) == run' = [run EXCEPT ![r].pc = pc]
Ends(r)     == run' = [run EXCEPT ![r] = [Idle EXCEPT !.pc = "done"]]

\* update() of a copy of q: every column of the row, if there still is one.
Updates(q, copy, row) ==
  /\ quiz'  = [quiz EXCEPT ![q] = IF @ = Nothing THEN @ ELSE row]
  /\ torn'  = IF quiz[q] = copy THEN torn ELSE torn \cup {q}
  /\ drift' = (drift \/ quiz[q] # copy)

\* The last step of most handlers.
Writes(r, op, row) ==
  /\ At(r, op, "write")
  /\ Updates(run[r].quiz, run[r].copy, [row EXCEPT !.by = r])
  /\ Ends(r)
  /\ UNCHANGED <<about, restarts>>

-----------------------------------------------------------------------------
\* Views and plays are one counter here.
get_public_quiz(r) ==
  \/ Reads(r, "view", "write", Stored)
  \/ Writes(r, "view", [run[r].copy EXCEPT !.seen = @ + 1])

\* The row only: the keys of the game are the subject of Games.
start_quiz(r) ==
  \/ Reads(r, "start", "write", Stored)
  \/ Writes(r, "start", [run[r].copy EXCEPT !.seen = @ + 1])

\* A moderator's verdict is recorded as the version it was given to.
set_mod_rating_for_quiz(r) ==
  \/ Reads(r, "moderate", "write", Public)
  \/ Writes(r, "moderate", [run[r].copy EXCEPT !.mod_rating = run[r].copy.rev])

-----------------------------------------------------------------------------
\* A public quiz is read; the user's rating of it is looked up, deleted if it
\* was the opposite one, and a new one saved; the counters are written last.
Own(q, u) == {x \in ratings : x.quiz = q /\ x.user = u}

Count(positive, n, row) ==
  IF positive THEN [row EXCEPT !.likes = @ + n] ELSE [row EXCEPT !.dislikes = @ + n]

\* The copy with the new rating counted, and the one it replaces no more.
Rated_Faulty(r) == Count(run[r].positive, 1, run[r].copy)

Rated(r) ==
  Count(run[r].positive, 1,
        IF run[r].todo = {} THEN run[r].copy ELSE Count(~run[r].positive, -1, run[r].copy))

\* The second query: more than one rating raises, the same one is a 409.
rate_finds(r) ==
  LET own == Own(run[r].quiz, run[r].user)
  IN /\ At(r, "rate", "own")
     /\ IF own = {} THEN Goes(r, "save")
        ELSE IF \E x \in own : Cardinality(own) = 1 /\ x.positive # run[r].positive
        THEN run' = [run EXCEPT ![r].pc = "delete", ![r].todo = own]
        ELSE Ends(r)
     /\ UNCHANGED <<rows, about, restarts>>

rate_quiz(r) ==
  \/ /\ \E q \in Public, u \in Users, positive \in BOOLEAN :
          /\ run[r].pc = "idle"
          /\ run' = [run EXCEPT ![r] = [Idle EXCEPT !.op = "rate", !.pc = "own", !.quiz = q,
                                          !.copy = quiz[q], !.user = u, !.positive = positive]]
     /\ UNCHANGED <<rows, about, restarts>>
  \/ rate_finds(r)
  \/ /\ At(r, "rate", "delete")
     /\ ratings' = ratings \ run[r].todo
     /\ Goes(r, "save")
     /\ UNCHANGED <<rows, fresh, index, links, session, listed, job, restarts>>
  \/ /\ At(r, "rate", "save")
     /\ IF quiz[run[r].quiz] = Nothing   \* the foreign key refuses the row
        THEN Ends(r) /\ UNCHANGED ratings
        ELSE /\ Goes(r, "write")
             /\ ratings' = ratings \cup {[id |-> r, quiz |-> run[r].quiz, user |-> run[r].user,
                                          positive |-> run[r].positive]}
     /\ UNCHANGED <<rows, fresh, index, links, session, listed, job, restarts>>
  \/ Writes(r, "rate", Rated(r))

-----------------------------------------------------------------------------
\* The editor is opened on a stored quiz, or for a new one under a fresh id;
\* the id of the session is announced in edit_sessions before it has a key.
init_editor(e) ==
  \/ /\ session[e].pc = "none"
     /\ \E q \in Stored \cup fresh :
          /\ q \in fresh => \A f \in Edits : session[f].quiz # q
          /\ session' = [session EXCEPT ![e] = [pc |-> "added", quiz |-> q, edit |-> q \in Stored]]
     /\ listed' = listed \cup {e}
     /\ UNCHANGED <<rows, fresh, index, links, ratings, job, run, restarts>>
  \/ /\ session[e].pc = "added"
     /\ session' = [session EXCEPT ![e].pc = "open"]
     /\ UNCHANGED <<rows, fresh, index, links, ratings, listed, job, run, restarts>>

\* The key lives for an hour.
SessionExpires(e) ==
  /\ session[e].pc = "open"
  /\ session' = [session EXCEPT ![e].pc = "gone"]
  /\ UNCHANGED <<rows, fresh, index, links, ratings, listed, job, run, restarts>>

\* New texts have not been moderated.
Edited_Faulty(row, r, public, images) ==
  [row EXCEPT !.rev = r, !.images = images, !.public = public]

Edited(row, r, public, images) ==
  [row EXCEPT !.rev = r, !.images = images, !.public = public, !.mod_rating = Nothing]

\* What the editor sends: new texts, the pictures they show, and visibility.
\* The texts of a quiz that is gone are refused when its old row is needed.
finish_edit_begins(r) ==
  /\ \E e \in Edits, public \in BOOLEAN, images \in SUBSET Images :
       LET q == session[e].quiz
       IN /\ run[r].pc = "idle"
          /\ session[e].pc = "open"
          /\ session[e].edit => q \in Stored
          /\ run' = [run EXCEPT ![r] =
               IF session[e].edit
               THEN [Idle EXCEPT !.op = "edit", !.pc = "enqueue", !.edit = e, !.quiz = q,
                                 !.copy = quiz[q],
                                 !.new = Edited(quiz[q], r, public, images)]
               ELSE [Idle EXCEPT !.op = "create", !.pc = "index", !.edit = e, !.quiz = q,
                                 !.new = Blank(r, public, images, FALSE)]]
  /\ UNCHANGED <<rows, about, restarts>>

\* srem, then the key: nothing of the session is left.
closes_session(r, pc) ==
  /\ run[r].pc = "close"
  /\ listed' = listed \ {run[r].edit}
  /\ session' = [session EXCEPT ![run[r].edit].pc = "gone"]
  /\ Goes(r, pc)
  /\ UNCHANGED <<rows, fresh, index, links, ratings, job, restarts>>

Reindexed_Faulty(r) == IF run[r].new.public THEN index \cup {run[r].quiz} ELSE index

Reindexed(r) == IF run[r].new.public THEN index \cup {run[r].quiz} ELSE index \ {run[r].quiz}

\* update_documents puts the old row into the index whatever it says; what
\* follows at once makes up for it.
finish_edit_edit(r) ==
  \/ /\ At(r, "edit", "enqueue")
     /\ job' = [job EXCEPT ![r] = [NoJob EXCEPT !.pc = "queued", !.quiz = run[r].quiz,
                                               !.old = run[r].copy.images]]
     /\ Goes(r, "index")
     /\ UNCHANGED <<rows, fresh, index, links, ratings, session, listed, restarts>>
  \/ /\ At(r, "edit", "index")
     /\ index' = Reindexed(r)
     /\ Goes(r, "close")
     /\ UNCHANGED <<rows, fresh, links, ratings, session, listed, job, restarts>>
  \/ run[r].op = "edit" /\ closes_session(r, "write")
  \/ Writes(r, "edit", run[r].new)

\* INSERT of the row; the index is not told of what happens here.
Saves(r) ==
  LET q == run[r].quiz
  IN /\ run[r].pc = "save"
     /\ fresh' = fresh \ {q}
     /\ IF quiz[q] # Nothing            \* UniqueViolation
        THEN Ends(r) /\ UNCHANGED quiz
        ELSE /\ quiz' = [quiz EXCEPT ![q] = run[r].new]
             /\ run' = [run EXCEPT ![r].pc = "link", ![r].todo = run[r].new.images]
     /\ UNCHANGED <<torn, index, links, ratings, session, listed, job, restarts>>

\* quiz.storageitems.add(item), one by one; the quiz may be gone by now.
Links(r) ==
  LET q == run[r].quiz
  IN /\ run[r].pc = "link"
     /\ IF run[r].todo = {} \/ q \notin Stored
        THEN Ends(r) /\ UNCHANGED links
        ELSE \E i \in run[r].todo :
               /\ links' = [links EXCEPT ![q] = @ \cup {i}]
               /\ run' = [run EXCEPT ![r].todo = @ \ {i}]
     /\ UNCHANGED <<rows, fresh, index, ratings, session, listed, job, restarts>>

finish_edit_create(r) ==
  \/ /\ At(r, "create", "index")
     /\ index' = IF run[r].new.public THEN index \cup {run[r].quiz} ELSE index
     /\ Goes(r, "close")
     /\ UNCHANGED <<rows, fresh, links, ratings, session, listed, job, restarts>>
  \/ run[r].op = "create" /\ closes_session(r, "save")
  \/ run[r].op = "create" /\ Saves(r) /\ drift' = (drift \/ run[r].quiz \notin fresh)
  \/ run[r].op = "create" /\ Links(r)

finish_edit(r) == finish_edit_begins(r) \/ finish_edit_edit(r) \/ finish_edit_create(r)

-----------------------------------------------------------------------------
\* The foreign key of the table rating has no ON DELETE: a quiz with ratings
\* cannot be deleted.
Rateless_Faulty(q) == q \in Quizzes

Rateless(q) == \A x \in ratings : x.quiz # q

\* The document goes first, then the row, if it can.
delete_quiz(r) ==
  LET q == run[r].quiz
  IN \/ Reads(r, "delete", "index", Stored)
     \/ /\ At(r, "delete", "index")
        /\ index' = index \ {q}
        /\ Goes(r, "row")
        /\ UNCHANGED <<rows, fresh, links, ratings, session, listed, job, restarts>>
     \/ /\ At(r, "delete", "row")
        /\ IF Rateless(q)
           THEN quiz' = [quiz EXCEPT ![q] = Nothing] /\ links' = [links EXCEPT ![q] = {}]
           ELSE UNCHANGED <<quiz, links>>
        /\ drift' = (drift \/ quiz[q] # run[r].copy \/ ~Rateless(q))
        /\ Ends(r)
        /\ UNCHANGED <<torn, fresh, index, ratings, session, listed, job, restarts>>

\* A .cqa file says itself whether its quiz is public and how many liked it
\* where it was exported; the quiz is not indexed, its pictures are not linked.
import_cqa(r) ==
  /\ run[r].pc = "idle"
  /\ \E q \in fresh, public \in BOOLEAN, images \in SUBSET Images, likes \in 0..1 :
       /\ \A e \in Edits : session[e].quiz # q
       /\ quiz' = [quiz EXCEPT ![q] = [Blank(r, public, images, Nothing) EXCEPT !.likes = likes]]
       /\ fresh' = fresh \ {q}
       /\ drift' = (drift \/ public)
  /\ Ends(r)
  /\ UNCHANGED <<torn, index, links, ratings, session, listed, job, restarts>>

\* A kahoot import begins with a new, empty index, and adds its private quiz.
import_kahoot(r) ==
  \/ /\ run[r].pc = "idle"
     /\ \E q \in fresh, images \in SUBSET Images :
          /\ \A e \in Edits : session[e].quiz # q
          /\ fresh' = fresh \ {q}
          /\ run' = [run EXCEPT ![r] = [Idle EXCEPT !.op = "kahoot", !.pc = "index", !.quiz = q,
                                          !.new = Blank(r, FALSE, images, TRUE)]]
     /\ index' = {}
     /\ drift' = TRUE
     /\ UNCHANGED <<quiz, torn, links, ratings, session, listed, job, restarts>>
  \/ /\ At(r, "kahoot", "index")
     /\ index' = index \cup {run[r].quiz}
     /\ drift' = TRUE
     /\ Goes(r, "save")
     /\ UNCHANGED <<quiz, torn, fresh, links, ratings, session, listed, job, restarts>>
  \/ run[r].op = "kahoot" /\ Saves(r) /\ UNCHANGED drift
  \/ run[r].op = "kahoot" /\ Links(r)

\* A spreadsheet is a new private quiz without pictures, or is appended to the
\* one of the same title.
handle_import_from_excel(r) ==
  \/ /\ run[r].pc = "idle"
     /\ \E q \in fresh :
          /\ \A e \in Edits : session[e].quiz # q
          /\ quiz' = [quiz EXCEPT ![q] = Blank(r, FALSE, {}, FALSE)]
          /\ fresh' = fresh \ {q}
     /\ Ends(r)
     /\ UNCHANGED <<torn, drift, index, links, ratings, session, listed, job, restarts>>
  \/ Reads(r, "excel", "write", Stored)
  \/ Writes(r, "excel", [run[r].copy EXCEPT !.rev = r, !.mod_rating = Nothing])

-----------------------------------------------------------------------------
Added_Faulty(j) == j.old \ j.copy.images

Added(j) == j.copy.images \ j.old

\* The worker, a process of its own, some time after a finish_edit.  Taking a
\* link away may be refused although it is there: ormar knows the links of a
\* row it has loaded without them only after asking.
quiz_update(r) ==
  LET j == job[r]
      q == j.quiz
      gone == q \notin Stored
  IN \/ /\ j.pc = "queued"
        /\ job' = [job EXCEPT ![r] =
             IF gone \/ quiz[q].images = j.old THEN [NoJob EXCEPT !.pc = "done"]
             ELSE [j EXCEPT !.pc = "remove", !.copy = quiz[q], !.todo = j.old \ quiz[q].images]]
        /\ torn' = IF At(r, "none", "done") THEN torn ELSE torn \cup {q}
        /\ UNCHANGED <<quiz, drift, fresh, index, links, ratings, session, listed, run, restarts>>
     \/ /\ j.pc = "remove"
        /\ IF j.todo = {}
           THEN /\ job' = [job EXCEPT ![r].pc = "add", ![r].todo = Added(j)]
                /\ UNCHANGED links
           ELSE \E i \in j.todo, refused \in BOOLEAN :
                  /\ i \notin links[q] => refused
                  /\ links' = IF refused THEN links ELSE [links EXCEPT ![q] = @ \ {i}]
                  /\ job' = [job EXCEPT ![r].todo = @ \ {i}, ![r].changed = @ \/ ~refused]
        /\ UNCHANGED <<rows, fresh, index, ratings, session, listed, run, restarts>>
     \/ /\ j.pc = "add"
        /\ IF j.todo = {} \/ gone
           THEN /\ job' = [job EXCEPT ![r] = IF j.changed /\ ~gone THEN [j EXCEPT !.pc = "write"]
                                             ELSE [NoJob EXCEPT !.pc = "done"]]
                /\ UNCHANGED links
           ELSE \E i \in j.todo :
                  /\ links' = [links EXCEPT ![q] = @ \cup {i}]
                  /\ job' = [job EXCEPT ![r].todo = @ \ {i}, ![r].changed = TRUE]
        /\ UNCHANGED <<rows, fresh, index, ratings, session, listed, run, restarts>>
     \/ /\ j.pc = "write"
        /\ Updates(q, j.copy, j.copy)
        /\ job' = [job EXCEPT ![r] = [NoJob EXCEPT !.pc = "done"]]
        /\ UNCHANGED <<fresh, index, links, ratings, session, listed, run, restarts>>

\* Four times a day the worker takes the sessions without a key off the list.
clean_editor_images_up(e) ==
  /\ e \in listed
  /\ session[e].pc # "open"
  /\ listed' = listed \ {e}
  /\ UNCHANGED <<rows, fresh, index, links, ratings, session, job, run, restarts>>

\* The API process restarts: the runs it was in are gone, and the index is
\* made anew if it does not have as many documents as there are public quizzes.
Active == {r \in Runs : run[r].pc \notin {"idle", "done"}}

meilisearch_init ==
  /\ restarts < MaxRestarts
  /\ restarts' = restarts + 1
  /\ run' = [r \in Runs |-> IF r \in Active THEN [Idle EXCEPT !.pc = "done"] ELSE run[r]]
  /\ session' = [e \in Edits |-> IF session[e].pc = "added" THEN [session[e] EXCEPT !.pc = "gone"]
                                 ELSE session[e]]
  /\ torn' = torn \cup {run[r].quiz : r \in Active}
  /\ IF Cardinality(index) = Cardinality(Public)
     THEN drift' = (drift \/ Active # {}) /\ UNCHANGED index
     ELSE drift' = FALSE /\ index' = Public
  /\ UNCHANGED <<quiz, fresh, links, ratings, listed, job>>

-----------------------------------------------------------------------------
Handler(r) ==
  \/ get_public_quiz(r) \/ start_quiz(r) \/ set_mod_rating_for_quiz(r) \/ rate_quiz(r)
  \/ finish_edit(r) \/ delete_quiz(r)
  \/ import_cqa(r) \/ import_kahoot(r) \/ handle_import_from_excel(r)

Next ==
  \/ \E r \in Runs : Handler(r) \/ quiz_update(r)
  \/ \E e \in Edits : init_editor(e) \/ SessionExpires(e) \/ clean_editor_images_up(e)
  \/ meilisearch_init

Spec == Init /\ [][Next]_vars

-----------------------------------------------------------------------------
\* The type invariant; links and ratings belong to quizzes that exist.
TypeOK ==
  /\ fresh \subseteq Quizzes /\ index \subseteq Quizzes /\ torn \subseteq Quizzes
  /\ listed \subseteq Edits
  /\ \A q \in Stored : /\ quiz[q].images \subseteq Images
                       /\ quiz[q].likes \in Int /\ quiz[q].dislikes \in Int
  /\ \A q \in Quizzes : links[q] \subseteq Images /\ (q \notin Stored => links[q] = {})
  /\ \A x \in ratings : x.quiz \in Stored /\ x.user \in Users

\* A quiz on whose row no handler and no job is at work.
Quiet(q) == \A r \in Runs : /\ run[r].pc \notin {"idle", "done"} => run[r].quiz # q
                            /\ job[r].pc \notin {"none", "done"} => job[r].quiz # q

\* Between requests the search index holds exactly the public quizzes, unless
\* one of the steps that leave it behind has happened since it was last made:
\* an import, a refused delete or create, a stale row, a restart.
IndexTells == Active = {} /\ ~drift => index = Public

\* The counters of a quiz are the numbers of its ratings, through every change
\* of mind and every refused delete, as long as no write-back overtook another
\* and the quiz did not bring counters with it.
LikesMatchRatings ==
  \A q \in Stored \ torn : Quiet(q) /\ quiz[q].imported_from_kahoot # Nothing =>
    /\ quiz[q].likes    = Cardinality({x \in ratings : x.quiz = q /\ x.positive})
    /\ quiz[q].dislikes = Cardinality({x \in ratings : x.quiz = q /\ ~x.positive})

\* Every picture a quiz shows is linked to it once its jobs are done, unless
\* the quiz came from a .cqa file or handlers overtook each other.
ShownIsLinked ==
  \A q \in Stored \ torn :
    Quiet(q) /\ quiz[q].imported_from_kahoot # Nothing => quiz[q].images \subseteq links[q]

\* A moderator's verdict always is about the texts it stands beside, in every
\* interleaving: because whole rows are written, texts and verdict move together.
ModeratedAsShown ==
  \A q \in Stored : quiz[q].mod_rating \in {Nothing, quiz[q].rev}
=============================================================================
