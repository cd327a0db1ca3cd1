----------------------------- MODULE FilesProofs -----------------------------
(***************************************************************************)
(* Every row of storage_items leads to a file, and a file that was deleted *)
(* is not listed again, in any interleaving of uploads, imports, changes   *)
(* and jobs, with S3 refusing and the worker killed at any point; and each *)
(* item's size is added to storage_used once, by the job that ends.        *)
(***************************************************************************)
EXTENDS Files, Sums

(***************************************************************************)
(* The inductive invariant.  Its parts are about a row or a run on its     *)
(* own, given the table and the files.                                     *)
(***************************************************************************)
RunFields == {"op", "pc", "id", "copy"}
JobFields == {"pc", "copy", "held"}
JobSteps  == {"none", "queued", "write", "user", "add", "added", "done", "failed"}

\* A row of item i that has a file, or is an image from Kahoot.
Backed(i, x, stored) == x \in Rows /\ (i \in stored \/ x.mime_type = "application/octet-stream")

\* The run will write a copy of a row back; the run will save a new row.
Changes(x) == x.op \in {"mark_file_as_deleted", "update_image_data"} /\ x.pc = "write"

Unsaved(x) == x.op \in Uploads /\ (x.pc = "save" \/ (x.op # "import_kahoot" /\ x.pc = "upload"))

RunTyped(x) ==
  /\ DOMAIN x = RunFields
  /\ x.id \in Items \cup {Nothing}
  /\ x.op \in Uploads => x.id \in Items
  /\ x.copy = Nothing \/ IF x.op = "save_avatar" THEN x.copy \in Nat ELSE x.copy \in Rows
  /\ x.op = "save_avatar" => x.copy \in Nat

RunOK(x, table, stored) ==
  /\ RunTyped(x)
  /\ Changes(x) => x.id \in Items /\ table[x.id] # Nothing /\ Backed(x.id, x.copy, stored)
  /\ Unsaved(x) => table[x.id] = Nothing
  /\ x.op \in {"upload", "import_cqa"} /\ x.pc = "save" => x.id \in stored

JobOK(i, x, table, stored) ==
  /\ DOMAIN x = JobFields
  /\ x.pc \in JobSteps /\ (x.copy = Nothing \/ x.copy \in Rows) /\ x.held \in Nat \cup {Nothing}
  /\ x.pc = "write" => table[i] # Nothing /\ Backed(i, x.copy, stored)
  /\ x.pc \in {"user", "add"} => x.copy \in Rows
  /\ x.pc \in {"write", "add"} => x.held \in Nat

Typed ==
  /\ backend \in {"local", "s3"} /\ files \subseteq Items
  /\ used \in Nat /\ cached \in Nat \cup {Nothing}
  /\ marked \subseteq Items /\ torn \subseteq Items \cup {"user"} /\ crashes \in 0..MaxCrashes

ItemsOK ==
  /\ item = [i \in Items |-> item[i]]
  /\ \A i \in Items : item[i] = Nothing \/ Backed(i, item[i], files)

JobsOK == job = [i \in Items |-> job[i]] /\ \A i \in Items : JobOK(i, job[i], item, files)

RunsOK == run = [r \in Runs |-> run[r]] /\ \A r \in Runs : RunOK(run[r], item, files)

\* An id that was drawn for a new row is nobody else's.
Apart == \A r, s \in Runs : r # s /\ Unsaved(run[r]) => run[s].id # run[r].id

MarkedOK == \A i \in marked : item[i] # Nothing /\ (i \notin torn => item[i].deleted_at)

IInv == Typed /\ ItemsOK /\ JobsOK /\ RunsOK /\ Apart /\ MarkedOK

(***************************************************************************)
(* Rows, and what the handlers do to a copy of one.                        *)
(***************************************************************************)
LEMMA RowsAreRows == ASSUME NEW x \in Rows PROVE x # Nothing
BY FilesAssumption

LEMMA StaysBacked ==
  ASSUME NEW i, NEW x, NEW stored, Backed(i, x, stored), NEW more, stored \subseteq more
  PROVE  Backed(i, x, more)
BY DEF Backed

LEMMA Marks ==
  ASSUME NEW i, NEW x, NEW stored, Backed(i, x, stored)
  PROVE  Backed(i, [x EXCEPT !.deleted_at = TRUE], stored) /\ [x EXCEPT !.deleted_at = TRUE].deleted_at
BY DEF Backed, Rows

LEMMA Describes ==
  ASSUME NEW i, NEW x, NEW stored, Backed(i, x, stored), NEW text \in {Nothing, "text"}
  PROVE  /\ Backed(i, [x EXCEPT !.alt_text = text], stored)
         /\ x.deleted_at => [x EXCEPT !.alt_text = text].deleted_at
BY DEF Backed, Rows

LEMMA Hashes ==
  ASSUME NEW i, NEW x, NEW stored, Backed(i, x, stored), NEW size \in Nat
  PROVE  /\ Backed(i, [x EXCEPT !.size = size, !.hash = TRUE], stored)
         /\ x.deleted_at => [x EXCEPT !.size = size, !.hash = TRUE].deleted_at
BY DEF Backed, Rows

LEMMA NewRow ==
  ASSUME NEW mime \in {"image", "application/octet-stream"}
  PROVE  [size |-> 0, hash |-> FALSE, storage_path |-> Nothing, deleted_at |-> FALSE, alt_text |-> Nothing,
          mime_type |-> mime] \in Rows
BY DEF Rows

(***************************************************************************)
(* Parts of the invariant that a step leaves to the others.                *)
(***************************************************************************)
LEMMA RunsGrow ==
  ASSUME RunsOK, UNCHANGED <<run, item>>, files \subseteq files' PROVE RunsOK'
BY StaysBacked DEF RunsOK, RunOK

LEMMA JobsGrow ==
  ASSUME JobsOK, UNCHANGED job, files \subseteq files',
         \A i \in Items : item[i] # Nothing => item'[i] # Nothing
  PROVE  JobsOK'
BY StaysBacked DEF JobsOK, JobOK

LEMMA ItemsGrow ==
  ASSUME ItemsOK, UNCHANGED item, files \subseteq files' PROVE ItemsOK'
BY StaysBacked DEF ItemsOK

\* One run moves.  A row appears under no id but its own.
LEMMA RunMoves ==
  ASSUME IInv, NEW r \in Runs, NEW x, run' = [run EXCEPT ![r] = x], RunOK(x, item', files'),
         files \subseteq files',
         \A i \in Items : item[i] # Nothing => item'[i] # Nothing,
         \A i \in Items : item[i] = Nothing /\ item'[i] # Nothing => Unsaved(run[r]) /\ i = run[r].id,
         \A s \in Runs \ {r} : Unsaved(x) \/ Unsaved(run[s]) => run[s].id # x.id
  PROVE  RunsOK' /\ Apart'
<1>1. \A s \in Runs : run'[s] = IF s = r THEN x ELSE run[s]
  BY DEF IInv, RunsOK
<1>2. ASSUME NEW s \in Runs \ {r} PROVE RunOK(run[s], item', files')
  <2>1. RunOK(run[s], item, files)
    BY DEF IInv, RunsOK
  <2>2. ASSUME Changes(run[s])
        PROVE  run[s].id \in Items /\ item'[run[s].id] # Nothing /\ Backed(run[s].id, run[s].copy, files')
    BY <2>1, <2>2, StaysBacked DEF RunOK
  <2>3. ASSUME Unsaved(run[s]) PROVE item'[run[s].id] = Nothing
    <3>1. run[s].id \in Items /\ item[run[s].id] = Nothing
      BY <2>1, <2>3 DEF RunOK, RunTyped, Unsaved
    <3>2. Unsaved(run[r]) => run[s].id # run[r].id
      BY DEF IInv, Apart
    <3> QED BY <3>1, <3>2
  <2> QED BY <2>1, <2>2, <2>3 DEF RunOK
<1>3. RunsOK'
  BY <1>1, <1>2 DEF IInv, RunsOK
<1>4. Apart'
  BY <1>1 DEF IInv, Apart
<1> QED BY <1>3, <1>4

LEMMA IdleOK == ASSUME NEW table, NEW stored PROVE RunOK([Idle EXCEPT !.pc = "done"], table, stored)
BY DEF RunOK, RunTyped, RunFields, Idle, Changes, Unsaved, Uploads

LEMMA IdleIsNobody == [Idle EXCEPT !.pc = "done"].id \notin Items /\ ~Unsaved([Idle EXCEPT !.pc = "done"])
BY FilesAssumption DEF Idle, Unsaved, Uploads

LEMMA UnsavedIds == ASSUME IInv, NEW s \in Runs, Unsaved(run[s]) PROVE run[s].id \in Items /\ item[run[s].id] = Nothing
BY DEF IInv, RunsOK, RunOK, RunTyped, Unsaved

LEMMA Ending ==
  ASSUME IInv, NEW r \in Runs, Ends(r), files \subseteq files',
         \A i \in Items : item[i] # Nothing => item'[i] # Nothing,
         \A i \in Items : item[i] = Nothing /\ item'[i] # Nothing => Unsaved(run[r]) /\ i = run[r].id
  PROVE  RunsOK' /\ Apart'
<1> DEFINE x == [Idle EXCEPT !.pc = "done"]
<1>1. RunOK(x, item', files') /\ x.id \notin Items /\ ~Unsaved(x)
  BY IdleOK, IdleIsNobody
<1>2. run' = [run EXCEPT ![r] = x]
  BY DEF Ends
<1> HIDE DEF x
<1> QED BY <1>1, <1>2, UnsavedIds, RunMoves

\* The run goes on under its id, and still is as far apart from the others.
LEMMA GoesOn ==
  ASSUME IInv, NEW r \in Runs, NEW pc, Goes(r, pc), RunOK([run[r] EXCEPT !.pc = pc], item', files'),
         files \subseteq files',
         \A i \in Items : item[i] # Nothing => item'[i] # Nothing,
         \A i \in Items : item[i] = Nothing /\ item'[i] # Nothing => Unsaved(run[r]) /\ i = run[r].id,
         Unsaved([run[r] EXCEPT !.pc = pc]) => Unsaved(run[r])
  PROVE  RunsOK' /\ Apart'
<1> DEFINE x == [run[r] EXCEPT !.pc = pc]
<1>1. x.id = run[r].id
  BY DEF IInv, RunsOK, RunOK, RunTyped, RunFields
<1>2. run' = [run EXCEPT ![r] = x]
  BY DEF Goes
<1> HIDE DEF x
<1>3. \A s \in Runs \ {r} : Unsaved(x) \/ Unsaved(run[s]) => run[s].id # x.id
  BY <1>1 DEF x, IInv, Apart
<1> QED BY <1>2, <1>3, RunMoves DEF x

(***************************************************************************)
(* Uploads.                                                                *)
(***************************************************************************)
LEMMA Orders ==
  ASSUME NEW op \in Uploads
  PROVE  /\ op = "import_kahoot" =>
              /\ Order(op).start = "save" /\ Order(op)["save"] = "upload"
              /\ Order(op)["upload"] = "enqueue" /\ Order(op)["enqueue"] = "done"
         /\ op # "import_kahoot" =>
              /\ Order(op).start = "upload" /\ Order(op)["upload"] = "save"
              /\ Order(op)["save"] = "enqueue" /\ Order(op)["enqueue"] = "done"
BY DEF Order, SaveFirst, UploadFirst

LEMMA BeginsUpload ==
  ASSUME IInv, NEW r \in Runs, NEW i \in Items, NEW op \in Uploads, Begins(r, i, op) PROVE IInv'
<1> DEFINE pc == Order(op).start
           x == [op |-> op, pc |-> pc, id |-> i, copy |-> Nothing]
<1>1. run' = [run EXCEPT ![r] = x] /\ Fresh(i)
  BY DEF Begins, Starts
<1>2. UNCHANGED <<backend, item, files, job, used, marked, torn, crashes>> /\ cached' \in Nat \cup {Nothing}
  BY DEF Begins, Authenticates, User, IInv, Typed
<1>3. pc = IF op = "import_kahoot" THEN "save" ELSE "upload"
  BY Orders
<1> HIDE DEF pc
<1>4. RunOK(x, item, files)
  BY <1>1, <1>3 DEF RunOK, RunTyped, RunFields, Changes, Unsaved, Uploads, Fresh
<1>5. \A s \in Runs : run[s].id # x.id
  BY <1>1 DEF Fresh
<1> HIDE DEF x
<1>6. RunsOK' /\ Apart'
  BY <1>1, <1>2, <1>4, <1>5, RunMoves
<1>7. ItemsOK' /\ JobsOK'
  BY <1>2, ItemsGrow, JobsGrow DEF IInv
<1> QED BY <1>2, <1>6, <1>7 DEF IInv, Typed, MarkedOK

LEMMA UploadsFile == ASSUME IInv, NEW r \in Runs, upload(r) PROVE IInv'
<1> DEFINE id == run[r].id
           next == Order(run[r].op)["upload"]
<1>1. /\ run[r].op \in Uploads /\ run[r].pc = "upload"
      /\ UNCHANGED <<backend, item, job, used, cached, marked, torn, crashes>>
  BY DEF upload
<1>2. RunOK(run[r], item, files) /\ id \in Items
  BY <1>1 DEF IInv, RunsOK, RunOK, RunTyped
<1>3. CASE Ends(r) /\ UNCHANGED files
  <2>1. RunsOK' /\ Apart'
    BY <1>1, <1>3, Ending
  <2>2. ItemsOK' /\ JobsOK'
    BY <1>1, <1>3, ItemsGrow, JobsGrow DEF IInv
  <2> QED BY <1>1, <1>3, <2>1, <2>2 DEF IInv, Typed, MarkedOK
<1>4. CASE files' = files \cup {id} /\ Proceeds(r)
  <2>1. next = IF run[r].op = "import_kahoot" THEN "enqueue" ELSE "save"
    BY <1>1, Orders
  <2>2. Goes(r, next)
    BY <1>1, <1>4, <2>1 DEF Proceeds
  <2>3. files \subseteq files' /\ id \in files'
    BY <1>4
  <2> HIDE DEF next
  <2> DEFINE x == [run[r] EXCEPT !.pc = next]
  <2>4. /\ DOMAIN x = RunFields /\ x.op = run[r].op /\ x.pc = next
        /\ x.id = run[r].id /\ x.copy = run[r].copy
    BY <1>2 DEF RunOK, RunTyped, RunFields
  <2> HIDE DEF x
  <2>5. RunOK(x, item', files')
    BY <1>1, <1>2, <2>1, <2>3, <2>4 DEF RunOK, RunTyped, Changes, Unsaved, Uploads
  <2>6. Unsaved(x) => Unsaved(run[r])
    BY <1>1, <2>1, <2>4 DEF Unsaved
  <2>7. RunsOK' /\ Apart'
    BY <1>1, <2>2, <2>3, <2>5, <2>6, GoesOn DEF x
  <2>8. ItemsOK' /\ JobsOK'
    BY <1>1, <2>3, ItemsGrow, JobsGrow DEF IInv
  <2> QED BY <1>1, <1>2, <1>4, <2>7, <2>8 DEF IInv, Typed, MarkedOK
<1> QED BY <1>3, <1>4 DEF upload

LEMMA SavesRow == ASSUME IInv, NEW r \in Runs, save(r) PROVE IInv'
<1> DEFINE id == run[r].id
           mime == IF run[r].op = "import_kahoot" THEN "application/octet-stream" ELSE "image"
           new == [size |-> 0, hash |-> FALSE, storage_path |-> Nothing, deleted_at |-> FALSE,
                   alt_text |-> Nothing, mime_type |-> mime]
           next == Order(run[r].op)["save"]
<1>1. /\ run[r].op \in Uploads /\ run[r].pc = "save" /\ Proceeds(r)
      /\ UNCHANGED <<backend, files, job, used, cached, marked, torn, crashes>>
  BY DEF save
<1>2. item' = [item EXCEPT ![id] = new]
  BY DEF save
<1>3. RunOK(run[r], item, files) /\ id \in Items /\ Unsaved(run[r])
  <2>1. Unsaved(run[r])
    BY <1>1 DEF Unsaved
  <2>2. RunOK(run[r], item, files)
    BY DEF IInv, RunsOK
  <2> QED BY <1>1, <2>1, <2>2 DEF RunOK, RunTyped
<1>4. item[id] = Nothing
  BY <1>3 DEF RunOK
<1>5. new \in Rows /\ new.mime_type = mime
  BY NewRow
<1>6. Backed(id, new, files) /\ new # Nothing
  BY <1>1, <1>3, <1>5, RowsAreRows DEF Backed, RunOK, Uploads
<1> HIDE DEF new
<1>7. \A i \in Items : item'[i] = IF i = id THEN new ELSE item[i]
  BY <1>2 DEF IInv, ItemsOK
<1>8. ItemsOK'
  BY <1>1, <1>2, <1>6, <1>7 DEF IInv, ItemsOK
<1>9. JobsOK'
  BY <1>1, <1>6, <1>7, JobsGrow DEF IInv
<1>10. next = IF run[r].op = "import_kahoot" THEN "upload" ELSE "enqueue"
  BY <1>1, Orders
<1>11. Goes(r, next)
  BY <1>1, <1>10 DEF Proceeds
<1> HIDE DEF next
<1> DEFINE x == [run[r] EXCEPT !.pc = next]
<1>12. /\ DOMAIN x = RunFields /\ x.op = run[r].op /\ x.pc = next
       /\ x.id = run[r].id /\ x.copy = run[r].copy
  BY <1>3 DEF RunOK, RunTyped, RunFields
<1> HIDE DEF x
<1>13. RunOK(x, item', files') /\ ~Unsaved(x)
  BY <1>1, <1>3, <1>10, <1>12 DEF RunOK, RunTyped, Changes, Unsaved, Uploads
<1>14. RunsOK' /\ Apart'
  BY <1>1, <1>3, <1>6, <1>7, <1>11, <1>13, GoesOn DEF x
<1>15. MarkedOK'
  BY <1>1, <1>4, <1>7 DEF IInv, MarkedOK, Typed
<1> QED BY <1>1, <1>8, <1>9, <1>14, <1>15 DEF IInv, Typed

LEMMA JobMoves ==
  ASSUME IInv, NEW i \in Items, NEW x, JobOK(i, x, item', files'), job' = [job EXCEPT ![i] = x],
         files \subseteq files', \A k \in Items : item[k] # Nothing => item'[k] # Nothing
  PROVE  JobsOK'
<1>1. \A k \in Items : job'[k] = IF k = i THEN x ELSE job[k]
  BY DEF IInv, JobsOK
<1>2. \A k \in Items : JobOK(k, job[k], item', files')
  BY StaysBacked DEF IInv, JobsOK, JobOK
<1> QED BY <1>1, <1>2 DEF IInv, JobsOK

LEMMA QueuesJob == ASSUME IInv, NEW r \in Runs, enqueue_job(r) PROVE IInv'
<1> DEFINE id == run[r].id
           x == [job[id] EXCEPT !.pc = "queued"]
           op == run[r].op
<1>1. /\ op \in Uploads /\ run[r].pc = "enqueue" /\ Proceeds(r)
      /\ job' = [job EXCEPT ![id] = x]
      /\ UNCHANGED <<backend, item, files, used, cached, marked, torn, crashes>>
  BY DEF enqueue_job
<1>2. RunOK(run[r], item, files) /\ id \in Items
  BY <1>1 DEF IInv, RunsOK, RunOK, RunTyped
<1>3. JobOK(id, x, item, files)
  BY <1>2 DEF IInv, JobsOK, JobOK, JobFields, JobSteps
<1> HIDE DEF x
<1>4. JobsOK'
  BY <1>1, <1>2, <1>3, JobMoves
<1>5. Order(op)["enqueue"] = "done"
  BY <1>1, Orders
<1>6. CASE Ends(r)
  <2>1. RunsOK' /\ Apart'
    BY <1>1, <1>6, Ending
  <2> QED BY <1>1, <1>4, <2>1 DEF IInv, Typed, ItemsOK, MarkedOK
<1>7. CASE \E i \in Items : Fresh(i) /\ run' = [run EXCEPT ![r].pc = Order(run[r].op).start, ![r].id = i]
  <2>1. PICK i \in Items : /\ Fresh(i)
                          /\ run' = [run EXCEPT ![r].pc = Order(run[r].op).start, ![r].id = i]
    BY <1>7
  <2> DEFINE pc == Order(op).start
             y == [run[r] EXCEPT !.pc = pc, !.id = i]
  <2>2. pc = IF op = "import_kahoot" THEN "save" ELSE "upload"
    BY <1>1, Orders
  <2>3. run' = [run EXCEPT ![r] = y]
    BY <2>1
  <2> HIDE DEF pc
  <2>4. DOMAIN y = RunFields /\ y.op = op /\ y.pc = pc /\ y.id = i /\ y.copy = run[r].copy
    BY <1>2 DEF RunOK, RunTyped, RunFields
  <2> HIDE DEF y
  <2>5. RunOK(y, item, files)
    BY <1>1, <1>2, <2>1, <2>2, <2>4 DEF RunOK, RunTyped, Changes, Unsaved, Uploads, Fresh
  <2>6. \A s \in Runs : run[s].id # y.id
    BY <2>1, <2>4 DEF Fresh
  <2>7. RunsOK' /\ Apart'
    BY <1>1, <2>3, <2>5, <2>6, RunMoves
  <2> QED BY <1>1, <1>4, <2>7 DEF IInv, Typed, ItemsOK, MarkedOK
<1> QED BY <1>1, <1>5, <1>6, <1>7 DEF Proceeds

(***************************************************************************)
(* The owner's changes.                                                    *)
(***************************************************************************)
\* What an update() of a row does: the row stays a row, and if the copy was the
\* row, what it said of the deletion.
LEMMA Overwriting ==
  ASSUME IInv, NEW i \in Items, item[i] # Nothing, NEW copy, NEW new, Backed(i, new, files),
         copy.deleted_at => new.deleted_at, Overwrites(i, copy, new), UNCHANGED files,
         marked' = marked \/ (marked' = marked \cup {i} /\ new.deleted_at)
  PROVE  /\ ItemsOK' /\ MarkedOK' /\ torn' \subseteq Items \cup {"user"} /\ marked' \subseteq Items
         /\ \A k \in Items : item[k] # Nothing <=> item'[k] # Nothing
<1>1. item' = [item EXCEPT ![i] = new] /\ torn' = torn \cup IF item[i] = copy THEN {} ELSE {i}
  BY DEF Overwrites
<1>2. new # Nothing
  BY RowsAreRows DEF Backed
<1>3. \A k \in Items : item'[k] = IF k = i THEN new ELSE item[k]
  BY <1>1 DEF IInv, ItemsOK
<1>4. ItemsOK'
  BY <1>1, <1>3 DEF IInv, ItemsOK
<1>5. marked \subseteq Items /\ torn \subseteq Items \cup {"user"}
  BY DEF IInv, Typed
<1>6. MarkedOK'
  <2> SUFFICES ASSUME NEW k \in marked' PROVE item'[k] # Nothing /\ (k \notin torn' => item'[k].deleted_at)
    BY DEF MarkedOK
  <2>1. CASE k # i
    BY <1>1, <1>3, <1>5, <2>1 DEF IInv, MarkedOK
  <2>2. CASE k = i /\ new.deleted_at
    BY <1>2, <1>3, <2>2
  <2>3. CASE k = i /\ ~new.deleted_at
    <3>1. i \in marked
      BY <2>3
    <3>2. i \in torn \/ item[i].deleted_at
      BY <3>1 DEF IInv, MarkedOK
    <3>3. i \in torn'
      BY <1>1, <2>3, <3>2
    <3> QED BY <1>2, <1>3, <2>3, <3>3
  <2> QED BY <2>1, <2>2, <2>3
<1> QED BY <1>1, <1>2, <1>3, <1>4, <1>5, <1>6

LEMMA BeginsChange ==
  ASSUME IInv, NEW r \in Runs, NEW op \in {"mark_file_as_deleted", "update_image_data"},
         \E i \in Items : item[i] # Nothing /\ Starts(r, op, "write", i, item[i]),
         UNCHANGED <<backend, item, files, job, used, marked, torn, crashes>>,
         cached' \in Nat \cup {Nothing}
  PROVE  IInv'
<1>1. PICK i \in Items : item[i] # Nothing /\ Starts(r, op, "write", i, item[i])
  OBVIOUS
<1> DEFINE copy == item[i]
           x == [op |-> op, pc |-> "write", id |-> i, copy |-> copy]
<1>2. run' = [run EXCEPT ![r] = x]
  BY <1>1 DEF Starts
<1>3. Backed(i, copy, files)
  BY <1>1 DEF IInv, ItemsOK
<1> HIDE DEF copy
<1>4. RunOK(x, item, files) /\ ~Unsaved(x) /\ x.id = i
  BY <1>1, <1>3 DEF copy, RunOK, RunTyped, RunFields, Changes, Unsaved, Uploads, Backed
<1> HIDE DEF x
<1>5. RunsOK' /\ Apart'
  BY <1>1, <1>2, <1>4, UnsavedIds, RunMoves
<1> QED BY <1>5 DEF IInv, Typed, ItemsOK, JobsOK, MarkedOK

LEMMA Knows == ASSUME IInv, Authenticates PROVE cached' \in Nat \cup {Nothing}
BY DEF IInv, Typed, Authenticates, User

LEMMA WritesChange ==
  ASSUME IInv, NEW r \in Runs, Changes(run[r]), NEW new, Backed(run[r].id, new, files),
         run[r].copy.deleted_at => new.deleted_at, Overwrites(run[r].id, run[r].copy, new),
         marked' = marked \/ (marked' = marked \cup {run[r].id} /\ new.deleted_at),
         Ends(r), UNCHANGED <<backend, files, job, used, cached, crashes>>
  PROVE  IInv'
<1>1. run[r].id \in Items /\ item[run[r].id] # Nothing
  BY DEF IInv, RunsOK, RunOK
<1>2. /\ ItemsOK' /\ MarkedOK' /\ torn' \subseteq Items \cup {"user"} /\ marked' \subseteq Items
      /\ \A k \in Items : item[k] # Nothing <=> item'[k] # Nothing
  BY <1>1, Overwriting
<1>3. RunsOK' /\ Apart'
  BY <1>2, Ending
<1>4. JobsOK'
  BY <1>2, JobsGrow DEF IInv
<1> QED BY <1>2, <1>3, <1>4 DEF IInv, Typed

LEMMA MarksFile == ASSUME IInv, NEW r \in Runs, mark_file_as_deleted(r) PROVE IInv'
<1>1. CASE (\E i \in Items : item[i] # Nothing /\ Starts(r, "mark_file_as_deleted", "write", i, item[i]))
           /\ Authenticates /\ UNCHANGED <<backend, item, files, job, used, marked, torn, crashes>>
  BY <1>1, Knows, BeginsChange
<1>2. CASE Ends(r) /\ UNCHANGED <<backend, item, files, job, used, cached, marked, torn, crashes>>
  <2>1. RunsOK' /\ Apart'
    BY <1>2, Ending
  <2> QED BY <1>2, <2>1 DEF IInv, Typed, ItemsOK, JobsOK, MarkedOK
<1>3. CASE /\ At(r, "mark_file_as_deleted", "write") /\ Ends(r)
           /\ Overwrites(run[r].id, run[r].copy, [run[r].copy EXCEPT !.deleted_at = TRUE])
           /\ marked' = marked \cup {run[r].id}
           /\ UNCHANGED <<backend, files, job, used, cached, crashes>>
  <2>1. Changes(run[r])
    BY <1>3 DEF At, Changes
  <2>2. Backed(run[r].id, run[r].copy, files)
    BY <2>1 DEF IInv, RunsOK, RunOK
  <2> DEFINE new == [run[r].copy EXCEPT !.deleted_at = TRUE]
  <2>3. Backed(run[r].id, new, files) /\ new.deleted_at
    BY <2>2, Marks
  <2> HIDE DEF new
  <2> QED BY <1>3, <2>1, <2>3, WritesChange DEF new
<1> QED BY <1>1, <1>2, <1>3 DEF mark_file_as_deleted

LEMMA UpdatesImage == ASSUME IInv, NEW r \in Runs, update_image_data(r) PROVE IInv'
<1>1. CASE (\E i \in Items : item[i] # Nothing /\ Starts(r, "update_image_data", "write", i, item[i]))
           /\ Authenticates /\ UNCHANGED <<backend, item, files, job, used, marked, torn, crashes>>
  BY <1>1, Knows, BeginsChange
<1>2. CASE /\ At(r, "update_image_data", "write") /\ Ends(r)
           /\ \E text \in {Nothing, "text"} :
                Overwrites(run[r].id, run[r].copy, [run[r].copy EXCEPT !.alt_text = text])
           /\ UNCHANGED <<backend, files, job, used, cached, marked, crashes>>
  <2>1. Changes(run[r])
    BY <1>2 DEF At, Changes
  <2>2. Backed(run[r].id, run[r].copy, files)
    BY <2>1 DEF IInv, RunsOK, RunOK
  <2>3. PICK text \in {Nothing, "text"} :
          Overwrites(run[r].id, run[r].copy, [run[r].copy EXCEPT !.alt_text = text])
    BY <1>2
  <2> DEFINE new == [run[r].copy EXCEPT !.alt_text = text]
  <2>4. Backed(run[r].id, new, files) /\ (run[r].copy.deleted_at => new.deleted_at)
    BY <2>2, Describes
  <2> HIDE DEF new
  <2> QED BY <1>2, <2>1, <2>3, <2>4, WritesChange DEF new
<1> QED BY <1>1, <1>2 DEF update_image_data

LEMMA SavesAvatar == ASSUME IInv, NEW r \in Runs, save_avatar(r) PROVE IInv'
<1>1. CASE Starts(r, "save_avatar", "forget", Nothing, User) /\ Authenticates
           /\ UNCHANGED <<backend, item, files, job, used, marked, torn, crashes>>
  <2> DEFINE u == User
             x == [op |-> "save_avatar", pc |-> "forget", id |-> Nothing, copy |-> u]
  <2>1. u \in Nat
    BY DEF User, IInv, Typed
  <2>2. run' = [run EXCEPT ![r] = x]
    BY <1>1 DEF Starts
  <2> HIDE DEF u
  <2>3. RunOK(x, item, files) /\ ~Unsaved(x) /\ x.id \notin Items
    BY <2>1, FilesAssumption DEF RunOK, RunTyped, RunFields, Changes, Unsaved, Uploads
  <2> HIDE DEF x
  <2>4. RunsOK' /\ Apart'
    BY <1>1, <2>2, <2>3, UnsavedIds, RunMoves
  <2> QED BY <1>1, <2>4, Knows DEF IInv, Typed, ItemsOK, JobsOK, MarkedOK
<1>2. CASE At(r, "save_avatar", "forget") /\ cached' = Nothing /\ Goes(r, "write")
           /\ UNCHANGED <<backend, item, files, job, used, marked, torn, crashes>>
  <2> DEFINE x == [run[r] EXCEPT !.pc = "write"]
  <2>1. RunOK(run[r], item, files)
    BY DEF IInv, RunsOK
  <2>2. DOMAIN x = RunFields /\ x.op = "save_avatar" /\ x.id = run[r].id /\ x.copy = run[r].copy
    BY <1>2, <2>1 DEF RunOK, RunTyped, RunFields, At
  <2> HIDE DEF x
  <2>3. RunOK(x, item, files) /\ ~Unsaved(x)
    BY <1>2, <2>1, <2>2 DEF RunOK, RunTyped, Changes, Unsaved, Uploads, At
  <2>4. RunsOK' /\ Apart'
    BY <1>2, <2>3, GoesOn DEF x
  <2> QED BY <1>2, <2>4 DEF IInv, Typed, ItemsOK, JobsOK, MarkedOK
<1>3. CASE At(r, "save_avatar", "write") /\ PutsUsed(run[r].copy, run[r].copy) /\ Ends(r)
           /\ UNCHANGED <<backend, item, files, job, cached, marked, crashes>>
  <2>1. run[r].copy \in Nat
    BY <1>3 DEF IInv, RunsOK, RunOK, RunTyped, At
  <2>2. RunsOK' /\ Apart'
    BY <1>3, Ending
  <2>3. Typed' 
    BY <1>3, <2>1 DEF IInv, Typed, PutsUsed
  <2>4. MarkedOK'
    BY <1>3 DEF IInv, MarkedOK, PutsUsed
  <2> QED BY <1>3, <2>2, <2>3, <2>4 DEF IInv, ItemsOK, JobsOK
<1> QED BY <1>1, <1>2, <1>3 DEF save_avatar

(***************************************************************************)
(* The jobs.                                                               *)
(***************************************************************************)
\* A job moves and leaves the rows alone.
LEMMA JobOnly ==
  ASSUME IInv, NEW i \in Items, NEW x, JobOK(i, x, item, files), job' = [job EXCEPT ![i] = x],
         UNCHANGED <<backend, item, files, cached, run, marked, crashes>>, Typed', torn \subseteq torn'
  PROVE  IInv'
<1>1. JobsOK'
  BY JobMoves
<1> QED BY <1>1 DEF IInv, ItemsOK, RunsOK, RunOK, Apart, MarkedOK

LEMMA DoneJob == \A i, table, stored : /\ JobOK(i, [NoJob EXCEPT !.pc = "failed"], table, stored)
                                      /\ JobOK(i, [NoJob EXCEPT !.pc = "done"], table, stored)
                                      /\ JobOK(i, [NoJob EXCEPT !.pc = "queued"], table, stored)
                                      /\ JobOK(i, NoJob, table, stored)
BY DEF NoJob, JobOK, JobFields, JobSteps

LEMMA JobReads == ASSUME IInv, NEW i \in Items, calculate_hash_reads(i) PROVE IInv'
<1>1. UNCHANGED <<backend, item, files, used, cached, run, marked, torn, crashes>>
  BY DEF calculate_hash_reads
<1>2. Typed'
  BY <1>1 DEF IInv, Typed
<1>3. CASE /\ HasFile(i)
           /\ \E size \in {Size[i]} \cup IF backend = "s3" THEN {0} ELSE {} :
                job' = [job EXCEPT ![i] = [pc |-> "write", copy |-> item[i], held |-> size]]
  <2>1. PICK size \in Nat : job' = [job EXCEPT ![i] = [pc |-> "write", copy |-> item[i], held |-> size]]
    BY <1>3, FilesAssumption
  <2> DEFINE copy == item[i]
             x == [pc |-> "write", copy |-> copy, held |-> size]
  <2>2. copy # Nothing /\ Backed(i, copy, files)
    BY <1>3 DEF HasFile, IInv, ItemsOK
  <2> HIDE DEF copy
  <2>3. JobOK(i, x, item, files)
    BY <2>2 DEF copy, JobOK, JobFields, JobSteps, Backed
  <2> HIDE DEF x
  <2> QED BY <1>1, <1>2, <2>1, <2>3, JobOnly DEF x, copy
<1>4. CASE job' = [job EXCEPT ![i] = [NoJob EXCEPT !.pc = "failed"]]
  BY <1>1, <1>2, <1>4, DoneJob, JobOnly
<1> QED BY <1>3, <1>4 DEF calculate_hash_reads

LEMMA JobWrites == ASSUME IInv, NEW i \in Items, calculate_hash_writes(i) PROVE IInv'
<1> DEFINE copy == job[i].copy
           size == job[i].held
           new == [copy EXCEPT !.size = size, !.hash = TRUE]
           x == [pc |-> "user", copy |-> new, held |-> Nothing]
<1>1. /\ job[i].pc = "write" /\ Overwrites(i, copy, new)
      /\ job' = [job EXCEPT ![i] = x]
      /\ UNCHANGED <<backend, files, used, cached, run, marked, crashes>>
  BY DEF calculate_hash_writes
<1>2. item[i] # Nothing /\ Backed(i, copy, files) /\ size \in Nat
  BY <1>1 DEF IInv, JobsOK, JobOK
<1> HIDE DEF copy, size
<1>3. Backed(i, new, files) /\ (copy.deleted_at => new.deleted_at)
  BY <1>2, Hashes
<1> HIDE DEF new
<1>4. /\ ItemsOK' /\ MarkedOK' /\ torn' \subseteq Items \cup {"user"} /\ marked' \subseteq Items
      /\ \A k \in Items : item[k] # Nothing <=> item'[k] # Nothing
  BY <1>1, <1>2, <1>3, Overwriting
<1>5. JobOK(i, x, item', files')
  BY <1>3 DEF JobOK, JobFields, JobSteps, Backed
<1> HIDE DEF x
<1>6. JobsOK'
  BY <1>1, <1>4, <1>5, JobMoves
<1>7. ASSUME NEW s \in Runs PROVE RunOK(run[s], item', files')
  <2>1. RunOK(run[s], item, files)
    BY DEF IInv, RunsOK
  <2>2. Unsaved(run[s]) => run[s].id \in Items
    BY UnsavedIds
  <2> QED BY <1>1, <1>4, <2>1, <2>2 DEF RunOK
<1>8. RunsOK' /\ Apart'
  BY <1>1, <1>7 DEF IInv, RunsOK, Apart
<1> QED BY <1>1, <1>4, <1>6, <1>8 DEF IInv, Typed

LEMMA JobAdds == 
  ASSUME IInv, NEW i \in Items, calculate_hash_user(i),
         UNCHANGED <<backend, item, files, cached, run, marked, crashes>>
  PROVE  IInv'
<1>1. JobOK(i, job[i], item, files)
  BY DEF IInv, JobsOK
<1>2. CASE job[i].pc = "user" /\ UNCHANGED <<used, torn>>
           /\ job' = [job EXCEPT ![i].pc = "add", ![i].held = used]
  <2> DEFINE x == [job[i] EXCEPT !.pc = "add", !.held = used]
  <2>1. DOMAIN x = JobFields /\ x.pc = "add" /\ x.held = used /\ x.copy = job[i].copy
    BY <1>1 DEF JobOK, JobFields
  <2>2. job' = [job EXCEPT ![i] = x]
    BY <1>2
  <2> HIDE DEF x
  <2>3. JobOK(i, x, item, files)
    BY <1>1, <1>2, <2>1 DEF JobOK, JobSteps, IInv, Typed
  <2> QED BY <1>2, <2>2, <2>3, JobOnly DEF IInv, Typed
<1>3. CASE /\ job[i].pc = "add" /\ PutsUsed(job[i].held, Adds(job[i].held, job[i].copy))
           /\ job' = [job EXCEPT ![i].pc = "added"]
  <2> DEFINE x == [job[i] EXCEPT !.pc = "added"]
  <2>1. DOMAIN x = JobFields /\ x.pc = "added" /\ x.held = job[i].held /\ x.copy = job[i].copy
    BY <1>1 DEF JobOK, JobFields
  <2>2. job' = [job EXCEPT ![i] = x]
    BY <1>3
  <2> HIDE DEF x
  <2>3. JobOK(i, x, item, files)
    BY <1>1, <2>1 DEF JobOK, JobSteps
  <2>4. job[i].held \in Nat /\ job[i].copy \in Rows
    BY <1>1, <1>3 DEF JobOK
  <2>5. Adds(job[i].held, job[i].copy) \in Nat
    BY <2>4 DEF Adds, Rows
  <2>6. Typed' /\ torn \subseteq torn'
    BY <1>3, <2>5 DEF PutsUsed, IInv, Typed
  <2> QED BY <2>2, <2>3, <2>6, JobOnly
<1>4. CASE job' = [job EXCEPT ![i] = [NoJob EXCEPT !.pc = "done"]] /\ UNCHANGED <<used, torn>>
  BY <1>4, DoneJob, JobOnly DEF IInv, Typed
<1> QED BY <1>2, <1>3, <1>4 DEF calculate_hash_user

LEMMA Hashing == ASSUME IInv, NEW i \in Items, calculate_hash(i) PROVE IInv'
BY JobReads, JobWrites, JobAdds DEF calculate_hash

LEMMA Killed == ASSUME IInv, WorkerKilled PROVE IInv'
<1>1. /\ UNCHANGED <<backend, item, files, used, cached, run, marked, torn>>
      /\ job' = [i \in Items |-> IF job[i].pc \in {"write", "user", "add", "added"}
                                 THEN [NoJob EXCEPT !.pc = "queued"] ELSE job[i]]
      /\ crashes < MaxCrashes /\ crashes' = crashes + 1
  BY DEF WorkerKilled
<1>2. JobsOK'
  <2> DEFINE j == [NoJob EXCEPT !.pc = "queued"]
  <2>1. \A i \in Items : JobOK(i, j, item, files)
    BY DoneJob
  <2> HIDE DEF j
  <2>2. \A i \in Items : job'[i] = j \/ job'[i] = job[i]
    BY <1>1 DEF j
  <2>3. \A i \in Items : JobOK(i, job'[i], item, files)
    BY <2>1, <2>2 DEF IInv, JobsOK
  <2>4. job' = [i \in Items |-> job'[i]]
    BY <1>1
  <2> QED BY <1>1, <2>3, <2>4 DEF JobsOK
<1>3. crashes' \in 0..MaxCrashes
  BY <1>1, FilesAssumption DEF IInv, Typed
<1> QED BY <1>1, <1>2, <1>3 DEF IInv, Typed, ItemsOK, RunsOK, RunOK, Apart, MarkedOK

(***************************************************************************)
(* The theorems.                                                           *)
(***************************************************************************)
LEMMA Starting == ASSUME Init PROVE IInv
<1>1. Typed
  BY FilesAssumption DEF Init, Typed
<1>2. ItemsOK /\ MarkedOK
  BY DEF Init, ItemsOK, MarkedOK
<1>3. JobsOK
  BY DoneJob DEF Init, JobsOK
<1>4. RunOK(Idle, item, files) /\ ~Unsaved(Idle)
  BY DEF RunOK, RunTyped, RunFields, Idle, Changes, Unsaved, Uploads
<1>5. RunsOK /\ Apart
  BY <1>4 DEF Init, RunsOK, Apart
<1> QED BY <1>1, <1>2, <1>3, <1>5 DEF IInv

LEMMA Uploading ==
  ASSUME IInv, NEW r \in Runs, NEW i \in Items,
         \/ upload_file(r, i) \/ upload_raw_file(r, i) \/ save_pixabay_image(r, i)
         \/ import_cqa(r, i) \/ import_kahoot(r, i)
  PROVE  IInv'
<1>1. \E op \in Uploads : Begins(r, i, op)
  BY DEF upload_file, upload_raw_file, save_pixabay_image, import_cqa, import_kahoot, Uploads
<1> QED BY <1>1, BeginsUpload

LEMMA StepsKeep == ASSUME IInv, [Next]_vars PROVE IInv'
<1>1. CASE UNCHANGED vars
  BY <1>1 DEF vars, IInv, Typed, ItemsOK, JobsOK, RunsOK, RunOK, Apart, MarkedOK
<1>2. CASE CacheEnds
  BY <1>2 DEF CacheEnds, IInv, Typed, ItemsOK, JobsOK, RunsOK, RunOK, Apart, MarkedOK
<1>3. ASSUME NEW r \in Runs, Steps(r) PROVE IInv'
  BY <1>3, UploadsFile, SavesRow, QueuesJob, MarksFile, UpdatesImage, SavesAvatar DEF Steps
<1> QED BY <1>1, <1>2, <1>3, Uploading, Hashing, Killed DEF Next

\* Rows, jobs and requests keep to their types; every row and every copy of a
\* row that will be written back has its file, and no two uploads share an id.
THEOREM IInvAlways == Spec => []IInv
BY Starting, StepsKeep, PTL DEF Spec

\* The variables of storage_items, the storage, the jobs and the requests
\* always have the values the code can give them.
THEOREM TypeCorrect == Spec => []TypeOK
<1>1. ASSUME IInv PROVE TypeOK
  <2>1. \A i \in Items : item[i] = Nothing \/ item[i] \in Rows
    BY <1>1 DEF IInv, ItemsOK, Backed
  <2>2. \A i \in Items : JobOK(i, job[i], item, files)
    BY <1>1 DEF IInv, JobsOK
  <2>3. \A r \in Runs : RunTyped(run[r])
    BY <1>1 DEF IInv, RunsOK, RunOK
  <2> QED BY <1>1, <2>1, <2>2, <2>3 DEF TypeOK, IInv, Typed, JobOK, JobSteps, RunTyped
<1> QED BY <1>1, IInvAlways, PTL

\* Whatever info and HEAD answer 200 or a redirect for, a download delivers,
\* but for the images of an unfinished import from Kahoot.
THEOREM RowsLeadToFiles == Spec => []ServedIsStored
<1>1. ASSUME IInv PROVE ServedIsStored
  <2> SUFFICES ASSUME NEW i \in Items,
                      get_basic_file_info(i) = 200 \/ download_file_head(i) \in {200, 307}
               PROVE  download_file(i) = 200 \/ item[i].mime_type = "application/octet-stream"
    BY DEF ServedIsStored
  <2>1. item[i] # Nothing
    BY DEF get_basic_file_info, download_file_head
  <2>2. Backed(i, item[i], files)
    BY <1>1, <2>1 DEF IInv, ItemsOK
  <2>3. item[i].storage_path = Nothing
    BY <2>2 DEF Backed, Rows
  <2> QED BY <2>1, <2>2, <2>3 DEF download_file, HasFile, Named, Backed
<1> QED BY <1>1, IInvAlways, PTL

\* A file whose owner was told that it is deleted is not listed again, unless
\* an older copy of its row was written over it.
THEOREM DeletedStaysHidden == Spec => []DeletedIsHidden
<1>1. ASSUME IInv PROVE DeletedIsHidden
  BY <1>1 DEF IInv, MarkedOK, DeletedIsHidden, list_images
<1> QED BY <1>1, IInvAlways, PTL

(***************************************************************************)
(* storage_used: every item is handed to the worker once.                  *)
(***************************************************************************)
\* The run has not handed its item to the worker yet.
Coming(x) == x.op \in Uploads /\ x.pc \in {"save", "upload", "enqueue"}

\* The run has saved the row of its item.
Saved(x) == x.op \in Uploads /\ (x.pc = "enqueue" \/ (x.op = "import_kahoot" /\ x.pc = "upload"))

ComingOK ==
  /\ \A r \in Runs : Coming(run[r]) => job[run[r].id].pc = "none"
  /\ \A r \in Runs : \A s \in Runs :
       Coming(run[r]) /\ Coming(run[s]) /\ run[r].id = run[s].id => r = s
  /\ \A r \in Runs : Saved(run[r]) => item[run[r].id] # Nothing
JobsHaveRows == \A i \in Items : job[i].pc # "none" => item[i] # Nothing
HandedInv == ComingOK /\ JobsHaveRows

\* A run stays with its item, takes a fresh one, or is through with uploads.
RunStep(r) ==
  /\ \A s \in Runs \ {r} : run'[s] = run[s]
  /\ \/ ~Coming(run'[r])
     \/ /\ Coming(run[r]) /\ run'[r].id = run[r].id
        /\ Saved(run'[r]) => item'[run[r].id] # Nothing
     \/ /\ Coming(run'[r]) /\ ~Saved(run'[r])
        /\ run'[r].id \in Items /\ Fresh(run'[r].id)
RowsStay == \A i \in Items : item[i] # Nothing => item'[i] # Nothing
HandsOver(i) == job'[i].pc = "queued" /\ \A k \in Items \ {i} : job'[k] = job[k]

LEMMA RunIds == ASSUME IInv, NEW r \in Runs, run[r].op \in Uploads PROVE run[r].id \in Items
BY DEF IInv, RunsOK, RunOK, RunTyped

LEMMA HandedKept ==
  ASSUME IInv, HandedInv, NEW r \in Runs, RunStep(r), RowsStay,
         \A i \in Items : job[i].pc = "none" => job'[i].pc = "none",
         \A i \in Items : job'[i].pc # "none" => job[i].pc # "none"
  PROVE  HandedInv'
<1> USE DEF HandedInv
<1>1. \A i \in Items : Fresh(i) => job[i].pc = "none" /\ \A s \in Runs : run[s].id # i
  BY DEF Fresh, JobsHaveRows
<1>2. \A s \in Runs : Coming(run[s]) => run[s].id \in Items
  BY RunIds DEF Coming
<1>3. \A s \in Runs : Saved(run[s]) => Coming(run[s])
  BY DEF Saved, Coming
<1>4. ASSUME NEW s \in Runs, Coming(run'[s])
      PROVE  /\ job'[run'[s].id].pc = "none"
             /\ \/ Coming(run[s]) /\ run'[s].id = run[s].id
                \/ s = r /\ Fresh(run'[s].id) /\ run'[s].id \in Items
  <2>1. CASE s = r
    BY <1>1, <1>2, <1>4, <2>1 DEF ComingOK, RunStep
  <2>2. CASE s # r
    BY <1>2, <1>4, <2>2 DEF ComingOK, RunStep
  <2> QED BY <2>1, <2>2
<1>5. \A s \in Runs : \A t \in Runs :
        Coming(run'[s]) /\ Coming(run'[t]) /\ run'[s].id = run'[t].id => s = t
  <2> SUFFICES ASSUME NEW s \in Runs, NEW t \in Runs,
                      Coming(run'[s]), Coming(run'[t]), run'[s].id = run'[t].id
               PROVE  s = t
    OBVIOUS
  <2> QED BY <1>1, <1>4 DEF ComingOK
<1>6. \A s \in Runs : Saved(run'[s]) => item'[run'[s].id] # Nothing
  <2> SUFFICES ASSUME NEW s \in Runs, Saved(run'[s]) PROVE item'[run'[s].id] # Nothing
    OBVIOUS
  <2>0. Coming(run'[s])
    BY DEF Saved, Coming
  <2>1. CASE s = r
    BY <2>0, <2>1 DEF RunStep
  <2>2. CASE s # r
    BY <1>2, <1>3, <2>2 DEF ComingOK, RunStep, RowsStay
  <2> QED BY <2>1, <2>2
<1>7. ComingOK'
  BY <1>4, <1>5, <1>6 DEF ComingOK
<1>8. JobsHaveRows'
  BY DEF JobsHaveRows, RowsStay
<1> QED BY <1>7, <1>8

LEMMA HandedOver ==
  ASSUME IInv, HandedInv, NEW r \in Runs, Saved(run[r]), run[r].pc = "enqueue", UNCHANGED item,
         HandsOver(run[r].id),
         \A s \in Runs \ {r} : run'[s] = run[s],
         \/ ~Coming(run'[r])
         \/ ~Saved(run'[r]) /\ run'[r].id \in Items /\ Fresh(run'[r].id)
  PROVE  HandedInv'
<1> USE DEF HandedInv
<1>1. \A i \in Items : Fresh(i) => job[i].pc = "none" /\ \A s \in Runs : run[s].id # i
  BY DEF Fresh, JobsHaveRows
<1>2. \A s \in Runs : Coming(run[s]) => run[s].id \in Items
  BY RunIds DEF Coming
<1>3. \A s \in Runs : Saved(run[s]) => Coming(run[s])
  BY DEF Saved, Coming
<1>4. ASSUME NEW s \in Runs, Coming(run'[s])
      PROVE  /\ job'[run'[s].id].pc = "none"
             /\ \/ Coming(run[s]) /\ run'[s].id = run[s].id
                \/ s = r /\ Fresh(run'[s].id) /\ run'[s].id \in Items
  <2>0. job[run[r].id].pc = "none" /\ run[r].id \in Items
    BY <1>2, <1>3 DEF ComingOK
  <2>1. CASE s = r
    BY <1>1, <1>4, <2>0, <2>1 DEF HandsOver
  <2>2. CASE s # r
    BY <1>2, <1>3, <1>4, <2>0, <2>2 DEF ComingOK, HandsOver
  <2> QED BY <2>1, <2>2
<1>5. \A s \in Runs : \A t \in Runs :
        Coming(run'[s]) /\ Coming(run'[t]) /\ run'[s].id = run'[t].id => s = t
  <2> SUFFICES ASSUME NEW s \in Runs, NEW t \in Runs,
                      Coming(run'[s]), Coming(run'[t]), run'[s].id = run'[t].id
               PROVE  s = t
    OBVIOUS
  <2> QED BY <1>1, <1>4 DEF ComingOK
<1>6. \A s \in Runs : Saved(run'[s]) => item'[run'[s].id] # Nothing
  <2> SUFFICES ASSUME NEW s \in Runs, Saved(run'[s]) PROVE item'[run'[s].id] # Nothing
    OBVIOUS
  <2>0. Coming(run'[s])
    BY DEF Saved, Coming
  <2> QED BY <2>0, <1>2, <1>3 DEF ComingOK
<1>7. ComingOK'
  BY <1>4, <1>5, <1>6 DEF ComingOK
<1>8. JobsHaveRows'
  BY <1>2, <1>3 DEF JobsHaveRows, ComingOK, HandsOver
<1> QED BY <1>7, <1>8

(***************************************************************************)
(* storage_used: what the jobs have added.                                 *)
(***************************************************************************)
Counted == {i \in Items : job[i].pc \in {"added", "done"}}
Touched == {i \in Items : job[i].pc # "none"}
Sizes   == [i \in Items |-> IF item[i] = Nothing THEN 0 ELSE item[i].size]

\* Only finitely many jobs have been queued, however many items there may be.
FewJobs == IsFiniteSet(Touched)

\* What a job is to add is the size in the row, unless a row was overwritten.
CopiesAgree ==
  torn = {} => \A i \in Items : job[i].pc \in {"user", "add"} => job[i].copy.size = item[i].size

\* storage_used is the sum of what was added, and more only after a crash.
UsedCounts ==
  torn = {} => /\ used >= SumFunctionOnSet(Sizes, Counted)
               /\ crashes = 0 => used = SumFunctionOnSet(Sizes, Counted)
SumInv == FewJobs /\ CopiesAgree /\ UsedCounts

LEMMA SizesNat ==
  ASSUME IInv, FewJobs
  PROVE  /\ IsFiniteSet(Counted) /\ Counted \subseteq Items
         /\ \A i \in Items : Sizes[i] \in Nat
<1>1. Counted \in SUBSET Touched
  BY DEF Counted, Touched
<1>2. IsFiniteSet(Counted)
  BY <1>1, FS_Subset DEF FewJobs
<1>3. \A i \in Items : item[i] # Nothing => item[i].size \in Nat
  BY DEF IInv, ItemsOK, Backed, Rows
<1> QED BY <1>2, <1>3 DEF Counted, Sizes

LEMMA FewMore ==
  ASSUME FewJobs, NEW i \in Items, \A k \in Items \ {i} : job'[k].pc # "none" => job[k].pc # "none"
  PROVE  FewJobs'
<1>1. IsFiniteSet(Touched \cup {i})
  BY FS_AddElement DEF FewJobs
<1>2. Touched' \in SUBSET (Touched \cup {i})
  BY DEF Touched
<1> DEFINE T == Touched'
<1>3. T \in SUBSET (Touched \cup {i})
  BY <1>2
<1> HIDE DEF T
<1>4. IsFiniteSet(T)
  BY <1>1, <1>3, FS_Subset
<1> QED BY <1>4 DEF FewJobs, T

\* Nothing counts that did not, and what counts keeps its size.
LEMMA CountsStay ==
  ASSUME IInv, SumInv,
         torn' = {} => torn = {} /\ used' = used /\ crashes' = crashes,
         \A k \in Items : k \in Counted' <=> k \in Counted,
         torn' = {} => \A k \in Counted : Sizes'[k] = Sizes[k]
  PROVE  UsedCounts'
<1> SUFFICES ASSUME torn' = {} PROVE UsedCounts'
  BY DEF UsedCounts
<1> DEFINE w == Sizes
           v == Sizes'
           C == Counted
<1>1. Counted' = C
  BY DEF Counted
<1>2. IsFiniteSet(C) /\ \A k \in C : w[k] = v[k]
  BY SizesNat DEF SumInv
<1>3. used >= SumFunctionOnSet(w, C) /\ (crashes = 0 => used = SumFunctionOnSet(w, C))
  BY DEF SumInv, UsedCounts
<1> HIDE DEF w, v, C
<1>4. SumFunctionOnSet(w, C) = SumFunctionOnSet(v, C)
  BY <1>2, SumSame
<1>5. /\ used' >= SumFunctionOnSet(v, C)
      /\ crashes' = 0 => used' = SumFunctionOnSet(v, C)
  BY <1>3, <1>4
<1> QED BY <1>1, <1>5 DEF UsedCounts, v

LEMMA SumsUnchanged ==
  ASSUME SumInv, UNCHANGED <<item, job, used, torn, crashes>>
  PROVE  SumInv'
BY DEF SumInv, FewJobs, Touched, CopiesAgree, UsedCounts, Sizes, Counted

\* The row of item i is written, and what it says of its size stays.
LEMMA RowWritten ==
  ASSUME IInv, HandedInv, SumInv, NEW i \in Items, NEW new, item' = [item EXCEPT ![i] = new],
         UNCHANGED <<job, used, crashes>>, torn' = {} => torn = {},
         torn' = {} => (item[i] # Nothing => new # Nothing /\ new.size = item[i].size)
  PROVE  SumInv'
<1>1. \A k \in Items : item'[k] = IF k = i THEN new ELSE item[k]
  BY DEF IInv, ItemsOK
<1>2. \A k \in Items : job[k].pc # "none" => item[k] # Nothing
  BY DEF HandedInv, JobsHaveRows
<1>3. FewJobs'
  BY DEF SumInv, FewJobs, Touched
<1>4. CopiesAgree'
  BY <1>1, <1>2 DEF SumInv, CopiesAgree
<1>5. torn' = {} => \A k \in Counted : Sizes'[k] = Sizes[k]
  BY <1>1, <1>2 DEF Sizes, Counted
<1>6. \A k \in Items : k \in Counted' <=> k \in Counted
  BY DEF Counted
<1>7. UsedCounts'
  BY <1>5, <1>6, CountsStay
<1> QED BY <1>3, <1>4, <1>7 DEF SumInv

\* A job moves, and neither starts nor stops to count.
LEMMA JobGoesOn ==
  ASSUME IInv, SumInv, NEW i \in Items, UNCHANGED <<item, used, torn, crashes>>,
         \A k \in Items \ {i} : job'[k] = job[k],
         job[i].pc \in {"added", "done"} <=> job'[i].pc \in {"added", "done"},
         job'[i].pc \in {"user", "add"} =>
           job[i].pc \in {"user", "add"} /\ job'[i].copy = job[i].copy
  PROVE  SumInv'
<1>1. FewJobs'
  BY FewMore DEF SumInv
<1>2. CopiesAgree'
  BY DEF SumInv, CopiesAgree
<1>3. \A k \in Items : k \in Counted' <=> k \in Counted
  BY DEF Counted
<1>4. \A k \in Counted : Sizes'[k] = Sizes[k]
  BY DEF Sizes
<1>5. UsedCounts'
  BY <1>3, <1>4, CountsStay
<1> QED BY <1>1, <1>2, <1>5 DEF SumInv

(***************************************************************************)
(* The handlers.                                                           *)
(***************************************************************************)
UsedInv == HandedInv /\ SumInv

\* A run moves, and rows, jobs and storage_used stay.
LEMMA RunOnly ==
  ASSUME IInv, UsedInv, NEW r \in Runs, RunStep(r), UNCHANGED <<item, job, used, torn, crashes>>
  PROVE  UsedInv'
<1>1. HandedInv'
  BY HandedKept DEF UsedInv, RowsStay
<1> QED BY <1>1, SumsUnchanged DEF UsedInv

LEMMA EndSteps == ASSUME IInv, NEW r \in Runs, Ends(r) PROVE RunStep(r)
<1>1. ~Coming([Idle EXCEPT !.pc = "done"])
  BY DEF Idle, Coming, Uploads
<1>2. run' = [run EXCEPT ![r] = [Idle EXCEPT !.pc = "done"]]
  BY DEF Ends
<1>3. run'[r] = [Idle EXCEPT !.pc = "done"] /\ \A s \in Runs \ {r} : run'[s] = run[s]
  BY <1>2 DEF IInv, RunsOK
<1> QED BY <1>1, <1>3 DEF RunStep

LEMMA StartSteps ==
  ASSUME IInv, NEW r \in Runs, NEW op, NEW pc, NEW i, NEW copy, Starts(r, op, pc, i, copy),
         \/ op \notin Uploads
         \/ /\ i \in Items /\ Fresh(i)
            /\ pc = IF op = "import_kahoot" THEN "save" ELSE "upload"
  PROVE  RunStep(r)
<1>1. run'[r] = [op |-> op, pc |-> pc, id |-> i, copy |-> copy] /\ \A s \in Runs \ {r} : run'[s] = run[s]
  BY DEF Starts, IInv, RunsOK
<1>2. CASE op \notin Uploads
  BY <1>1, <1>2 DEF RunStep, Coming
<1>3. CASE /\ op \in Uploads /\ i \in Items /\ Fresh(i)
           /\ pc = IF op = "import_kahoot" THEN "save" ELSE "upload"
  BY <1>1, <1>3 DEF RunStep, Coming, Saved, Uploads
<1> QED BY <1>2, <1>3

\* The record of a run that goes on under its id.
LEMMA GoneOn ==
  ASSUME IInv, NEW r \in Runs, NEW pc, Goes(r, pc)
  PROVE  /\ run'[r].op = run[r].op /\ run'[r].pc = pc /\ run'[r].id = run[r].id
         /\ \A s \in Runs \ {r} : run'[s] = run[s]
<1>1. DOMAIN run[r] = RunFields
  BY DEF IInv, RunsOK, RunOK, RunTyped
<1>2. run'[r] = [run[r] EXCEPT !.pc = pc] /\ \A s \in Runs \ {r} : run'[s] = run[s]
  BY DEF Goes, IInv, RunsOK
<1> QED BY <1>1, <1>2 DEF RunFields

LEMMA UploadUsed == ASSUME IInv, UsedInv, NEW r \in Runs, upload(r) PROVE UsedInv'
<1> DEFINE next == Order(run[r].op)["upload"]
<1>1. /\ run[r].op \in Uploads /\ run[r].pc = "upload"
      /\ UNCHANGED <<item, job, used, torn, crashes>>
  BY DEF upload
<1>2. CASE Ends(r)
  BY <1>1, <1>2, EndSteps, RunOnly
<1>3. CASE Proceeds(r)
  <2>1. next = IF run[r].op = "import_kahoot" THEN "enqueue" ELSE "save"
    BY <1>1, Orders
  <2>2. Goes(r, next)
    BY <1>1, <1>3, <2>1 DEF Proceeds
  <2> HIDE DEF next
  <2>3. run[r].op = "import_kahoot" => item[run[r].id] # Nothing
    BY <1>1 DEF UsedInv, HandedInv, ComingOK, Saved
  <2>4. RunStep(r)
    BY <1>1, <2>1, <2>2, <2>3, GoneOn DEF RunStep, Coming, Saved
  <2> QED BY <1>1, <2>4, RunOnly
<1> QED BY <1>2, <1>3 DEF upload

LEMMA SaveUsed == ASSUME IInv, UsedInv, NEW r \in Runs, save(r) PROVE UsedInv'
<1> DEFINE id == run[r].id
           mime == IF run[r].op = "import_kahoot" THEN "application/octet-stream" ELSE "image"
           new == [size |-> 0, hash |-> FALSE, storage_path |-> Nothing, deleted_at |-> FALSE,
                   alt_text |-> Nothing, mime_type |-> mime]
           next == Order(run[r].op)["save"]
<1>1. /\ run[r].op \in Uploads /\ run[r].pc = "save" /\ Proceeds(r)
      /\ UNCHANGED <<job, used, torn, crashes>>
  BY DEF save
<1>2. item' = [item EXCEPT ![id] = new]
  BY DEF save
<1>3. id \in Items /\ item[id] = Nothing
  BY <1>1, UnsavedIds DEF Unsaved
<1>4. new # Nothing
  BY NewRow, RowsAreRows
<1> HIDE DEF new
<1>5. next = IF run[r].op = "import_kahoot" THEN "upload" ELSE "enqueue"
  BY <1>1, Orders
<1>6. Goes(r, next)
  BY <1>1, <1>5 DEF Proceeds
<1> HIDE DEF next
<1>7. RowsStay /\ item'[id] # Nothing
  BY <1>2, <1>3, <1>4 DEF RowsStay, IInv, ItemsOK
<1>8. RunStep(r)
  BY <1>1, <1>5, <1>6, <1>7, GoneOn DEF RunStep, Coming, Saved
<1>9. HandedInv'
  BY <1>1, <1>7, <1>8, HandedKept DEF UsedInv
<1>10. SumInv'
  BY <1>1, <1>2, <1>3, RowWritten DEF UsedInv
<1> QED BY <1>9, <1>10 DEF UsedInv

LEMMA EnqueueUsed == ASSUME IInv, UsedInv, NEW r \in Runs, enqueue_job(r) PROVE UsedInv'
<1> DEFINE id == run[r].id
           op == run[r].op
<1>1. /\ op \in Uploads /\ run[r].pc = "enqueue" /\ Proceeds(r)
      /\ job' = [job EXCEPT ![id].pc = "queued"]
      /\ UNCHANGED <<item, files, used, torn, crashes>>
  BY DEF enqueue_job
<1>2. id \in Items /\ DOMAIN run[r] = RunFields /\ DOMAIN job[id] = JobFields
  BY <1>1 DEF IInv, RunsOK, RunOK, RunTyped, JobsOK, JobOK
<1>3. HandsOver(id)
  BY <1>1, <1>2 DEF HandsOver, IInv, JobsOK, JobFields
<1>4. job[id].pc = "none"
  BY <1>1 DEF UsedInv, HandedInv, ComingOK, Coming
<1>5. SumInv'
  BY <1>1, <1>2, <1>3, <1>4, JobGoesOn DEF UsedInv, HandsOver
<1>6. /\ \A s \in Runs \ {r} : run'[s] = run[s]
      /\ \/ ~Coming(run'[r])
         \/ ~Saved(run'[r]) /\ run'[r].id \in Items /\ Fresh(run'[r].id)
  <2>1. CASE Ends(r)
    <3>1. run'[r] = [Idle EXCEPT !.pc = "done"] /\ \A s \in Runs \ {r} : run'[s] = run[s]
      BY <2>1 DEF Ends, IInv, RunsOK
    <3> QED BY <3>1 DEF Idle, Coming, Uploads
  <2>2. ASSUME NEW i \in Items, Fresh(i), run' = [run EXCEPT ![r].pc = Order(op).start, ![r].id = i]
        PROVE  /\ \A s \in Runs \ {r} : run'[s] = run[s]
               /\ ~Saved(run'[r]) /\ run'[r].id \in Items /\ Fresh(run'[r].id)
    <3> DEFINE pc == Order(op).start
    <3>1. pc = IF op = "import_kahoot" THEN "save" ELSE "upload"
      BY <1>1, Orders
    <3>2. run' = [run EXCEPT ![r] = [run[r] EXCEPT !.pc = pc, !.id = i]]
      BY <2>2
    <3> HIDE DEF pc
    <3>3. run'[r].op = op /\ run'[r].pc = pc /\ run'[r].id = i
      BY <1>2, <3>2 DEF IInv, RunsOK, RunFields
    <3>4. \A s \in Runs \ {r} : run'[s] = run[s]
      BY <3>2 DEF IInv, RunsOK
    <3> QED BY <2>2, <3>1, <3>3, <3>4 DEF Saved
  <2>3. Order(op)["enqueue"] = "done"
    BY <1>1, Orders
  <2> QED BY <1>1, <2>1, <2>2, <2>3 DEF Proceeds
<1>7. Saved(run[r])
  BY <1>1 DEF Saved
<1>8. HandedInv'
  BY <1>1, <1>3, <1>6, <1>7, HandedOver DEF UsedInv
<1> QED BY <1>5, <1>8 DEF UsedInv

\* A copy of a row is written back by an owner's change.
LEMMA ChangeUsed ==
  ASSUME IInv, UsedInv, NEW r \in Runs, Changes(run[r]), NEW new,
         Overwrites(run[r].id, run[r].copy, new), Ends(r), UNCHANGED <<job, used, crashes>>,
         new # Nothing, new.size = run[r].copy.size
  PROVE  UsedInv'
<1> DEFINE id == run[r].id
<1>1. /\ item' = [item EXCEPT ![id] = new]
      /\ torn' = torn \cup IF item[id] = run[r].copy THEN {} ELSE {id}
  BY DEF Overwrites
<1>2. id \in Items /\ item[id] # Nothing
  BY DEF IInv, RunsOK, RunOK
<1>3. torn' = {} => torn = {} /\ item[id] = run[r].copy
  BY <1>1
<1>4. SumInv'
  BY <1>1, <1>2, <1>3, RowWritten DEF UsedInv
<1>5. RowsStay
  BY <1>1, <1>2 DEF RowsStay, IInv, ItemsOK
<1>6. HandedInv'
  BY <1>5, EndSteps, HandedKept DEF UsedInv
<1> QED BY <1>4, <1>6 DEF UsedInv

LEMMA MarkUsed == ASSUME IInv, UsedInv, NEW r \in Runs, mark_file_as_deleted(r) PROVE UsedInv'
<1>1. CASE (\E i \in Items : item[i] # Nothing /\ Starts(r, "mark_file_as_deleted", "write", i, item[i]))
           /\ UNCHANGED <<backend, item, files, job, used, marked, torn, crashes>>
  <2>1. RunStep(r)
    BY <1>1, StartSteps DEF Uploads
  <2> QED BY <1>1, <2>1, RunOnly
<1>2. CASE Ends(r) /\ UNCHANGED <<backend, item, files, job, used, cached, marked, torn, crashes>>
  BY <1>2, EndSteps, RunOnly
<1>3. CASE /\ At(r, "mark_file_as_deleted", "write") /\ Ends(r)
           /\ Overwrites(run[r].id, run[r].copy, [run[r].copy EXCEPT !.deleted_at = TRUE])
           /\ UNCHANGED <<backend, files, job, used, cached, crashes>>
  <2>1. Changes(run[r])
    BY <1>3 DEF At, Changes
  <2>2. Backed(run[r].id, run[r].copy, files)
    BY <2>1 DEF IInv, RunsOK, RunOK
  <2> DEFINE new == [run[r].copy EXCEPT !.deleted_at = TRUE]
  <2>3. new \in Rows /\ new.size = run[r].copy.size
    BY <2>2 DEF Backed, Rows
  <2> HIDE DEF new
  <2>4. new # Nothing
    BY <2>3, RowsAreRows
  <2> QED BY <1>3, <2>1, <2>3, <2>4, ChangeUsed DEF new
<1> QED BY <1>1, <1>2, <1>3 DEF mark_file_as_deleted

LEMMA UpdateUsed == ASSUME IInv, UsedInv, NEW r \in Runs, update_image_data(r) PROVE UsedInv'
<1>1. CASE (\E i \in Items : item[i] # Nothing /\ Starts(r, "update_image_data", "write", i, item[i]))
           /\ UNCHANGED <<backend, item, files, job, used, marked, torn, crashes>>
  <2>1. RunStep(r)
    BY <1>1, StartSteps DEF Uploads
  <2> QED BY <1>1, <2>1, RunOnly
<1>2. CASE /\ At(r, "update_image_data", "write") /\ Ends(r)
           /\ \E text \in {Nothing, "text"} :
                Overwrites(run[r].id, run[r].copy, [run[r].copy EXCEPT !.alt_text = text])
           /\ UNCHANGED <<backend, files, job, used, cached, marked, crashes>>
  <2>1. Changes(run[r])
    BY <1>2 DEF At, Changes
  <2>2. Backed(run[r].id, run[r].copy, files)
    BY <2>1 DEF IInv, RunsOK, RunOK
  <2>3. PICK text \in {Nothing, "text"} :
          Overwrites(run[r].id, run[r].copy, [run[r].copy EXCEPT !.alt_text = text])
    BY <1>2
  <2> DEFINE new == [run[r].copy EXCEPT !.alt_text = text]
  <2>4. new \in Rows /\ new.size = run[r].copy.size
    BY <2>2 DEF Backed, Rows
  <2> HIDE DEF new
  <2>5. new # Nothing
    BY <2>4, RowsAreRows
  <2> QED BY <1>2, <2>1, <2>3, <2>4, <2>5, ChangeUsed DEF new
<1> QED BY <1>1, <1>2 DEF update_image_data

LEMMA AvatarUsed == ASSUME IInv, UsedInv, NEW r \in Runs, save_avatar(r) PROVE UsedInv'
<1>1. CASE Starts(r, "save_avatar", "forget", Nothing, User)
           /\ UNCHANGED <<backend, item, files, job, used, marked, torn, crashes>>
  <2>1. RunStep(r)
    BY <1>1, StartSteps DEF Uploads
  <2> QED BY <1>1, <2>1, RunOnly
<1>2. CASE At(r, "save_avatar", "forget") /\ Goes(r, "write")
           /\ UNCHANGED <<backend, item, files, job, used, marked, torn, crashes>>
  <2>1. RunStep(r)
    BY <1>2, GoneOn DEF RunStep, Coming, At, Uploads
  <2> QED BY <1>2, <2>1, RunOnly
<1>3. CASE At(r, "save_avatar", "write") /\ PutsUsed(run[r].copy, run[r].copy) /\ Ends(r)
           /\ UNCHANGED <<backend, item, files, job, cached, marked, crashes>>
  <2>1. torn' = {} => torn = {} /\ used' = used
    BY <1>3 DEF PutsUsed
  <2>2. HandedInv'
    BY <1>3, EndSteps, HandedKept DEF UsedInv, RowsStay
  <2>3. FewJobs' /\ CopiesAgree'
    BY <1>3, <2>1 DEF UsedInv, SumInv, FewJobs, Touched, CopiesAgree
  <2>4. UsedCounts'
    BY <1>3, <2>1 DEF UsedInv, SumInv, UsedCounts, Sizes, Counted
  <2> QED BY <2>2, <2>3, <2>4 DEF UsedInv, SumInv
<1> QED BY <1>1, <1>2, <1>3 DEF save_avatar

(***************************************************************************)
(* The worker.                                                             *)
(***************************************************************************)
LEMMA StillHanded ==
  ASSUME UsedInv, UNCHANGED run, RowsStay, IInv,
         \A i \in Items : job[i].pc = "none" <=> job'[i].pc = "none"
  PROVE  HandedInv'
<1>1. \A r \in Runs : Coming(run[r]) => run[r].id \in Items
  BY RunIds DEF Coming
<1>2. \A r \in Runs : Saved(run[r]) => run[r].id \in Items
  BY RunIds DEF Saved
<1>3. ComingOK'
  BY <1>1, <1>2 DEF UsedInv, HandedInv, ComingOK, RowsStay
<1> QED BY <1>3 DEF UsedInv, HandedInv, JobsHaveRows, RowsStay

LEMMA ReadUsed == ASSUME IInv, UsedInv, NEW i \in Items, calculate_hash_reads(i) PROVE UsedInv'
<1>1. UNCHANGED <<run, item, used, torn, crashes>> /\ job[i].pc = "queued"
  BY DEF calculate_hash_reads
<1>2. job'[i].pc \in {"write", "failed"} /\ \A k \in Items \ {i} : job'[k] = job[k]
  BY DEF calculate_hash_reads, IInv, JobsOK, NoJob
<1>3. HandedInv'
  BY <1>1, <1>2, StillHanded DEF RowsStay
<1>4. SumInv'
  BY <1>1, <1>2, JobGoesOn DEF UsedInv
<1> QED BY <1>3, <1>4 DEF UsedInv

LEMMA WriteUsed == ASSUME IInv, UsedInv, NEW i \in Items, calculate_hash_writes(i) PROVE UsedInv'
<1> DEFINE copy == job[i].copy
           size == job[i].held
           new == [copy EXCEPT !.size = size, !.hash = TRUE]
<1>1. /\ job[i].pc = "write" /\ Overwrites(i, copy, new)
      /\ job' = [job EXCEPT ![i] = [pc |-> "user", copy |-> new, held |-> Nothing]]
      /\ UNCHANGED <<used, run, crashes>>
  BY DEF calculate_hash_writes
<1>2. item[i] # Nothing /\ Backed(i, copy, files) /\ size \in Nat
  BY <1>1 DEF IInv, JobsOK, JobOK
<1> HIDE DEF copy, size
<1>3. new \in Rows
  BY <1>2 DEF Backed, Rows
<1> HIDE DEF new
<1>4. new # Nothing
  BY <1>3, RowsAreRows
<1>5. /\ \A k \in Items : item'[k] = IF k = i THEN new ELSE item[k]
      /\ torn' = {} => torn = {}
  BY <1>1 DEF Overwrites, IInv, ItemsOK
<1>6. /\ job'[i].pc = "user" /\ job'[i].copy = new
      /\ \A k \in Items \ {i} : job'[k] = job[k]
  BY <1>1 DEF IInv, JobsOK
<1>7. RowsStay
  BY <1>4, <1>5 DEF RowsStay
<1>8. HandedInv'
  BY <1>1, <1>6, <1>7, StillHanded
<1>9. FewJobs'
  BY <1>6, FewMore DEF UsedInv, SumInv
<1>10. CopiesAgree'
  BY <1>5, <1>6 DEF UsedInv, SumInv, CopiesAgree
<1>11. \A k \in Items : k \in Counted' <=> k \in Counted
  BY <1>1, <1>6 DEF Counted
<1>12. \A k \in Counted : Sizes'[k] = Sizes[k]
  BY <1>1, <1>5 DEF Counted, Sizes
<1>13. UsedCounts'
  BY <1>1, <1>5, <1>11, <1>12, CountsStay DEF UsedInv
<1> QED BY <1>8, <1>9, <1>10, <1>13 DEF UsedInv, SumInv

LEMMA AddUsed ==
  ASSUME IInv, UsedInv, NEW i \in Items, calculate_hash_user(i), UNCHANGED <<item, run, crashes>>
  PROVE  UsedInv'
<1>0. DOMAIN job[i] = JobFields
  BY DEF IInv, JobsOK, JobOK
<1>1. CASE job[i].pc = "user" /\ UNCHANGED <<used, torn>>
           /\ job' = [job EXCEPT ![i].pc = "add", ![i].held = used]
  <2>1. /\ job'[i].pc = "add" /\ job'[i].copy = job[i].copy
        /\ \A k \in Items \ {i} : job'[k] = job[k]
    BY <1>0, <1>1 DEF IInv, JobsOK, JobFields
  <2>2. SumInv'
    BY <1>1, <2>1, JobGoesOn DEF UsedInv
  <2>3. HandedInv'
    BY <1>1, <2>1, StillHanded DEF RowsStay
  <2> QED BY <2>2, <2>3 DEF UsedInv
<1>2. CASE /\ job[i].pc = "add" /\ PutsUsed(job[i].held, Adds(job[i].held, job[i].copy))
           /\ job' = [job EXCEPT ![i].pc = "added"]
  <2>1. /\ job'[i].pc = "added" /\ \A k \in Items \ {i} : job'[k] = job[k]
    BY <1>0, <1>2 DEF IInv, JobsOK, JobFields
  <2>2. HandedInv'
    BY <1>2, <2>1, StillHanded DEF RowsStay
  <2>3. FewJobs'
    BY <2>1, FewMore DEF UsedInv, SumInv
  <2>4. torn' = {} => torn = {} /\ used' = used + job[i].copy.size
    BY <1>2 DEF PutsUsed, Adds
  <2>5. CopiesAgree'
    BY <2>1, <2>4 DEF UsedInv, SumInv, CopiesAgree
  <2>6. UsedCounts'
    <3> SUFFICES ASSUME torn' = {} PROVE UsedCounts'
      BY DEF UsedCounts
    <3> DEFINE w == Sizes
               C == Counted
    <3>1. item[i] # Nothing /\ job[i].copy.size = item[i].size
      BY <1>2, <2>4 DEF UsedInv, HandedInv, JobsHaveRows, SumInv, CopiesAgree
    <3>2. w[i] = job[i].copy.size
      BY <3>1 DEF Sizes
    <3>3. IsFiniteSet(C) /\ C \subseteq Items /\ i \notin C /\ \A k \in Items : w[k] \in Nat
      BY <1>2, SizesNat DEF UsedInv, SumInv, Counted
    <3>4. Counted' = C \cup {i} /\ Sizes' = w
      BY <2>1 DEF Counted, Sizes
    <3>5. used >= SumFunctionOnSet(w, C) /\ (crashes = 0 => used = SumFunctionOnSet(w, C))
      BY <2>4 DEF UsedInv, SumInv, UsedCounts
    <3>6. used \in Nat
      BY DEF IInv, Typed
    <3> HIDE DEF w, C
    <3>7. \A k \in C \cup {i} : w[k] \in Int
      BY <3>3
    <3>8. SumFunctionOnSet(w, C \cup {i}) = SumFunctionOnSet(w, C) + w[i]
      BY <3>3, <3>7, SumAdd
    <3>9. SumFunctionOnSet(w, C) \in Int /\ w[i] \in Int
      BY <3>3, <3>7, SumInt
    <3>10. /\ used' >= SumFunctionOnSet(w, C \cup {i})
           /\ crashes' = 0 => used' = SumFunctionOnSet(w, C \cup {i})
      BY <2>4, <3>2, <3>5, <3>6, <3>8, <3>9
    <3> QED BY <3>4, <3>10 DEF UsedCounts
  <2> QED BY <2>2, <2>3, <2>5, <2>6 DEF UsedInv, SumInv
<1>3. CASE /\ job[i].pc = "added" /\ UNCHANGED <<used, torn>>
           /\ job' = [job EXCEPT ![i] = [NoJob EXCEPT !.pc = "done"]]
  <2>1. job'[i].pc = "done" /\ \A k \in Items \ {i} : job'[k] = job[k]
    BY <1>3 DEF IInv, JobsOK, NoJob
  <2>2. SumInv'
    BY <1>3, <2>1, JobGoesOn DEF UsedInv
  <2>3. HandedInv'
    BY <1>3, <2>1, StillHanded DEF RowsStay
  <2> QED BY <2>2, <2>3 DEF UsedInv
<1> QED BY <1>1, <1>2, <1>3 DEF calculate_hash_user

LEMMA KillUsed == ASSUME IInv, UsedInv, WorkerKilled PROVE UsedInv'
<1> DEFINE j == [NoJob EXCEPT !.pc = "queued"]
<1>1. /\ UNCHANGED <<item, run, used, torn>>
      /\ job' = [i \in Items |-> IF job[i].pc \in {"write", "user", "add", "added"} THEN j ELSE job[i]]
      /\ crashes' = crashes + 1 /\ crashes \in Nat
  BY FilesAssumption DEF WorkerKilled, IInv, Typed
<1>2. j.pc = "queued"
  BY DEF NoJob
<1> HIDE DEF j
<1>3. HandedInv'
  BY <1>1, <1>2, StillHanded DEF RowsStay
<1>4. Touched' = Touched
  BY <1>1, <1>2 DEF Touched
<1>5. FewJobs'
  BY <1>4 DEF UsedInv, SumInv, FewJobs
<1>6. CopiesAgree'
  BY <1>1, <1>2 DEF UsedInv, SumInv, CopiesAgree
<1>7. UsedCounts'
  <2> SUFFICES ASSUME torn = {} PROVE UsedCounts'
    BY <1>1 DEF UsedCounts
  <2> DEFINE w == Sizes
             C == Counted
             D == Counted'
  <2>1. D \in SUBSET C /\ Sizes' = w
    BY <1>1, <1>2 DEF Counted, Sizes
  <2>2. IsFiniteSet(C) /\ \A k \in C : w[k] \in Nat
    BY SizesNat DEF UsedInv, SumInv
  <2>3. used >= SumFunctionOnSet(w, C) /\ used \in Nat
    BY DEF UsedInv, SumInv, UsedCounts, IInv, Typed
  <2> HIDE DEF w, C, D
  <2>4. SumFunctionOnSet(w, D) <= SumFunctionOnSet(w, C)
    BY <2>1, <2>2, SumLess
  <2>5. SumFunctionOnSet(w, D) \in Nat /\ SumFunctionOnSet(w, C) \in Nat
    <3>1. IsFiniteSet(D) /\ \A k \in D : w[k] \in Nat
      BY <2>1, <2>2, FS_Subset
    <3> QED BY <2>2, <3>1, SumNat
  <2>6. used' >= SumFunctionOnSet(w, D) /\ crashes' # 0
    BY <1>1, <2>3, <2>4, <2>5
  <2> QED BY <2>1, <2>6 DEF UsedCounts, D
<1> QED BY <1>3, <1>5, <1>6, <1>7 DEF UsedInv, SumInv

LEMMA UsedStep == ASSUME IInv, UsedInv, [Next]_vars PROVE UsedInv'
<1>1. ASSUME UNCHANGED <<run, item, job, used, torn, crashes>> PROVE UsedInv'
  <2>1. SumInv'
    BY <1>1, SumsUnchanged DEF UsedInv
  <2>2. HandedInv'
    BY <1>1, StillHanded DEF RowsStay
  <2> QED BY <2>1, <2>2 DEF UsedInv
<1>2. CASE CacheEnds \/ UNCHANGED vars
  BY <1>1, <1>2 DEF CacheEnds, vars
<1>3. ASSUME NEW r \in Runs, Steps(r) PROVE UsedInv'
  BY <1>3, UploadUsed, SaveUsed, EnqueueUsed, MarkUsed, UpdateUsed, AvatarUsed DEF Steps
<1>4. ASSUME NEW r \in Runs, NEW i \in Items, NEW op \in Uploads, Begins(r, i, op) PROVE UsedInv'
  <2>1. Order(op).start = IF op = "import_kahoot" THEN "save" ELSE "upload"
    BY Orders
  <2>2. RunStep(r)
    BY <1>4, <2>1, StartSteps DEF Begins
  <2> QED BY <1>4, <2>2, RunOnly DEF Begins
<1>5. ASSUME NEW r \in Runs, NEW i \in Items,
             \/ upload_file(r, i) \/ upload_raw_file(r, i) \/ save_pixabay_image(r, i)
             \/ import_cqa(r, i) \/ import_kahoot(r, i)
      PROVE  UsedInv'
  BY <1>4, <1>5 DEF upload_file, upload_raw_file, save_pixabay_image, import_cqa, import_kahoot, Uploads
<1>6. ASSUME NEW i \in Items, calculate_hash(i) PROVE UsedInv'
  BY <1>6, ReadUsed, WriteUsed, AddUsed DEF calculate_hash
<1> QED BY <1>2, <1>3, <1>5, <1>6, KillUsed DEF Next

LEMMA UsedInit == Init => UsedInv
<1> SUFFICES ASSUME Init PROVE UsedInv
  OBVIOUS
<1>1. Counted = {} /\ Touched = {} /\ \A i \in Items : job[i].pc = "none"
  BY DEF Init, Counted, Touched, NoJob
<1>2. \A r \in Runs : ~Coming(run[r]) /\ ~Saved(run[r])
  BY DEF Init, Idle, Coming, Saved, Uploads
<1>3. HandedInv
  BY <1>1, <1>2 DEF HandedInv, ComingOK, JobsHaveRows
<1>4. FewJobs /\ CopiesAgree
  BY <1>1, FS_EmptySet DEF FewJobs, CopiesAgree
<1>5. UsedCounts
  BY <1>1, SumEmpty DEF Init, UsedCounts
<1> QED BY <1>3, <1>4, <1>5 DEF UsedInv, SumInv

\* However jobs and requests interleave, storage_used comes out as the sum of
\* the sizes of the files whose job ended, as long as no row was overwritten
\* with an older copy; it is more than that only when the worker was killed.
THEOREM UsedIsCounted == Spec => []UsedIsSum
<1>1. Init => IInv /\ UsedInv
  BY Starting, UsedInit
<1>2. IInv /\ UsedInv /\ [Next]_vars => (IInv /\ UsedInv)'
  BY StepsKeep, UsedStep
<1>3. IInv /\ UsedInv => UsedIsSum
  <2> DEFINE done == {i \in Items : job[i].pc = "done"}
             v == [i \in done |-> item[i].size]
  <2> SUFFICES ASSUME IInv, UsedInv, torn = {}, \A i \in Items : job[i].pc \in {"none", "done", "failed"}
               PROVE  /\ used >= SumFunctionOnSet(v, done)
                      /\ crashes = 0 => used = SumFunctionOnSet(v, done)
    BY DEF UsedIsSum, get_storage_limit
  <2>1. Counted = done
    BY DEF Counted
  <2>2. \A i \in done : Sizes[i] = v[i]
    BY DEF Sizes, UsedInv, HandedInv, JobsHaveRows
  <2>3. IsFiniteSet(done)
    BY <2>1, SizesNat DEF UsedInv, SumInv
  <2>4. SumFunctionOnSet(Sizes, done) = SumFunctionOnSet(v, done)
    <3> HIDE DEF done, v
    <3> QED BY <2>2, <2>3, SumSame
  <2> HIDE DEF done, v
  <2> QED BY <2>1, <2>4 DEF UsedInv, SumInv, UsedCounts
<1> QED BY <1>1, <1>2, <1>3, PTL DEF Spec
=============================================================================
