------------------------------- MODULE Files --------------------------------
(***************************************************************************)
(* The files one user uploads: the table storage_items, the storage        *)
(* backend, the worker's calculate_hash jobs, and the user's storage_used, *)
(* which the jobs add to and by which uploads are refused.  Handlers and   *)
(* jobs write whole rows back; the worker runs its jobs at the same time,  *)
(* and again when it was killed in the middle of one.  The cache of        *)
(* accounts, modelled in Accounts, is one value here; the account is       *)
(* signed in and is not deleted.                                           *)
(***************************************************************************)
EXTENDS Naturals, FiniteSets, Functions

CONSTANTS
  Items,      \* ids of storage items: what uuid4() will return
  Size,       \* [Items -> bytes of the file that is uploaded under the id]
  Limit,      \* settings.free_storage_limit
  Runs,       \* runs of handlers, each used once
  MaxCrashes, \* bound on how often the worker is killed
  Nothing     \* null

\* Kahoot's images are saved without their type.
Rows == [size : Nat, hash : BOOLEAN, storage_path : {Nothing}, deleted_at : BOOLEAN,
         alt_text : {Nothing, "text"}, mime_type : {"image", "application/octet-stream"}]

ASSUME FilesAssumption ==
  /\ Size \in [Items -> Nat] /\ Limit \in Nat /\ MaxCrashes \in Nat
  /\ Nothing \notin Items \cup Nat /\ Nothing \notin Rows

VARIABLES
  backend, \* settings.storage_backend
  item,    \* [Items -> row of storage_items, or Nothing]
  files,   \* names of the files in the storage
  job,     \* [Items -> the calculate_hash job of that item, with the copy of
           \* the row and the number, size or storage_used, it holds]
  used,    \* storage_used in the user's row
  cached,  \* storage_used in the cached copy of the row, or Nothing
  run,     \* [Runs -> run of a handler]
  marked,  \* items whose deletion was reported as done
  torn,    \* rows ("user": the user's) that an older copy was written over
  crashes

vars == <<backend, item, files, job, used, cached, run, marked, torn, crashes>>

Idle  == [op |-> "none", pc |-> "idle", id |-> Nothing, copy |-> Nothing]
NoJob == [pc |-> "none", copy |-> Nothing, held |-> Nothing]

Init ==
  /\ backend \in {"local", "s3"}
  /\ item = [i \in Items |-> Nothing]
  /\ files = {}
  /\ job = [i \in Items |-> NoJob]
  /\ used = 0 /\ cached = Nothing
  /\ run = [r \in Runs |-> Idle]
  /\ marked = {} /\ torn = {} /\ crashes = 0

At(r, op, pc) == run[r].op = op /\ run[r].pc = pc
Goes(r, pc) == run' = [run EXCEPT ![r].pc = pc]
Ends(r)     == run' = [run EXCEPT ![r] = [Idle EXCEPT !.pc = "done"]]

Starts(r, op, pc, id, copy) ==
  /\ run[r].pc = "idle"
  /\ run' = [run EXCEPT ![r] = [op |-> op, pc |-> pc, id |-> id, copy |-> copy]]

\* An id nobody has drawn yet.
Fresh(i) == item[i] = Nothing /\ i \notin files /\ \A r \in Runs : run[r].id # i

\* update() of the copy of an item's row.
Overwrites(i, copy, new) ==
  /\ item' = [item EXCEPT ![i] = new]
  /\ torn' = torn \cup IF item[i] = copy THEN {} ELSE {i}

\* update() of the copy of the user's row.
PutsUsed(copy, new) ==
  /\ used' = new
  /\ torn' = torn \cup IF used = copy THEN {} ELSE {"user"}

-----------------------------------------------------------------------------
\* get_current_user, for its storage_used; the copy in the cache is filled
\* here, is left to expire, and is dropped by handlers that change the account.
User == IF cached = Nothing THEN used ELSE cached

Authenticates == cached' = User

CacheEnds ==
  /\ cached # Nothing
  /\ cached' = Nothing
  /\ UNCHANGED <<backend, item, files, job, used, run, marked, torn, crashes>>

\* What an upload does and in which order; the imports do it once per image.
SaveFirst   == [start |-> "save", save |-> "upload", upload |-> "enqueue", enqueue |-> "done"]
UploadFirst == [start |-> "upload", upload |-> "save", save |-> "enqueue", enqueue |-> "done"]
QueueFirst  == [start |-> "upload", upload |-> "enqueue", enqueue |-> "save", save |-> "done"]

Order_Faulty(op) == SaveFirst

Order_Early(op) == IF op = "import_kahoot" THEN SaveFirst ELSE QueueFirst

Order(op) == IF op = "import_kahoot" THEN SaveFirst ELSE UploadFirst

Uploads == {"upload", "import_cqa", "import_kahoot"}

\* The upload goes on; after its last step it ends, or has another image.
Proceeds(r) ==
  LET op == run[r].op
      next == Order(op)[run[r].pc]
  IN  IF next # "done" THEN Goes(r, next)
      ELSE \/ Ends(r)
           \/ /\ op # "upload"
              /\ \E i \in Items : Fresh(i) /\ run' = [run EXCEPT ![r].pc = Order(op).start, ![r].id = i]

\* An upload or an import is refused when the user, as the cache knows the
\* account, is over the limit already.
Begins(r, i, op) ==
  /\ Fresh(i)
  /\ User <= Limit
  /\ Starts(r, op, Order(op).start, i, Nothing)
  /\ Authenticates
  /\ UNCHANGED <<backend, item, files, job, used, marked, torn, crashes>>

upload_file(r, i)        == Begins(r, i, "upload")
upload_raw_file(r, i)    == Begins(r, i, "upload")
save_pixabay_image(r, i) == Begins(r, i, "upload")
import_cqa(r, i)         == Begins(r, i, "import_cqa")
import_kahoot(r, i)      == Begins(r, i, "import_kahoot")

\* S3 may refuse the file: SavingFailedError ends the request.
upload(r) ==
  /\ run[r].op \in Uploads /\ run[r].pc = "upload"
  /\ \/ /\ files' = files \cup {run[r].id}
        /\ Proceeds(r)
     \/ /\ backend = "s3"
        /\ Ends(r)
        /\ UNCHANGED files
  /\ UNCHANGED <<backend, item, job, used, cached, marked, torn, crashes>>

save(r) ==
  /\ run[r].op \in Uploads /\ run[r].pc = "save"
  /\ item' = [item EXCEPT ![run[r].id] =
       [size |-> 0, hash |-> FALSE, storage_path |-> Nothing, deleted_at |-> FALSE, alt_text |-> Nothing,
        mime_type |-> IF run[r].op = "import_kahoot" THEN "application/octet-stream" ELSE "image"]]
  /\ Proceeds(r)
  /\ UNCHANGED <<backend, files, job, used, cached, marked, torn, crashes>>

enqueue_job(r) ==
  /\ run[r].op \in Uploads /\ run[r].pc = "enqueue"
  /\ job' = [job EXCEPT ![run[r].id].pc = "queued"]
  /\ Proceeds(r)
  /\ UNCHANGED <<backend, item, files, used, cached, marked, torn, crashes>>

-----------------------------------------------------------------------------
\* The owner's changes.  delete() gets the name of the file where a list of
\* names is due and takes it letter by letter: no file has such a name.  S3 may
\* refuse.
Named(i) == IF item[i].storage_path = Nothing THEN i ELSE item[i].storage_path

HasFile(i) == item[i] # Nothing /\ Named(i) \in files

mark_file_as_deleted(r) ==
  \/ /\ \E i \in Items : /\ item[i] # Nothing /\ ~item[i].deleted_at
                         /\ Starts(r, "mark_file_as_deleted", "write", i, item[i])
     /\ Authenticates
     /\ UNCHANGED <<backend, item, files, job, used, marked, torn, crashes>>
  \/ /\ At(r, "mark_file_as_deleted", "write") /\ backend = "s3"
     /\ Ends(r)
     /\ UNCHANGED <<backend, item, files, job, used, cached, marked, torn, crashes>>
  \/ /\ At(r, "mark_file_as_deleted", "write")
     /\ LET i == run[r].id IN
          /\ Overwrites(i, run[r].copy, [run[r].copy EXCEPT !.deleted_at = TRUE])
          /\ marked' = marked \cup {i}
     /\ Ends(r)
     /\ UNCHANGED <<backend, files, job, used, cached, crashes>>

update_image_data(r) ==
  \/ /\ \E i \in Items : /\ item[i] # Nothing /\ ~item[i].deleted_at
                         /\ Starts(r, "update_image_data", "write", i, item[i])
     /\ Authenticates
     /\ UNCHANGED <<backend, item, files, job, used, marked, torn, crashes>>
  \/ /\ At(r, "update_image_data", "write")
     /\ \E text \in {Nothing, "text"} :
          Overwrites(run[r].id, run[r].copy, [run[r].copy EXCEPT !.alt_text = text])
     /\ Ends(r)
     /\ UNCHANGED <<backend, files, job, used, cached, marked, crashes>>

\* save_avatar writes the whole user row back as the cache knew it.
save_avatar(r) ==
  \/ /\ Starts(r, "save_avatar", "forget", Nothing, User)
     /\ Authenticates
     /\ UNCHANGED <<backend, item, files, job, used, marked, torn, crashes>>
  \/ /\ At(r, "save_avatar", "forget")
     /\ cached' = Nothing
     /\ Goes(r, "write")
     /\ UNCHANGED <<backend, item, files, job, used, marked, torn, crashes>>
  \/ /\ At(r, "save_avatar", "write")
     /\ PutsUsed(run[r].copy, run[r].copy)
     /\ Ends(r)
     /\ UNCHANGED <<backend, item, files, job, cached, marked, crashes>>

-----------------------------------------------------------------------------
\* calculate_hash.  A file that is not there is downloaded as None, which
\* raises; so does S3 when it refuses.  A job that raised is not tried again.
calculate_hash_reads(i) ==
  /\ job[i].pc = "queued"
  /\ \/ /\ HasFile(i)
        /\ \E size \in {Size[i]} \cup IF backend = "s3" THEN {0} ELSE {} :
             job' = [job EXCEPT ![i] = [pc |-> "write", copy |-> item[i], held |-> size]]
     \/ /\ backend = "s3" \/ ~HasFile(i)
        /\ job' = [job EXCEPT ![i] = [NoJob EXCEPT !.pc = "failed"]]
  /\ UNCHANGED <<backend, item, files, used, cached, run, marked, torn, crashes>>

\* get_file_size gave the size, which S3 may fail to tell.
calculate_hash_writes(i) ==
  /\ job[i].pc = "write"
  /\ LET new == [job[i].copy EXCEPT !.size = job[i].held, !.hash = TRUE]
     IN  /\ Overwrites(i, job[i].copy, new)
         /\ job' = [job EXCEPT ![i] = [pc |-> "user", copy |-> new, held |-> Nothing]]
  /\ UNCHANGED <<backend, files, used, cached, run, marked, crashes>>

\* user.storage_used += file_data.size, in a copy of the row.
Adds_Faulty(user, copy) == IF copy.deleted_at THEN user ELSE user + copy.size

Adds(user, copy) == user + copy.size

calculate_hash_user(i) ==
  \/ /\ job[i].pc = "user"
     /\ job' = [job EXCEPT ![i].pc = "add", ![i].held = used]
     /\ UNCHANGED <<used, torn>>
  \/ /\ job[i].pc = "add"
     /\ PutsUsed(job[i].held, Adds(job[i].held, job[i].copy))
     /\ job' = [job EXCEPT ![i].pc = "added"]
  \/ /\ job[i].pc = "added"
     /\ job' = [job EXCEPT ![i] = [NoJob EXCEPT !.pc = "done"]]
     /\ UNCHANGED <<used, torn>>

calculate_hash(i) ==
  \/ calculate_hash_reads(i)
  \/ calculate_hash_writes(i)
  \/ /\ calculate_hash_user(i)
     /\ UNCHANGED <<backend, item, files, cached, run, marked, crashes>>

\* The worker is killed; arq starts the jobs it was at once more.
WorkerKilled ==
  /\ crashes < MaxCrashes
  /\ crashes' = crashes + 1
  /\ job' = [i \in Items |-> IF job[i].pc \in {"write", "user", "add", "added"}
                             THEN [NoJob EXCEPT !.pc = "queued"] ELSE job[i]]
  /\ UNCHANGED <<backend, item, files, used, cached, run, marked, torn>>

-----------------------------------------------------------------------------
Steps(r) ==
  \/ upload(r) \/ save(r) \/ enqueue_job(r)
  \/ mark_file_as_deleted(r) \/ update_image_data(r) \/ save_avatar(r)

Next ==
  \/ \E r \in Runs : Steps(r)
  \/ \E r \in Runs, i \in Items :
       \/ upload_file(r, i) \/ upload_raw_file(r, i) \/ save_pixabay_image(r, i)
       \/ import_cqa(r, i) \/ import_kahoot(r, i)
  \/ \E i \in Items : calculate_hash(i)
  \/ CacheEnds \/ WorkerKilled

Spec == Init /\ [][Next]_vars

\* arq polls its queue every half second, for as long as the worker runs.
FairSpec == Spec /\ \A i \in Items : WF_vars(calculate_hash(i))

-----------------------------------------------------------------------------
\* What the media library shows.
list_images_Faulty == {i \in Items : item[i] # Nothing}

list_images == {i \in Items : item[i] # Nothing /\ ~item[i].deleted_at}

\* The answers to a request for a file: the row is looked up, deleted or not;
\* info, HEAD and a redirect to S3 go by the row, a download by the file.
get_basic_file_info(i) == IF item[i] # Nothing THEN 200 ELSE 404

download_file_head(i) == IF item[i] = Nothing THEN 404 ELSE IF backend = "s3" THEN 307 ELSE 200

download_file(i) == IF HasFile(i) THEN 200 ELSE IF item[i] = Nothing THEN 404 ELSE 500

\* What the limit's page shows: the row, not the cached copy.
get_storage_limit == [used |-> used, limit_reached |-> used > Limit]

\* The variables have their types.
TypeOK ==
  /\ backend \in {"local", "s3"} /\ files \subseteq Items
  /\ \A i \in Items :
       /\ item[i] = Nothing \/ item[i] \in Rows
       /\ job[i].pc \in {"none", "queued", "write", "user", "add", "added", "done", "failed"}
       /\ job[i].copy = Nothing \/ job[i].copy \in Rows
       /\ job[i].held \in Nat \cup {Nothing}
  /\ used \in Nat /\ cached \in Nat \cup {Nothing}
  /\ \A r \in Runs : /\ run[r].id \in Items \cup {Nothing}
                     /\ \/ run[r].copy = Nothing
                        \/ IF run[r].op = "save_avatar" THEN run[r].copy \in Nat ELSE run[r].copy \in Rows
  /\ marked \subseteq Items /\ torn \subseteq Items \cup {"user"} /\ crashes \in 0..MaxCrashes

\* What info and HEAD say of a file its download keeps, whatever fails on the
\* way and however often the file is deleted: every row leads to a file.  Only
\* an image from Kahoot has its row first.
ServedIsStored ==
  \A i \in Items :
    (get_basic_file_info(i) = 200 \/ download_file_head(i) \in {200, 307})
      => \/ download_file(i) = 200
         \/ item[i].mime_type = "application/octet-stream"

\* When the jobs are through, storage_used has counted every file whose job
\* ended, the deleted ones too; more than once only if the worker was killed,
\* less only if a row was overwritten with an older copy of it.
UsedIsSum ==
  LET done == {i \in Items : job[i].pc = "done"}
      sum == SumFunctionOnSet([i \in done |-> item[i].size], done)
  IN  torn = {} /\ (\A i \in Items : job[i].pc \in {"none", "done", "failed"})
        => get_storage_limit.used >= sum /\ (crashes = 0 => get_storage_limit.used = sum)

\* A file that was reported deleted is not listed again, unless an older copy
\* of its row is written back: by the job, or by a change of its description.
DeletedIsHidden == \A i \in marked \ torn : i \notin list_images

\* On the local storage every file that was handed to the worker is hashed,
\* also if the worker is killed on the way: the row and the file are there
\* before the job is.
HandedOverIsHashed ==
  \A i \in Items : backend = "local" /\ job[i].pc = "queued" ~> (item[i] # Nothing /\ item[i].hash)
=============================================================================
