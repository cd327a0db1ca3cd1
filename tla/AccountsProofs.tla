---------------------------- MODULE AccountsProofs ----------------------------
(***************************************************************************)
(* A verified account stays verified: every handler writes back a whole    *)
(* row it has read some time ago, but none can have read it unverified     *)
(* except the one that verifies it.  And the password last set stays,      *)
(* unless a request overlapped with the change.                            *)
(***************************************************************************)
EXTENDS Accounts, TLAPS

(***************************************************************************)
(* The inductive invariant.                                                *)
(***************************************************************************)
Columns   == {"password", "backup_code", "totp_secret", "require_password", "verified"}
RunFields == {"op", "pc", "copy", "arg"}

Verified(x) == DOMAIN x = Columns /\ x.verified

RowOK   == row = Nothing \/ DOMAIN row = Columns
CacheOK == cache = Nothing \/ Verified(cache.value)

\* A run has a copy of a verified row once it has read one; verify_user has a
\* copy of some row, and the use of an API key has none.
RunOK(x) ==
  /\ DOMAIN x = RunFields
  /\ x.op = "verify_user" => x.pc = "write" /\ DOMAIN x.copy = Columns
  /\ x.op \notin {"verify_user", "check_api_key"} /\ x.pc \notin {"idle", "done", "miss", "reread", "user"}
       => Verified(x.copy)

RunsOK == run = [r \in Runs |-> run[r]] /\ \A r \in Runs : RunOK(run[r])

Settled == row # Nothing => row.verified

\* An account that is not verified has no token, no reset, no login and no API
\* key, and only requests that verify it are under way.
Waiting ==
  /\ ~jwt /\ resets = {} /\ apikey = "none"
  /\ logins = [r \in Runs |-> logins[r]] /\ \A r \in Runs : ~logins[r].open
  /\ \A r \in Runs : run[r].pc \in {"idle", "done"} \/ run[r].op = "verify_user"

IInv == RowOK /\ CacheOK /\ RunsOK /\ (Settled \/ Waiting)

\* What a step may do to the row.
RowMoves == row' = row \/ row' = Nothing \/ Verified(row')

CacheMoves == cache' = cache \/ cache' = Nothing \/ Verified(cache'.value)

\* What is shown of every step.
Kept == IInv' /\ RowMoves

(***************************************************************************)
(* What the handlers do to a copy of a row, and to their runs.             *)
(***************************************************************************)
LEMMA StillVerified ==
  ASSUME NEW x, Verified(x), NEW v
  PROVE  /\ Verified([x EXCEPT !.password = v]) /\ Verified([x EXCEPT !.backup_code = v])
         /\ Verified([x EXCEPT !.totp_secret = v]) /\ Verified([x EXCEPT !.require_password = v])
BY DEF Verified, Columns

LEMMA NowVerified == ASSUME NEW x, DOMAIN x = Columns PROVE Verified([x EXCEPT !.verified = TRUE])
BY DEF Verified, Columns

LEMMA DoneOK == RunOK([Idle EXCEPT !.pc = "done"]) /\ RunOK(Idle)
BY DEF RunOK, RunFields, Idle

\* A run that has its copy may go on; one that has none may begin to read.
LEMMA MovesOn ==
  ASSUME NEW x, RunOK(x), x.op # "verify_user", NEW pc,
         \/ Verified(x.copy) \/ x.op = "check_api_key" \/ pc \in {"idle", "done", "miss", "reread", "user"}
  PROVE  RunOK([x EXCEPT !.pc = pc])
BY DEF RunOK, RunFields

LEMMA Copies ==
  ASSUME NEW x, RunOK(x), x.op # "verify_user", NEW pc, NEW copy,
         Verified(copy) \/ pc \in {"idle", "done", "miss", "reread", "user"}
  PROVE  RunOK([x EXCEPT !.pc = pc, !.copy = copy]) /\ RunOK([x EXCEPT !.copy = copy, !.pc = pc])
BY DEF RunOK, RunFields

LEMMA Begun ==
  ASSUME NEW op, op # "verify_user", NEW pc, NEW copy, NEW arg,
         Verified(copy) \/ op = "check_api_key" \/ pc \in {"idle", "done", "miss", "reread", "user"}
  PROVE  RunOK([op |-> op, pc |-> pc, copy |-> copy, arg |-> arg])
BY DEF RunOK, RunFields

LEMMA HasCopy ==
  ASSUME IInv, NEW r \in Runs, run[r].op \notin {"verify_user", "check_api_key"},
         run[r].pc \notin {"idle", "done", "miss", "reread", "user"}
  PROVE  Verified(run[r].copy)
BY DEF IInv, RunsOK, RunOK

\* While a request other than verify_user is under way the account is verified
\* or gone.
LEMMA BusyIsSettled ==
  ASSUME IInv, NEW r \in Runs, run[r].pc \notin {"idle", "done"}, run[r].op # "verify_user"
  PROVE  Settled
BY DEF IInv, Waiting

(***************************************************************************)
(* The two ways in which a step keeps the invariant.                       *)
(***************************************************************************)
LEMMA SettledStep ==
  ASSUME IInv, NEW r \in Runs, NEW x, RunOK(x), run' = [run EXCEPT ![r] = x],
         RowMoves, CacheMoves, Settled \/ row' = Nothing \/ Verified(row')
  PROVE  Kept
<1>1. RowOK' /\ CacheOK' /\ RunsOK'
  BY DEF IInv, RowOK, CacheOK, RunsOK, RowMoves, CacheMoves, Verified
<1>2. Settled'
  BY DEF RowMoves, Settled, Verified
<1> QED BY <1>1, <1>2 DEF IInv, Kept

LEMMA GoesOn ==
  ASSUME IInv, NEW r \in Runs, run[r].pc \notin {"idle", "done"},
         run[r].op \notin {"verify_user", "check_api_key"}, NEW pc, Goes(r, pc),
         \/ Verified(run[r].copy) \/ pc \in {"idle", "done", "miss", "reread", "user"},
         RowMoves, CacheMoves
  PROVE  Kept
<1>1. RunOK([run[r] EXCEPT !.pc = pc])
  BY MovesOn DEF IInv, RunsOK
<1>2. run' = [run EXCEPT ![r] = [run[r] EXCEPT !.pc = pc]]
  BY DEF Goes
<1> QED BY <1>1, <1>2, BusyIsSettled, SettledStep

LEMMA EndsBusy ==
  ASSUME IInv, NEW r \in Runs, Ends(r), RowMoves, CacheMoves, 
         \/ run[r].pc \notin {"idle", "done"} /\ run[r].op # "verify_user"
         \/ Settled \/ row' = Nothing \/ Verified(row')
  PROVE  Kept
BY DoneOK, BusyIsSettled, SettledStep DEF Ends

LEMMA Rereading ==
  ASSUME IInv, NEW r \in Runs, run[r].op # "verify_user", NEW next, Rereads(r, next)
  PROVE  Kept
<1>1. run[r].pc = "reread" /\ UNCHANGED <<row, cache>>
  BY DEF Rereads
<1>2. Settled
  BY <1>1, BusyIsSettled
<1>3. CASE row = Nothing
  BY <1>1, <1>3, EndsBusy DEF Rereads, RowMoves, CacheMoves
<1>4. CASE row # Nothing
  <2>1. run' = [run EXCEPT ![r] = [run[r] EXCEPT !.pc = next, !.copy = row]]
    BY <1>4 DEF Rereads
  <2>2. Verified(row)
    BY <1>2, <1>4 DEF Settled, Verified, IInv, RowOK
  <2>3. RunOK([run[r] EXCEPT !.pc = next, !.copy = row])
    BY <2>2, Copies DEF IInv, RunsOK
  <2> QED BY <1>1, <1>2, <2>1, <2>3, SettledStep DEF RowMoves, CacheMoves
<1> QED BY <1>3, <1>4

LEMMA Writing ==
  ASSUME IInv, NEW r \in Runs, run[r].op \notin {"verify_user", "check_api_key"},
         NEW new, Verified(new), NEW next, Writes(r, new, next)
  PROVE  Kept
<1>1. RowMoves /\ CacheMoves /\ run[r].pc = "write"
  BY DEF Writes, Updates, RowMoves, CacheMoves
<1>2. Ends(r) \/ Goes(r, next)
  BY DEF Writes
<1> QED BY <1>1, <1>2, HasCopy, GoesOn, EndsBusy

LEMMA Dropping ==
  ASSUME IInv, NEW r \in Runs, run[r].op \notin {"verify_user", "check_api_key"}, NEW next,
         Drops(r, next) \/ clear_cache_for_account(r, next)
  PROVE  Kept
<1>1. RowMoves /\ CacheMoves /\ run[r].pc \in {"drop", "clear"}
  BY DEF Drops, clear_cache_for_account, Cleared, RowMoves, CacheMoves
<1>2. Ends(r) \/ Goes(r, next)
  BY DEF Drops, clear_cache_for_account
<1> QED BY <1>1, <1>2, HasCopy, GoesOn, EndsBusy

(***************************************************************************)
(* Steps.                                                                  *)
(***************************************************************************)
LEMMA Authenticates == ASSUME IInv, NEW r \in Runs, get_current_user(r) PROVE Kept
<1>1. Settled /\ UNCHANGED <<row, cache>>
  BY DEF get_current_user, IInv, Waiting
<1>2. PICK op \in DOMAIN First :
        Starts(r, op, IF cache = Nothing THEN "miss" ELSE First[op],
                      IF cache = Nothing THEN Nothing ELSE cache.value, Nothing)
  BY DEF get_current_user
<1> DEFINE pc == IF cache = Nothing THEN "miss" ELSE First[op]
           copy == IF cache = Nothing THEN Nothing ELSE cache.value
<1>3. op # "verify_user"
  BY DEF First
<1>4. Verified(copy) \/ pc = "miss"
  BY DEF IInv, CacheOK
<1>5. run' = [run EXCEPT ![r] = [op |-> op, pc |-> pc, copy |-> copy, arg |-> Nothing]]
  BY <1>2 DEF Starts
<1> HIDE DEF pc, copy
<1>6. RunOK([op |-> op, pc |-> pc, copy |-> copy, arg |-> Nothing])
  BY <1>3, <1>4, Begun
<1> QED BY <1>1, <1>5, <1>6, SettledStep DEF RowMoves, CacheMoves

LEMMA Caches == ASSUME IInv, NEW r \in Runs, cache_account(r) PROVE Kept
<1>1. CASE run[r].pc = "miss"
  <2>1. UNCHANGED <<row, cache>> /\ run[r].op # "verify_user"
    BY <1>1 DEF cache_account, IInv, RunsOK, RunOK
  <2>2. Settled
    BY <1>1, <2>1, BusyIsSettled
  <2>3. CASE row # Nothing /\ row.verified
    <3>1. run' = [run EXCEPT ![r] = [run[r] EXCEPT !.pc = "fill", !.copy = row]]
      BY <1>1, <2>3 DEF cache_account
    <3>2. RunOK([run[r] EXCEPT !.pc = "fill", !.copy = row])
      BY <2>1, <2>3, Copies DEF IInv, RunsOK, RowOK, Verified
    <3> QED BY <2>1, <2>2, <3>1, <3>2, SettledStep DEF RowMoves, CacheMoves
  <2>4. CASE ~(row # Nothing /\ row.verified)
    BY <1>1, <2>1, <2>2, <2>4, EndsBusy DEF cache_account, RowMoves, CacheMoves
  <2> QED BY <2>3, <2>4
<1>2. CASE run[r].pc = "fill" /\ run[r].op \in DOMAIN First
  <2>1. /\ UNCHANGED row /\ cache' = Entry(run[r].copy, CacheLife)
        /\ Goes(r, First[run[r].op])
    BY <1>2 DEF cache_account
  <2>2. run[r].op \notin {"verify_user", "check_api_key"}
    BY <1>2 DEF First
  <2>3. Verified(run[r].copy)
    BY <1>2, <2>2, HasCopy
  <2>4. RowMoves /\ CacheMoves
    BY <2>1, <2>3 DEF RowMoves, CacheMoves, Entry
  <2> QED BY <1>2, <2>1, <2>2, <2>3, <2>4, GoesOn
<1> QED BY <1>1, <1>2 DEF cache_account

LEMMA Changes ==
  ASSUME IInv, NEW r \in Runs,
         \/ change_password(r) \/ signout_everywhere(r) \/ get_backup_code(r)
         \/ set_require_password(r) \/ set_totp_up(r) \/ disable_totp(r)
  PROVE  Kept
<1> DEFINE c == run[r].copy
<1>1. run[r].op \notin {"verify_user", "check_api_key"}
  BY DEF change_password, signout_everywhere, get_backup_code, set_require_password, set_totp_up, disable_totp
<1>2. ASSUME NEW next, \/ Rereads(r, next) \/ Drops(r, next) \/ clear_cache_for_account(r, next)
      PROVE  Kept
  BY <1>1, <1>2, Rereading, Dropping
<1>3. ASSUME NEW v, NEW next,
             \/ Writes(r, [c EXCEPT !.password = v], next) \/ Writes(r, [c EXCEPT !.backup_code = v], next)
             \/ Writes(r, [c EXCEPT !.totp_secret = v], next) \/ Writes(r, [c EXCEPT !.require_password = v], next)
      PROVE  Kept
  <2>1. run[r].pc = "write"
    BY <1>3 DEF Writes
  <2>2. Verified(c)
    BY <1>1, <2>1, HasCopy
  <2> HIDE DEF c
  <2> QED BY <1>1, <1>3, <2>2, StillVerified, Writing
<1> QED BY <1>2, <1>3 DEF change_password, signout_everywhere, get_backup_code, set_require_password,
                          set_totp_up, disable_totp

LEMMA Resets ==
  ASSUME IInv, NEW r \in Runs, forgotten_password(r) \/ reset_password_with_token(r) PROVE Kept
<1>1. CASE forgotten_password(r)
  BY <1>1, EndsBusy DEF forgotten_password, MayForget, Settled, RowMoves, CacheMoves
<1>2. CASE resets # {} /\ Starts(r, "reset_password_with_token", "reread", Nothing, Nothing)
           /\ UNCHANGED <<row, cache, keys, newest>>
  <2>1. Settled
    BY <1>2 DEF IInv, Waiting
  <2>2. RunOK([op |-> "reset_password_with_token", pc |-> "reread", copy |-> Nothing, arg |-> Nothing])
    BY Begun
  <2> QED BY <1>2, <2>1, <2>2, SettledStep DEF Starts, RowMoves, CacheMoves
<1>3. CASE /\ run[r].op = "reset_password_with_token"
           /\ \/ Rereads(r, "write")
              \/ Writes(r, [run[r].copy EXCEPT !.password = r], "drop")
              \/ Drops(r, "clear")
              \/ clear_cache_for_account(r, "done")
  <2>1. CASE Writes(r, [run[r].copy EXCEPT !.password = r], "drop")
    <3>1. Verified(run[r].copy)
      BY <1>3, <2>1, HasCopy DEF Writes
    <3> QED BY <1>3, <2>1, <3>1, StillVerified, Writing
  <2> QED BY <1>3, <2>1, Rereading, Dropping
<1> QED BY <1>1, <1>2, <1>3 DEF reset_password_with_token

LEMMA Verifies == ASSUME IInv, NEW r \in Runs, verify_user(r) PROVE Kept
<1>1. CASE /\ row # Nothing /\ ~row.verified
           /\ Starts(r, "verify_user", "write", row, Nothing)
           /\ UNCHANGED <<row, cache, keys, newest>>
  <2> DEFINE x == [op |-> "verify_user", pc |-> "write", copy |-> row, arg |-> Nothing]
  <2>1. RunOK(x)
    BY <1>1 DEF RunOK, RunFields, IInv, RowOK
  <2>2. run' = [run EXCEPT ![r] = x] /\ x.op = "verify_user"
    BY <1>1 DEF Starts
  <2> HIDE DEF x
  <2>3. RunsOK'
    BY <2>1, <2>2 DEF IInv, RunsOK
  <2>4. Waiting
    BY <1>1 DEF IInv, Settled
  <2>5. Waiting'
    BY <1>1, <2>2, <2>4 DEF Waiting, IInv, RunsOK, keys
  <2> QED BY <1>1, <2>3, <2>5 DEF IInv, RowOK, CacheOK, Kept, RowMoves
<1>2. CASE run[r].op = "verify_user" /\ Writes(r, [run[r].copy EXCEPT !.verified = TRUE], "done")
  <2>1. Verified([run[r].copy EXCEPT !.verified = TRUE])
    BY <1>2, NowVerified DEF IInv, RunsOK, RunOK
  <2>2. row' = Nothing \/ Verified(row')
    BY <1>2, <2>1 DEF Writes, Updates
  <2> QED BY <1>2, <2>2, EndsBusy DEF Writes, RowMoves, CacheMoves
<1> QED BY <1>1, <1>2 DEF verify_user

LEMMA Keys ==
  ASSUME IInv, NEW r \in Runs,
         \/ confirm_add_key_data(r) \/ delete_security_key(r) \/ delete_session(r)
         \/ generate_api_key(r) \/ delete_api_key(r)
  PROVE  Kept
<1>1. CASE confirm_add_key_data(r) /\ run[r].pc = "reread"
  BY <1>1, Rereading DEF confirm_add_key_data
<1>2. CASE ~(confirm_add_key_data(r) /\ run[r].pc = "reread")
  <2>1. /\ run[r].op \in {"confirm_add_key_data", "delete_security_key", "delete_session",
                          "generate_api_key", "delete_api_key"}
        /\ run[r].pc \in {"add", "row", "forget", "delete"}
        /\ Ends(r) \/ \E pc : Goes(r, pc)
        /\ UNCHANGED <<row, cache>>
    BY <1>2 DEF confirm_add_key_data, Rereads, delete_security_key, delete_session, generate_api_key,
                delete_api_key, At
  <2> QED BY <2>1, HasCopy, GoesOn, EndsBusy DEF RowMoves, CacheMoves
<1> QED BY <1>1, <1>2

LEMMA Avatars == ASSUME IInv, NEW r \in Runs, save_avatar(r) PROVE Kept
<1>1. run[r].op = "save_avatar"
  BY DEF save_avatar
<1>2. CASE run[r].pc = "forget" /\ cache' = Nothing /\ Goes(r, "write") /\ UNCHANGED row
  BY <1>1, <1>2, HasCopy, GoesOn DEF RowMoves, CacheMoves
<1>3. CASE Writes(r, run[r].copy, "done")
  BY <1>1, <1>3, HasCopy, Writing DEF Writes
<1> QED BY <1>2, <1>3 DEF save_avatar

LEMMA Jobs == ASSUME IInv, NEW r \in Runs, calculate_hash(r) PROVE Kept
<1>1. run[r].op = "upload_file"
  BY DEF calculate_hash
<1>2. CASE run[r].pc = "queued" /\ UNCHANGED <<row, cache>>
           /\ IF row = Nothing THEN Ends(r) ELSE run' = [run EXCEPT ![r].pc = "write", ![r].copy = row]
  <2>1. Settled
    BY <1>1, <1>2, BusyIsSettled
  <2>2. CASE row = Nothing
    BY <1>1, <1>2, <2>2, EndsBusy DEF RowMoves, CacheMoves
  <2>3. CASE row # Nothing
    <3>1. Verified(row)
      BY <2>1, <2>3 DEF Settled, Verified, IInv, RowOK
    <3>2. RunOK([run[r] EXCEPT !.pc = "write", !.copy = row])
      BY <1>1, <3>1, Copies DEF IInv, RunsOK
    <3>3. run' = [run EXCEPT ![r] = [run[r] EXCEPT !.pc = "write", !.copy = row]]
      BY <1>2, <2>3
    <3> QED BY <1>2, <2>1, <3>2, <3>3, SettledStep DEF RowMoves, CacheMoves
  <2> QED BY <2>2, <2>3
<1>3. CASE Writes(r, run[r].copy, "done")
  BY <1>1, <1>3, HasCopy, Writing DEF Writes
<1> QED BY <1>2, <1>3 DEF calculate_hash

LEMMA Logins == ASSUME IInv, NEW r \in Runs, start_login(r) PROVE Kept
BY EndsBusy DEF start_login, Settled, RowMoves, CacheMoves

LEMMA LogsIn == ASSUME IInv, NEW r \in Runs, log_user_in(r) PROVE Kept
<1>1. run[r].pc = "session" /\ UNCHANGED <<row, cache>> /\ Ends(r)
  BY DEF log_user_in
<1>2. run[r].op # "verify_user"
  BY <1>1 DEF IInv, RunsOK, RunOK
<1> QED BY <1>1, <1>2, EndsBusy DEF RowMoves, CacheMoves

LEMMA StepOne == ASSUME IInv, NEW r \in Runs, step_1_endpoint(r) PROVE Kept
<1>1. CASE /\ \E l \in Runs : logins[l].open
                              /\ Starts(r, "step_1_endpoint", "user", Nothing, [id |-> l, was |-> logins[l]])
           /\ UNCHANGED <<row, cache, keys, newest>>
  <2>1. PICK l \in Runs : logins[l].open
                          /\ Starts(r, "step_1_endpoint", "user", Nothing, [id |-> l, was |-> logins[l]])
    BY <1>1
  <2>2. Settled
    BY <2>1 DEF IInv, Waiting
  <2> DEFINE arg == [id |-> l, was |-> logins[l]]
  <2>3. run' = [run EXCEPT ![r] = [op |-> "step_1_endpoint", pc |-> "user", copy |-> Nothing, arg |-> arg]]
    BY <2>1 DEF Starts
  <2> HIDE DEF arg
  <2>4. RunOK([op |-> "step_1_endpoint", pc |-> "user", copy |-> Nothing, arg |-> arg])
    BY Begun
  <2> QED BY <1>1, <2>2, <2>3, <2>4, SettledStep DEF RowMoves, CacheMoves
<1>2. CASE /\ At(r, "step_1_endpoint", "user") /\ UNCHANGED <<row, cache>>
           /\ \E pc : /\ row = Nothing => pc = "done"
                      /\ run' = [run EXCEPT ![r] = [run[r] EXCEPT !.copy = row, !.pc = pc]]
  <2>1. PICK pc : /\ row = Nothing => pc = "done"
                  /\ run' = [run EXCEPT ![r] = [run[r] EXCEPT !.copy = row, !.pc = pc]]
    BY <1>2
  <2>2. Settled
    BY <1>2, BusyIsSettled DEF At
  <2>3. Verified(row) \/ pc = "done"
    BY <2>1, <2>2 DEF Settled, Verified, IInv, RowOK
  <2>4. RunOK([run[r] EXCEPT !.copy = row, !.pc = pc])
    BY <1>2, <2>3, Copies DEF IInv, RunsOK, At
  <2> QED BY <1>2, <2>1, <2>2, <2>4, SettledStep DEF RowMoves, CacheMoves
<1>3. CASE At(r, "step_1_endpoint", "note") /\ Ends(r) /\ UNCHANGED <<row, cache>>
  BY <1>3, EndsBusy DEF At, RowMoves, CacheMoves
<1>4. CASE run[r].op = "step_1_endpoint" /\ Writes(r, [run[r].copy EXCEPT !.backup_code = r], "session")
  <2>1. Verified(run[r].copy)
    BY <1>4, HasCopy DEF Writes
  <2> QED BY <1>4, <2>1, StillVerified, Writing
<1>5. ASSUME At(r, "step_1_endpoint", "user"), UNCHANGED <<row, cache, keys, newest>>, 
        \E type \in {"PASSWORD", "PASSKEY", "TOTP", "BACKUP"} :
          /\ type = "TOTP" => run[r].arg.was.totp
          /\ type = "PASSKEY" => run[r].arg.was.passkey
          /\ run' = [run EXCEPT ![r].copy = row, ![r].pc =
               IF row = Nothing THEN "done"
               ELSE IF type = "BACKUP" THEN "write"
               ELSE IF \/ type = "TOTP" \/ ~run[r].arg.was.step_2
                       \/ type = "PASSKEY" /\ run[r].arg.was.step1_success
               THEN "session" ELSE "note"]
      PROVE Kept
  BY <1>5, <1>2
<1> QED BY <1>1, <1>3, <1>4, <1>5, LogsIn DEF step_1_endpoint

LEMMA Logout == ASSUME IInv, NEW r \in Runs, logout(r) PROVE Kept
<1>1. UNCHANGED <<row, cache, jwt, resets, logins, apikey>> /\ Ends(r)
  BY DEF logout
<1>2. CASE Settled
  BY <1>1, <1>2, EndsBusy DEF RowMoves, CacheMoves
<1>3. CASE Waiting
  <2>1. RunsOK'
    BY <1>1, DoneOK DEF Ends, IInv, RunsOK
  <2>2. Waiting'
    BY <1>1, <1>3 DEF Ends, Idle, Waiting, IInv, RunsOK
  <2> QED BY <1>1, <2>1, <2>2 DEF IInv, RowOK, CacheOK, Kept, RowMoves
<1> QED BY <1>2, <1>3 DEF IInv

LEMMA Deletes ==
  ASSUME IInv, NEW r \in Runs, delete_user_account(r) \/ delete_user_by_id(r) PROVE Kept
<1>1. CASE delete_user_by_id(r)
  BY <1>1, EndsBusy DEF delete_user_by_id, Erases, RowMoves, CacheMoves
<1>2. CASE delete_user_account(r)
  <2>1. run[r].op = "delete_user_account"
    BY <1>2 DEF delete_user_account
  <2>2. CASE Rereads(r, "drop")
    BY <2>1, <2>2, Rereading
  <2>3. CASE Drops(r, "erase")
    BY <2>1, <2>3, Dropping
  <2>4. CASE run[r].pc = "erase" /\ Ends(r) /\ (Erases \/ UNCHANGED <<row, cache, keys, newest>>)
    BY <2>1, <2>4, EndsBusy DEF Erases, RowMoves, CacheMoves
  <2> QED BY <1>2, <2>2, <2>3, <2>4 DEF delete_user_account
<1> QED BY <1>1, <1>2

LEMMA Uses == ASSUME IInv, NEW r \in Runs, check_api_key(r) PROVE Kept
<1>1. CASE /\ keycache = Nothing /\ apikey = "kept"
           /\ Starts(r, "check_api_key", "fill", Nothing, Nothing)
           /\ UNCHANGED <<row, cache, keys, newest>>
  <2>1. Settled
    BY <1>1 DEF IInv, Waiting
  <2>2. RunOK([op |-> "check_api_key", pc |-> "fill", copy |-> Nothing, arg |-> Nothing])
    BY Begun
  <2> QED BY <1>1, <2>1, <2>2, SettledStep DEF Starts, RowMoves, CacheMoves
<1>2. CASE At(r, "check_api_key", "fill") /\ Ends(r) /\ UNCHANGED <<row, cache>>
  BY <1>2, EndsBusy DEF At, RowMoves, CacheMoves
<1> QED BY <1>1, <1>2 DEF check_api_key

\* Steps that leave the row alone, with no run, and take nothing away but
\* keys, tokens and the cached copy.
LEMMA Fades ==
  ASSUME IInv, \/ rememberme_middleware \/ CacheExpires \/ KeyExpires
               \/ \E r \in Runs : ResetExpires(r) \/ LoginExpires(r)
  PROVE  Kept
<1>1. /\ UNCHANGED <<row, run, apikey>>
      /\ cache' = cache \/ cache' = Nothing
      /\ jwt' = jwt \/ jwt' = FALSE
      /\ resets' = resets \/ \E r : resets' = resets \ {r}
      /\ UNCHANGED logins \/ \E r \in Runs : logins' = [logins EXCEPT ![r] = NoLogin]
  BY DEF rememberme_middleware, CacheExpires, KeyExpires, ResetExpires, LoginExpires, keys
<1>2. RowOK' /\ CacheOK' /\ RunsOK'
  BY <1>1 DEF IInv, RowOK, CacheOK, RunsOK
<1>3. Settled => Settled'
  BY <1>1 DEF Settled
<1>4. ASSUME Waiting PROVE Waiting'
  <2>1. ~jwt' /\ resets' = {} /\ apikey' = "none"
    BY <1>1, <1>4 DEF Waiting
  <2>2. logins' = [r \in Runs |-> logins'[r]] /\ \A r \in Runs : ~logins'[r].open
    BY <1>1, <1>4 DEF Waiting, NoLogin
  <2> QED BY <1>1, <1>4, <2>1, <2>2 DEF Waiting
<1> QED BY <1>1, <1>2, <1>3, <1>4 DEF IInv, Kept, RowMoves

LEMMA Handled == ASSUME IInv, NEW r \in Runs, Handler(r) PROVE Kept
BY Authenticates, Caches, Changes, Resets, Verifies, Keys, Avatars, Jobs, Logins, StepOne,
   Logout, Deletes, Uses DEF Handler

(***************************************************************************)
(* The theorems.                                                           *)
(***************************************************************************)
LEMMA Starting == ASSUME Init PROVE IInv
<1>1. RowOK
  BY DEF Init, RowOK, Columns
<1>2. CacheOK
  BY DEF Init, CacheOK
<1>3. RunsOK
  BY DoneOK DEF Init, RunsOK
<1>4. Settled \/ Waiting
  <2>1. PICK verified \in BOOLEAN :
          /\ row = [password |-> "first", backup_code |-> "first", totp_secret |-> FALSE,
                    require_password |-> TRUE, verified |-> verified]
          /\ sessions = IF verified THEN {"first"} ELSE {}
          /\ jwt = verified
    BY DEF Init
  <2>2. CASE verified
    BY <2>1, <2>2 DEF Settled
  <2>3. CASE ~verified
    <3>1. ~jwt /\ resets = {} /\ apikey = "none"
      BY <2>1, <2>3 DEF Init
    <3>2. logins = [r \in Runs |-> logins[r]] /\ \A r \in Runs : ~logins[r].open
      BY DEF Init, NoLogin
    <3>3. \A r \in Runs : run[r].pc = "idle"
      BY DEF Init, Idle
    <3> QED BY <3>1, <3>2, <3>3 DEF Waiting
  <2> QED BY <2>2, <2>3
<1> QED BY <1>1, <1>2, <1>3, <1>4 DEF IInv

LEMMA StepsKeep == ASSUME IInv, [Next]_vars PROVE Kept
<1>1. CASE UNCHANGED vars
  BY <1>1 DEF vars, keys, Kept, RowMoves, IInv, RowOK, CacheOK, RunsOK, Settled, Waiting
<1>2. CASE Next
  BY <1>2, Handled, Fades DEF Next
<1> QED BY <1>1, <1>2

\* Whatever get_current_user hands to a handler, from the cache or from the
\* table, is an account that has been verified, and so is every copy of the row
\* that a handler may write back; before that nobody but verify_user is at work.
THEOREM OnlyVerifiedAct == Spec => []IInv
<1>1. IInv /\ [Next]_vars => IInv'
  BY StepsKeep DEF Kept
<1> QED BY Starting, <1>1, PTL DEF Spec

\* Once verify_user has run, no older copy of the row that change_password, a
\* second-factor setting, a login or the worker writes back undoes it.
THEOREM StaysVerified == Spec => VerifiedStays
<1>1. IInv /\ [Next]_vars => [row # Nothing /\ row' # Nothing /\ row.verified => row'.verified]_vars
  BY StepsKeep DEF Kept, RowMoves, Verified
<1> QED BY OnlyVerifiedAct, <1>1, PTL DEF Spec, VerifiedStays

(***************************************************************************)
(* The type invariant, and the password: a run that may write its copy     *)
(* back, or cache it, holds the password of the row, as long as no request *)
(* has overlapped with one that changes it.                                *)
(***************************************************************************)
HoldsCopy(op, pc) ==
  /\ op # "check_api_key"
  /\ pc \in {"fill", "write"} \/ (pc = "forget" /\ op = "save_avatar")

\* The password is written, the cached copy not cleared yet.
Changed(op, pc) ==
  \/ op = "change_password" /\ pc = "clear"
  \/ op = "reset_password_with_token" /\ pc \in {"drop", "clear"}

Holding(r)  == HoldsCopy(run[r].op, run[r].pc)
Changing(r) == Changed(run[r].op, run[r].pc)

CopiesTyped ==
  /\ row \in Rows \cup {Nothing}
  /\ cache # Nothing => cache.value \in Rows
  /\ \A r \in Runs : run[r].copy \in Rows \cup {Nothing}
  /\ \A r \in Runs : Holding(r) => run[r].copy \in Rows

KeysOK ==
  /\ sessions \subseteq Values /\ resets \subseteq Runs
  /\ jwt \in BOOLEAN /\ fido \in BOOLEAN /\ apikey \in {"none", "kept", "deleted"}
  /\ row = Nothing => sessions = {} /\ apikey # "kept"

Current ==
  row # Nothing =>
    /\ row.password = newest.password
    /\ \A r \in Runs : Holding(r) => run[r].copy.password = row.password
    /\ cache = Nothing \/ cache.value.password = row.password \/ \E r \in Runs : Changing(r)

PInv == CopiesTyped /\ KeysOK /\ (overtaken \/ (~Overlap /\ Current))

(***************************************************************************)
(* What a handler's step does to its run, to the cache and to the row.     *)
(***************************************************************************)
Becomes(r, op, pc, copy) ==
  \E x : /\ run' = [run EXCEPT ![r] = x]
         /\ x.op = op /\ x.pc = pc /\ x.copy = copy

\* The copy is from the row, from the cache, or the one the run had.
Takes(r, op, pc, copy) ==
  /\ copy \in {Nothing, row, run[r].copy} \/ (cache # Nothing /\ copy = cache.value)
  /\ HoldsCopy(op, pc) =>
       \/ row # Nothing /\ copy = row
       \/ Holding(r) /\ copy = run[r].copy
       \/ cache # Nothing /\ copy = cache.value /\ ~Changing(r)
  /\ Changing(r) => Changed(op, pc) \/ cache' = Nothing

CacheStep(r) ==
  \/ cache' = cache \/ cache' = Nothing
  \/ Holding(r) /\ cache' # Nothing /\ cache'.value = run[r].copy

\* The copy goes back with the password it had, or with that of this run.
WriteStep(r, op, pc) ==
  /\ Holding(r) /\ ~HoldsCopy(op, pc) /\ cache' = cache
  /\ \E new \in Rows :
       /\ row' = IF row = Nothing THEN Nothing ELSE new
       /\ newest'.password = IF new.password = r THEN r ELSE newest.password
       /\ new.password = run[r].copy.password \/ (new.password = r /\ Changed(op, pc))

RowStep(r, op, pc) ==
  UNCHANGED <<row, newest>> \/ (row' = Nothing /\ cache' = cache) \/ WriteStep(r, op, pc)

Effect(r) ==
  \E op, pc, copy : /\ Becomes(r, op, pc, copy) /\ Takes(r, op, pc, copy)
                    /\ CacheStep(r) /\ RowStep(r, op, pc)

LEMMA EffectKeeps ==
  ASSUME IInv, CopiesTyped, overtaken \/ (~Overlap /\ Current),
         NEW r \in Runs, Effect(r), overtaken' = (overtaken \/ Overlap')
  PROVE  CopiesTyped' /\ (overtaken \/ (~Overlap /\ Current))'
<1>1. PICK op, pc, copy : /\ Becomes(r, op, pc, copy) /\ Takes(r, op, pc, copy)
                          /\ CacheStep(r) /\ RowStep(r, op, pc)
  BY Zenon DEF Effect
<1>2. PICK x : /\ run' = [run EXCEPT ![r] = x]
               /\ x.op = op /\ x.pc = pc /\ x.copy = copy
  BY <1>1, Zenon DEF Becomes
<1>3. /\ run'[r].op = op /\ run'[r].pc = pc /\ run'[r].copy = copy
      /\ \A s \in Runs : s # r => run'[s] = run[s]
  BY <1>2 DEF IInv, RunsOK
<1>4. \A s \in Runs : s # r => (Holding(s)' <=> Holding(s)) /\ (Changing(s)' <=> Changing(s))
  BY <1>3 DEF Holding, Changing
<1>5. (Holding(r)' <=> HoldsCopy(op, pc)) /\ (Changing(r)' <=> Changed(op, pc))
  BY <1>3 DEF Holding, Changing
<1>6. CopiesTyped'
  <2>1. row' \in Rows \cup {Nothing}
    BY <1>1 DEF RowStep, WriteStep, CopiesTyped
  <2>2. cache' # Nothing => cache'.value \in Rows
    BY <1>1 DEF CacheStep, CopiesTyped
  <2>3. copy \in Rows \cup {Nothing} /\ (HoldsCopy(op, pc) => copy \in Rows)
    BY <1>1 DEF Takes, CopiesTyped
  <2> QED BY <1>3, <1>4, <1>5, <2>1, <2>2, <2>3 DEF CopiesTyped
<1>7. ASSUME ~overtaken' PROVE Current'
  <2>1. ~overtaken /\ Current /\ ~Overlap'
    BY <1>7
  <2>2. ASSUME NEW s \in Runs, NEW t \in Runs, s # t, Changing(s)', Holding(t)' \/ Changing(t)' PROVE FALSE
    BY <2>1, <2>2 DEF Overlap, Active, Holding, HoldsCopy, Changing, Changed
  <2>3. CASE row' = Nothing
    BY <2>3 DEF Current
  <2>4. CASE row' # Nothing /\ UNCHANGED <<row, newest>>
    <3>1. row'.password = newest'.password
      BY <2>1, <2>4 DEF Current
    <3>2. HoldsCopy(op, pc) => copy.password = row'.password
      <4>1. CASE row # Nothing /\ copy = row
        BY <4>1, <2>4
      <4>2. CASE Holding(r) /\ copy = run[r].copy
        BY <4>2, <2>1, <2>4 DEF Current
      <4>3. CASE cache # Nothing /\ copy = cache.value /\ ~Changing(r) /\ HoldsCopy(op, pc)
        <5>1. \A s \in Runs : ~Changing(s)
          BY <4>3, <1>4, <1>5, <2>2
        <5> QED BY <4>3, <5>1, <2>1, <2>4 DEF Current
      <4> QED BY <4>1, <4>2, <4>3, <1>1 DEF Takes
    <3>3. \A s \in Runs : Holding(s)' => run'[s].copy.password = row'.password
      BY <3>2, <1>3, <1>4, <1>5, <2>1, <2>4 DEF Current
    <3>4. cache' = Nothing \/ cache'.value.password = row'.password \/ \E s \in Runs : Changing(s)'
      <4>1. CASE cache' = cache
        BY <4>1, <1>1, <1>4, <1>5, <2>1, <2>4 DEF Current, Takes
      <4>2. CASE Holding(r) /\ cache'.value = run[r].copy
        BY <4>2, <2>1, <2>4 DEF Current
      <4> QED BY <4>1, <4>2, <1>1 DEF CacheStep
    <3> QED BY <3>1, <3>3, <3>4 DEF Current
  <2>5. CASE row' # Nothing /\ WriteStep(r, op, pc)
    <3>1. PICK new \in Rows :
            /\ row' = new /\ row # Nothing
            /\ newest'.password = IF new.password = r THEN r ELSE newest.password
            /\ new.password = run[r].copy.password \/ (new.password = r /\ Changed(op, pc))
      BY <2>5 DEF WriteStep
    <3>2. Holding(r) /\ ~HoldsCopy(op, pc) /\ cache' = cache
      BY <2>5 DEF WriteStep
    <3>3. CASE new.password = r /\ Changed(op, pc)
      <4>1. \A s \in Runs : ~Holding(s)'
        BY <3>2, <3>3, <1>5, <2>2
      <4>2. row'.password = newest'.password
        BY <3>1, <3>3
      <4> QED BY <3>3, <4>1, <4>2, <1>5 DEF Current
    <3>4. CASE new.password = run[r].copy.password
      <4>1. run[r].copy.password = row.password /\ row.password = newest.password
        BY <2>1, <3>1, <3>2 DEF Current
      <4>2. row'.password = row.password /\ row'.password = newest'.password
        BY <3>1, <3>4, <4>1
      <4>3. \A s \in Runs : Holding(s)' => run'[s].copy.password = row'.password
        BY <3>1, <3>2, <4>2, <1>3, <1>4, <1>5, <2>1 DEF Current
      <4>4. ~Changing(r)
        BY <3>2 DEF Holding, HoldsCopy, Changing, Changed
      <4>5. cache' = Nothing \/ cache'.value.password = row'.password \/ \E s \in Runs : Changing(s)'
        BY <3>1, <3>2, <4>2, <4>4, <1>4, <2>1 DEF Current
      <4> QED BY <4>2, <4>3, <4>5 DEF Current
    <3> QED BY <3>1, <3>3, <3>4
  <2> QED BY <1>1, <2>3, <2>4, <2>5 DEF RowStep
<1> QED BY <1>6, <1>7

(***************************************************************************)
(* The effect of each handler.                                             *)
(***************************************************************************)
LEMMA GoesEffect ==
  ASSUME IInv, NEW r \in Runs, NEW pc, Goes(r, pc)
  PROVE  Becomes(r, run[r].op, pc, run[r].copy)
<1> DEFINE x == [run[r] EXCEPT !.pc = pc]
<1>1. run' = [run EXCEPT ![r] = x] /\ x.op = run[r].op /\ x.pc = pc /\ x.copy = run[r].copy
  BY DEF Goes, IInv, RunsOK, RunOK, RunFields
<1> HIDE DEF x
<1> QED BY <1>1 DEF Becomes

LEMMA EndsEffect ==
  ASSUME NEW r \in Runs, Ends(r)
  PROVE  Becomes(r, "none", "done", Nothing)
<1> DEFINE x == [Idle EXCEPT !.pc = "done"]
<1>1. run' = [run EXCEPT ![r] = x] /\ x.op = "none" /\ x.pc = "done" /\ x.copy = Nothing
  BY DEF Ends, Idle
<1> HIDE DEF x
<1> QED BY <1>1 DEF Becomes

LEMMA StartsEffect ==
  ASSUME NEW r \in Runs, NEW op, NEW pc, NEW copy, NEW arg, Starts(r, op, pc, copy, arg)
  PROVE  Becomes(r, op, pc, copy) /\ run[r].pc = "idle"
<1> DEFINE x == [op |-> op, pc |-> pc, copy |-> copy, arg |-> arg]
<1>1. run' = [run EXCEPT ![r] = x] /\ x.op = op /\ x.pc = pc /\ x.copy = copy
  BY DEF Starts
<1> HIDE DEF x
<1> QED BY <1>1 DEF Becomes, Starts

LEMMA CopiesEffect ==
  ASSUME IInv, NEW r \in Runs, NEW pc,
         \/ run' = [run EXCEPT ![r].pc = pc, ![r].copy = row]
         \/ run' = [run EXCEPT ![r].copy = row, ![r].pc = pc]
  PROVE  Becomes(r, run[r].op, pc, row)
<1> DEFINE x == [run[r] EXCEPT !.pc = pc, !.copy = row]
<1>1. run' = [run EXCEPT ![r] = x]
  BY DEF IInv, RunsOK, RunOK, RunFields
<1>2. x.op = run[r].op /\ x.pc = pc /\ x.copy = row
  BY DEF IInv, RunsOK, RunOK, RunFields
<1> HIDE DEF x
<1> QED BY <1>1, <1>2 DEF Becomes

\* A run that ends, and one that goes on to where it does not use its copy.
LEMMA EndedOrMoved ==
  ASSUME IInv, NEW r \in Runs, NEW pc, Ends(r) \/ Goes(r, pc), ~HoldsCopy(run[r].op, pc), UNCHANGED <<row, newest>>,
         cache' = cache \/ cache' = Nothing,
         Changing(r) => cache' = Nothing \/ (Goes(r, pc) /\ Changed(run[r].op, pc))
  PROVE  Effect(r)
<1>1. CASE Ends(r) /\ (Changing(r) => cache' = Nothing)
  <2>1. Takes(r, "none", "done", Nothing) /\ CacheStep(r) /\ RowStep(r, "none", "done")
    BY <1>1 DEF Takes, HoldsCopy, CacheStep, RowStep
  <2> QED BY <1>1, <2>1, EndsEffect DEF Effect
<1>2. CASE Goes(r, pc)
  <2>1. Takes(r, run[r].op, pc, run[r].copy) /\ CacheStep(r) /\ RowStep(r, run[r].op, pc)
    BY DEF Takes, CacheStep, RowStep
  <2> QED BY <1>2, <2>1, GoesEffect DEF Effect
<1> QED BY <1>1, <1>2

LEMMA RereadsEffect ==
  ASSUME IInv, NEW r \in Runs, NEW next, Rereads(r, next) PROVE Effect(r)
<1>1. run[r].pc = "reread" /\ UNCHANGED <<row, cache, newest>> /\ ~Changing(r)
  BY DEF Rereads, Changing, Changed
<1>2. CASE row = Nothing
  <2>1. Ends(r)
    BY <1>2 DEF Rereads
  <2> QED BY <1>1, <2>1, EndedOrMoved DEF HoldsCopy
<1>3. CASE row # Nothing
  <2>1. Becomes(r, run[r].op, next, row)
    BY <1>3, CopiesEffect DEF Rereads
  <2>2. Takes(r, run[r].op, next, row) /\ CacheStep(r) /\ RowStep(r, run[r].op, next)
    BY <1>1, <1>3 DEF Takes, CacheStep, RowStep
  <2> QED BY <2>1, <2>2 DEF Effect
<1> QED BY <1>2, <1>3

\* Of what is written the password is the copy's, or the one of this run.
LEMMA WritesEffect ==
  ASSUME IInv, NEW r \in Runs, NEW new \in Rows, NEW next \in {"done", "clear", "drop", "session"},
         Writes(r, new, next), run[r].op # "check_api_key",
         \/ new.password = run[r].copy.password
         \/ new.password = r /\ next # "done" /\ Changed(run[r].op, next)
  PROVE  Effect(r)
<1>1. /\ run[r].pc = "write" /\ cache' = cache
      /\ row' = IF row = Nothing THEN Nothing ELSE new
      /\ newest'.password = IF new.password = r THEN r ELSE newest.password
      /\ IF next = "done" THEN Ends(r) ELSE Goes(r, next)
  BY DEF Writes, Updates
<1>2. Holding(r) /\ ~Changing(r) /\ CacheStep(r) /\ ~HoldsCopy("none", "done")
  BY <1>1 DEF Holding, HoldsCopy, Changing, Changed, CacheStep
<1>3. ~HoldsCopy(run[r].op, next)
  BY DEF HoldsCopy
<1>4. CASE next = "done"
  <2>1. Becomes(r, "none", "done", Nothing)
    BY <1>1, <1>4, EndsEffect
  <2>2. Takes(r, "none", "done", Nothing)
    BY <1>2 DEF Takes
  <2>3. WriteStep(r, "none", "done")
    BY <1>1, <1>2, <1>4 DEF WriteStep
  <2> QED BY <1>2, <2>1, <2>2, <2>3 DEF Effect, RowStep
<1>5. CASE next # "done"
  <2>1. Becomes(r, run[r].op, next, run[r].copy)
    BY <1>1, <1>5, GoesEffect
  <2>2. Takes(r, run[r].op, next, run[r].copy)
    BY <1>2, <1>3 DEF Takes
  <2>3. WriteStep(r, run[r].op, next)
    BY <1>1, <1>2, <1>3 DEF WriteStep
  <2> QED BY <1>2, <2>1, <2>2, <2>3 DEF Effect, RowStep
<1> QED BY <1>4, <1>5

LEMMA DropsEffect ==
  ASSUME IInv, NEW r \in Runs, NEW next \in {"done", "clear", "erase"}, Drops(r, next),
         run[r].op = "reset_password_with_token" => next = "clear"
  PROVE  Effect(r)
<1>1. run[r].pc = "drop" /\ UNCHANGED <<row, cache, newest>> /\ IF next = "done" THEN Ends(r) ELSE Goes(r, next)
  BY DEF Drops
<1>2. Changing(r) => Goes(r, next) /\ Changed(run[r].op, next)
  BY <1>1 DEF Changing, Changed
<1> QED BY <1>1, <1>2, EndedOrMoved DEF HoldsCopy

LEMMA ClearsEffect ==
  ASSUME IInv, NEW r \in Runs, NEW next \in {"done", "drop"}, clear_cache_for_account(r, next) PROVE Effect(r)
<1>1. UNCHANGED <<row, newest>> /\ cache' = Nothing /\ (Ends(r) \/ Goes(r, next))
  BY DEF clear_cache_for_account, Cleared
<1> QED BY <1>1, EndedOrMoved DEF HoldsCopy

LEMMA Rewritten ==
  ASSUME NEW x \in Rows, NEW v \in Values, NEW b \in BOOLEAN
  PROVE  /\ [x EXCEPT !.password = v] \in Rows /\ [x EXCEPT !.password = v].password = v
         /\ [x EXCEPT !.backup_code = v] \in Rows /\ [x EXCEPT !.backup_code = v].password = x.password
         /\ [x EXCEPT !.require_password = b] \in Rows /\ [x EXCEPT !.require_password = b].password = x.password
         /\ [x EXCEPT !.totp_secret = b] \in Rows /\ [x EXCEPT !.totp_secret = b].password = x.password
         /\ [x EXCEPT !.verified = b] \in Rows /\ [x EXCEPT !.verified = b].password = x.password
BY DEF Rows

LEMMA CopyToWrite ==
  ASSUME CopiesTyped, NEW r \in Runs, run[r].pc = "write", run[r].op # "check_api_key"
  PROVE  run[r].copy \in Rows
BY DEF CopiesTyped, Holding, HoldsCopy

LEMMA SettingsEffect ==
  ASSUME IInv, CopiesTyped, NEW r \in Runs,
         \/ signout_everywhere(r) \/ get_backup_code(r) \/ set_require_password(r)
         \/ set_totp_up(r) \/ disable_totp(r)
  PROVE  Effect(r)
<1> DEFINE c == run[r].copy
<1>1. run[r].op \notin {"check_api_key", "reset_password_with_token"}
  BY DEF signout_everywhere, get_backup_code, set_require_password, set_totp_up, disable_totp
<1>2. CASE \/ Rereads(r, "write") \/ Drops(r, "clear") \/ clear_cache_for_account(r, "done")
  BY <1>1, <1>2, RereadsEffect, DropsEffect, ClearsEffect
<1>3. ASSUME NEW v \in Values, NEW b \in BOOLEAN,
             \/ Writes(r, [c EXCEPT !.backup_code = v], "done")
             \/ Writes(r, [c EXCEPT !.require_password = b], "done")
             \/ Writes(r, [c EXCEPT !.totp_secret = b], "done")
      PROVE  Effect(r)
  <2>1. c \in Rows
    BY <1>1, <1>3, CopyToWrite DEF Writes
  <2> HIDE DEF c
  <2>2. ASSUME NEW new \in Rows, new.password = c.password, Writes(r, new, "done") PROVE Effect(r)
    BY <1>1, <2>2, WritesEffect DEF c
  <2> QED BY <1>3, <2>1, <2>2, Rewritten
<1>4. r \in Values
  BY DEF Values
<1> QED BY <1>2, <1>3, <1>4 DEF signout_everywhere, get_backup_code, set_require_password, set_totp_up, disable_totp

LEMMA PasswordEffect ==
  ASSUME IInv, CopiesTyped, NEW r \in Runs, change_password(r) \/ reset_password_with_token(r)
  PROVE  Effect(r)
<1>1. CASE resets # {} /\ Starts(r, "reset_password_with_token", "reread", Nothing, Nothing)
           /\ UNCHANGED <<row, cache, keys, newest>>
  <2>1. Becomes(r, "reset_password_with_token", "reread", Nothing) /\ ~Changing(r)
    BY <1>1, StartsEffect DEF Changing, Changed
  <2>2. Takes(r, "reset_password_with_token", "reread", Nothing)
    BY <2>1 DEF Takes, HoldsCopy
  <2> QED BY <1>1, <2>1, <2>2 DEF Effect, CacheStep, RowStep
<1>2. ASSUME NEW next \in {"clear", "drop"}, Writes(r, [run[r].copy EXCEPT !.password = r], next),
             run[r].op # "check_api_key", Changed(run[r].op, next)
      PROVE  Effect(r)
  <2> DEFINE new == [run[r].copy EXCEPT !.password = r]
  <2>1. new \in Rows /\ new.password = r
    <3>1. run[r].copy \in Rows
      BY <1>2, CopyToWrite DEF Writes
    <3> QED BY <3>1, Rewritten DEF Values
  <2> HIDE DEF new
  <2>2. Writes(r, new, next)
    BY <1>2 DEF new
  <2> QED BY <1>2, <2>1, <2>2, WritesEffect
<1>3. CASE change_password(r)
  <2>1. run[r].op = "change_password"
    BY <1>3 DEF change_password
  <2>2. CASE Writes(r, [run[r].copy EXCEPT !.password = r], "clear")
    BY <2>1, <2>2, <1>2 DEF Changed
  <2>3. CASE clear_cache_for_account(r, "drop")
    BY <2>3, ClearsEffect
  <2>4. CASE Drops(r, "done")
    BY <2>1, <2>4, DropsEffect
  <2> QED BY <1>3, <2>2, <2>3, <2>4 DEF change_password
<1>4. CASE run[r].op = "reset_password_with_token" /\ Rereads(r, "write")
  BY <1>4, RereadsEffect
<1>5. CASE run[r].op = "reset_password_with_token" /\ Writes(r, [run[r].copy EXCEPT !.password = r], "drop")
  BY <1>5, <1>2 DEF Changed
<1>6. CASE run[r].op = "reset_password_with_token" /\ Drops(r, "clear")
  BY <1>6, DropsEffect
<1>7. CASE run[r].op = "reset_password_with_token" /\ clear_cache_for_account(r, "done")
  BY <1>7, ClearsEffect
<1> QED BY <1>1, <1>3, <1>4, <1>5, <1>6, <1>7 DEF reset_password_with_token

LEMMA CacheEffect ==
  ASSUME IInv, NEW r \in Runs, get_current_user(r) \/ cache_account(r) PROVE Effect(r)
<1>1. CASE get_current_user(r)
  <2>1. PICK op \in DOMAIN First :
          Starts(r, op, IF cache = Nothing THEN "miss" ELSE First[op],
                        IF cache = Nothing THEN Nothing ELSE cache.value, Nothing)
    BY <1>1 DEF get_current_user
  <2> DEFINE pc == IF cache = Nothing THEN "miss" ELSE First[op]
             copy == IF cache = Nothing THEN Nothing ELSE cache.value
  <2>2. UNCHANGED <<row, cache, newest>>
    BY <1>1 DEF get_current_user
  <2>3. Becomes(r, op, pc, copy) /\ run[r].pc = "idle"
    BY <2>1, StartsEffect
  <2>4. Takes(r, op, pc, copy)
    BY <2>3 DEF Takes, HoldsCopy, Changing, Changed
  <2> HIDE DEF pc, copy
  <2> QED BY <2>2, <2>3, <2>4 DEF Effect, CacheStep, RowStep
<1>2. CASE cache_account(r) /\ run[r].pc = "miss"
  <2>1. UNCHANGED <<row, cache, newest>> /\ ~Changing(r)
    BY <1>2 DEF cache_account, Changing, Changed
  <2>2. CASE row # Nothing /\ row.verified
    <3>1. Becomes(r, run[r].op, "fill", row)
      BY <1>2, <2>2, CopiesEffect DEF cache_account
    <3>2. Takes(r, run[r].op, "fill", row) /\ CacheStep(r) /\ RowStep(r, run[r].op, "fill")
      BY <2>1, <2>2 DEF Takes, CacheStep, RowStep
    <3> QED BY <3>1, <3>2 DEF Effect
  <2>3. CASE ~(row # Nothing /\ row.verified)
    <3>1. Ends(r)
      BY <1>2, <2>3 DEF cache_account
    <3> QED BY <2>1, <3>1, EndedOrMoved DEF HoldsCopy
  <2> QED BY <2>2, <2>3
<1>3. CASE cache_account(r) /\ run[r].pc = "fill"
  <2>1. /\ cache' = Entry(run[r].copy, CacheLife) /\ Goes(r, First[run[r].op])
        /\ UNCHANGED <<row, newest>> /\ run[r].op \in DOMAIN First
    BY <1>3 DEF cache_account
  <2>2. Holding(r) /\ ~Changing(r)
    BY <1>3, <2>1 DEF Holding, HoldsCopy, Changing, Changed, First
  <2>3. cache'.value = run[r].copy
    BY <2>1 DEF Entry
  <2>4. CacheStep(r)
    BY <2>2, <2>3 DEF CacheStep
  <2> DEFINE pc == First[run[r].op]
  <2>5. Becomes(r, run[r].op, pc, run[r].copy)
    BY <2>1, GoesEffect
  <2> HIDE DEF pc
  <2>6. Takes(r, run[r].op, pc, run[r].copy) /\ RowStep(r, run[r].op, pc)
    BY <2>1, <2>2 DEF Takes, RowStep
  <2> QED BY <2>4, <2>5, <2>6 DEF Effect
<1> QED BY <1>1, <1>2, <1>3 DEF cache_account

LEMMA CopyEffect ==
  ASSUME IInv, CopiesTyped, NEW r \in Runs, verify_user(r) \/ save_avatar(r) \/ calculate_hash(r)
  PROVE  Effect(r)
<1>1. CASE row # Nothing /\ Starts(r, "verify_user", "write", row, Nothing) /\ UNCHANGED <<row, cache, keys, newest>>
  <2>1. Becomes(r, "verify_user", "write", row) /\ ~Changing(r)
    BY <1>1, StartsEffect DEF Changing, Changed
  <2>2. Takes(r, "verify_user", "write", row)
    BY <1>1, <2>1 DEF Takes
  <2> QED BY <1>1, <2>1, <2>2 DEF Effect, CacheStep, RowStep
<1>2. CASE run[r].op \in {"verify_user", "save_avatar", "upload_file"}
           /\ (Writes(r, run[r].copy, "done") \/ Writes(r, [run[r].copy EXCEPT !.verified = TRUE], "done"))
  <2>1. run[r].copy \in Rows
    BY <1>2, CopyToWrite DEF Writes
  <2>2. ASSUME NEW new \in Rows, new.password = run[r].copy.password, Writes(r, new, "done") PROVE Effect(r)
    BY <1>2, <2>2, WritesEffect
  <2>3. CASE Writes(r, run[r].copy, "done")
    BY <2>1, <2>2, <2>3
  <2>4. CASE Writes(r, [run[r].copy EXCEPT !.verified = TRUE], "done")
    <3> DEFINE new == [run[r].copy EXCEPT !.verified = TRUE]
    <3>1. new \in Rows /\ new.password = run[r].copy.password
      BY <2>1 DEF Rows
    <3>2. Writes(r, new, "done")
      BY <2>4
    <3> HIDE DEF new
    <3> QED BY <2>2, <3>1, <3>2
  <2> QED BY <1>2, <2>3, <2>4
<1>3. CASE run[r].op = "save_avatar" /\ run[r].pc = "forget" /\ cache' = Nothing /\ Goes(r, "write")
           /\ UNCHANGED <<row, newest>>
  <2>1. Holding(r)
    BY <1>3 DEF Holding, HoldsCopy
  <2>2. Takes(r, run[r].op, "write", run[r].copy) /\ CacheStep(r) /\ RowStep(r, run[r].op, "write")
    BY <1>3, <2>1 DEF Takes, CacheStep, RowStep
  <2> QED BY <1>3, <2>2, GoesEffect DEF Effect
<1>4. CASE run[r].op = "upload_file" /\ run[r].pc = "queued" /\ UNCHANGED <<row, cache, newest>>
           /\ IF row = Nothing THEN Ends(r) ELSE run' = [run EXCEPT ![r].pc = "write", ![r].copy = row]
  <2>1. ~Changing(r)
    BY <1>4 DEF Changing, Changed
  <2>2. CASE row = Nothing
    BY <1>4, <2>1, <2>2, EndedOrMoved DEF HoldsCopy
  <2>3. CASE row # Nothing
    <3>1. Becomes(r, run[r].op, "write", row)
      BY <1>4, <2>3, CopiesEffect
    <3>2. Takes(r, run[r].op, "write", row) /\ CacheStep(r) /\ RowStep(r, run[r].op, "write")
      BY <1>4, <2>1, <2>3 DEF Takes, CacheStep, RowStep
    <3> QED BY <3>1, <3>2 DEF Effect
  <2> QED BY <2>2, <2>3
<1> QED BY <1>1, <1>2, <1>3, <1>4 DEF verify_user, save_avatar, calculate_hash

LEMMA StepOneEffect ==
  ASSUME IInv, CopiesTyped, NEW r \in Runs, step_1_endpoint(r) PROVE Effect(r)
<1>1. ASSUME NEW l \in Runs, Starts(r, "step_1_endpoint", "user", Nothing, [id |-> l, was |-> logins[l]]),
             UNCHANGED <<row, cache, keys, newest>>
      PROVE  Effect(r)
  <2>1. Becomes(r, "step_1_endpoint", "user", Nothing) /\ ~Changing(r)
    BY <1>1, StartsEffect DEF Changing, Changed
  <2>2. Takes(r, "step_1_endpoint", "user", Nothing)
    BY <2>1 DEF Takes, HoldsCopy
  <2> QED BY <1>1, <2>1, <2>2 DEF Effect, CacheStep, RowStep
<1>2. ASSUME At(r, "step_1_endpoint", "user"), UNCHANGED <<row, cache, keys, newest>>,
             NEW pc, row = Nothing => pc = "done", run' = [run EXCEPT ![r].copy = row, ![r].pc = pc]
      PROVE  Effect(r)
  <2>1. Becomes(r, run[r].op, pc, row)
    BY <1>2, CopiesEffect
  <2>2. Takes(r, run[r].op, pc, row)
    BY <1>2 DEF Takes, HoldsCopy, Changing, Changed, At
  <2> QED BY <1>2, <2>1, <2>2 DEF Effect, CacheStep, RowStep
<1>3. ASSUME At(r, "step_1_endpoint", "user"), UNCHANGED <<row, cache, keys, newest>>,
             \E type \in {"PASSWORD", "PASSKEY", "TOTP", "BACKUP"} :
               /\ type = "TOTP" => run[r].arg.was.totp
               /\ type = "PASSKEY" => run[r].arg.was.passkey
               /\ run' = [run EXCEPT ![r].copy = row, ![r].pc =
                    IF row = Nothing THEN "done"
                    ELSE IF type = "BACKUP" THEN "write"
                    ELSE IF \/ type = "TOTP" \/ ~run[r].arg.was.step_2
                            \/ type = "PASSKEY" /\ run[r].arg.was.step1_success
                    THEN "session" ELSE "note"]
      PROVE  Effect(r)
  BY <1>2, <1>3
<1>4. ASSUME At(r, "step_1_endpoint", "note"), Ends(r), UNCHANGED <<row, cache, newest>> PROVE Effect(r)
  BY <1>4, EndedOrMoved DEF HoldsCopy, At, Changing, Changed
<1>5. ASSUME run[r].op = "step_1_endpoint", Writes(r, [run[r].copy EXCEPT !.backup_code = r], "session")
      PROVE  Effect(r)
  <2> DEFINE new == [run[r].copy EXCEPT !.backup_code = r]
  <2>1. run[r].copy \in Rows
    BY <1>5, CopyToWrite DEF Writes
  <2>2. new \in Rows /\ new.password = run[r].copy.password
    BY <2>1 DEF Rows, Values
  <2>3. Writes(r, new, "session")
    BY <1>5
  <2> HIDE DEF new
  <2> QED BY <1>5, <2>2, <2>3, WritesEffect
<1>6. ASSUME log_user_in(r) PROVE Effect(r)
  BY <1>6, EndedOrMoved DEF log_user_in, HoldsCopy, Changing, Changed
<1> QED BY <1>1, <1>3, <1>4, <1>5, <1>6 DEF step_1_endpoint

\* Requests of one step, and those that take a row or a key away.
LEMMA OtherEffect ==
  ASSUME IInv, NEW r \in Runs,
         \/ forgotten_password(r) \/ start_login(r) \/ logout(r)
         \/ confirm_add_key_data(r) \/ delete_security_key(r) \/ delete_session(r)
         \/ generate_api_key(r) \/ delete_api_key(r)
         \/ delete_user_account(r) \/ delete_user_by_id(r) \/ check_api_key(r)
  PROVE  Effect(r)
<1>1. CASE \/ forgotten_password(r) \/ start_login(r) \/ logout(r)
  <2>1. Ends(r) /\ UNCHANGED <<row, cache, newest>> /\ run[r].pc = "idle"
    BY <1>1 DEF forgotten_password, start_login, logout
  <2> QED BY <2>1, EndedOrMoved DEF HoldsCopy, Changing, Changed
<1>2. CASE confirm_add_key_data(r) /\ Rereads(r, "add")
  BY <1>2, RereadsEffect
<1>3. CASE \/ confirm_add_key_data(r) /\ ~Rereads(r, "add")
           \/ delete_security_key(r) \/ delete_session(r) \/ generate_api_key(r) \/ delete_api_key(r)
  <2>1. PICK pc \in {"forget", "delete"} : Ends(r) \/ (Goes(r, pc) /\ run[r].op = "delete_api_key")
    BY <1>3 DEF confirm_add_key_data, delete_security_key, delete_session, generate_api_key, delete_api_key
  <2>2. UNCHANGED <<row, cache, newest>> /\ run[r].pc \in {"add", "row", "forget", "delete"}
    BY <1>3 DEF confirm_add_key_data, delete_security_key, delete_session, generate_api_key, delete_api_key, At
  <2>3. ~Changing(r)
    BY <2>2 DEF Changing, Changed
  <2>4. CASE Ends(r)
    BY <2>2, <2>3, <2>4, EndedOrMoved DEF HoldsCopy
  <2> QED BY <2>1, <2>2, <2>3, <2>4, EndedOrMoved DEF HoldsCopy
<1>4. CASE Erases /\ Ends(r) /\ run[r].pc \in {"idle", "erase"}
  <2>1. row' = Nothing /\ cache' = cache /\ ~Changing(r)
    BY <1>4 DEF Erases, Changing, Changed
  <2>2. Takes(r, "none", "done", Nothing) /\ CacheStep(r) /\ RowStep(r, "none", "done")
    BY <2>1 DEF Takes, HoldsCopy, CacheStep, RowStep
  <2> QED BY <1>4, <2>2, EndsEffect DEF Effect
<1>5. CASE delete_user_account(r)
  <2>1. CASE run[r].op = "delete_user_account" /\ (Rereads(r, "drop") \/ Drops(r, "erase"))
    BY <2>1, RereadsEffect, DropsEffect
  <2>2. CASE run[r].pc = "erase" /\ Ends(r) /\ UNCHANGED <<row, cache, keys, newest>>
    BY <2>2, EndedOrMoved DEF HoldsCopy, Changing, Changed
  <2> QED BY <1>4, <1>5, <2>1, <2>2 DEF delete_user_account
<1>6. CASE delete_user_by_id(r)
  BY <1>4, <1>6 DEF delete_user_by_id
<1>7. CASE check_api_key(r)
  <2>1. CASE Starts(r, "check_api_key", "fill", Nothing, Nothing) /\ UNCHANGED <<row, cache, newest>>
    <3>1. Becomes(r, "check_api_key", "fill", Nothing) /\ ~Changing(r)
      BY <2>1, StartsEffect DEF Changing, Changed
    <3>2. Takes(r, "check_api_key", "fill", Nothing)
      BY <3>1 DEF Takes, HoldsCopy
    <3> QED BY <2>1, <3>1, <3>2 DEF Effect, CacheStep, RowStep
  <2>2. CASE At(r, "check_api_key", "fill") /\ Ends(r) /\ UNCHANGED <<row, cache, newest>>
    BY <2>2, EndedOrMoved DEF HoldsCopy, At, Changing, Changed
  <2> QED BY <1>7, <2>1, <2>2 DEF check_api_key
<1> QED BY <1>1, <1>2, <1>3, <1>5, <1>6, <1>7

LEMMA HandlerEffect == ASSUME IInv, CopiesTyped, NEW r \in Runs, Handler(r) PROVE Effect(r)
BY CacheEffect, PasswordEffect, SettingsEffect, CopyEffect, StepOneEffect, OtherEffect DEF Handler

(***************************************************************************)
(* Sessions, tokens and keys have their types, and go with the row.        *)
(***************************************************************************)
\* Steps that do nothing to them, and leave a row there if there was one.
LEMMA KeysLeft ==
  ASSUME KeysOK, UNCHANGED <<sessions, fido, jwt, resets, apikey>>, row' = row \/ (row # Nothing /\ row' # Nothing)
  PROVE  KeysOK'
BY DEF KeysOK

LEMMA WritesKeys ==
  ASSUME KeysOK, NEW r \in Runs, NEW new \in Rows, NEW next, Writes(r, new, next)
  PROVE  KeysOK'
<1>1. row' = row \/ (row # Nothing /\ row' = new)
  BY DEF Writes, Updates
<1> QED BY <1>1, KeysLeft, AccountsAssumption DEF Writes, keys

LEMMA FewerSessions ==
  ASSUME KeysOK, UNCHANGED <<row, fido, jwt, resets, apikey>>, sessions' \subseteq sessions
  PROVE  KeysOK'
BY DEF KeysOK

LEMMA HandlerKeys ==
  ASSUME IInv, CopiesTyped, KeysOK, NEW r \in Runs, Handler(r) PROVE KeysOK'
<1>0. ASSUME NEW next, Rereads(r, next) \/ clear_cache_for_account(r, next) PROVE KeysOK'
  BY <1>0, KeysLeft DEF Rereads, clear_cache_for_account, keys
<1>1. ASSUME NEW next, Drops(r, next) PROVE KeysOK'
  BY <1>1, FewerSessions DEF Drops
<1>2. ASSUME NEW v \in Values, NEW b \in BOOLEAN, NEW next, run[r].op # "check_api_key",
             \/ Writes(r, run[r].copy, next)
             \/ Writes(r, [run[r].copy EXCEPT !.password = v], next)
             \/ Writes(r, [run[r].copy EXCEPT !.backup_code = v], next)
             \/ Writes(r, [run[r].copy EXCEPT !.require_password = b], next)
             \/ Writes(r, [run[r].copy EXCEPT !.totp_secret = b], next)
             \/ Writes(r, [run[r].copy EXCEPT !.verified = b], next)
      PROVE  KeysOK'
  <2> DEFINE c == run[r].copy
  <2>1. c \in Rows
    BY <1>2, CopyToWrite DEF Writes
  <2>2. ASSUME NEW new \in Rows, Writes(r, new, next) PROVE KeysOK'
    BY <2>2, WritesKeys
  <2> HIDE DEF c
  <2>3. \/ Writes(r, c, next) \/ Writes(r, [c EXCEPT !.password = v], next)
        \/ Writes(r, [c EXCEPT !.backup_code = v], next) \/ Writes(r, [c EXCEPT !.require_password = b], next)
        \/ Writes(r, [c EXCEPT !.totp_secret = b], next) \/ Writes(r, [c EXCEPT !.verified = b], next)
    BY <1>2 DEF c
  <2> QED BY <2>1, <2>2, <2>3, Rewritten
<1>3. r \in Values
  BY DEF Values
<1>4. CASE get_current_user(r) \/ cache_account(r)
  BY <1>4, KeysLeft DEF get_current_user, cache_account, keys
<1>5. CASE change_password(r) \/ signout_everywhere(r) \/ get_backup_code(r) \/ set_require_password(r)
           \/ set_totp_up(r) \/ disable_totp(r)
  <2>1. run[r].op # "check_api_key"
    BY <1>5 DEF change_password, signout_everywhere, get_backup_code, set_require_password, set_totp_up, disable_totp
  <2> QED BY <1>0, <1>1, <1>2, <1>3, <1>5, <2>1 DEF change_password, signout_everywhere, get_backup_code,
                                             set_require_password, set_totp_up, disable_totp
<1>6. CASE reset_password_with_token(r)
  <2>1. CASE Starts(r, "reset_password_with_token", "reread", Nothing, Nothing) /\ UNCHANGED <<row, cache, keys, newest>>
    BY <2>1, KeysLeft DEF keys
  <2> QED BY <1>0, <1>1, <1>2, <1>3, <1>6, <2>1 DEF reset_password_with_token
<1>7. CASE verify_user(r) \/ save_avatar(r) \/ calculate_hash(r)
  <2>1. CASE UNCHANGED <<row, keys>>
    BY <2>1, KeysLeft DEF keys
  <2> QED BY <1>2, <1>3, <1>7, <2>1 DEF verify_user, save_avatar, calculate_hash
<1>8. CASE forgotten_password(r) \/ start_login(r) \/ logout(r) \/ delete_session(r)
  BY <1>8 DEF forgotten_password, start_login, logout, delete_session, KeysOK
<1>9. CASE log_user_in(r)
  BY <1>9 DEF log_user_in, KeysOK, Values
<1>10. CASE step_1_endpoint(r)
  <2>1. CASE UNCHANGED <<row, cache, keys, newest>>
    BY <2>1, KeysLeft DEF keys
  <2>2. CASE UNCHANGED <<row, cache, sessions, fido, jwt, resets, apikey, keycache, newest>>
    BY <2>2, KeysLeft
  <2>3. CASE run[r].op = "step_1_endpoint" /\ Writes(r, [run[r].copy EXCEPT !.backup_code = r], "session")
    BY <1>2, <1>3, <2>3
  <2> QED BY <1>9, <1>10, <2>1, <2>2, <2>3 DEF step_1_endpoint
<1>11. CASE Erases
  BY <1>11 DEF Erases, Left, KeysOK
<1>12. CASE delete_user_account(r) \/ delete_user_by_id(r)
  <2>1. CASE UNCHANGED <<row, cache, keys, newest>>
    BY <2>1, KeysLeft DEF keys
  <2> QED BY <1>0, <1>1, <1>11, <1>12, <2>1 DEF delete_user_account, delete_user_by_id
<1>13. CASE \/ delete_security_key(r) \/ generate_api_key(r) \/ delete_api_key(r) \/ check_api_key(r)
  BY <1>13 DEF delete_security_key, generate_api_key, delete_api_key, check_api_key, KeysOK, keys
<1>14. CASE confirm_add_key_data(r)
  <2>1. CASE Rereads(r, "add")
    BY <1>0, <2>1
  <2>2. CASE ~Rereads(r, "add")
    BY <1>14, <2>2 DEF confirm_add_key_data, KeysOK
  <2> QED BY <2>1, <2>2
<1> QED BY <1>4, <1>5, <1>6, <1>7, <1>8, <1>10, <1>12, <1>13, <1>14 DEF Handler

LEMMA PInvStarts == ASSUME Init PROVE PInv
<1>1. PICK b \in BOOLEAN :
        /\ row = [password |-> "first", backup_code |-> "first", totp_secret |-> FALSE,
                  require_password |-> TRUE, verified |-> b]
        /\ sessions = IF b THEN {"first"} ELSE {}
        /\ jwt = b
  BY DEF Init
<1>2. row \in Rows /\ row.password = "first" /\ newest.password = "first"
  BY <1>1 DEF Rows, Values, Init
<1>3. \A r \in Runs : run[r].op = "none" /\ run[r].pc = "idle" /\ run[r].copy = Nothing
  BY DEF Init, Idle
<1>4. cache = Nothing /\ fido = FALSE /\ resets = {} /\ apikey = "none"
  BY DEF Init
<1>5. CopiesTyped
  BY <1>2, <1>3, <1>4 DEF CopiesTyped, Holding, HoldsCopy
<1>6. KeysOK
  BY <1>1, <1>2, <1>4, AccountsAssumption DEF KeysOK, Values
<1>7. ~Overlap
  BY <1>3 DEF Overlap, Active
<1>8. Current
  BY <1>2, <1>3, <1>4 DEF Current, Holding, HoldsCopy
<1> QED BY <1>5, <1>6, <1>7, <1>8 DEF PInv

LEMMA PInvStep == ASSUME IInv, PInv, [Next]_vars PROVE PInv'
<1>1. CASE UNCHANGED vars
  BY <1>1 DEF vars, keys, PInv, CopiesTyped, KeysOK, Current, Overlap, Active, Holding, Changing
<1>2. ASSUME NEW r \in Runs, Handler(r), overtaken' = (overtaken \/ Overlap') PROVE PInv'
  <2>1. CopiesTyped' /\ (overtaken \/ (~Overlap /\ Current))'
    BY <1>2, HandlerEffect, EffectKeeps DEF PInv
  <2> QED BY <1>2, <2>1, HandlerKeys DEF PInv
<1>3. CASE \/ rememberme_middleware \/ CacheExpires \/ KeyExpires
           \/ (\E r \in Runs : ResetExpires(r) \/ LoginExpires(r)) /\ overtaken' = (overtaken \/ Overlap')
  <2>1. UNCHANGED <<row, run, newest, fido, apikey, sessions>>
    BY <1>3 DEF rememberme_middleware, CacheExpires, KeyExpires, ResetExpires, LoginExpires, keys
  <2>2. cache' \in {cache, Nothing} /\ jwt' \in {jwt, FALSE} /\ resets' \subseteq resets
    BY <1>3 DEF rememberme_middleware, CacheExpires, KeyExpires, ResetExpires, LoginExpires, keys
  <2>3. overtaken' = overtaken \/ overtaken' = (overtaken \/ Overlap')
    BY <1>3 DEF rememberme_middleware, CacheExpires, KeyExpires
  <2>4. Overlap' <=> Overlap
    BY <2>1 DEF Overlap, Active
  <2>5. Current => Current'
    BY <2>1, <2>2 DEF Current, Holding, Changing
  <2>6. CopiesTyped' /\ KeysOK'
    BY <2>1, <2>2 DEF PInv, CopiesTyped, KeysOK, Holding
  <2> QED BY <2>3, <2>4, <2>5, <2>6 DEF PInv
<1> QED BY <1>1, <1>2, <1>3 DEF Next

\* Every copy of the row is one, a run that will write one has it, and unless a
\* request overlapped with a change of the password every such copy, and the
\* cached one, has the row's password.
THEOREM PInvAlways == Spec => []PInv
<1>1. IInv /\ PInv /\ [Next]_vars => PInv'
  BY PInvStep
<1> QED BY PInvStarts, <1>1, OnlyVerifiedAct, PTL DEF Spec

\* The type invariant; nothing of an account is left when its row is deleted.
THEOREM TypeCorrect == Spec => []TypeOK
<1>1. PInv => TypeOK
  BY DEF PInv, CopiesTyped, KeysOK, Values, TypeOK
<1> QED BY <1>1, PInvAlways, PTL

\* The password last set is the one in the row (PasswordKept).
THEOREM PasswordStays == Spec => []PasswordKept
<1>1. PInv => PasswordKept
  BY DEF PInv, Current, PasswordKept
<1> QED BY <1>1, PInvAlways, PTL

\* The cached copy checks passwords against the row's (PasswordFresh).
THEOREM CacheIsFresh == Spec => []PasswordFresh
<1>1. PInv => PasswordFresh
  BY DEF PInv, Current, PasswordFresh, Quiet, Active, Changing, Changed
<1> QED BY <1>1, PInvAlways, PTL
=============================================================================
