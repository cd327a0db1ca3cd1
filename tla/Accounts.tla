------------------------------ MODULE Accounts ------------------------------
(***************************************************************************)
(* One account: its row in the table users, the copy of the row that the   *)
(* cache keeps under the mail address, its sessions and tokens, and its    *)
(* API key.  A handler that needs the signed-in user takes the cached copy *)
(* if there is one (get_current_user); some handlers read the row again,   *)
(* some do not; all write the whole row back.  Between two awaits of one   *)
(* handler any other may run.  A value of a column is the run that wrote   *)
(* it.  A request that is refused before it has changed anything may stop  *)
(* at any point, which is how wrong passwords and codes are modelled.      *)
(***************************************************************************)
EXTENDS Naturals, FiniteSets

CONSTANTS
  Runs,     \* runs of handlers, each used once
  AtOnce,   \* bound on the number of requests under way
  Nothing   \* null

Values == Runs \cup {"first"}

\* Of the second factor it matters whether there is one; the avatar and
\* storage_used are left out, what writing them does to the rest is not.
Rows == [password : Values, backup_code : Values, totp_secret : BOOLEAN,
         require_password : BOOLEAN, verified : BOOLEAN]

ASSUME AccountsAssumption == AtOnce \in Nat /\ Nothing \notin Values \cup Rows

VARIABLES
  row,       \* the row of the table users, or Nothing once it is deleted
  cache,     \* the value under the key <email>, with its time to live
  sessions,  \* rows of user_sessions, by the run that saved them
  fido,      \* there is a security key in fido_credentials
  jwt,       \* the user has an access token, or a session that will renew it
  resets,    \* reset_passwd:<token> keys, by the run that set them
  logins,    \* [Runs -> login_session:<id> key that run has set]
  apikey,    \* "none", "kept" or "deleted": a row of api_keys
  keycache,  \* the value under apikey:<key>, with its time to live
  run,       \* [Runs -> run of a handler]
  newest,    \* who last set the password, and who the backup code
  overtaken  \* requests have overlapped with one that changes the password

keys == <<sessions, fido, jwt, resets, logins, apikey, keycache>>
vars == <<row, cache, keys, run, newest, overtaken>>

\* A value in redis with the seconds it was given, 0 for no limit.
Entry(value, ex) == [value |-> value, ex |-> ex]

Idle == [op |-> "none", pc |-> "idle", copy |-> Nothing, arg |-> Nothing]

NoLogin == [open |-> FALSE, totp |-> FALSE, passkey |-> FALSE, step_2 |-> FALSE, step1_success |-> FALSE]

\* create_user has saved the row and the mail with the verify key is on its
\* way; or the user has verified the account and is signed in.
Init ==
  /\ \E verified \in BOOLEAN :
       /\ row = [password |-> "first", backup_code |-> "first", totp_secret |-> FALSE,
                 require_password |-> TRUE, verified |-> verified]
       /\ sessions = IF verified THEN {"first"} ELSE {}
       /\ jwt = verified
  /\ cache = Nothing
  /\ fido = FALSE /\ resets = {}
  /\ logins = [r \in Runs |-> NoLogin]
  /\ apikey = "none" /\ keycache = Nothing
  /\ run = [r \in Runs |-> Idle]
  /\ newest = [password |-> "first", backup_code |-> "first"]
  /\ overtaken = FALSE

At(r, op, pc) == run[r].op = op /\ run[r].pc = pc

Goes(r, pc) == run' = [run EXCEPT ![r].pc = pc]
Ends(r)     == run' = [run EXCEPT ![r] = [Idle EXCEPT !.pc = "done"]]

Active == {r \in Runs : run[r].pc \notin {"idle", "done", "queued"}}

Starts(r, op, pc, copy, arg) ==
  /\ run[r].pc = "idle"
  /\ Cardinality(Active) < AtOnce
  /\ run' = [run EXCEPT ![r] = [op |-> op, pc |-> pc, copy |-> copy, arg |-> arg]]

\* update(): all columns, if the row still exists.
Updates(new) == row' = IF row = Nothing THEN Nothing ELSE new

-----------------------------------------------------------------------------
\* get_current_user: the cached copy, or the row of a verified user, which is
\* then cached for cache_expiry seconds.  First(op) is where op goes on.
First ==
  [change_password      |-> "write",  save_avatar          |-> "forget",
   get_backup_code      |-> "reread", set_require_password |-> "reread",
   set_totp_up          |-> "reread", disable_totp         |-> "reread",
   confirm_add_key_data |-> "reread", delete_user_account  |-> "reread",
   signout_everywhere   |-> "drop",   delete_session       |-> "row",
   delete_security_key  |-> "row",    generate_api_key     |-> "row",
   delete_api_key       |-> "row",    upload_file          |-> "queued"]

get_current_user(r) ==
  /\ jwt
  /\ \E op \in DOMAIN First :
       Starts(r, op, IF cache = Nothing THEN "miss" ELSE First[op],
                     IF cache = Nothing THEN Nothing ELSE cache.value, Nothing)
  /\ UNCHANGED <<row, cache, keys, newest>>

CacheLife_Faulty == 0

CacheLife == 86400

cache_account(r) ==
  \/ /\ run[r].pc = "miss"
     /\ IF row # Nothing /\ row.verified THEN run' = [run EXCEPT ![r].pc = "fill", ![r].copy = row] ELSE Ends(r)
     /\ UNCHANGED <<row, cache, keys, newest>>
  \/ /\ run[r].pc = "fill" /\ run[r].op \in DOMAIN First
     /\ cache' = Entry(run[r].copy, CacheLife)
     /\ Goes(r, First[run[r].op])
     /\ UNCHANGED <<row, keys, newest>>

CacheExpires ==
  /\ cache # Nothing /\ cache.ex > 0
  /\ cache' = Nothing
  /\ UNCHANGED <<row, keys, run, newest, overtaken>>

\* Steps that several handlers take.
Rereads(r, next) ==
  /\ run[r].pc = "reread"
  /\ IF row = Nothing THEN Ends(r) ELSE run' = [run EXCEPT ![r].pc = next, ![r].copy = row]
  /\ UNCHANGED <<row, cache, keys, newest>>

\* The last step but those that follow a change of the password or a login.
Writes(r, new, next) ==
  /\ run[r].pc = "write"
  /\ Updates(new)
  /\ IF next = "done" THEN Ends(r) ELSE Goes(r, next)
  /\ newest' = [password    |-> IF new.password = r THEN r ELSE newest.password,
                backup_code |-> IF new.backup_code = r THEN r ELSE newest.backup_code]
  /\ UNCHANGED <<cache, keys>>

\* UserSession.objects.filter(user=user).delete()
Drops(r, next) ==
  /\ run[r].pc = "drop"
  /\ sessions' = {}
  /\ IF next = "done" THEN Ends(r) ELSE Goes(r, next)
  /\ UNCHANGED <<row, cache, fido, jwt, resets, logins, apikey, keycache, newest>>

Cleared_Faulty == cache

Cleared == Nothing

clear_cache_for_account(r, next) ==
  /\ run[r].pc = "clear"
  /\ cache' = Cleared
  /\ IF next = "done" THEN Ends(r) ELSE Goes(r, next)
  /\ UNCHANGED <<row, keys, newest>>

-----------------------------------------------------------------------------
\* The password is written into the copy the request began with.
change_password(r) ==
  /\ run[r].op = "change_password"
  /\ \/ Writes(r, [run[r].copy EXCEPT !.password = r], "clear")
     \/ clear_cache_for_account(r, "drop")
     \/ Drops(r, "done")

signout_everywhere(r) ==
  /\ run[r].op = "signout_everywhere"
  /\ Drops(r, "clear") \/ clear_cache_for_account(r, "done")

MayForget_Faulty == row # Nothing

MayForget == row # Nothing /\ row.verified

forgotten_password(r) ==
  /\ MayForget
  /\ run[r].pc = "idle"
  /\ resets' = resets \cup {r}
  /\ Ends(r)
  /\ UNCHANGED <<row, cache, sessions, fido, jwt, logins, apikey, keycache, newest>>

\* The token is good for an hour, however often it is used.
reset_password_with_token(r) ==
  \/ /\ resets # {}
     /\ Starts(r, "reset_password_with_token", "reread", Nothing, Nothing)
     /\ UNCHANGED <<row, cache, keys, newest>>
  \/ /\ run[r].op = "reset_password_with_token"
     /\ \/ Rereads(r, "write")
        \/ Writes(r, [run[r].copy EXCEPT !.password = r], "drop")
        \/ Drops(r, "clear")
        \/ clear_cache_for_account(r, "done")

ResetExpires(r) ==
  /\ r \in resets
  /\ resets' = resets \ {r}
  /\ UNCHANGED <<row, cache, sessions, fido, jwt, logins, apikey, keycache, run, newest>>

\* The verify key is in the row until it is used.
verify_user(r) ==
  \/ /\ row # Nothing /\ ~row.verified
     /\ Starts(r, "verify_user", "write", row, Nothing)
     /\ UNCHANGED <<row, cache, keys, newest>>
  \/ run[r].op = "verify_user" /\ Writes(r, [run[r].copy EXCEPT !.verified = TRUE], "done")

\* The second-factor settings read the row again and leave the cache alone.
get_backup_code(r) ==
  /\ run[r].op = "get_backup_code"
  /\ Rereads(r, "write") \/ Writes(r, [run[r].copy EXCEPT !.backup_code = r], "done")

set_require_password(r) ==
  /\ run[r].op = "set_require_password"
  /\ \/ Rereads(r, "write")
     \/ \E b \in BOOLEAN : Writes(r, [run[r].copy EXCEPT !.require_password = b], "done")

set_totp_up(r) ==
  /\ run[r].op = "set_totp_up"
  /\ Rereads(r, "write") \/ Writes(r, [run[r].copy EXCEPT !.totp_secret = TRUE], "done")

disable_totp(r) ==
  /\ run[r].op = "disable_totp"
  /\ Rereads(r, "write") \/ Writes(r, [run[r].copy EXCEPT !.totp_secret = FALSE], "done")

\* One security key stands for all of them; the challenge is left out.
confirm_add_key_data(r) ==
  /\ run[r].op = "confirm_add_key_data"
  /\ \/ Rereads(r, "add")
     \/ /\ run[r].pc = "add"
        /\ fido' = (row # Nothing)
        /\ Ends(r)
        /\ UNCHANGED <<row, cache, sessions, jwt, resets, logins, apikey, keycache, newest>>

delete_security_key(r) ==
  /\ At(r, "delete_security_key", "row")
  /\ fido' = FALSE
  /\ Ends(r)
  /\ UNCHANGED <<row, cache, sessions, jwt, resets, logins, apikey, keycache, newest>>

\* The cache is emptied before the row is written.
save_avatar(r) ==
  /\ run[r].op = "save_avatar"
  /\ \/ /\ run[r].pc = "forget"
        /\ cache' = Nothing
        /\ Goes(r, "write")
        /\ UNCHANGED <<row, keys, newest>>
     \/ Writes(r, run[r].copy, "done")

\* An upload ends with a job for the worker, which adds to the user's row.
calculate_hash(r) ==
  /\ run[r].op = "upload_file"
  /\ \/ /\ run[r].pc = "queued"
        /\ IF row = Nothing THEN Ends(r) ELSE run' = [run EXCEPT ![r].pc = "write", ![r].copy = row]
        /\ UNCHANGED <<row, cache, keys, newest>>
     \/ Writes(r, run[r].copy, "done")

-----------------------------------------------------------------------------
\* Sessions, and the tokens they give.
log_user_in(r) ==
  /\ run[r].pc = "session"
  /\ sessions' = IF row = Nothing THEN sessions ELSE sessions \cup {r}
  /\ jwt' = (jwt \/ row # Nothing)
  /\ Ends(r)
  /\ UNCHANGED <<row, cache, fido, resets, logins, apikey, keycache, newest>>

\* Which factors the second step takes is decided here, for ten minutes.
start_login(r) ==
  /\ row # Nothing /\ row.verified
  /\ run[r].pc = "idle"
  /\ logins' = [logins EXCEPT ![r] =
       [open |-> TRUE, totp |-> row.totp_secret, passkey |-> fido,
        step_2 |-> row.require_password /\ (fido \/ row.totp_secret),
        step1_success |-> FALSE]]
  /\ Ends(r)
  /\ UNCHANGED <<row, cache, sessions, fido, jwt, resets, apikey, keycache, newest>>

LoginExpires(r) ==
  /\ logins[r].open
  /\ logins' = [logins EXCEPT ![r] = NoLogin]
  /\ UNCHANGED <<row, cache, sessions, fido, jwt, resets, apikey, keycache, run, newest>>

\* A factor that is right either logs the user in or is noted in the session.
step_1_endpoint(r) ==
  \/ /\ \E l \in Runs : logins[l].open
                        /\ Starts(r, "step_1_endpoint", "user", Nothing, [id |-> l, was |-> logins[l]])
     /\ UNCHANGED <<row, cache, keys, newest>>
  \/ /\ At(r, "step_1_endpoint", "user")
     /\ \E type \in {"PASSWORD", "PASSKEY", "TOTP", "BACKUP"} :
          /\ type = "TOTP" => run[r].arg.was.totp
          /\ type = "PASSKEY" => run[r].arg.was.passkey
          /\ run' = [run EXCEPT ![r].copy = row, ![r].pc =
               IF row = Nothing THEN "done"
               ELSE IF type = "BACKUP" THEN "write"
               ELSE IF \/ type = "TOTP" \/ ~run[r].arg.was.step_2
                       \/ type = "PASSKEY" /\ run[r].arg.was.step1_success
               THEN "session" ELSE "note"]
     /\ UNCHANGED <<row, cache, keys, newest>>
  \/ /\ At(r, "step_1_endpoint", "note")
     /\ logins' = [logins EXCEPT ![run[r].arg.id] = [run[r].arg.was EXCEPT !.step1_success = TRUE]]
     /\ Ends(r)
     /\ UNCHANGED <<row, cache, sessions, fido, jwt, resets, apikey, keycache, newest>>
  \/ /\ run[r].op = "step_1_endpoint"
     /\ Writes(r, [run[r].copy EXCEPT !.backup_code = r], "session")
  \/ log_user_in(r)

\* The middleware renews the access token of a request that comes with the
\* cookie of a session; without a session a token works until it expires.
rememberme_middleware ==
  /\ jwt /\ sessions = {}
  /\ jwt' = FALSE
  /\ UNCHANGED <<row, cache, sessions, fido, resets, logins, apikey, keycache, run, newest, overtaken>>

logout(r) ==
  /\ run[r].pc = "idle"
  /\ \E s \in sessions : sessions' = sessions \ {s}
  /\ Ends(r)
  /\ UNCHANGED <<row, cache, fido, jwt, resets, logins, apikey, keycache, newest>>

delete_session(r) ==
  /\ At(r, "delete_session", "row")
  /\ \E s \in Runs : sessions' = sessions \ {s}
  /\ Ends(r)
  /\ UNCHANGED <<row, cache, fido, jwt, resets, logins, apikey, keycache, newest>>

\* ON DELETE CASCADE of user_sessions, fido_credentials and api_keys.
Left_Faulty == sessions

Left == {}

Erases ==
  /\ row' = Nothing
  /\ sessions' = Left /\ fido' = FALSE
  /\ apikey' = IF apikey = "kept" THEN "deleted" ELSE apikey
  /\ UNCHANGED <<cache, jwt, resets, logins, keycache, newest>>

\* Refused by the foreign keys of ratings and controllers, if there are any.
delete_user_account(r) ==
  /\ run[r].op = "delete_user_account"
  /\ \/ Rereads(r, "drop")
     \/ Drops(r, "erase")
     \/ run[r].pc = "erase" /\ Ends(r) /\ (Erases \/ UNCHANGED <<row, cache, keys, newest>>)

\* The administrator's three ways to delete a user.
delete_user_by_id(r) == run[r].pc = "idle" /\ row # Nothing /\ Erases /\ Ends(r)

-----------------------------------------------------------------------------
generate_api_key(r) ==
  /\ At(r, "generate_api_key", "row")
  /\ apikey' = IF apikey = "none" /\ row # Nothing THEN "kept" ELSE apikey
  /\ Ends(r)
  /\ UNCHANGED <<row, cache, sessions, fido, jwt, resets, logins, keycache, newest>>

KeyLife_Faulty == 0

KeyLife == 3600

\* Whoever uses the key: from the cache, or from the row, which is then cached.
check_api_key(r) ==
  \/ /\ keycache = Nothing /\ apikey = "kept"
     /\ Starts(r, "check_api_key", "fill", Nothing, Nothing)
     /\ UNCHANGED <<row, cache, keys, newest>>
  \/ /\ At(r, "check_api_key", "fill")
     /\ keycache' = Entry(r, KeyLife)
     /\ Ends(r)
     /\ UNCHANGED <<row, cache, sessions, fido, jwt, resets, logins, apikey, newest>>

KeyExpires ==
  /\ keycache # Nothing /\ keycache.ex > 0
  /\ keycache' = Nothing
  /\ UNCHANGED <<row, cache, sessions, fido, jwt, resets, logins, apikey, run, newest, overtaken>>

\* The key goes from the cache before it goes from the table.
delete_api_key(r) ==
  /\ run[r].op = "delete_api_key"
  /\ \/ /\ run[r].pc = "row"
        /\ IF apikey = "kept" THEN Goes(r, "forget") ELSE Ends(r)
        /\ UNCHANGED <<row, cache, keys, newest>>
     \/ /\ run[r].pc = "forget"
        /\ keycache' = Nothing
        /\ Goes(r, "delete")
        /\ UNCHANGED <<row, cache, sessions, fido, jwt, resets, logins, apikey, newest>>
     \/ /\ run[r].pc = "delete"
        /\ apikey' = "deleted"
        /\ Ends(r)
        /\ UNCHANGED <<row, cache, sessions, fido, jwt, resets, logins, keycache, newest>>

-----------------------------------------------------------------------------
Handler(r) ==
  \/ get_current_user(r) \/ cache_account(r)
  \/ change_password(r) \/ signout_everywhere(r)
  \/ forgotten_password(r) \/ reset_password_with_token(r) \/ verify_user(r)
  \/ get_backup_code(r) \/ set_require_password(r) \/ set_totp_up(r) \/ disable_totp(r)
  \/ confirm_add_key_data(r) \/ delete_security_key(r)
  \/ save_avatar(r) \/ calculate_hash(r)
  \/ start_login(r) \/ step_1_endpoint(r) \/ logout(r) \/ delete_session(r)
  \/ delete_user_account(r) \/ delete_user_by_id(r)
  \/ generate_api_key(r) \/ check_api_key(r) \/ delete_api_key(r)

\* A request that changes the password and another one are under way.
Overlap ==
  \E r, s \in Active : /\ r # s
                       /\ run[r].op \in {"change_password", "reset_password_with_token"}

Next ==
  \/ /\ \E r \in Runs : Handler(r) \/ ResetExpires(r) \/ LoginExpires(r)
     /\ overtaken' = (overtaken \/ Overlap')
  \/ rememberme_middleware
  \/ CacheExpires
  \/ KeyExpires

Spec == Init /\ [][Next]_vars

\* redis drops every key whose time to live is over.
FairSpec == Spec /\ WF_vars(CacheExpires) /\ WF_vars(KeyExpires)
-----------------------------------------------------------------------------
\* The type invariant; what belongs to the account goes with its row.
TypeOK ==
  /\ row \in Rows \cup {Nothing}
  /\ cache # Nothing => cache.value \in Rows
  /\ sessions \subseteq Runs \cup {"first"} /\ resets \subseteq Runs
  /\ jwt \in BOOLEAN /\ fido \in BOOLEAN /\ apikey \in {"none", "kept", "deleted"}
  /\ \A r \in Runs : run[r].copy \in Rows \cup {Nothing}
  /\ row = Nothing => sessions = {} /\ apikey # "kept"

Quiet == Active = {}

\* A verified account stays verified, although every handler writes back a
\* whole row it read some time ago: none can have read it unverified, but the
\* one that verifies it.
VerifiedStays ==
  [][row # Nothing /\ row' # Nothing /\ row.verified => row'.verified]_vars

\* A password that was set stays until the next one is set: no later request
\* brings an older one back with its copy, unless it overlapped with the change.
PasswordKept ==
  Quiet /\ ~overtaken /\ row # Nothing => row.password = newest.password

\* The cached copy checks passwords against the current one.
PasswordFresh ==
  Quiet /\ ~overtaken /\ row # Nothing /\ cache # Nothing => cache.value.password = row.password

\* The same for the backup code, of which the page says that the old one is
\* removed.
BackupCodeKept ==
  Quiet /\ row # Nothing => row.backup_code = newest.backup_code

\* Nothing clears the cache when an account is deleted, but the last copy of
\* it fades.
DeletedAccountFades == row = Nothing ~> [](cache = Nothing)

\* An API key that was deleted stops working for good, even if its use raced
\* with the deletion and put it back into the cache.
DeletedKeyFades == apikey = "deleted" ~> [](keycache = Nothing)
=============================================================================
