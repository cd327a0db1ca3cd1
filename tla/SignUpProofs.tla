---------------------------- MODULE SignUpProofs ----------------------------
(***************************************************************************)
(* Whoever asks for accounts and in whatever order the queries come: mail  *)
(* addresses and names stay unique, and a request that created an account  *)
(* through a provider finds that account again.                            *)
(***************************************************************************)
EXTENDS SignUp, TLAPS

(***************************************************************************)
(* The inductive invariant.                                                *)
(***************************************************************************)
Requests == [type : Types, mail : Mails, base : Bases, sure : BOOLEAN,
             pc : {"start", "save", "create", "retry", "find", "done"},
             counter : 0..MaxCounter]

\* GitHub's addresses count as verified.
RunsOK ==
  /\ run \in [Runs -> Requests]
  /\ \A r \in Runs : run[r].type = "GITHUB" => run[r].sure

\* A row is what its request asked for; GitHub's has the name as it came.
RowOK(u) ==
  /\ u \in [id : saved, mail : Mails, name : Names, type : Types, verified : BOOLEAN]
  /\ u.mail = run[u.id].mail /\ u.type = run[u.id].type
  /\ run[u.id].sure /\ u.type # "LOCAL" => u.verified
  /\ u.type = "GITHUB" => u.name = Name(u.id, 0)

RowsOK == \A u \in users : RowOK(u)

Unique == \A u \in users : \A v \in users : u.mail = v.mail \/ u.name = v.name => u = v

\* A request that has saved a row looks for it next, and is signed in by it.
SavedOK ==
  /\ saved \subseteq Runs /\ signed \subseteq Runs
  /\ \A r \in saved : /\ \E u \in users : u.id = r
                      /\ run[r].pc \in {"find", "done"}
                      /\ run[r].pc = "done" /\ run[r].type # "LOCAL" /\ run[r].sure => r \in signed

IInv == RunsOK /\ RowsOK /\ Unique /\ SavedOK

(***************************************************************************)
(* What the steps do.                                                      *)
(***************************************************************************)
\* Request r goes on to pc; what it asks for stays.
Moves(r, pc) ==
  /\ run' \in [Runs -> Requests]
  /\ \A s \in Runs \ {r} : run'[s] = run[s]
  /\ \A s \in Runs : /\ run'[s].type = run[s].type /\ run'[s].mail = run[s].mail
                     /\ run'[s].base = run[s].base /\ run'[s].sure = run[s].sure
  /\ run'[r].pc = pc

\* It leaves the table alone, and has not saved a row.
Passes(r) ==
  /\ \E pc \in {"save", "create", "retry", "find", "done"} : Moves(r, pc)
  /\ r \notin saved
  /\ UNCHANGED <<users, saved, signed>>

\* It saves a row of name and verified that the unique columns accept.
Saves(r, name, verified, pc) ==
  /\ Moves(r, pc) /\ r \notin saved
  /\ ~Taken(run[r].mail, name)
  /\ users' = users \cup {Row(r, name, verified)}
  /\ saved' = saved \cup {r}
  /\ UNCHANGED signed

LEMMA Going ==
  ASSUME IInv, NEW r \in Runs, NEW pc \in {"save", "create", "retry", "find", "done"}, Goes(r, pc)
  PROVE  Moves(r, pc)
BY DEF IInv, RunsOK, Goes, Moves, Requests

LEMMA PassesOK == ASSUME IInv, NEW r \in Runs, Passes(r) PROVE IInv'
<1>1. RunsOK'
  BY DEF IInv, RunsOK, Passes, Moves
<1>2. ASSUME NEW u \in users PROVE RowOK(u)'
  <2>1. RowOK(u) /\ u.id \in Runs
    BY DEF IInv, RowsOK, RowOK, SavedOK
  <2> QED BY <2>1 DEF Passes, Moves, RowOK, Name
<1>3. RowsOK' /\ Unique'
  BY <1>2 DEF IInv, RowsOK, Unique, Passes
<1>4. SavedOK'
  BY DEF IInv, SavedOK, Passes, Moves
<1> QED BY <1>1, <1>3, <1>4 DEF IInv

LEMMA SavesOK ==
  ASSUME IInv, NEW r \in Runs, NEW name \in Names, NEW verified \in BOOLEAN,
         NEW pc \in {"find", "done"}, Saves(r, name, verified, pc),
         run[r].sure /\ run[r].type # "LOCAL" => verified,
         run[r].type = "GITHUB" => name = Name(r, 0),
         pc = "done" => run[r].type = "LOCAL"
  PROVE  IInv'
<1>0. PICK new : new = Row(r, name, verified)
  OBVIOUS
<1>1. RunsOK'
  BY DEF IInv, RunsOK, Saves, Moves
<1>2. ASSUME NEW u \in users PROVE RowOK(u)'
  <2>1. RowOK(u) /\ u.id \in Runs
    BY DEF IInv, RowsOK, RowOK, SavedOK
  <2> QED BY <2>1 DEF Saves, Moves, RowOK, Name
<1>3. RowOK(new)'
  <2>1. run[r] \in Requests
    BY DEF IInv, RunsOK
  <2> QED BY <1>0, <2>1 DEF Saves, Moves, RowOK, Name, Row, Requests
<1>4. RowsOK'
  BY <1>0, <1>2, <1>3 DEF RowsOK, Saves
<1>5. Unique'
  <2>1. \A u \in users : u.mail # new.mail /\ u.name # new.name
    BY <1>0 DEF Saves, Taken, Row
  <2>2. users' = users \cup {new}
    BY <1>0 DEF Saves
  <2> QED BY <2>1, <2>2 DEF IInv, Unique
<1>6. SavedOK'
  <2>1. new \in users' /\ new.id = r
    BY <1>0 DEF Saves, Row
  <2>2. \A s \in saved : \E u \in users' : u.id = s
    BY DEF IInv, SavedOK, Saves
  <2> QED BY <2>1, <2>2 DEF IInv, SavedOK, Saves, Moves
<1> QED BY <1>1, <1>4, <1>5, <1>6 DEF IInv

\* Looking for the account: found tells whether a row is the one.
LEMMA FindsOK ==
  ASSUME IInv, NEW r \in Runs, NEW found, Finds(r, found),
         \A u \in users : u.id = r /\ run[r].type # "LOCAL" /\ run[r].sure => found[u]
  PROVE  IInv'
<1>1. Moves(r, "done") /\ UNCHANGED <<users, saved>>
  BY Going DEF Finds
<1>2. signed' \subseteq Runs /\ signed \subseteq signed'
  BY DEF Finds, IInv, SavedOK
<1>3. r \in saved /\ run[r].type # "LOCAL" /\ run[r].sure => r \in signed'
  BY DEF Finds, IInv, SavedOK
<1>4. RunsOK'
  BY <1>1 DEF IInv, RunsOK, Moves
<1>5. ASSUME NEW u \in users PROVE RowOK(u)'
  <2>1. RowOK(u) /\ u.id \in Runs
    BY DEF IInv, RowsOK, RowOK, SavedOK
  <2> QED BY <1>1, <2>1 DEF Moves, RowOK, Name
<1>6. RowsOK' /\ Unique'
  BY <1>1, <1>5 DEF IInv, RowsOK, Unique
<1>7. SavedOK'
  BY <1>1, <1>2, <1>3 DEF IInv, SavedOK, Moves
<1> QED BY <1>4, <1>6, <1>7 DEF IInv

LEMMA NameOK == ASSUME IInv, NEW r \in Runs, NEW n \in 0..MaxCounter PROVE Name(r, n) \in Names
BY DEF IInv, RunsOK, Requests, Name, Names

LEMMA NotSaved ==
  ASSUME IInv, NEW r \in Runs, run[r].pc \notin {"find", "done"} PROVE r \notin saved
BY DEF IInv, SavedOK

LEMMA CreatesOK ==
  ASSUME IInv, NEW r \in Runs, NEW n \in 0..MaxCounter, NEW verified \in BOOLEAN,
         NEW next \in 0..MaxCounter, Creates(r, Name(r, n), verified, next),
         run[r].pc \in {"create", "retry"},
         run[r].sure => verified,
         run[r].type = "GITHUB" => n = 0
  PROVE  IInv'
<1>1. Name(r, n) \in Names /\ r \notin saved
  BY NameOK, NotSaved
<1>2. CASE Taken(run[r].mail, Name(r, n))
  <2>1. Moves(r, "retry")
    BY <1>2 DEF Creates, Moves, IInv, RunsOK, Requests
  <2>2. Passes(r)
    BY <1>1, <1>2, <2>1 DEF Creates, Passes
  <2> QED BY <2>2, PassesOK
<1>3. CASE ~Taken(run[r].mail, Name(r, n))
  <2>1. Saves(r, Name(r, n), verified, "find")
    BY <1>1, <1>3, Going DEF Creates, Saves
  <2>2. run[r].type = "GITHUB" => Name(r, n) = Name(r, 0)
    OBVIOUS
  <2> QED BY <1>1, <2>1, <2>2, SavesOK
<1> QED BY <1>2, <1>3

LEMMA LooksUpOK == ASSUME IInv, NEW r \in Runs, LooksUp(r) PROVE IInv'
<1>1. Passes(r)
  BY Going, NotSaved DEF LooksUp, Passes
<1> QED BY <1>1, PassesOK

(***************************************************************************)
(* One lemma for each handler.                                             *)
(***************************************************************************)
LEMMA CreatesUser == ASSUME IInv, NEW r \in Runs, create_user(r) PROVE IInv'
<1>1. CASE run[r].pc = "start"
  <2>1. Passes(r)
    BY <1>1, Going, NotSaved DEF create_user, Passes
  <2> QED BY <2>1, PassesOK
<1>2. CASE run[r].pc = "save" /\ Taken(run[r].mail, Name(r, 0))
  <2>1. Passes(r)
    BY <1>2, Going, NotSaved DEF create_user, Passes
  <2> QED BY <2>1, PassesOK
<1>3. CASE run[r].pc = "save" /\ ~Taken(run[r].mail, Name(r, 0))
  <2>1. Saves(r, Name(r, 0), SkipMail, "done")
    BY <1>3, Going, NotSaved DEF create_user, Saves
  <2>2. Name(r, 0) \in Names /\ SkipMail \in BOOLEAN
    BY NameOK, SignUpAssumption
  <2> QED BY <2>1, <2>2, SavesOK DEF create_user
<1> QED BY <1>1, <1>2, <1>3 DEF create_user

LEMMA NumberedOK ==
  ASSUME IInv, NEW r \in Runs, run[r].type \in {"GOOGLE", "CUSTOM"}, Numbered(r) PROVE IInv'
<1>1. run[r].counter \in 0..MaxCounter /\ run[r].sure \in BOOLEAN
  BY DEF IInv, RunsOK, Requests
<1>2. 0 \in 0..MaxCounter /\ 1 \in 0..MaxCounter /\ NextCounter(run[r].counter) \in 0..MaxCounter
  BY <1>1, SignUpAssumption DEF NextCounter
<1>3. CASE run[r].pc = "create" /\ Creates(r, Name(r, 0), run[r].sure, 1)
  BY <1>1, <1>2, <1>3, CreatesOK
<1>4. CASE /\ run[r].pc = "retry"
           /\ Creates(r, Name(r, run[r].counter), run[r].sure, NextCounter(run[r].counter))
  BY <1>1, <1>2, <1>4, CreatesOK
<1>5. CASE Finds(r, Own(r))
  <2>1. \A u \in users : u.id = r /\ run[r].type # "LOCAL" /\ run[r].sure => Own(r)[u]
    BY DEF IInv, RowsOK, RowOK, Own
  <2> QED BY <1>5, <2>1, FindsOK
<1> QED BY <1>3, <1>4, <1>5, LooksUpOK DEF Numbered

LEMMA GithubOK == ASSUME IInv, NEW r \in Runs, auth_github(r) PROVE IInv'
<1> DEFINE found == [u \in users |-> /\ u.mail = run[r].mail /\ u.type = run[r].type
                                     /\ u.name = Name(r, 0) /\ u.verified]
<1>1. run[r].counter \in 0..MaxCounter /\ 0 \in 0..MaxCounter
  BY SignUpAssumption DEF IInv, RunsOK, Requests
<1>2. CASE run[r].pc \in {"create", "retry"} /\ Creates(r, Name(r, 0), TRUE, run[r].counter)
  BY <1>1, <1>2, CreatesOK
<1>3. CASE Finds(r, found)
  <2>1. \A u \in users : u.id = r /\ run[r].type # "LOCAL" /\ run[r].sure => found[u]
    BY DEF IInv, RowsOK, RowOK, auth_github
  <2> HIDE DEF found
  <2> QED BY <1>3, <2>1, FindsOK
<1> QED BY <1>2, <1>3, LooksUpOK DEF auth_github

(***************************************************************************)
(* The theorems.                                                           *)
(***************************************************************************)
LEMMA Starting == ASSUME Init PROVE IInv
<1>1. run \in [Runs -> Requests]
  BY SignUpAssumption DEF Init, Requests
<1> QED BY <1>1 DEF Init, IInv, RunsOK, RowsOK, Unique, SavedOK

LEMMA StepsKeep == ASSUME IInv, [Next]_vars PROVE IInv'
<1>1. CASE UNCHANGED vars
  BY <1>1 DEF vars, IInv, RunsOK, RowsOK, RowOK, Name, Unique, SavedOK
<1>2. ASSUME NEW r \in Runs, Request(r) PROVE IInv'
  BY <1>2, CreatesUser, NumberedOK, GithubOK DEF Request, auth_google, auth_custom
<1> QED BY <1>1, <1>2 DEF Next

\* Every row is what a request asked for, and a request that saved a row goes
\* on to look for it.
THEOREM IInvAlways == Spec => []IInv
BY Starting, StepsKeep, PTL DEF Spec

\* No two accounts share a mail address or a name, and rows are of their types.
THEOREM TypeCorrect == Spec => []TypeOK
<1>1. ASSUME IInv PROVE TypeOK
  BY <1>1 DEF IInv, RowsOK, RowOK, Unique, SavedOK, TypeOK
<1> QED BY <1>1, IInvAlways, PTL

\* Whoever creates an account through a provider, with a verified address, is
\* signed in by the same request, whatever others create meanwhile.
THEOREM CreatedIsSignedIn == Spec => []CreatedGetsIn
<1>1. ASSUME IInv PROVE CreatedGetsIn
  BY <1>1 DEF IInv, SavedOK, CreatedGetsIn
<1> QED BY <1>1, IInvAlways, PTL
=============================================================================
