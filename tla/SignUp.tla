------------------------------- MODULE SignUp -------------------------------
(***************************************************************************)
(* How accounts come to be: create_user, and the first visit through an    *)
(* OAuth provider, which looks the mail address up, creates a user with    *)
(* the name the provider gives, and tries again with other names while the *)
(* table refuses it.  mail and username are unique columns, and so is the  *)
(* id a user has with the provider.  Every query is a step of its own.     *)
(***************************************************************************)
EXTENDS Naturals, FiniteSets

CONSTANTS
  Mails,      \* mail addresses; who has an address has one id at each provider
  Bases,      \* names people ask for
  Runs,       \* requests, each handled once
  MaxCounter, \* bound on the number put behind a name
  SkipMail    \* settings.skip_email_verification

ASSUME SignUpAssumption == MaxCounter \in Nat \ {0} /\ SkipMail \in BOOLEAN

VARIABLES
  users,  \* rows of the table users
  run,    \* [Runs -> request]
  saved,  \* requests that have saved a row
  signed  \* requests that have logged their user in

vars == <<users, run, saved, signed>>

Types == {"LOCAL", "GOOGLE", "GITHUB", "CUSTOM"}

\* A name is what was asked for and the number behind it, 0 for none.
Names == Bases \X (0..MaxCounter)

Init ==
  /\ users = {}
  /\ run \in [Runs -> [type : Types, mail : Mails, base : Bases, sure : BOOLEAN,
                       pc : {"start"}, counter : {0}]]
  /\ \A r \in Runs : run[r].type \in {"LOCAL", "GITHUB"} => run[r].sure
  /\ saved = {}
  /\ signed = {}

Goes(r, pc) == run' = [run EXCEPT ![r].pc = pc]

Name(r, n) == <<run[r].base, n>>

Taken(mail, name) == \E u \in users : u.mail = mail \/ u.name = name

Row(r, name, verified) ==
  [id |-> r, mail |-> run[r].mail, name |-> name, type |-> run[r].type, verified |-> verified]

-----------------------------------------------------------------------------
\* First it is asked whether name or mail are taken, then the row is saved;
\* a row that came in between makes that fail.  The update that verifies the
\* row at once, without mails, is taken with the save.
create_user(r) ==
  /\ run[r].type = "LOCAL"
  /\ \/ /\ run[r].pc = "start"
        /\ Goes(r, IF Taken(run[r].mail, Name(r, 0)) THEN "done" ELSE "save")
        /\ UNCHANGED <<users, saved, signed>>
     \/ /\ run[r].pc = "save"
        /\ IF Taken(run[r].mail, Name(r, 0))
           THEN UNCHANGED <<users, saved>>
           ELSE users' = users \cup {Row(r, Name(r, 0), SkipMail)} /\ saved' = saved \cup {r}
        /\ Goes(r, "done")
        /\ UNCHANGED signed

\* User.objects.create; a refusal by a unique column goes on to "retry".
Creates(r, name, verified, next) ==
  /\ IF Taken(run[r].mail, name)
     THEN UNCHANGED <<users, saved>> /\ run' = [run EXCEPT ![r].pc = "retry", ![r].counter = next]
     ELSE /\ users' = users \cup {Row(r, name, verified)}
          /\ saved' = saved \cup {r}
          /\ Goes(r, "find")
  /\ UNCHANGED signed

Finds(r, found) ==
  /\ run[r].pc = "find"
  /\ signed' = IF \E u \in users : found[u] THEN signed \cup {r} ELSE signed
  /\ Goes(r, "done")
  /\ UNCHANGED <<users, saved>>

\* The mail address is looked up whatever the type of its account.
LooksUp(r) ==
  /\ run[r].pc = "start"
  /\ Goes(r, IF \E u \in users : u.mail = run[r].mail THEN "find" ELSE "create")
  /\ UNCHANGED <<users, saved, signed>>

NextCounter_Faulty(n) == n

NextCounter(n) == IF n < MaxCounter THEN n + 1 ELSE n

\* Google and the custom provider say whether the mail address is verified,
\* put a number behind the name, and find the user by mail and provider id.
Own_Faulty(r) == [u \in users |-> /\ u.mail = run[r].mail /\ u.type = run[r].type
                                  /\ u.name = Name(r, 0) /\ u.verified]

Own(r) == [u \in users |-> u.mail = run[r].mail /\ u.type = run[r].type /\ u.verified]

Numbered(r) ==
  \/ LooksUp(r)
  \/ run[r].pc = "create" /\ Creates(r, Name(r, 0), run[r].sure, 1)
  \/ run[r].pc = "retry" /\ Creates(r, Name(r, run[r].counter), run[r].sure, NextCounter(run[r].counter))
  \/ Finds(r, Own(r))

auth_google(r) == run[r].type = "GOOGLE" /\ Numbered(r)

auth_custom(r) == run[r].type = "CUSTOM" /\ Numbered(r)

\* GitHub's counter never gets into the name, and the user is found by name.
auth_github(r) ==
  /\ run[r].type = "GITHUB"
  /\ \/ LooksUp(r)
     \/ run[r].pc \in {"create", "retry"} /\ Creates(r, Name(r, 0), TRUE, run[r].counter)
     \/ Finds(r, [u \in users |-> /\ u.mail = run[r].mail /\ u.type = run[r].type
                                  /\ u.name = Name(r, 0) /\ u.verified])

Request(r) == create_user(r) \/ auth_google(r) \/ auth_custom(r) \/ auth_github(r)

Next == \E r \in Runs : Request(r)

Spec == Init /\ [][Next]_vars

\* The event loop comes round to every request.
FairSpec == Spec /\ \A r \in Runs : WF_vars(Request(r))

-----------------------------------------------------------------------------
\* The type invariant, with the unique columns.
TypeOK ==
  /\ \A u \in users : u.mail \in Mails /\ u.name \in Names /\ u.type \in Types /\ u.verified \in BOOLEAN
  /\ \A u, v \in users : u.mail = v.mail \/ u.name = v.name => u = v
  /\ saved \subseteq Runs /\ signed \subseteq Runs

\* Whoever creates an account through a provider, with a mail address that is
\* verified, is signed in to it by the same request, whatever name it got.
CreatedGetsIn ==
  \A r \in saved : /\ run[r].pc = "done"
                   /\ run[r].type # "LOCAL" /\ run[r].sure
                   => r \in signed

\* A first visit through Google or the custom provider ends, however many took
\* the name: the loop is left, unless another request has taken the mail
\* address since it was looked up.
VisitEnds ==
  \A r \in Runs :
    (run[r].pc = "retry" /\ run[r].type \in {"GOOGLE", "CUSTOM"})
      ~> (run[r].pc = "done" \/ \E u \in users : u.mail = run[r].mail /\ u.id # r)
=============================================================================
