----------------------------- MODULE MCAccounts ------------------------------
(* Registration, Logins and Webhooks for TLC in one run.  They share no     *)
(* state in these models, so each behaviour is one of a single part, and    *)
(* the others rest in an initial state; as no two parts run together, their *)
(* constants share model values, which keeps the symmetry group small.      *)
EXTENDS Registration, Logins, Webhooks, TLC

VARIABLE part   \* the part that runs

Parts == {"registration", "logins", "webhooks"}

AccountsInit ==
  /\ part \in Parts
  /\ RegInit /\ LogInit /\ WhInit
  /\ part # "logins" => account.password = "hash" /\ account.secret = NoSecret /\ account.keys = {}

AccountsNext ==
  \/ part = "registration" /\ RegNext /\ UNCHANGED <<part, logVars, whVars>>
  \/ part = "logins" /\ LogNext /\ UNCHANGED <<part, regVars, whVars>>
  \/ part = "webhooks" /\ WhNext /\ UNCHANGED <<part, regVars, logVars>>

AccountsSpec ==
  AccountsInit /\ [][AccountsNext]_<<part, regVars, logVars, whVars>>

\* Every variable of every part keeps the type its tables and handlers give it.
AccountsTypeOK == RegTypeOK /\ LogTypeOK /\ WhTypeOK

\* Rows and requests of one kind are interchangeable.
Symmetry == Permutations(Users) \cup Permutations(Visitors) \cup Permutations(Invites)
==============================================================================
