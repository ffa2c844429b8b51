------------------------------ MODULE MCContent ------------------------------
(* Events, Feeds, Board and Backups for TLC in one run, one part in each    *)
(* behaviour, as in MCAccounts.                                             *)
EXTENDS Events, Feeds, Board, Backups, TLC

VARIABLE part   \* the part that runs

Parts == {"events", "feeds", "board", "backups"}

ContentInit ==
  /\ part \in Parts
  /\ EvInit /\ FeedInit /\ BoardInit /\ BackupInit
  /\ part # "events" => source.dated
  /\ part # "feeds" => feed.st = "there" /\ robots.says = "free"

ContentNext ==
  \/ part = "events" /\ EvNext /\ UNCHANGED <<part, feedVars, boardVars, backupVars>>
  \/ part = "feeds" /\ FeedNext /\ UNCHANGED <<part, evVars, boardVars, backupVars>>
  \/ part = "board" /\ BoardNext /\ UNCHANGED <<part, evVars, feedVars, backupVars>>
  \/ part = "backups" /\ BackupNext /\ UNCHANGED <<part, evVars, feedVars, boardVars>>

ContentSpec ==
  ContentInit /\ [][ContentNext]_<<part, evVars, feedVars, boardVars, backupVars>>

\* Every variable of every part keeps the type its tables and handlers give it.
ContentTypeOK == EvTypeOK /\ FeedTypeOK /\ BoardTypeOK /\ BackupTypeOK

\* Rows and requests of one kind are interchangeable.
Symmetry == Permutations(Editors) \cup Permutations(Runs)
==============================================================================
