------------------------------- MODULE Backups -------------------------------
(***************************************************************************)
(* The mode backups of cmd/dansal (backup_modes.go, restore_chain.go,       *)
(* backup.go, internal/backuparchive): full, incremental and cumulative     *)
(* archives of the images, the chains they form, the pruning of old chains, *)
(* and the restoration of a chain, while images change and other runs, the  *)
(* nightly one or an admin's, are under way.  A backup of the configuration *)
(* or with credentials prunes the same directory file by file.              *)
(*                                                                         *)
(* Archives are numbered in the order their runs began, which is the order  *)
(* of Created.  The databases and the configuration are complete in every   *)
(* archive and come from the last one; they, encryption and the older       *)
(* single-file archives are left out.  So is a write to another directory   *)
(* than backup_dir.                                                         *)
(***************************************************************************)
EXTENDS Naturals, FiniteSets

CONSTANTS
  Images,      \* files below images_dir
  Runners,     \* concurrently running backups
  BackupKeep,  \* backup_keep
  MaxArchives, \* bound: runs that begin an archive
  MaxContents  \* bound: changes made to images

ASSUME BackupsAssumption ==
  /\ BackupKeep \in Nat \ {0}
  /\ MaxArchives \in Nat /\ MaxContents \in Nat

Archives == 1 .. MaxArchives
Contents == 0 .. MaxContents     \* 0: there is no such file
Kinds == {"full", "incremental", "cumulative"}
Archive == [st : {"none", "writing", "file", "listed", "gone"}, kind : Kinds,
            base : 0 .. MaxArchives, chain : 0 .. MaxArchives, earlier : SUBSET Archives,
            images : [Images -> Contents], stored : [Images -> Contents],
            torn : BOOLEAN, raced : BOOLEAN, aged : BOOLEAN]
Runner == [at : {"off", "hash", "store", "sidecar", "list", "prune", "clean"}, archive : 0 .. MaxArchives,
           entries : SUBSET Images, todo : SUBSET Archives]

VARIABLES
  images,    \* images_dir
  contents,  \* changes made so far
  archive,   \* archives with their manifests (torn, raced and aged are ghosts: an
             \* image changed or was not readable while it was made; its chain was pruned
             \* by a run that did not have it on its list; pruneBackups removed it)
  made,      \* archives begun
  runner,    \* runner[r]: the step backup r executes next
  restore    \* restoreChain: the archive to restore, what is left to extract
             \* (touched is a ghost: an image was changed meanwhile)

backupVars == <<images, contents, archive, made, runner, restore>>

Empty == [i \in Images |-> 0]
NoArchive == [st |-> "none", kind |-> "full", base |-> 0, chain |-> 0, earlier |-> {},
              images |-> Empty, stored |-> Empty, torn |-> FALSE, raced |-> FALSE, aged |-> FALSE]
Removed == [NoArchive EXCEPT !.st = "gone"]
NoRunner == [at |-> "off", archive |-> 0, entries |-> {}, todo |-> {}]
NoRestore == [archive |-> 0, todo |-> {}, touched |-> FALSE]

BackupInit ==
  /\ images = Empty /\ contents = 0
  /\ archive = [a \in Archives |-> NoArchive]
  /\ made = 0
  /\ runner = [r \in Runners |-> NoRunner]
  /\ restore = NoRestore

RunnerAt(r, at) == runner[r].at = at
Continue(r, step) == runner' = [runner EXCEPT ![r] = step]
ContinueAt(r, at) == Continue(r, [runner[r] EXCEPT !.at = at])

\* ListArchives, Latest: the archives with a manifest copy, the newest of a kind.
Listed == {a \in Archives : archive[a].st = "listed"}
Newest(as) == IF as = {} THEN 0 ELSE CHOOSE a \in as : \A b \in as : b <= a

-----------------------------------------------------------------------------
(* createModeBackup                                                        *)

BaseOf(kind) ==
  CASE kind = "full" -> 0
    [] kind = "incremental" -> Newest(Listed)
    [] kind = "cumulative" -> Newest({a \in Listed : archive[a].kind = "full"})
StartBackup(r, kind) ==
  LET n == made + 1
      base == BaseOf(kind) IN
  /\ runner[r] = NoRunner
  /\ made < MaxArchives
  /\ kind # "full" => base # 0
  /\ made' = n
  /\ archive' = [archive EXCEPT ![n].st = "writing", ![n].kind = kind, ![n].base = base,
                                ![n].chain = IF base = 0 THEN n ELSE archive[base].chain]
  /\ Continue(r, [NoRunner EXCEPT !.at = "hash", !.archive = n])
  /\ UNCHANGED <<images, contents, restore>>

\* imageState, and add for the images that differ from the base's manifest: one
\* that cannot be read is only reported.
\* Mutant: only images that the base did not have.
ChangedNew(a) ==
  {i \in Images : images[i] # 0 /\ (archive[a].base = 0 \/ archive[archive[a].base].images[i] = 0)}
Changed(a) ==
  {i \in Images : images[i] # 0 /\ (archive[a].base = 0 \/ archive[archive[a].base].images[i] # images[i])}
HashImages(r) ==
  /\ RunnerAt(r, "hash")
  /\ LET a == runner[r].archive IN
       \E readable \in SUBSET Changed(a) :
         /\ archive' = [archive EXCEPT ![a].images = images, ![a].torn = readable # Changed(a)]
         /\ Continue(r, [runner[r] EXCEPT !.at = "store", !.entries = readable])
  /\ UNCHANGED <<images, contents, made, restore>>

\* writeModeArchive reads the files again: one that is gone fails the run, one that
\* has changed is stored under the old checksum.
Fail(r) ==
  /\ archive' = [archive EXCEPT ![runner[r].archive] = Removed]
  /\ Continue(r, NoRunner)
\* The files that pruneBackups takes for its own: with a manifest or without.
Incrementals == {a \in Archives : archive[a].st \in {"file", "listed"} /\ archive[a].kind = "incremental"}
StoreImages(r) ==
  /\ RunnerAt(r, "store")
  /\ LET a == runner[r].archive
         entries == runner[r].entries IN
       \/ Fail(r)
       \/ /\ \A i \in entries : images[i] # 0
          /\ archive' = [archive EXCEPT
               ![a].st = "file", ![a].earlier = IF archive[a].kind = "incremental" THEN Incrementals ELSE {},
               ![a].stored = [i \in Images |-> IF i \in entries THEN images[i] ELSE 0],
               ![a].torn = @ \/ \E i \in entries : images[i] # archive[a].images[i]]
          /\ ContinueAt(r, "sidecar")
  /\ UNCHANGED <<images, contents, made, restore>>

\* WriteSidecar puts the archive on the list, if its file is still there.
ListArchive(r) ==
  /\ RunnerAt(r, "sidecar")
  /\ \/ Fail(r)
     \/ /\ archive' = [archive EXCEPT ![runner[r].archive].st = IF @ = "file" THEN "listed" ELSE @]
        /\ ContinueAt(r, "list")
  /\ UNCHANGED <<images, contents, made, restore>>

\* pruneChains: the chains beyond the newest BackupKeep, but not one's own.
ChainRank(c) == Newest({a \in Listed : archive[a].chain = c})
NewerChains(c) == {archive[a].chain : a \in {b \in Listed : ChainRank(archive[b].chain) > ChainRank(c)}}
Superseded(a, own) ==
  /\ Cardinality(NewerChains(archive[a].chain)) >= BackupKeep
  /\ archive[a].chain # own
ListChains(r) ==
  /\ RunnerAt(r, "list")
  /\ LET n == runner[r].archive
         own == IF n \in Listed THEN archive[n].chain ELSE 0
         todo == {a \in Listed : Superseded(a, own)} IN
       Continue(r, IF todo = {} THEN NoRunner ELSE [runner[r] EXCEPT !.at = "prune", !.todo = todo])
  /\ UNCHANGED <<images, contents, archive, made, restore>>

\* The list is sorted newest first, and so are the removals.
OldestFirst(as) == CHOOSE a \in as : \A b \in as : a <= b  \* mutant
NewestFirst(as) == Newest(as)
PruneArchive(r) ==
  /\ RunnerAt(r, "prune")
  /\ LET a == NewestFirst(runner[r].todo)
         left == runner[r].todo \ {a} IN
       /\ archive' = [b \in Archives |->
            CASE b = a -> [archive[a] EXCEPT !.st = "gone", !.stored = Empty]
              [] b \notin left \cup {a} /\ archive[b].chain = archive[a].chain ->
                   [archive[b] EXCEPT !.raced = TRUE]
              [] OTHER -> archive[b]]
       /\ Continue(r, IF left = {} THEN NoRunner ELSE [runner[r] EXCEPT !.todo = left])
  /\ UNCHANGED <<images, contents, made, restore>>

\* createConfigBackup and createBackup end in pruneBackups: of the incrementals the
\* files beyond the newest BackupKeep by their times go, whatever is based on them.  No
\* other archive of a mode has a name that it looks for.
Later(a, b) == a \in archive[b].earlier
Aged == {a \in Incrementals : Cardinality({b \in Incrementals : Later(a, b)}) >= BackupKeep}
OtherBackup(r) ==
  /\ runner[r] = NoRunner
  /\ Aged # {}
  /\ Continue(r, [NoRunner EXCEPT !.at = "clean", !.todo = Aged])
  /\ UNCHANGED <<images, contents, archive, made, restore>>

CleanArchive(r) ==
  /\ RunnerAt(r, "clean")
  /\ LET a == CHOOSE x \in runner[r].todo : \A y \in runner[r].todo : ~Later(x, y)
         left == runner[r].todo \ {a} IN
       /\ archive' = [archive EXCEPT ![a] =
            CASE @.st = "listed" -> [@ EXCEPT !.st = "gone", !.stored = Empty, !.aged = TRUE]
              [] @.st = "file" -> Removed
              [] OTHER -> @]
       /\ Continue(r, IF left = {} THEN NoRunner ELSE [runner[r] EXCEPT !.todo = left])
  /\ UNCHANGED <<images, contents, made, restore>>

-----------------------------------------------------------------------------
(* Restoring                                                               *)

\* ResolveChain: from an archive down to its full.
ChainOf[a \in Archives] ==
  IF archive[a].kind = "full" \/ archive[a].base = 0 THEN {a} ELSE {a} \cup ChainOf[archive[a].base]
Resolvable(a) == a \in Listed /\ ChainOf[a] \subseteq Listed

StartRestore(a) ==
  /\ restore = NoRestore
  /\ Resolvable(a)
  /\ restore' = [archive |-> a, todo |-> ChainOf[a], touched |-> FALSE]
  /\ UNCHANGED <<images, contents, archive, made, runner>>

\* restoreChain extracts the archives oldest first; one that is gone by then fails
\* it half way.
ExtractArchive ==
  /\ restore.todo # {}
  /\ LET a == CHOOSE x \in restore.todo : \A y \in restore.todo : x <= y IN
       IF a \in Listed
       THEN /\ images' = [i \in Images |-> IF archive[a].stored[i] # 0 THEN archive[a].stored[i]
                                           ELSE images[i]]
            /\ restore' = [restore EXCEPT !.todo = @ \ {a}]
       ELSE images' = images /\ restore' = NoRestore
  /\ UNCHANGED <<contents, archive, made, runner>>

\* removeImagesNotIn: the last manifest says which images there were.
TrimImages ==
  /\ restore.archive # 0 /\ restore.todo = {}
  /\ images' = [i \in Images |-> IF archive[restore.archive].images[i] = 0 THEN 0 ELSE images[i]]
  /\ restore' = NoRestore
  /\ UNCHANGED <<contents, archive, made, runner>>

-----------------------------------------------------------------------------
(* Images and restarts                                                     *)

EditImage(i) ==
  /\ contents < MaxContents
  /\ contents' = contents + 1
  /\ \E new \in {0, contents'} \ {images[i]} : images' = [images EXCEPT ![i] = new]
  /\ restore' = IF restore = NoRestore THEN restore ELSE [restore EXCEPT !.touched = TRUE]
  /\ UNCHANGED <<archive, made, runner>>

BackupCrash ==
  /\ restore # NoRestore \/ \E r \in Runners : runner[r] # NoRunner
  /\ runner' = [r \in Runners |-> NoRunner]
  /\ restore' = NoRestore
  /\ archive' = [a \in Archives |-> IF archive[a].st = "writing" THEN Removed ELSE archive[a]]
  /\ UNCHANGED <<images, contents, made>>

BackupNext ==
  \/ \E r \in Runners :
       \/ \E kind \in Kinds : StartBackup(r, kind)
       \/ HashImages(r) \/ StoreImages(r) \/ ListArchive(r) \/ ListChains(r) \/ PruneArchive(r)
       \/ OtherBackup(r) \/ CleanArchive(r)
  \/ \E a \in Archives : StartRestore(a)
  \/ ExtractArchive \/ TrimImages
  \/ \E i \in Images : EditImage(i)
  \/ BackupCrash

BackupSpec == BackupInit /\ [][BackupNext]_backupVars

-----------------------------------------------------------------------------
(* Properties                                                              *)

BackupTypeOK ==
  /\ images \in [Images -> Contents] /\ contents \in Contents
  /\ archive \in [Archives -> Archive]
  /\ made \in 0 .. MaxArchives
  /\ runner \in [Runners -> Runner]
  /\ restore \in [archive : 0 .. MaxArchives, todo : SUBSET Archives, touched : BOOLEAN]

\* pruneChains takes no archive from under one on the list, not even in a run that
\* stopped half way: a link that is missing is an incremental that pruneBackups took,
\* or the chain was pruned while one of its archives was made (Latest, ResolveChain).
ChainsWhole ==
  \A a \in Listed :
    \/ \A b \in ChainOf[a] : b \in Listed \/ archive[b].aged
    \/ \E b \in ChainOf[a] : archive[b].raced

\* A chain that is restored without disturbance leaves exactly the images of the
\* last archive's manifest, whatever kinds of archives lie between, unless an image
\* changed or could not be read while one of them was written (restoreChain: "the
\* image directory ends up exactly as it was at the last backup").
RestoreExact ==
  [][(TrimImages /\ ~restore.touched /\ \A a \in ChainOf[restore.archive] : ~archive[a].torn)
       => images' = archive[restore.archive].images]_backupVars
=============================================================================
