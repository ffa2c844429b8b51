------------------------------ MODULE FeedsProofs ------------------------------
(* Machine-checked proofs about Feeds, for every value of its constants. *)
EXTENDS Feeds, TLAPS

-----------------------------------------------------------------------------
(* Types, and which kinds of runs are at which step: only jobs finish in    *)
(* the registry, only the periodic run is listed, only requests save.       *)

RunShape(x) ==
  /\ x.kind = "job" <=> x.job # NoJob
  /\ x.at = "finish" => x.kind = "job"
  /\ x.at = "listed" => x.kind = "auto"
  /\ x.at \in {"save", "approve"} => x.kind = "manual"
  /\ x.at = "acknowledge" => x.kind \in {"", "manual"}
  /\ x.at = "reject" => x.kind = ""
  /\ x.at = "off" => x.kind = ""
FeedTypeInv == FeedTypeOK /\ \A r \in Runs : RunShape(run[r])

\* A run that a step may leave behind.
RunSound(x) == x \in Run /\ RunShape(x)

LEMMA NoRunSound == RunSound(NoRun) /\ NoRun.at = "off" /\ NoRun.kind = "" /\ NoRun.job = NoJob /\ ~NoRun.acked
  BY FeedsAssumption DEF RunSound, NoRun, Run, RunSteps, Rules, RunShape

LEMMA RunFields ==
  ASSUME NEW x \in Run
  PROVE  /\ x.at \in RunSteps /\ x.kind \in {"", "auto", "manual", "job"} /\ x.job \in Jobs \cup {NoJob}
         /\ x.acked \in BOOLEAN /\ x.rule \in Rules /\ x.ok \in BOOLEAN /\ x.streak \in Nat
         /\ x.refreshed \in BOOLEAN
  BY DEF Run

\* Moving one run.
LEMMA Moved ==
  ASSUME FeedTypeInv, NEW r \in Runs, NEW step, RunSound(step), Do(r, step)
  PROVE  /\ run' \in [Runs -> Run] /\ \A q \in Runs : RunShape(run'[q])
         /\ run'[r] = step
         /\ \A q \in Runs \ {r} : run'[q] = run[q]
  BY DEF FeedTypeInv, FeedTypeOK, Do, RunSound

LEMMA Launched ==
  ASSUME FeedTypeInv, NEW r \in Runs, NEW step, Launch(r, step)
  PROVE  /\ Do(r, step) /\ run[r] = NoRun
         /\ usage' \in [runs : 0 .. MaxRuns, turns : 0 .. MaxTurns]
  BY FeedsAssumption DEF FeedTypeInv, FeedTypeOK, Launch

\* robots.txt: whoever asks leaves its answer in the cache.
LEMMA Asked ==
  ASSUME FeedTypeInv, NEW rule \in Rules, Rule(rule)
  PROVE  /\ robots' \in [says : Rules, cached : Rules \cup {"none"}]
         /\ robots'.cached = rule
         /\ robots.cached # "none" => robots'.cached = robots.cached
  BY DEF FeedTypeInv, FeedTypeOK, Rule, Rules

\* The steps of the runs are sound.
LEMMA LaunchedSteps ==
  /\ \A j \in Jobs, acked \in BOOLEAN :
       RunSound([NoRun EXCEPT !.at = "gate", !.kind = "job", !.job = j, !.acked = acked])
  /\ \A acked \in BOOLEAN :
       /\ RunSound([NoRun EXCEPT !.at = "gate", !.kind = "manual", !.acked = acked])
       /\ RunSound([NoRun EXCEPT !.at = "listed", !.kind = "auto", !.acked = acked])
  /\ \A at \in {"save", "approve"}, rule \in Rules :
       RunSound([NoRun EXCEPT !.at = at, !.kind = "manual", !.rule = rule])
  /\ RunSound([NoRun EXCEPT !.at = "reject"]) /\ RunSound([NoRun EXCEPT !.at = "acknowledge"])
<1>1. ASSUME NEW j \in Jobs, NEW acked \in BOOLEAN
      PROVE  RunSound([NoRun EXCEPT !.at = "gate", !.kind = "job", !.job = j, !.acked = acked])
  BY FeedsAssumption DEF RunSound, NoRun, Run, RunSteps, Rules, RunShape
<1>2. ASSUME NEW acked \in BOOLEAN
      PROVE  /\ RunSound([NoRun EXCEPT !.at = "gate", !.kind = "manual", !.acked = acked])
             /\ RunSound([NoRun EXCEPT !.at = "listed", !.kind = "auto", !.acked = acked])
  BY DEF RunSound, NoRun, Run, RunSteps, Rules, RunShape
<1>3. ASSUME NEW at \in {"save", "approve"}, NEW rule \in Rules
      PROVE  RunSound([NoRun EXCEPT !.at = at, !.kind = "manual", !.rule = rule])
  BY DEF RunSound, NoRun, Run, RunSteps, Rules, RunShape
<1>4. RunSound([NoRun EXCEPT !.at = "reject"]) /\ RunSound([NoRun EXCEPT !.at = "acknowledge"])
  BY DEF RunSound, NoRun, Run, RunSteps, Rules, RunShape
<1> QED
  BY <1>1, <1>2, <1>3, <1>4

\* What the steps that start no job leave a run.
LEMMA LaunchedJobs ==
  /\ \A acked \in BOOLEAN :
       /\ [NoRun EXCEPT !.at = "gate", !.kind = "manual", !.acked = acked].job = NoJob
       /\ [NoRun EXCEPT !.at = "listed", !.kind = "auto", !.acked = acked].job = NoJob
  /\ \A at \in {"save", "approve"}, rule \in Rules :
       [NoRun EXCEPT !.at = at, !.kind = "manual", !.rule = rule].job = NoJob
  /\ [NoRun EXCEPT !.at = "reject"].job = NoJob /\ [NoRun EXCEPT !.at = "acknowledge"].job = NoJob
  BY DEF NoRun

LEMMA MovedJobs ==
  ASSUME NEW x \in Run
  PROVE  /\ \A rule \in Rules : [x EXCEPT !.at = "import", !.rule = rule].job = x.job
         /\ \A rule \in Rules :
              [x EXCEPT !.at = IF x.kind = "job" THEN "finish" ELSE "record", !.rule = rule].job = x.job
         /\ \A ok \in BOOLEAN : [x EXCEPT !.at = "record", !.ok = ok].job = x.job
  BY DEF Run

LEMMA MovedSteps ==
  ASSUME FeedTypeInv, NEW r \in Runs
  PROVE  /\ \A at \in {"gate", "save", "acknowledge"} :
              run[r].at \in {"listed", "approve", "save"} /\ (at \in {"save", "acknowledge"} => run[r].kind = "manual")
                => RunSound([run[r] EXCEPT !.at = at])
         /\ \A rule \in Rules : RunSound([run[r] EXCEPT !.at = "import", !.rule = rule])
         /\ \A rule \in Rules :
              RunSound([run[r] EXCEPT !.at = IF run[r].kind = "job" THEN "finish" ELSE "record", !.rule = rule])
         /\ \A ok \in BOOLEAN : RunSound([run[r] EXCEPT !.at = "record", !.ok = ok])
         /\ \A n \in Nat : RunSound([run[r] EXCEPT !.at = "alert", !.streak = n])
         /\ RunSound([run[r] EXCEPT !.at = "gate", !.acked = TRUE])
         /\ RunSound(After(r))
<1>1. run[r] \in Run /\ RunShape(run[r])
  BY DEF FeedTypeInv, FeedTypeOK
<1>2. RunSound(After(r))
  BY <1>1, NoRunSound, RunFields DEF After, RunSound, RunShape, Run, RunSteps
<1>3. \A at \in {"gate", "save", "acknowledge"} :
         run[r].at \in {"listed", "approve", "save"} /\ (at \in {"save", "acknowledge"} => run[r].kind = "manual")
           => RunSound([run[r] EXCEPT !.at = at])
  BY <1>1, RunFields DEF RunSound, RunShape, Run, RunSteps
<1>4. \A rule \in Rules : RunSound([run[r] EXCEPT !.at = "import", !.rule = rule])
  BY <1>1, RunFields DEF RunSound, RunShape, Run, RunSteps
<1>5. \A rule \in Rules :
        RunSound([run[r] EXCEPT !.at = IF run[r].kind = "job" THEN "finish" ELSE "record", !.rule = rule])
  BY <1>1, RunFields DEF RunSound, RunShape, Run, RunSteps
<1>6. \A ok \in BOOLEAN : RunSound([run[r] EXCEPT !.at = "record", !.ok = ok])
  BY <1>1, RunFields DEF RunSound, RunShape, Run, RunSteps
<1>7. \A n \in Nat : RunSound([run[r] EXCEPT !.at = "alert", !.streak = n])
  BY <1>1, RunFields DEF RunSound, RunShape, Run, RunSteps
<1>8. RunSound([run[r] EXCEPT !.at = "gate", !.acked = TRUE])
  BY <1>1, RunFields DEF RunSound, RunShape, Run, RunSteps
<1> QED
  BY <1>2, <1>3, <1>4, <1>5, <1>6, <1>7, <1>8

LEMMA FeedTypeInit == FeedInit => FeedTypeInv
<1> SUFFICES ASSUME FeedInit PROVE FeedTypeInv
  OBVIOUS
<1>1. feed \in Feed /\ robots \in [says : Rules, cached : Rules \cup {"none"}]
  BY DEF FeedInit, Feed
<1>2. run \in [Runs -> Run] /\ \A r \in Runs : RunShape(run[r])
  BY NoRunSound DEF FeedInit, RunSound
<1>3. usage \in [runs : 0 .. MaxRuns, turns : 0 .. MaxTurns]
  BY FeedsAssumption DEF FeedInit
<1>4. tally \in [streak : Nat, alerted : SUBSET Nat, twice : BOOLEAN]
  BY DEF FeedInit
<1> QED
  BY <1>1, <1>2, <1>3, <1>4 DEF FeedInit, FeedTypeInv, FeedTypeOK

\* A step that moves one run and leaves the registry and the ghosts alone.
LEMMA TypeMove ==
  ASSUME FeedTypeInv, NEW r \in Runs, NEW step, RunSound(step), Do(r, step),
         feed' \in Feed, robots' \in [says : Rules, cached : Rules \cup {"none"}],
         suggestion' \in {"pending", "approved", "rejected"},
         usage' \in [runs : 0 .. MaxRuns, turns : 0 .. MaxTurns],
         jobs' \in [Jobs -> {"none", "running", "ok", "error", "gone"}], active' \in Jobs \cup {NoJob},
         tally' \in [streak : Nat, alerted : SUBSET Nat, twice : BOOLEAN]
  PROVE  FeedTypeInv'
  BY Moved DEF FeedTypeInv, FeedTypeOK

LEMMA FeedTypeStep == FeedTypeInv /\ [FeedNext]_feedVars => FeedTypeInv'
<1> SUFFICES ASSUME FeedTypeInv, [FeedNext]_feedVars PROVE FeedTypeInv'
  OBVIOUS
<1>a. /\ feed \in Feed /\ robots \in [says : Rules, cached : Rules \cup {"none"}]
      /\ suggestion \in {"pending", "approved", "rejected"}
      /\ usage \in [runs : 0 .. MaxRuns, turns : 0 .. MaxTurns]
      /\ jobs \in [Jobs -> {"none", "running", "ok", "error", "gone"}] /\ active \in Jobs \cup {NoJob}
      /\ tally \in [streak : Nat, alerted : SUBSET Nat, twice : BOOLEAN]
  BY DEF FeedTypeInv, FeedTypeOK
<1>b. \A r \in Runs : run[r] \in Run /\ RunShape(run[r]) /\ RunSound(After(r))
  BY MovedSteps DEF FeedTypeInv, FeedTypeOK
<1>c. feed.acked \in BOOLEAN /\ feed.failures \in Nat /\ tally.streak \in Nat
  BY <1>a DEF Feed
<1>1. ASSUME NEW r \in Runs, NEW j \in Jobs, StartJob(r, j) PROVE FeedTypeInv'
  <2> DEFINE step == [NoRun EXCEPT !.at = "gate", !.kind = "job", !.job = j, !.acked = feed.acked]
  <2>1. RunSound(step)
    BY <1>c, LaunchedSteps
  <2>2. Launch(r, step) /\ jobs' = [jobs EXCEPT ![j] = "running"] /\ active' = j
        /\ UNCHANGED <<feed, robots, suggestion, tally>>
    BY <1>1 DEF StartJob
  <2> HIDE DEF step
  <2> QED
    BY <1>a, <2>1, <2>2, Launched, TypeMove
<1>2. ASSUME NEW r \in Runs, FinishJob(r) PROVE FeedTypeInv'
  <2>1. jobs' \in [Jobs -> {"none", "running", "ok", "error", "gone"}] /\ active' \in Jobs \cup {NoJob}
    BY <1>2, <1>a DEF FinishJob
  <2> QED
    BY <1>2, <1>a, <2>1, NoRunSound, TypeMove DEF FinishJob
<1>3. ASSUME NEW r \in Runs, BulkFetch(r) \/ ListAll(r) PROVE FeedTypeInv'
  <2>1. PICK step : Launch(r, step) /\ RunSound(step)
    BY <1>3, <1>c, LaunchedSteps DEF BulkFetch, ListAll
  <2> QED
    BY <1>3, <1>a, <2>1, Launched, TypeMove DEF BulkFetch, ListAll
<1>4. ASSUME NEW r \in Runs, KeepListed(r) PROVE FeedTypeInv'
  <2>1. PICK rule \in Rules : Rule(rule) /\ IF Kept(rule) THEN DoAt(r, "gate") ELSE Do(r, NoRun)
    BY <1>4 DEF KeepListed
  <2>2. RunSound([run[r] EXCEPT !.at = "gate"])
    BY <1>4, MovedSteps DEF KeepListed
  <2>3. robots' \in [says : Rules, cached : Rules \cup {"none"}]
    BY <2>1, Asked
  <2> QED
    BY <1>4, <1>a, <2>1, <2>2, <2>3, NoRunSound, TypeMove DEF KeepListed, DoAt
<1>5. ASSUME NEW r \in Runs, Gate(r) PROVE FeedTypeInv'
  <2>1. PICK rule \in Rules :
          /\ Rule(rule)
          /\ Do(r, IF Passes(r, rule) THEN [run[r] EXCEPT !.at = "import", !.rule = rule]
                   ELSE [run[r] EXCEPT !.at = IF run[r].kind = "job" THEN "finish" ELSE "record",
                                       !.rule = rule])
    BY <1>5 DEF Gate
  <2>2. PICK step : Do(r, step) /\ RunSound(step)
    BY <2>1, MovedSteps
  <2>3. robots' \in [says : Rules, cached : Rules \cup {"none"}]
    BY <2>1, Asked
  <2> QED
    BY <1>5, <1>a, <2>2, <2>3, TypeMove DEF Gate
<1>6. ASSUME NEW r \in Runs, Import(r) PROVE FeedTypeInv'
  <2>1. PICK ok \in BOOLEAN : Do(r, [run[r] EXCEPT !.at = "record", !.ok = ok])
    BY <1>6 DEF Import
  <2>2. RunSound([run[r] EXCEPT !.at = "record", !.ok = ok])
    BY MovedSteps
  <2> QED
    BY <1>6, <1>a, <2>1, <2>2, TypeMove DEF Import
<1>7. ASSUME NEW r \in Runs, RecordResult(r) PROVE FeedTypeInv'
  <2>1. feed' \in Feed /\ tally' \in [streak : Nat, alerted : SUBSET Nat, twice : BOOLEAN]
    BY <1>7, <1>a, <1>c DEF RecordResult, Feed
  <2>2. RunSound([run[r] EXCEPT !.at = "alert", !.streak = tally.streak])
    BY <1>c, MovedSteps
  <2>3. PICK step : Do(r, step) /\ RunSound(step)
    BY <1>7, <1>b, <2>2 DEF RecordResult
  <2> QED
    BY <1>7, <1>a, <2>1, <2>3, TypeMove DEF RecordResult
<1>8. ASSUME NEW r \in Runs, NotifyAdmins(r) PROVE FeedTypeInv'
  <2>1. run[r].streak \in Nat
    BY <1>b, RunFields
  <2>2. tally' \in [streak : Nat, alerted : SUBSET Nat, twice : BOOLEAN]
    <3>1. tally' = [tally EXCEPT !.alerted = @ \cup {run[r].streak},
                                 !.twice = @ \/ run[r].streak \in tally.alerted]
      BY <1>8 DEF NotifyAdmins
    <3>2. tally.alerted \cup {run[r].streak} \in SUBSET Nat
          /\ (tally.twice \/ run[r].streak \in tally.alerted) \in BOOLEAN
      BY <1>a, <2>1
    <3> QED
      BY <1>a, <3>1, <3>2
  <2> QED
    BY <1>8, <1>a, <1>b, <2>2, TypeMove DEF NotifyAdmins
<1>9. ASSUME NEW r \in Runs, NEW at \in {"save", "approve"}, NEW ack \in BOOLEAN, CheckSave(r, at, ack)
      PROVE  FeedTypeInv'
  <2>1. PICK rule \in Rules : Rule(rule) /\ Launch(r, [NoRun EXCEPT !.at = at, !.kind = "manual", !.rule = rule])
    BY <1>9 DEF CheckSave
  <2>2. PICK step : Launch(r, step) /\ RunSound(step)
    BY <2>1, LaunchedSteps
  <2> QED
    BY <1>9, <1>a, <2>1, <2>2, Asked, Launched, TypeMove DEF CheckSave
<1>10. ASSUME NEW r \in Runs, ApproveSuggestion(r) PROVE FeedTypeInv'
  <2>1. RunSound([run[r] EXCEPT !.at = "save"])
    BY <1>10, <1>b, MovedSteps DEF ApproveSuggestion, RunShape
  <2> QED
    BY <1>10, <1>a, <2>1, TypeMove DEF ApproveSuggestion, DoAt
<1>11. ASSUME NEW r \in Runs, RejectRead(r) PROVE FeedTypeInv'
  <2>1. PICK step : Launch(r, step) /\ RunSound(step)
    BY <1>11, LaunchedSteps DEF RejectRead
  <2> QED
    BY <1>11, <1>a, <2>1, Launched, TypeMove DEF RejectRead
<1>12. ASSUME NEW r \in Runs, RejectSuggestion(r) PROVE FeedTypeInv'
  BY <1>12, <1>a, NoRunSound, TypeMove DEF RejectSuggestion
<1>13. ASSUME NEW r \in Runs, SaveFeed(r) PROVE FeedTypeInv'
  <2>1. RunSound([run[r] EXCEPT !.at = "acknowledge"]) /\ RunSound([run[r] EXCEPT !.at = "gate"])
    BY <1>13, <1>b, MovedSteps DEF SaveFeed, RunShape
  <2>2. feed' \in Feed
    BY <1>13, <1>a DEF SaveFeed, Saved, Feed
  <2>3. PICK step : Do(r, step) /\ RunSound(step)
    BY <1>13, <2>1 DEF SaveFeed, DoAt
  <2> QED
    BY <1>13, <1>a, <2>2, <2>3, TypeMove DEF SaveFeed
<1>14. ASSUME NEW r \in Runs, AckRead(r) PROVE FeedTypeInv'
  <2>1. PICK rule \in Rules : Rule(rule) /\ Launch(r, [NoRun EXCEPT !.at = "acknowledge"])
    BY <1>14 DEF AckRead
  <2>2. PICK step : Launch(r, step) /\ RunSound(step)
    BY <2>1, LaunchedSteps
  <2> QED
    BY <1>14, <1>a, <2>1, <2>2, Asked, Launched, TypeMove DEF AckRead
<1>15. ASSUME NEW r \in Runs, Acknowledge(r) PROVE FeedTypeInv'
  <2>1. feed' \in Feed
    BY <1>15, <1>a DEF Acknowledge, Feed
  <2>2. PICK step : Do(r, step) /\ RunSound(step)
    BY <1>15, NoRunSound, MovedSteps DEF Acknowledge
  <2> QED
    BY <1>15, <1>a, <2>1, <2>2, TypeMove DEF Acknowledge
<1>16. ASSUME NEW j \in Jobs, Prune(j) PROVE FeedTypeInv'
  BY <1>16, <1>a DEF Prune, FeedTypeInv, FeedTypeOK
<1>17. ASSUME NEW optOut \in BOOLEAN, PatchFeed(optOut) PROVE FeedTypeInv'
  <2>1. feed' \in Feed
    BY <1>17, <1>a DEF PatchFeed, Feed
  <2> QED
    BY <1>17, <2>1 DEF PatchFeed, FeedTypeInv, FeedTypeOK
<1>18. CASE DeleteFeed
  <2>1. feed' \in Feed
    BY <1>18, <1>a DEF DeleteFeed, Feed
  <2> QED
    BY <1>18, <2>1 DEF DeleteFeed, FeedTypeInv, FeedTypeOK
<1>d. Turn => usage' \in [runs : 0 .. MaxRuns, turns : 0 .. MaxTurns]
  BY <1>a, FeedsAssumption DEF Turn
<1>19. CASE HostChanges
  BY <1>19, <1>a, <1>d DEF HostChanges, FeedTypeInv, FeedTypeOK
<1>20. CASE CacheExpires
  <2>1. ASSUME NEW r \in Runs PROVE RunSound(run'[r])
    <3>1. run'[r] = IF run[r] = NoRun THEN NoRun ELSE [run[r] EXCEPT !.refreshed = TRUE]
      BY <1>20 DEF CacheExpires, Outdated
    <3> QED
      BY <1>b, <3>1, NoRunSound DEF RunSound, RunShape, Run
  <2>2. run' \in [Runs -> Run] /\ \A r \in Runs : RunShape(run'[r])
    <3>1. run' = [r \in Runs |-> run'[r]]
      BY <1>20 DEF CacheExpires, Outdated
    <3> QED
      BY <2>1, <3>1 DEF RunSound
  <2> QED
    BY <1>20, <1>a, <1>d, <2>2 DEF CacheExpires, FeedTypeInv, FeedTypeOK
<1>21. CASE FeedCrash
  <2>1. run' \in [Runs -> Run] /\ \A r \in Runs : RunShape(run'[r])
    BY <1>21, NoRunSound DEF FeedCrash, RunSound
  <2>2. tally' \in [streak : Nat, alerted : SUBSET Nat, twice : BOOLEAN]
    <3>1. {run[r].streak : r \in {x \in Runs : run[x].at = "alert"}} \in SUBSET Nat
      BY <1>b, RunFields
    <3> QED
      BY <1>21, <1>a, <3>1 DEF FeedCrash
  <2>3. jobs' \in [Jobs -> {"none", "running", "ok", "error", "gone"}] /\ active' \in Jobs \cup {NoJob}
    BY <1>21, <1>a DEF FeedCrash
  <2> QED
    BY <1>21, <1>a, <1>d, <2>1, <2>2, <2>3 DEF FeedCrash, FeedTypeInv, FeedTypeOK
<1>22. CASE UNCHANGED feedVars
  BY <1>22 DEF feedVars, FeedTypeInv, FeedTypeOK
<1> QED
  BY <1>1, <1>2, <1>3, <1>4, <1>5, <1>6, <1>7, <1>8, <1>9, <1>10, <1>11, <1>12, <1>13, <1>14, <1>15,
     <1>16, <1>17, <1>18, <1>19, <1>20, <1>21, <1>22 DEF FeedNext

\* The row, the registry and the runs keep the types that FeedTypeOK gives them.
THEOREM FeedTypeCorrect == FeedSpec => []FeedTypeOK
<1>1. FeedTypeInv => FeedTypeOK
  BY DEF FeedTypeInv
<1> QED
  BY <1>1, FeedTypeInit, FeedTypeStep, PTL DEF FeedSpec

-----------------------------------------------------------------------------
(* The registry.  Every step but four leaves each run the job it has.       *)

RunsKeepJobs ==
  /\ jobs' = jobs /\ active' = active
  /\ \A r \in Runs : run'[r].job = run[r].job

LEMMA JobKept ==
  ASSUME FeedTypeInv, NEW r \in Runs, NEW step, RunSound(step), Do(r, step), step.job = run[r].job,
         jobs' = jobs, active' = active
  PROVE  RunsKeepJobs
  BY Moved DEF RunsKeepJobs

LEMMA OthersKeepJobs ==
  ASSUME FeedTypeInv, [FeedNext]_feedVars, ~FeedCrash,
         \A r \in Runs : ~FinishJob(r) /\ \A j \in Jobs : ~StartJob(r, j),
         \A j \in Jobs : ~Prune(j)
  PROVE  RunsKeepJobs
<1>b. \A r \in Runs : run[r] \in Run /\ RunShape(run[r]) /\ RunSound(After(r))
  BY MovedSteps DEF FeedTypeInv, FeedTypeOK
<1>c. feed.acked \in BOOLEAN /\ tally.streak \in Nat
  BY DEF FeedTypeInv, FeedTypeOK, Feed
<1>1. ASSUME NEW r \in Runs, NEW step, Launch(r, step), RunSound(step), step.job = NoJob,
             jobs' = jobs, active' = active
      PROVE  RunsKeepJobs
  BY <1>1, NoRunSound, Launched, JobKept
<1>2. \A r \in Runs : After(r).job = run[r].job
  BY <1>b, NoRunSound DEF After, RunShape, Run
<1>3. ASSUME NEW r \in Runs, BulkFetch(r) \/ ListAll(r) PROVE RunsKeepJobs
  <2>1. PICK step : Launch(r, step) /\ RunSound(step) /\ step.job = NoJob
    BY <1>3, <1>c, LaunchedSteps, LaunchedJobs DEF BulkFetch, ListAll
  <2> QED
    BY <1>1, <1>3, <2>1 DEF BulkFetch, ListAll
<1>4. ASSUME NEW r \in Runs, KeepListed(r) PROVE RunsKeepJobs
  <2>1. RunSound([run[r] EXCEPT !.at = "gate"]) /\ [run[r] EXCEPT !.at = "gate"].job = run[r].job
    BY <1>4, <1>b, MovedSteps DEF KeepListed, Run
  <2>2. NoRun.job = run[r].job
    BY <1>4, <1>b, NoRunSound DEF KeepListed, RunShape
  <2>3. Do(r, [run[r] EXCEPT !.at = "gate"]) \/ Do(r, NoRun)
    BY <1>4 DEF KeepListed, DoAt
  <2> QED
    BY <1>4, <2>1, <2>2, <2>3, NoRunSound, JobKept DEF KeepListed
<1>5. ASSUME NEW r \in Runs, Gate(r) PROVE RunsKeepJobs
  <2>1. PICK rule \in Rules :
          Do(r, IF Passes(r, rule) THEN [run[r] EXCEPT !.at = "import", !.rule = rule]
                ELSE [run[r] EXCEPT !.at = IF run[r].kind = "job" THEN "finish" ELSE "record",
                                    !.rule = rule])
    BY <1>5 DEF Gate
  <2> DEFINE through == [run[r] EXCEPT !.at = "import", !.rule = rule]
             stopped == [run[r] EXCEPT !.at = IF run[r].kind = "job" THEN "finish" ELSE "record", !.rule = rule]
  <2>a. RunSound(through) /\ RunSound(stopped)
    BY MovedSteps
  <2>b. through.job = run[r].job /\ stopped.job = run[r].job
    BY <1>b, MovedJobs
  <2>c. Do(r, through) \/ Do(r, stopped)
    BY <2>1
  <2> HIDE DEF through, stopped
  <2>2. PICK step : Do(r, step) /\ RunSound(step) /\ step.job = run[r].job
    BY <2>a, <2>b, <2>c
  <2> QED
    BY <1>5, <2>2, JobKept DEF Gate
<1>6. ASSUME NEW r \in Runs, Import(r) PROVE RunsKeepJobs
  <2>1. PICK ok \in BOOLEAN : Do(r, [run[r] EXCEPT !.at = "record", !.ok = ok])
    BY <1>6 DEF Import
  <2>a. RunSound([run[r] EXCEPT !.at = "record", !.ok = ok])
    BY MovedSteps
  <2>b. [run[r] EXCEPT !.at = "record", !.ok = ok].job = run[r].job
    BY <1>b, MovedJobs
  <2>2. RunSound([run[r] EXCEPT !.at = "record", !.ok = ok]) /\ [run[r] EXCEPT !.at = "record", !.ok = ok].job = run[r].job
    BY <2>a, <2>b
  <2> QED
    BY <1>6, <2>1, <2>2, JobKept DEF Import
<1>7. ASSUME NEW r \in Runs, RecordResult(r) PROVE RunsKeepJobs
  <2>1. RunSound([run[r] EXCEPT !.at = "alert", !.streak = tally.streak])
        /\ [run[r] EXCEPT !.at = "alert", !.streak = tally.streak].job = run[r].job
    BY <1>b, <1>c, MovedSteps DEF Run
  <2>2. PICK step : Do(r, step) /\ RunSound(step) /\ step.job = run[r].job
    BY <1>7, <1>b, <1>2, <2>1 DEF RecordResult
  <2> QED
    BY <1>7, <2>2, JobKept DEF RecordResult
<1>8. ASSUME NEW r \in Runs, NotifyAdmins(r) PROVE RunsKeepJobs
  BY <1>8, <1>b, <1>2, JobKept DEF NotifyAdmins
<1>9. ASSUME NEW r \in Runs, NEW at \in {"save", "approve"}, NEW ack \in BOOLEAN, CheckSave(r, at, ack)
      PROVE  RunsKeepJobs
  <2>1. PICK rule \in Rules : Launch(r, [NoRun EXCEPT !.at = at, !.kind = "manual", !.rule = rule])
    BY <1>9 DEF CheckSave
  <2>2. PICK step : Launch(r, step) /\ RunSound(step) /\ step.job = NoJob
    BY <2>1, LaunchedSteps, LaunchedJobs
  <2> QED
    BY <1>1, <1>9, <2>2 DEF CheckSave
<1>10. ASSUME NEW r \in Runs, ApproveSuggestion(r) PROVE RunsKeepJobs
  <2>1. RunSound([run[r] EXCEPT !.at = "save"]) /\ [run[r] EXCEPT !.at = "save"].job = run[r].job
    BY <1>10, <1>b, MovedSteps DEF ApproveSuggestion, RunShape, Run
  <2> QED
    BY <1>10, <2>1, JobKept DEF ApproveSuggestion, DoAt
<1>11. ASSUME NEW r \in Runs, RejectRead(r) PROVE RunsKeepJobs
  <2>1. PICK step : Launch(r, step) /\ RunSound(step) /\ step.job = NoJob
    BY <1>11, LaunchedSteps, LaunchedJobs DEF RejectRead
  <2> QED
    BY <1>1, <1>11, <2>1 DEF RejectRead
<1>12. ASSUME NEW r \in Runs, RejectSuggestion(r) PROVE RunsKeepJobs
  <2>1. run[r].job = NoJob
    BY <1>12, <1>b DEF RejectSuggestion, RunShape
  <2> QED
    BY <1>12, <2>1, NoRunSound, JobKept DEF RejectSuggestion
<1>13. ASSUME NEW r \in Runs, SaveFeed(r) PROVE RunsKeepJobs
  <2>1. /\ RunSound([run[r] EXCEPT !.at = "acknowledge"]) /\ RunSound([run[r] EXCEPT !.at = "gate"])
        /\ [run[r] EXCEPT !.at = "acknowledge"].job = run[r].job
        /\ [run[r] EXCEPT !.at = "gate"].job = run[r].job
    BY <1>13, <1>b, MovedSteps DEF SaveFeed, RunShape, Run
  <2>2. PICK step : Do(r, step) /\ RunSound(step) /\ step.job = run[r].job
    BY <1>13, <2>1 DEF SaveFeed, DoAt
  <2> QED
    BY <1>13, <2>2, JobKept DEF SaveFeed
<1>14. ASSUME NEW r \in Runs, AckRead(r) PROVE RunsKeepJobs
  <2>1. PICK step : Launch(r, step) /\ RunSound(step) /\ step.job = NoJob
    BY <1>14, LaunchedSteps, LaunchedJobs DEF AckRead
  <2> QED
    BY <1>1, <1>14, <2>1 DEF AckRead
<1>15. ASSUME NEW r \in Runs, Acknowledge(r) PROVE RunsKeepJobs
  <2>1. /\ RunSound([run[r] EXCEPT !.at = "gate", !.acked = TRUE])
        /\ [run[r] EXCEPT !.at = "gate", !.acked = TRUE].job = run[r].job
    BY <1>b, MovedSteps DEF Run
  <2>2. run[r].kind # "manual" => run[r].job = NoJob
    BY <1>15, <1>b DEF Acknowledge, RunShape
  <2>3. PICK step : Do(r, step) /\ RunSound(step) /\ step.job = run[r].job
    BY <1>15, <2>1, <2>2, NoRunSound DEF Acknowledge
  <2> QED
    BY <1>15, <2>3, JobKept DEF Acknowledge
<1>16. CASE CacheExpires
  <2>1. ASSUME NEW r \in Runs PROVE run'[r].job = run[r].job
    BY <1>16, <1>b DEF CacheExpires, Outdated, Run
  <2> QED
    BY <1>16, <2>1 DEF CacheExpires, RunsKeepJobs
<1>17. CASE DeleteFeed \/ HostChanges \/ UNCHANGED feedVars \/ \E optOut \in BOOLEAN : PatchFeed(optOut)
  BY <1>17 DEF DeleteFeed, HostChanges, PatchFeed, feedVars, RunsKeepJobs
<1> QED
  BY <1>3, <1>4, <1>5, <1>6, <1>7, <1>8, <1>9, <1>10, <1>11, <1>12, <1>13, <1>14, <1>15, <1>16, <1>17
     DEF FeedNext

LEMMA RegistryInit == FeedInit => RegistrySound
  BY FeedsAssumption, NoRunSound DEF FeedInit, RegistrySound

\* A run is a job's if and only if it has one.
LEMMA JobRuns ==
  ASSUME FeedTypeInv
  PROVE  \A r \in Runs : run[r].kind = "job" <=> run[r].job # NoJob
  BY DEF FeedTypeInv, RunShape

LEMMA RegistryStep == FeedTypeInv /\ RegistrySound /\ [FeedNext]_feedVars => RegistrySound'
<1> SUFFICES ASSUME FeedTypeInv, RegistrySound, [FeedNext]_feedVars PROVE RegistrySound'
  OBVIOUS
<1>a. FeedTypeInv'
  BY FeedTypeStep
<1>b. \A r \in Runs : (run[r].kind = "job" <=> run[r].job # NoJob) /\ run[r].job \in Jobs \cup {NoJob}
  BY JobRuns, RunFields DEF FeedTypeInv, FeedTypeOK
<1>c. \A r \in Runs : run'[r].kind = "job" <=> run'[r].job # NoJob
  BY <1>a DEF FeedTypeInv, RunShape
<1>d. active \in Jobs \cup {NoJob} /\ jobs \in [Jobs -> {"none", "running", "ok", "error", "gone"}]
      /\ NoJob \notin Jobs
  BY FeedsAssumption DEF FeedTypeInv, FeedTypeOK
<1>1. CASE RunsKeepJobs
  <2>1. \A j : Working(j)' = Working(j)
    BY <1>1 DEF RunsKeepJobs, Working
  <2> QED
    BY <1>1, <1>b, <1>c, <2>1 DEF RunsKeepJobs, RegistrySound
<1>2. ASSUME NEW r \in Runs, NEW j \in Jobs, StartJob(r, j) PROVE RegistrySound'
  <2> DEFINE step == [NoRun EXCEPT !.at = "gate", !.kind = "job", !.job = j, !.acked = feed.acked]
  <2>1. RunSound(step) /\ step.job = j
    <3>1. feed.acked \in BOOLEAN
      BY DEF FeedTypeInv, FeedTypeOK, Feed
    <3> QED
      BY <3>1, LaunchedSteps DEF NoRun
  <2>2. Launch(r, step) /\ jobs' = [jobs EXCEPT ![j] = "running"] /\ active' = j /\ active = NoJob
    BY <1>2 DEF StartJob
  <2> HIDE DEF step
  <2>3. run'[r].job = j /\ \A q \in Runs \ {r} : run'[q] = run[q]
    BY <2>1, <2>2, Launched, Moved
  <2>4. \A q \in Runs : run[q].job = NoJob
    BY <1>b, <2>2 DEF RegistrySound
  <2>5. Working(j)' = {r}
    BY <1>d, <2>3, <2>4 DEF Working
  <2>6. \A i \in Jobs : jobs'[i] = "running" <=> active' = i
    BY <1>d, <2>2 DEF RegistrySound
  <2>7. \A q \in Runs : run'[q].kind = "job" => run'[q].job = active'
    BY <1>c, <2>2, <2>3, <2>4
  <2> QED
    BY <2>2, <2>5, <2>6, <2>7 DEF RegistrySound, Working
<1>3. ASSUME NEW r \in Runs, FinishJob(r) PROVE RegistrySound'
  <2>1. run[r].kind = "job" /\ run[r].job = active /\ active \in Jobs
    BY <1>3, <1>b, <1>d DEF FinishJob, FeedTypeInv, RunShape, RegistrySound
  <2>2. Working(active) = {r}
    BY <1>d, <2>1 DEF RegistrySound, Working
  <2>3. run'[r] = NoRun /\ \A q \in Runs \ {r} : run'[q] = run[q]
    BY <1>3, NoRunSound, Moved DEF FinishJob
  <2>4. \A q \in Runs : run'[q].kind # "job"
    <3> SUFFICES ASSUME NEW q \in Runs, q # r, run[q].kind = "job" PROVE FALSE
      BY <2>3, NoRunSound
    <3>1. run[q].job = active
      BY DEF RegistrySound
    <3> QED
      BY <2>2, <3>1 DEF Working
  <2>5. active' = NoJob /\ \A i \in Jobs : jobs'[i] # "running"
    BY <1>3, <1>d, <2>1 DEF FinishJob, RegistrySound
  <2> QED
    BY <1>d, <2>4, <2>5 DEF RegistrySound
<1>4. ASSUME NEW j \in Jobs, Prune(j) PROVE RegistrySound'
  <2>1. /\ jobs[j] # "running" /\ jobs' = [jobs EXCEPT ![j] = "gone"] /\ UNCHANGED <<active, run>>
    BY <1>4 DEF Prune, Prunable
  <2>2. \A i \in Jobs : jobs'[i] = "running" <=> active' = i
    BY <1>d, <2>1 DEF RegistrySound
  <2>3. \A i : Working(i)' = Working(i)
    BY <2>1 DEF Working
  <2> QED
    BY <2>1, <2>2, <2>3 DEF RegistrySound
<1>5. CASE FeedCrash
  <2>1. /\ \A i \in Jobs : jobs'[i] # "running"
        /\ active' = NoJob /\ \A r \in Runs : run'[r] = NoRun
    BY <1>5 DEF FeedCrash
  <2> QED
    BY <1>d, <2>1, NoRunSound DEF RegistrySound
<1> QED
  BY <1>1, <1>2, <1>3, <1>4, <1>5, OthersKeepJobs

\* The registry names exactly the job that runs, and one goroutine works on it: for any
\* numbers of jobs, bulk and periodic runs, prunings and restarts.
THEOREM RegistryTheorem == FeedSpec => []RegistrySound
<1> QED
  BY FeedTypeInit, FeedTypeStep, RegistryInit, RegistryStep, PTL DEF FeedSpec

-----------------------------------------------------------------------------
(* robots.txt.  The periodic run has seen the answer "free", and it is in   *)
(* the cache until it expires, which renews the answer.                     *)

Allowed(x) ==
  /\ x.acked => feed.acked
  /\ x.at = "import" /\ x.rule = "blocked" => x.acked /\ (x.kind = "auto" => x.refreshed)
  /\ x.at = "gate" /\ x.kind = "auto" /\ ~x.refreshed => robots.cached = "free"
RobotsInv == \A r \in Runs : Allowed(run[r])

\* What every step owes the runs it does not move.
Lasting == (feed.acked => feed'.acked) /\ (robots.cached = "free" => robots'.cached = "free")

LEMMA AllowedMove ==
  ASSUME FeedTypeInv, RobotsInv, NEW r \in Runs, NEW step, RunSound(step), Do(r, step), Lasting,
         step.acked => feed'.acked,
         step.at = "import" /\ step.rule = "blocked" => step.acked /\ (step.kind = "auto" => step.refreshed),
         step.at = "gate" /\ step.kind = "auto" /\ ~step.refreshed => robots'.cached = "free"
  PROVE  RobotsInv'
<1>1. ASSUME NEW q \in Runs PROVE Allowed(run[q])'
  <2>1. CASE q = r
    <3>1. run'[q] = step
      BY <2>1, Moved
    <3> QED
      BY <3>1 DEF Allowed
  <2>2. CASE q # r
    <3>1. run'[q] = run[q] /\ Allowed(run[q])
      BY <2>2, Moved DEF RobotsInv
    <3> QED
      BY <3>1 DEF Allowed, Lasting
  <2> QED
    BY <2>1, <2>2
<1> QED
  BY <1>1 DEF RobotsInv

\* A run that goes on as it is, but not to robots.txt and not to the import.
LEMMA AllowedLater ==
  ASSUME FeedTypeInv, RobotsInv, NEW r \in Runs, NEW step, RunSound(step), Do(r, step), Lasting,
         step.at \notin {"gate", "import"}, step.acked => run[r].acked
  PROVE  RobotsInv'
  BY AllowedMove DEF RobotsInv, Allowed, Lasting

LEMMA RobotsInit == FeedInit => RobotsInv
  BY NoRunSound DEF FeedInit, RobotsInv, Allowed

LEMMA RobotsStep == FeedTypeInv /\ RobotsInv /\ [FeedNext]_feedVars => RobotsInv'
<1> SUFFICES ASSUME FeedTypeInv, RobotsInv, [FeedNext]_feedVars PROVE RobotsInv'
  OBVIOUS
<1>a. \A r \in Runs : run[r] \in Run /\ RunShape(run[r]) /\ Allowed(run[r])
  BY DEF FeedTypeInv, FeedTypeOK, RobotsInv
<1>b. feed \in Feed /\ feed.acked \in BOOLEAN /\ tally.streak \in Nat
      /\ robots \in [says : Rules, cached : Rules \cup {"none"}]
  BY DEF FeedTypeInv, FeedTypeOK, Feed
<1>c. ASSUME NEW rule \in Rules, Rule(rule) PROVE robots.cached = "free" => robots'.cached = "free"
  BY <1>c, Asked
<1>d. \A r \in Runs : /\ RunSound(After(r)) /\ After(r).at \notin {"gate", "import"}
                      /\ After(r).acked => run[r].acked
  BY <1>a, MovedSteps, NoRunSound DEF After, Run
<1>1. ASSUME NEW r \in Runs, NEW j \in Jobs, StartJob(r, j) PROVE RobotsInv'
  <2> DEFINE step == [NoRun EXCEPT !.at = "gate", !.kind = "job", !.job = j, !.acked = feed.acked]
  <2>1. RunSound(step)
    BY <1>b, LaunchedSteps
  <2>2. step.acked = feed.acked /\ step.at = "gate" /\ step.kind = "job"
    BY DEF NoRun
  <2>3. Launch(r, step) /\ UNCHANGED <<feed, robots>>
    BY <1>1 DEF StartJob
  <2> HIDE DEF step
  <2> QED
    BY <2>1, <2>2, <2>3, Launched, AllowedMove DEF Lasting
<1>2. ASSUME NEW r \in Runs, FinishJob(r) PROVE RobotsInv'
  BY <1>2, NoRunSound, AllowedLater DEF FinishJob, Lasting
<1>3. ASSUME NEW r \in Runs, BulkFetch(r) PROVE RobotsInv'
  <2> DEFINE step == [NoRun EXCEPT !.at = "gate", !.kind = "manual", !.acked = feed.acked]
  <2>1. RunSound(step)
    BY <1>b, LaunchedSteps
  <2>2. step.acked = feed.acked /\ step.at = "gate" /\ step.kind = "manual"
    BY DEF NoRun
  <2>3. Launch(r, step) /\ UNCHANGED <<feed, robots>>
    BY <1>3 DEF BulkFetch
  <2> HIDE DEF step
  <2> QED
    BY <2>1, <2>2, <2>3, Launched, AllowedMove DEF Lasting
<1>4. ASSUME NEW r \in Runs, ListAll(r) PROVE RobotsInv'
  <2> DEFINE step == [NoRun EXCEPT !.at = "listed", !.kind = "auto", !.acked = feed.acked]
  <2>1. RunSound(step)
    BY <1>b, LaunchedSteps
  <2>2. step.acked = feed.acked /\ step.at = "listed"
    BY DEF NoRun
  <2>3. Launch(r, step) /\ UNCHANGED <<feed, robots>>
    BY <1>4 DEF ListAll
  <2> HIDE DEF step
  <2> QED
    BY <2>1, <2>2, <2>3, Launched, AllowedMove DEF Lasting
<1>5. ASSUME NEW r \in Runs, KeepListed(r) PROVE RobotsInv'
  <2>1. PICK rule \in Rules : Rule(rule) /\ IF Kept(rule) THEN DoAt(r, "gate") ELSE Do(r, NoRun)
    BY <1>5 DEF KeepListed
  <2>2. Lasting
    BY <1>5, <1>c, <2>1 DEF KeepListed, Lasting
  <2>3. CASE Kept(rule)
    <3> DEFINE step == [run[r] EXCEPT !.at = "gate"]
    <3>1. RunSound(step)
      BY <1>5, MovedSteps DEF KeepListed
    <3>2. step.at = "gate" /\ step.acked = run[r].acked
      BY <1>a DEF Run
    <3>3. robots'.cached = "free"
      BY <2>1, <2>3, Asked DEF Kept
    <3>4. Do(r, step) /\ (run[r].acked => feed'.acked)
      BY <1>a, <2>1, <2>2, <2>3 DEF DoAt, Allowed, Lasting
    <3> HIDE DEF step
    <3> QED
      BY <2>2, <3>1, <3>2, <3>3, <3>4, AllowedMove
  <2>4. CASE ~Kept(rule)
    BY <2>1, <2>2, <2>4, NoRunSound, AllowedLater
  <2> QED
    BY <2>3, <2>4
<1>6. ASSUME NEW r \in Runs, Gate(r) PROVE RobotsInv'
  <2>1. PICK rule \in Rules :
          /\ Rule(rule)
          /\ Do(r, IF Passes(r, rule) THEN [run[r] EXCEPT !.at = "import", !.rule = rule]
                   ELSE [run[r] EXCEPT !.at = IF run[r].kind = "job" THEN "finish" ELSE "record",
                                       !.rule = rule])
    BY <1>6 DEF Gate
  <2>2. Lasting
    BY <1>6, <1>c, <2>1 DEF Gate, Lasting
  <2>3. CASE Passes(r, rule)
    <3> DEFINE step == [run[r] EXCEPT !.at = "import", !.rule = rule]
    <3>1. RunSound(step)
      BY MovedSteps
    <3>2. /\ step.at = "import" /\ step.rule = rule /\ step.acked = run[r].acked
          /\ step.kind = run[r].kind /\ step.refreshed = run[r].refreshed
      BY <1>a DEF Run
    <3>3. rule = "blocked" => run[r].acked
      BY <2>3 DEF Passes
    <3>4. rule = "blocked" /\ run[r].kind = "auto" => run[r].refreshed
      <4>1. robots.cached = "free" => rule = "free"
        BY <2>1, Asked
      <4> QED
        BY <1>6, <1>a, <4>1 DEF Gate, Allowed
    <3>5. Do(r, step) /\ (run[r].acked => feed'.acked)
      BY <1>a, <2>1, <2>2, <2>3 DEF Allowed, Lasting
    <3> HIDE DEF step
    <3> QED
      BY <2>2, <3>1, <3>2, <3>3, <3>4, <3>5, AllowedMove
  <2>4. CASE ~Passes(r, rule)
    <3> DEFINE step == [run[r] EXCEPT !.at = IF run[r].kind = "job" THEN "finish" ELSE "record",
                                      !.rule = rule]
    <3>1. RunSound(step)
      BY MovedSteps
    <3>2. step.at \notin {"gate", "import"} /\ step.acked = run[r].acked
      BY <1>a DEF Run
    <3>3. Do(r, step)
      BY <2>1, <2>4
    <3> HIDE DEF step
    <3> QED
      BY <2>2, <3>1, <3>2, <3>3, AllowedLater
  <2> QED
    BY <2>3, <2>4
<1>7. ASSUME NEW r \in Runs, Import(r) PROVE RobotsInv'
  <2>1. PICK ok \in BOOLEAN : Do(r, [run[r] EXCEPT !.at = "record", !.ok = ok])
    BY <1>7 DEF Import
  <2> DEFINE step == [run[r] EXCEPT !.at = "record", !.ok = ok]
  <2>2. RunSound(step)
    BY MovedSteps
  <2>3. step.at = "record" /\ step.acked = run[r].acked
    BY <1>a DEF Run
  <2>4. Do(r, step) /\ Lasting
    BY <1>7, <2>1 DEF Import, Lasting
  <2> HIDE DEF step
  <2> QED
    BY <2>2, <2>3, <2>4, AllowedLater
<1>8. ASSUME NEW r \in Runs, RecordResult(r) PROVE RobotsInv'
  <2> DEFINE step == [run[r] EXCEPT !.at = "alert", !.streak = tally.streak]
  <2>1. RunSound(step)
    BY <1>b, MovedSteps
  <2>2. step.at = "alert" /\ step.acked = run[r].acked
    BY <1>a DEF Run
  <2>3. Do(r, step) \/ Do(r, After(r))
    BY <1>8 DEF RecordResult
  <2>4. Lasting
    BY <1>8, <1>b DEF RecordResult, Lasting, Feed
  <2> HIDE DEF step
  <2> QED
    BY <1>d, <2>1, <2>2, <2>3, <2>4, AllowedLater
<1>9. ASSUME NEW r \in Runs, NotifyAdmins(r) PROVE RobotsInv'
  <2>1. Do(r, After(r)) /\ Lasting
    BY <1>9 DEF NotifyAdmins, Lasting
  <2> QED
    BY <1>d, <2>1, AllowedLater
<1>10. ASSUME NEW r \in Runs, NEW at \in {"save", "approve"}, NEW ack \in BOOLEAN, CheckSave(r, at, ack)
       PROVE  RobotsInv'
  <2>1. PICK rule \in Rules : Rule(rule) /\ Launch(r, [NoRun EXCEPT !.at = at, !.kind = "manual", !.rule = rule])
    BY <1>10 DEF CheckSave
  <2> DEFINE step == [NoRun EXCEPT !.at = at, !.kind = "manual", !.rule = rule]
  <2>2. RunSound(step)
    BY LaunchedSteps
  <2>3. step.at \in {"save", "approve"} /\ ~step.acked
    BY DEF NoRun
  <2>4. Lasting
    BY <1>10, <1>c, <2>1 DEF CheckSave, Lasting
  <2> HIDE DEF step
  <2>5. Do(r, step)
    BY <2>1, Launched DEF step
  <2> QED
    BY <2>2, <2>3, <2>4, <2>5, AllowedLater
<1>11. ASSUME NEW r \in Runs, ApproveSuggestion(r) PROVE RobotsInv'
  <2> DEFINE step == [run[r] EXCEPT !.at = "save"]
  <2>1. RunSound(step)
    BY <1>11, <1>a, MovedSteps DEF ApproveSuggestion, RunShape
  <2>2. step.at = "save" /\ step.acked = run[r].acked
    BY <1>a DEF Run
  <2>3. Do(r, step) /\ Lasting
    BY <1>11 DEF ApproveSuggestion, DoAt, Lasting
  <2> HIDE DEF step
  <2> QED
    BY <2>1, <2>2, <2>3, AllowedLater
<1>12. ASSUME NEW r \in Runs, RejectRead(r) PROVE RobotsInv'
  <2>1. RunSound([NoRun EXCEPT !.at = "reject"])
    BY LaunchedSteps
  <2>2. [NoRun EXCEPT !.at = "reject"].at = "reject" /\ ~[NoRun EXCEPT !.at = "reject"].acked
    BY DEF NoRun
  <2>3. Do(r, [NoRun EXCEPT !.at = "reject"]) /\ Lasting
    BY <1>12, Launched DEF RejectRead, Lasting
  <2> QED
    BY <2>1, <2>2, <2>3, AllowedLater
<1>13. ASSUME NEW r \in Runs, RejectSuggestion(r) PROVE RobotsInv'
  BY <1>13, NoRunSound, AllowedLater DEF RejectSuggestion, Lasting
<1>14. ASSUME NEW r \in Runs, SaveFeed(r) PROVE RobotsInv'
  <2>1. Lasting /\ (run[r].acked => feed'.acked)
    BY <1>14, <1>a, <1>b DEF SaveFeed, Saved, Feed, Lasting, Allowed
  <2>2. RunSound([run[r] EXCEPT !.at = "acknowledge"]) /\ RunSound([run[r] EXCEPT !.at = "gate"])
        /\ run[r].kind = "manual"
    BY <1>14, <1>a, MovedSteps DEF SaveFeed, RunShape
  <2>3. /\ [run[r] EXCEPT !.at = "acknowledge"].at = "acknowledge"
        /\ [run[r] EXCEPT !.at = "acknowledge"].acked = run[r].acked
        /\ [run[r] EXCEPT !.at = "gate"].at = "gate" /\ [run[r] EXCEPT !.at = "gate"].kind = run[r].kind
        /\ [run[r] EXCEPT !.at = "gate"].acked = run[r].acked
    BY <1>a DEF Run
  <2>4. CASE Do(r, [run[r] EXCEPT !.at = "acknowledge"])
    BY <2>1, <2>2, <2>3, <2>4, AllowedLater
  <2>5. CASE Do(r, [run[r] EXCEPT !.at = "gate"])
    BY <2>1, <2>2, <2>3, <2>5, AllowedMove
  <2> QED
    BY <1>14, <2>4, <2>5 DEF SaveFeed, DoAt
<1>15. ASSUME NEW r \in Runs, AckRead(r) PROVE RobotsInv'
  <2>1. PICK rule \in Rules : Rule(rule) /\ Launch(r, [NoRun EXCEPT !.at = "acknowledge"])
    BY <1>15 DEF AckRead
  <2>2. RunSound([NoRun EXCEPT !.at = "acknowledge"])
    BY LaunchedSteps
  <2>3. [NoRun EXCEPT !.at = "acknowledge"].at = "acknowledge" /\ ~[NoRun EXCEPT !.at = "acknowledge"].acked
    BY DEF NoRun
  <2>4. Do(r, [NoRun EXCEPT !.at = "acknowledge"]) /\ Lasting
    BY <1>15, <1>c, <2>1, Launched DEF AckRead, Lasting
  <2> QED
    BY <2>2, <2>3, <2>4, AllowedLater
<1>16. ASSUME NEW r \in Runs, Acknowledge(r) PROVE RobotsInv'
  <2>1. Lasting /\ feed'.acked
    BY <1>16, <1>b DEF Acknowledge, Feed, Lasting
  <2>2. CASE run[r].kind = "manual"
    <3> DEFINE step == [run[r] EXCEPT !.at = "gate", !.acked = TRUE]
    <3>1. RunSound(step)
      BY MovedSteps
    <3>2. step.at = "gate" /\ step.kind = "manual"
      BY <1>a, <2>2 DEF Run
    <3>3. Do(r, step)
      BY <1>16, <2>2 DEF Acknowledge
    <3> HIDE DEF step
    <3> QED
      BY <2>1, <3>1, <3>2, <3>3, AllowedMove
  <2>3. CASE run[r].kind # "manual"
    BY <1>16, <2>1, <2>3, NoRunSound, AllowedLater DEF Acknowledge
  <2> QED
    BY <2>2, <2>3
<1>17. CASE CacheExpires
  <2>1. ASSUME NEW r \in Runs PROVE Allowed(run[r])'
    <3>1. run'[r] = IF run[r] = NoRun THEN NoRun ELSE [run[r] EXCEPT !.refreshed = TRUE]
      BY <1>17 DEF CacheExpires, Outdated
    <3>2. feed' = feed
      BY <1>17 DEF CacheExpires
    <3>3. CASE run[r] = NoRun
      BY <3>1, <3>3, NoRunSound DEF Allowed
    <3>4. CASE run[r] # NoRun
      <4>1. /\ run'[r].acked = run[r].acked /\ run'[r].at = run[r].at /\ run'[r].rule = run[r].rule
            /\ run'[r].refreshed
        BY <1>a, <3>1, <3>4 DEF Run
      <4> QED
        BY <1>a, <3>2, <4>1 DEF Allowed
    <3> QED
      BY <3>3, <3>4
  <2> QED
    BY <2>1 DEF RobotsInv
<1>18. CASE FeedCrash
  <2>1. \A r \in Runs : run'[r] = NoRun
    BY <1>18 DEF FeedCrash
  <2> QED
    BY <2>1, NoRunSound DEF RobotsInv, Allowed
<1>19. CASE run' = run /\ feed'.acked = feed.acked /\ robots'.cached = robots.cached
  BY <1>19 DEF RobotsInv, Allowed
<1>20. ASSUME NEW j \in Jobs, Prune(j) PROVE RobotsInv'
  BY <1>19, <1>20 DEF Prune
<1>21. ASSUME NEW optOut \in BOOLEAN, PatchFeed(optOut) PROVE RobotsInv'
  BY <1>19, <1>21, <1>b DEF PatchFeed, Feed
<1>22. CASE DeleteFeed \/ HostChanges \/ UNCHANGED feedVars
  BY <1>19, <1>22, <1>b DEF DeleteFeed, HostChanges, feedVars, Feed
<1> QED
  BY <1>1, <1>2, <1>3, <1>4, <1>5, <1>6, <1>7, <1>8, <1>9, <1>10, <1>11, <1>12, <1>13, <1>14, <1>15,
     <1>16, <1>17, <1>18, <1>20, <1>21, <1>22 DEF FeedNext

\* A feed that robots.txt disallows is imported only with an acknowledgement in its row,
\* and by the periodic run only when the answer was renewed after the run had looked.
THEOREM AcknowledgedTheorem == FeedSpec => []DisallowedOnlyAcknowledged
<1>1. RobotsInv => DisallowedOnlyAcknowledged
  BY DEF RobotsInv, Allowed, DisallowedOnlyAcknowledged
<1> QED
  BY <1>1, FeedTypeInit, FeedTypeStep, RobotsInit, RobotsStep, PTL DEF FeedSpec

-----------------------------------------------------------------------------
(* Alerts.  A streak below the threshold has no alert yet, and the streaks  *)
(* of the runs that are about to alert are all different.                   *)

Alerts(r) == run[r].at = "alert"
Covered ==
  \/ tally.streak \in tally.alerted
  \/ \E r \in Runs : Alerts(r) /\ run[r].streak = tally.streak
Untold ==
  /\ tally.streak \notin tally.alerted
  /\ \A r \in Runs : Alerts(r) => run[r].streak # tally.streak
Numbered ==
  /\ ~tally.twice
  /\ \A n \in tally.alerted : n <= tally.streak
  /\ \A r \in Runs : Alerts(r) => run[r].streak <= tally.streak /\ run[r].streak \notin tally.alerted
  /\ \A r, q \in Runs : Alerts(r) /\ Alerts(q) /\ run[r].streak = run[q].streak => r = q
AlertInv ==
  /\ Numbered
  /\ Known /\ feed.failures >= AlertAfter => Covered
  /\ Known /\ feed.failures < AlertAfter => Untold
  /\ feed.st = "none" => feed.failures = 0 /\ Untold

\* What every step but a recorded result, an alert and a crash leaves alone.
Silent ==
  /\ tally' = tally
  /\ \A r \in Runs : /\ Alerts(r)' = Alerts(r)
                     /\ Alerts(r) => run'[r].streak = run[r].streak
  /\ feed'.failures = feed.failures
  /\ feed'.st = feed.st \/ feed'.st = "gone" \/ (feed.st = "none" /\ feed'.st = "there")

LEMMA AlertsKept ==
  ASSUME FeedTypeInv, AlertInv, Silent
  PROVE  AlertInv'
<1>1. feed.failures \in Nat /\ AlertAfter \in Nat \ {0}
  BY FeedsAssumption DEF FeedTypeInv, FeedTypeOK, Feed
<1>2. (Covered => Covered') /\ (Untold => Untold') /\ Numbered'
  BY DEF AlertInv, Silent, Covered, Untold, Numbered, Alerts
<1>3. Known' => Known \/ feed.st = "none"
  BY DEF Silent, Known
<1> QED
  BY <1>1, <1>2, <1>3 DEF AlertInv, Silent, Known

LEMMA SilentMove ==
  ASSUME FeedTypeInv, NEW r \in Runs, NEW step, RunSound(step), Do(r, step),
         ~Alerts(r), step.at # "alert", tally' = tally, feed'.failures = feed.failures,
         feed'.st = feed.st \/ feed'.st = "gone" \/ (feed.st = "none" /\ feed'.st = "there")
  PROVE  Silent
  BY Moved DEF Silent, Alerts

LEMMA AlertsInit == FeedInit => AlertInv
<1> SUFFICES ASSUME FeedInit PROVE AlertInv
  OBVIOUS
<1>1. \A r \in Runs : ~Alerts(r)
  BY NoRunSound DEF FeedInit, Alerts
<1>2. feed.failures = 0 /\ tally = [streak |-> 0, alerted |-> {}, twice |-> FALSE]
  BY DEF FeedInit
<1> QED
  BY <1>1, <1>2, FeedsAssumption DEF AlertInv, Numbered, Untold, Covered

LEMMA AfterSound ==
  ASSUME FeedTypeInv, NEW r \in Runs
  PROVE  run[r] \in Run /\ RunSound(After(r)) /\ After(r).at # "alert"
<1>1. run[r] \in Run
  BY DEF FeedTypeInv, FeedTypeOK
<1>2. After(r).at # "alert"
  BY <1>1, NoRunSound DEF After, Run
<1> QED
  BY <1>1, <1>2, MovedSteps

LEMMA AlertsByResult ==
  ASSUME FeedTypeInv, AlertInv, NEW r \in Runs, RecordResult(r)
  PROVE  AlertInv'
<1>a. feed \in Feed /\ feed.failures \in Nat /\ AlertAfter \in Nat \ {0} /\ tally.streak \in Nat
      /\ tally \in [streak : Nat, alerted : SUBSET Nat, twice : BOOLEAN]
  BY FeedsAssumption DEF FeedTypeInv, FeedTypeOK, Feed
<1>b. run[r] \in Run /\ RunSound(After(r)) /\ After(r).at # "alert" /\ ~Alerts(r)
  BY AfterSound DEF Alerts, RecordResult
<1>c. \A q \in Runs : Alerts(q) => run[q].streak \in Nat
  BY RunFields DEF FeedTypeInv, FeedTypeOK
<1>1. CASE run[r].ok /\ Known /\ feed.failures > 0
  <2>1. /\ feed' = [feed EXCEPT !.failures = 0] /\ Do(r, After(r))
        /\ tally' = [tally EXCEPT !.streak = @ + 1]
    BY <1>1 DEF RecordResult
  <2>2. \A q \in Runs : /\ Alerts(q)' = Alerts(q)
                        /\ Alerts(q) => run'[q].streak = run[q].streak
    BY <1>b, <2>1, Moved DEF Alerts
  <2>3. feed'.failures = 0 /\ feed'.st = "there"
    BY <1>1, <1>a, <2>1 DEF Feed, Known
  <2>4. tally'.streak = tally.streak + 1 /\ tally'.alerted = tally.alerted /\ tally'.twice = tally.twice
    BY <1>a, <2>1
  <2>5. Numbered' /\ Untold'
    BY <1>a, <1>c, <2>2, <2>4 DEF AlertInv, Numbered, Untold, Alerts
  <2> QED
    BY <1>a, <2>3, <2>5 DEF AlertInv
<1>2. CASE run[r].ok /\ ~(Known /\ feed.failures > 0)
  <2>1. feed' = [feed EXCEPT !.failures = 0] /\ Do(r, After(r)) /\ tally' = tally
    BY <1>2 DEF RecordResult
  <2>2. \A q \in Runs : /\ Alerts(q)' = Alerts(q)
                        /\ Alerts(q) => run'[q].streak = run[q].streak
    BY <1>b, <2>1, Moved DEF Alerts
  <2>3. feed'.failures = 0 /\ feed'.st = feed.st /\ (Known => feed.failures = 0)
    BY <1>2, <1>a, <2>1 DEF Feed
  <2>4. Numbered' /\ (Untold => Untold')
    BY <2>1, <2>2 DEF AlertInv, Numbered, Untold, Alerts
  <2> QED
    BY <1>a, <2>3, <2>4 DEF AlertInv, Known
<1>3. CASE ~run[r].ok /\ Known /\ Alerting(feed.failures + 1)
  <2> DEFINE step == [run[r] EXCEPT !.at = "alert", !.streak = tally.streak]
  <2>1. feed' = [feed EXCEPT !.failures = feed.failures + 1] /\ Do(r, step) /\ tally' = tally
    BY <1>3 DEF RecordResult
  <2>2. RunSound(step)
    BY <1>a, MovedSteps
  <2>3. step.at = "alert" /\ step.streak = tally.streak
    BY <1>b DEF Run
  <2> HIDE DEF step
  <2>4. run'[r] = step /\ \A q \in Runs \ {r} : run'[q] = run[q]
    BY <2>1, <2>2, Moved
  <2>5. feed'.failures = feed.failures + 1 /\ feed'.st = "there" /\ feed.failures + 1 = AlertAfter
    BY <1>3, <1>a, <2>1 DEF Feed, Known, Alerting
  <2>6. Untold
    BY <1>3, <1>a, <2>5 DEF AlertInv
  <2>7. Covered'
    BY <2>1, <2>3, <2>4 DEF Covered, Alerts
  <2>8. Numbered'
    BY <1>a, <2>1, <2>3, <2>4, <2>6 DEF AlertInv, Numbered, Untold, Alerts
  <2> QED
    BY <1>a, <2>5, <2>7, <2>8 DEF AlertInv
<1>4. CASE ~run[r].ok /\ ~(Known /\ Alerting(feed.failures + 1))
  <2>1. /\ feed' = IF Known THEN [feed EXCEPT !.failures = feed.failures + 1] ELSE feed
        /\ Do(r, After(r)) /\ tally' = tally
    BY <1>4 DEF RecordResult
  <2>2. \A q \in Runs : /\ Alerts(q)' = Alerts(q)
                        /\ Alerts(q) => run'[q].streak = run[q].streak
    BY <1>b, <2>1, Moved DEF Alerts
  <2>3. /\ feed'.st = feed.st
        /\ Known => feed'.failures = feed.failures + 1 /\ feed'.failures # AlertAfter
        /\ ~Known => feed'.failures = feed.failures
    BY <1>4, <1>a, <2>1 DEF Feed, Alerting
  <2>4. Numbered' /\ (Untold => Untold') /\ (Covered => Covered')
    BY <2>1, <2>2 DEF AlertInv, Numbered, Untold, Covered, Alerts
  <2> QED
    BY <1>a, <2>3, <2>4 DEF AlertInv, Known
<1> QED
  BY <1>1, <1>2, <1>3, <1>4

LEMMA AlertsByAlert ==
  ASSUME FeedTypeInv, AlertInv, NEW r \in Runs, NotifyAdmins(r)
  PROVE  AlertInv'
<1>a. tally \in [streak : Nat, alerted : SUBSET Nat, twice : BOOLEAN]
  BY DEF FeedTypeInv, FeedTypeOK
<1>b. run[r] \in Run /\ RunSound(After(r)) /\ After(r).at # "alert"
  BY AfterSound
<1>1. /\ Alerts(r) /\ Do(r, After(r)) /\ feed' = feed
      /\ tally'.streak = tally.streak /\ tally'.alerted = tally.alerted \cup {run[r].streak}
      /\ tally'.twice = (tally.twice \/ run[r].streak \in tally.alerted)
  BY <1>a DEF NotifyAdmins, Alerts
<1>2. ~Alerts(r)' /\ \A q \in Runs \ {r} : run'[q] = run[q]
  BY <1>b, <1>1, Moved DEF Alerts
<1>3. ~tally'.twice
  BY <1>1 DEF AlertInv, Numbered
<1>4. Numbered'
  BY <1>1, <1>2, <1>3 DEF AlertInv, Numbered, Alerts
<1>5. (Untold => Untold') /\ (Covered => Covered')
  BY <1>1, <1>2 DEF Untold, Covered, Alerts
<1> QED
  BY <1>1, <1>4, <1>5 DEF AlertInv, Known

LEMMA AlertsByCrash ==
  ASSUME FeedTypeInv, AlertInv, FeedCrash
  PROVE  AlertInv'
<1>a. tally \in [streak : Nat, alerted : SUBSET Nat, twice : BOOLEAN]
  BY DEF FeedTypeInv, FeedTypeOK
<1>1. /\ feed' = feed /\ \A r \in Runs : ~Alerts(r)'
      /\ tally'.streak = tally.streak /\ tally'.twice = tally.twice
      /\ tally'.alerted = tally.alerted \cup {run[r].streak : r \in {x \in Runs : Alerts(x)}}
  BY <1>a, NoRunSound DEF FeedCrash, Alerts
<1>2. Numbered' /\ (Untold => Untold') /\ (Covered => Covered')
  BY <1>1 DEF AlertInv, Numbered, Untold, Covered
<1> QED
  BY <1>1, <1>2 DEF AlertInv, Known

LEMMA OthersSilent ==
  ASSUME FeedTypeInv, [FeedNext]_feedVars, ~FeedCrash, \A r \in Runs : ~RecordResult(r) /\ ~NotifyAdmins(r)
  PROVE  Silent
<1>a. \A r \in Runs : run[r] \in Run /\ RunShape(run[r])
  BY DEF FeedTypeInv, FeedTypeOK
<1>b. feed \in Feed /\ feed.acked \in BOOLEAN
  BY DEF FeedTypeInv, FeedTypeOK, Feed
<1>1. ASSUME NEW r \in Runs, NEW step, Launch(r, step), RunSound(step), step.at # "alert",
             UNCHANGED <<feed, tally>>
      PROVE  Silent
  BY <1>1, NoRunSound, Launched, SilentMove DEF Alerts
<1>2. ASSUME NEW r \in Runs, NEW j \in Jobs, StartJob(r, j) PROVE Silent
  <2> DEFINE step == [NoRun EXCEPT !.at = "gate", !.kind = "job", !.job = j, !.acked = feed.acked]
  <2>1. RunSound(step)
    BY <1>b, LaunchedSteps
  <2>2. step.at = "gate"
    BY DEF NoRun
  <2>3. Launch(r, step) /\ UNCHANGED <<feed, tally>>
    BY <1>2 DEF StartJob
  <2> HIDE DEF step
  <2> QED
    BY <1>1, <2>1, <2>2, <2>3
<1>3. ASSUME NEW r \in Runs, BulkFetch(r) PROVE Silent
  <2> DEFINE step == [NoRun EXCEPT !.at = "gate", !.kind = "manual", !.acked = feed.acked]
  <2>1. RunSound(step)
    BY <1>b, LaunchedSteps
  <2>2. step.at = "gate"
    BY DEF NoRun
  <2>3. Launch(r, step) /\ UNCHANGED <<feed, tally>>
    BY <1>3 DEF BulkFetch
  <2> HIDE DEF step
  <2> QED
    BY <1>1, <2>1, <2>2, <2>3
<1>4. ASSUME NEW r \in Runs, ListAll(r) PROVE Silent
  <2> DEFINE step == [NoRun EXCEPT !.at = "listed", !.kind = "auto", !.acked = feed.acked]
  <2>1. RunSound(step)
    BY <1>b, LaunchedSteps
  <2>2. step.at = "listed"
    BY DEF NoRun
  <2>3. Launch(r, step) /\ UNCHANGED <<feed, tally>>
    BY <1>4 DEF ListAll
  <2> HIDE DEF step
  <2> QED
    BY <1>1, <2>1, <2>2, <2>3
<1>5. ASSUME NEW r \in Runs, KeepListed(r) PROVE Silent
  <2>1. (Do(r, [run[r] EXCEPT !.at = "gate"]) \/ Do(r, NoRun)) /\ UNCHANGED <<feed, tally>> /\ ~Alerts(r)
    BY <1>5 DEF KeepListed, DoAt, Alerts
  <2>2. RunSound([run[r] EXCEPT !.at = "gate"])
    BY <1>5, MovedSteps DEF KeepListed
  <2>3. [run[r] EXCEPT !.at = "gate"].at = "gate"
    BY <1>a DEF Run
  <2> QED
    BY <2>1, <2>2, <2>3, NoRunSound, SilentMove
<1>6. ASSUME NEW r \in Runs, Gate(r) PROVE Silent
  <2>1. PICK rule \in Rules :
          Do(r, IF Passes(r, rule) THEN [run[r] EXCEPT !.at = "import", !.rule = rule]
                ELSE [run[r] EXCEPT !.at = IF run[r].kind = "job" THEN "finish" ELSE "record",
                                    !.rule = rule])
    BY <1>6 DEF Gate
  <2> DEFINE through == [run[r] EXCEPT !.at = "import", !.rule = rule]
             stopped == [run[r] EXCEPT !.at = IF run[r].kind = "job" THEN "finish" ELSE "record", !.rule = rule]
  <2>2. RunSound(through) /\ RunSound(stopped)
    BY MovedSteps
  <2>3. through.at # "alert" /\ stopped.at # "alert"
    BY <1>a DEF Run
  <2>4. (Do(r, through) \/ Do(r, stopped)) /\ UNCHANGED <<feed, tally>> /\ ~Alerts(r)
    BY <1>6, <2>1 DEF Gate, Alerts
  <2> HIDE DEF through, stopped
  <2> QED
    BY <2>2, <2>3, <2>4, SilentMove
<1>7. ASSUME NEW r \in Runs, Import(r) PROVE Silent
  <2>1. PICK ok \in BOOLEAN : Do(r, [run[r] EXCEPT !.at = "record", !.ok = ok])
    BY <1>7 DEF Import
  <2> DEFINE step == [run[r] EXCEPT !.at = "record", !.ok = ok]
  <2>2. RunSound(step)
    BY MovedSteps
  <2>3. step.at = "record"
    BY <1>a DEF Run
  <2>4. Do(r, step) /\ UNCHANGED <<feed, tally>> /\ ~Alerts(r)
    BY <1>7, <2>1 DEF Import, Alerts
  <2> HIDE DEF step
  <2> QED
    BY <2>2, <2>3, <2>4, SilentMove
<1>8. ASSUME NEW r \in Runs, FinishJob(r) \/ RejectSuggestion(r) PROVE Silent
  <2>1. Do(r, NoRun) /\ UNCHANGED <<feed, tally>> /\ ~Alerts(r)
    BY <1>8 DEF FinishJob, RejectSuggestion, Alerts
  <2> QED
    BY <2>1, NoRunSound, SilentMove
<1>9. ASSUME NEW r \in Runs, NEW at \in {"save", "approve"}, NEW ack \in BOOLEAN, CheckSave(r, at, ack)
      PROVE  Silent
  <2>1. PICK rule \in Rules : Launch(r, [NoRun EXCEPT !.at = at, !.kind = "manual", !.rule = rule])
    BY <1>9 DEF CheckSave
  <2> DEFINE step == [NoRun EXCEPT !.at = at, !.kind = "manual", !.rule = rule]
  <2>2. RunSound(step)
    BY LaunchedSteps
  <2>3. step.at # "alert"
    BY DEF NoRun
  <2>4. Launch(r, step) /\ UNCHANGED <<feed, tally>>
    BY <1>9, <2>1 DEF CheckSave
  <2> HIDE DEF step
  <2> QED
    BY <1>1, <2>2, <2>3, <2>4
<1>10. ASSUME NEW r \in Runs, ApproveSuggestion(r) PROVE Silent
  <2>1. RunSound([run[r] EXCEPT !.at = "save"])
    BY <1>10, <1>a, MovedSteps DEF ApproveSuggestion, RunShape
  <2>2. [run[r] EXCEPT !.at = "save"].at = "save"
    BY <1>a DEF Run
  <2>3. Do(r, [run[r] EXCEPT !.at = "save"]) /\ UNCHANGED <<feed, tally>> /\ ~Alerts(r)
    BY <1>10 DEF ApproveSuggestion, DoAt, Alerts
  <2> QED
    BY <2>1, <2>2, <2>3, SilentMove
<1>11. ASSUME NEW r \in Runs, RejectRead(r) \/ AckRead(r) PROVE Silent
  <2>1. RunSound([NoRun EXCEPT !.at = "reject"]) /\ RunSound([NoRun EXCEPT !.at = "acknowledge"])
    BY LaunchedSteps
  <2>2. /\ [NoRun EXCEPT !.at = "reject"].at = "reject"
        /\ [NoRun EXCEPT !.at = "acknowledge"].at = "acknowledge"
    BY DEF NoRun
  <2>3. /\ Launch(r, [NoRun EXCEPT !.at = "reject"]) \/ Launch(r, [NoRun EXCEPT !.at = "acknowledge"])
        /\ UNCHANGED <<feed, tally>>
    BY <1>11 DEF RejectRead, AckRead
  <2> QED
    BY <1>1, <2>1, <2>2, <2>3
<1>12. ASSUME NEW r \in Runs, SaveFeed(r) PROVE Silent
  <2>1. /\ feed'.failures = feed.failures
        /\ feed'.st = feed.st \/ (feed.st = "none" /\ feed'.st = "there")
    BY <1>12, <1>b DEF SaveFeed, Saved, Feed
  <2>2. RunSound([run[r] EXCEPT !.at = "acknowledge"]) /\ RunSound([run[r] EXCEPT !.at = "gate"])
    BY <1>12, <1>a, MovedSteps DEF SaveFeed, RunShape
  <2>3. /\ [run[r] EXCEPT !.at = "acknowledge"].at = "acknowledge"
        /\ [run[r] EXCEPT !.at = "gate"].at = "gate"
    BY <1>a DEF Run
  <2>4. /\ Do(r, [run[r] EXCEPT !.at = "acknowledge"]) \/ Do(r, [run[r] EXCEPT !.at = "gate"])
        /\ tally' = tally /\ ~Alerts(r)
    BY <1>12 DEF SaveFeed, DoAt, Alerts
  <2> QED
    BY <2>1, <2>2, <2>3, <2>4, SilentMove
<1>13. ASSUME NEW r \in Runs, Acknowledge(r) PROVE Silent
  <2>1. feed'.failures = feed.failures /\ feed'.st = feed.st /\ tally' = tally /\ ~Alerts(r)
    BY <1>13, <1>b DEF Acknowledge, Feed, Alerts
  <2> DEFINE step == [run[r] EXCEPT !.at = "gate", !.acked = TRUE]
  <2>2. RunSound(step)
    BY MovedSteps
  <2>3. step.at = "gate"
    BY <1>a DEF Run
  <2>4. Do(r, step) \/ Do(r, NoRun)
    BY <1>13 DEF Acknowledge
  <2> HIDE DEF step
  <2> QED
    BY <2>1, <2>2, <2>3, <2>4, NoRunSound, SilentMove
<1>14. CASE CacheExpires
  <2>1. ASSUME NEW r \in Runs
        PROVE  /\ Alerts(r)' = Alerts(r) /\ run'[r].streak = run[r].streak
    <3>1. run'[r] = IF run[r] = NoRun THEN NoRun ELSE [run[r] EXCEPT !.refreshed = TRUE]
      BY <1>14 DEF CacheExpires, Outdated
    <3>2. run'[r].at = run[r].at /\ run'[r].streak = run[r].streak
      BY <1>a, <3>1 DEF Run
    <3> QED
      BY <3>2 DEF Alerts
  <2> QED
    BY <1>14, <2>1 DEF CacheExpires, Silent
<1>15. CASE DeleteFeed \/ \E optOut \in BOOLEAN : PatchFeed(optOut)
  BY <1>15, <1>b DEF DeleteFeed, PatchFeed, Feed, Silent, Alerts
<1>16. CASE HostChanges \/ UNCHANGED feedVars \/ \E j \in Jobs : Prune(j)
  BY <1>16 DEF HostChanges, feedVars, Prune, Silent, Alerts
<1> QED
  BY <1>2, <1>3, <1>4, <1>5, <1>6, <1>7, <1>8, <1>9, <1>10, <1>11, <1>12, <1>13, <1>14, <1>15, <1>16
     DEF FeedNext

LEMMA AlertsStep == FeedTypeInv /\ AlertInv /\ [FeedNext]_feedVars => AlertInv'
  BY AlertsKept, AlertsByResult, AlertsByAlert, AlertsByCrash, OthersSilent

\* A streak of failures alerts once, when it gets to the threshold, for any number of
\* overlapping runs and any threshold.
THEOREM AlertTheorem == FeedSpec => []AlertOncePerStreak
<1>1. AlertInv => AlertOncePerStreak
  BY DEF AlertInv, Numbered, Covered, Alerts, AlertOncePerStreak
<1> QED
  BY <1>1, FeedTypeInit, FeedTypeStep, AlertsInit, AlertsStep, PTL DEF FeedSpec
================================================================================
