-------------------------------- MODULE Feeds --------------------------------
(***************************************************************************)
(* One feed of cmd/dansal and its runs: background jobs of one registry     *)
(* (fetch_jobs.go), bulk runs, the periodic run over all feeds (admin.go),  *)
(* and the run that ends saving a feed (fetchurl.go) or approving one that  *)
(* a visitor suggested (fetchurl_suggest_approve.go); robots.txt and its    *)
(* cache (robotstxt_import.go); the count of failures and the alert.        *)
(* What an import does to an event is in Events; here it succeeds or fails. *)
(*                                                                         *)
(* A feed that was deleted is not saved again (it would get a new row).     *)
(***************************************************************************)
EXTENDS Naturals

CONSTANTS
  Jobs,       \* job ids
  Runs,       \* concurrently running imports and requests
  NoJob,
  AlertAfter, \* fetchFailureAlertThreshold
  MaxRuns,    \* bound: runs and requests that are begun
  MaxTurns    \* bound: restarts, expiries of the cache, changes of robots.txt

ASSUME FeedsAssumption ==
  /\ NoJob \notin Jobs
  /\ AlertAfter \in Nat \ {0}
  /\ MaxRuns \in Nat /\ MaxTurns \in Nat

Rules == {"free", "blocked"}
Feed == [st : {"none", "there", "gone"}, acked : BOOLEAN, optOut : BOOLEAN, failures : Nat]
RunSteps == {"off", "listed", "gate", "import", "record", "alert", "finish",
             "save", "approve", "acknowledge", "reject"}
Run == [at : RunSteps, kind : {"", "auto", "manual", "job"}, job : Jobs \cup {NoJob},
        acked : BOOLEAN, rule : Rules, ok : BOOLEAN,
        streak : Nat, refreshed : BOOLEAN]

VARIABLES
  feed,        \* the row of fetch_sources
  robots,      \* robots.txt of its host, and robotsImportCache
  jobs,        \* fetchJobs.jobs
  active,      \* fetchJobs.running of the feed
  run,         \* run[r]: the step goroutine or request r executes next
               \* (streak and refreshed are ghosts)
  suggestion,  \* the row of pending_fetch_suggestions
  usage,       \* how far the bounds have been used
  tally        \* ghosts: see FeedInit

feedVars == <<feed, robots, jobs, active, run, suggestion, usage, tally>>

NoRun == [at |-> "off", kind |-> "", job |-> NoJob, acked |-> FALSE, rule |-> "free", ok |-> FALSE,
          streak |-> 0, refreshed |-> FALSE]

FeedInit ==
  /\ \E st \in {"none", "there"} :
       feed = [st |-> st, acked |-> FALSE, optOut |-> FALSE, failures |-> 0]
  /\ \E says \in Rules : robots = [says |-> says, cached |-> "none"]
  /\ jobs = [j \in Jobs |-> "none"]
  /\ active = NoJob
  /\ run = [r \in Runs |-> NoRun]
  /\ suggestion = "pending"
  /\ usage = [runs |-> 0, turns |-> 0]
  /\ tally = [streak |-> 0,     \* failures in a row are numbered by the successes before
              alerted |-> {},   \* streaks that an alert was sent for
              twice |-> FALSE]  \* one of them got a second

Known == feed.st = "there"
Do(r, step) == run' = [run EXCEPT ![r] = step]
DoAt(r, at) == Do(r, [run[r] EXCEPT !.at = at])
Launch(r, step) ==
  /\ run[r] = NoRun
  /\ usage.runs < MaxRuns
  /\ usage' = [usage EXCEPT !.runs = @ + 1]
  /\ Do(r, step)

\* robotsDisallowRule: the cached answer, or a new one; when robots.txt cannot be
\* had, everything is allowed.
Rule(rule) ==
  IF robots.cached # "none" THEN rule = robots.cached /\ robots' = robots
  ELSE rule \in {robots.says, "free"} /\ robots' = [robots EXCEPT !.cached = rule]

-----------------------------------------------------------------------------
(* Jobs                                                                    *)

\* fetchJobRegistry.start: a running job is returned instead of a second one.
StartJob(r, j) ==
  /\ Known /\ active = NoJob
  /\ jobs[j] = "none"
  /\ Launch(r, [NoRun EXCEPT !.at = "gate", !.kind = "job", !.job = j, !.acked = feed.acked])
  /\ jobs' = [jobs EXCEPT ![j] = "running"]
  /\ active' = j
  /\ UNCHANGED <<feed, robots, suggestion, tally>>

\* pruneLocked: only finished jobs are dropped, after fetchJobRetention.
PrunableAny(j) == jobs[j] \in {"running", "ok", "error"}  \* mutant: running ones too
Prunable(j) == jobs[j] \in {"ok", "error"}
Prune(j) ==
  /\ Prunable(j)
  /\ jobs' = [jobs EXCEPT ![j] = "gone"]
  /\ UNCHANGED <<feed, robots, active, run, suggestion, usage, tally>>

\* The end of execute.
FinishJob(r) ==
  /\ run[r].at = "finish"
  /\ jobs' = [jobs EXCEPT ![run[r].job] = IF run[r].ok THEN "ok" ELSE "error"]
  /\ active' = NoJob
  /\ Do(r, NoRun)
  /\ UNCHANGED <<feed, robots, suggestion, usage, tally>>

-----------------------------------------------------------------------------
(* Other runs                                                              *)

\* bulkFetchURLsByIDs reads the row and imports, whatever jobs are running.
BulkFetch(r) ==
  /\ Known
  /\ Launch(r, [NoRun EXCEPT !.at = "gate", !.kind = "manual", !.acked = feed.acked])
  /\ UNCHANGED <<feed, robots, jobs, active, suggestion, tally>>

\* adminFetchAll lists the feeds that have not opted out, then leaves out those
\* that robots.txt disallows, acknowledged or not.
ListAll(r) ==
  /\ Known /\ ~feed.optOut
  /\ Launch(r, [NoRun EXCEPT !.at = "listed", !.kind = "auto", !.acked = feed.acked])
  /\ UNCHANGED <<feed, robots, jobs, active, suggestion, tally>>
KeptIfAcknowledged(rule) == rule = "free" \/ feed.acked  \* mutant: as for a manual run
Kept(rule) == rule = "free"
KeepListed(r) ==
  /\ run[r].at = "listed"
  /\ \E rule \in Rules :
       /\ Rule(rule)
       /\ IF Kept(rule) THEN DoAt(r, "gate") ELSE Do(r, NoRun)
  /\ UNCHANGED <<feed, jobs, active, suggestion, usage, tally>>

\* importFromSource: robots.txt once more; then the fetch and the transaction.
Passes(r, rule) == rule = "free" \/ run[r].acked
Gate(r) ==
  /\ run[r].at = "gate"
  /\ \E rule \in Rules :
       /\ Rule(rule)
       /\ Do(r, IF Passes(r, rule) THEN [run[r] EXCEPT !.at = "import", !.rule = rule]
                ELSE [run[r] EXCEPT !.at = IF run[r].kind = "job" THEN "finish" ELSE "record",
                                    !.rule = rule])
  /\ UNCHANGED <<feed, jobs, active, suggestion, usage, tally>>

Import(r) ==
  /\ run[r].at = "import"
  /\ \E ok \in BOOLEAN : Do(r, [run[r] EXCEPT !.at = "record", !.ok = ok])
  /\ UNCHANGED <<feed, robots, jobs, active, suggestion, usage, tally>>

\* recordFetchResult: one UPDATE, which returns the new count, then the alert.
AlertingAlways(failures) == failures >= AlertAfter  \* mutant: at every failure after
Alerting(failures) == failures = AlertAfter
After(r) == IF run[r].kind = "job" THEN [run[r] EXCEPT !.at = "finish"] ELSE NoRun
RecordResult(r) ==
  /\ run[r].at = "record"
  /\ LET n == feed.failures + 1 IN
       IF run[r].ok
       THEN /\ feed' = [feed EXCEPT !.failures = 0]
            /\ Do(r, After(r))
            /\ tally' = IF Known /\ feed.failures > 0 THEN [tally EXCEPT !.streak = @ + 1] ELSE tally
       ELSE /\ feed' = IF Known THEN [feed EXCEPT !.failures = n] ELSE feed
            /\ Do(r, IF Known /\ Alerting(n)
                     THEN [run[r] EXCEPT !.at = "alert", !.streak = tally.streak] ELSE After(r))
            /\ tally' = tally
  /\ UNCHANGED <<robots, jobs, active, suggestion, usage>>

NotifyAdmins(r) ==
  /\ run[r].at = "alert"
  /\ tally' = [tally EXCEPT !.alerted = @ \cup {run[r].streak},
                            !.twice = @ \/ run[r].streak \in tally.alerted]
  /\ Do(r, After(r))
  /\ UNCHANGED <<feed, robots, jobs, active, suggestion, usage>>

-----------------------------------------------------------------------------
(* Saving and changing the feed                                            *)

\* fetchURL and approveFetchSuggestionHandler ask robots.txt before they write.
CheckSave(r, at, ack) ==
  /\ at \in {"save", "approve"}
  /\ at = "approve" => suggestion = "pending"
  /\ feed.st # "gone"
  /\ \E rule \in Rules :
       /\ Rule(rule)
       /\ rule = "blocked" => ack
       /\ Launch(r, [NoRun EXCEPT !.at = at, !.kind = "manual", !.rule = rule])
  /\ UNCHANGED <<feed, jobs, active, suggestion, tally>>

\* The transaction of an approval, and a rejection, decide without looking again.
ApproveSuggestion(r) ==
  /\ run[r].at = "approve"
  /\ suggestion' = "approved"
  /\ DoAt(r, "save")
  /\ UNCHANGED <<feed, robots, jobs, active, usage, tally>>

RejectRead(r) ==
  /\ suggestion = "pending"
  /\ Launch(r, [NoRun EXCEPT !.at = "reject"])
  /\ UNCHANGED <<feed, robots, jobs, active, suggestion, tally>>
RejectSuggestion(r) ==
  /\ run[r].at = "reject"
  /\ suggestion' = "rejected"
  /\ Do(r, NoRun)
  /\ UNCHANGED <<feed, robots, jobs, active, usage, tally>>

\* upsertFetchSource, and recordRobotsAck, which also marks the copy of the row
\* that is imported next; without a rule that copy carries no acknowledgement.
Saved == IF feed.st = "none" THEN [feed EXCEPT !.st = "there"] ELSE feed
SaveFeed(r) ==
  /\ run[r].at = "save"
  /\ feed' = Saved
  /\ IF run[r].rule = "blocked" THEN DoAt(r, "acknowledge") ELSE DoAt(r, "gate")
  /\ UNCHANGED <<robots, jobs, active, suggestion, usage, tally>>

\* robotsAckFetchSource ends with the same write.
AckRead(r) ==
  /\ Known
  /\ \E rule \in Rules :
       /\ Rule(rule) /\ rule = "blocked"
       /\ Launch(r, [NoRun EXCEPT !.at = "acknowledge"])
  /\ UNCHANGED <<feed, jobs, active, suggestion, tally>>
Acknowledge(r) ==
  /\ run[r].at = "acknowledge"
  /\ feed' = [feed EXCEPT !.acked = TRUE]
  /\ Do(r, IF run[r].kind = "manual" THEN [run[r] EXCEPT !.at = "gate", !.acked = TRUE] ELSE NoRun)
  /\ UNCHANGED <<robots, jobs, active, suggestion, usage, tally>>

\* patchFetchSource: acknowledgement and count are not among its columns.
PatchFeed(optOut) ==
  /\ Known /\ optOut # feed.optOut
  /\ feed' = [feed EXCEPT !.optOut = optOut]
  /\ UNCHANGED <<robots, jobs, active, run, suggestion, usage, tally>>

\* deleteFetchSource, bulkDeleteFetchSources.
DeleteFeed ==
  /\ Known
  /\ feed' = [feed EXCEPT !.st = "gone"]
  /\ UNCHANGED <<robots, jobs, active, run, suggestion, usage, tally>>

-----------------------------------------------------------------------------
(* The host, time, restarts                                                *)

Turn == usage.turns < MaxTurns /\ usage' = [usage EXCEPT !.turns = @ + 1]
\* Whoever asked before the answer changes has an old one.
Outdated == [r \in Runs |-> IF run[r] = NoRun THEN NoRun ELSE [run[r] EXCEPT !.refreshed = TRUE]]
HostChanges ==
  /\ Turn
  /\ \E says \in Rules : says # robots.says /\ robots' = [robots EXCEPT !.says = says]
  /\ UNCHANGED <<feed, jobs, active, run, suggestion, tally>>
CacheExpires ==
  /\ Turn /\ robots.cached # "none"
  /\ robots' = [robots EXCEPT !.cached = "none"]
  /\ run' = Outdated
  /\ UNCHANGED <<feed, jobs, active, suggestion, tally>>
FeedCrash ==
  /\ Turn
  /\ robots' = [robots EXCEPT !.cached = "none"]
  /\ jobs' = [j \in Jobs |-> IF jobs[j] = "none" THEN "none" ELSE "gone"]
  /\ active' = NoJob
  /\ tally' = [tally EXCEPT !.alerted = @ \cup {run[r].streak : r \in {x \in Runs : run[x].at = "alert"}}]
  /\ run' = [r \in Runs |-> NoRun]
  /\ UNCHANGED <<feed, suggestion>>

FeedNext ==
  \/ \E r \in Runs :
       \/ \E j \in Jobs : StartJob(r, j)
       \/ FinishJob(r) \/ BulkFetch(r) \/ ListAll(r) \/ KeepListed(r)
       \/ Gate(r) \/ Import(r) \/ RecordResult(r) \/ NotifyAdmins(r)
       \/ \E at \in {"save", "approve"}, ack \in BOOLEAN : CheckSave(r, at, ack)
       \/ ApproveSuggestion(r) \/ RejectRead(r) \/ RejectSuggestion(r)
       \/ SaveFeed(r) \/ AckRead(r) \/ Acknowledge(r)
  \/ \E j \in Jobs : Prune(j)
  \/ \E optOut \in BOOLEAN : PatchFeed(optOut)
  \/ DeleteFeed \/ HostChanges \/ CacheExpires \/ FeedCrash

FeedSpec == FeedInit /\ [][FeedNext]_feedVars

-----------------------------------------------------------------------------
(* Properties                                                              *)

FeedTypeOK ==
  /\ feed \in Feed
  /\ robots \in [says : Rules, cached : Rules \cup {"none"}]
  /\ jobs \in [Jobs -> {"none", "running", "ok", "error", "gone"}]
  /\ active \in Jobs \cup {NoJob}
  /\ run \in [Runs -> Run]
  /\ suggestion \in {"pending", "approved", "rejected"}
  /\ usage \in [runs : 0 .. MaxRuns, turns : 0 .. MaxTurns]
  /\ tally \in [streak : Nat, alerted : SUBSET Nat, twice : BOOLEAN]

\* The registry knows every job that runs and only those: the feed's slot names
\* a job that is there and running, one goroutine works on it, and the slot is
\* given back (start, execute and pruneLocked; API.md on one run per source).
Working(j) == {r \in Runs : run[r].job = j}
RegistrySound ==
  /\ \A j \in Jobs : jobs[j] = "running" <=> active = j
  /\ \A r \in Runs : run[r].kind = "job" => run[r].job = active
  /\ active # NoJob => \E r \in Runs : Working(active) = {r}

\* However many runs of the feed overlap, a streak of failures alerts the admins
\* once, when it gets to the threshold (recordFetchResult); a crash may cost the
\* alert.
AlertOncePerStreak ==
  /\ ~tally.twice
  /\ Known /\ feed.failures >= AlertAfter =>
       \/ tally.streak \in tally.alerted
       \/ \E r \in Runs : run[r].at = "alert" /\ run[r].streak = tally.streak

\* A feed that robots.txt disallows is fetched only with an acknowledgement in
\* its row, and by the periodic run only if the answer was renewed after the
\* run had looked (importFromSource, adminFetchAll, recordRobotsAck).
DisallowedOnlyAcknowledged ==
  \A r \in Runs : run[r].at = "import" /\ run[r].rule = "blocked" =>
    /\ feed.acked
    /\ run[r].kind = "auto" => run[r].refreshed
=============================================================================
