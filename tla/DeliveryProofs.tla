--------------------------- MODULE DeliveryProofs ---------------------------
(* Machine-checked proofs about Delivery, for every value of its constants. *)
EXTENDS Delivery, FiniteSetTheorems, TLAPS

-----------------------------------------------------------------------------
(* Types.  A process that ends a Move or a Create needs organisations to go *)
(* on with, so a job's address is part of the invariant.                    *)

Addressed(p, j) ==
  j.at \in {"deliver", "answer", "reset"} =>
    /\ j.act.kind \in {"Move", "Create"} => j.org \in Orgs
    /\ j.act.kind = "Move" => j.peer \in Orgs
    /\ p \in Workers /\ j.act.kind = "Create" => j.peer \in Orgs

TypeInv == TypeOK /\ \A p \in Procs : Addressed(p, job[p])

\* What a job's program counter says about its fields.
LEMMA JobShapes ==
  ASSUME NEW j \in Job
  PROVE  /\ j.at \in {"deliver", "answer", "reset"} =>
              /\ j.act \in Activity /\ j.org \in Targets /\ j.peer \in Orgs \cup {Hidden}
              /\ j.list \in SUBSET Followers /\ j.todo \in SUBSET Followers
         /\ j.at = "answer" => j.to \in Followers /\ j.ok \in BOOLEAN
         /\ j.at = "reset" => j.to \in Followers
         /\ j.at \in {"cleared", "bump", "drop"} => j.row \in Failure
         /\ j.at = "retried" => j.row \in Failure /\ j.ok \in BOOLEAN
         /\ j.at \in {"relay", "history", "delete"} => j.event \in Events /\ j.org \in Orgs
         /\ j.at = "update" => j.event \in Events
         /\ j.at \in {"create", "moved", "mark"} =>
              j.event \in Events /\ j.org \in Orgs /\ j.peer \in Orgs
  BY DEF Job

LEMMA RestForms ==
  [at |-> "idle"] \in Job /\ [at |-> "retry"] \in Job /\ [at |-> "visit"] \in Job
  BY DEF Job

LEMMA DeliverForm ==
  ASSUME NEW act \in Activity, NEW t \in Targets, NEW o \in Orgs \cup {Hidden},
         NEW list \in SUBSET Followers, NEW todo \in SUBSET Followers
  PROVE  [at |-> "deliver", act |-> act, org |-> t, peer |-> o, list |-> list,
          todo |-> todo] \in Job
  BY DEF Job

LEMMA AnswerForm ==
  ASSUME NEW act \in Activity, NEW t \in Targets, NEW o \in Orgs \cup {Hidden},
         NEW list \in SUBSET Followers, NEW todo \in SUBSET Followers,
         NEW f \in Followers, NEW ok \in BOOLEAN
  PROVE  [at |-> "answer", act |-> act, org |-> t, peer |-> o, list |-> list,
          todo |-> todo, to |-> f, ok |-> ok] \in Job
  BY DEF Job

LEMMA ResetForm ==
  ASSUME NEW act \in Activity, NEW t \in Targets, NEW o \in Orgs \cup {Hidden},
         NEW list \in SUBSET Followers, NEW todo \in SUBSET Followers, NEW f \in Followers
  PROVE  [at |-> "reset", act |-> act, org |-> t, peer |-> o, list |-> list,
          todo |-> todo, to |-> f] \in Job
  BY DEF Job

LEMMA RetriedForms ==
  ASSUME NEW r \in Failure, NEW ok \in BOOLEAN
  PROVE  /\ [at |-> "retried", row |-> r, ok |-> ok] \in Job
         /\ \A a \in {"cleared", "bump", "drop"} : [at |-> a, row |-> r] \in Job
  BY DEF Job

LEMMA EventForms ==
  ASSUME NEW e \in Events
  PROVE  /\ [at |-> "update", event |-> e] \in Job
         /\ \A a \in {"relay", "history", "delete"}, o \in Orgs :
              [at |-> a, event |-> e, org |-> o] \in Job
  BY DEF Job

LEMMA TransferForms ==
  ASSUME NEW a \in {"create", "moved", "mark"}, NEW e \in Events, NEW o \in Orgs, NEW q \in Orgs
  PROVE  [at |-> a, event |-> e, org |-> o, peer |-> q] \in Job
  BY DEF Job

LEMMA JobSteps ==
  ASSUME NEW j \in Job, j.at \in {"create", "moved"}
  PROVE  /\ [j EXCEPT !.at = "moved"] \in Job /\ [j EXCEPT !.at = "moved"].at = "moved"
         /\ [j EXCEPT !.at = "mark"] \in Job /\ [j EXCEPT !.at = "mark"].at = "mark"
  BY DEF Job

LEMMA DropStep ==
  ASSUME NEW j \in Job, j.at = "bump"
  PROVE  [j EXCEPT !.at = "drop"] = [at |-> "drop", row |-> j.row]
  BY DEF Job

LEMMA ActivityShapes ==
  ASSUME NEW a \in Activity
  PROVE  /\ a.event \in Events
         /\ a.kind \in {"Create", "Delete", "Update", "Move", "Announce"}
  BY DEF Activity

LEMMA ActivityForms ==
  /\ \A e \in Events : /\ Plain("Create", e) \in Activity /\ Plain("Create", e).kind = "Create"
                       /\ Plain("Delete", e) \in Activity /\ Plain("Delete", e).kind = "Delete"
  /\ fresh \in Nat =>
       \A e \in Events, k \in {"Update", "Move", "Announce"} :
         Stamped(k, e) \in Activity /\ Stamped(k, e).kind = k
  BY DEF Plain, Stamped, Activity

LEMMA FailureShapes ==
  ASSUME NEW r \in Failure
  PROVE  /\ r.act \in Activity /\ r.org \in Targets /\ r.to \in Followers
         /\ r.tries \in 1..MaxAttempts
         /\ [r EXCEPT !.due = TRUE] \in Failure
         /\ \A n \in 1..MaxAttempts : [r EXCEPT !.tries = n, !.due = FALSE] \in Failure
  BY DEF Failure

LEMMA NewFailureType ==
  ASSUME NEW act \in Activity, NEW t \in Targets, NEW f \in Followers
  PROVE  NewFailure(act, t, f) \subseteq Failure
<1>1. 1 \in 1..MaxAttempts
  BY DeliveryAssumption
<1>2. [act |-> act, org |-> t, to |-> f, tries |-> 1, due |-> FALSE] \in Failure
  BY <1>1 DEF Failure
<1>. QED  BY <1>2 DEF NewFailure, InsertUnless

LEMMA DeliveringType ==
  ASSUME NEW act \in Activity, NEW t \in Targets, NEW o \in Orgs \cup {Hidden}
  PROVE  Delivering(act, t, o) \in Job
<1>1. Following(t) \in SUBSET Followers
  BY DEF Following
<1>. QED  BY <1>1, DeliverForm DEF Delivering

\* The one place a job changes.
LEMMA GotoOK ==
  ASSUME NEW p \in Procs, NEW j \in Job, job \in [Procs -> Job],
         \A q \in Procs : Addressed(q, job[q]), Addressed(p, j), Goto(p, j)
  PROVE  job' \in [Procs -> Job] /\ \A q \in Procs : Addressed(q, job'[q])
<1>1. job' = [job EXCEPT ![p] = j]
  BY DEF Goto
<1>2. job' \in [Procs -> Job]
  BY <1>1
<1>3. \A q \in Procs : job'[q] = IF q = p THEN j ELSE job[q]
  BY <1>1
<1>. QED  BY <1>2, <1>3

\* A job that is not a delivery has no address to keep.
LEMMA Elsewhere ==
  ASSUME NEW p, NEW j, j.at \notin {"deliver", "answer", "reset"}
  PROVE  Addressed(p, j)
  BY DEF Addressed

LEMMA ResetType ==
  ASSUME TypeOK, NEW t \in Targets, NEW f \in Followers, ResetCount(t, f)
  PROVE  /\ fails' \in [Targets -> [Followers -> -1..(MaxFailures - 1)]]
         /\ streak' \in [Targets -> [Followers -> Nat]]
         /\ overtaken' \in BOOLEAN
<1>1. 0 \in -1..(MaxFailures - 1)
  BY DeliveryAssumption
<1>2. /\ fails' \in [Targets -> [Followers -> -1..(MaxFailures - 1)]]
      /\ streak' \in [Targets -> [Followers -> Nat]]
  BY <1>1 DEF TypeOK, ResetCount, ResetTo
<1>3. overtaken' \in BOOLEAN
  BY DEF ResetCount, ResetTo
<1>. QED  BY <1>2, <1>3

LEMMA BumpType ==
  ASSUME TypeOK, job[Poller].row.org \in Targets, job[Poller].row.to \in Followers, Bump
  PROVE  /\ fails' \in [Targets -> [Followers -> -1..(MaxFailures - 1)]]
         /\ streak' \in [Targets -> [Followers -> Nat]]
         /\ overtaken' \in BOOLEAN
<1>1. PICK t \in Targets, f \in Followers :
        /\ fails' = IF fails[t][f] >= 0 /\ fails[t][f] + 1 < MaxFailures
                    THEN [fails EXCEPT ![t][f] = @ + 1] ELSE fails
        /\ streak' = [streak EXCEPT ![t][f] = IF fails[t][f] >= 0 THEN @ + 1 ELSE @]
        /\ overtaken' = FALSE
  BY DEF Bump, BumpBelow
<1>2. /\ fails \in [Targets -> [Followers -> -1..(MaxFailures - 1)]]
      /\ streak \in [Targets -> [Followers -> Nat]]
      /\ MaxFailures \in Nat
  BY DeliveryAssumption DEF TypeOK
<1>3. fails[t][f] \in -1..(MaxFailures - 1) /\ streak[t][f] \in Nat
  BY <1>2
<1>4. fails' \in [Targets -> [Followers -> -1..(MaxFailures - 1)]]
  <2>1. CASE fails[t][f] >= 0 /\ fails[t][f] + 1 < MaxFailures
    <3>1. fails[t][f] + 1 \in -1..(MaxFailures - 1)
      BY <1>2, <1>3, <2>1
    <3>. QED  BY <1>1, <1>2, <2>1, <3>1
  <2>2. CASE ~(fails[t][f] >= 0 /\ fails[t][f] + 1 < MaxFailures)
    BY <1>1, <1>2, <2>2
  <2>. QED  BY <2>1, <2>2
<1>5. streak' \in [Targets -> [Followers -> Nat]]
  BY <1>1, <1>2, <1>3
<1>. QED  BY <1>1, <1>4, <1>5

LEMMA ReceivedType ==
  ASSUME TypeOK, NEW act \in Activity, NEW t \in Targets, NEW f \in Followers,
         NEW taken \in BOOLEAN, NEW ok \in BOOLEAN, Received(act, t, f, taken, ok)
  PROVE  {got, unheard}' \subseteq [Events -> [Targets -> [Followers -> Nat]]]
<1>1. act.event \in Events
  BY ActivityShapes
<1>2. /\ got \in [Events -> [Targets -> [Followers -> Nat]]]
      /\ unheard \in [Events -> [Targets -> [Followers -> Nat]]]
  BY DEF TypeOK
<1>3. got' \in [Events -> [Targets -> [Followers -> Nat]]]
  BY <1>1, <1>2 DEF Received
<1>4. unheard' \in [Events -> [Targets -> [Followers -> Nat]]]
  BY <1>1, <1>2 DEF Received
<1>. QED  BY <1>3, <1>4

LEMMA MarkType ==
  ASSUME TypeOK, NEW e, NEW t, Mark(e, t)
  PROVE  delivered' \in [Events -> [Targets \cup {Ping} -> {"no", "yes", "moved"}]]
  BY DEF TypeOK, Mark

\* What the steps need of their surroundings, in one place.
LEMMA Facts ==
  ASSUME TypeInv
  PROVE  /\ job \in [Procs -> Job] /\ \A q \in Procs : Addressed(q, job[q]) /\ job[q] \in Job
         /\ Poller \in Procs /\ Workers \subseteq Procs /\ Poller \notin Workers
         /\ fresh \in Nat
  BY DeliveryAssumption DEF TypeInv, TypeOK, Procs

\* Starting a delivery leaves a well-formed, addressed job.
LEMMA StartOK ==
  ASSUME TypeInv, NEW p \in Procs, NEW act \in Activity, NEW t \in Targets,
         NEW o \in Orgs \cup {Hidden},
         act.kind \in {"Move", "Create"} => t \in Orgs,
         act.kind = "Move" => o \in Orgs,
         p \in Workers /\ act.kind = "Create" => o \in Orgs,
         Goto(p, Delivering(act, t, o))
  PROVE  job' \in [Procs -> Job] /\ \A q \in Procs : Addressed(q, job'[q])
<1>1. Delivering(act, t, o) \in Job
  BY DeliveringType
<1>2. Addressed(p, Delivering(act, t, o))
  BY DEF Addressed, Delivering
<1>. QED  BY <1>1, <1>2, Facts, GotoOK

\* Any other job has nothing to address.
LEMMA RestOK ==
  ASSUME TypeInv, NEW p \in Procs, NEW j \in Job,
         j.at \notin {"deliver", "answer", "reset"}, Goto(p, j)
  PROVE  job' \in [Procs -> Job] /\ \A q \in Procs : Addressed(q, job'[q])
<1>1. Addressed(p, j)
  BY Elsewhere
<1>. QED  BY <1>1, Facts, GotoOK

LEMMA TypesOfDelivery ==
  ASSUME TypeInv, NEW p \in Procs, Post(p) \/ Record(p) \/ Reset(p)
  PROVE  TypeInv'
<1>. DEFINE j == job[p]
<1>0. /\ TypeOK /\ j \in Job /\ Addressed(p, j)
      /\ job \in [Procs -> Job] /\ \A q \in Procs : Addressed(q, job[q])
  BY Facts DEF TypeInv
<1>1. CASE Post(p)
  <2>1. PICK f \in j.todo, taken \in BOOLEAN, ok \in BOOLEAN :
          /\ Received(j.act, j.org, f, taken, ok)
          /\ Goto(p, [at |-> "answer", act |-> j.act, org |-> j.org, peer |-> j.peer,
                      list |-> j.list, todo |-> j.todo \ {f}, to |-> f, ok |-> ok])
    BY <1>1 DEF Post
  <2>2. /\ j.at = "deliver" /\ j.act \in Activity /\ j.org \in Targets
        /\ j.peer \in Orgs \cup {Hidden} /\ j.list \in SUBSET Followers
        /\ j.todo \in SUBSET Followers
    BY <1>0, <1>1, JobShapes DEF Post
  <2>. DEFINE k == [at |-> "answer", act |-> j.act, org |-> j.org, peer |-> j.peer,
                    list |-> j.list, todo |-> j.todo \ {f}, to |-> f, ok |-> ok]
  <2>3. k \in Job
    BY <2>2, AnswerForm
  <2>4. Addressed(p, k)
    BY <1>0, <2>2 DEF Addressed
  <2>5. job' \in [Procs -> Job] /\ \A q \in Procs : Addressed(q, job'[q])
    BY <1>0, <2>1, <2>3, <2>4, GotoOK
  <2>6. {got, unheard}' \subseteq [Events -> [Targets -> [Followers -> Nat]]]
    BY <1>0, <2>1, <2>2, ReceivedType
  <2>. QED  BY <1>0, <1>1, <2>5, <2>6 DEF Post, TypeInv, TypeOK, tables, bounds
<1>2. ASSUME j.at \in {"answer", "reset"}
      PROVE  /\ j.act \in Activity /\ j.org \in Targets
             /\ j.peer \in Orgs \cup {Hidden} /\ j.list \in SUBSET Followers
             /\ j.todo \in SUBSET Followers /\ j.to \in Followers
  BY <1>0, <1>2, JobShapes
<1>3. ASSUME j.at \in {"answer", "reset"},
             Goto(p, [at |-> "deliver", act |-> j.act, org |-> j.org, peer |-> j.peer,
                      list |-> j.list, todo |-> j.todo])
      PROVE  job' \in [Procs -> Job] /\ \A q \in Procs : Addressed(q, job'[q])
  <2>. DEFINE k == [at |-> "deliver", act |-> j.act, org |-> j.org, peer |-> j.peer,
                    list |-> j.list, todo |-> j.todo]
  <2>1. k \in Job
    BY <1>2, <1>3, DeliverForm
  <2>2. Addressed(p, k)
    BY <1>0, <1>3 DEF Addressed
  <2>. QED  BY <1>0, <1>3, <2>1, <2>2, GotoOK
<1>4. CASE Record(p)
  <2>1. j.at = "answer"
    BY <1>4 DEF Record
  <2>2. job' \in [Procs -> Job] /\ \A q \in Procs : Addressed(q, job'[q])
    <3>. DEFINE k == [at |-> "reset", act |-> j.act, org |-> j.org, peer |-> j.peer,
                      list |-> j.list, todo |-> j.todo, to |-> j.to]
    <3>1. CASE Goto(p, k)
      <4>1. k \in Job
        BY <1>2, <2>1, ResetForm
      <4>2. Addressed(p, k)
        BY <1>0, <2>1 DEF Addressed
      <4>. QED  BY <1>0, <3>1, <4>1, <4>2, GotoOK
    <3>. QED  BY <1>3, <1>4, <2>1, <3>1 DEF Record
  <2>3. failures' \subseteq Failure
    <3>1. CASE Success(j.act, j.org, j.to)
      BY <1>0, <3>1 DEF Success, TypeOK
    <3>2. CASE failures' = failures \cup NewFailure(j.act, j.org, j.to)
      BY <1>0, <1>2, <2>1, <3>2, NewFailureType DEF TypeOK
    <3>. QED  BY <1>4, <3>1, <3>2 DEF Record
  <2>. QED  BY <1>0, <1>4, <2>2, <2>3 DEF Record, TypeInv, TypeOK, bounds, ghosts, accepted
<1>5. CASE Reset(p)
  <2>1. job' \in [Procs -> Job] /\ \A q \in Procs : Addressed(q, job'[q])
    BY <1>3, <1>5 DEF Reset
  <2>2. /\ fails' \in [Targets -> [Followers -> -1..(MaxFailures - 1)]]
        /\ streak' \in [Targets -> [Followers -> Nat]]
        /\ overtaken' \in BOOLEAN
    BY <1>0, <1>2, <1>5, ResetType DEF Reset
  <2>. QED  BY <1>0, <1>5, <2>1, <2>2 DEF Reset, TypeInv, TypeOK, bounds, accepted
<1>. QED  BY <1>1, <1>4, <1>5

LEMMA TypesOfRetry ==
  ASSUME TypeInv, PollTick \/ RetryPost \/ RetryRecord
  PROVE  TypeInv'
<1>0. TypeOK /\ Poller \in Procs /\ job[Poller] \in Job
  BY Facts DEF TypeInv
<1>1. CASE PollTick
  <2>1. job' \in [Procs -> Job] /\ \A q \in Procs : Addressed(q, job'[q])
    BY <1>0, <1>1, RestForms, RestOK DEF PollTick
  <2>. QED  BY <1>0, <1>1, <2>1 DEF PollTick, TypeInv, TypeOK, tables, bounds, ghosts, accepted
<1>2. CASE RetryPost
  <2>1. PICK r \in batch, taken \in BOOLEAN, ok \in BOOLEAN :
          /\ batch' = batch \ {r}
          /\ Received(r.act, r.org, r.to, taken, ok)
          /\ Goto(Poller, [at |-> "retried", row |-> r, ok |-> ok])
    BY <1>2 DEF RetryPost
  <2>2. r \in Failure /\ batch' \subseteq Failure
    BY <1>0, <2>1 DEF TypeOK
  <2>3. [at |-> "retried", row |-> r, ok |-> ok] \in Job
    BY <2>2, RetriedForms
  <2>4. job' \in [Procs -> Job] /\ \A q \in Procs : Addressed(q, job'[q])
    BY <1>0, <2>1, <2>3, RestOK
  <2>5. {got, unheard}' \subseteq [Events -> [Targets -> [Followers -> Nat]]]
    BY <1>0, <2>1, <2>2, FailureShapes, ReceivedType
  <2>. QED  BY <1>0, <1>2, <2>2, <2>4, <2>5 DEF RetryPost, TypeInv, TypeOK, tables, bounds
<1>3. CASE RetryRecord
  <2>. DEFINE r == job[Poller].row
  <2>1. r \in Failure /\ r.act \in Activity /\ r.org \in Targets /\ r.to \in Followers
        /\ r.tries \in 1..MaxAttempts /\ r.act.event \in Events
    BY <1>0, <1>3, JobShapes, FailureShapes, ActivityShapes DEF RetryRecord, RecordAnswer
  <2>2. job' \in [Procs -> Job] /\ \A q \in Procs : Addressed(q, job'[q])
    <3>1. \A a \in {"cleared", "bump"} : [at |-> a, row |-> r] \in Job
      BY <2>1, RetriedForms
    <3>2. \/ \E a \in {"cleared", "bump"} : Goto(Poller, [at |-> a, row |-> r])
          \/ Goto(Poller, [at |-> "retry"])
      BY <1>3 DEF RetryRecord, RecordAnswer, Cleared, GiveUp, TryLater
    <3>. QED  BY <1>0, <3>1, <3>2, RestForms, RestOK
  <2>3. /\ failures' \subseteq Failure
        /\ settled' \subseteq Events \X Targets \X Followers
    <3>1. CASE Cleared(r)
      BY <1>0, <3>1 DEF TypeOK, Cleared, Success
    <3>2. CASE GiveUp(r)
      BY <1>0, <2>1, <3>2 DEF TypeOK, GiveUp
    <3>3. CASE TryLater(r)
      <4>1. r.tries + 1 \in 1..MaxAttempts
        <5>1. r.tries + 1 <= MaxAttempts
          BY <3>3 DEF TryLater
        <5>2. MaxAttempts \in Nat
          BY DeliveryAssumption
        <5>3. r.tries \in 1..MaxAttempts
          BY <2>1
        <5>. HIDE DEF r
        <5>. QED  BY <5>1, <5>2, <5>3
      <4>2. \A q \in failures : [q EXCEPT !.tries = r.tries + 1, !.due = FALSE] \in Failure
        BY <1>0, <4>1, FailureShapes DEF TypeOK
      <4>3. failures' \subseteq Failure
        BY <1>0, <3>3, <4>2 DEF TypeOK, TryLater
      <4>. QED  BY <1>0, <3>3, <4>3 DEF TypeOK, TryLater
    <3>. QED  BY <1>3, <3>1, <3>2, <3>3 DEF RetryRecord, RecordAnswer
  <2>. QED  BY <1>0, <1>3, <2>2, <2>3 DEF RetryRecord, RecordAnswer, TypeInv, TypeOK, bounds, accepted
<1>. QED  BY <1>1, <1>2, <1>3

\* The statements after a retried row is gone.
LEMMA TypesOfCounts ==
  ASSUME TypeInv, RetryReset \/ Bump \/ Drop
  PROVE  TypeInv'
<1>. DEFINE r == job[Poller].row
<1>0. TypeOK /\ Poller \in Procs /\ job[Poller] \in Job
  BY Facts DEF TypeInv
<1>1. job[Poller].at \in {"cleared", "bump", "drop"}
  BY DEF RetryReset, Bump, BumpBelow, Drop
<1>2. r \in Failure /\ r.org \in Targets /\ r.to \in Followers
  BY <1>0, <1>1, JobShapes, FailureShapes
<1>3. job' \in [Procs -> Job] /\ \A q \in Procs : Addressed(q, job'[q])
  <2>1. Goto(Poller, [at |-> "retry"]) \/ Goto(Poller, [at |-> "drop", row |-> r])
    BY <1>0, DropStep DEF RetryReset, Bump, BumpBelow, Drop
  <2>2. [at |-> "drop", row |-> r] \in Job
    BY <1>2, RetriedForms
  <2>. QED  BY <1>0, <2>1, <2>2, RestForms, RestOK
<1>4. /\ fails' \in [Targets -> [Followers -> -1..(MaxFailures - 1)]]
      /\ streak' \in [Targets -> [Followers -> Nat]]
      /\ overtaken' \in BOOLEAN
  <2>1. CASE RetryReset
    BY <1>0, <1>2, <2>1, ResetType DEF RetryReset
  <2>2. CASE Bump
    BY <1>0, <1>2, <2>2, BumpType
  <2>3. CASE Drop
    <3>1. -1 \in -1..(MaxFailures - 1)
      BY DeliveryAssumption
    <3>2. fails' = [fails EXCEPT ![r.org][r.to] = -1] /\ UNCHANGED <<streak, overtaken>>
      BY <2>3 DEF Drop, ghosts
    <3>. QED  BY <1>0, <3>1, <3>2 DEF TypeOK
  <2>. QED  BY <2>1, <2>2, <2>3
<1>5. UNCHANGED <<event, lost, delivered, failures, batch, listing, fresh, bounds,
                  promised, accepted, settled, home>>
  <2>1. CASE RetryReset
    BY <2>1 DEF RetryReset
  <2>2. CASE Bump
    BY <2>2 DEF Bump, BumpBelow
  <2>3. CASE Drop
    BY <2>3 DEF Drop, ghosts
  <2>. QED  BY <2>1, <2>2, <2>3
<1>. QED  BY <1>0, <1>3, <1>4, <1>5 DEF TypeInv, TypeOK, bounds, accepted

\* Where the poll goes from the answer to a retry, and from the counts.
LEMMA AnswerGoes ==
  ASSUME RetryRecord
  PROVE  \E k : Goto(Poller, k) /\ k.at \in {"cleared", "bump", "retry"}
<1>. DEFINE r == job[Poller].row
<1>1. Cleared(r) \/ GiveUp(r) \/ TryLater(r)
  BY DEF RetryRecord, RecordAnswer
<1>. HIDE DEF r
<1>2. CASE Cleared(r)
  BY <1>2 DEF Cleared
<1>3. CASE GiveUp(r)
  BY <1>3 DEF GiveUp
<1>4. CASE TryLater(r)
  <2>1. Goto(Poller, [at |-> "retry"])
    BY <1>4 DEF TryLater
  <2>. QED  BY <2>1
<1>. QED  BY <1>1, <1>2, <1>3, <1>4

LEMMA CountGoes ==
  ASSUME TypeInv, RetryReset \/ Bump \/ Drop
  PROVE  \E k : Goto(Poller, k) /\ k.at \in {"retry", "drop"}
<1>1. CASE RetryReset
  BY <1>1 DEF RetryReset
<1>2. CASE Bump
  <2>1. job[Poller] \in Job
    BY Facts
  <2>2. Goto(Poller, [at |-> "retry"]) \/ Goto(Poller, [at |-> "drop", row |-> job[Poller].row])
    BY <1>2, <2>1, DropStep DEF Bump, BumpBelow
  <2>. QED  BY <2>2
<1>3. CASE Drop
  BY <1>3 DEF Drop
<1>. QED  BY <1>1, <1>2, <1>3

LEMMA TypesOfPoll ==
  ASSUME TypeInv,
         Fetch \/ FetchFails \/ Visit \/ OrgMark \/ RelayVisit \/ RelayMark \/ PollEnds
  PROVE  TypeInv'
<1>. DEFINE j == job[Poller]
<1>0. TypeOK /\ Poller \in Procs /\ j \in Job /\ Addressed(Poller, j) /\ Poller \notin Workers
  BY Facts DEF TypeInv
<1>1. CASE Fetch
  <2>1. job' \in [Procs -> Job] /\ \A q \in Procs : Addressed(q, job'[q])
    BY <1>0, <1>1, RestForms, RestOK DEF Fetch
  <2>2. listing' \subseteq Snapshot
    BY <1>1 DEF Fetch, Snapshot, Listed
  <2>. QED  BY <1>0, <1>1, <2>1, <2>2 DEF Fetch, TypeInv, TypeOK, tables, bounds, ghosts, accepted
<1>2. CASE FetchFails
  <2>1. job' \in [Procs -> Job] /\ \A q \in Procs : Addressed(q, job'[q])
    BY <1>0, <1>2, RestForms, RestOK DEF FetchFails, Idle
  <2>. QED  BY <1>0, <1>2, <2>1 DEF FetchFails, TypeInv, TypeOK, tables, bounds, ghosts, accepted
<1>3. CASE Visit
  <2>1. PICK s \in listing :
          /\ listing' = listing \ {s}
          /\ Mark(s.event, Ping)
          /\ Goto(Poller, IF s \in Undelivered
                          THEN Delivering(Plain("Create", s.event), s.org, Hidden)
                          ELSE [at |-> "relay", event |-> s.event, org |-> s.org])
    BY <1>3 DEF Visit, VisitAmong
  <2>2. s.event \in Events /\ s.org \in Orgs /\ s.org \in Targets /\ listing' \subseteq Snapshot
    BY <1>0, <2>1 DEF TypeOK, Snapshot, Targets
  <2>3. job' \in [Procs -> Job] /\ \A q \in Procs : Addressed(q, job'[q])
    <3>1. CASE s \in Undelivered
      BY <1>0, <2>1, <2>2, <3>1, ActivityForms, StartOK
    <3>2. CASE s \notin Undelivered
      BY <1>0, <2>1, <2>2, <3>2, EventForms, RestOK
    <3>. QED  BY <3>1, <3>2
  <2>4. delivered' \in [Events -> [Targets \cup {Ping} -> {"no", "yes", "moved"}]]
    BY <1>0, <2>1, MarkType
  <2>. QED  BY <1>0, <1>3, <2>2, <2>3, <2>4 DEF Visit, VisitAmong, TypeInv, TypeOK, bounds, ghosts, accepted
<1>4. CASE OrgMark
  <2>1. /\ j.act \in Activity /\ j.act.event \in Events /\ j.org \in Orgs /\ j.org \in Targets
        /\ j.list \in SUBSET Followers
    BY <1>0, <1>4, JobShapes, ActivityShapes DEF OrgMark, Delivered, Addressed, Targets
  <2>2. job' \in [Procs -> Job] /\ \A q \in Procs : Addressed(q, job'[q])
    BY <1>0, <1>4, <2>1, EventForms, RestOK DEF OrgMark
  <2>3. delivered' \in [Events -> [Targets \cup {Ping} -> {"no", "yes", "moved"}]]
    BY <1>0, <1>4, MarkType DEF OrgMark
  <2>4. promised' \subseteq Events \X Targets \X Followers
    BY <1>0, <1>4, <2>1 DEF OrgMark, Promise, TypeOK
  <2>. QED  BY <1>0, <1>4, <2>1, <2>2, <2>3, <2>4 DEF OrgMark, TypeInv, TypeOK, bounds, accepted
<1>5. CASE RelayVisit
  <2>1. j.event \in Events /\ Relay \in Targets
    BY <1>0, <1>5, JobShapes DEF RelayVisit, Targets
  <2>2. job' \in [Procs -> Job] /\ \A q \in Procs : Addressed(q, job'[q])
    <3>1. CASE Goto(Poller, Delivering(Stamped("Announce", j.event), Relay, Hidden))
      BY <1>0, <2>1, <3>1, Facts, ActivityForms, StartOK
    <3>2. CASE Goto(Poller, [at |-> "visit"])
      BY <1>0, <3>2, RestForms, RestOK
    <3>. QED  BY <1>5, <3>1, <3>2 DEF RelayVisit
  <2>3. fresh' \in Nat
    BY <1>5, Facts DEF RelayVisit
  <2>. QED  BY <1>0, <1>5, <2>2, <2>3 DEF RelayVisit, TypeInv, TypeOK, tables, bounds, ghosts, accepted
<1>6. CASE RelayMark
  <2>1. j.act \in Activity /\ j.act.event \in Events /\ j.list \in SUBSET Followers
        /\ Relay \in Targets
    BY <1>0, <1>6, JobShapes, ActivityShapes DEF RelayMark, Delivered, Targets
  <2>2. job' \in [Procs -> Job] /\ \A q \in Procs : Addressed(q, job'[q])
    BY <1>0, <1>6, RestForms, RestOK DEF RelayMark
  <2>3. delivered' \in [Events -> [Targets \cup {Ping} -> {"no", "yes", "moved"}]]
    BY <1>0, <1>6, MarkType DEF RelayMark
  <2>4. promised' \subseteq Events \X Targets \X Followers
    BY <1>0, <1>6, <2>1 DEF RelayMark, Promise, TypeOK
  <2>. QED  BY <1>0, <1>6, <2>2, <2>3, <2>4 DEF RelayMark, TypeInv, TypeOK, bounds, accepted
<1>7. CASE PollEnds
  <2>1. job' \in [Procs -> Job] /\ \A q \in Procs : Addressed(q, job'[q])
    BY <1>0, <1>7, RestForms, RestOK DEF PollEnds, Idle
  <2>. QED  BY <1>0, <1>7, <2>1 DEF PollEnds, TypeInv, TypeOK, tables, bounds, ghosts, accepted
<1>. QED  BY <1>1, <1>2, <1>3, <1>4, <1>5, <1>6, <1>7

\* The steps of a goroutine that only read and decide.
LEMMA TypesOfRequest ==
  ASSUME TypeInv, NEW w \in Workers,
         \/ \E e \in Events, o \in Orgs : SaveEvent(w, e, o)
         \/ \E e \in Events : DeleteRead(w, e)
         \/ UpdateRead(w) \/ UpdateSend(w) \/ DeleteSend(w) \/ SentToAll(w)
  PROVE  TypeInv'
<1>. DEFINE j == job[w]
<1>0. TypeOK /\ w \in Procs /\ j \in Job /\ Addressed(w, j)
  BY Facts DEF TypeInv
<1>1. ASSUME NEW e \in Events, NEW o \in Orgs, SaveEvent(w, e, o)  PROVE TypeInv'
  <2>1. job' \in [Procs -> Job] /\ \A q \in Procs : Addressed(q, job'[q])
    BY <1>0, <1>1, EventForms, RestOK DEF SaveEvent
  <2>2. event' \in [Events -> Orgs \cup {Hidden, Deleted}] /\ edits' \in Nat
    BY <1>0, <1>1 DEF SaveEvent, TypeOK
  <2>. QED  BY <1>0, <1>1, <2>1, <2>2 DEF SaveEvent, TypeInv, TypeOK, tables, ghosts, accepted
<1>2. ASSUME NEW e \in Events, DeleteRead(w, e)  PROVE TypeInv'
  <2>1. job' \in [Procs -> Job] /\ \A q \in Procs : Addressed(q, job'[q])
    BY <1>0, <1>2, EventForms, RestOK DEF DeleteRead
  <2>2. edits' \in Nat
    BY <1>0, <1>2 DEF DeleteRead, TypeOK
  <2>. QED  BY <1>0, <1>2, <2>1, <2>2 DEF DeleteRead, TypeInv, TypeOK, tables, ghosts, accepted
<1>3. CASE UpdateRead(w)
  <2>1. j.event \in Events
    BY <1>0, <1>3, JobShapes DEF UpdateRead
  <2>2. job' \in [Procs -> Job] /\ \A q \in Procs : Addressed(q, job'[q])
    <3>1. CASE event[j.event] \in Orgs
      BY <1>0, <1>3, <2>1, <3>1, EventForms, RestOK DEF UpdateRead
    <3>2. CASE event[j.event] \notin Orgs
      BY <1>0, <1>3, <3>2, RestForms, RestOK DEF UpdateRead, Idle
    <3>. QED  BY <3>1, <3>2
  <2>. QED  BY <1>0, <1>3, <2>2 DEF UpdateRead, TypeInv, TypeOK, tables, bounds, ghosts, accepted
<1>4. CASE UpdateSend(w)
  <2>1. j.event \in Events /\ j.org \in Orgs /\ j.org \in Targets
    BY <1>0, <1>4, JobShapes DEF UpdateSend, Targets
  <2>2. job' \in [Procs -> Job] /\ \A q \in Procs : Addressed(q, job'[q])
    <3>1. CASE Goto(w, Delivering(Stamped("Update", j.event), j.org, Hidden))
      BY <1>0, <2>1, <3>1, Facts, ActivityForms, StartOK
    <3>2. CASE Goto(w, Idle)
      BY <1>0, <3>2, RestForms, RestOK DEF Idle
    <3>. QED  BY <1>4, <3>1, <3>2 DEF UpdateSend
  <2>3. fresh' \in Nat
    BY <1>4, Facts DEF UpdateSend
  <2>. QED  BY <1>0, <1>4, <2>2, <2>3 DEF UpdateSend, TypeInv, TypeOK, tables, bounds, ghosts, accepted
<1>5. CASE DeleteSend(w)
  <2>1. j.event \in Events /\ j.org \in Orgs /\ j.org \in Targets
    BY <1>0, <1>5, JobShapes DEF DeleteSend, Targets
  <2>2. job' \in [Procs -> Job] /\ \A q \in Procs : Addressed(q, job'[q])
    <3>1. CASE Goto(w, Delivering(Plain("Delete", j.event), j.org, Hidden))
      BY <1>0, <2>1, <3>1, ActivityForms, StartOK
    <3>2. CASE Goto(w, Idle)
      BY <1>0, <3>2, RestForms, RestOK DEF Idle
    <3>. QED  BY <1>5, <3>1, <3>2 DEF DeleteSend
  <2>3. event' \in [Events -> Orgs \cup {Hidden, Deleted}]
    BY <1>0, <1>5 DEF DeleteSend, TypeOK
  <2>. QED  BY <1>0, <1>5, <2>2, <2>3 DEF DeleteSend, TypeInv, TypeOK, tables, bounds, ghosts, accepted
<1>6. CASE SentToAll(w)
  <2>1. job' \in [Procs -> Job] /\ \A q \in Procs : Addressed(q, job'[q])
    BY <1>0, <1>6, RestForms, RestOK DEF SentToAll, Idle
  <2>. QED  BY <1>0, <1>6, <2>1 DEF SentToAll, TypeInv, TypeOK, tables, bounds, ghosts, accepted
<1>. QED  BY <1>1, <1>2, <1>3, <1>4, <1>5, <1>6

LEMMA TypesOfTransfer ==
  ASSUME TypeInv, NEW w \in Workers,
         \/ TransferFound(w) \/ MoveDone(w) \/ TransferCreate(w)
         \/ CreateDone(w) \/ MarkMoved(w) \/ MarkNew(w)
  PROVE  TypeInv'
<1>. DEFINE j == job[w]
<1>0. TypeOK /\ w \in Procs /\ j \in Job /\ Addressed(w, j)
  BY Facts DEF TypeInv
<1>1. CASE TransferFound(w)
  <2>1. j.event \in Events /\ j.org \in Orgs
    BY <1>0, <1>1, JobShapes DEF TransferFound
  <2>2. PICK from \in Origins(j.event, j.org) :
          \/ /\ Goto(w, Delivering(Stamped("Move", j.event), from, j.org))
             /\ fresh' = fresh + 1
          \/ /\ Goto(w, [at |-> "create", event |-> j.event, org |-> j.org, peer |-> from])
             /\ UNCHANGED fresh
          \/ Goto(w, Idle) /\ UNCHANGED fresh
    BY <1>1 DEF TransferFound
  <2>3. from \in Orgs /\ from \in Targets
    BY DEF Origins, Targets
  <2>4. job' \in [Procs -> Job] /\ \A q \in Procs : Addressed(q, job'[q])
    <3>1. CASE Goto(w, Delivering(Stamped("Move", j.event), from, j.org))
      BY <1>0, <2>1, <2>3, <3>1, Facts, ActivityForms, StartOK
    <3>2. CASE Goto(w, [at |-> "create", event |-> j.event, org |-> j.org, peer |-> from])
      BY <1>0, <2>1, <2>3, <3>2, TransferForms, RestOK
    <3>3. CASE Goto(w, Idle)
      BY <1>0, <3>3, RestForms, RestOK DEF Idle
    <3>. QED  BY <2>2, <3>1, <3>2, <3>3
  <2>5. fresh' \in Nat
    BY <1>0, <2>2 DEF TypeOK
  <2>. QED  BY <1>0, <1>1, <2>4, <2>5 DEF TransferFound, TypeInv, TypeOK, tables, bounds, ghosts, accepted
<1>2. CASE MoveDone(w)
  <2>1. j.act.event \in Events /\ j.org \in Orgs /\ j.peer \in Orgs
    BY <1>0, <1>2, JobShapes, ActivityShapes DEF MoveDone, Delivered, Addressed
  <2>2. job' \in [Procs -> Job] /\ \A q \in Procs : Addressed(q, job'[q])
    BY <1>0, <1>2, <2>1, TransferForms, RestOK DEF MoveDone
  <2>. QED  BY <1>0, <1>2, <2>2 DEF MoveDone, TypeInv, TypeOK, tables, bounds, ghosts, accepted
<1>3. CASE TransferCreate(w)
  <2>1. /\ j.at = "create" /\ j.event \in Events /\ j.org \in Orgs /\ j.org \in Targets
        /\ j.peer \in Orgs
    BY <1>0, <1>3, JobShapes DEF TransferCreate, Targets
  <2>2. job' \in [Procs -> Job] /\ \A q \in Procs : Addressed(q, job'[q])
    <3>1. CASE Goto(w, Delivering(Plain("Create", j.event), j.org, j.peer))
      BY <1>0, <2>1, <3>1, ActivityForms, StartOK
    <3>2. CASE Goto(w, [j EXCEPT !.at = "moved"])
      <4>1. [j EXCEPT !.at = "moved"] \in Job /\ [j EXCEPT !.at = "moved"].at = "moved"
        BY <1>0, <2>1, JobSteps
      <4>. QED  BY <1>0, <3>2, <4>1, RestOK
    <3>. QED  BY <1>3, <3>1, <3>2 DEF TransferCreate
  <2>. QED  BY <1>0, <1>3, <2>2 DEF TransferCreate, TypeInv, TypeOK, tables, bounds, ghosts, accepted
<1>4. CASE CreateDone(w)
  <2>1. /\ j.act.event \in Events /\ j.org \in Orgs /\ j.org \in Targets /\ j.peer \in Orgs
        /\ j.list \in SUBSET Followers
    BY <1>0, <1>4, JobShapes, ActivityShapes DEF CreateDone, Delivered, Addressed, Targets
  <2>2. job' \in [Procs -> Job] /\ \A q \in Procs : Addressed(q, job'[q])
    BY <1>0, <1>4, <2>1, TransferForms, RestOK DEF CreateDone
  <2>3. promised' \subseteq Events \X Targets \X Followers
    BY <1>0, <1>4, <2>1 DEF CreateDone, Promise, TypeOK
  <2>. QED  BY <1>0, <1>4, <2>2, <2>3 DEF CreateDone, TypeInv, TypeOK, tables, bounds, accepted
<1>5. CASE MarkMoved(w)
  <2>1. [j EXCEPT !.at = "mark"] \in Job /\ [j EXCEPT !.at = "mark"].at = "mark"
    BY <1>0, <1>5, JobSteps DEF MarkMoved
  <2>2. job' \in [Procs -> Job] /\ \A q \in Procs : Addressed(q, job'[q])
    BY <1>0, <1>5, <2>1, RestOK DEF MarkMoved
  <2>3. delivered' \in [Events -> [Targets \cup {Ping} -> {"no", "yes", "moved"}]]
    BY <1>0, <1>5 DEF MarkMoved, TypeOK
  <2>. QED  BY <1>0, <1>5, <2>2, <2>3 DEF MarkMoved, TypeInv, TypeOK, bounds, ghosts, accepted
<1>6. CASE MarkNew(w)
  <2>1. j.event \in Events /\ j.org \in Orgs
    BY <1>0, <1>6, JobShapes DEF MarkNew
  <2>2. job' \in [Procs -> Job] /\ \A q \in Procs : Addressed(q, job'[q])
    BY <1>0, <1>6, RestForms, RestOK DEF MarkNew, Idle
  <2>3. delivered' \in [Events -> [Targets \cup {Ping} -> {"no", "yes", "moved"}]]
    BY <1>0, <1>6, MarkType DEF MarkNew
  <2>. QED  BY <1>0, <1>6, <2>1, <2>2, <2>3 DEF MarkNew, TypeInv, TypeOK, bounds, accepted
<1>. QED  BY <1>1, <1>2, <1>3, <1>4, <1>5, <1>6

LEMMA TypesOfOutside ==
  ASSUME TypeInv, Outside
  PROVE  TypeInv'
<1>0. TypeOK /\ changes' \in Nat
  <2>1. TypeOK
    BY DEF TypeInv
  <2>2. changes \in Nat
    BY <2>1 DEF TypeOK
  <2>3. changes' = changes + 1
    BY DEF Outside
  <2>. QED  BY <2>1, <2>2, <2>3
<1>1. UNCHANGED job
  BY DEF Outside, ApiChange, Follow, Undo, Purge, LoseActor
<1>2. ASSUME NEW e \in Events, NEW to \in Orgs \cup {Hidden, Deleted}, ApiChange(e, to)
      PROVE  TypeOK'
  <2>1. event' \in [Events -> Orgs \cup {Hidden, Deleted}]
    BY <1>0, <1>2 DEF ApiChange, TypeOK
  <2>. QED  BY <1>0, <1>2, <2>1 DEF ApiChange, TypeOK, tables, ghosts, accepted
<1>3. 0 \in -1..(MaxFailures - 1) /\ -1 \in -1..(MaxFailures - 1)
  BY DeliveryAssumption
<1>4. ASSUME NEW t \in Targets, NEW f \in Followers, Follow(t, f)  PROVE TypeOK'
  <2>1. /\ fails' \in [Targets -> [Followers -> -1..(MaxFailures - 1)]]
        /\ streak' \in [Targets -> [Followers -> Nat]]
    BY <1>0, <1>3, <1>4 DEF Follow, TypeOK
  <2>. QED  BY <1>0, <1>4, <2>1 DEF Follow, TypeOK, accepted
<1>5. ASSUME NEW t \in Targets, NEW f \in Followers, Undo(t, f)  PROVE TypeOK'
  <2>1. fails' \in [Targets -> [Followers -> -1..(MaxFailures - 1)]]
    BY <1>0, <1>3, <1>5 DEF Undo, TypeOK
  <2>. QED  BY <1>0, <1>5, <2>1 DEF Undo, TypeOK, ghosts, accepted
<1>6. ASSUME NEW f \in Followers, Purge(f)  PROVE TypeOK'
  <2>1. fails' \in [Targets -> [Followers -> -1..(MaxFailures - 1)]]
    BY <1>0, <1>3, <1>6 DEF Purge, TypeOK
  <2>2. failures' \subseteq Failure /\ settled' \subseteq Events \X Targets \X Followers
    BY <1>0, <1>6 DEF Purge, TypeOK
  <2>. QED  BY <1>0, <1>6, <2>1, <2>2 DEF Purge, TypeOK, accepted
<1>7. ASSUME NEW o \in Orgs, LoseActor(o)  PROVE TypeOK'
  BY <1>0, <1>7 DEF LoseActor, TypeOK, tables, ghosts, accepted
<1>. QED  BY <1>1, <1>2, <1>4, <1>5, <1>6, <1>7 DEF TypeInv, Outside, Addressed

\* Every reachable state is well-typed, and a delivery that another step
\* follows names the organisations that step needs.
THEOREM TypesHold == Spec => []TypeInv
<1>1. Init => TypeInv
  <2>. SUFFICES ASSUME Init  PROVE TypeInv
    OBVIOUS
  <2>1. job \in [Procs -> Job] /\ \A p \in Procs : Addressed(p, job[p])
    BY RestForms DEF Init, Idle, Addressed
  <2>2. 0 \in -1..(MaxFailures - 1) /\ -1 \in -1..(MaxFailures - 1)
    BY DeliveryAssumption
  <2>3. fails \in [Targets -> [Followers -> -1..(MaxFailures - 1)]]
    BY <2>2 DEF Init
  <2>4. {got, unheard} \subseteq [Events -> [Targets -> [Followers -> Nat]]]
    <3>1. got \in [Events -> [Targets -> [Followers -> Nat]]]
      BY DEF Init
    <3>2. unheard \in [Events -> [Targets -> [Followers -> Nat]]]
      BY <3>1 DEF Init
    <3>. DEFINE S == [Events -> [Targets -> [Followers -> Nat]]]
    <3>. HIDE DEF S
    <3>3. got \in S /\ unheard \in S
      BY <3>1, <3>2 DEF S
    <3>4. {got, unheard} \subseteq S
      BY <3>3
    <3>. QED  BY <3>4 DEF S
  <2>5. /\ delivered \in [Events -> [Targets \cup {Ping} -> {"no", "yes", "moved"}]]
        /\ streak \in [Targets -> [Followers -> Nat]]
        /\ home \in [Events -> Orgs \cup {Hidden}] /\ overtaken \in BOOLEAN
    BY DEF Init
  <2>6. /\ event \in [Events -> Orgs \cup {Hidden, Deleted}] /\ lost \subseteq Orgs
        /\ failures \subseteq Failure /\ batch \subseteq Failure /\ listing \subseteq Snapshot
        /\ {fresh, edits, changes, restarts} \subseteq Nat
        /\ promised \subseteq Events \X Targets \X Followers
        /\ settled \subseteq Events \X Targets \X Followers
    BY DEF Init
  <2>. QED  BY <2>1, <2>3, <2>4, <2>5, <2>6 DEF TypeInv, TypeOK
<1>2. TypeInv /\ [Next]_vars => TypeInv'
  <2>. SUFFICES ASSUME TypeInv, [Next]_vars  PROVE TypeInv'
    OBVIOUS
  <2>1. CASE PollStep
    BY <2>1, Facts, TypesOfDelivery, TypesOfRetry, TypesOfCounts, TypesOfPoll DEF PollStep
  <2>2. ASSUME NEW w \in Workers, WorkerStep(w)  PROVE TypeInv'
    BY <2>2, Facts, TypesOfDelivery, TypesOfRequest, TypesOfTransfer DEF WorkerStep
  <2>3. CASE Elapse
    <3>1. failures' \subseteq Failure
      BY <2>3, FailureShapes DEF Elapse, TypeInv, TypeOK
    <3>. QED  BY <2>3, <3>1 DEF Elapse, TypeInv, TypeOK, bounds, ghosts, accepted, Addressed
  <2>4. CASE Outside
    BY <2>4, TypesOfOutside
  <2>5. CASE Restart
    <3>1. job' \in [Procs -> Job] /\ \A p \in Procs : Addressed(p, job'[p])
      BY <2>5, RestForms DEF Restart, Idle, Addressed
    <3>2. restarts' \in Nat
      BY <2>5 DEF Restart, TypeInv, TypeOK
    <3>. QED  BY <2>5, <3>1, <3>2 DEF Restart, TypeInv, TypeOK, tables, ghosts, accepted
  <2>6. CASE UNCHANGED vars
    BY <2>6 DEF vars, TypeInv, TypeOK, Addressed
  <2>. QED  BY <2>1, <2>2, <2>3, <2>4, <2>5, <2>6 DEF Next
<1>. QED  BY <1>1, <1>2, PTL DEF Spec

\* Every reachable state is well-typed.
THEOREM TypeCorrect == Spec => []TypeOK
<1>1. TypeInv => TypeOK
  BY DEF TypeInv
<1>. QED  BY <1>1, TypesHold, PTL

-----------------------------------------------------------------------------
(* Followers are dropped for a dead inbox only.  fail_count never runs       *)
(* ahead of the give-ups since the last success, and the poll that is to     *)
(* drop a follower keeps its streak, or has been overtaken.                  *)

StreakInv ==
  /\ \A t \in Targets, f \in Followers : fails[t][f] >= 0 => streak[t][f] >= fails[t][f]
  /\ DroppedOnlyWhenDead

\* What a step may do to the count of one follower: leave it, end the follow,
\* clear it, raise it, or find it at its limit.
Left(t, f) ==
  /\ UNCHANGED <<fails[t][f], streak[t][f]>>
  /\ Dropping(t, f)' => Dropping(t, f) /\ (overtaken => overtaken')
Cut(t, f) == fails'[t][f] = -1
Zeroed(t, f) ==
  /\ fails'[t][f] = 0 /\ streak'[t][f] = 0
  /\ Dropping(t, f)' => overtaken'
Raised(t, f) ==
  /\ fails'[t][f] = fails[t][f] + 1 /\ streak'[t][f] = streak[t][f] + 1
  /\ fails[t][f] >= 0 /\ ~Dropping(t, f)'
Full(t, f) ==
  /\ fails'[t][f] = fails[t][f] /\ streak'[t][f] = streak[t][f] + 1
  /\ fails[t][f] >= 0 /\ fails[t][f] + 1 >= MaxFailures
Counts ==
  \A t \in Targets, f \in Followers :
    Left(t, f) \/ Cut(t, f) \/ Zeroed(t, f) \/ Raised(t, f) \/ Full(t, f)

LEMMA StreakKept ==
  ASSUME TypeOK, StreakInv, Counts
  PROVE  StreakInv'
<1>1. ASSUME NEW t \in Targets, NEW f \in Followers
      PROVE  /\ fails'[t][f] >= 0 => streak'[t][f] >= fails'[t][f]
             /\ Dropping(t, f)' /\ fails'[t][f] >= 0 /\ ~overtaken' => streak'[t][f] >= MaxFailures
  <2>1. /\ fails[t][f] \in Int /\ streak[t][f] \in Nat /\ MaxFailures \in Nat
        /\ fails[t][f] >= 0 => streak[t][f] >= fails[t][f]
        /\ Dropping(t, f) /\ fails[t][f] >= 0 /\ ~overtaken => streak[t][f] >= MaxFailures
    BY DeliveryAssumption DEF TypeOK, StreakInv, DroppedOnlyWhenDead
  <2>2. Left(t, f) \/ Cut(t, f) \/ Zeroed(t, f) \/ Raised(t, f) \/ Full(t, f)
    BY DEF Counts
  <2>3. CASE Left(t, f)
    <3>1. fails'[t][f] = fails[t][f] /\ streak'[t][f] = streak[t][f]
      BY <2>3 DEF Left
    <3>2. Dropping(t, f)' /\ ~overtaken' => Dropping(t, f) /\ ~overtaken
      BY <2>3 DEF Left
    <3>. QED  BY <2>1, <3>1, <3>2
  <2>4. CASE Cut(t, f)
    BY <2>4 DEF Cut
  <2>5. CASE Zeroed(t, f)
    BY <2>5 DEF Zeroed
  <2>6. CASE Raised(t, f) \/ Full(t, f)
    BY <2>1, <2>6 DEF Raised, Full
  <2>. QED  BY <2>2, <2>3, <2>4, <2>5, <2>6
<1>. QED  BY <1>1 DEF StreakInv, DroppedOnlyWhenDead

\* A step that leaves the counts, and sends the poll to no DELETE.
LEMMA CountsLeft ==
  ASSUME UNCHANGED <<fails, streak>>,
         \/ UNCHANGED <<job, overtaken>>
         \/ job'[Poller].at # "drop"
         \/ job'[Poller] = job[Poller] /\ UNCHANGED overtaken
  PROVE  Counts
  BY DEF Counts, Left, Dropping

LEMMA CountsOfReset ==
  ASSUME TypeOK, NEW t \in Targets, NEW f \in Followers, ResetCount(t, f),
         job'[Poller].at # "drop" \/ job'[Poller] = job[Poller]
  PROVE  Counts
<1>. SUFFICES ASSUME NEW u \in Targets, NEW g \in Followers
              PROVE  Left(u, g) \/ Zeroed(u, g)
  BY DEF Counts
<1>1. /\ fails'[u][g] = IF u = t /\ g = f /\ fails[u][g] >= 0 THEN 0 ELSE fails[u][g]
      /\ streak'[u][g] = IF u = t /\ g = f /\ fails[u][g] >= 0 THEN 0 ELSE streak[u][g]
  BY DEF ResetCount, ResetTo, TypeOK
<1>2. overtaken' = (overtaken \/ Dropping(t, f))
  BY DEF ResetCount, ResetTo
<1>3. Dropping(u, g)' => Dropping(u, g)
  BY DEF Dropping
<1>4. CASE u = t /\ g = f /\ fails[u][g] >= 0
  BY <1>1, <1>2, <1>3, <1>4 DEF Zeroed
<1>5. CASE ~(u = t /\ g = f /\ fails[u][g] >= 0)
  BY <1>1, <1>2, <1>3, <1>5 DEF Left
<1>. QED  BY <1>4, <1>5

LEMMA CountsOfBump ==
  ASSUME TypeInv, Bump
  PROVE  Counts
<1>. DEFINE t == job[Poller].row.org
            f == job[Poller].row.to
            raised == fails[t][f] >= 0 /\ fails[t][f] + 1 < MaxFailures
<1>1. /\ job[Poller].at = "bump" /\ job[Poller] \in Job /\ Poller \in Procs /\ TypeOK
      /\ job \in [Procs -> Job]
  BY Facts DEF Bump, BumpBelow, TypeInv
<1>2. t \in Targets /\ f \in Followers
  BY <1>1, JobShapes, FailureShapes
<1>3. job'[Poller] = IF raised THEN [at |-> "retry"] ELSE [at |-> "drop", row |-> job[Poller].row]
  BY <1>1, DropStep DEF Bump, BumpBelow, Goto
<1>. SUFFICES ASSUME NEW u \in Targets, NEW g \in Followers
              PROVE  Left(u, g) \/ Raised(u, g) \/ Full(u, g) \/ Cut(u, g)
  BY DEF Counts
<1>4. fails[t][f] \in Int /\ fails[u][g] \in -1..(MaxFailures - 1) /\ MaxFailures \in Nat
  BY <1>1, <1>2, DeliveryAssumption DEF TypeOK
<1>5. Dropping(u, g)' => ~raised /\ u = t /\ g = f
  BY <1>3 DEF Dropping
<1>6. /\ fails'[u][g] = IF u = t /\ g = f /\ raised THEN fails[u][g] + 1 ELSE fails[u][g]
      /\ streak'[u][g] = IF u = t /\ g = f /\ fails[u][g] >= 0 THEN streak[u][g] + 1 ELSE streak[u][g]
  BY <1>1, <1>2 DEF Bump, BumpBelow, TypeOK
<1>7. CASE u = t /\ g = f
  <2>1. CASE raised
    BY <1>5, <1>6, <1>7, <2>1 DEF Raised
  <2>2. CASE ~raised /\ fails[t][f] >= 0
    BY <1>4, <1>6, <1>7, <2>2 DEF Full
  <2>3. CASE fails[t][f] < 0
    BY <1>4, <1>6, <1>7, <2>3 DEF Cut
  <2>. QED  BY <1>4, <2>1, <2>2, <2>3
<1>8. CASE ~(u = t /\ g = f)
  BY <1>5, <1>6, <1>8 DEF Left
<1>. QED  BY <1>7, <1>8

LEMMA CountsOfOutside ==
  ASSUME TypeOK, Outside
  PROVE  Counts
<1>0. UNCHANGED job
  BY DEF Outside, ApiChange, Follow, Undo, Purge, LoseActor
<1>. SUFFICES ASSUME NEW u \in Targets, NEW g \in Followers
              PROVE  Left(u, g) \/ Zeroed(u, g) \/ Cut(u, g)
  BY DEF Counts
<1>1. ASSUME NEW t \in Targets, NEW f \in Followers, Follow(t, f)
      PROVE  Left(u, g) \/ Zeroed(u, g)
  <2>1. /\ fails'[u][g] = IF u = t /\ g = f THEN 0 ELSE fails[u][g]
        /\ streak'[u][g] = IF u = t /\ g = f THEN 0 ELSE streak[u][g]
    BY <1>1 DEF Follow, TypeOK
  <2>2. overtaken' = (overtaken \/ Dropping(t, f))
    BY <1>1 DEF Follow
  <2>3. Dropping(u, g)' => Dropping(u, g)
    BY <1>0 DEF Dropping
  <2>4. CASE u = t /\ g = f
    BY <2>1, <2>2, <2>3, <2>4 DEF Zeroed
  <2>5. CASE ~(u = t /\ g = f)
    BY <2>1, <2>2, <2>3, <2>5 DEF Left
  <2>. QED  BY <2>4, <2>5
<1>2. ASSUME fails'[u][g] \in {fails[u][g], -1}, UNCHANGED <<streak, overtaken>>
      PROVE  Left(u, g) \/ Cut(u, g)
  BY <1>0, <1>2 DEF Left, Cut, Dropping
<1>3. ASSUME NEW t \in Targets, NEW f \in Followers, Undo(t, f)
      PROVE  fails'[u][g] \in {fails[u][g], -1} /\ UNCHANGED <<streak, overtaken>>
  BY <1>3 DEF Undo, TypeOK, ghosts
<1>4. ASSUME NEW f \in Followers, Purge(f)
      PROVE  fails'[u][g] \in {fails[u][g], -1} /\ UNCHANGED <<streak, overtaken>>
  BY <1>4 DEF Purge, TypeOK
<1>. QED  BY <1>1, <1>2, <1>3, <1>4 DEF Outside, ApiChange, LoseActor, tables, ghosts

\* Where a goroutine goes does not move the poll.
LEMMA PollStays ==
  ASSUME TypeInv, NEW w \in Workers, NEW j, Goto(w, j)
  PROVE  job'[Poller] = job[Poller]
  BY Facts DEF Goto

LEMMA CountsOfDelivery ==
  ASSUME TypeInv, NEW p \in Procs, Record(p) \/ Post(p) \/ Reset(p)
  PROVE  Counts
<1>0. TypeOK /\ job[p] \in Job
  BY Facts DEF TypeInv
<1>1. PICK j : Goto(p, j) /\ j.at # "drop"
  <2>1. CASE Post(p)
    BY <2>1 DEF Post
  <2>2. CASE Record(p)
    BY <2>2 DEF Record
  <2>3. CASE Reset(p)
    BY <2>3 DEF Reset
  <2>. QED  BY <2>1, <2>2, <2>3
<1>2. job'[Poller].at # "drop" \/ job'[Poller] = job[Poller]
  BY <1>1, Facts DEF Goto
<1>3. CASE Reset(p)
  <2>1. job[p].org \in Targets /\ job[p].to \in Followers
    BY <1>0, <1>3, JobShapes DEF Reset
  <2>. QED  BY <1>0, <1>2, <1>3, <2>1, CountsOfReset DEF Reset
<1>4. CASE Record(p) \/ Post(p)
  BY <1>2, <1>4, CountsLeft DEF Record, Post, tables, ghosts
<1>. QED  BY <1>3, <1>4

LEMMA CountsOfPoll ==
  ASSUME TypeInv, PollStep
  PROVE  Counts
<1>0. TypeOK /\ Poller \in Procs /\ job[Poller] \in Job
  BY Facts DEF TypeInv
<1>1. ASSUME NEW j, Goto(Poller, j), j.at # "drop"  PROVE job'[Poller].at # "drop"
  BY <1>1, Facts DEF Goto
<1>2. CASE PollTick \/ RetryPost \/ RetryRecord \/ Fetch \/ FetchFails \/ PollEnds
           \/ OrgMark \/ RelayMark
  <2>1. UNCHANGED <<fails, streak>>
    BY <1>2 DEF PollTick, RetryPost, RetryRecord, RecordAnswer, Fetch, FetchFails, PollEnds,
                OrgMark, RelayMark, tables, ghosts
  <2>2. PICK j : Goto(Poller, j) /\ j.at # "drop"
    <3>1. CASE PollTick
      BY <3>1 DEF PollTick
    <3>6. CASE RetryPost
      BY <3>6 DEF RetryPost
    <3>2. CASE Fetch \/ FetchFails \/ PollEnds
      BY <3>2 DEF Fetch, FetchFails, PollEnds, Idle
    <3>3. CASE OrgMark
      BY <3>3 DEF OrgMark
    <3>4. CASE RelayMark
      BY <3>4 DEF RelayMark
    <3>5. CASE RetryRecord
      <4>1. \E a \in {"cleared", "bump"} : Goto(Poller, [at |-> a, row |-> job[Poller].row])
            \/ Goto(Poller, [at |-> "retry"])
        BY <3>5 DEF RetryRecord, RecordAnswer, Cleared, GiveUp, TryLater
      <4>. QED  BY <4>1
    <3>. QED  BY <1>2, <3>1, <3>2, <3>3, <3>4, <3>5, <3>6
  <2>. QED  BY <1>1, <2>1, <2>2, CountsLeft
<1>3. CASE Visit \/ RelayVisit
  <2>1. UNCHANGED <<fails, streak>>
    BY <1>3 DEF Visit, VisitAmong, RelayVisit, tables, ghosts
  <2>2. PICK j : Goto(Poller, j) /\ j.at # "drop"
    <3>1. CASE Visit
      BY <3>1 DEF Visit, VisitAmong, Delivering
    <3>2. CASE RelayVisit
      BY <3>2 DEF RelayVisit, Delivering
    <3>. QED  BY <1>3, <3>1, <3>2
  <2>. QED  BY <1>1, <2>1, <2>2, CountsLeft
<1>4. CASE RetryReset
  <2>1. job[Poller].row.org \in Targets /\ job[Poller].row.to \in Followers
    BY <1>0, <1>4, JobShapes, FailureShapes DEF RetryReset
  <2>2. job'[Poller].at # "drop"
    BY <1>1, <1>4 DEF RetryReset
  <2>. QED  BY <1>0, <1>4, <2>1, <2>2, CountsOfReset DEF RetryReset
<1>5. CASE Drop
  <2>1. job'[Poller].at # "drop" /\ UNCHANGED <<streak, overtaken>>
    BY <1>1, <1>5 DEF Drop, ghosts
  <2>2. \A t \in Targets, f \in Followers : fails'[t][f] \in {fails[t][f], -1}
    BY <1>0, <1>5 DEF Drop, TypeOK
  <2>. QED  BY <2>1, <2>2 DEF Counts, Left, Cut, Dropping
<1>. QED  BY <1>0, <1>2, <1>3, <1>4, <1>5, CountsOfBump, CountsOfDelivery DEF PollStep

LEMMA StreakOfStep ==
  ASSUME TypeInv, StreakInv, [Next]_vars
  PROVE  StreakInv'
<1>0. TypeOK
  BY DEF TypeInv
<1>1. CASE Outside
  BY <1>0, <1>1, CountsOfOutside, StreakKept
<1>2. CASE PollStep
  BY <1>0, <1>2, CountsOfPoll, StreakKept
<1>3. ASSUME NEW w \in Workers, WorkerStep(w)  PROVE StreakInv'
  <2>1. CASE Post(w) \/ Record(w) \/ Reset(w)
    BY <1>0, <2>1, Facts, CountsOfDelivery, StreakKept
  <2>2. CASE ~(Post(w) \/ Record(w) \/ Reset(w))
    <3>1. UNCHANGED <<fails, streak, overtaken>>
      BY <1>3, <2>2 DEF WorkerStep, SaveEvent, DeleteRead, UpdateRead, UpdateSend, TransferFound,
                MoveDone, TransferCreate, CreateDone, MarkMoved, MarkNew, DeleteSend,
                SentToAll, tables, ghosts
    <3>2. \E j : Goto(w, j)
      BY <1>3, <2>2 DEF WorkerStep, SaveEvent, DeleteRead, UpdateRead, UpdateSend, TransferFound,
                MoveDone, TransferCreate, CreateDone, MarkMoved, MarkNew, DeleteSend,
                SentToAll
    <3>. QED  BY <1>0, <3>1, <3>2, PollStays, CountsLeft, StreakKept
  <2>. QED  BY <2>1, <2>2
<1>4. CASE Elapse \/ UNCHANGED vars
  BY <1>0, <1>4, CountsLeft, StreakKept DEF Elapse, vars, ghosts
<1>5. CASE Restart
  <2>1. job'[Poller].at # "drop"
    BY <1>5, Facts DEF Restart, Idle
  <2>. QED  BY <1>0, <1>5, <2>1, CountsLeft, StreakKept DEF Restart, tables, ghosts
<1>. QED  BY <1>1, <1>2, <1>3, <1>4, <1>5 DEF Next

\* The DELETE of a dead inbox meets no live follower but one that was reached,
\* or that followed again, since the UPDATE before it: any other has failed
\* MaxFailures times over with no success recorded since it followed.
THEOREM DroppedTheorem == Spec => []DroppedOnlyWhenDead
<1>1. Init => StreakInv
  <2>1. Init => job[Poller].at = "idle"
    BY DEF Init, Idle, Procs
  <2>. QED  BY <2>1 DEF Init, StreakInv, DroppedOnlyWhenDead, Dropping
<1>2. StreakInv /\ TypeInv /\ [Next]_vars => StreakInv'
  BY StreakOfStep
<1>3. StreakInv => DroppedOnlyWhenDead
  BY DEF StreakInv
<1>. QED  BY <1>1, <1>2, <1>3, TypesHold, PTL DEF Spec

-----------------------------------------------------------------------------
(* Nobody is forgotten.  While a delivery is under way, each follower that  *)
(* it has dealt with has the announcement, or a row, or was settled; an     *)
(* accepted answer that is not recorded yet is already in got, so the       *)
(* success that deletes the row leaves nobody with nothing.                 *)

Has(e, t, f) ==
  \/ <<e, t, f>> \in settled
  \/ got[e][t][f] > 0
  \/ \E r \in failures : Announces(r.act) /\ r.act.event = e /\ r.org = t /\ r.to = f

DealtWith(j) == j.list \ (j.todo \cup (IF j.at = "answer" THEN {j.to} ELSE {}))

Kept(j) ==
  /\ j.at \in {"deliver", "answer", "reset"} /\ Announces(j.act) =>
       /\ \A f \in DealtWith(j) : Has(j.act.event, j.org, f)
       /\ j.act.kind = "Announce" => j.org = Relay
       /\ j.at = "answer" /\ j.ok => got[j.act.event][j.org][j.to] > 0
  /\ j.at = "retried" /\ j.ok /\ Announces(j.row.act) =>
       got[j.row.act.event][j.row.org][j.row.to] > 0

KeptInv ==
  /\ \A e \in Events, t \in Targets, f \in Followers : <<e, t, f>> \in promised => Has(e, t, f)
  /\ \A p \in Procs : Kept(job[p])

\* No step takes from a follower what it has, unless it leaves something else.
Lasting ==
  /\ settled \subseteq settled'
  /\ \A e \in Events, t \in Targets, f \in Followers : got[e][t][f] > 0 => got'[e][t][f] > 0
  /\ \A r \in failures : Announces(r.act) =>
       \/ \E q \in failures' : q.act = r.act /\ q.org = r.org /\ q.to = r.to
       \/ got'[r.act.event][r.org][r.to] > 0
       \/ <<r.act.event, r.org, r.to>> \in settled'

LEMMA HasLasts ==
  ASSUME Lasting, NEW e \in Events, NEW t \in Targets, NEW f \in Followers, Has(e, t, f)
  PROVE  Has(e, t, f)'
  BY DEF Lasting, Has, Announces

LEMMA KeptLasts ==
  ASSUME TypeInv, Lasting, NEW p \in Procs, Kept(job[p]), job'[p] = job[p]
  PROVE  Kept(job[p])'
<1>. DEFINE j == job[p]
<1>1. j \in Job /\ job'[p] = j
  BY Facts
<1>2. ASSUME j.at \in {"deliver", "answer", "reset"}, Announces(j.act)
      PROVE  /\ \A f \in DealtWith(j) : Has(j.act.event, j.org, f)'
             /\ j.act.kind = "Announce" => j.org = Relay
             /\ j.at = "answer" /\ j.ok => got'[j.act.event][j.org][j.to] > 0
  <2>1. j.act.event \in Events /\ j.org \in Targets /\ j.list \subseteq Followers
        /\ (j.at = "answer" => j.to \in Followers)
    BY <1>1, <1>2, JobShapes, ActivityShapes
  <2>2. /\ \A f \in DealtWith(j) : f \in Followers /\ Has(j.act.event, j.org, f)
        /\ j.act.kind = "Announce" => j.org = Relay
        /\ j.at = "answer" /\ j.ok => got[j.act.event][j.org][j.to] > 0
    BY <1>2, <2>1 DEF Kept, DealtWith
  <2>3. \A f \in DealtWith(j) : Has(j.act.event, j.org, f)'
    BY <2>1, <2>2 DEF Lasting, Has, Announces
  <2>. QED  BY <2>1, <2>2, <2>3 DEF Lasting
<1>3. ASSUME j.at = "retried", j.ok, Announces(j.row.act)
      PROVE  got'[j.row.act.event][j.row.org][j.row.to] > 0
  <2>1. j.row.act.event \in Events /\ j.row.org \in Targets /\ j.row.to \in Followers
    BY <1>1, <1>3, JobShapes, FailureShapes, ActivityShapes
  <2>. QED  BY <1>3, <2>1 DEF Kept, Lasting
<1>. QED  BY <1>1, <1>2, <1>3 DEF Kept, Has, DealtWith, Announces

\* What is left to show of a step that changes the job of p and promises nothing.
LEMMA OthersKept ==
  ASSUME TypeInv, KeptInv, Lasting, UNCHANGED promised,
         NEW p \in Procs, NEW j, Goto(p, j), Kept(job[p])'
  PROVE  KeptInv'
<1>1. \A e \in Events, t \in Targets, f \in Followers : <<e, t, f>> \in promised' => Has(e, t, f)'
  BY HasLasts DEF KeptInv
<1>2. ASSUME NEW q \in Procs  PROVE Kept(job[q])'
  <2>1. CASE q = p
    BY <2>1
  <2>2. CASE q # p
    <3>1. job'[q] = job[q] /\ Kept(job[q])
      BY <2>2, Facts DEF Goto, KeptInv
    <3>. QED  BY <3>1, KeptLasts
  <2>. QED  BY <2>1, <2>2
<1>. QED  BY <1>1, <1>2 DEF KeptInv

\* A delivery that starts, and a job that is none, have nothing to keep.
Starts(j) ==
  \/ j.at \notin {"deliver", "answer", "reset", "retried"}
  \/ j.at = "deliver" /\ j.list = j.todo /\ (j.act.kind = "Announce" => j.org = Relay)

LEMMA DeliveringStarts ==
  ASSUME NEW act, NEW t, NEW o, act.kind = "Announce" => t = Relay
  PROVE  Starts(Delivering(act, t, o))
  BY DEF Starts, Delivering

LEMMA StartKept ==
  ASSUME TypeInv, KeptInv, UNCHANGED <<failures, got, settled, promised>>,
         NEW p \in Procs, NEW j, Goto(p, j), Starts(j)
  PROVE  KeptInv'
<1>1. Lasting
  BY DEF Lasting
<1>2. job'[p] = j
  BY Facts DEF Goto
<1>3. Kept(job[p])'
  BY <1>2 DEF Kept, Starts, DealtWith, Announces
<1>. QED  BY <1>1, <1>3, OthersKept

LEMMA SuccessLasts ==
  ASSUME NEW act, NEW t, NEW f, Success(act, t, f), UNCHANGED <<got, settled>>,
         Announces(act) => got[act.event][t][f] > 0
  PROVE  Lasting
  BY DEF Lasting, Success, Row

LEMMA ReceivedLasts ==
  ASSUME TypeOK, NEW act \in Activity, NEW t \in Targets, NEW f \in Followers,
         NEW taken \in BOOLEAN, NEW ok \in BOOLEAN, ok => taken,
         Received(act, t, f, taken, ok), UNCHANGED <<failures, settled>>
  PROVE  Lasting /\ (ok /\ Announces(act) => got'[act.event][t][f] > 0)
<1>1. act.event \in Events /\ got \in [Events -> [Targets -> [Followers -> Nat]]]
  BY ActivityShapes DEF TypeOK
<1>2. \A e \in Events, u \in Targets, g \in Followers :
        got'[e][u][g] = IF taken /\ Announces(act) /\ e = act.event /\ u = t /\ g = f
                        THEN got[e][u][g] + 1 ELSE got[e][u][g]
  BY <1>1 DEF Received
<1>3. \A e \in Events, u \in Targets, g \in Followers : got[e][u][g] \in Nat
  BY <1>1
<1>. QED  BY <1>1, <1>2, <1>3 DEF Lasting

LEMMA PostKept ==
  ASSUME TypeInv, KeptInv, NEW p \in Procs, Post(p)
  PROVE  KeptInv'
<1>. DEFINE j == job[p]
<1>1. PICK f \in j.todo, taken \in BOOLEAN, ok \in BOOLEAN :
        /\ ok => taken
        /\ Received(j.act, j.org, f, taken, ok)
        /\ Goto(p, [at |-> "answer", act |-> j.act, org |-> j.org, peer |-> j.peer,
                    list |-> j.list, todo |-> j.todo \ {f}, to |-> f, ok |-> ok])
  BY DEF Post
<1>. DEFINE k == [at |-> "answer", act |-> j.act, org |-> j.org, peer |-> j.peer,
                  list |-> j.list, todo |-> j.todo \ {f}, to |-> f, ok |-> ok]
<1>2. /\ j.at = "deliver" /\ j.act \in Activity /\ j.act.event \in Events /\ j.org \in Targets
      /\ j.list \subseteq Followers /\ j.todo \subseteq Followers /\ f \in Followers
  BY Facts, JobShapes, ActivityShapes DEF Post
<1>3. Lasting /\ (ok /\ Announces(j.act) => got'[j.act.event][j.org][f] > 0)
  BY <1>1, <1>2, ReceivedLasts DEF TypeInv, Post, tables
<1>4. Kept(j)
  BY DEF KeptInv
<1>. PICK e \in Events, t \in Targets : e = j.act.event /\ t = j.org
  BY <1>2
<1>5. ASSUME Announces(j.act)
      PROVE  /\ \A g \in DealtWith(k) : Has(e, t, g)'
             /\ j.act.kind = "Announce" => j.org = Relay
  <2>1. DealtWith(k) \subseteq DealtWith(j) /\ DealtWith(j) \subseteq Followers
    BY <1>2 DEF DealtWith
  <2>2. /\ \A g \in DealtWith(j) : Has(e, t, g)
        /\ j.act.kind = "Announce" => j.org = Relay
    BY <1>2, <1>4, <1>5 DEF Kept
  <2>3. \A g \in Followers : Has(e, t, g) => Has(e, t, g)'
    BY <1>3, HasLasts
  <2>. QED  BY <2>1, <2>2, <2>3
<1>6. job'[p] = k
  BY <1>1, Facts DEF Goto
<1>7. /\ k.at = "answer" /\ k.act = j.act /\ k.org = j.org /\ k.to = f /\ k.ok = ok
  OBVIOUS
<1>. HIDE DEF k
<1>8. Kept(job[p])'
  BY <1>3, <1>5, <1>6, <1>7 DEF Kept, DealtWith, Has, Announces
<1>. QED  BY <1>1, <1>3, <1>8, OthersKept DEF Post, k

\* A statement that leaves the follower at hand with something.
LEMMA DealtKept ==
  ASSUME TypeInv, KeptInv, Lasting, UNCHANGED promised, NEW p \in Procs,
         job[p].at \in {"answer", "reset"},
         NEW e \in Events, e = job[p].act.event, NEW t \in Targets, t = job[p].org,
         NEW f \in Followers, f = job[p].to, Announces(job[p].act) => Has(e, t, f)',
         NEW k, Goto(p, k), k.at \in {"deliver", "reset"},
         k.act = job[p].act, k.org = job[p].org, k.list = job[p].list, k.todo = job[p].todo
  PROVE  KeptInv'
<1>. DEFINE j == job[p]
<1>1. /\ j.act \in Activity /\ j.act.event \in Events /\ j.org \in Targets
      /\ j.list \subseteq Followers /\ j.to \in Followers /\ Kept(j)
  BY Facts, JobShapes, ActivityShapes DEF KeptInv
<1>2. ASSUME Announces(j.act)
      PROVE  /\ \A g \in DealtWith(k) : Has(e, t, g)'
             /\ j.act.kind = "Announce" => j.org = Relay
  <2>1. DealtWith(k) \subseteq DealtWith(j) \cup {f} /\ DealtWith(j) \subseteq Followers
    BY <1>1 DEF DealtWith
  <2>2. /\ \A g \in DealtWith(j) : Has(e, t, g)
        /\ j.act.kind = "Announce" => j.org = Relay
    BY <1>1, <1>2 DEF Kept
  <2>3. \A g \in Followers : Has(e, t, g) => Has(e, t, g)'
    BY HasLasts
  <2>4. Has(e, t, f)'
    BY <1>2
  <2>. QED  BY <2>1, <2>2, <2>3, <2>4
<1>3. job'[p] = k
  BY Facts DEF Goto
<1>4. Kept(job[p])'
  BY <1>2, <1>3 DEF Kept, DealtWith, Has, Announces
<1>. QED  BY <1>4, OthersKept

LEMMA RecordKept ==
  ASSUME TypeInv, KeptInv, NEW p \in Procs, Record(p)
  PROVE  KeptInv'
<1>. DEFINE j == job[p]
<1>1. /\ j.at = "answer" /\ j.act \in Activity /\ j.act.event \in Events /\ j.org \in Targets
      /\ j.list \subseteq Followers /\ j.to \in Followers /\ Kept(j)
  BY Facts, JobShapes, ActivityShapes DEF Record, KeptInv
<1>0. PICK e \in Events, t \in Targets, f \in Followers :
        e = j.act.event /\ t = j.org /\ f = j.to
  BY <1>1
<1>2. UNCHANGED <<got, settled, promised>>
  BY DEF Record, ghosts, accepted
<1>3. /\ Lasting
      /\ Announces(j.act) => Has(e, t, f)'
  <2>1. CASE j.ok /\ Success(j.act, j.org, j.to)
    <3>1. Announces(j.act) => got[e][t][f] > 0
      BY <1>0, <1>1, <2>1 DEF Kept
    <3>. QED  BY <1>0, <1>2, <2>1, <3>1, SuccessLasts DEF Has
  <2>2. CASE failures' = failures \cup NewFailure(j.act, j.org, j.to)
    <3>1. Lasting
      BY <1>2, <2>2 DEF Lasting
    <3>2. \E q \in failures' : q.act = j.act /\ q.org = t /\ q.to = f
      <4>1. CASE Row(j.act, j.org, j.to) = {}
        <5>1. [act |-> j.act, org |-> j.org, to |-> j.to, tries |-> 1, due |-> FALSE] \in failures'
          BY <2>2, <4>1 DEF NewFailure, InsertUnless
        <5>. HIDE DEF j
        <5>. QED  BY <1>0, <5>1
      <4>2. CASE Row(j.act, j.org, j.to) # {}
        BY <1>0, <2>2, <4>2 DEF Row
      <4>. QED  BY <4>1, <4>2
    <3>. QED  BY <1>0, <3>1, <3>2 DEF Has, Announces
  <2>. QED  BY <2>1, <2>2 DEF Record
<1>4. e = j.act.event /\ t = j.org /\ f = j.to
  BY <1>0
<1>5. PICK k : /\ Goto(p, k) /\ k.at \in {"deliver", "reset"}
              /\ k.act = j.act /\ k.org = j.org /\ k.list = j.list /\ k.todo = j.todo
  <2>1. CASE Goto(p, [at |-> "reset", act |-> j.act, org |-> j.org, peer |-> j.peer,
                      list |-> j.list, todo |-> j.todo, to |-> j.to])
    BY <2>1
  <2>2. CASE Goto(p, [at |-> "deliver", act |-> j.act, org |-> j.org, peer |-> j.peer,
                      list |-> j.list, todo |-> j.todo])
    BY <2>2
  <2>. QED  BY <2>1, <2>2 DEF Record
<1>. QED  BY <1>1, <1>2, <1>3, <1>4, <1>5, DealtKept

LEMMA ResetKept ==
  ASSUME TypeInv, KeptInv, NEW p \in Procs, Reset(p)
  PROVE  KeptInv'
<1>. DEFINE j == job[p]
<1>1. /\ j.at = "reset" /\ Lasting /\ UNCHANGED <<failures, got, settled, promised>>
  BY DEF Reset, Lasting, accepted
<1>2. PICK k : /\ Goto(p, k) /\ k.at = "deliver"
              /\ k.act = j.act /\ k.org = j.org /\ k.list = j.list /\ k.todo = j.todo
  BY DEF Reset
<1>3. DealtWith(k) = DealtWith(j)
  BY <1>1, <1>2 DEF DealtWith
<1>4. Kept(j) /\ job'[p] = k
  BY <1>2, Facts DEF KeptInv, Goto
<1>5. Kept(job[p])'
  BY <1>1, <1>2, <1>3, <1>4 DEF Kept, DealtWith, Has, Announces
<1>. QED  BY <1>1, <1>2, <1>5, OthersKept

LEMMA RetryPostKept ==
  ASSUME TypeInv, KeptInv, RetryPost
  PROVE  KeptInv'
<1>1. PICK r \in batch, taken \in BOOLEAN, ok \in BOOLEAN :
        /\ ok => taken
        /\ Received(r.act, r.org, r.to, taken, ok)
        /\ Goto(Poller, [at |-> "retried", row |-> r, ok |-> ok])
  BY DEF RetryPost
<1>2. r.act \in Activity /\ r.org \in Targets /\ r.to \in Followers /\ Poller \in Procs
  BY Facts, FailureShapes DEF TypeInv, TypeOK
<1>3. Lasting /\ (ok /\ Announces(r.act) => got'[r.act.event][r.org][r.to] > 0)
  BY <1>1, <1>2, ReceivedLasts DEF TypeInv, RetryPost, tables
<1>4. job'[Poller] = [at |-> "retried", row |-> r, ok |-> ok]
  BY <1>1, <1>2, Facts DEF Goto
<1>5. Kept(job[Poller])'
  BY <1>3, <1>4 DEF Kept, Announces
<1>. QED  BY <1>1, <1>2, <1>3, <1>5, OthersKept DEF RetryPost

LEMMA RetryRecordKept ==
  ASSUME TypeInv, KeptInv, RetryRecord
  PROVE  KeptInv'
<1>. DEFINE r == job[Poller].row
<1>1. /\ job[Poller].at = "retried"
      /\ UNCHANGED <<got, promised>> /\ Poller \in Procs /\ Kept(job[Poller])
  BY Facts DEF RetryRecord, RecordAnswer, KeptInv, accepted
<1>2. PICK k : Goto(Poller, k) /\ k.at \in {"cleared", "bump", "retry"}
  BY AnswerGoes
<1>3. Lasting
  <2>1. CASE job[Poller].ok /\ Cleared(r)
    <3>1. Announces(r.act) => got[r.act.event][r.org][r.to] > 0
      BY <1>1, <2>1 DEF Kept
    <3>. QED  BY <1>1, <2>1, <3>1, SuccessLasts DEF Cleared
  <2>2. CASE GiveUp(r)
    BY <1>1, <2>2 DEF Lasting, GiveUp, Row
  <2>3. CASE TryLater(r)
    <3>1. \A q \in failures : q \in Failure
      BY DEF TypeInv, TypeOK
    <3>2. \A q \in Failure : [q EXCEPT !.tries = r.tries + 1, !.due = FALSE].act = q.act
                          /\ [q EXCEPT !.tries = r.tries + 1, !.due = FALSE].org = q.org
                          /\ [q EXCEPT !.tries = r.tries + 1, !.due = FALSE].to = q.to
      BY DEF Failure
    <3>3. \A q \in failures : \E n \in failures' : n.act = q.act /\ n.org = q.org /\ n.to = q.to
      BY <2>3, <3>1, <3>2 DEF TryLater
    <3>. QED  BY <1>1, <2>3, <3>3 DEF Lasting, TryLater
  <2>. QED  BY <2>1, <2>2, <2>3 DEF RetryRecord, RecordAnswer
<1>4. Kept(job[Poller])'
  BY <1>1, <1>2, Facts DEF Goto, Kept
<1>. QED  BY <1>1, <1>2, <1>3, <1>4, OthersKept

\* The count of give-ups, and the drop, touch nothing a follower has.
LEMMA CountKept ==
  ASSUME TypeInv, KeptInv, RetryReset \/ Bump \/ Drop
  PROVE  KeptInv'
<1>1. Poller \in Procs /\ job[Poller] \in Job
  BY Facts
<1>2. PICK k : Goto(Poller, k) /\ k.at \in {"retry", "drop"}
  BY CountGoes
<1>3. UNCHANGED <<failures, got, settled, promised>>
  BY DEF RetryReset, Bump, BumpBelow, Drop, ghosts, accepted
<1>. QED  BY <1>1, <1>2, <1>3, StartKept DEF Starts

\* A delivery that is marked done has dealt with everyone it listed.
LEMMA PromiseKept ==
  ASSUME TypeInv, KeptInv, NEW p \in Procs, Delivered(p), Announces(job[p].act),
         UNCHANGED <<failures, got, settled>>,
         Promise(job[p].act.event, job[p].org, job[p].list),
         NEW j, Goto(p, j), j.at \notin {"deliver", "answer", "reset", "retried"}
  PROVE  KeptInv'
<1>1. Lasting
  BY DEF Lasting
<1>2. \A f \in job[p].list : Has(job[p].act.event, job[p].org, f)
  BY DEF Delivered, KeptInv, Kept, DealtWith
<1>3. \A e \in Events, t \in Targets, f \in Followers :
        <<e, t, f>> \in promised' => Has(e, t, f)
  BY <1>2 DEF Promise, KeptInv
<1>4. \A e \in Events, t \in Targets, f \in Followers :
        <<e, t, f>> \in promised' => Has(e, t, f)'
  BY <1>1, <1>3, HasLasts
<1>5. ASSUME NEW q \in Procs  PROVE Kept(job[q])'
  <2>1. job'[q] = IF q = p THEN j ELSE job[q]
    BY Facts DEF Goto
  <2>2. CASE q = p
    BY <2>1, <2>2 DEF Kept
  <2>3. CASE q # p
    BY <1>1, <2>1, <2>3, KeptLasts DEF KeptInv
  <2>. QED  BY <2>2, <2>3
<1>. QED  BY <1>4, <1>5 DEF KeptInv

\* Steps that leave the jobs alone.
LEMMA StillKept ==
  ASSUME TypeInv, KeptInv, Lasting, UNCHANGED <<job, promised>>
  PROVE  KeptInv'
<1>1. \A e \in Events, t \in Targets, f \in Followers : <<e, t, f>> \in promised' => Has(e, t, f)'
  BY HasLasts DEF KeptInv
<1>2. \A p \in Procs : Kept(job[p])'
  BY KeptLasts DEF KeptInv
<1>. QED  BY <1>1, <1>2 DEF KeptInv

LEMMA PollKept ==
  ASSUME TypeInv, KeptInv, PollStep
  PROVE  KeptInv'
<1>0. Poller \in Procs
  BY Facts
<1>1. CASE PollTick \/ Fetch \/ FetchFails \/ PollEnds
  <2>1. PICK j : Goto(Poller, j) /\ j.at \in {"idle", "retry", "visit"}
    BY <1>1 DEF PollTick, Fetch, FetchFails, PollEnds, Idle
  <2>. QED  BY <1>0, <1>1, <2>1, StartKept
            DEF Starts, PollTick, Fetch, FetchFails, PollEnds, tables, ghosts, accepted
<1>2. CASE Visit
  <2>1. PICK s \in listing :
          Goto(Poller, IF s \in Undelivered
                       THEN Delivering(Plain("Create", s.event), s.org, Hidden)
                       ELSE [at |-> "relay", event |-> s.event, org |-> s.org])
    BY <1>2 DEF Visit, VisitAmong
  <2>2. PICK j : Goto(Poller, j) /\ Starts(j)
    <3>1. Starts(Delivering(Plain("Create", s.event), s.org, Hidden))
      BY DeliveringStarts DEF Plain
    <3>2. Starts([at |-> "relay", event |-> s.event, org |-> s.org])
      BY DEF Starts
    <3>. QED  BY <2>1, <3>1, <3>2
  <2>. QED  BY <1>0, <1>2, <2>2, StartKept DEF Visit, VisitAmong, ghosts, accepted
<1>3. CASE RelayVisit
  <2>1. PICK j : Goto(Poller, j) /\ Starts(j)
    <3>1. Starts(Delivering(Stamped("Announce", job[Poller].event), Relay, Hidden))
      BY DeliveringStarts
    <3>2. Starts([at |-> "visit"])
      BY DEF Starts
    <3>. QED  BY <1>3, <3>1, <3>2 DEF RelayVisit
  <2>. QED  BY <1>0, <1>3, <2>1, StartKept DEF RelayVisit, tables, ghosts, accepted
<1>4. CASE OrgMark
  <2>1. PICK j : Goto(Poller, j) /\ j.at = "relay"
    BY <1>4 DEF OrgMark
  <2>. QED  BY <1>0, <1>4, <2>1, PromiseKept DEF OrgMark, Announces, accepted
<1>5. CASE RelayMark
  <2>1. Announces(job[Poller].act) /\ job[Poller].org = Relay
    BY <1>0, <1>5 DEF RelayMark, Announces, Delivered, KeptInv, Kept
  <2>2. PICK j : Goto(Poller, j) /\ j.at = "visit"
    BY <1>5 DEF RelayMark
  <2>. QED  BY <1>0, <1>5, <2>1, <2>2, PromiseKept DEF RelayMark, accepted
<1>. QED  BY <1>0, <1>1, <1>2, <1>3, <1>4, <1>5, PostKept, RecordKept, ResetKept,
             RetryPostKept, RetryRecordKept, CountKept DEF PollStep

LEMMA WorkerKept ==
  ASSUME TypeInv, KeptInv, NEW w \in Workers, WorkerStep(w)
  PROVE  KeptInv'
<1>0. w \in Procs
  BY Facts
<1>1. CASE Post(w) \/ Record(w) \/ Reset(w)
  BY <1>0, <1>1, PostKept, RecordKept, ResetKept
<1>2. CASE CreateDone(w)
  <2>1. PICK j : Goto(w, j) /\ j.at = "moved"
    BY <1>2 DEF CreateDone
  <2>. QED  BY <1>0, <1>2, <2>1, PromiseKept DEF CreateDone, Announces, tables, accepted
<1>3. CASE (\E e \in Events, o \in Orgs : SaveEvent(w, e, o)) \/ (\E e \in Events : DeleteRead(w, e))
           \/ UpdateRead(w) \/ MoveDone(w) \/ MarkNew(w) \/ SentToAll(w)
  <2>1. PICK j : Goto(w, j) /\ j.at \in {"idle", "update", "history", "create", "delete"}
    <3>1. ASSUME NEW e \in Events, NEW o \in Orgs, SaveEvent(w, e, o)
          PROVE  \E j : Goto(w, j) /\ j.at = "update"
      BY <3>1 DEF SaveEvent
    <3>2. ASSUME NEW e \in Events, DeleteRead(w, e)
          PROVE  \E j : Goto(w, j) /\ j.at = "delete"
      BY <3>2 DEF DeleteRead
    <3>3. ASSUME UpdateRead(w) \/ MoveDone(w) \/ MarkNew(w) \/ SentToAll(w)
          PROVE  \E j : Goto(w, j) /\ j.at \in {"idle", "history", "create"}
      <4>1. CASE UpdateRead(w)
        <5>1. \/ Goto(w, [at |-> "history", event |-> job[w].event, org |-> event[job[w].event]])
              \/ Goto(w, Idle)
          BY <4>1 DEF UpdateRead
        <5>. QED  BY <5>1 DEF Idle
      <4>2. CASE MoveDone(w)
        BY <4>2 DEF MoveDone
      <4>3. CASE MarkNew(w) \/ SentToAll(w)
        BY <4>3 DEF MarkNew, SentToAll, Idle
      <4>. QED  BY <3>3, <4>1, <4>2, <4>3
    <3>. QED  BY <1>3, <3>1, <3>2, <3>3
  <2>. QED  BY <1>0, <1>3, <2>1, StartKept
            DEF Starts, SaveEvent, DeleteRead, UpdateRead, MoveDone, MarkNew, SentToAll,
                tables, ghosts, accepted
<1>4. CASE MarkMoved(w)
  <2>1. PICK j : Goto(w, j) /\ j.at = "mark"
    BY <1>4, <1>0, Facts, JobSteps DEF MarkMoved
  <2>. QED  BY <1>0, <1>4, <2>1, StartKept DEF Starts, MarkMoved, ghosts, accepted
<1>5. CASE UpdateSend(w) \/ TransferFound(w) \/ TransferCreate(w) \/ DeleteSend(w)
  <2>. DEFINE e == job[w].event
              o == job[w].org
  <2>1. \A q, t : /\ Starts(Delivering(Stamped("Update", e), o, q))
                  /\ Starts(Delivering(Stamped("Move", e), t, q))
                  /\ Starts(Delivering(Plain("Create", e), o, q))
                  /\ Starts(Delivering(Plain("Delete", e), o, q))
    BY DeliveringStarts DEF Stamped, Plain
  <2>2. Starts(Idle) /\ \A q : Starts([at |-> "create", event |-> e, org |-> o, peer |-> q])
    BY DEF Starts, Idle
  <2>3. job[w].at = "create" => Starts([job[w] EXCEPT !.at = "moved"])
    BY <1>0, Facts, JobSteps DEF Starts
  <2>4. PICK j : Goto(w, j) /\ Starts(j)
    BY <1>5, <2>1, <2>2, <2>3 DEF UpdateSend, TransferFound, TransferCreate, DeleteSend
  <2>. QED  BY <1>0, <1>5, <2>4, StartKept
            DEF UpdateSend, TransferFound, TransferCreate, DeleteSend, tables, ghosts, accepted
<1>. QED  BY <1>1, <1>2, <1>3, <1>4, <1>5 DEF WorkerStep

LEMMA KeptOfStep ==
  ASSUME TypeInv, KeptInv, [Next]_vars
  PROVE  KeptInv'
<1>1. CASE Elapse
  <2>1. PICK r \in failures : failures' = (failures \ {r}) \cup {[r EXCEPT !.due = TRUE]}
    BY <1>1 DEF Elapse
  <2>2. \A q \in failures : q \in Failure
    BY DEF TypeInv, TypeOK
  <2>3. /\ [r EXCEPT !.due = TRUE].act = r.act /\ [r EXCEPT !.due = TRUE].org = r.org
        /\ [r EXCEPT !.due = TRUE].to = r.to
    BY <2>2 DEF Failure
  <2>4. \A q \in failures : \E n \in failures' : n.act = q.act /\ n.org = q.org /\ n.to = q.to
    BY <2>1, <2>3
  <2>. QED  BY <1>1, <2>4, StillKept DEF Lasting, Elapse, ghosts, accepted
<1>2. CASE Outside
  <2>1. ASSUME NEW f \in Followers, Purge(f)  PROVE Lasting
    <3>1. \A r \in failures : r \in Failure
      BY DEF TypeInv, TypeOK
    <3>2. \A r \in failures \ failures' : <<r.act.event, r.org, r.to>> \in settled'
      BY <2>1, <3>1, FailureShapes, ActivityShapes DEF Purge
    <3>. QED  BY <2>1, <3>2 DEF Purge, Lasting, accepted
  <2>2. Lasting
    BY <1>2, <2>1 DEF Outside, ApiChange, Follow, Undo, LoseActor, Lasting, tables, ghosts, accepted
  <2>3. UNCHANGED <<job, promised>>
    BY <1>2 DEF Outside, ApiChange, Follow, Undo, Purge, LoseActor, ghosts, accepted
  <2>. QED  BY <2>2, <2>3, StillKept
<1>3. CASE Restart
  <2>1. Lasting /\ UNCHANGED promised
    BY <1>3 DEF Restart, Lasting, tables, ghosts, accepted
  <2>2. \A e \in Events, t \in Targets, f \in Followers : <<e, t, f>> \in promised' => Has(e, t, f)'
    BY <2>1, HasLasts DEF KeptInv
  <2>3. \A p \in Procs : Kept(job[p])'
    BY <1>3 DEF Restart, Kept, Idle
  <2>. QED  BY <2>2, <2>3 DEF KeptInv
<1>4. CASE UNCHANGED vars
  BY <1>4, StillKept DEF Lasting, vars
<1>. QED  BY <1>1, <1>2, <1>3, <1>4, PollKept, WorkerKept DEF Next

\* A delivery marked done leaves nobody out, across crashes and races: each
\* follower it listed has the announcement, has it waiting in
\* delivery_failures, was given up after every attempt, or was erased.
THEOREM ForgottenTheorem == Spec => []NothingForgotten
<1>1. Init => KeptInv
  BY DEF Init, KeptInv, Kept, Idle
<1>2. KeptInv /\ TypeInv /\ [Next]_vars => KeptInv'
  BY KeptOfStep
<1>3. KeptInv => NothingForgotten
  BY DEF KeptInv, Has, NothingForgotten
<1>. QED  BY <1>1, <1>2, <1>3, TypesHold, PTL DEF Spec

-----------------------------------------------------------------------------
(* No duplicate that nothing explains.  Of each failure there is one row,   *)
(* and the poll retries it from one copy.                                   *)

SameKey(q, r) == q.act = r.act /\ q.org = r.org /\ q.to = r.to
OneRowEach(rows) == \A q, r \in rows : SameKey(q, r) => q = r

KeyInv ==
  /\ OneRowEach(failures) /\ OneRowEach(batch)
  /\ job[Poller].at = "retried" => \A q \in batch : ~SameKey(q, job[Poller].row)
  /\ \A p \in Procs : job[p].at = "answer" => job[p].to \notin job[p].todo

\* A step that starts neither a retry nor a post owes KeyInv only its tables.
LEMMA KeysStay ==
  ASSUME TypeInv, KeyInv, OneRowEach(failures'), batch' \subseteq batch,
         NEW p \in Procs, NEW j, Goto(p, j), j.at \notin {"answer", "retried"}
  PROVE  KeyInv'
<1>1. \A q \in Procs : job'[q] = IF q = p THEN j ELSE job[q]
  BY Facts DEF Goto
<1>2. job'[Poller].at = "retried" => job'[Poller] = job[Poller]
  BY <1>1, Facts
<1>3. \A q \in Procs : job'[q].at = "answer" => job'[q] = job[q]
  BY <1>1
<1>. QED  BY <1>2, <1>3 DEF KeyInv, OneRowEach

LEMMA KeysOfSuccess ==
  ASSUME OneRowEach(failures), NEW act, NEW t, NEW f, Success(act, t, f)
  PROVE  OneRowEach(failures')
  BY DEF OneRowEach, Success

LEMMA KeysOfPost ==
  ASSUME TypeInv, KeyInv, NEW p \in Procs, Post(p)
  PROVE  KeyInv'
<1>1. PICK f \in job[p].todo, ok \in BOOLEAN :
        Goto(p, [at |-> "answer", act |-> job[p].act, org |-> job[p].org,
                 peer |-> job[p].peer, list |-> job[p].list,
                 todo |-> job[p].todo \ {f}, to |-> f, ok |-> ok])
  BY DEF Post
<1>. DEFINE j == [at |-> "answer", act |-> job[p].act, org |-> job[p].org,
                  peer |-> job[p].peer, list |-> job[p].list,
                  todo |-> job[p].todo \ {f}, to |-> f, ok |-> ok]
<1>2. j.at = "answer" /\ j.to \notin j.todo
  OBVIOUS
<1>. HIDE DEF j
<1>3. \A q \in Procs : job'[q] = IF q = p THEN j ELSE job[q]
  BY <1>1, Facts DEF Goto, j
<1>4. job'[Poller].at = "retried" => job'[Poller] = job[Poller]
  BY <1>2, <1>3, Facts
<1>5. UNCHANGED <<failures, batch>>
  BY DEF Post, tables
<1>. QED  BY <1>2, <1>3, <1>4, <1>5 DEF KeyInv, OneRowEach

LEMMA KeysOfRecord ==
  ASSUME TypeInv, KeyInv, NEW p \in Procs, Record(p)
  PROVE  KeyInv'
<1>. DEFINE j == job[p]
<1>1. OneRowEach(failures')
  <2>1. CASE Success(j.act, j.org, j.to)
    BY <2>1, KeysOfSuccess DEF KeyInv
  <2>2. CASE failures' = failures \cup NewFailure(j.act, j.org, j.to)
    <3>. DEFINE new == [act |-> j.act, org |-> j.org, to |-> j.to, tries |-> 1, due |-> FALSE]
    <3>1. CASE Row(j.act, j.org, j.to) = {}
      <4>1. failures' = failures \cup {new}
        BY <2>2, <3>1 DEF NewFailure, InsertUnless
      <4>2. \A q \in failures : ~SameKey(q, new) /\ ~SameKey(new, q)
        BY <3>1 DEF Row, SameKey
      <4>. HIDE DEF new
      <4>. QED  BY <4>1, <4>2 DEF KeyInv, OneRowEach
    <3>2. CASE Row(j.act, j.org, j.to) # {}
      BY <2>2, <3>2 DEF NewFailure, InsertUnless, KeyInv, OneRowEach
    <3>. QED  BY <3>1, <3>2
  <2>. QED  BY <2>1, <2>2 DEF Record
<1>2. \E k : Goto(p, k) /\ k.at \in {"deliver", "reset"}
  <2>1. CASE Goto(p, [at |-> "reset", act |-> j.act, org |-> j.org, peer |-> j.peer,
                      list |-> j.list, todo |-> j.todo, to |-> j.to])
    BY <2>1
  <2>2. CASE Goto(p, [at |-> "deliver", act |-> j.act, org |-> j.org, peer |-> j.peer,
                      list |-> j.list, todo |-> j.todo])
    BY <2>2
  <2>. QED  BY <2>1, <2>2 DEF Record
<1>3. batch' = batch
  BY DEF Record
<1>. QED  BY <1>1, <1>2, <1>3, KeysStay

LEMMA KeysOfRetryPost ==
  ASSUME TypeInv, KeyInv, RetryPost
  PROVE  KeyInv'
<1>1. PICK r \in batch, ok \in BOOLEAN :
        batch' = batch \ {r} /\ Goto(Poller, [at |-> "retried", row |-> r, ok |-> ok])
  BY DEF RetryPost
<1>2. \A q \in Procs :
        job'[q] = IF q = Poller THEN [at |-> "retried", row |-> r, ok |-> ok] ELSE job[q]
  BY <1>1, Facts DEF Goto
<1>3. \A q \in batch' : ~SameKey(q, r)
  BY <1>1 DEF KeyInv, OneRowEach
<1>4. \A q \in Procs : job'[q].at = "answer" => job'[q] = job[q]
  BY <1>2
<1>5. failures' = failures
  BY DEF RetryPost, tables
<1>6. job'[Poller].row = r
  BY <1>2, Facts
<1>. QED  BY <1>1, <1>3, <1>4, <1>5, <1>6 DEF KeyInv, OneRowEach

\* Of the answer to a retry, every case keeps one row per key.
LEMMA KeysOfRetryRecord ==
  ASSUME TypeInv, KeyInv, RetryRecord
  PROVE  KeyInv'
<1>. DEFINE r == job[Poller].row
<1>1. OneRowEach(failures')
  <2>1. CASE Cleared(r)
    BY <2>1, KeysOfSuccess DEF Cleared, KeyInv
  <2>2. CASE GiveUp(r)
    BY <2>2 DEF GiveUp, KeyInv, OneRowEach
  <2>3. CASE TryLater(r)
    <3>. DEFINE later(q) == [q EXCEPT !.tries = r.tries + 1, !.due = FALSE]
    <3>1. failures' = {IF q \in Row(r.act, r.org, r.to) THEN later(q) ELSE q : q \in failures}
      BY <2>3 DEF TryLater
    <3>2. \A q \in failures : SameKey(later(q), q)
      BY DEF SameKey, TypeInv, TypeOK, Failure
    <3>. HIDE DEF later
    <3>3. \A x \in failures' : \E q \in failures :
            SameKey(x, q) /\ x = (IF q \in Row(r.act, r.org, r.to) THEN later(q) ELSE q)
      BY <3>1, <3>2 DEF SameKey
    <3>. QED  BY <3>3 DEF KeyInv, OneRowEach, SameKey
  <2>. QED  BY <2>1, <2>2, <2>3 DEF RetryRecord, RecordAnswer
<1>2. PICK k : Goto(Poller, k) /\ k.at \in {"cleared", "bump", "retry"}
  BY AnswerGoes
<1>3. batch' = batch
  BY DEF RetryRecord, RecordAnswer
<1>. QED  BY <1>1, <1>2, <1>3, Facts, KeysStay

LEMMA KeysOfElapse ==
  ASSUME TypeInv, KeyInv, Elapse
  PROVE  KeyInv' /\ \A q \in failures' : \E r \in failures : SameKey(q, r)
<1>1. PICK r \in failures : failures' = (failures \ {r}) \cup {[r EXCEPT !.due = TRUE]}
  BY DEF Elapse
<1>. DEFINE new == [r EXCEPT !.due = TRUE]
<1>2. SameKey(new, r)
  BY DEF SameKey, TypeInv, TypeOK, Failure
<1>3. failures' = (failures \ {r}) \cup {new}
  BY <1>1
<1>. HIDE DEF new
<1>4. \A q \in failures' : \E x \in failures : SameKey(q, x)
  BY <1>2, <1>3 DEF SameKey
<1>5. \A q \in failures \ {r} : ~SameKey(q, new) /\ ~SameKey(new, q)
  BY <1>2 DEF KeyInv, OneRowEach, SameKey
<1>6. OneRowEach(failures')
  BY <1>3, <1>5 DEF KeyInv, OneRowEach
<1>. QED  BY <1>4, <1>6 DEF KeyInv, Elapse, OneRowEach

LEMMA KeysOfPoll ==
  ASSUME TypeInv, KeyInv, PollStep
  PROVE  KeyInv'
<1>. USE DEF tables
<1>0. Poller \in Procs
  BY Facts
<1>1. CASE Post(Poller) \/ Record(Poller) \/ RetryPost \/ RetryRecord
  BY <1>0, <1>1, KeysOfPost, KeysOfRecord, KeysOfRetryPost, KeysOfRetryRecord
<1>2. CASE PollTick
  <2>1. \A q \in Procs : job'[q] = IF q = Poller THEN [at |-> "retry"] ELSE job[q]
    BY <1>2, Facts DEF PollTick, Goto
  <2>2. job'[Poller].at # "retried" /\ \A q \in Procs : job'[q].at = "answer" => job'[q] = job[q]
    BY <2>1, Facts
  <2>3. failures' = failures /\ batch' \subseteq failures
    BY <1>2 DEF PollTick
  <2>. QED  BY <2>2, <2>3 DEF KeyInv, OneRowEach
<1>3. CASE Fetch \/ FetchFails \/ Visit \/ OrgMark \/ RelayVisit \/ RelayMark \/ PollEnds
  <2>1. PICK j : Goto(Poller, j) /\ j.at \notin {"answer", "retried"}
    <3>1. CASE Fetch \/ FetchFails \/ PollEnds
      BY <3>1 DEF Fetch, FetchFails, PollEnds, Idle
    <3>2. CASE Visit
      BY <3>2 DEF Visit, VisitAmong, Delivering
    <3>3. CASE OrgMark \/ RelayMark
      BY <3>3 DEF OrgMark, RelayMark
    <3>4. CASE RelayVisit
      BY <3>4 DEF RelayVisit, Delivering
    <3>. QED  BY <1>3, <3>1, <3>2, <3>3, <3>4
  <2>2. UNCHANGED <<failures, batch>>
    BY <1>3 DEF Fetch, FetchFails, Visit, VisitAmong, OrgMark, RelayVisit, RelayMark, PollEnds
  <2>. QED  BY <1>0, <2>1, <2>2, KeysStay DEF KeyInv, OneRowEach
<1>4. CASE RetryReset \/ Drop \/ Reset(Poller)
  <2>1. PICK j : Goto(Poller, j) /\ j.at \in {"retry", "deliver"}
    <3>1. CASE RetryReset \/ Drop
      BY <3>1 DEF RetryReset, Drop
    <3>2. CASE Reset(Poller)
      BY <3>2 DEF Reset
    <3>. QED  BY <1>4, <3>1, <3>2
  <2>2. UNCHANGED <<failures, batch>>
    BY <1>4 DEF RetryReset, Drop, Reset
  <2>. QED  BY <1>0, <2>1, <2>2, KeysStay DEF KeyInv, OneRowEach
<1>5. CASE Bump
  <2>1. PICK j : Goto(Poller, j) /\ j.at \in {"retry", "drop"}
    BY <1>5, CountGoes
  <2>2. UNCHANGED <<failures, batch>>
    BY <1>5 DEF Bump, BumpBelow
  <2>. QED  BY <1>0, <2>1, <2>2, KeysStay DEF KeyInv, OneRowEach
<1>. QED  BY <1>1, <1>2, <1>3, <1>4, <1>5 DEF PollStep

LEMMA KeysOfWorker ==
  ASSUME TypeInv, KeyInv, NEW w \in Workers, WorkerStep(w)
  PROVE  KeyInv'
<1>. USE DEF tables
<1>0. w \in Procs
  BY Facts
<1>1. CASE Post(w) \/ Record(w) \/ Reset(w)
  <2>1. CASE Reset(w)
    <3>1. PICK j : Goto(w, j) /\ j.at = "deliver"
      BY <2>1 DEF Reset
    <3>2. UNCHANGED <<failures, batch>>
      BY <2>1 DEF Reset
    <3>. QED  BY <1>0, <3>1, <3>2, KeysStay DEF KeyInv, OneRowEach
  <2>. QED  BY <1>0, <1>1, <2>1, KeysOfPost, KeysOfRecord
<1>2. ASSUME NEW j, Goto(w, j), j.at \notin {"answer", "retried"},
             UNCHANGED <<failures, batch>>
      PROVE  KeyInv'
  BY <1>0, <1>2, KeysStay DEF KeyInv, OneRowEach
<1>3. ASSUME NEW e \in Events, NEW o \in Orgs, SaveEvent(w, e, o)
      PROVE  KeyInv'
  BY <1>2, <1>3 DEF SaveEvent
<1>4. ASSUME NEW e \in Events, DeleteRead(w, e)
      PROVE  KeyInv'
  BY <1>2, <1>4 DEF DeleteRead
<1>5. CASE UpdateRead(w)
  BY <1>2, <1>5 DEF UpdateRead, Idle
<1>6. CASE UpdateSend(w)
  BY <1>2, <1>6 DEF UpdateSend, Delivering, Idle
<1>7. CASE TransferFound(w)
  BY <1>2, <1>7 DEF TransferFound, Delivering, Idle
<1>8. CASE MoveDone(w) \/ CreateDone(w) \/ SentToAll(w) \/ MarkNew(w)
  BY <1>2, <1>8 DEF MoveDone, CreateDone, SentToAll, MarkNew, Idle
<1>9. CASE TransferCreate(w)
  <2>1. [job[w] EXCEPT !.at = "moved"].at = "moved"
    BY <1>0, <1>9, Facts, JobSteps DEF TransferCreate
  <2>. QED  BY <1>2, <1>9, <2>1 DEF TransferCreate, Delivering
<1>10. CASE MarkMoved(w)
  <2>1. [job[w] EXCEPT !.at = "mark"].at = "mark"
    BY <1>0, <1>10, Facts, JobSteps DEF MarkMoved
  <2>. QED  BY <1>2, <1>10, <2>1 DEF MarkMoved
<1>11. CASE DeleteSend(w)
  BY <1>2, <1>11 DEF DeleteSend, Delivering, Idle
<1>. QED
  BY <1>1, <1>3, <1>4, <1>5, <1>6, <1>7, <1>8, <1>9, <1>10, <1>11 DEF WorkerStep

LEMMA KeysOfStep ==
  ASSUME TypeInv, KeyInv, [Next]_vars
  PROVE  KeyInv'
<1>1. ASSUME UNCHANGED <<job, batch>>, failures' \subseteq failures
      PROVE  KeyInv'
  BY <1>1 DEF KeyInv, OneRowEach
<1>2. CASE Outside
  BY <1>1, <1>2 DEF Outside, ApiChange, Follow, Undo, Purge, LoseActor, tables
<1>3. CASE Restart
  <2>1. job' = [p \in Procs |-> Idle] /\ batch' = {} /\ failures' = failures
    BY <1>3 DEF Restart, tables
  <2>2. \A p \in Procs : job'[p].at = "idle"
    BY <2>1 DEF Idle
  <2>. QED  BY <2>1, <2>2, Facts DEF KeyInv, OneRowEach
<1>4. CASE UNCHANGED vars
  BY <1>1, <1>4 DEF vars
<1>. QED  BY <1>2, <1>3, <1>4, KeysOfPoll, KeysOfWorker, KeysOfElapse DEF Next

\* The poll has posted the announcement act to f and not recorded it yet.
Retrying(act, t, f) ==
  /\ job[Poller].at = "retried" /\ job[Poller].ok
  /\ SameKey(job[Poller].row, [act |-> act, org |-> t, to |-> f])

\* The announcements of e that failure rows, or the poll's copies, still owe f.
Owed(act, t, f) == \E r \in failures \cup batch : SameKey(r, [act |-> act, org |-> t, to |-> f])
Waiting(e, t, f) ==
  {act \in {r.act : r \in failures \cup batch} :
     Announces(act) /\ act.event = e /\ Owed(act, t, f) /\ ~Retrying(act, t, f)}

\* A process that posts an announcement of e to f, or will post a transfer's.
Sends(j, e, t, f) ==
  \/ /\ j.at \in {"deliver", "answer", "reset"}
     /\ Announces(j.act) /\ j.act.event = e /\ j.org = t
     /\ f \in j.todo \/ (j.at = "answer" /\ j.to = f /\ ~j.ok)
  \/ j.at \in {"update", "history", "create"} /\ j.event = e
  \/ j.at \in {"deliver", "answer", "reset"} /\ j.act.kind = "Move" /\ j.act.event = e
Senders(e, t, f) == {p \in Procs : Sends(job[p], e, t, f)}

\* The poll has yet to announce e for t, and has not begun.
Announcing(j, e, t) ==
  j.at \in {"deliver", "answer", "reset"} /\ Announces(j.act) /\ j.act.event = e /\ j.org = t
Pending(e, t) == delivered[e][t] = "no" /\ ~Announcing(job[Poller], e, t)
Unvisited(e, t) == IF Pending(e, t) THEN 1 ELSE 0

\* What f has got that its senders know of.
Heard(e, t, f) == got[e][t][f] - unheard[e][t][f]

\* What f has got and may still get of e is what the first announcement, the
\* restarts and the saves explain.
Budget(e, t, f) ==
  Heard(e, t, f) + Cardinality(Waiting(e, t, f)) + Cardinality(Senders(e, t, f)) + Unvisited(e, t)
Debt(e, t, f) ==
  /\ IsFiniteSet(Waiting(e, t, f)) /\ IsFiniteSet(Senders(e, t, f))
  /\ Budget(e, t, f) <= 1 + restarts + edits
DebtInv == \A e \in Events, t \in Targets, f \in Followers : Debt(e, t, f)

-----------------------------------------------------------------------------
(* Counting.  Every step is one of these trades.                           *)

LEMMA Fewer ==
  ASSUME NEW S, IsFiniteSet(S), NEW T, T \subseteq S
  PROVE  IsFiniteSet(T) /\ Cardinality(T) \in Nat /\ Cardinality(S) \in Nat
         /\ Cardinality(T) <= Cardinality(S)
  BY FS_Subset, FS_CardinalityType

LEMMA OneFewer ==
  ASSUME NEW S, IsFiniteSet(S), NEW x \in S, NEW T, T \subseteq S \ {x}
  PROVE  IsFiniteSet(T) /\ Cardinality(T) \in Nat /\ Cardinality(S) \in Nat
         /\ Cardinality(T) <= Cardinality(S) - 1
<1>1. IsFiniteSet(S \ {x}) /\ Cardinality(S \ {x}) = Cardinality(S) - 1
  BY FS_RemoveElement
<1>. QED  BY <1>1, Fewer, FS_CardinalityType

LEMMA OneMore ==
  ASSUME NEW S, IsFiniteSet(S), NEW x, NEW T, T \subseteq S \cup {x}
  PROVE  IsFiniteSet(T) /\ Cardinality(T) \in Nat /\ Cardinality(S) \in Nat
         /\ Cardinality(T) <= Cardinality(S) + 1
<1>1. Cardinality(S) \in Nat
  BY FS_CardinalityType
<1>2. /\ IsFiniteSet(S \cup {x})
      /\ Cardinality(S \cup {x}) = IF x \in S THEN Cardinality(S) ELSE Cardinality(S) + 1
  BY FS_AddElement
<1>3. IsFiniteSet(T) /\ Cardinality(T) \in Nat /\ Cardinality(T) <= Cardinality(S \cup {x})
  BY <1>2, Fewer
<1>. QED  BY <1>1, <1>2, <1>3

LEMMA Numbers ==
  ASSUME TypeInv, NEW e \in Events, NEW t \in Targets, NEW f \in Followers
  PROVE  Heard(e, t, f) \in Int /\ restarts \in Nat /\ edits \in Nat /\ Unvisited(e, t) \in {0, 1}
<1>1. got[e][t][f] \in Nat /\ unheard[e][t][f] \in Nat
  BY DEF TypeInv, TypeOK
<1>. QED  BY <1>1 DEF TypeInv, TypeOK, Unvisited, Heard

\* Nothing new, or one more for a save or a restart.
LEMMA DebtKept ==
  ASSUME TypeInv, TypeInv', NEW e \in Events, NEW t \in Targets, NEW f \in Followers,
         Debt(e, t, f), Heard(e, t, f)' = Heard(e, t, f),
         Waiting(e, t, f)' \subseteq Waiting(e, t, f),
         Senders(e, t, f)' \subseteq Senders(e, t, f),
         \/ Pending(e, t)' => Pending(e, t)
         \/ restarts' + edits' >= restarts + edits + 1,
         restarts' + edits' >= restarts + edits
  PROVE  Debt(e, t, f)'
<1>. DEFINE a == Heard(e, t, f)     b == Cardinality(Waiting(e, t, f))
            c == Cardinality(Senders(e, t, f))     d == Unvisited(e, t)
            b2 == Cardinality(Waiting(e, t, f)')   c2 == Cardinality(Senders(e, t, f)')
            d2 == Unvisited(e, t)'
<1>1. a \in Int /\ restarts \in Nat /\ edits \in Nat
  BY Numbers
<1>2. b \in Nat /\ b2 \in Nat /\ c \in Nat /\ c2 \in Nat /\ b2 <= b /\ c2 <= c
      /\ IsFiniteSet(Waiting(e, t, f)') /\ IsFiniteSet(Senders(e, t, f)')
  BY Fewer DEF Debt
<1>3. restarts' \in Nat /\ edits' \in Nat
  BY DEF TypeInv, TypeOK
<1>4. d \in Nat /\ d2 \in Nat /\ d2 <= d + 1
      /\ (d2 <= d \/ restarts' + edits' >= restarts + edits + 1)
  BY DEF Unvisited
<1>. DEFINE x == a + b + c + d            y == a + b2 + c2 + d2
            r == 1 + restarts + edits     r2 == 1 + restarts' + edits'
<1>5. x <= r
  BY DEF Debt, Budget
<1>6. r \in Int /\ r2 \in Int /\ r2 >= r /\ (d2 <= d \/ r2 >= r + 1)
  <2>. DEFINE n == restarts + edits   n2 == restarts' + edits'
  <2>1. n \in Int /\ n2 \in Int /\ r = n + 1 /\ r2 = n2 + 1
    BY <1>1, <1>3
  <2>2. n2 >= n
    OBVIOUS
  <2>3. d2 <= d \/ n2 >= n + 1
    BY <1>4
  <2>. HIDE DEF n, n2, r, r2, d, d2
  <2>. QED  BY <2>1, <2>2, <2>3
<1>7. Budget(e, t, f)' = y
  BY DEF Budget
<1>. HIDE DEF a, b, c, d, b2, c2, d2
<1>8. x \in Int /\ y \in Int /\ y <= x + 1 /\ (d2 <= d => y <= x)
  BY <1>1, <1>2, <1>4
<1>9. y <= r2
  <2>. HIDE DEF x, y, r, r2
  <2>. QED  BY <1>5, <1>6, <1>8
<1>. QED  BY <1>2, <1>7, <1>9 DEF Debt

\* A step that adds at most i to what f got, k to what waits, m to who sends
\* and n to what is unvisited, as restarts and saves allow.
Trades(e, t, f, i, k, m, n) ==
  /\ Heard(e, t, f)' = Heard(e, t, f) + i
  /\ IsFiniteSet(Waiting(e, t, f)') /\ IsFiniteSet(Senders(e, t, f)')
  /\ Cardinality(Waiting(e, t, f)') <= Cardinality(Waiting(e, t, f)) + k
  /\ Cardinality(Senders(e, t, f)') <= Cardinality(Senders(e, t, f)) + m
  /\ Unvisited(e, t)' <= Unvisited(e, t) + n
  /\ (i + k + m + n) + (restarts + edits) <= restarts' + edits'

LEMMA Trade ==
  ASSUME TypeInv, TypeInv', NEW e \in Events, NEW t \in Targets, NEW f \in Followers,
         Debt(e, t, f), NEW i \in Int, NEW k \in Int, NEW m \in Int, NEW n \in Int,
         Trades(e, t, f, i, k, m, n)
  PROVE  Debt(e, t, f)'
<1>. DEFINE a == Heard(e, t, f)     a2 == Heard(e, t, f)'
            b == Cardinality(Waiting(e, t, f))
            c == Cardinality(Senders(e, t, f))     d == Unvisited(e, t)
            b2 == Cardinality(Waiting(e, t, f)')   c2 == Cardinality(Senders(e, t, f)')
            d2 == Unvisited(e, t)'
<1>1. a \in Int /\ d \in Nat /\ restarts \in Nat /\ edits \in Nat
  BY Numbers
<1>2. a2 \in Int /\ restarts' \in Nat /\ edits' \in Nat
  BY <1>1 DEF TypeInv, TypeOK, Trades
<1>3. b \in Nat /\ b2 \in Nat /\ c \in Nat /\ c2 \in Nat
  BY FS_CardinalityType DEF Debt, Trades
<1>4. d2 \in Nat
  BY DEF Unvisited
<1>5. /\ a + b + c + d <= 1 + restarts + edits
      /\ (i + k + m + n) + (restarts + edits) <= restarts' + edits'
      /\ a2 = a + i /\ b2 <= b + k /\ c2 <= c + m /\ d2 <= d + n
  BY DEF Debt, Budget, Trades
<1>. HIDE DEF a, b, c, d, a2, b2, c2, d2
<1>6. a2 + b2 + c2 + d2 <= (a + b + c + d) + (i + k + m + n)
  BY <1>1, <1>2, <1>3, <1>4, <1>5
<1>. DEFINE x == a + b + c + d     y == a2 + b2 + c2 + d2     z == i + k + m + n
            r == restarts + edits  r2 == restarts' + edits'
<1>7. x \in Int /\ y \in Int /\ z \in Int /\ r \in Int /\ r2 \in Int
  BY <1>1, <1>2, <1>3, <1>4
<1>8. x <= 1 + r
  BY <1>1, <1>2, <1>3, <1>4, <1>5
<1>9. z + r <= r2
  BY <1>1, <1>2, <1>3, <1>4, <1>5
<1>10. y <= 1 + r2
  <2>. HIDE DEF x, y, z, r, r2
  <2>. QED  BY <1>6, <1>7, <1>8, <1>9 DEF x, y, z
<1>11. Budget(e, t, f)' = y
  BY DEF Budget, a2, b2, c2, d2
<1>. QED  BY <1>2, <1>10, <1>11 DEF Debt, Trades

\* Whose announcement is under way after one process goes on.
LEMMA SendersOfGoto ==
  ASSUME TypeInv, NEW p \in Procs, NEW j, Goto(p, j), NEW e, NEW t, NEW f
  PROVE  /\ Senders(e, t, f)' \subseteq Senders(e, t, f) \cup {p}
         /\ ~Sends(j, e, t, f) => Senders(e, t, f)' \subseteq Senders(e, t, f) \ {p}
         /\ (Sends(j, e, t, f) => Sends(job[p], e, t, f)) =>
              Senders(e, t, f)' \subseteq Senders(e, t, f)
<1>1. \A q \in Procs : job'[q] = IF q = p THEN j ELSE job[q]
  BY Facts DEF Goto
<1>2. Senders(e, t, f)' = {q \in Procs : Sends(job'[q], e, t, f)}
  BY DEF Senders, Sends
<1>. QED  BY <1>1, <1>2 DEF Senders

\* Rows with the old keys make nothing wait, unless the poll let go of one.
LEMMA WaitingStays ==
  ASSUME NEW e, NEW t, NEW f,
         \A q \in failures' \cup batch' : \E r \in failures \cup batch : SameKey(q, r),
         \A act : Retrying(act, t, f) /\ Owed(act, t, f)' => Retrying(act, t, f)'
  PROVE  Waiting(e, t, f)' \subseteq Waiting(e, t, f)
<1>1. ASSUME NEW act \in Waiting(e, t, f)'
      PROVE  act \in Waiting(e, t, f)
  <2>1. /\ Announces(act) /\ act.event = e /\ Owed(act, t, f)' /\ ~Retrying(act, t, f)'
    BY <1>1 DEF Waiting, Announces
  <2>2. PICK q \in failures' \cup batch' : SameKey(q, [act |-> act, org |-> t, to |-> f])
    BY <2>1 DEF Owed, SameKey
  <2>3. PICK r \in failures \cup batch : SameKey(q, r)
    BY <2>2
  <2>4. r.act = act /\ Owed(act, t, f)
    BY <2>2, <2>3 DEF Owed, SameKey
  <2>. QED  BY <2>1, <2>4 DEF Waiting
<1>. QED  BY <1>1

LEMMA Apart ==
  ASSUME TypeInv, NEW p \in Procs, NEW j, Goto(p, j)
  PROVE  job'[Poller] = IF p = Poller THEN j ELSE job[Poller]
  BY Facts DEF Goto

\* A step that begins no announcement and loses none.
LEMMA Quiet ==
  ASSUME TypeInv, TypeInv', DebtInv, NEW p \in Procs, NEW j, Goto(p, j),
         p = Poller => job[p].at # "retried",
         \A e \in Events, t \in Targets, f \in Followers :
           Sends(j, e, t, f) => Sends(job[p], e, t, f),
         failures' \subseteq failures \cup batch, batch' \subseteq failures \cup batch,
         UNCHANGED <<got, unheard>>,
         \A e \in Events, t \in Targets : delivered'[e][t] = "no" =>
           /\ delivered[e][t] = "no"
           /\ p = Poller /\ Announcing(job[p], e, t) => Announcing(j, e, t),
         restarts' + edits' >= restarts + edits
  PROVE  DebtInv'
<1>. SUFFICES ASSUME NEW e \in Events, NEW t \in Targets, NEW f \in Followers
              PROVE  Debt(e, t, f)'
  BY DEF DebtInv
<1>1. Debt(e, t, f)
  BY DEF DebtInv
<1>2. job'[Poller] = IF p = Poller THEN j ELSE job[Poller]
  BY Apart
<1>3. Pending(e, t)' => Pending(e, t)
  BY <1>2 DEF Pending, Announcing, Announces
<1>4. Senders(e, t, f)' \subseteq Senders(e, t, f)
  BY SendersOfGoto
<1>5. Waiting(e, t, f)' \subseteq Waiting(e, t, f)
  <2>1. \A q \in failures' \cup batch' : \E r \in failures \cup batch : SameKey(q, r)
    BY DEF SameKey
  <2>2. \A act : Retrying(act, t, f) => Retrying(act, t, f)'
    BY <1>2 DEF Retrying, SameKey
  <2>. QED  BY <2>1, <2>2, WaitingStays
<1>6. Heard(e, t, f)' = Heard(e, t, f)
  BY DEF Heard
<1>. QED  BY <1>1, <1>3, <1>4, <1>5, <1>6, DebtKept

\* The trades of the steps that are not quiet.
LEMMA Signs == -1 \in Int /\ 0 \in Int /\ 1 \in Int
  OBVIOUS

LEMMA Arrives ==
  ASSUME TypeInv, TypeInv', NEW e \in Events, NEW t \in Targets, NEW f \in Followers,
         Debt(e, t, f), Heard(e, t, f)' = Heard(e, t, f) + 1, Pending(e, t)' => Pending(e, t),
         Waiting(e, t, f)' \subseteq Waiting(e, t, f),
         Senders(e, t, f)' \subseteq Senders(e, t, f),
         \/ \E p \in Senders(e, t, f) : p \notin Senders(e, t, f)'
         \/ \E act \in Waiting(e, t, f) : act \notin Waiting(e, t, f)',
         UNCHANGED <<restarts, edits>>
  PROVE  Debt(e, t, f)'
<1>1. Unvisited(e, t)' <= Unvisited(e, t) + 0
  BY DEF Unvisited
<1>2. IsFiniteSet(Waiting(e, t, f)) /\ IsFiniteSet(Senders(e, t, f))
  BY DEF Debt
<1>3. restarts \in Nat /\ edits \in Nat
  BY Numbers
<1>4. CASE \E p \in Senders(e, t, f) : p \notin Senders(e, t, f)'
  <2>1. /\ IsFiniteSet(Senders(e, t, f)')
        /\ Cardinality(Senders(e, t, f)') <= Cardinality(Senders(e, t, f)) + (-1)
    BY <1>2, <1>4, OneFewer
  <2>2. /\ IsFiniteSet(Waiting(e, t, f)')
        /\ Cardinality(Waiting(e, t, f)') <= Cardinality(Waiting(e, t, f)) + 0
    BY <1>2, Fewer
  <2>3. Trades(e, t, f, 1, 0, -1, 0)
    BY <1>1, <1>3, <2>1, <2>2 DEF Trades
  <2>. QED  BY <2>3, Signs, Trade
<1>5. CASE \E act \in Waiting(e, t, f) : act \notin Waiting(e, t, f)'
  <2>1. /\ IsFiniteSet(Waiting(e, t, f)')
        /\ Cardinality(Waiting(e, t, f)') <= Cardinality(Waiting(e, t, f)) + (-1)
    BY <1>2, <1>5, OneFewer
  <2>2. /\ IsFiniteSet(Senders(e, t, f)')
        /\ Cardinality(Senders(e, t, f)') <= Cardinality(Senders(e, t, f)) + 0
    BY <1>2, Fewer
  <2>3. Trades(e, t, f, 1, -1, 0, 0)
    BY <1>1, <1>3, <2>1, <2>2 DEF Trades
  <2>. QED  BY <2>3, Signs, Trade
<1>. QED  BY <1>4, <1>5

LEMMA Refused ==
  ASSUME TypeInv, TypeInv', NEW e \in Events, NEW t \in Targets, NEW f \in Followers,
         Debt(e, t, f), Heard(e, t, f)' = Heard(e, t, f), Pending(e, t)' => Pending(e, t),
         NEW act, Waiting(e, t, f)' \subseteq Waiting(e, t, f) \cup {act},
         NEW p \in Senders(e, t, f), Senders(e, t, f)' \subseteq Senders(e, t, f) \ {p},
         UNCHANGED <<restarts, edits>>
  PROVE  Debt(e, t, f)'
<1>1. Unvisited(e, t)' <= Unvisited(e, t) + 0
  BY DEF Unvisited
<1>2. IsFiniteSet(Waiting(e, t, f)) /\ IsFiniteSet(Senders(e, t, f))
  BY DEF Debt
<1>3. /\ restarts \in Nat /\ edits \in Nat /\ Heard(e, t, f) \in Int
  BY Numbers
<1>4. /\ IsFiniteSet(Senders(e, t, f)')
      /\ Cardinality(Senders(e, t, f)') <= Cardinality(Senders(e, t, f)) + (-1)
  BY <1>2, OneFewer
<1>5. /\ IsFiniteSet(Waiting(e, t, f)')
      /\ Cardinality(Waiting(e, t, f)') <= Cardinality(Waiting(e, t, f)) + 1
  BY <1>2, OneMore
<1>6. Trades(e, t, f, 0, 1, -1, 0)
  BY <1>1, <1>3, <1>4, <1>5 DEF Trades
<1>. QED  BY <1>6, Signs, Trade

LEMMA Begins ==
  ASSUME TypeInv, TypeInv', NEW e \in Events, NEW t \in Targets, NEW f \in Followers,
         Debt(e, t, f), Heard(e, t, f)' = Heard(e, t, f),
         Waiting(e, t, f)' \subseteq Waiting(e, t, f),
         NEW p, Senders(e, t, f)' \subseteq Senders(e, t, f) \cup {p},
         \/ Pending(e, t) /\ ~Pending(e, t)' /\ UNCHANGED <<restarts, edits>>
         \/ (Pending(e, t)' => Pending(e, t)) /\ edits' = edits + 1 /\ UNCHANGED restarts
  PROVE  Debt(e, t, f)'
<1>1. IsFiniteSet(Waiting(e, t, f)) /\ IsFiniteSet(Senders(e, t, f))
  BY DEF Debt
<1>2. restarts \in Nat /\ edits \in Nat /\ Heard(e, t, f) \in Int
  BY Numbers
<1>3. /\ IsFiniteSet(Senders(e, t, f)')
      /\ Cardinality(Senders(e, t, f)') <= Cardinality(Senders(e, t, f)) + 1
  BY <1>1, OneMore
<1>4. /\ IsFiniteSet(Waiting(e, t, f)')
      /\ Cardinality(Waiting(e, t, f)') <= Cardinality(Waiting(e, t, f)) + 0
  BY <1>1, Fewer
<1>5. CASE Pending(e, t) /\ ~Pending(e, t)' /\ UNCHANGED <<restarts, edits>>
  <2>1. Unvisited(e, t)' <= Unvisited(e, t) + (-1)
    BY <1>5 DEF Unvisited
  <2>2. Trades(e, t, f, 0, 0, 1, -1)
    BY <1>2, <1>3, <1>4, <1>5, <2>1 DEF Trades
  <2>. QED  BY <2>2, Signs, Trade
<1>6. CASE (Pending(e, t)' => Pending(e, t)) /\ edits' = edits + 1 /\ UNCHANGED restarts
  <2>1. Unvisited(e, t)' <= Unvisited(e, t) + 0
    BY <1>6 DEF Unvisited
  <2>2. Trades(e, t, f, 0, 0, 1, 0)
    BY <1>2, <1>3, <1>4, <1>6, <2>1 DEF Trades
  <2>. QED  BY <2>2, Signs, Trade
<1>. QED  BY <1>5, <1>6

\* The answer to a retry is lost with the process that waited for it.
LEMMA Forgets ==
  ASSUME TypeInv, TypeInv', NEW e \in Events, NEW t \in Targets, NEW f \in Followers,
         Debt(e, t, f), Heard(e, t, f)' = Heard(e, t, f), Pending(e, t)' => Pending(e, t),
         NEW act, Waiting(e, t, f)' \subseteq Waiting(e, t, f) \cup {act},
         Senders(e, t, f)' \subseteq Senders(e, t, f),
         restarts' = restarts + 1, edits' = edits
  PROVE  Debt(e, t, f)'
<1>1. Unvisited(e, t)' <= Unvisited(e, t) + 0
  BY DEF Unvisited
<1>2. IsFiniteSet(Waiting(e, t, f)) /\ IsFiniteSet(Senders(e, t, f))
  BY DEF Debt
<1>3. /\ restarts \in Nat /\ edits \in Nat /\ Heard(e, t, f) \in Int
  BY Numbers
<1>4. /\ IsFiniteSet(Senders(e, t, f)')
      /\ Cardinality(Senders(e, t, f)') <= Cardinality(Senders(e, t, f)) + 0
  BY <1>2, Fewer
<1>5. /\ IsFiniteSet(Waiting(e, t, f)')
      /\ Cardinality(Waiting(e, t, f)') <= Cardinality(Waiting(e, t, f)) + 1
  BY <1>2, OneMore
<1>6. Trades(e, t, f, 0, 1, 0, 0)
  BY <1>1, <1>3, <1>4, <1>5 DEF Trades
<1>. QED  BY <1>6, Signs, Trade

\* A delivery of anything but an announcement or a Move announces nothing.
LEMMA SaysNothing ==
  ASSUME NEW j, j.at \notin {"update", "history", "create"},
         j.at \in {"deliver", "answer", "reset"} => j.act.kind \in {"Update", "Delete"}
  PROVE  \A e, t, f : ~Sends(j, e, t, f)
  BY DEF Sends, Announces

\* An acceptance that is not heard of is retried, as a refusal is.
LEMMA HeardOfReceived ==
  ASSUME TypeInv, NEW act \in Activity, NEW u \in Targets, NEW g \in Followers,
         NEW taken \in BOOLEAN, NEW ok \in BOOLEAN, ok => taken, Received(act, u, g, taken, ok),
         NEW e \in Events, NEW t \in Targets, NEW f \in Followers
  PROVE  Heard(e, t, f)' = IF ok /\ Announces(act) /\ act.event = e /\ u = t /\ g = f
                           THEN Heard(e, t, f) + 1 ELSE Heard(e, t, f)
<1>1. /\ act.event \in Events /\ got \in [Events -> [Targets -> [Followers -> Nat]]]
      /\ unheard \in [Events -> [Targets -> [Followers -> Nat]]]
  BY ActivityShapes DEF TypeInv, TypeOK
<1>. DEFINE mine == Announces(act) /\ act.event = e /\ u = t /\ g = f
<1>2. got'[e][t][f] = IF taken /\ mine THEN got[e][t][f] + 1 ELSE got[e][t][f]
  BY <1>1 DEF Received
<1>3. unheard'[e][t][f] = IF taken /\ ~ok /\ mine THEN unheard[e][t][f] + 1 ELSE unheard[e][t][f]
  BY <1>1 DEF Received
<1>4. got[e][t][f] \in Nat /\ unheard[e][t][f] \in Nat
  BY <1>1
<1>. HIDE DEF mine
<1>5. got'[e][t][f] - unheard'[e][t][f] = IF ok /\ mine THEN (got[e][t][f] - unheard[e][t][f]) + 1
                                         ELSE got[e][t][f] - unheard[e][t][f]
  BY <1>2, <1>3, <1>4
<1>. QED  BY <1>5 DEF Heard, mine

LEMMA DebtOfPost ==
  ASSUME TypeInv, TypeInv', DebtInv, NEW p \in Procs, Post(p)
  PROVE  DebtInv'
<1>. SUFFICES ASSUME NEW e \in Events, NEW t \in Targets, NEW f \in Followers
              PROVE  Debt(e, t, f)'
  BY DEF DebtInv
<1>1. Debt(e, t, f)
  BY DEF DebtInv
<1>2. PICK f0 \in job[p].todo, taken \in BOOLEAN, ok \in BOOLEAN :
        /\ ok => taken
        /\ Received(job[p].act, job[p].org, f0, taken, ok)
        /\ Goto(p, [at |-> "answer", act |-> job[p].act, org |-> job[p].org,
                    peer |-> job[p].peer, list |-> job[p].list,
                    todo |-> job[p].todo \ {f0}, to |-> f0, ok |-> ok])
  BY DEF Post
<1>. DEFINE j == [at |-> "answer", act |-> job[p].act, org |-> job[p].org,
                  peer |-> job[p].peer, list |-> job[p].list,
                  todo |-> job[p].todo \ {f0}, to |-> f0, ok |-> ok]
<1>3. Goto(p, j)
  BY <1>2
<1>4. /\ j.at = "answer" /\ j.act = job[p].act /\ j.org = job[p].org
      /\ j.todo = job[p].todo \ {f0} /\ j.to = f0 /\ j.ok = ok
  OBVIOUS
<1>. HIDE DEF j
<1>5. job[p].at = "deliver" /\ UNCHANGED <<delivered, failures, batch, restarts, edits>>
  BY DEF Post, tables, bounds
<1>6. Sends(j, e, t, f) => Sends(job[p], e, t, f)
  BY <1>4, <1>5 DEF Sends
<1>7. Senders(e, t, f)' \subseteq Senders(e, t, f)
  BY <1>3, <1>6, SendersOfGoto
<1>8. job'[Poller] = IF p = Poller THEN j ELSE job[Poller]
  BY <1>3, Apart
<1>9. Pending(e, t)' => Pending(e, t)
  BY <1>4, <1>5, <1>8 DEF Pending, Announcing, Announces
<1>10. Waiting(e, t, f)' \subseteq Waiting(e, t, f)
  <2>1. \A act : Retrying(act, t, f) => Retrying(act, t, f)'
    BY <1>5, <1>8 DEF Retrying, SameKey
  <2>. QED  BY <1>5, <2>1, WaitingStays DEF SameKey
<1>11. restarts' + edits' >= restarts + edits
  BY <1>5, Numbers
<1>12. job[p] \in Job /\ job[p].act \in Activity /\ job[p].org \in Targets
  BY <1>5, Facts, JobShapes
<1>13. job[p].act.event \in Events
  BY <1>12, ActivityShapes
<1>14. f0 \in Followers
  BY <1>5, <1>12, JobShapes
<1>17. Heard(e, t, f)' = IF ok /\ Announces(job[p].act) /\ job[p].act.event = e
                            /\ job[p].org = t /\ f0 = f
                         THEN Heard(e, t, f) + 1 ELSE Heard(e, t, f)
  BY <1>2, <1>12, <1>14, HeardOfReceived
<1>15. CASE ok /\ Announces(job[p].act) /\ job[p].act.event = e /\ job[p].org = t /\ f0 = f
  <2>1. Heard(e, t, f)' = Heard(e, t, f) + 1
    BY <1>15, <1>17
  <2>2. p \in Senders(e, t, f)
    BY <1>5, <1>15 DEF Senders, Sends
  <2>3. ~Sends(j, e, t, f)
    BY <1>4, <1>15 DEF Sends, Announces
  <2>4. p \notin Senders(e, t, f)'
    BY <1>3, <2>3, SendersOfGoto
  <2>. QED  BY <1>1, <1>5, <1>7, <1>9, <1>10, <2>1, <2>2, <2>4, Arrives
<1>16. CASE ~(ok /\ Announces(job[p].act) /\ job[p].act.event = e /\ job[p].org = t /\ f0 = f)
  <2>1. Heard(e, t, f)' = Heard(e, t, f)
    BY <1>16, <1>17
  <2>. QED  BY <1>1, <1>7, <1>9, <1>10, <1>11, <2>1, DebtKept
<1>. QED  BY <1>15, <1>16

LEMMA DebtOfRecord ==
  ASSUME TypeInv, TypeInv', KeyInv, DebtInv, NEW p \in Procs, Record(p)
  PROVE  DebtInv'
<1>. DEFINE j == job[p]
<1>1. /\ j.at = "answer" /\ UNCHANGED <<delivered, batch, got, unheard, restarts, edits>>
  BY DEF Record, bounds, ghosts, accepted
<1>2. PICK k : /\ Goto(p, k) /\ k.at \in {"deliver", "reset"}
              /\ k.act = j.act /\ k.org = j.org /\ k.todo = j.todo
  <2>1. CASE Goto(p, [at |-> "reset", act |-> j.act, org |-> j.org, peer |-> j.peer,
                      list |-> j.list, todo |-> j.todo, to |-> j.to])
    BY <2>1
  <2>2. CASE Goto(p, [at |-> "deliver", act |-> j.act, org |-> j.org, peer |-> j.peer,
                      list |-> j.list, todo |-> j.todo])
    BY <2>2
  <2>. QED  BY <2>1, <2>2 DEF Record
<1>3. \A e, t, f : Sends(k, e, t, f) => Sends(job[p], e, t, f)
  BY <1>1, <1>2 DEF Sends
<1>4. restarts' + edits' >= restarts + edits
  BY <1>1 DEF TypeInv, TypeOK
<1>5. \A e, t : Announcing(k, e, t) <=> Announcing(job[p], e, t)
  BY <1>1, <1>2 DEF Announcing
<1>6. CASE Success(j.act, j.org, j.to)
  <2>1. failures' \subseteq failures
    BY <1>6 DEF Success
  <2>. QED  BY <1>1, <1>2, <1>3, <1>4, <1>5, <2>1, Quiet
<1>7. CASE ~j.ok /\ failures' = failures \cup NewFailure(j.act, j.org, j.to)
  <2>. SUFFICES ASSUME NEW e \in Events, NEW t \in Targets, NEW f \in Followers
                PROVE  Debt(e, t, f)'
    BY DEF DebtInv
  <2>. DEFINE new == [act |-> j.act, org |-> j.org, to |-> j.to, tries |-> 1, due |-> FALSE]
  <2>0. Debt(e, t, f)
    BY DEF DebtInv
  <2>1. job'[Poller] = IF p = Poller THEN k ELSE job[Poller]
    BY <1>2, Apart
  <2>2. \A act : Retrying(act, t, f) => Retrying(act, t, f)'
    BY <1>1, <2>1 DEF Retrying, SameKey
  <2>3. \A q \in failures' : q \in failures \/ q = new
    BY <1>7 DEF NewFailure, InsertUnless
  <2>4. new.act = j.act /\ new.org = j.org /\ new.to = j.to
    OBVIOUS
  <2>. HIDE DEF new
  <2>5. Pending(e, t)' => Pending(e, t)
    BY <1>1, <1>5, <2>1 DEF Pending, Announcing, Announces
  <2>6. Senders(e, t, f)' \subseteq Senders(e, t, f)
    BY <1>2, <1>3, SendersOfGoto
  <2>7. ASSUME NEW act \in Waiting(e, t, f)'
        PROVE  \/ act \in Waiting(e, t, f)
               \/ act = j.act /\ Announces(j.act) /\ j.act.event = e /\ j.org = t /\ j.to = f
    <3>1. Announces(act) /\ act.event = e /\ Owed(act, t, f)' /\ ~Retrying(act, t, f)
      BY <2>2, <2>7 DEF Waiting, Announces
    <3>2. PICK q \in failures' \cup batch' : SameKey(q, [act |-> act, org |-> t, to |-> f])
      BY <3>1 DEF Owed, SameKey
    <3>3. CASE q \in failures \cup batch
      <4>1. q.act = act /\ Owed(act, t, f)
        BY <3>2, <3>3 DEF Owed, SameKey
      <4>. QED  BY <3>1, <3>3, <4>1 DEF Waiting
    <3>4. CASE q = new
      BY <2>4, <3>1, <3>2, <3>4 DEF SameKey
    <3>. QED  BY <1>1, <2>3, <3>2, <3>3, <3>4
  <2>8. CASE Announces(j.act) /\ j.act.event = e /\ j.org = t /\ j.to = f
    <3>1. p \in Senders(e, t, f)
      BY <1>1, <1>7, <2>8 DEF Senders, Sends
    <3>2. ~Sends(k, e, t, f)
      BY <1>1, <1>2, <2>8 DEF Sends, Announces, KeyInv
    <3>3. Senders(e, t, f)' \subseteq Senders(e, t, f) \ {p}
      BY <1>2, <3>2, SendersOfGoto
    <3>4. Waiting(e, t, f)' \subseteq Waiting(e, t, f) \cup {j.act}
      BY <2>7
    <3>5. Heard(e, t, f)' = Heard(e, t, f) /\ UNCHANGED <<restarts, edits>>
      BY <1>1 DEF Heard
    <3>. QED  BY <2>0, <2>5, <3>1, <3>3, <3>4, <3>5, Refused
  <2>9. CASE ~(Announces(j.act) /\ j.act.event = e /\ j.org = t /\ j.to = f)
    <3>1. Waiting(e, t, f)' \subseteq Waiting(e, t, f)
      BY <2>7, <2>9
    <3>2. Heard(e, t, f)' = Heard(e, t, f)
      BY <1>1 DEF Heard
    <3>. QED  BY <1>4, <2>0, <2>5, <2>6, <3>1, <3>2, DebtKept
  <2>. QED  BY <2>8, <2>9
<1>. QED  BY <1>6, <1>7 DEF Record

LEMMA DebtOfReset ==
  ASSUME TypeInv, TypeInv', DebtInv, NEW p \in Procs, Reset(p)
  PROVE  DebtInv'
<1>. DEFINE j == job[p]
<1>1. /\ j.at = "reset" /\ UNCHANGED <<delivered, failures, batch, got, unheard, restarts, edits>>
  BY DEF Reset, bounds, accepted
<1>2. PICK k : /\ Goto(p, k) /\ k.at = "deliver"
              /\ k.act = j.act /\ k.org = j.org /\ k.todo = j.todo
  BY DEF Reset
<1>3. \A e, t, f : Sends(k, e, t, f) => Sends(job[p], e, t, f)
  BY <1>1, <1>2 DEF Sends
<1>4. restarts' + edits' >= restarts + edits
  BY <1>1 DEF TypeInv, TypeOK
<1>5. \A e, t : Announcing(k, e, t) <=> Announcing(job[p], e, t)
  BY <1>1, <1>2 DEF Announcing
<1>. QED  BY <1>1, <1>2, <1>3, <1>4, <1>5, Quiet

\* A step of the poll that neither sends nor visits leaves both counts alone.
LEMMA RetrySends ==
  ASSUME TypeInv, NEW j, Goto(Poller, j),
         j.at \in {"retry", "retried", "cleared", "bump", "drop"},
         job[Poller].at \in {"retry", "retried"}, UNCHANGED delivered,
         NEW e, NEW t, NEW f
  PROVE  Senders(e, t, f)' \subseteq Senders(e, t, f) /\ (Pending(e, t)' => Pending(e, t))
<1>1. Poller \in Procs
  BY Facts
<1>2. ~Sends(j, e, t, f)
  BY DEF Sends
<1>3. Senders(e, t, f)' \subseteq Senders(e, t, f)
  BY <1>1, <1>2, SendersOfGoto
<1>4. Pending(e, t)' => Pending(e, t)
  BY DEF Pending, Announcing
<1>. QED  BY <1>3, <1>4

LEMMA DebtOfRetryPost ==
  ASSUME TypeInv, TypeInv', DebtInv, RetryPost
  PROVE  DebtInv'
<1>. SUFFICES ASSUME NEW e \in Events, NEW t \in Targets, NEW f \in Followers
              PROVE  Debt(e, t, f)'
  BY DEF DebtInv
<1>1. Debt(e, t, f)
  BY DEF DebtInv
<1>2. PICK r \in batch, taken \in BOOLEAN, ok \in BOOLEAN :
        /\ ok => taken
        /\ batch' = batch \ {r} /\ Received(r.act, r.org, r.to, taken, ok)
        /\ Goto(Poller, [at |-> "retried", row |-> r, ok |-> ok])
  BY DEF RetryPost
<1>3. job[Poller].at = "retry" /\ UNCHANGED <<delivered, failures, restarts, edits>>
  BY DEF RetryPost, tables, bounds
<1>4. job'[Poller] = [at |-> "retried", row |-> r, ok |-> ok]
  BY <1>2, Facts, Apart
<1>5. Senders(e, t, f)' \subseteq Senders(e, t, f) /\ (Pending(e, t)' => Pending(e, t))
  BY <1>2, <1>3, RetrySends
<1>6. Waiting(e, t, f)' \subseteq Waiting(e, t, f)
  <2>1. \A act : ~Retrying(act, t, f)
    BY <1>3 DEF Retrying
  <2>2. \A q \in failures' \cup batch' : \E x \in failures \cup batch : SameKey(q, x)
    BY <1>2, <1>3 DEF SameKey
  <2>. QED  BY <2>1, <2>2, WaitingStays
<1>7. r \in Failure
  BY DEF TypeInv, TypeOK
<1>8. r.act \in Activity /\ r.org \in Targets /\ r.to \in Followers
  BY <1>7, FailureShapes
<1>11. Heard(e, t, f)' = IF ok /\ Announces(r.act) /\ r.act.event = e /\ r.org = t /\ r.to = f
                         THEN Heard(e, t, f) + 1 ELSE Heard(e, t, f)
  BY <1>2, <1>8, HeardOfReceived
<1>9. CASE ok /\ Announces(r.act) /\ r.act.event = e /\ r.org = t /\ r.to = f
  <2>1. Heard(e, t, f)' = Heard(e, t, f) + 1
    BY <1>9, <1>11
  <2>2. r.act \in Waiting(e, t, f)
    <3>1. ~Retrying(r.act, t, f)
      BY <1>3 DEF Retrying
    <3>2. Owed(r.act, t, f)
      BY <1>9 DEF Owed, SameKey
    <3>. QED  BY <1>9, <3>1, <3>2 DEF Waiting
  <2>3. Retrying(r.act, t, f)'
    BY <1>4, <1>9 DEF Retrying, SameKey
  <2>4. r.act \notin Waiting(e, t, f)'
    BY <2>3 DEF Waiting
  <2>. QED  BY <1>1, <1>3, <1>5, <1>6, <2>1, <2>2, <2>4, Arrives
<1>10. CASE ~(ok /\ Announces(r.act) /\ r.act.event = e /\ r.org = t /\ r.to = f)
  <2>1. Heard(e, t, f)' = Heard(e, t, f)
    BY <1>10, <1>11
  <2>2. restarts' + edits' >= restarts + edits
    BY <1>3, Numbers
  <2>. QED  BY <1>1, <1>5, <1>6, <2>1, <2>2, DebtKept
<1>. QED  BY <1>9, <1>10

LEMMA DebtOfRetryRecord ==
  ASSUME TypeInv, TypeInv', KeyInv, DebtInv, RetryRecord
  PROVE  DebtInv'
<1>. SUFFICES ASSUME NEW e \in Events, NEW t \in Targets, NEW f \in Followers
              PROVE  Debt(e, t, f)'
  BY DEF DebtInv
<1>. DEFINE r == job[Poller].row
<1>1. Debt(e, t, f)
  BY DEF DebtInv
<1>2. /\ job[Poller].at = "retried"
      /\ UNCHANGED <<delivered, batch, got, unheard, restarts, edits>>
  BY DEF RetryRecord, RecordAnswer, bounds, accepted
<1>. PICK k : Goto(Poller, k) /\ k.at \in {"cleared", "bump", "retry"}
  BY AnswerGoes
<1>3. Senders(e, t, f)' \subseteq Senders(e, t, f) /\ (Pending(e, t)' => Pending(e, t))
  BY <1>2, RetrySends
<1>4. \A q \in failures' : \E x \in failures : SameKey(q, x)
  <2>1. CASE Cleared(r) \/ GiveUp(r)
    BY <2>1 DEF Cleared, Success, GiveUp, SameKey
  <2>2. CASE TryLater(r)
    <3>1. \A q \in failures : SameKey([q EXCEPT !.tries = r.tries + 1, !.due = FALSE], q)
      BY DEF SameKey, TypeInv, TypeOK, Failure
    <3>. QED  BY <2>2, <3>1 DEF TryLater, SameKey
  <2>. QED  BY <2>1, <2>2 DEF RetryRecord, RecordAnswer
<1>5. \A act : ~(Retrying(act, t, f) /\ Owed(act, t, f)')
  <2>. SUFFICES ASSUME NEW act, Retrying(act, t, f)  PROVE ~Owed(act, t, f)'
    OBVIOUS
  <2>1. job[Poller].ok /\ r.act = act /\ r.org = t /\ r.to = f
    BY DEF Retrying, SameKey
  <2>2. failures' = failures \ Row(act, t, f)
    BY <2>1 DEF RetryRecord, RecordAnswer, Cleared, Success
  <2>3. \A q \in failures' : ~SameKey(q, [act |-> act, org |-> t, to |-> f])
    BY <2>2 DEF Row, SameKey
  <2>4. \A q \in batch : ~SameKey(q, [act |-> act, org |-> t, to |-> f])
    BY <1>2, <2>1 DEF KeyInv, SameKey
  <2>. QED  BY <1>2, <2>3, <2>4 DEF Owed, SameKey
<1>6. Waiting(e, t, f)' \subseteq Waiting(e, t, f)
  <2>1. \A q \in failures' \cup batch' : \E x \in failures \cup batch : SameKey(q, x)
    BY <1>2, <1>4 DEF SameKey
  <2>. QED  BY <1>5, <2>1, WaitingStays
<1>7. restarts' + edits' >= restarts + edits /\ Heard(e, t, f)' = Heard(e, t, f)
  BY <1>2, Numbers DEF Heard
<1>. QED  BY <1>1, <1>3, <1>6, <1>7, DebtKept

\* The poll begins to announce an event: the one announcement no save explains.
LEMMA DebtOfVisit ==
  ASSUME TypeInv, TypeInv', DebtInv, NEW e \in Events, NEW t \in Targets, NEW act,
         job[Poller].at \in {"visit", "relay"}, delivered[e][t] = "no",
         Announces(act), act.event = e,
         Goto(Poller, Delivering(act, t, Hidden)),
         \A x \in Events, q \in Targets : delivered'[x][q] = "no" => delivered[x][q] = "no",
         UNCHANGED <<failures, batch, got, unheard, restarts, edits>>
  PROVE  DebtInv'
<1>. SUFFICES ASSUME NEW x \in Events, NEW q \in Targets, NEW f \in Followers
              PROVE  Debt(x, q, f)'
  BY DEF DebtInv
<1>1. Debt(x, q, f)
  BY DEF DebtInv
<1>. DEFINE j == Delivering(act, t, Hidden)
<1>2. j.at = "deliver" /\ j.act = act /\ j.org = t
  BY DEF Delivering
<1>. HIDE DEF j
<1>3. Poller \in Procs /\ job'[Poller] = j
  BY Facts, Apart DEF j
<1>4. Waiting(x, q, f)' \subseteq Waiting(x, q, f)
  <2>1. \A a : ~Retrying(a, q, f)
    BY DEF Retrying
  <2>. QED  BY <2>1, WaitingStays DEF SameKey
<1>5. Heard(x, q, f)' = Heard(x, q, f)
  BY DEF Heard
<1>6. CASE x = e /\ q = t
  <2>1. Pending(x, q)
    BY <1>6 DEF Pending, Announcing
  <2>2. ~Pending(x, q)'
    BY <1>2, <1>3, <1>6 DEF Pending, Announcing, Announces
  <2>3. Senders(x, q, f)' \subseteq Senders(x, q, f) \cup {Poller}
    BY <1>3, SendersOfGoto DEF j
  <2>. QED  BY <1>1, <1>4, <1>5, <2>1, <2>2, <2>3, Begins
<1>7. CASE ~(x = e /\ q = t)
  <2>1. ~Sends(j, x, q, f)
    BY <1>2, <1>7 DEF Sends, Announces
  <2>2. Senders(x, q, f)' \subseteq Senders(x, q, f)
    BY <1>3, <2>1, SendersOfGoto DEF j
  <2>3. Pending(x, q)' => Pending(x, q)
    BY DEF Pending, Announcing
  <2>4. restarts' + edits' >= restarts + edits
    BY Numbers
  <2>. QED  BY <1>1, <1>4, <1>5, <2>2, <2>3, <2>4, DebtKept
<1>. QED  BY <1>6, <1>7

LEMMA MarkForward ==
  ASSUME TypeInv, NEW e0, NEW t0, Mark(e0, t0)
  PROVE  /\ \A e \in Events, t \in Targets : delivered'[e][t] = "no" => delivered[e][t] = "no"
         /\ e0 \in Events /\ t0 \in Targets \cup {Ping} => delivered'[e0][t0] # "no"
  BY DEF Mark, TypeInv, TypeOK

LEMMA DebtOfPoll ==
  ASSUME TypeInv, TypeInv', KeptInv, KeyInv, DebtInv, PollStep
  PROVE  DebtInv'
<1>. USE DEF tables, bounds, ghosts, accepted
<1>0. Poller \in Procs /\ job[Poller] \in Job
  BY Facts
<1>1. restarts \in Nat /\ edits \in Nat
  BY DEF TypeInv, TypeOK
<1>2. CASE Post(Poller) \/ Record(Poller) \/ Reset(Poller) \/ RetryPost \/ RetryRecord
  BY <1>0, <1>2, DebtOfPost, DebtOfRecord, DebtOfReset, DebtOfRetryPost, DebtOfRetryRecord
<1>3. ASSUME NEW j, Goto(Poller, j), j.at \notin {"deliver", "answer", "reset", "update", "history", "create"},
             job[Poller].at \notin {"retried", "deliver", "answer", "reset"},
             failures' = failures, batch' \subseteq failures \cup batch, UNCHANGED <<got, unheard>>,
             \A e \in Events, t \in Targets : delivered'[e][t] = "no" => delivered[e][t] = "no",
             UNCHANGED <<restarts, edits>>
      PROVE  DebtInv'
  <2>1. \A e, t, f : ~Sends(j, e, t, f)
    BY <1>3, SaysNothing
  <2>2. \A e, t : ~Announcing(job[Poller], e, t)
    BY <1>3 DEF Announcing
  <2>3. restarts' + edits' >= restarts + edits
    BY <1>1, <1>3
  <2>. QED  BY <1>0, <1>3, <2>1, <2>2, <2>3, Quiet
<1>4. CASE PollTick
  BY <1>3, <1>4 DEF PollTick, Idle
<1>5. CASE Fetch \/ FetchFails \/ PollEnds
  BY <1>3, <1>5 DEF Fetch, FetchFails, PollEnds, Idle
<1>6. CASE Visit
  <2>1. PICK s \in listing :
          /\ Mark(s.event, Ping)
          /\ Goto(Poller, IF s \in Undelivered THEN Delivering(Plain("Create", s.event), s.org, Hidden)
                          ELSE [at |-> "relay", event |-> s.event, org |-> s.org])
    BY <1>6 DEF Visit, VisitAmong
  <2>2. s.event \in Events /\ s.org \in Targets
    BY DEF TypeInv, TypeOK, Snapshot, Targets
  <2>3. \A e \in Events, t \in Targets : delivered'[e][t] = "no" => delivered[e][t] = "no"
    BY <2>1, MarkForward
  <2>4. /\ job[Poller].at = "visit"
        /\ UNCHANGED <<failures, batch, got, unheard, restarts, edits>>
    BY <1>6 DEF Visit, VisitAmong
  <2>5. CASE s \in Undelivered
    <3>1. delivered[s.event][s.org] = "no"
      BY <2>5 DEF Undelivered
    <3>2. Announces(Plain("Create", s.event)) /\ Plain("Create", s.event).event = s.event
      BY DEF Announces, Plain
    <3>3. Goto(Poller, Delivering(Plain("Create", s.event), s.org, Hidden))
      BY <2>1, <2>5
    <3>. QED  BY <2>2, <2>3, <2>4, <3>1, <3>2, <3>3, DebtOfVisit
  <2>6. CASE s \notin Undelivered
    BY <1>3, <2>1, <2>3, <2>4, <2>6
  <2>. QED  BY <2>5, <2>6
<1>7. CASE RelayVisit
  <2>. DEFINE j == job[Poller]
              wanted == RelayOn /\ j.org \notin lost /\ delivered[j.event][Relay] = "no"
  <2>1. /\ j.at = "relay" /\ UNCHANGED <<delivered, failures, batch, got, unheard, restarts, edits>>
        /\ Goto(Poller, IF wanted THEN Delivering(Stamped("Announce", j.event), Relay, Hidden)
                        ELSE [at |-> "visit"])
    BY <1>7 DEF RelayVisit
  <2>2. j.event \in Events /\ Relay \in Targets
    BY <1>0, <2>1, JobShapes DEF Targets
  <2>3. CASE wanted
    <3>1. Announces(Stamped("Announce", j.event)) /\ Stamped("Announce", j.event).event = j.event
      BY DEF Announces, Stamped
    <3>2. Goto(Poller, Delivering(Stamped("Announce", j.event), Relay, Hidden))
      BY <2>1, <2>3
    <3>. QED  BY <2>1, <2>2, <2>3, <3>1, <3>2, DebtOfVisit
  <2>4. CASE ~wanted
    BY <1>3, <2>1, <2>4
  <2>. QED  BY <2>3, <2>4
<1>8. CASE OrgMark \/ RelayMark
  <2>. DEFINE k == job[Poller]
  <2>1. PICK j : Goto(Poller, j) /\ j.at \in {"relay", "visit"}
    BY <1>8 DEF OrgMark, RelayMark
  <2>2. k.at = "deliver" /\ UNCHANGED <<failures, batch, got, unheard, restarts, edits>>
    BY <1>8 DEF OrgMark, RelayMark, Delivered
  <2>3. k.act.event \in Events /\ k.org \in Targets
    BY <1>0, <2>2, JobShapes, ActivityShapes
  <2>4. Mark(k.act.event, k.org)
    <3>1. CASE OrgMark
      BY <3>1 DEF OrgMark
    <3>2. CASE RelayMark
      <4>1. k.org = Relay
        BY <1>0, <2>2, <3>2 DEF RelayMark, KeptInv, Kept, Announces
      <4>. QED  BY <3>2, <4>1 DEF RelayMark
    <3>. QED  BY <1>8, <3>1, <3>2
  <2>5. /\ \A e \in Events, t \in Targets : delivered'[e][t] = "no" => delivered[e][t] = "no"
        /\ delivered'[k.act.event][k.org] # "no"
    BY <2>3, <2>4, MarkForward
  <2>6. \A e, t : Announcing(k, e, t) => e = k.act.event /\ t = k.org
    BY DEF Announcing
  <2>7. \A e, t, f : ~Sends(j, e, t, f)
    BY <2>1, SaysNothing
  <2>8. restarts' + edits' >= restarts + edits
    BY <1>1, <2>2
  <2>. QED  BY <1>0, <2>1, <2>2, <2>5, <2>6, <2>7, <2>8, Quiet
<1>9. CASE RetryReset \/ Drop
  BY <1>3, <1>9 DEF RetryReset, Drop
<1>10. CASE Bump
  <2>1. PICK j : Goto(Poller, j) /\ j.at \in {"retry", "drop"}
    BY <1>10, CountGoes
  <2>. QED  BY <1>3, <1>10, <2>1 DEF Bump, BumpBelow
<1>. QED  BY <1>2, <1>4, <1>5, <1>6, <1>7, <1>8, <1>9, <1>10 DEF PollStep

LEMMA DebtOfSave ==
  ASSUME TypeInv, TypeInv', DebtInv, NEW w \in Workers, NEW e \in Events, NEW o \in Orgs,
         SaveEvent(w, e, o)
  PROVE  DebtInv'
<1>. SUFFICES ASSUME NEW x \in Events, NEW t \in Targets, NEW f \in Followers
              PROVE  Debt(x, t, f)'
  BY DEF DebtInv
<1>1. Debt(x, t, f)
  BY DEF DebtInv
<1>2. w \in Procs /\ w # Poller
  BY Facts
<1>3. /\ Goto(w, [at |-> "update", event |-> e]) /\ edits' = edits + 1
      /\ UNCHANGED <<delivered, failures, batch, restarts, got, unheard>>
  BY DEF SaveEvent, tables, ghosts, accepted
<1>4. job'[Poller] = job[Poller]
  BY <1>2, <1>3, Apart
<1>5. Senders(x, t, f)' \subseteq Senders(x, t, f) \cup {w}
  BY <1>2, <1>3, SendersOfGoto
<1>6. Waiting(x, t, f)' \subseteq Waiting(x, t, f)
  <2>1. \A act : Retrying(act, t, f) => Retrying(act, t, f)'
    BY <1>4 DEF Retrying, SameKey
  <2>. QED  BY <1>3, <2>1, WaitingStays DEF SameKey
<1>7. Pending(x, t)' => Pending(x, t)
  BY <1>3, <1>4 DEF Pending, Announcing, Announces
<1>8. Heard(x, t, f)' = Heard(x, t, f)
  BY <1>3 DEF Heard
<1>. QED  BY <1>1, <1>3, <1>5, <1>6, <1>7, <1>8, Begins

LEMMA DebtOfWorker ==
  ASSUME TypeInv, TypeInv', KeyInv, DebtInv, NEW w \in Workers, WorkerStep(w)
  PROVE  DebtInv'
<1>. USE DEF tables, bounds, ghosts, accepted
<1>0. w \in Procs /\ w # Poller /\ job[w] \in Job
  BY Facts
<1>1. restarts \in Nat /\ edits \in Nat /\ restarts' \in Nat /\ edits' \in Nat
  BY DEF TypeInv, TypeOK
<1>2. ASSUME NEW j, Goto(w, j),
             \A e, t, f : Sends(j, e, t, f) => Sends(job[w], e, t, f),
             UNCHANGED <<failures, batch, got, unheard, restarts>>, edits' = edits \/ edits' = edits + 1,
             \A e \in Events, t \in Targets : delivered'[e][t] = "no" => delivered[e][t] = "no"
      PROVE  DebtInv'
  <2>1. restarts' + edits' >= restarts + edits
    BY <1>1, <1>2
  <2>. QED  BY <1>0, <1>2, <2>1, Quiet
<1>3. CASE Post(w) \/ Record(w) \/ Reset(w)
  BY <1>0, <1>3, DebtOfPost, DebtOfRecord, DebtOfReset
<1>4. ASSUME NEW e \in Events, NEW o \in Orgs, SaveEvent(w, e, o)
      PROVE  DebtInv'
  BY <1>4, DebtOfSave
<1>5. ASSUME NEW j, Goto(w, j), \A e, t, f : Sends(j, e, t, f) => Sends(job[w], e, t, f),
             UNCHANGED <<failures, batch, got, unheard, restarts, edits, delivered>>
      PROVE  DebtInv'
  BY <1>2, <1>5
<1>6. ASSUME NEW j, Goto(w, j), j.at \notin {"update", "history", "create"},
             j.at \in {"deliver", "answer", "reset"} => j.act.kind \in {"Update", "Delete"},
             UNCHANGED <<failures, batch, got, unheard, restarts, edits, delivered>>
      PROVE  DebtInv'
  BY <1>5, <1>6, SaysNothing
<1>7. ASSUME NEW e \in Events, DeleteRead(w, e)
      PROVE  DebtInv'
  <2>1. PICK j : Goto(w, j) /\ j.at = "delete"
    BY <1>7 DEF DeleteRead
  <2>2. \A x, t, f : ~Sends(j, x, t, f)
    BY <2>1, SaysNothing
  <2>. QED  BY <1>2, <1>7, <2>1, <2>2 DEF DeleteRead
<1>8. CASE UpdateRead(w)
  <2>. DEFINE e == job[w].event
              k == [at |-> "history", event |-> e, org |-> event[e]]
  <2>1. job[w].at = "update" /\ (Goto(w, k) \/ Goto(w, Idle))
    BY <1>8 DEF UpdateRead
  <2>2. UNCHANGED <<failures, batch, got, unheard, restarts, edits, delivered>>
    BY <1>8 DEF UpdateRead
  <2>3. \A x, t, f : Sends(k, x, t, f) => Sends(job[w], x, t, f)
    BY <2>1 DEF Sends
  <2>. QED  BY <1>5, <1>6, <2>1, <2>2, <2>3 DEF Idle
<1>9. CASE UpdateSend(w)
  <2>. DEFINE k == Delivering(Stamped("Update", job[w].event), job[w].org, Hidden)
  <2>1. Goto(w, k) \/ Goto(w, Idle)
    BY <1>9 DEF UpdateSend
  <2>2. UNCHANGED <<failures, batch, got, unheard, restarts, edits, delivered>>
    BY <1>9 DEF UpdateSend
  <2>3. k.at = "deliver" /\ k.act.kind = "Update"
    BY DEF Delivering, Stamped
  <2>. HIDE DEF k
  <2>. QED  BY <1>6, <2>1, <2>2, <2>3 DEF Idle
<1>10. CASE TransferFound(w)
  <2>. DEFINE e == job[w].event
              o == job[w].org
              move(from) == Delivering(Stamped("Move", e), from, o)
              create(from) == [at |-> "create", event |-> e, org |-> o, peer |-> from]
  <2>1. PICK from : Goto(w, move(from)) \/ Goto(w, create(from)) \/ Goto(w, Idle)
    BY <1>10 DEF TransferFound
  <2>2. job[w].at = "history" /\ UNCHANGED <<failures, batch, got, unheard, restarts, edits, delivered>>
    BY <1>10 DEF TransferFound
  <2>3. move(from).at = "deliver" /\ move(from).act.kind = "Move" /\ move(from).act.event = e
    BY DEF Delivering, Stamped
  <2>4. create(from).at = "create" /\ create(from).event = e
    OBVIOUS
  <2>. HIDE DEF move, create
  <2>5. \A x, t, f : /\ Sends(move(from), x, t, f) => Sends(job[w], x, t, f)
                     /\ Sends(create(from), x, t, f) => Sends(job[w], x, t, f)
    BY <2>2, <2>3, <2>4 DEF Sends, Announces
  <2>. QED  BY <1>5, <1>6, <2>1, <2>2, <2>5 DEF Idle
<1>11. CASE MoveDone(w)
  <2>1. PICK k : Goto(w, k) /\ k.at = "create" /\ k.event = job[w].act.event
    BY <1>11 DEF MoveDone
  <2>2. \A x, t, f : Sends(k, x, t, f) => Sends(job[w], x, t, f)
    BY <1>11, <2>1 DEF Sends, MoveDone, Delivered
  <2>. QED  BY <1>5, <1>11, <2>1, <2>2 DEF MoveDone
<1>12. CASE TransferCreate(w)
  <2>. DEFINE k == Delivering(Plain("Create", job[w].event), job[w].org, job[w].peer)
              moved == [job[w] EXCEPT !.at = "moved"]
  <2>1. job[w].at = "create" /\ (Goto(w, k) \/ Goto(w, moved))
    BY <1>12 DEF TransferCreate
  <2>2. UNCHANGED <<failures, batch, got, unheard, restarts, edits, delivered>>
    BY <1>12 DEF TransferCreate
  <2>3. k.at = "deliver" /\ k.act.kind = "Create" /\ k.act.event = job[w].event
    BY DEF Delivering, Plain
  <2>4. moved.at = "moved"
    BY <1>0, <2>1, JobSteps
  <2>. HIDE DEF k, moved
  <2>5. \A x, t, f : Sends(k, x, t, f) => Sends(job[w], x, t, f)
    BY <2>1, <2>3 DEF Sends, Announces
  <2>. QED  BY <1>5, <1>6, <2>1, <2>2, <2>4, <2>5
<1>13. CASE CreateDone(w) \/ SentToAll(w)
  BY <1>6, <1>13 DEF CreateDone, SentToAll, Idle
<1>14. CASE MarkMoved(w)
  <2>1. [job[w] EXCEPT !.at = "mark"].at = "mark"
    BY <1>0, <1>14, JobSteps DEF MarkMoved
  <2>2. PICK k : Goto(w, k) /\ k.at = "mark"
    BY <1>14, <2>1 DEF MarkMoved
  <2>3. \A x, t, f : ~Sends(k, x, t, f)
    BY <2>2, SaysNothing
  <2>4. \A e \in Events, t \in Targets : delivered'[e][t] = "no" => delivered[e][t] = "no"
    BY <1>14 DEF MarkMoved, TypeInv, TypeOK
  <2>5. UNCHANGED <<failures, batch, got, unheard, restarts, edits>>
    BY <1>14 DEF MarkMoved
  <2>. QED  BY <1>2, <2>2, <2>3, <2>4, <2>5
<1>15. CASE MarkNew(w)
  <2>1. \A x, t, f : ~Sends(Idle, x, t, f)
    BY SaysNothing DEF Idle
  <2>2. \A e \in Events, t \in Targets : delivered'[e][t] = "no" => delivered[e][t] = "no"
    BY <1>15, MarkForward DEF MarkNew
  <2>. QED  BY <1>2, <1>15, <2>1, <2>2 DEF MarkNew
<1>16. CASE DeleteSend(w)
  <2>. DEFINE k == Delivering(Plain("Delete", job[w].event), job[w].org, Hidden)
  <2>1. Goto(w, k) \/ Goto(w, Idle)
    BY <1>16 DEF DeleteSend
  <2>2. UNCHANGED <<failures, batch, got, unheard, restarts, edits, delivered>>
    BY <1>16 DEF DeleteSend
  <2>3. k.at = "deliver" /\ k.act.kind = "Delete"
    BY DEF Delivering, Plain
  <2>. HIDE DEF k
  <2>. QED  BY <1>6, <2>1, <2>2, <2>3 DEF Idle
<1>. QED
  BY <1>3, <1>4, <1>7, <1>8, <1>9, <1>10, <1>11, <1>12, <1>13, <1>14, <1>15, <1>16
     DEF WorkerStep

LEMMA DebtOfRestart ==
  ASSUME TypeInv, TypeInv', DebtInv, Restart
  PROVE  DebtInv'
<1>. SUFFICES ASSUME NEW e \in Events, NEW t \in Targets, NEW f \in Followers
              PROVE  Debt(e, t, f)'
  BY DEF DebtInv
<1>1. Debt(e, t, f)
  BY DEF DebtInv
<1>2. /\ job' = [p \in Procs |-> Idle] /\ batch' = {}
      /\ restarts' = restarts + 1 /\ UNCHANGED <<failures, delivered, got, unheard, edits>>
  BY DEF Restart, tables, ghosts, accepted
<1>3. Senders(e, t, f)' \subseteq Senders(e, t, f)
  BY <1>2 DEF Senders, Sends, Idle
<1>4. restarts' + edits' >= restarts + edits + 1
  BY <1>2, Numbers
<1>5. restarts' + edits' >= restarts + edits
  BY <1>2, Numbers
<1>6. \A q \in failures' \cup batch' : \E r \in failures \cup batch : SameKey(q, r)
  BY <1>2 DEF SameKey
<1>7. CASE \E act : Retrying(act, t, f)
  <2>1. PICK act : Retrying(act, t, f)
    BY <1>7
  <2>2. \A a : Retrying(a, t, f) => a = act
    BY <2>1 DEF Retrying, SameKey
  <2>3. Waiting(e, t, f)' \subseteq Waiting(e, t, f) \cup {act}
    BY <1>2, <2>2 DEF Waiting, Owed, SameKey, Announces
  <2>4. Pending(e, t)' => Pending(e, t)
    BY <1>2, <2>1 DEF Pending, Announcing, Retrying
  <2>5. Heard(e, t, f)' = Heard(e, t, f)
    BY <1>2 DEF Heard
  <2>. QED  BY <1>1, <1>2, <1>3, <2>3, <2>4, <2>5, Forgets
<1>8. CASE ~\E act : Retrying(act, t, f)
  <2>1. Waiting(e, t, f)' \subseteq Waiting(e, t, f)
    BY <1>6, <1>8, WaitingStays
  <2>2. Heard(e, t, f)' = Heard(e, t, f)
    BY <1>2 DEF Heard
  <2>. QED  BY <1>1, <1>2, <1>3, <1>4, <1>5, <2>1, <2>2, DebtKept
<1>. QED  BY <1>7, <1>8

LEMMA DebtOfStep ==
  ASSUME TypeInv, TypeInv', KeptInv, KeyInv, DebtInv, [Next]_vars
  PROVE  DebtInv'
<1>1. ASSUME UNCHANGED <<job, batch, delivered, got, unheard, restarts, edits>>,
             \A q \in failures' : \E r \in failures : SameKey(q, r)
      PROVE  DebtInv'
  <2>. SUFFICES ASSUME NEW e \in Events, NEW t \in Targets, NEW f \in Followers
                PROVE  Debt(e, t, f)'
    BY DEF DebtInv
  <2>1. Debt(e, t, f)
    BY DEF DebtInv
  <2>2. Senders(e, t, f)' \subseteq Senders(e, t, f)
    BY <1>1 DEF Senders, Sends, Announces
  <2>3. Pending(e, t)' => Pending(e, t)
    BY <1>1 DEF Pending, Announcing, Announces
  <2>4. Waiting(e, t, f)' \subseteq Waiting(e, t, f)
    <3>1. \A act : Retrying(act, t, f) => Retrying(act, t, f)'
      BY <1>1 DEF Retrying, SameKey
    <3>2. \A q \in failures' \cup batch' : \E r \in failures \cup batch : SameKey(q, r)
      BY <1>1 DEF SameKey
    <3>. QED  BY <3>1, <3>2, WaitingStays
  <2>5. restarts' + edits' >= restarts + edits /\ Heard(e, t, f)' = Heard(e, t, f)
    BY <1>1, Numbers DEF Heard
  <2>. QED  BY <2>1, <2>2, <2>3, <2>4, <2>5, DebtKept
<1>2. CASE Outside
  <2>1. failures' \subseteq failures /\ UNCHANGED <<job, batch, delivered, got, unheard, restarts, edits>>
    BY <1>2 DEF Outside, ApiChange, Follow, Undo, Purge, LoseActor, tables, ghosts, accepted
  <2>. QED  BY <1>1, <2>1 DEF SameKey
<1>3. CASE Elapse
  BY <1>1, <1>3, KeysOfElapse DEF Elapse, bounds, ghosts, accepted
<1>4. CASE UNCHANGED vars
  BY <1>1, <1>4 DEF vars, SameKey
<1>. QED  BY <1>2, <1>3, <1>4, DebtOfPoll, DebtOfWorker, DebtOfRestart DEF Next

\* An inbox accepts an event's announcement once more only for a cause of its
\* own: an acceptance the sender did not hear of, which is retried, a restart,
\* which delivers again what is not marked, or a save in the pages, which
\* starts the Create of a transfer.  Each explains one.
THEOREM DuplicatesTheorem == Spec => []DuplicatesExplained
<1>1. Init => KeptInv /\ KeyInv /\ DebtInv
  <2>. SUFFICES ASSUME Init  PROVE KeptInv /\ KeyInv /\ DebtInv
    OBVIOUS
  <2>1. \A p \in Procs : job[p].at = "idle"
    BY DEF Init, Idle
  <2>2. Poller \in Procs
    BY DEF Procs
  <2>3. KeptInv
    BY DEF Init, KeptInv, Kept, Idle
  <2>4. KeyInv
    BY <2>1, <2>2 DEF Init, KeyInv, OneRowEach
  <2>5. ASSUME NEW e \in Events, NEW t \in Targets, NEW f \in Followers
        PROVE  Debt(e, t, f)
    <3>1. Waiting(e, t, f) = {}
      BY DEF Init, Waiting
    <3>2. Senders(e, t, f) = {}
      BY <2>1 DEF Senders, Sends
    <3>3. got[e][t][f] = 0 /\ unheard[e][t][f] = 0 /\ restarts = 0 /\ edits = 0 /\ Unvisited(e, t) \in {0, 1}
      BY DEF Init, Unvisited
    <3>4. Heard(e, t, f) = 0
      BY <3>3 DEF Heard
    <3>. QED  BY <3>1, <3>2, <3>3, <3>4, FS_EmptySet DEF Debt, Budget
  <2>. QED  BY <2>3, <2>4, <2>5 DEF DebtInv
<1>2. TypeInv /\ TypeInv' /\ KeptInv /\ KeyInv /\ DebtInv /\ [Next]_vars
        => KeptInv' /\ KeyInv' /\ DebtInv'
  BY KeptOfStep, KeysOfStep, DebtOfStep
<1>3. TypeInv /\ DebtInv => DuplicatesExplained
  <2>. SUFFICES ASSUME TypeInv, DebtInv, NEW e \in Events, NEW t \in Targets, NEW f \in Followers
                PROVE  got[e][t][f] <= 1 + restarts + edits + unheard[e][t][f]
    BY DEF DuplicatesExplained
  <2>. DEFINE a == Heard(e, t, f)  b == Cardinality(Waiting(e, t, f))
              c == Cardinality(Senders(e, t, f))  d == Unvisited(e, t)
  <2>1. a \in Int /\ b \in Nat /\ c \in Nat /\ d \in Nat /\ restarts \in Nat /\ edits \in Nat
    BY Numbers, FS_CardinalityType DEF DebtInv, Debt
  <2>2. a + b + c + d <= 1 + restarts + edits
    BY DEF DebtInv, Debt, Budget
  <2>3. a = got[e][t][f] - unheard[e][t][f]
    BY DEF Heard
  <2>4. got[e][t][f] \in Nat /\ unheard[e][t][f] \in Nat
    BY DEF TypeInv, TypeOK
  <2>. HIDE DEF a, b, c, d
  <2>5. a <= 1 + restarts + edits
    BY <2>1, <2>2
  <2>. QED  BY <2>1, <2>3, <2>4, <2>5
<1>. QED  BY <1>1, <1>2, <1>3, TypesHold, PTL DEF Spec
=============================================================================
