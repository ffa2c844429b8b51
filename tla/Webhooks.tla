------------------------------ MODULE Webhooks ------------------------------
(***************************************************************************)
(* The webhook subscriptions of one publisher of cmd/dansal (webhooks.go):  *)
(* every change of an event starts a goroutine per subscription, which      *)
(* tries, counts its failures in the row, retries after a pause and gives   *)
(* up; too many failures in a row switch the subscription off.  Owners      *)
(* create, patch and delete subscriptions meanwhile.  Nothing of a delivery *)
(* survives a restart.  A test ping writes nothing and is left out.         *)
(***************************************************************************)
EXTENDS Naturals, FiniteSets

CONSTANTS
  Hooks,        \* rows of publisher_webhooks
  Deliveries,   \* goroutines of deliverWebhook
  Owners,       \* concurrently running requests of the publisher
  NoHook,
  DisableAfter, \* webhookDisableAfter()
  Backoffs,     \* len(webhookBackoff())
  MaxHooks,     \* maxWebhooksPerPublisher
  MaxPosts,     \* bound: attempts
  MaxPatches,   \* bound: creations and patches
  MaxCrashes    \* bound: restarts

ASSUME WebhooksAssumption ==
  /\ NoHook \notin Hooks
  /\ DisableAfter \in Nat \ {0} /\ Backoffs \in Nat /\ MaxHooks \in Nat \ {0}
  /\ MaxPosts \in Nat /\ MaxPatches \in Nat /\ MaxCrashes \in Nat

HookRow == [st : {"none", "there", "gone"}, active : BOOLEAN, failures : Nat]
Delivery == [at : {"off", "select", "post", "success", "count", "compare", "disable"},
             hook : Hooks \cup {NoHook}, attempt : 0 .. Backoffs, last : BOOLEAN]
Patch == [at : {"off", "insert", "update"}, hook : Hooks \cup {NoHook}, read : HookRow,
          switch : {"keep", "on", "off"}]

VARIABLES
  hooks,
  delivery,  \* delivery[d]: the step goroutine d executes next
  owner,     \* owner[o]: the request, and the columns it has read
  spent,     \* what has been used of the bounds
  byOwner,   \* ghost: subscriptions that a patch switched off
  doubt      \* ghost: subscriptions whose count and switch were written across each other

whVars == <<hooks, delivery, owner, spent, byOwner, doubt>>

Stopped == [at |-> "off", hook |-> NoHook, attempt |-> 0, last |-> FALSE]
NoRow == [st |-> "none", active |-> FALSE, failures |-> 0]
NoPatch == [at |-> "off", hook |-> NoHook, read |-> NoRow, switch |-> "keep"]
Standing(h) == h \in Hooks /\ hooks[h].st = "there"

WhInit ==
  /\ hooks = [h \in Hooks |-> NoRow]
  /\ delivery = [d \in Deliveries |-> Stopped]
  /\ owner = [o \in Owners |-> NoPatch]
  /\ spent = [posts |-> 0, patches |-> 0, crashes |-> 0]
  /\ byOwner = {} /\ doubt = {}

Step(d, step) == delivery' = [delivery EXCEPT ![d] = step]
StepAt(d, at) == Step(d, [delivery[d] EXCEPT !.at = at])

\* A failure was counted, and whether it was one too many is being decided.
Deciding(h) == \E d \in Deliveries : delivery[d].hook = h /\ delivery[d].at \in {"compare", "disable"}

-----------------------------------------------------------------------------
(* Deliveries                                                              *)

\* dispatchEventWebhooks: a goroutine for each subscription that is active.
Dispatch(d, h) ==
  /\ Standing(h) /\ hooks[h].active
  /\ delivery[d] = Stopped
  /\ Step(d, [Stopped EXCEPT !.at = "select", !.hook = h])
  /\ UNCHANGED <<hooks, owner, spent, byOwner, doubt>>

\* deliverWebhook, one attempt: the row is read again; without a signing secret
\* the attempt is the last.
Select(d) ==
  /\ delivery[d].at = "select"
  /\ spent.posts < MaxPosts
  /\ LET h == delivery[d].hook IN
       IF ~Standing(h) \/ ~hooks[h].active THEN Step(d, Stopped)
       ELSE StepAt(d, "post") \/ Step(d, [delivery[d] EXCEPT !.at = "count", !.last = TRUE])
  /\ spent' = [spent EXCEPT !.posts = @ + 1]
  /\ UNCHANGED <<hooks, owner, byOwner, doubt>>

PostWebhook(d) ==
  /\ delivery[d].at = "post"
  /\ StepAt(d, "success") \/ StepAt(d, "count")
  /\ UNCHANGED <<hooks, owner, spent, byOwner, doubt>>

Wrote(h, columns) == hooks' = IF Standing(h) THEN [hooks EXCEPT ![h] = columns] ELSE hooks
ResetFailures(d) ==
  /\ delivery[d].at = "success"
  /\ LET h == delivery[d].hook IN
       /\ Wrote(h, [hooks[h] EXCEPT !.failures = 0])
       /\ doubt' = IF Deciding(h) \/ (Standing(h) /\ ~hooks[h].active) THEN doubt \cup {h} ELSE doubt
  /\ Step(d, Stopped)
  /\ UNCHANGED <<owner, spent, byOwner>>

\* recordWebhookFailure: UPDATE, SELECT, UPDATE.
CountFailure(d) ==
  /\ delivery[d].at = "count"
  /\ LET h == delivery[d].hook IN Wrote(h, [hooks[h] EXCEPT !.failures = @ + 1])
  /\ StepAt(d, "compare")
  /\ UNCHANGED <<owner, spent, byOwner, doubt>>

TooMany(n) == n >= DisableAfter
CompareCount(d) ==
  /\ delivery[d].at = "compare"
  /\ LET h == delivery[d].hook
         n == IF Standing(h) THEN hooks[h].failures ELSE 0 IN
       IF TooMany(n) THEN StepAt(d, "disable")
       ELSE IF delivery[d].last \/ delivery[d].attempt >= Backoffs THEN Step(d, Stopped)
       ELSE Step(d, [delivery[d] EXCEPT !.at = "select", !.attempt = @ + 1])
  /\ UNCHANGED <<hooks, owner, spent, byOwner, doubt>>

DisableHook(d) ==
  /\ delivery[d].at = "disable"
  /\ LET h == delivery[d].hook IN Wrote(h, [hooks[h] EXCEPT !.active = FALSE])
  /\ Step(d, Stopped)
  /\ UNCHANGED <<owner, spent, byOwner, doubt>>

-----------------------------------------------------------------------------
(* The publisher                                                           *)

Ask(o, step) ==
  /\ owner[o] = NoPatch
  /\ spent.patches < MaxPatches
  /\ spent' = [spent EXCEPT !.patches = @ + 1]
  /\ owner' = [owner EXCEPT ![o] = step]
Answer(o) == owner' = [owner EXCEPT ![o] = NoPatch]

\* createPublisherWebhook counts the rows, then inserts one and pings it.
CreateHook(o) ==
  /\ Cardinality({h \in Hooks : Standing(h)}) < MaxHooks
  /\ Ask(o, [NoPatch EXCEPT !.at = "insert"])
  /\ UNCHANGED <<hooks, delivery, byOwner, doubt>>

InsertHook(o, h, d) ==
  /\ owner[o].at = "insert"
  /\ hooks[h].st = "none" /\ delivery[d] = Stopped
  /\ hooks' = [hooks EXCEPT ![h] = [st |-> "there", active |-> TRUE, failures |-> 0]]
  /\ Step(d, [Stopped EXCEPT !.at = "select", !.hook = h])
  /\ Answer(o)
  /\ UNCHANGED <<spent, byOwner, doubt>>

\* patchPublisherWebhook reads the row and writes its columns back; switching it
\* on again starts a new count.
PatchRead(o, h, switch) ==
  /\ Standing(h)
  /\ Ask(o, [at |-> "update", hook |-> h, read |-> hooks[h], switch |-> switch])
  /\ UNCHANGED <<hooks, delivery, byOwner, doubt>>

Reactivates(p) == p.switch = "on" /\ ~p.read.active
\* Mutant: switching it on again keeps the count.
PatchedKeepingCount(p) == [p.read EXCEPT !.active = IF p.switch = "keep" THEN @ ELSE p.switch = "on"]
Patched(p) == [p.read EXCEPT !.active = IF p.switch = "keep" THEN @ ELSE p.switch = "on",
                             !.failures = IF Reactivates(p) THEN 0 ELSE @]
PatchWrite(o) ==
  /\ owner[o].at = "update"
  /\ LET h == owner[o].hook
         p == owner[o] IN
       /\ Wrote(h, Patched(p))
       /\ byOwner' = IF p.switch = "off" THEN byOwner \cup {h}
                     ELSE IF p.switch = "on" THEN byOwner \ {h} ELSE byOwner
       /\ doubt' = IF Standing(h) /\ (p.read # hooks[h] \/ Deciding(h)) THEN doubt \cup {h}
                   ELSE IF Reactivates(p) THEN doubt \ {h} ELSE doubt
  /\ Answer(o)
  /\ UNCHANGED <<delivery, spent>>

DeleteHook(h) ==
  /\ Standing(h)
  /\ hooks' = [hooks EXCEPT ![h].st = "gone"]
  /\ UNCHANGED <<delivery, owner, spent, byOwner, doubt>>

\* The server restarts: no delivery goes on.
WhCrash ==
  /\ spent.crashes < MaxCrashes
  /\ spent' = [spent EXCEPT !.crashes = @ + 1]
  /\ doubt' = doubt \cup {h \in Hooks : Deciding(h)}
  /\ delivery' = [d \in Deliveries |-> Stopped]
  /\ owner' = [o \in Owners |-> NoPatch]
  /\ UNCHANGED <<hooks, byOwner>>

WhNext ==
  \/ \E d \in Deliveries :
       \/ \E h \in Hooks : Dispatch(d, h)
       \/ Select(d) \/ PostWebhook(d) \/ ResetFailures(d)
       \/ CountFailure(d) \/ CompareCount(d) \/ DisableHook(d)
  \/ \E o \in Owners :
       \/ CreateHook(o)
       \/ \E h \in Hooks, d \in Deliveries : InsertHook(o, h, d)
       \/ \E h \in Hooks, switch \in {"keep", "on", "off"} : PatchRead(o, h, switch)
       \/ PatchWrite(o)
  \/ \E h \in Hooks : DeleteHook(h)
  \/ WhCrash

WhSpec == WhInit /\ [][WhNext]_whVars

-----------------------------------------------------------------------------
(* Properties                                                              *)

WhTypeOK ==
  /\ hooks \in [Hooks -> HookRow]
  /\ delivery \in [Deliveries -> Delivery]
  /\ owner \in [Owners -> Patch]
  /\ spent \in [posts : 0 .. MaxPosts, patches : 0 .. MaxPatches, crashes : 0 .. MaxCrashes]
  /\ byOwner \subseteq Hooks /\ doubt \subseteq Hooks

\* A subscription is off because its owner wanted that or because its failures in
\* a row reached the limit, and one whose failures reached the limit is off or
\* about to be (recordWebhookFailure, patchPublisherWebhook, and deliveries that
\* overlap), unless a success, a patch or a crash came in between the statements.
PauseExplained ==
  \A h \in Hooks : Standing(h) /\ h \notin doubt =>
    /\ hooks[h].active \/ h \in byOwner \/ TooMany(hooks[h].failures)
    /\ hooks[h].active /\ TooMany(hooks[h].failures) => Deciding(h)
=============================================================================
