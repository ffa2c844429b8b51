------------------------------ MODULE Delivery ------------------------------
(***************************************************************************)
(* ActivityPub delivery of dansal_web (cmd/dansal_web/delivery.go): the    *)
(* poll that announces published events to an organisation's followers,    *)
(* the retries of posts an inbox refused, and the goroutines that announce *)
(* an edit, a transfer to another organisation or a deletion.              *)
(*                                                                         *)
(* One goroutine polls; every edit in the admin pages starts another.      *)
(* They share the tables delivered, delivery_failures and followers, so a  *)
(* process is cut between an inbox's answer and the statement that records *)
(* it, and between a read of the event and a read of its history.          *)
(*                                                                         *)
(* Time is abstract: a failure row is due or it waits, and Elapse may make *)
(* any waiting row due (delivery_failures.next_attempt_at).                *)
(***************************************************************************)
EXTENDS Integers, FiniteSets

CONSTANTS
  Events,        \* event ids
  Orgs,          \* organisations that have an actor
  Relay,         \* org_id 0, the actor that announces every organisation's events
  RelayOn,       \* whether a relay actor is configured
  Followers,     \* remote actors, each with an inbox of its own
  Poller,        \* the goroutine of startDelivery
  Workers,       \* the goroutines one admin request or another starts
  MaxAttempts,   \* maxDeliveryAttempts
  MaxFailures,   \* FollowerMaxFailures
  MaxEdits,      \* bound: saves in the admin pages
  FirstFollowers, \* <<t, f>>: who follows whom to begin with
  MaxChanges,    \* bound: API writes, follows, undos, erasures and lost actors
  MaxRestarts,   \* bound: process restarts
  MaxUnheard,    \* bound: unheard acceptances of one event's announcements by one inbox
  Ping,          \* org_ids -4, -5 and -1: IndexNow and tag deliveries made
  Hidden, Deleted, \* an event that is not listed (yet, or any longer); one that is gone
  Start,         \* Start[e]: when e starts; of two that start together, the API's order
  PageLimit      \* the LIMIT of GET /api/v1/events for a request that names none

Targets == Orgs \cup {Relay}
Procs == Workers \cup {Poller}

\* Create and Delete have one id per event; the others are stamped.
Activity ==
  [kind : {"Create", "Delete"}, event : Events, n : {0}]
    \cup [kind : {"Update", "Move", "Announce"}, event : Events, n : Nat]

\* A row of delivery_failures.
Failure ==
  [act : Activity, org : Targets, to : Followers, tries : 1..MaxAttempts, due : BOOLEAN]

Snapshot == [event : Events, org : Orgs]

\* list: the followers read at the start; peer: a transfer's other organisation.
Job ==
  {[at |-> "idle"], [at |-> "retry"], [at |-> "visit"]}
    \cup [at : {"deliver"}, act : Activity, org : Targets, peer : Orgs \cup {Hidden},
          list : SUBSET Followers, todo : SUBSET Followers]
    \cup [at : {"answer"}, act : Activity, org : Targets, peer : Orgs \cup {Hidden},
          list : SUBSET Followers, todo : SUBSET Followers, to : Followers, ok : BOOLEAN]
    \cup [at : {"reset"}, act : Activity, org : Targets, peer : Orgs \cup {Hidden},
          list : SUBSET Followers, todo : SUBSET Followers, to : Followers]
    \cup [at : {"retried"}, row : Failure, ok : BOOLEAN]
    \cup [at : {"cleared", "bump", "drop"}, row : Failure]
    \cup [at : {"relay", "history", "delete"}, event : Events, org : Orgs]
    \cup [at : {"update"}, event : Events]
    \cup [at : {"create", "moved", "mark"}, event : Events, org : Orgs, peer : Orgs]

ASSUME DeliveryAssumption ==
  /\ Poller \notin Workers /\ Relay \notin Orgs /\ Ping \notin Targets
  /\ Hidden \notin Orgs /\ Deleted \notin Orgs /\ Hidden # Deleted
  /\ RelayOn \in BOOLEAN /\ FirstFollowers \subseteq Targets \X Followers
  /\ MaxAttempts \in Nat \ {0} /\ MaxFailures \in Nat \ {0} /\ PageLimit \in Nat \ {0}
  /\ Start \in [Events -> Nat] /\ \A e1, e2 \in Events : Start[e1] = Start[e2] => e1 = e2
  /\ {MaxEdits, MaxChanges, MaxRestarts, MaxUnheard} \subseteq Nat

VARIABLES
  event,      \* event[e]: the organisation it is listed under, Hidden or Deleted
  lost,       \* organisations whose actor row can no longer be loaded
  delivered,  \* delivered[e][t]: "no" row, "yes", or "moved" (transferred_to is set)
  failures,   \* the delivery_failures table
  fails,      \* fails[t][f]: fail_count of a follower, -1 for one who does not follow
  job,        \* job[p]: the statement or post process p does next
  batch,      \* the failures the poll has read and not retried yet
  listing,    \* the events the poll has fetched and not visited yet
  fresh,      \* stamps handed out
  edits, changes, restarts,   \* counters the bounds refer to
  promised,   \* <<e, t, f>>: f was listed in a delivery that was marked done
  got,        \* got[e][t][f]: announcements of e that the inbox of f accepted
  unheard,    \* unheard[e][t][f]: those of them that were answered with an error, or not at all
  settled,    \* <<e, t, f>>: given up after MaxAttempts, or erased
  streak,     \* streak[t][f]: give-ups since the last success or follow
  overtaken,  \* the inbox to be dropped was reached, or its actor followed, meanwhile
  home        \* home[e]: the organisation e was last marked delivered to

tables == <<delivered, failures, fails>>
bounds == <<edits, changes, restarts>>
accepted == <<got, unheard>>
ghosts == <<promised, accepted, settled, streak, overtaken, home>>
vars == <<event, lost, delivered, failures, fails, job, batch, listing, fresh,
          edits, changes, restarts, promised, got, unheard, settled, streak, overtaken,
          home>>

Idle == [at |-> "idle"]
Goto(p, j) == job' = [job EXCEPT ![p] = j]
Following(t) == {f \in Followers : fails[t][f] >= 0}
Row(act, t, f) == {r \in failures : r.act = act /\ r.org = t /\ r.to = f}

Init ==
  /\ event \in [Events -> Orgs \cup {Hidden}]
  /\ lost = {}
  /\ delivered = [e \in Events |-> [t \in Targets \cup {Ping} |-> "no"]]
  /\ failures = {}
  /\ fails = [t \in Targets |-> [f \in Followers |-> IF <<t, f>> \in FirstFollowers THEN 0 ELSE -1]]
  /\ job = [p \in Procs |-> Idle]
  /\ batch = {} /\ listing = {}
  /\ fresh = 0 /\ edits = 0 /\ changes = 0 /\ restarts = 0
  /\ promised = {} /\ settled = {} /\ overtaken = FALSE
  /\ got = [e \in Events |-> [t \in Targets |-> [f \in Followers |-> 0]]]
  /\ unheard = got
  /\ streak = [t \in Targets |-> [f \in Followers |-> 0]]
  /\ home = [e \in Events |-> Hidden]

-----------------------------------------------------------------------------
(* deliverActivityToFollowers, as any process runs it.                     *)

\* The followers are listed once; the caller goes on when todo is empty.
Delivering(act, t, peer) ==
  [at |-> "deliver", act |-> act, org |-> t, peer |-> peer,
   list |-> Following(t), todo |-> Following(t)]

Stamped(kind, e) == [kind |-> kind, event |-> e, n |-> fresh + 1]
Plain(kind, e) == [kind |-> kind, event |-> e, n |-> 0]

Announces(act) == act.kind \in {"Create", "Announce"}

\* The inbox of f takes in an activity of organisation t, or does not; ok
\* says what the sender learns of it.
Received(act, t, f, taken, ok) ==
  /\ taken /\ ~ok /\ Announces(act) => unheard[act.event][t][f] < MaxUnheard
  /\ got' = IF taken /\ Announces(act)
            THEN [got EXCEPT ![act.event][t][f] = @ + 1] ELSE got
  /\ unheard' = IF taken /\ ~ok /\ Announces(act)
                THEN [unheard EXCEPT ![act.event][t][f] = @ + 1] ELSE unheard

\* postToInbox, which another process may overtake before the answer is
\* stored.  A post that fails may have been taken in all the same: its answer
\* timed out, was lost, or was an error that came too late.
Post(p) ==
  /\ job[p].at = "deliver"
  /\ \E f \in job[p].todo, taken, ok \in BOOLEAN :
       /\ ok => taken
       /\ Received(job[p].act, job[p].org, f, taken, ok)
       /\ Goto(p, [at |-> "answer", act |-> job[p].act, org |-> job[p].org,
                   peer |-> job[p].peer, list |-> job[p].list,
                   todo |-> job[p].todo \ {f}, to |-> f, ok |-> ok])
  /\ UNCHANGED <<event, lost, tables, batch, listing, fresh, bounds,
                 promised, settled, streak, overtaken, home>>

\* deleteDeliveryFailure, of a post that succeeded.
SuccessKeepsRow(act, t, f) == UNCHANGED failures
Success(act, t, f) == failures' = failures \ Row(act, t, f)

\* bumpFollowerFailCount has found no count to raise, and is to remove f.
Dropping(t, f) ==
  job[Poller].at = "drop" /\ job[Poller].row.org = t /\ job[Poller].row.to = f

\* resetFollowerFailCount, the statement after it.
ResetTo(t, f, count) ==
  /\ fails' = [fails EXCEPT ![t][f] = IF @ >= 0 THEN count ELSE @]
  /\ streak' = [streak EXCEPT ![t][f] = IF fails[t][f] >= 0 THEN 0 ELSE @]
  /\ overtaken' = (overtaken \/ Dropping(t, f))

ResetNothing(t, f) == ResetTo(t, f, fails[t][f])
ResetCount(t, f) == ResetTo(t, f, 0)

\* insertDeliveryFailure: INSERT OR IGNORE, so a known failure keeps its attempts.
InsertUnless(known, act, t, f) ==
  IF known = {} THEN {[act |-> act, org |-> t, to |-> f, tries |-> 1, due |-> FALSE]} ELSE {}

NewFailurePerInbox(act, t, f) ==
  InsertUnless({r \in failures : r.act = act /\ r.to = f}, act, t, f)
NewFailure(act, t, f) == InsertUnless(Row(act, t, f), act, t, f)

\* One statement of deliverActivityToFollowers after the answer ...
Record(p) ==
  LET j == job[p]
  IN /\ j.at = "answer"
     /\ \/ /\ j.ok
           /\ Success(j.act, j.org, j.to)
           /\ Goto(p, [at |-> "reset", act |-> j.act, org |-> j.org, peer |-> j.peer,
                       list |-> j.list, todo |-> j.todo, to |-> j.to])
        \/ /\ ~j.ok
           /\ failures' = failures \cup NewFailure(j.act, j.org, j.to)
           /\ Goto(p, [at |-> "deliver", act |-> j.act, org |-> j.org, peer |-> j.peer,
                       list |-> j.list, todo |-> j.todo])
     /\ UNCHANGED <<event, lost, delivered, fails, batch, listing, fresh, bounds, ghosts>>

\* ... and the other one, of a success.
Reset(p) ==
  LET j == job[p]
  IN /\ j.at = "reset"
     /\ ResetCount(j.org, j.to)
     /\ Goto(p, [at |-> "deliver", act |-> j.act, org |-> j.org, peer |-> j.peer,
                 list |-> j.list, todo |-> j.todo])
     /\ UNCHANGED <<event, lost, delivered, failures, batch, listing, fresh, bounds,
                    promised, accepted, settled, home>>

Delivered(p) == job[p].at = "deliver" /\ job[p].todo = {}

\* markDelivered: INSERT OR IGNORE leaves a transferred row as it is.
Mark(e, t) ==
  delivered' = [delivered EXCEPT ![e][t] = IF @ = "no" THEN "yes" ELSE @]
Promise(e, t, list) == promised' = promised \cup ({e} \X {t} \X list)

-----------------------------------------------------------------------------
(* retryFailedDeliveries, at the start of every poll.                      *)

\* pendingDeliveryFailures (fewer than its LIMIT of 100 rows are due).
PollTick ==
  /\ job[Poller] = Idle
  /\ batch' = {r \in failures : r.due}
  /\ Goto(Poller, [at |-> "retry"])
  /\ UNCHANGED <<event, lost, tables, listing, fresh, bounds, ghosts>>

\* An organisation whose actor is lost counts as a failed post.
RetryPost ==
  /\ job[Poller].at = "retry"
  /\ \E r \in batch, taken, ok \in BOOLEAN :
       /\ (ok => taken) /\ (taken => r.org \notin lost)
       /\ batch' = batch \ {r}
       /\ Received(r.act, r.org, r.to, taken, ok)
       /\ Goto(Poller, [at |-> "retried", row |-> r, ok |-> ok])
  /\ UNCHANGED <<event, lost, tables, listing, fresh, bounds,
                 promised, settled, streak, overtaken, home>>

\* The first statement after the answer deletes the row, of a success ...
Cleared(r) ==
  /\ Success(r.act, r.org, r.to)
  /\ Goto(Poller, [at |-> "cleared", row |-> r])
  /\ UNCHANGED settled

\* ... or of the last attempt, ...
GiveUp(r) ==
  /\ r.tries + 1 > MaxAttempts
  /\ failures' = failures \ Row(r.act, r.org, r.to)
  /\ Goto(Poller, [at |-> "bump", row |-> r])
  /\ settled' = IF Announces(r.act) THEN settled \cup {<<r.act.event, r.org, r.to>>} ELSE settled

\* ... or is updateDeliveryFailure, from the attempts the poll had read.
TryLater(r) ==
  /\ r.tries + 1 <= MaxAttempts
  /\ failures' = {IF q \in Row(r.act, r.org, r.to)
                  THEN [q EXCEPT !.tries = r.tries + 1, !.due = FALSE] ELSE q : q \in failures}
  /\ Goto(Poller, [at |-> "retry"])
  /\ UNCHANGED settled

RecordAnswer ==
  LET r == job[Poller].row
  IN /\ job[Poller].at = "retried"
     /\ \/ job[Poller].ok /\ Cleared(r)
        \/ ~job[Poller].ok /\ (GiveUp(r) \/ TryLater(r))
     /\ UNCHANGED <<event, lost, delivered, fails, batch, listing, fresh, bounds,
                    promised, accepted, streak, overtaken, home>>

\* Before #1440 a row of a lost actor was passed over, as it stood.
RecordUnlessLost ==
  \/ job[Poller].at = "retried" /\ job[Poller].row.org \notin lost /\ RecordAnswer
  \/ /\ job[Poller].at = "retried" /\ job[Poller].row.org \in lost
     /\ Goto(Poller, [at |-> "retry"])
     /\ UNCHANGED <<event, lost, tables, batch, listing, fresh, bounds, ghosts>>

RetryRecord == RecordAnswer

RetryReset ==
  /\ job[Poller].at = "cleared"
  /\ ResetCount(job[Poller].row.org, job[Poller].row.to)
  /\ Goto(Poller, [at |-> "retry"])
  /\ UNCHANGED <<event, lost, delivered, failures, batch, listing, fresh, bounds,
                 promised, accepted, settled, home>>

\* bumpFollowerFailCount, its guarded UPDATE: count one give-up, unless that
\* were the last, or f does not follow.
BumpBelow(limit) ==
  LET t == job[Poller].row.org
      f == job[Poller].row.to
      raised == fails[t][f] >= 0 /\ fails[t][f] + 1 < limit
  IN /\ job[Poller].at = "bump"
     /\ fails' = IF raised THEN [fails EXCEPT ![t][f] = @ + 1] ELSE fails
     /\ streak' = [streak EXCEPT ![t][f] = IF fails[t][f] >= 0 THEN @ + 1 ELSE @]
     /\ overtaken' = FALSE
     /\ Goto(Poller, IF raised THEN [at |-> "retry"] ELSE [job[Poller] EXCEPT !.at = "drop"])
     /\ UNCHANGED <<event, lost, delivered, failures, batch, listing, fresh, bounds,
                    promised, accepted, settled, home>>

BumpTooFar == BumpBelow(MaxFailures + 1)
Bump == BumpBelow(MaxFailures)

\* Its DELETE, a statement of its own, which asks for no count.
Drop ==
  /\ job[Poller].at = "drop"
  /\ fails' = [fails EXCEPT ![job[Poller].row.org][job[Poller].row.to] = -1]
  /\ Goto(Poller, [at |-> "retry"])
  /\ UNCHANGED <<event, lost, delivered, failures, batch, listing, fresh, bounds, ghosts>>

Elapse ==
  /\ \E r \in failures :
       ~r.due /\ failures' = (failures \ {r}) \cup {[r EXCEPT !.due = TRUE]}
  /\ UNCHANGED <<event, lost, delivered, fails, job, batch, listing, fresh, bounds, ghosts>>

-----------------------------------------------------------------------------
(* pollAndDeliver.                                                         *)

Listed == {e \in Events : event[e] \in Orgs}
\* The API answers with its first page, by start time.
OnPage(e) == Cardinality({d \in Listed : Start[d] <= Start[e]}) <= PageLimit

\* GetEvents: published events that are not over, as many as a request that
\* names no limit is given.  (Its start_time_after is an RFC 3339 time, which
\* the API does not parse, and so ignores.)
Fetch ==
  /\ job[Poller].at = "retry" /\ batch = {}
  /\ listing' = {[event |-> e, org |-> event[e]] : e \in {x \in Listed : OnPage(x)}}
  /\ Goto(Poller, [at |-> "visit"])
  /\ UNCHANGED <<event, lost, tables, batch, fresh, bounds, ghosts>>

FetchFails ==
  /\ job[Poller].at = "retry" /\ batch = {}
  /\ Goto(Poller, Idle)
  /\ UNCHANGED <<event, lost, tables, batch, listing, fresh, bounds, ghosts>>

\* The listed events whose Create is still to go to the organisation's followers.
Undelivered == {s \in listing : s.org \notin lost /\ delivered[s.event][s.org] = "no"}
Unpinged == {s \in listing : delivered[s.event][Ping] = "no"}

\* The next event: the pings are marked, then the organisation's followers.
VisitAmong(wanted) ==
  /\ job[Poller].at = "visit"
  /\ \E s \in listing :
       /\ listing' = listing \ {s}
       /\ Mark(s.event, Ping)
       /\ Goto(Poller, IF s \in wanted THEN Delivering(Plain("Create", s.event), s.org, Hidden)
                       ELSE [at |-> "relay", event |-> s.event, org |-> s.org])
  /\ UNCHANGED <<event, lost, failures, fails, batch, fresh, bounds, ghosts>>

VisitOncePinged == VisitAmong(Undelivered \cap Unpinged)
Visit == VisitAmong(Undelivered)

\* The Create is marked once every follower was posted to.
OrgMark ==
  LET j == job[Poller]
  IN /\ Delivered(Poller) /\ j.act.kind = "Create"
     /\ Mark(j.act.event, j.org)
     /\ Promise(j.act.event, j.org, j.list)
     /\ home' = [home EXCEPT ![j.act.event] = j.org]
     /\ Goto(Poller, [at |-> "relay", event |-> j.act.event, org |-> j.org])
     /\ UNCHANGED <<event, lost, failures, fails, batch, listing, fresh, bounds,
                    accepted, settled, streak, overtaken>>

\* The relay's Announce, under a stamp of its own.
RelayVisit ==
  LET j == job[Poller]
      wanted == RelayOn /\ j.org \notin lost /\ delivered[j.event][Relay] = "no"
  IN /\ j.at = "relay"
     /\ Goto(Poller, IF wanted THEN Delivering(Stamped("Announce", j.event), Relay, Hidden)
                     ELSE [at |-> "visit"])
     /\ fresh' = IF wanted THEN fresh + 1 ELSE fresh
     /\ UNCHANGED <<event, lost, tables, batch, listing, bounds, ghosts>>

RelayMark ==
  LET j == job[Poller]
  IN /\ Delivered(Poller) /\ j.act.kind = "Announce"
     /\ Mark(j.act.event, Relay)
     /\ Promise(j.act.event, Relay, j.list)
     /\ Goto(Poller, [at |-> "visit"])
     /\ UNCHANGED <<event, lost, failures, fails, batch, listing, fresh, bounds,
                    accepted, settled, streak, overtaken, home>>

PollEnds ==
  /\ job[Poller].at = "visit" /\ listing = {}
  /\ Goto(Poller, Idle)
  /\ UNCHANGED <<event, lost, tables, batch, listing, fresh, bounds, ghosts>>

-----------------------------------------------------------------------------
(* A save in the admin pages, and the goroutine it starts.                 *)

\* The API has stored the event; deliverUpdateToFollowers is on its way.
SaveEvent(w, e, o) ==
  /\ job[w] = Idle /\ edits < MaxEdits /\ event[e] # Deleted
  /\ event' = [event EXCEPT ![e] = o]
  /\ edits' = edits + 1
  /\ Goto(w, [at |-> "update", event |-> e])
  /\ UNCHANGED <<lost, tables, batch, listing, fresh, changes, restarts, ghosts>>

\* GetEvent, which does not find an event unpublished meanwhile.
UpdateRead(w) ==
  LET e == job[w].event
  IN /\ job[w].at = "update"
     /\ Goto(w, IF event[e] \in Orgs THEN [at |-> "history", event |-> e, org |-> event[e]]
                ELSE Idle)
     /\ UNCHANGED <<event, lost, tables, batch, listing, fresh, bounds, ghosts>>

\* findTransferOrigin: an organisation that has the event, and not the
\* current one.  (With more than one, the code takes the first delivered.)
Origins(e, current) == {o \in Orgs \ {current} : delivered[e][o] = "yes"}

\* No transfer: an Update to the followers.
UpdateSend(w) ==
  LET j == job[w]
  IN /\ j.at = "history" /\ Origins(j.event, j.org) = {}
     /\ IF j.org \in lost
        THEN Goto(w, Idle) /\ UNCHANGED fresh
        ELSE /\ Goto(w, Delivering(Stamped("Update", j.event), j.org, Hidden))
             /\ fresh' = fresh + 1
     /\ UNCHANGED <<event, lost, tables, batch, listing, bounds, ghosts>>

\* handleEventTransfer: a Move to the old followers, if both actors load.
\* (Its own GetEvent stops it when the event is no longer listed.)
TransferFound(w) ==
  LET j == job[w]
  IN /\ j.at = "history"
     /\ \E from \in Origins(j.event, j.org) :
          \/ /\ event[j.event] \in Orgs
             /\ IF {from, j.org} \cap lost = {}
                THEN /\ Goto(w, Delivering(Stamped("Move", j.event), from, j.org))
                     /\ fresh' = fresh + 1
                ELSE /\ Goto(w, [at |-> "create", event |-> j.event, org |-> j.org, peer |-> from])
                     /\ UNCHANGED fresh
          \/ event[j.event] \notin Orgs /\ Goto(w, Idle) /\ UNCHANGED fresh
     /\ UNCHANGED <<event, lost, tables, batch, listing, bounds, ghosts>>

\* Then the Create, to the new followers.
MoveDone(w) ==
  LET j == job[w]
  IN /\ Delivered(w) /\ j.act.kind = "Move"
     /\ Goto(w, [at |-> "create", event |-> j.act.event, org |-> j.peer, peer |-> j.org])
     /\ UNCHANGED <<event, lost, tables, batch, listing, fresh, bounds, ghosts>>

TransferCreate(w) ==
  LET j == job[w]
  IN /\ j.at = "create"
     /\ Goto(w, IF j.org \in lost THEN [j EXCEPT !.at = "moved"]
                ELSE Delivering(Plain("Create", j.event), j.org, j.peer))
     /\ UNCHANGED <<event, lost, tables, batch, listing, fresh, bounds, ghosts>>

CreateDone(w) ==
  LET j == job[w]
  IN /\ Delivered(w) /\ j.act.kind = "Create"
     /\ Promise(j.act.event, j.org, j.list)
     /\ Goto(w, [at |-> "moved", event |-> j.act.event, org |-> j.org, peer |-> j.peer])
     /\ UNCHANGED <<event, lost, tables, batch, listing, fresh, bounds,
                    accepted, settled, streak, overtaken, home>>

\* markEventTransferred on the old row, then markDelivered on the new one.
MarkMoved(w) ==
  LET j == job[w]
  IN /\ j.at = "moved"
     /\ delivered' = [delivered EXCEPT ![j.event][j.peer] = IF @ = "no" THEN @ ELSE "moved"]
     /\ Goto(w, [j EXCEPT !.at = "mark"])
     /\ UNCHANGED <<event, lost, failures, fails, batch, listing, fresh, bounds, ghosts>>

MarkNew(w) ==
  LET j == job[w]
  IN /\ j.at = "mark"
     /\ Mark(j.event, j.org)
     /\ home' = [home EXCEPT ![j.event] = j.org]
     /\ Goto(w, Idle)
     /\ UNCHANGED <<event, lost, failures, fails, batch, listing, fresh, bounds,
                    promised, accepted, settled, streak, overtaken>>

\* adminEventDeleteHandler reads the organisation, deletes, and then sends
\* the Delete whether or not the API deleted the event.
DeleteRead(w, e) ==
  /\ job[w] = Idle /\ edits < MaxEdits /\ event[e] \in Orgs
  /\ edits' = edits + 1
  /\ Goto(w, [at |-> "delete", event |-> e, org |-> event[e]])
  /\ UNCHANGED <<event, lost, tables, batch, listing, fresh, changes, restarts, ghosts>>

DeleteSend(w) ==
  LET j == job[w]
  IN /\ j.at = "delete"
     /\ \E done \in BOOLEAN : event' = IF done THEN [event EXCEPT ![j.event] = Deleted] ELSE event
     /\ Goto(w, IF j.org \in lost THEN Idle
                ELSE Delivering(Plain("Delete", j.event), j.org, Hidden))
     /\ UNCHANGED <<lost, tables, batch, listing, fresh, bounds, ghosts>>

SentToAll(w) ==
  /\ Delivered(w) /\ job[w].act.kind \in {"Update", "Delete"}
  /\ Goto(w, Idle)
  /\ UNCHANGED <<event, lost, tables, batch, listing, fresh, bounds, ghosts>>

-----------------------------------------------------------------------------
(* What happens around the deliveries.                                     *)

\* A write through the API, or the event's end: no goroutine is started.
ApiChange(e, to) ==
  /\ event[e] \notin {Deleted, to}
  /\ event' = [event EXCEPT ![e] = to]
  /\ UNCHANGED <<lost, tables, job, batch, listing, fresh, edits, restarts, ghosts>>

\* Follow and Undo in the inbox.
Follow(t, f) ==
  /\ fails[t][f] < 0
  /\ fails' = [fails EXCEPT ![t][f] = 0]
  /\ streak' = [streak EXCEPT ![t][f] = 0]
  /\ overtaken' = (overtaken \/ Dropping(t, f))
  /\ UNCHANGED <<event, lost, delivered, failures, job, batch, listing, fresh, edits, restarts,
                 promised, accepted, settled, home>>

Undo(t, f) ==
  /\ fails[t][f] >= 0
  /\ fails' = [fails EXCEPT ![t][f] = -1]
  /\ UNCHANGED <<event, lost, delivered, failures, job, batch, listing, fresh, edits, restarts, ghosts>>

\* dansal_admin purge-actor, beside the running server: it finds the inbox
\* in the followers table.
Purge(f) ==
  /\ \E t \in Targets : fails[t][f] >= 0
  /\ fails' = [t \in Targets |-> [fails[t] EXCEPT ![f] = -1]]
  /\ failures' = {r \in failures : r.to # f}
  /\ settled' = settled \cup (Events \X Targets \X {f})
  /\ UNCHANGED <<event, lost, delivered, job, batch, listing, fresh, edits, restarts,
                 promised, accepted, streak, overtaken, home>>

\* The actor's key can no longer be decrypted.
LoseActor(o) ==
  /\ o \notin lost
  /\ lost' = lost \cup {o}
  /\ UNCHANGED <<event, tables, job, batch, listing, fresh, edits, restarts, ghosts>>

\* Goroutines and what they have read are gone; the tables stay.
Restart ==
  /\ restarts < MaxRestarts
  /\ restarts' = restarts + 1
  /\ job' = [p \in Procs |-> Idle]
  /\ batch' = {} /\ listing' = {}
  /\ UNCHANGED <<event, lost, tables, fresh, edits, changes, ghosts>>

-----------------------------------------------------------------------------
PollStep ==
  \/ PollTick \/ RetryPost \/ RetryRecord \/ RetryReset \/ Bump \/ Drop \/ Fetch \/ FetchFails
  \/ Visit \/ OrgMark \/ RelayVisit \/ RelayMark \/ PollEnds
  \/ Post(Poller) \/ Record(Poller) \/ Reset(Poller)

WorkerStep(w) ==
  \/ \E e \in Events, o \in Orgs : SaveEvent(w, e, o)
  \/ \E e \in Events : DeleteRead(w, e)
  \/ UpdateRead(w) \/ UpdateSend(w) \/ TransferFound(w) \/ MoveDone(w)
  \/ TransferCreate(w) \/ CreateDone(w) \/ MarkMoved(w) \/ MarkNew(w)
  \/ DeleteSend(w) \/ SentToAll(w) \/ Post(w) \/ Record(w) \/ Reset(w)

Outside ==
  /\ changes < MaxChanges
  /\ changes' = changes + 1
  /\ \/ \E e \in Events, to \in Orgs \cup {Hidden, Deleted} : ApiChange(e, to)
     \/ \E t \in Targets, f \in Followers : Follow(t, f) \/ Undo(t, f)
     \/ \E f \in Followers : Purge(f)
     \/ \E o \in Orgs : LoseActor(o)

Next == PollStep \/ (\E w \in Workers : WorkerStep(w)) \/ Elapse \/ Outside \/ Restart
Spec == Init /\ [][Next]_vars

\* The ticker fires for ever and the poll runs on; a wait ends; the API does
\* not fail every poll from some time on.  Nothing is assumed of inboxes.
Fairness == WF_vars(PollStep) /\ WF_vars(Elapse) /\ SF_vars(Fetch)
FairSpec == Spec /\ Fairness

-----------------------------------------------------------------------------
(* Properties.                                                             *)

\* The tables, the processes and the counters hold what their types say.
TypeOK ==
  /\ event \in [Events -> Orgs \cup {Hidden, Deleted}]
  /\ lost \subseteq Orgs
  /\ delivered \in [Events -> [Targets \cup {Ping} -> {"no", "yes", "moved"}]]
  /\ failures \subseteq Failure
  /\ fails \in [Targets -> [Followers -> -1..(MaxFailures - 1)]]
  /\ job \in [Procs -> Job]
  /\ batch \subseteq Failure /\ listing \subseteq Snapshot
  /\ {fresh, edits, changes, restarts} \subseteq Nat
  /\ promised \subseteq Events \X Targets \X Followers
  /\ {got, unheard} \subseteq [Events -> [Targets -> [Followers -> Nat]]]
  /\ settled \subseteq Events \X Targets \X Followers
  /\ streak \in [Targets -> [Followers -> Nat]]
  /\ overtaken \in BOOLEAN
  /\ home \in [Events -> Orgs \cup {Hidden}]

\* A delivery marked done leaves nobody out, across crashes and races: each
\* follower it listed has the announcement, has it waiting in
\* delivery_failures, was given up after every attempt, or was erased.
NothingForgotten ==
  \A e \in Events, t \in Targets, f \in Followers : <<e, t, f>> \in promised \ settled =>
    \/ got[e][t][f] > 0
    \/ \E r \in failures : Announces(r.act) /\ r.act.event = e /\ r.org = t /\ r.to = f

\* An inbox accepts an event's announcement once more only for a cause of its
\* own: an acceptance the sender did not hear of, which is retried, a restart,
\* which delivers again what is not marked, or a save in the pages, which
\* starts the Create of a transfer.  Each explains one.
DuplicatesExplained ==
  \A e \in Events, t \in Targets, f \in Followers :
    got[e][t][f] <= 1 + restarts + edits + unheard[e][t][f]

\* The DELETE of a dead inbox meets no live follower but one that was reached,
\* or that followed again, since the UPDATE before it: any other has failed
\* MaxFailures times over with no success recorded since it followed.
DroppedOnlyWhenDead ==
  \A t \in Targets, f \in Followers :
    Dropping(t, f) /\ fails[t][f] >= 0 /\ ~overtaken => streak[t][f] >= MaxFailures

\* No failure row stays for ever, whatever the inbox does and whether or not
\* the organisation's actor still loads (#1440).
FailuresResolved ==
  \A t \in Targets, f \in Followers :
    (\E r \in failures : r.org = t /\ r.to = f) ~> ~(\E r \in failures : r.org = t /\ r.to = f)

\* An event that stays on the API's first page, under an organisation whose
\* actor loads, is delivered to its followers in the end, however the polls
\* and the process fail on the way.
EventuallyDelivered ==
  \A e \in Events, o \in Orgs :
    <>[](event[e] = o /\ o \notin lost /\ OnPage(e)) => <>(delivered[e][o] # "no")

\* An edit is sent as a plain Update only while the event stays with the
\* organisation it was last marked delivered to: a move is announced as one.
TransferAnnounced ==
  [][\A w \in Workers :
       (job[w].at = "history" /\ job'[w].at = "deliver" /\ job'[w].act.kind = "Update")
         => home[job[w].event] \in {Hidden, job[w].org}]_vars
=============================================================================
