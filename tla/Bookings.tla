------------------------------ MODULE Bookings ------------------------------
(***************************************************************************)
(* The ticket lifecycle of cmd/dansal/bookings.go: the rows one address    *)
(* makes for one event, the HTTP handlers that move them, the hourly       *)
(* retention sweep, and the event edits they race with.                    *)
(*                                                                         *)
(* The server runs every request in a goroutine of its own over one        *)
(* SQLite database.  A single SQL statement is atomic; a handler is not.   *)
(* So each handler is cut at the statements that another request can fall  *)
(* between: a request record in req[h] says which statement comes next and *)
(* holds what the handler has read so far.                                 *)
(***************************************************************************)
EXTENDS Integers, FiniteSets

CONSTANTS
  Bookings,      \* row ids the AUTOINCREMENT column can still hand out
  Handlers,      \* concurrently running requests
  MaxOpen,       \* max_open_tokens_per_address
  VerifySpan,    \* VerificationExpiryHours
  Retention,     \* DataRetentionDays
  Opening,       \* the event's length plus CheckinOpensBeforeMinutes
  Grace,         \* CheckinClosesAfterMinutes
  FirstEvent,    \* the event row as first published
  Puts,          \* full event rows an organiser may PUT
  Patches,       \* partial rows an organiser may PATCH
  LastBooking,   \* bound: nothing is booked after this time
  MaxTime,       \* bound: the clock stops here
  MaxRestarts,   \* bound: process restarts per behaviour
  NoQR           \* a NULL qr_token

Availabilities == {"", "limited", "sold_out"}

EventRow == [exists : BOOLEAN, enabled : BOOLEAN, total : Nat,
             avail : Availabilities, end : Nat]

\* A bookings row.  A ticket's QR token is named after the request that drew
\* it: a booking is confirmed at most once, so the name is fresh for its row.
\* "none" and "deleted" stand for a row not inserted yet and one deleted.
Row ==
  [status : {"none", "pending", "checked_in", "deleted"}, qr : {NoQR}, expires : Nat]
    \cup [status : {"confirmed"}, qr : Handlers, expires : Nat]
    \cup [status : {"approved", "cancelled"}, qr : Handlers \cup {NoQR}, expires : Nat]

Request ==
  {[at |-> "idle"], [at |-> "insert"], [at |-> "recount"]}
    \cup [at : {"drop_expired", "admit", "delete"}, b : Bookings]
    \cup [at : {"confirm"}, b : Bookings, horizon : Nat]
    \cup [at : {"set_status"}, b : Bookings, to : {"approved", "cancelled"}]
    \cup [at : {"publish"}, avail : Availabilities]
    \cup [at : {"write_patch"}, row : EventRow]

Sweeper == {[at |-> "idle"]} \cup [at : {"retention"}, now : Nat]

ASSUME BookingsAssumption ==
  /\ IsFiniteSet(Bookings) /\ IsFiniteSet(Handlers)
  /\ NoQR \notin Handlers
  /\ MaxOpen \in Nat \ {0}
  /\ {VerifySpan, Retention, Opening, Grace, LastBooking, MaxTime, MaxRestarts}
       \subseteq Nat
  /\ FirstEvent \in EventRow /\ FirstEvent.exists
  /\ Puts \subseteq EventRow /\ \A p \in Puts : p.exists
  /\ \A p \in Patches :
       /\ DOMAIN p \subseteq {"enabled", "total", "avail", "end"}
       /\ "enabled" \in DOMAIN p => p["enabled"] \in BOOLEAN
       /\ "total" \in DOMAIN p => p["total"] \in Nat
       /\ "avail" \in DOMAIN p => p["avail"] \in Availabilities
       /\ "end" \in DOMAIN p => p["end"] \in Nat

VARIABLES
  event,      \* the columns of the event row that bookings read or write
  rows,       \* rows[b]: the bookings table; "none" is not yet inserted
  now,        \* the wall clock
  req,        \* req[h]: the statement request h executes next
  sweeper,    \* the ticker goroutine of startTokenCleanup
  tickets,    \* tickets[b]: the QR tokens handed to the guest so far
  admitted,   \* admitted[b]: how often a scan of b was answered "welcome"
  restored,   \* restored[b]: how often staff re-opened b after its check-in
  drift,      \* something the newest count of seats does not cover has happened
  restarts    \* process restarts so far

vars == <<event, rows, now, req, sweeper, tickets, admitted, restored, drift, restarts>>
history == <<tickets, admitted, restored>>
ghosts == <<tickets, admitted, restored, drift>>

Idle == [at |-> "idle"]

Live(b) == rows[b].status \notin {"none", "deleted"}
OpenPending == {b \in Bookings : rows[b].status = "pending" /\ rows[b].expires > now}
Seated == {b \in Bookings : rows[b].status \in {"approved", "checked_in"}}

\* No request is inside updateEventAvailability.
Settled == \A h \in Handlers : req[h].at \notin {"recount", "publish"}

\* The value updateEventAvailability computes; it counts rows, not persons.
AvailabilityOf(count, total) ==
  IF count >= total THEN "sold_out"
  ELSE IF 2 * count >= total THEN "limited" ELSE ""

\* bookingLongExpiry: the retention horizon of a row confirmed now.
Horizon == (IF event.exists THEN event.end ELSE now) + Retention

\* The fields a PATCH request gives, laid over the row it read.
Overlay(row, patch) ==
  [f \in DOMAIN row |-> IF f \in DOMAIN patch THEN patch[f] ELSE row[f]]

Goto(h, r) == req' = [req EXCEPT ![h] = r]
SetRow(b, r) == rows' = [rows EXCEPT ![b] = r]
Gone == [status |-> "deleted", qr |-> NoQR, expires |-> 0]

\* What the newest count does not cover: a seat moved while another request
\* holds an older count to publish; a seat lost without a recount; an edit of
\* the event that writes its capacity or its availability.
Holding(h) == \E k \in Handlers \ {h} : req[k].at = "publish"
Unseat == drift' = (drift \/ Seated' # Seated)
Overtake(h) == drift' = (drift \/ (Seated' # Seated /\ Holding(h)))
Rewrite ==
  drift' = (drift \/ event'.total # event.total \/ event'.avail # event.avail)

\* The organiser gave an availability of his own when he published the event.
Preset == FirstEvent.avail # ""

Init ==
  /\ event = FirstEvent
  /\ rows = [b \in Bookings |-> [status |-> "none", qr |-> NoQR, expires |-> 0]]
  /\ now = 0
  /\ req = [h \in Handlers |-> Idle]
  /\ sweeper = Idle
  /\ tickets = [b \in Bookings |-> {}]
  /\ admitted = [b \in Bookings |-> 0]
  /\ restored = [b \in Bookings |-> 0]
  /\ drift = Preset
  /\ restarts = 0

-----------------------------------------------------------------------------
(* POST /api/v1/events/{id}/bookings                                       *)

\* createBooking checks the event and counts the address's open requests.
CheckBelow(h, limit) ==
  /\ req[h] = Idle
  /\ event.exists /\ event.enabled
  /\ Cardinality(OpenPending) < limit
  /\ Goto(h, [at |-> "insert"])
  /\ UNCHANGED <<event, rows, now, sweeper, restarts, ghosts>>

CreateCheckOffByOne(h) == CheckBelow(h, MaxOpen + 1)
CreateCheck(h) == CheckBelow(h, MaxOpen)

\* The INSERT; the foreign key refuses it when the event has gone meanwhile.
\* (LastBooking bounds it, so that a run ends with every horizon passed.)
InsertRow(h, qr) ==
  /\ req[h].at = "insert"
  /\ now <= LastBooking
  /\ Goto(h, Idle)
  /\ IF event.exists
     THEN \E b \in Bookings :
            /\ rows[b].status = "none"
            /\ SetRow(b, [status |-> "pending", qr |-> qr,
                          expires |-> now + VerifySpan])
     ELSE UNCHANGED rows
  /\ UNCHANGED <<event, now, sweeper, restarts, ghosts>>

CreateInsertWithTicket(h) == InsertRow(h, h)
CreateInsert(h) == InsertRow(h, NoQR)

-----------------------------------------------------------------------------
(* GET or POST /api/v1/bookings/verify                                     *)

\* The SELECT on verify_token: found only while the row is pending.
VerifySelect(h, b) ==
  /\ req[h] = Idle
  /\ rows[b].status = "pending"
  /\ Goto(h, IF now > rows[b].expires
             THEN [at |-> "drop_expired", b |-> b]
             ELSE [at |-> "confirm", b |-> b, horizon |-> Horizon])
  /\ UNCHANGED <<event, rows, now, sweeper, restarts, ghosts>>

\* An expired link deletes its row, by id alone.
VerifyDropExpired(h) ==
  /\ req[h].at = "drop_expired"
  /\ IF Live(req[h].b) THEN SetRow(req[h].b, Gone) ELSE UNCHANGED rows
  /\ Goto(h, Idle)
  /\ Unseat
  /\ UNCHANGED <<event, now, sweeper, restarts, history>>

\* The compare-and-set UPDATE ... WHERE id=? AND status='pending' (#1397).
\* Its winner answers with the QR token; a loser answers 404.
ConfirmIn(h, statuses, expires) ==
  /\ req[h].at = "confirm"
  /\ LET b == req[h].b IN
       IF rows[b].status \in statuses
       THEN /\ SetRow(b, [status |-> "confirmed", qr |-> h, expires |-> expires])
            /\ tickets' = [tickets EXCEPT ![b] = @ \cup {h}]
       ELSE UNCHANGED <<rows, tickets>>
  /\ Goto(h, Idle)
  /\ UNCHANGED <<event, now, sweeper, restarts, admitted, restored, drift>>

VerifyConfirmBlind(h) == ConfirmIn(h, {"pending", "confirmed"}, req[h].horizon)
VerifyConfirmKeepsExpiry(h) == ConfirmIn(h, {"pending"}, rows[req[h].b].expires)
VerifyConfirm(h) == ConfirmIn(h, {"pending"}, req[h].horizon)

-----------------------------------------------------------------------------
(* PATCH /api/v1/bookings/{id}/status                                      *)

\* bookingAuthCheck finds the row; any status may be approved or cancelled.
StatusCheck(h, b, to) ==
  /\ req[h] = Idle
  /\ Live(b)
  /\ Goto(h, [at |-> "set_status", b |-> b, to |-> to])
  /\ UNCHANGED <<event, rows, now, sweeper, restarts, ghosts>>

\* UPDATE bookings SET status=? WHERE id=?, whatever the status was.
SetStatus(h, qr) ==
  /\ req[h].at = "set_status"
  /\ LET b == req[h].b IN
       IF Live(b)
       THEN /\ SetRow(b, [rows[b] EXCEPT !.status = req[h].to, !.qr = qr])
            /\ restored' = IF rows[b].status = "checked_in"
                           THEN [restored EXCEPT ![b] = @ + 1] ELSE restored
            /\ Goto(h, [at |-> "recount"])
       ELSE /\ Goto(h, Idle)
            /\ UNCHANGED <<rows, restored>>
  /\ Overtake(h)
  /\ UNCHANGED <<event, now, sweeper, restarts, tickets, admitted>>

StatusUpdateReissues(h) == SetStatus(h, h)
StatusUpdate(h) == SetStatus(h, rows[req[h].b].qr)

-----------------------------------------------------------------------------
(* GET /api/v1/bookings/checkin/{qr_token}                                 *)

\* The SELECT by QR token and the checks on what it returned: the row's
\* status and the check-in window around the event.
ScanSelect(h, b) ==
  /\ req[h] = Idle
  /\ rows[b].qr \in tickets[b]
  /\ rows[b].status \in {"confirmed", "approved"}
  /\ event.end - Opening <= now /\ now <= event.end + Grace
  /\ Goto(h, [at |-> "admit", b |-> b])
  /\ UNCHANGED <<event, rows, now, sweeper, restarts, ghosts>>

\* The compare-and-set UPDATE on the status, which also drops the token
\* (#1396).  A scan that finds the status moved on answers 409.
AdmitIn(h, statuses) ==
  /\ req[h].at = "admit"
  /\ LET b == req[h].b IN
       IF rows[b].status \in statuses
       THEN /\ SetRow(b, [rows[b] EXCEPT !.status = "checked_in", !.qr = NoQR])
            /\ admitted' = [admitted EXCEPT ![b] = @ + 1]
            /\ Goto(h, [at |-> "recount"])
       ELSE /\ Goto(h, Idle)
            /\ UNCHANGED <<rows, admitted>>
  /\ Overtake(h)
  /\ UNCHANGED <<event, now, sweeper, restarts, tickets, restored>>

ScanAdmitBlind(h) == AdmitIn(h, {"confirmed", "approved", "checked_in"})
ScanAdmit(h) == AdmitIn(h, {"confirmed", "approved"})

-----------------------------------------------------------------------------
(* DELETE /api/v1/bookings/{id}                                            *)

DeleteCheck(h, b) ==
  /\ req[h] = Idle
  /\ Live(b)
  /\ Goto(h, [at |-> "delete", b |-> b])
  /\ UNCHANGED <<event, rows, now, sweeper, restarts, ghosts>>

DeleteThen(h, next) ==
  /\ req[h].at = "delete"
  /\ IF Live(req[h].b) THEN SetRow(req[h].b, Gone) ELSE UNCHANGED rows
  /\ Goto(h, next)
  /\ Overtake(h)
  /\ UNCHANGED <<event, now, sweeper, restarts, history>>

DeleteRowOnly(h) == DeleteThen(h, Idle)
DeleteRow(h) == DeleteThen(h, [at |-> "recount"])

-----------------------------------------------------------------------------
(* updateEventAvailability, the tail of PATCH status, check-in and DELETE   *)

\* It reads tickets_total and the count, and returns when no capacity is set.
Recount(h) ==
  /\ req[h].at = "recount"
  /\ Goto(h, IF event.exists /\ event.total > 0
             THEN [at |-> "publish",
                   avail |-> AvailabilityOf(Cardinality(Seated), event.total)]
             ELSE Idle)
  /\ drift' = (Holding(h) \/ (drift /\ event.total = 0))
  /\ UNCHANGED <<event, rows, now, sweeper, restarts, history>>

\* It writes what it computed from the earlier read.
PublishAvailability(h) ==
  /\ req[h].at = "publish"
  /\ event' = IF event.exists THEN [event EXCEPT !.avail = req[h].avail] ELSE event
  /\ Goto(h, Idle)
  /\ UNCHANGED <<rows, now, sweeper, restarts, ghosts>>

-----------------------------------------------------------------------------
(* The organiser's side: PUT, PATCH and DELETE /api/v1/events/{id}         *)

\* PUT replaces every column, the computed availability included.
PutEvent(row) ==
  /\ event.exists
  /\ event' = row
  /\ Rewrite
  /\ UNCHANGED <<rows, now, req, sweeper, restarts, history>>

\* PATCH reads the row and lays the given fields over it ...
PatchRead(h, patch) ==
  /\ req[h] = Idle
  /\ event.exists
  /\ Goto(h, [at |-> "write_patch", row |-> Overlay(event, patch)])
  /\ UNCHANGED <<event, rows, now, sweeper, restarts, ghosts>>

\* ... and later writes every column back.
PatchWrite(h) ==
  /\ req[h].at = "write_patch"
  /\ event' = IF event.exists THEN req[h].row ELSE event
  /\ Goto(h, Idle)
  /\ Rewrite
  /\ UNCHANGED <<rows, now, sweeper, restarts, history>>

\* ON DELETE CASCADE takes the bookings along.
DeleteEvent ==
  /\ event.exists
  /\ event' = [event EXCEPT !.exists = FALSE]
  /\ rows' = [b \in Bookings |-> IF Live(b) THEN Gone ELSE rows[b]]
  /\ UNCHANGED <<now, req, sweeper, restarts, ghosts>>

-----------------------------------------------------------------------------
(* The hourly ticker, the clock, and the end of the process                *)

Sweep(doomed) == rows' = [b \in Bookings |-> IF b \in doomed THEN Gone ELSE rows[b]]

\* DELETE ... WHERE status='pending' AND expires_at < now.
SweepPending ==
  /\ sweeper = Idle
  /\ Sweep({b \in Bookings : rows[b].status = "pending" /\ rows[b].expires < now})
  /\ sweeper' = [at |-> "retention", now |-> now]
  /\ UNCHANGED <<event, now, req, restarts, ghosts>>

\* sweepRetentionData: the same for every other status, with the tick's now.
SweepFinished(kept) ==
  /\ sweeper.at = "retention"
  /\ Sweep({b \in Bookings : /\ Live(b) /\ rows[b].status \notin kept
                             /\ rows[b].expires < sweeper.now})
  /\ sweeper' = Idle
  /\ Unseat
  /\ UNCHANGED <<event, now, req, restarts, history>>

SweepRetentionLive == SweepFinished({"pending", "cancelled"})
SweepRetention == SweepFinished({"pending"})

Tick ==
  /\ now < MaxTime
  /\ now' = now + 1
  /\ UNCHANGED <<event, rows, req, sweeper, restarts, ghosts>>

\* A restart keeps the database and loses every request in flight.
Restart ==
  /\ restarts < MaxRestarts
  /\ restarts' = restarts + 1
  /\ req' = [h \in Handlers |-> Idle]
  /\ sweeper' = Idle
  /\ drift' = (drift \/ ~Settled)
  /\ UNCHANGED <<event, rows, now, history>>

-----------------------------------------------------------------------------
Handler(h) ==
  \/ CreateCheck(h) \/ CreateInsert(h)
  \/ \E b \in Bookings :
       \/ VerifySelect(h, b) \/ ScanSelect(h, b) \/ DeleteCheck(h, b)
       \/ \E to \in {"approved", "cancelled"} : StatusCheck(h, b, to)
  \/ VerifyDropExpired(h) \/ VerifyConfirm(h) \/ StatusUpdate(h)
  \/ ScanAdmit(h) \/ DeleteRow(h) \/ Recount(h) \/ PublishAvailability(h)
  \/ \E patch \in Patches : PatchRead(h, patch)
  \/ PatchWrite(h)

Next ==
  \/ \E h \in Handlers : Handler(h)
  \/ \E row \in Puts : PutEvent(row)
  \/ DeleteEvent
  \/ SweepPending \/ SweepRetention \/ Tick \/ Restart

Spec == Init /\ [][Next]_vars

\* The clock advances and the ticker goroutine keeps being scheduled; no
\* client is obliged to send a request or to see one through.
Fairness == WF_vars(Tick) /\ WF_vars(SweepPending) /\ WF_vars(SweepRetention)
FairSpec == Spec /\ Fairness

-----------------------------------------------------------------------------
(* Properties                                                              *)

TypeOK ==
  /\ event \in EventRow
  /\ rows \in [Bookings -> Row]
  /\ now \in Nat
  /\ req \in [Handlers -> Request]
  /\ sweeper \in Sweeper
  /\ tickets \in [Bookings -> SUBSET Handlers]
  /\ admitted \in [Bookings -> Nat]
  /\ restored \in [Bookings -> Nat]
  /\ drift \in BOOLEAN
  /\ restarts \in Nat

\* However many times the verify link is opened at once, the guest is handed
\* one QR token, and it is the one the database still knows (#1397).
OneTicket ==
  \A b \in Bookings :
    /\ \A s, t \in tickets[b] : s = t
    /\ rows[b].qr # NoQR => tickets[b] = {rows[b].qr}

\* A booking is admitted at most once for its ticket and once more for every
\* time staff re-opened it after a check-in: no scan is answered "welcome"
\* twice by racing scans alone (#1396).
AdmissionsAccounted ==
  \A b \in Bookings : admitted[b] <= 1 + restored[b]

\* The count-then-insert of createBooking can overshoot the per-address limit,
\* but only by the other requests that were in flight at the same time.
OpenPendingBound ==
  Cardinality(OpenPending) <= MaxOpen + Cardinality(Handlers) - 1

\* A ticket used at the door stays used: once the token was dropped, no
\* verification, approval or edit brings it or another one back.
SpentTicketStaysSpent ==
  [][\A b \in Bookings :
       tickets[b] # {} /\ rows[b].qr = NoQR => rows'[b].qr = NoQR]_vars

\* While nobody edits the event, a guest who verified the booking is kept by
\* the hourly sweep until the event is over for the whole retention period,
\* whatever staff did to the status in between.
VerifiedRetained ==
  [][SweepPending \/ SweepRetention =>
       \A b \in Bookings :
         tickets[b] # {} /\ Live(b) /\ ~Live(b)' => event.end + Retention < now]_vars

\* Personal data does not stay: every booking row is deleted in the end, by
\* one of the two sweeps at the latest (#1440).
EventuallyErased == \A b \in Bookings : Live(b) ~> ~Live(b)

\* The claim of #1396 that a photographed ticket cannot be replayed: one
\* booking, one admission.
AdmittedOnce == \A b \in Bookings : admitted[b] <= 1

\* Once no recount is under way, the availability shown is the one that follows
\* from the seated bookings, however many requests moved seats at once: unless,
\* since the newest count, a request published one that a seat had outdated, an
\* organiser's form wrote total or availability, a restart cut a recount short,
\* the sweep took a seat, or an expired verify link deleted a row approved
\* meanwhile.  No other order of steps leaves it behind.
AvailabilityExplained ==
  (event.exists /\ event.total > 0 /\ Settled /\ ~drift)
    => event.avail = AvailabilityOf(Cardinality(Seated), event.total)

\* The retention promise: the sweep takes a booking that is no longer pending
\* only once the event ended more than data_retention_days ago.
RetentionHonoured ==
  [][SweepRetention =>
       \A b \in Bookings : Live(b) /\ ~Live(b)' => event.end + Retention < now]_vars

-----------------------------------------------------------------------------
(* The bookings as a ticket office                                         *)

TicketOf(b) ==
  CASE rows[b].status = "deleted" -> "gone"
    [] rows[b].status # "deleted" /\ tickets[b] = {} -> "none"
    [] rows[b].status # "deleted" /\ tickets[b] # {} /\ rows[b].qr = NoQR -> "spent"
    [] OTHER -> "valid"

Office == INSTANCE TicketOffice WITH
  Guests <- Bookings,
  ticket <- [b \in Bookings |-> TicketOf(b)],
  inside <- [b \in Bookings |-> rows[b].status = "checked_in"],
  admissions <- admitted

\* Whatever requests, sweeps, edits and restarts interleave, the bookings keep the
\* promises of TicketOffice: every step issues one first ticket, admits one guest
\* who is not inside, re-opens one, erases some, or none of these.
ImplementsTicketOffice == Office!OfficeSpec
=============================================================================
