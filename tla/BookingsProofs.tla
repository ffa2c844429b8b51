--------------------------- MODULE BookingsProofs ---------------------------
(* Machine-checked proofs about Bookings, for every value of its constants: *)
(* tickets and admissions, the limit of open requests, retention, the       *)
(* availability shown, and the refinement of TicketOffice.                  *)
EXTENDS Bookings, FiniteSetTheorems, TLAPS

\* The tests on a request's program counter that the handlers' guards make.
LEMMA RequestShapes ==
  ASSUME NEW r \in Request
  PROVE  /\ r.at \in {"drop_expired", "admit", "delete"} => r.b \in Bookings
         /\ r.at = "confirm" => r.b \in Bookings /\ r.horizon \in Nat
         /\ r.at = "set_status" => r.b \in Bookings /\ r.to \in {"approved", "cancelled"}
         /\ r.at = "publish" => r.avail \in Availabilities
         /\ r.at = "write_patch" => r.row \in EventRow
  BY DEF Request

LEMMA RowShapes ==
  ASSUME NEW r \in Row
  PROVE  /\ r = [status |-> r.status, qr |-> r.qr, expires |-> r.expires]
         /\ r.expires \in Nat
         /\ r.qr \in Handlers \cup {NoQR}
         /\ r.status \in {"none", "pending", "confirmed", "approved", "checked_in",
                          "cancelled", "deleted"}
  BY DEF Row

\* The requests the handlers leave behind are requests.
LEMMA RequestForms ==
  ASSUME NEW b \in Bookings
  PROVE  /\ Idle \in Request
         /\ [at |-> "insert"] \in Request
         /\ [at |-> "recount"] \in Request
         /\ [at |-> "drop_expired", b |-> b] \in Request
         /\ [at |-> "admit", b |-> b] \in Request
         /\ [at |-> "delete", b |-> b] \in Request
         /\ \A n \in Nat : [at |-> "confirm", b |-> b, horizon |-> n] \in Request
         /\ \A to \in {"approved", "cancelled"} :
              [at |-> "set_status", b |-> b, to |-> to] \in Request
         /\ \A a \in Availabilities : [at |-> "publish", avail |-> a] \in Request
         /\ \A ev \in EventRow : [at |-> "write_patch", row |-> ev] \in Request
  BY DEF Request, Idle

LEMMA SimpleForms ==
  /\ Idle \in Request
  /\ [at |-> "insert"] \in Request
  /\ [at |-> "recount"] \in Request
  /\ \A a \in Availabilities : [at |-> "publish", avail |-> a] \in Request
  /\ \A ev \in EventRow : [at |-> "write_patch", row |-> ev] \in Request
  BY DEF Request, Idle

LEMMA GotoType ==
  ASSUME NEW h \in Handlers, NEW r \in Request, req \in [Handlers -> Request], Goto(h, r)
  PROVE  req' \in [Handlers -> Request]
  BY DEF Goto

LEMMA SetRowType ==
  ASSUME NEW b \in Bookings, NEW r \in Row, rows \in [Bookings -> Row], SetRow(b, r)
  PROVE  rows' \in [Bookings -> Row]
  BY DEF SetRow

LEMMA GoneType == Gone \in Row
  BY DEF Gone, Row

LEMMA SweepType ==
  ASSUME NEW doomed, rows \in [Bookings -> Row], Sweep(doomed)
  PROVE  rows' \in [Bookings -> Row]
  BY GoneType DEF Sweep

\* The organiser's patch keeps the event row well-typed.
LEMMA OverlayType ==
  ASSUME NEW ev \in EventRow, NEW p \in Patches
  PROVE  Overlay(ev, p) \in EventRow
<1>1. DOMAIN ev = {"exists", "enabled", "total", "avail", "end"}
  BY DEF EventRow
<1>2. /\ ev["exists"] \in BOOLEAN
      /\ ev["enabled"] \in BOOLEAN
      /\ ev["total"] \in Nat
      /\ ev["avail"] \in Availabilities
      /\ ev["end"] \in Nat
  BY DEF EventRow
<1>. QED  BY <1>1, <1>2, BookingsAssumption DEF Overlay, EventRow

LEMMA HorizonType ==
  ASSUME TypeOK
  PROVE  Horizon \in Nat
  BY BookingsAssumption DEF TypeOK, Horizon, EventRow

LEMMA AvailabilityType ==
  ASSUME NEW n, NEW t
  PROVE  AvailabilityOf(n, t) \in Availabilities
  BY DEF AvailabilityOf, Availabilities

-----------------------------------------------------------------------------
(* Type correctness                                                        *)

LEMMA StepType ==
  ASSUME TypeOK, [Next]_vars
  PROVE  TypeOK'
<1>. USE DEF TypeOK, history, Unseat, Overtake, Rewrite
<1>1. ASSUME NEW h \in Handlers, CreateCheck(h)
      PROVE TypeOK'
  BY <1>1, SimpleForms, GotoType DEF CreateCheck, CheckBelow, ghosts
<1>2. ASSUME NEW h \in Handlers, CreateInsert(h)
      PROVE TypeOK'
  <2>1. \A n \in Nat : [status |-> "pending", qr |-> NoQR, expires |-> n] \in Row
    BY DEF Row
  <2>2. req' \in [Handlers -> Request]
    BY <1>2, SimpleForms, GotoType DEF CreateInsert, InsertRow
  <2>3. now + VerifySpan \in Nat
    BY BookingsAssumption
  <2>4. rows' \in [Bookings -> Row]
    BY <1>2, <2>1, <2>3, SetRowType DEF CreateInsert, InsertRow
  <2>. QED  BY <1>2, <2>2, <2>4 DEF CreateInsert, InsertRow, ghosts
<1>3. ASSUME NEW h \in Handlers, NEW b \in Bookings, VerifySelect(h, b)
      PROVE TypeOK'
  BY <1>3, RequestForms, HorizonType, GotoType DEF VerifySelect, ghosts
<1>4. ASSUME NEW h \in Handlers, NEW b \in Bookings, ScanSelect(h, b)
      PROVE TypeOK'
  BY <1>4, RequestForms, GotoType DEF ScanSelect, ghosts
<1>5. ASSUME NEW h \in Handlers, NEW b \in Bookings, DeleteCheck(h, b)
      PROVE TypeOK'
  BY <1>5, RequestForms, GotoType DEF DeleteCheck, ghosts
<1>6. ASSUME NEW h \in Handlers, NEW b \in Bookings,
             NEW to \in {"approved", "cancelled"}, StatusCheck(h, b, to)
      PROVE TypeOK'
  BY <1>6, RequestForms, GotoType DEF StatusCheck, ghosts
<1>7. ASSUME NEW h \in Handlers, VerifyDropExpired(h)
      PROVE TypeOK'
  <2>1. req[h].b \in Bookings
    BY <1>7, RequestShapes DEF VerifyDropExpired
  <2>2. rows' \in [Bookings -> Row]
    BY <1>7, <2>1, GoneType, SetRowType DEF VerifyDropExpired
  <2>3. req' \in [Handlers -> Request]
    BY <1>7, SimpleForms, GotoType DEF VerifyDropExpired
  <2>. QED  BY <1>7, <2>2, <2>3 DEF VerifyDropExpired, ghosts
<1>8. ASSUME NEW h \in Handlers, VerifyConfirm(h)
      PROVE TypeOK'
  <2>1. req[h].b \in Bookings /\ req[h].horizon \in Nat
    BY <1>8, RequestShapes DEF VerifyConfirm, ConfirmIn
  <2>2. [status |-> "confirmed", qr |-> h, expires |-> req[h].horizon] \in Row
    BY <2>1 DEF Row
  <2>3. rows' \in [Bookings -> Row] /\ tickets' \in [Bookings -> SUBSET Handlers]
    BY <1>8, <2>1, <2>2, SetRowType DEF VerifyConfirm, ConfirmIn
  <2>4. req' \in [Handlers -> Request]
    BY <1>8, SimpleForms, GotoType DEF VerifyConfirm, ConfirmIn
  <2>. QED  BY <1>8, <2>3, <2>4 DEF VerifyConfirm, ConfirmIn
<1>9. ASSUME NEW h \in Handlers, StatusUpdate(h)
      PROVE TypeOK'
  <2>1. req[h].b \in Bookings /\ req[h].to \in {"approved", "cancelled"}
    BY <1>9, RequestShapes DEF StatusUpdate, SetStatus
  <2>2. [rows[req[h].b] EXCEPT !.status = req[h].to, !.qr = rows[req[h].b].qr] \in Row
    BY <2>1 DEF Row
  <2>3. rows' \in [Bookings -> Row] /\ restored' \in [Bookings -> Nat]
    BY <1>9, <2>1, <2>2, SetRowType DEF StatusUpdate, SetStatus
  <2>4. req' \in [Handlers -> Request]
    BY <1>9, SimpleForms, GotoType DEF StatusUpdate, SetStatus
  <2>. QED  BY <1>9, <2>3, <2>4 DEF StatusUpdate, SetStatus
<1>10. ASSUME NEW h \in Handlers, ScanAdmit(h)
       PROVE TypeOK'
  <2>1. req[h].b \in Bookings
    BY <1>10, RequestShapes DEF ScanAdmit, AdmitIn
  <2>2. [rows[req[h].b] EXCEPT !.status = "checked_in", !.qr = NoQR] \in Row
    BY <2>1 DEF Row
  <2>3. rows' \in [Bookings -> Row] /\ admitted' \in [Bookings -> Nat]
    BY <1>10, <2>1, <2>2, SetRowType DEF ScanAdmit, AdmitIn
  <2>4. req' \in [Handlers -> Request]
    BY <1>10, SimpleForms, GotoType DEF ScanAdmit, AdmitIn
  <2>. QED  BY <1>10, <2>3, <2>4 DEF ScanAdmit, AdmitIn
<1>11. ASSUME NEW h \in Handlers, DeleteRow(h)
       PROVE TypeOK'
  <2>1. req[h].b \in Bookings
    BY <1>11, RequestShapes DEF DeleteRow, DeleteThen
  <2>2. rows' \in [Bookings -> Row]
    BY <1>11, <2>1, GoneType, SetRowType DEF DeleteRow, DeleteThen
  <2>3. req' \in [Handlers -> Request]
    BY <1>11, SimpleForms, GotoType DEF DeleteRow, DeleteThen
  <2>. QED  BY <1>11, <2>2, <2>3 DEF DeleteRow, DeleteThen, ghosts
<1>12. ASSUME NEW h \in Handlers, Recount(h)
       PROVE TypeOK'
  BY <1>12, SimpleForms, AvailabilityType, GotoType DEF Recount, ghosts
<1>13. ASSUME NEW h \in Handlers, PublishAvailability(h)
       PROVE TypeOK'
  <2>1. req[h].avail \in Availabilities
    BY <1>13, RequestShapes DEF PublishAvailability
  <2>2. event' \in EventRow
    BY <1>13, <2>1 DEF PublishAvailability, EventRow
  <2>3. req' \in [Handlers -> Request]
    BY <1>13, SimpleForms, GotoType DEF PublishAvailability
  <2>. QED  BY <1>13, <2>2, <2>3 DEF PublishAvailability, ghosts
<1>14. ASSUME NEW h \in Handlers, NEW patch \in Patches, PatchRead(h, patch)
       PROVE TypeOK'
  BY <1>14, SimpleForms, OverlayType, GotoType DEF PatchRead, ghosts
<1>15. ASSUME NEW h \in Handlers, PatchWrite(h)
       PROVE TypeOK'
  <2>1. req[h].row \in EventRow
    BY <1>15, RequestShapes DEF PatchWrite
  <2>2. req' \in [Handlers -> Request]
    BY <1>15, SimpleForms, GotoType DEF PatchWrite
  <2>. QED  BY <1>15, <2>1, <2>2 DEF PatchWrite, ghosts
<1>16. ASSUME NEW row \in Puts, PutEvent(row)
       PROVE TypeOK'
  BY <1>16, BookingsAssumption DEF PutEvent, ghosts
<1>17. CASE DeleteEvent
  BY <1>17, GoneType DEF DeleteEvent, EventRow, ghosts
<1>18. CASE SweepPending
  BY <1>18, SweepType DEF SweepPending, Sweeper, ghosts
<1>19. CASE SweepRetention
  BY <1>19, SweepType DEF SweepRetention, SweepFinished, Sweeper, Idle, ghosts
<1>20. CASE Tick
  BY <1>20 DEF Tick, ghosts
<1>21. CASE Restart
  BY <1>21, SimpleForms DEF Restart, Sweeper, Idle, ghosts
<1>22. CASE UNCHANGED vars
  BY <1>22 DEF vars
<1>. QED
  BY <1>1, <1>2, <1>3, <1>4, <1>5, <1>6, <1>7, <1>8, <1>9, <1>10, <1>11, <1>12,
     <1>13, <1>14, <1>15, <1>16, <1>17, <1>18, <1>19, <1>20, <1>21, <1>22
  DEF Next, Handler

LEMMA PresetType == Preset \in BOOLEAN
  BY Zenon DEF Preset

LEMMA InitType == Init => TypeOK
  BY BookingsAssumption, PresetType DEF Init, TypeOK, Row, Request, Sweeper, Idle

\* Every reachable state is well-typed; a row's status and its QR token agree:
\* a checked-in or unverified row holds no token (bookings.go:389, 539).
THEOREM TypeCorrect == Spec => []TypeOK
<1>1. Init => TypeOK
  BY InitType
<1>2. TypeOK /\ [Next]_vars => TypeOK'
  BY StepType
<1>. QED  BY <1>1, <1>2, PTL DEF Spec

-----------------------------------------------------------------------------
(* Tickets and admissions                                                  *)

\* Where in its life a booking has been handed a ticket or admitted a guest:
\* the strengthening that makes the safety properties inductive.
History(b) ==
  /\ rows[b].status \in {"none", "pending"} => tickets[b] = {}
  /\ \A s, t \in tickets[b] : s = t
  /\ rows[b].qr # NoQR => tickets[b] = {rows[b].qr}
  /\ admitted[b] <= 1 + restored[b]
  /\ rows[b].status \notin {"checked_in", "deleted"} => admitted[b] <= restored[b]

HistoryInv == \A b \in Bookings : History(b)

IInv == TypeOK /\ HistoryInv

LEMMA InitHistory == Init => HistoryInv
  BY BookingsAssumption DEF Init, HistoryInv, History

\* A step that touches no ghost and at most deletes the row, or inserts one
\* that has none, keeps the row's history.
LEMMA QuietKeepsHistory ==
  ASSUME TypeOK, NEW b \in Bookings, History(b), UNCHANGED history,
         \/ rows'[b] = rows[b]
         \/ rows'[b] = Gone
         \/ rows[b].status = "none" /\ rows'[b].status = "pending" /\ rows'[b].qr = NoQR
  PROVE  History(b)'
  BY DEF History, ghosts, history, Gone, TypeOK

LEMMA StepHistory ==
  ASSUME TypeOK, HistoryInv, [Next]_vars
  PROVE  HistoryInv'
<1>. SUFFICES ASSUME NEW b \in Bookings
              PROVE  History(b)'
  BY DEF HistoryInv
<1>. USE DEF HistoryInv
<1>1. ASSUME NEW h \in Handlers, CreateInsert(h)
      PROVE History(b)'
  <2>1. UNCHANGED history
    BY <1>1 DEF CreateInsert, InsertRow, ghosts, history
  <2>2. \/ rows'[b] = rows[b]
        \/ rows[b].status = "none" /\ rows'[b].status = "pending" /\ rows'[b].qr = NoQR
    BY <1>1 DEF CreateInsert, InsertRow, SetRow, TypeOK
  <2>. QED  BY <2>1, <2>2, QuietKeepsHistory
<1>2. ASSUME NEW h \in Handlers,
             \/ CreateCheck(h) \/ Recount(h) \/ PublishAvailability(h) \/ PatchWrite(h)
             \/ \E c \in Bookings :
                  \/ VerifySelect(h, c) \/ ScanSelect(h, c) \/ DeleteCheck(h, c)
                  \/ \E to \in {"approved", "cancelled"} : StatusCheck(h, c, to)
             \/ \E patch \in Patches : PatchRead(h, patch)
      PROVE History(b)'
  <2>1. UNCHANGED <<rows, history>>
    BY <1>2 DEF CreateCheck, CheckBelow, Recount, PublishAvailability, PatchWrite,
                VerifySelect, ScanSelect, DeleteCheck, StatusCheck, PatchRead,
                ghosts, history
  <2>. QED  BY <2>1, QuietKeepsHistory
<1>3. ASSUME NEW h \in Handlers, VerifyDropExpired(h) \/ DeleteRow(h)
      PROVE History(b)'
  <2>1. UNCHANGED history
    BY <1>3 DEF VerifyDropExpired, DeleteRow, DeleteThen, ghosts, history
  <2>2. rows'[b] = rows[b] \/ rows'[b] = Gone
    BY <1>3 DEF VerifyDropExpired, DeleteRow, DeleteThen, SetRow, TypeOK
  <2>. QED  BY <2>1, <2>2, QuietKeepsHistory
<1>4. ASSUME NEW h \in Handlers, VerifyConfirm(h)
      PROVE History(b)'
  <2>1. UNCHANGED <<admitted, restored>>
    BY <1>4 DEF VerifyConfirm, ConfirmIn
  <2>2. CASE req[h].b = b /\ rows[b].status = "pending"
    <3>1. /\ rows'[b] = [status |-> "confirmed", qr |-> h, expires |-> req[h].horizon]
          /\ tickets'[b] = tickets[b] \cup {h}
      BY <1>4, <2>2 DEF VerifyConfirm, ConfirmIn, SetRow, TypeOK
    <3>2. tickets[b] = {}
      BY <2>2 DEF History
    <3>. QED  BY <2>1, <2>2, <3>1, <3>2 DEF History
  <2>3. CASE ~(req[h].b = b /\ rows[b].status = "pending")
    <3>1. rows'[b] = rows[b] /\ tickets'[b] = tickets[b]
      BY <1>4, <2>3 DEF VerifyConfirm, ConfirmIn, SetRow, TypeOK
    <3>. QED  BY <2>1, <3>1 DEF History
  <2>. QED  BY <2>2, <2>3
<1>5. ASSUME NEW h \in Handlers, StatusUpdate(h)
      PROVE History(b)'
  <2>1. UNCHANGED <<tickets, admitted>>
    BY <1>5 DEF StatusUpdate, SetStatus
  <2>2. CASE req[h].b = b /\ Live(b)
    <3>1. /\ rows'[b] = [rows[b] EXCEPT !.status = req[h].to, !.qr = rows[b].qr]
          /\ restored'[b] = IF rows[b].status = "checked_in"
                            THEN restored[b] + 1 ELSE restored[b]
      BY <1>5, <2>2 DEF StatusUpdate, SetStatus, SetRow, TypeOK
    <3>2. req[h].to \in {"approved", "cancelled"}
      BY <1>5, RequestShapes DEF StatusUpdate, SetStatus, TypeOK
    <3>3. rows'[b].status = req[h].to /\ rows'[b].qr = rows[b].qr
      BY <3>1, RowShapes DEF TypeOK, Row
    <3>4. admitted[b] \in Nat /\ restored[b] \in Nat
      BY DEF TypeOK
    <3>. QED  BY <2>1, <2>2, <3>1, <3>2, <3>3, <3>4 DEF History, Live
  <2>3. CASE ~(req[h].b = b /\ Live(b))
    <3>1. rows'[b] = rows[b] /\ restored'[b] = restored[b]
      BY <1>5, <2>3 DEF StatusUpdate, SetStatus, SetRow, TypeOK
    <3>. QED  BY <2>1, <3>1 DEF History
  <2>. QED  BY <2>2, <2>3
<1>6. ASSUME NEW h \in Handlers, ScanAdmit(h)
      PROVE History(b)'
  <2>1. UNCHANGED <<tickets, restored>>
    BY <1>6 DEF ScanAdmit, AdmitIn
  <2>2. CASE req[h].b = b /\ rows[b].status \in {"confirmed", "approved"}
    <3>1. /\ rows'[b] = [rows[b] EXCEPT !.status = "checked_in", !.qr = NoQR]
          /\ admitted'[b] = admitted[b] + 1
      BY <1>6, <2>2 DEF ScanAdmit, AdmitIn, SetRow, TypeOK
    <3>2. rows'[b].status = "checked_in" /\ rows'[b].qr = NoQR
      BY <3>1, RowShapes DEF TypeOK, Row
    <3>3. admitted[b] \in Nat /\ restored[b] \in Nat
      BY DEF TypeOK
    <3>. QED  BY <2>1, <2>2, <3>1, <3>2, <3>3 DEF History
  <2>3. CASE ~(req[h].b = b /\ rows[b].status \in {"confirmed", "approved"})
    <3>1. rows'[b] = rows[b] /\ admitted'[b] = admitted[b]
      BY <1>6, <2>3 DEF ScanAdmit, AdmitIn, SetRow, TypeOK
    <3>. QED  BY <2>1, <3>1 DEF History
  <2>. QED  BY <2>2, <2>3
<1>7. CASE \/ \E row \in Puts : PutEvent(row)
           \/ DeleteEvent \/ SweepPending \/ SweepRetention \/ Tick \/ Restart
  <2>1. UNCHANGED history
    BY <1>7 DEF PutEvent, DeleteEvent, SweepPending, SweepRetention, SweepFinished,
                Tick, Restart, ghosts, history
  <2>2. rows'[b] = rows[b] \/ rows'[b] = Gone
    BY <1>7 DEF PutEvent, DeleteEvent, SweepPending, SweepRetention, SweepFinished,
                Sweep, Tick, Restart
  <2>. QED  BY <2>1, <2>2, QuietKeepsHistory
<1>8. CASE UNCHANGED vars
  BY <1>8, QuietKeepsHistory DEF vars, ghosts, history
<1>. QED
  BY <1>1, <1>2, <1>3, <1>4, <1>5, <1>6, <1>7, <1>8 DEF Next, Handler

\* The invariant behind the ticket properties: how often a booking was handed a
\* ticket or admitted follows from its row (bookings.go:389, 539).
THEOREM HistoryInvariant == Spec => []IInv
<1>1. Init => IInv
  BY InitType, InitHistory DEF IInv
<1>2. IInv /\ [Next]_vars => IInv'
  BY StepType, StepHistory DEF IInv
<1>. QED  BY <1>1, <1>2, PTL DEF Spec

\* However many verify requests race for one booking, one ticket is handed out
\* and the row knows no other (verifyBooking, #1397).
THEOREM OneTicketTheorem == Spec => []OneTicket
<1>1. IInv => OneTicket
  BY DEF IInv, HistoryInv, History, OneTicket
<1>. QED  BY <1>1, HistoryInvariant, PTL

\* Racing scans alone never admit twice: every admission beyond the first is
\* paid for by a staff re-opening (checkinBooking, #1396).
THEOREM AdmissionsTheorem == Spec => []AdmissionsAccounted
<1>1. IInv => AdmissionsAccounted
  BY DEF IInv, HistoryInv, History, AdmissionsAccounted
<1>. QED  BY <1>1, HistoryInvariant, PTL

\* A ticket whose token the check-in dropped is never given a token again, by
\* whatever sequence of approvals, verifications and edits (bookings.go:539).
THEOREM SpentTheorem == Spec => SpentTicketStaysSpent
<1>1. ASSUME IInv, [Next]_vars, NEW b \in Bookings, tickets[b] # {}, rows[b].qr = NoQR
      PROVE  rows'[b].qr = NoQR
  <2>1. rows[b].status \notin {"none", "pending"} /\ rows[b] \in Row
    BY <1>1 DEF IInv, HistoryInv, History, TypeOK
  <2>2. ASSUME NEW h \in Handlers, StatusUpdate(h)
        PROVE  rows'[b].qr = NoQR
    <3>1. CASE req[h].b = b /\ Live(b)
      <4>1. rows'[b] = [rows[b] EXCEPT !.status = req[h].to, !.qr = rows[b].qr]
        BY <1>1, <2>2, <3>1 DEF StatusUpdate, SetStatus, SetRow, IInv, TypeOK
      <4>. QED  BY <1>1, <2>1, <4>1, RowShapes
    <3>2. CASE ~(req[h].b = b /\ Live(b))
      <4>1. rows'[b] = rows[b]
        BY <1>1, <2>2, <3>2 DEF StatusUpdate, SetStatus, SetRow, IInv, TypeOK
      <4>. QED  BY <1>1, <4>1
    <3>. QED  BY <3>1, <3>2
  <2>3. ASSUME NEW h \in Handlers, CreateInsert(h) \/ VerifyConfirm(h)
        PROVE  rows'[b].qr = NoQR
    <3>1. CASE CreateInsert(h)
      <4>1. ASSUME NEW c \in Bookings, NEW r, rows[c].status = "none", SetRow(c, r)
            PROVE  rows'[b] = rows[b]
        BY <1>1, <2>1, <4>1 DEF SetRow, IInv, TypeOK
      <4>. QED  BY <1>1, <3>1, <4>1 DEF CreateInsert, InsertRow
    <3>2. CASE VerifyConfirm(h)
      <4>1. rows'[b] = rows[b]
        BY <1>1, <2>1, <3>2 DEF VerifyConfirm, ConfirmIn, SetRow, IInv, TypeOK
      <4>. QED  BY <1>1, <4>1
    <3>. QED  BY <2>3, <3>1, <3>2
  <2>4. ASSUME NEW h \in Handlers, ScanAdmit(h)
        PROVE  rows'[b].qr = NoQR
    <3>1. CASE req[h].b = b /\ rows[b].status \in {"confirmed", "approved"}
      <4>1. rows'[b] = [rows[b] EXCEPT !.status = "checked_in", !.qr = NoQR]
        BY <1>1, <2>4, <3>1 DEF ScanAdmit, AdmitIn, SetRow, IInv, TypeOK
      <4>. QED  BY <2>1, <4>1, RowShapes
    <3>2. CASE ~(req[h].b = b /\ rows[b].status \in {"confirmed", "approved"})
      <4>1. rows'[b] = rows[b]
        BY <1>1, <2>4, <3>2 DEF ScanAdmit, AdmitIn, SetRow, IInv, TypeOK
      <4>. QED  BY <1>1, <4>1
    <3>. QED  BY <3>1, <3>2
  <2>5. ASSUME NEW h \in Handlers, VerifyDropExpired(h) \/ DeleteRow(h)
        PROVE  rows'[b].qr = NoQR
    BY <1>1, <2>5 DEF VerifyDropExpired, DeleteRow, DeleteThen, SetRow, Gone, IInv, TypeOK
  <2>6. CASE DeleteEvent \/ SweepPending \/ SweepRetention
    BY <1>1, <2>6 DEF DeleteEvent, SweepPending, SweepRetention, SweepFinished,
                      Sweep, Gone, IInv, TypeOK
  <2>7. ASSUME \/ \E h \in Handlers :
                    \/ CreateCheck(h) \/ Recount(h) \/ PublishAvailability(h)
                    \/ PatchWrite(h)
                    \/ \E c \in Bookings :
                         \/ VerifySelect(h, c) \/ ScanSelect(h, c) \/ DeleteCheck(h, c)
                         \/ \E to \in {"approved", "cancelled"} : StatusCheck(h, c, to)
                    \/ \E patch \in Patches : PatchRead(h, patch)
               \/ \E row \in Puts : PutEvent(row)
               \/ Tick \/ Restart \/ UNCHANGED vars
        PROVE  rows'[b].qr = NoQR
    BY <1>1, <2>7
    DEF CreateCheck, CheckBelow, Recount, PublishAvailability, PatchWrite, VerifySelect,
        ScanSelect, DeleteCheck, StatusCheck, PatchRead, PutEvent, Tick, Restart, vars
  <2>. QED  BY <1>1, <2>2, <2>3, <2>4, <2>5, <2>6, <2>7 DEF Next, Handler
<1>2. IInv /\ [Next]_vars
        => [\A b \in Bookings :
              tickets[b] # {} /\ rows[b].qr = NoQR => rows'[b].qr = NoQR]_vars
  BY <1>1
<1>. QED  BY <1>2, HistoryInvariant, PTL DEF Spec, SpentTicketStaysSpent

-----------------------------------------------------------------------------
(* The limit of open requests per address                                  *)

\* The requests between the count and the insert of createBooking.
Inserting == {h \in Handlers : req[h].at = "insert"}

\* What the limit really bounds: the rows that count and the requests that
\* have counted and not inserted yet.
OpenInv ==
  Cardinality(OpenPending) + Cardinality(Inserting)
    <= MaxOpen + Cardinality(Handlers) - 1

LEMMA OpenFinite ==
  /\ IsFiniteSet(OpenPending) /\ Cardinality(OpenPending) \in Nat
  /\ IsFiniteSet(Inserting) /\ Cardinality(Inserting) \in Nat
  /\ Cardinality(Inserting) <= Cardinality(Handlers)
  /\ Cardinality(Handlers) \in Nat
<1>1. OpenPending \in SUBSET Bookings /\ Inserting \in SUBSET Handlers
  BY DEF OpenPending, Inserting
<1>2. IsFiniteSet(Bookings) /\ IsFiniteSet(Handlers)
  BY BookingsAssumption
<1>3. IsFiniteSet(OpenPending)
  BY <1>1, <1>2, FS_Subset
<1>4. IsFiniteSet(Inserting) /\ Cardinality(Inserting) <= Cardinality(Handlers)
  BY <1>1, <1>2, FS_Subset
<1>. QED  BY <1>2, <1>3, <1>4, FS_CardinalityType

LEMMA InsertingPrimeFinite ==
  ASSUME TypeOK, TypeOK'
  PROVE  /\ IsFiniteSet(OpenPending') /\ Cardinality(OpenPending') \in Nat
         /\ IsFiniteSet(Inserting') /\ Cardinality(Inserting') \in Nat
         /\ Cardinality(Inserting') <= Cardinality(Handlers)
<1>1. OpenPending' \in SUBSET Bookings /\ Inserting' \in SUBSET Handlers
  BY DEF OpenPending, Inserting
<1>2. IsFiniteSet(Bookings) /\ IsFiniteSet(Handlers)
  BY BookingsAssumption
<1>3. IsFiniteSet(OpenPending')
  BY <1>1, <1>2, FS_Subset
<1>4. IsFiniteSet(Inserting') /\ Cardinality(Inserting') <= Cardinality(Handlers)
  BY <1>1, <1>2, FS_Subset
<1>. QED  BY <1>2, <1>3, <1>4, FS_CardinalityType

\* A step that opens no request and starts no insert keeps the bound.
LEMMA ShrinkingKeepsOpen ==
  ASSUME OpenInv, OpenPending' \subseteq OpenPending, Inserting' \subseteq Inserting
  PROVE  OpenInv'
<1>1. /\ Cardinality(OpenPending') \in Nat
      /\ Cardinality(OpenPending') <= Cardinality(OpenPending)
  BY OpenFinite, FS_Subset, FS_CardinalityType
<1>2. /\ Cardinality(Inserting') \in Nat
      /\ Cardinality(Inserting') <= Cardinality(Inserting)
  BY OpenFinite, FS_Subset, FS_CardinalityType
<1>3. MaxOpen \in Nat
  BY BookingsAssumption
<1>. QED  BY <1>1, <1>2, <1>3, OpenFinite DEF OpenInv

\* Only the insert opens a request: a row that every other step leaves or
\* deletes, confirms, decides or admits does not become an open one.
LEMMA RowsKeepOpen ==
  ASSUME TypeOK, TypeOK', now <= now',
         \A b \in Bookings : rows'[b] = rows[b] \/ rows'[b].status # "pending"
  PROVE  OpenPending' \subseteq OpenPending
<1>1. ASSUME NEW b \in Bookings, rows'[b].status = "pending", rows'[b].expires > now'
      PROVE  rows[b].status = "pending" /\ rows[b].expires > now
  <2>1. rows'[b] = rows[b] /\ rows[b].expires \in Nat /\ now \in Nat /\ now' \in Nat
    BY <1>1, RowShapes DEF TypeOK
  <2>. QED  BY <1>1, <2>1
<1>. QED  BY <1>1 DEF OpenPending

LEMMA GotoKeepsInserting ==
  ASSUME TypeOK, NEW h, NEW r, Goto(h, r), r.at # "insert"
  PROVE  Inserting' \subseteq Inserting
  BY DEF Goto, Inserting, TypeOK

\* createBooking's check counted fewer rows than the limit.
LEMMA CheckKeepsOpen ==
  ASSUME TypeOK, TypeOK', NEW h \in Handlers, CreateCheck(h)
  PROVE  OpenInv'
<1>1. OpenPending' = OpenPending
  BY DEF CreateCheck, CheckBelow, OpenPending
<1>2. Cardinality(OpenPending) < MaxOpen
  BY DEF CreateCheck, CheckBelow
<1>3. Cardinality(Inserting') <= Cardinality(Handlers) /\ Cardinality(Inserting') \in Nat
  BY InsertingPrimeFinite
<1>4. MaxOpen \in Nat
  BY BookingsAssumption
<1>. QED  BY <1>1, <1>2, <1>3, <1>4, OpenFinite DEF OpenInv

\* The insert turns one request that had counted into at most one open row.
LEMMA InsertKeepsOpen ==
  ASSUME TypeOK, TypeOK', OpenInv, NEW h \in Handlers, CreateInsert(h)
  PROVE  OpenInv'
<1>1. h \in Inserting /\ Inserting' = Inserting \ {h}
  BY DEF CreateInsert, InsertRow, Goto, Idle, Inserting, TypeOK
<1>2. Cardinality(Inserting') = Cardinality(Inserting) - 1
  BY <1>1, OpenFinite, FS_RemoveElement
<1>3. PICK b : OpenPending' \subseteq OpenPending \cup {b}
  <2>1. CASE event.exists
    <3>1. PICK b \in Bookings : SetRow(b, [status |-> "pending", qr |-> NoQR,
                                           expires |-> now + VerifySpan])
      BY <2>1 DEF CreateInsert, InsertRow
    <3>2. now' = now
      BY DEF CreateInsert, InsertRow
    <3>3. \A c \in Bookings \ {b} : rows'[c] = rows[c]
      BY <3>1 DEF SetRow, TypeOK
    <3>4. OpenPending' \subseteq OpenPending \cup {b}
      BY <3>2, <3>3 DEF OpenPending
    <3>. QED  BY <3>4
  <2>2. CASE ~event.exists
    <3>1. rows' = rows /\ now' = now
      BY <2>2 DEF CreateInsert, InsertRow
    <3>2. OpenPending' \subseteq OpenPending \cup {h}
      BY <3>1 DEF OpenPending
    <3>. QED  BY <3>2
  <2>. QED  BY <2>1, <2>2
<1>4. /\ IsFiniteSet(OpenPending \cup {b})
      /\ Cardinality(OpenPending \cup {b}) <= Cardinality(OpenPending) + 1
      /\ Cardinality(OpenPending \cup {b}) \in Nat
  <2>1. /\ IsFiniteSet(OpenPending \cup {b})
        /\ Cardinality(OpenPending \cup {b}) =
             IF b \in OpenPending THEN Cardinality(OpenPending)
             ELSE Cardinality(OpenPending) + 1
    BY OpenFinite, FS_AddElement
  <2>2. Cardinality(OpenPending) \in Nat
    BY OpenFinite
  <2>. QED  BY <2>1, <2>2
<1>5. /\ Cardinality(OpenPending') <= Cardinality(OpenPending \cup {b})
      /\ Cardinality(OpenPending') \in Nat
  BY <1>3, <1>4, FS_Subset, FS_CardinalityType
<1>6. MaxOpen \in Nat
  BY BookingsAssumption
<1>. QED  BY <1>2, <1>4, <1>5, <1>6, OpenFinite DEF OpenInv

LEMMA StepOpen ==
  ASSUME TypeOK, TypeOK', OpenInv, [Next]_vars
  PROVE  OpenInv'
<1>. now \in Nat
  BY DEF TypeOK
<1>1. ASSUME NEW h \in Handlers,
             \/ Recount(h) \/ PublishAvailability(h) \/ PatchWrite(h)
             \/ \E c \in Bookings :
                  \/ VerifySelect(h, c) \/ ScanSelect(h, c) \/ DeleteCheck(h, c)
                  \/ \E to \in {"approved", "cancelled"} : StatusCheck(h, c, to)
             \/ \E patch \in Patches : PatchRead(h, patch)
      PROVE OpenInv'
  <2>1. rows' = rows /\ now' = now
    BY <1>1 DEF Recount, PublishAvailability, PatchWrite, VerifySelect, ScanSelect,
                DeleteCheck, StatusCheck, PatchRead
  <2>2. \E r : Goto(h, r) /\ r.at # "insert"
    <3>1. CASE Recount(h) \/ PublishAvailability(h) \/ PatchWrite(h)
      BY <3>1 DEF Recount, PublishAvailability, PatchWrite, Idle
    <3>2. ASSUME NEW c \in Bookings, VerifySelect(h, c)
          PROVE  \E r : Goto(h, r) /\ r.at # "insert"
      BY <3>2 DEF VerifySelect
    <3>3. ASSUME NEW c \in Bookings, ScanSelect(h, c) \/ DeleteCheck(h, c)
          PROVE  \E r : Goto(h, r) /\ r.at # "insert"
      BY <3>3 DEF ScanSelect, DeleteCheck
    <3>4. ASSUME NEW c \in Bookings, NEW to, StatusCheck(h, c, to)
          PROVE  \E r : Goto(h, r) /\ r.at # "insert"
      BY <3>4 DEF StatusCheck
    <3>5. ASSUME NEW patch, PatchRead(h, patch)
          PROVE  \E r : Goto(h, r) /\ r.at # "insert"
      BY <3>5 DEF PatchRead
    <3>. QED  BY <1>1, <3>1, <3>2, <3>3, <3>4, <3>5
  <2>3. now <= now' /\ \A b \in Bookings : rows'[b] = rows[b]
    BY <2>1
  <2>. QED  BY <2>2, <2>3, RowsKeepOpen, GotoKeepsInserting, ShrinkingKeepsOpen
<1>2. ASSUME NEW h \in Handlers,
             \/ VerifyDropExpired(h) \/ DeleteRow(h) \/ VerifyConfirm(h)
             \/ StatusUpdate(h) \/ ScanAdmit(h)
      PROVE OpenInv'
  <2>1. now' = now
    BY <1>2 DEF VerifyDropExpired, DeleteRow, DeleteThen, VerifyConfirm, ConfirmIn,
                StatusUpdate, SetStatus, ScanAdmit, AdmitIn
  <2>2. \E r : Goto(h, r) /\ r.at # "insert"
    BY <1>2 DEF VerifyDropExpired, DeleteRow, DeleteThen, VerifyConfirm, ConfirmIn,
                StatusUpdate, SetStatus, ScanAdmit, AdmitIn, Idle
  <2>3. ASSUME NEW b \in Bookings
        PROVE  rows'[b] = rows[b] \/ rows'[b].status # "pending"
    <3>1. CASE VerifyDropExpired(h) \/ DeleteRow(h)
      BY <3>1 DEF VerifyDropExpired, DeleteRow, DeleteThen, SetRow, Gone, TypeOK
    <3>2. CASE VerifyConfirm(h)
      BY <3>2 DEF VerifyConfirm, ConfirmIn, SetRow, TypeOK
    <3>3. CASE StatusUpdate(h)
      <4>1. CASE req[h].b = b /\ Live(b)
        <5>1. rows'[b] = [rows[b] EXCEPT !.status = req[h].to, !.qr = rows[b].qr]
          BY <3>3, <4>1 DEF StatusUpdate, SetStatus, SetRow, TypeOK
        <5>2. req[h].to \in {"approved", "cancelled"}
          BY <3>3, RequestShapes DEF StatusUpdate, SetStatus, TypeOK
        <5>3. rows[b] \in Row
          BY DEF TypeOK
        <5>. QED  BY <5>1, <5>2, <5>3, RowShapes
      <4>2. CASE ~(req[h].b = b /\ Live(b))
        BY <3>3, <4>2 DEF StatusUpdate, SetStatus, SetRow, TypeOK
      <4>. QED  BY <4>1, <4>2
    <3>4. CASE ScanAdmit(h)
      <4>1. CASE req[h].b = b /\ rows[b].status \in {"confirmed", "approved"}
        <5>1. rows'[b] = [rows[b] EXCEPT !.status = "checked_in", !.qr = NoQR]
          BY <3>4, <4>1 DEF ScanAdmit, AdmitIn, SetRow, TypeOK
        <5>3. rows[b] \in Row
          BY DEF TypeOK
        <5>. QED  BY <5>1, <5>3, RowShapes
      <4>2. CASE ~(req[h].b = b /\ rows[b].status \in {"confirmed", "approved"})
        BY <3>4, <4>2 DEF ScanAdmit, AdmitIn, SetRow, TypeOK
      <4>. QED  BY <4>1, <4>2
    <3>. QED  BY <1>2, <3>1, <3>2, <3>3, <3>4
  <2>. QED  BY <2>1, <2>2, <2>3, RowsKeepOpen, GotoKeepsInserting, ShrinkingKeepsOpen
<1>3. CASE \/ \E row \in Puts : PutEvent(row)
           \/ DeleteEvent \/ SweepPending \/ SweepRetention \/ Tick \/ Restart
  <2>1. now <= now'
    BY <1>3 DEF PutEvent, DeleteEvent, SweepPending, SweepRetention, SweepFinished,
                Tick, Restart
  <2>2. \A b \in Bookings : rows'[b] = rows[b] \/ rows'[b].status # "pending"
    BY <1>3 DEF PutEvent, DeleteEvent, SweepPending, SweepRetention, SweepFinished,
                Sweep, Tick, Restart, Gone
  <2>3. Inserting' \subseteq Inserting
    BY <1>3 DEF PutEvent, DeleteEvent, SweepPending, SweepRetention, SweepFinished,
                Tick, Restart, Inserting, Idle
  <2>. QED  BY <2>1, <2>2, <2>3, RowsKeepOpen, ShrinkingKeepsOpen
<1>4. CASE UNCHANGED vars
  <2>1. OpenPending' = OpenPending /\ Inserting' = Inserting
    BY <1>4 DEF vars, OpenPending, Inserting
  <2>. QED  BY <2>1, ShrinkingKeepsOpen
<1>. QED
  BY <1>1, <1>2, <1>3, <1>4, CheckKeepsOpen, InsertKeepsOpen DEF Next, Handler

LEMMA InitOpen == Init => OpenInv
<1>. SUFFICES ASSUME Init PROVE OpenInv
  OBVIOUS
<1>1. OpenPending = {} /\ Inserting = {}
  BY DEF Init, OpenPending, Inserting, Idle
<1>. QED  BY <1>1, OpenFinite, FS_EmptySet, BookingsAssumption DEF OpenInv

\* The limit of open requests per address is overshot by at most the other
\* requests that were between count and insert at once (createBooking).
THEOREM OpenPendingTheorem == Spec => []OpenPendingBound
<1>1. Init => OpenInv
  BY InitOpen
<1>2. TypeOK /\ TypeOK' /\ OpenInv /\ [Next]_vars => OpenInv'
  BY StepOpen
<1>3. OpenInv => OpenPendingBound
  BY OpenFinite, BookingsAssumption DEF OpenInv, OpenPendingBound
<1>. QED  BY <1>1, <1>2, <1>3, TypeCorrect, PTL DEF Spec

-----------------------------------------------------------------------------
(* Retention                                                               *)

\* A row outlives neither its event nor, once verified, the horizon that was
\* computed from the event's end; a confirmation in flight carries that horizon.
EventInv ==
  /\ ~event.exists => \A b \in Bookings : ~Live(b)
  /\ \A h \in Handlers : req[h].at = "write_patch" => req[h].row.exists
  /\ sweeper.at = "retention" => sweeper.now <= now

HorizonInv ==
  /\ \A h \in Handlers :
       req[h].at = "confirm" => req[h].horizon = event.end + Retention
  /\ \A b \in Bookings :
       tickets[b] # {} /\ Live(b) => rows[b].expires = event.end + Retention

\* The request a step moves is moved to one that neither confirms nor writes.
Quietly(h) ==
  \E r : Goto(h, r) /\ r.at \notin {"confirm", "write_patch"}

LEMMA QuietRequests ==
  ASSUME TypeOK, NEW h \in Handlers, Quietly(h), NEW k \in Handlers,
         req'[k].at \in {"confirm", "write_patch"}
  PROVE  req'[k] = req[k]
  BY DEF Quietly, Goto, TypeOK

\* Whether a row lives is decided by its status.
LEMMA Dying ==
  ASSUME NEW b, rows'[b] = Gone
  PROVE  ~Live(b)'
  BY DEF Gone, Live

\* What a step of a handler does to the rows: nothing, or one of the four
\* single-row statements.
LEMMA HandlerRows ==
  ASSUME TypeOK, HistoryInv, NEW h \in Handlers, Handler(h), NEW b \in Bookings
  PROVE  \/ rows'[b] = rows[b] /\ tickets'[b] = tickets[b]
         \/ rows'[b] = Gone /\ tickets'[b] = tickets[b]
         \/ /\ event.exists /\ CreateInsert(h) /\ ~Live(b)
            /\ tickets'[b] = {} /\ rows'[b].expires = now + VerifySpan
         \/ /\ VerifyConfirm(h) /\ rows[b].status = "pending"
            /\ rows'[b].expires = req[h].horizon
         \/ /\ StatusUpdate(h) \/ ScanAdmit(h)
            /\ Live(b) /\ rows'[b].expires = rows[b].expires /\ tickets'[b] = tickets[b]
<1>1. CASE \/ CreateCheck(h) \/ Recount(h) \/ PublishAvailability(h) \/ PatchWrite(h)
           \/ \E c \in Bookings :
                \/ VerifySelect(h, c) \/ ScanSelect(h, c) \/ DeleteCheck(h, c)
                \/ \E to \in {"approved", "cancelled"} : StatusCheck(h, c, to)
           \/ \E patch \in Patches : PatchRead(h, patch)
  BY <1>1 DEF CreateCheck, CheckBelow, Recount, PublishAvailability, PatchWrite,
              VerifySelect, ScanSelect, DeleteCheck, StatusCheck, PatchRead, ghosts, history
<1>2. CASE VerifyDropExpired(h) \/ DeleteRow(h)
  BY <1>2 DEF VerifyDropExpired, DeleteRow, DeleteThen, SetRow, TypeOK, ghosts, history
<1>3. CASE CreateInsert(h)
  <2>1. tickets' = tickets
    BY <1>3 DEF CreateInsert, InsertRow, ghosts, history
  <2>2. CASE event.exists
    <3>1. PICK c \in Bookings :
            /\ rows[c].status = "none"
            /\ SetRow(c, [status |-> "pending", qr |-> NoQR, expires |-> now + VerifySpan])
      BY <1>3, <2>2 DEF CreateInsert, InsertRow
    <3>2. CASE b = c
      <4>1. ~Live(b) /\ tickets[b] = {}
        BY <3>1, <3>2 DEF Live, HistoryInv, History
      <4>2. rows'[b].expires = now + VerifySpan
        BY <3>1, <3>2 DEF SetRow, TypeOK
      <4>. QED  BY <1>3, <2>1, <2>2, <4>1, <4>2
    <3>3. CASE b # c
      BY <2>1, <3>1, <3>3 DEF SetRow, TypeOK
    <3>. QED  BY <3>2, <3>3
  <2>3. CASE ~event.exists
    BY <1>3, <2>1, <2>3 DEF CreateInsert, InsertRow
  <2>. QED  BY <2>2, <2>3
<1>4. CASE VerifyConfirm(h)
  <2>1. CASE req[h].b = b /\ rows[b].status = "pending"
    <3>1. rows'[b] = [status |-> "confirmed", qr |-> h, expires |-> req[h].horizon]
      BY <1>4, <2>1 DEF VerifyConfirm, ConfirmIn, SetRow, TypeOK
    <3>. QED  BY <1>4, <2>1, <3>1
  <2>2. CASE ~(req[h].b = b /\ rows[b].status = "pending")
    BY <1>4, <2>2 DEF VerifyConfirm, ConfirmIn, SetRow, TypeOK
  <2>. QED  BY <2>1, <2>2
<1>5. CASE StatusUpdate(h)
  <2>0. tickets' = tickets
    BY <1>5 DEF StatusUpdate, SetStatus
  <2>1. CASE req[h].b = b /\ Live(b)
    <3>1. rows'[b] = [rows[b] EXCEPT !.status = req[h].to, !.qr = rows[b].qr]
      BY <1>5, <2>1 DEF StatusUpdate, SetStatus, SetRow, TypeOK
    <3>2. rows'[b].expires = rows[b].expires
      BY <3>1, RowShapes DEF TypeOK, Row
    <3>. QED  BY <1>5, <2>0, <2>1, <3>2
  <2>2. CASE ~(req[h].b = b /\ Live(b))
    BY <1>5, <2>0, <2>2 DEF StatusUpdate, SetStatus, SetRow, TypeOK
  <2>. QED  BY <2>1, <2>2
<1>6. CASE ScanAdmit(h)
  <2>0. tickets' = tickets
    BY <1>6 DEF ScanAdmit, AdmitIn
  <2>1. CASE req[h].b = b /\ rows[b].status \in {"confirmed", "approved"}
    <3>1. rows'[b] = [rows[b] EXCEPT !.status = "checked_in", !.qr = NoQR]
      BY <1>6, <2>1 DEF ScanAdmit, AdmitIn, SetRow, TypeOK
    <3>2. rows'[b].expires = rows[b].expires
      BY <3>1, RowShapes DEF TypeOK, Row
    <3>3. Live(b)
      BY <2>1 DEF Live
    <3>. QED  BY <1>6, <2>0, <3>2, <3>3
  <2>2. CASE ~(req[h].b = b /\ rows[b].status \in {"confirmed", "approved"})
    BY <1>6, <2>0, <2>2 DEF ScanAdmit, AdmitIn, SetRow, TypeOK
  <2>. QED  BY <2>1, <2>2
<1>. QED  BY <1>1, <1>2, <1>3, <1>4, <1>5, <1>6 DEF Handler

\* What the organiser, the sweeps, the clock and a restart do to the rows.
LEMMA OtherRows ==
  ASSUME NEW b \in Bookings,
         \/ \E row \in Puts : PutEvent(row)
         \/ DeleteEvent \/ SweepPending \/ SweepRetention \/ Tick \/ Restart
         \/ UNCHANGED vars
  PROVE  /\ tickets'[b] = tickets[b]
         /\ rows'[b] = rows[b] \/ rows'[b] = Gone
  BY DEF PutEvent, DeleteEvent, SweepPending, SweepRetention, SweepFinished, Sweep,
         Tick, Restart, vars, ghosts, history

\* Every statement of a handler but the two reads below moves its request quietly.
LEMMA HandlerRequests ==
  ASSUME TypeOK, NEW h \in Handlers, Handler(h)
  PROVE  \/ Quietly(h)
         \/ \E b \in Bookings :
              /\ rows[b].status = "pending"
              /\ Goto(h, [at |-> "confirm", b |-> b, horizon |-> Horizon])
         \/ \E patch \in Patches :
              /\ event.exists
              /\ Goto(h, [at |-> "write_patch", row |-> Overlay(event, patch)])
<1>1. CASE CreateCheck(h) \/ CreateInsert(h)
  BY <1>1 DEF CreateCheck, CheckBelow, CreateInsert, InsertRow, Quietly, Idle
<1>2. CASE Recount(h) \/ PublishAvailability(h) \/ PatchWrite(h)
  BY <1>2 DEF Recount, PublishAvailability, PatchWrite, Quietly, Idle
<1>3. CASE VerifyDropExpired(h) \/ DeleteRow(h) \/ VerifyConfirm(h)
  BY <1>3 DEF VerifyDropExpired, DeleteRow, DeleteThen, VerifyConfirm, ConfirmIn,
              Quietly, Idle
<1>4. CASE StatusUpdate(h) \/ ScanAdmit(h)
  BY <1>4 DEF StatusUpdate, SetStatus, ScanAdmit, AdmitIn, Quietly, Idle
<1>5. ASSUME NEW c \in Bookings, ScanSelect(h, c) \/ DeleteCheck(h, c)
      PROVE  Quietly(h)
  BY <1>5 DEF ScanSelect, DeleteCheck, Quietly
<1>6. ASSUME NEW c \in Bookings, NEW to, StatusCheck(h, c, to)
      PROVE  Quietly(h)
  BY <1>6 DEF StatusCheck, Quietly
<1>7. ASSUME NEW c \in Bookings, VerifySelect(h, c)
      PROVE  \/ Quietly(h)
             \/ /\ rows[c].status = "pending"
                /\ Goto(h, [at |-> "confirm", b |-> c, horizon |-> Horizon])
  BY <1>7 DEF VerifySelect, Quietly
<1>8. ASSUME NEW patch \in Patches, PatchRead(h, patch)
      PROVE  /\ event.exists
             /\ Goto(h, [at |-> "write_patch", row |-> Overlay(event, patch)])
  BY <1>8 DEF PatchRead
<1>. QED  BY <1>1, <1>2, <1>3, <1>4, <1>5, <1>6, <1>7, <1>8 DEF Handler

LEMMA HandlerKeepsExists ==
  ASSUME TypeOK, EventInv, NEW h \in Handlers, Handler(h)
  PROVE  event'.exists = event.exists /\ sweeper' = sweeper /\ now' = now
<1>1. CASE PatchWrite(h)
  BY <1>1 DEF PatchWrite, EventInv, TypeOK, EventRow
<1>2. CASE PublishAvailability(h)
  BY <1>2 DEF PublishAvailability, TypeOK, EventRow
<1>3. CASE \/ CreateCheck(h) \/ Recount(h) \/ CreateInsert(h)
           \/ \E c \in Bookings :
                \/ VerifySelect(h, c) \/ ScanSelect(h, c) \/ DeleteCheck(h, c)
                \/ \E to \in {"approved", "cancelled"} : StatusCheck(h, c, to)
           \/ \E patch \in Patches : PatchRead(h, patch)
  BY <1>3 DEF CreateCheck, CheckBelow, Recount, CreateInsert, InsertRow,
              VerifySelect, ScanSelect, DeleteCheck, StatusCheck, PatchRead
<1>4. CASE \/ VerifyDropExpired(h) \/ DeleteRow(h) \/ VerifyConfirm(h)
           \/ StatusUpdate(h) \/ ScanAdmit(h)
  BY <1>4 DEF VerifyDropExpired, DeleteRow, DeleteThen, VerifyConfirm, ConfirmIn,
              StatusUpdate, SetStatus, ScanAdmit, AdmitIn
<1>. QED  BY <1>1, <1>2, <1>3, <1>4 DEF Handler

LEMMA OverlayKeepsExists ==
  ASSUME NEW ev \in EventRow, NEW patch \in Patches
  PROVE  Overlay(ev, patch).exists = ev.exists
<1>1. "exists" \in DOMAIN ev
  BY DEF EventRow
<1>2. "exists" \notin DOMAIN patch
  BY BookingsAssumption
<1>. QED  BY <1>1, <1>2 DEF Overlay

LEMMA StepEvent ==
  ASSUME TypeOK, HistoryInv, EventInv, [Next]_vars
  PROVE  EventInv'
<1>. DEFINE Writes(k) == req[k].at = "write_patch" => req[k].row.exists
            Swept == sweeper.at = "retention" => sweeper.now <= now
            NoneLive == ~event.exists => \A b \in Bookings : ~Live(b)
<1>0. NoneLive /\ (\A k \in Handlers : Writes(k)) /\ Swept
  BY DEF EventInv
<1>1. ASSUME NEW h \in Handlers, Handler(h)
      PROVE  NoneLive' /\ (\A k \in Handlers : Writes(k)') /\ Swept'
  <2>1. event'.exists = event.exists /\ Swept'
    BY <1>0, <1>1, HandlerKeepsExists
  <2>2. ASSUME NEW b \in Bookings, ~event.exists
        PROVE  ~Live(b)'
    <3>1. ~Live(b)
      BY <1>0, <2>2
    <3>2. rows'[b] = rows[b] \/ rows'[b] = Gone
      BY <1>1, <2>2, <3>1, HandlerRows DEF Live
    <3>. QED  BY <3>1, <3>2, Dying DEF Live
  <2>3. ASSUME NEW k \in Handlers
        PROVE  Writes(k)'
    <3>1. CASE Quietly(h)
      BY <1>0, <3>1, QuietRequests
    <3>2. ASSUME NEW r, Goto(h, r), r.at # "write_patch" \/ r.row.exists
          PROVE  Writes(k)'
      BY <1>0, <3>2 DEF Goto, TypeOK
    <3>3. ASSUME NEW patch \in Patches, event.exists,
                 Goto(h, [at |-> "write_patch", row |-> Overlay(event, patch)])
          PROVE  Writes(k)'
      BY <3>2, <3>3, OverlayKeepsExists DEF TypeOK
    <3>. QED  BY <1>1, <3>1, <3>2, <3>3, HandlerRequests
  <2>. QED  BY <2>1, <2>2, <2>3
<1>2. ASSUME NEW row \in Puts, PutEvent(row)
      PROVE  NoneLive' /\ (\A k \in Handlers : Writes(k)') /\ Swept'
  <2>1. row.exists
    BY BookingsAssumption
  <2>. QED  BY <1>0, <1>2, <2>1 DEF PutEvent
<1>3. ASSUME DeleteEvent
      PROVE  NoneLive' /\ (\A k \in Handlers : Writes(k)') /\ Swept'
  <2>1. ASSUME NEW b \in Bookings
        PROVE  ~Live(b)'
    <3>1. CASE Live(b)
      BY <1>3, <3>1, Dying DEF DeleteEvent
    <3>2. CASE ~Live(b)
      BY <1>3, <3>2 DEF DeleteEvent, Live
    <3>. QED  BY <3>1, <3>2
  <2>. QED  BY <1>0, <1>3, <2>1 DEF DeleteEvent
<1>4. ASSUME SweepPending \/ SweepRetention \/ Tick \/ Restart \/ UNCHANGED vars
      PROVE  NoneLive' /\ (\A k \in Handlers : Writes(k)') /\ Swept'
  <2>1. event' = event
    BY <1>4 DEF SweepPending, SweepRetention, SweepFinished, Tick, Restart, vars
  <2>2. ASSUME NEW b \in Bookings, ~Live(b)
        PROVE  ~Live(b)'
    BY <1>4, <2>2, OtherRows, Dying DEF Live
  <2>3. \A k \in Handlers : Writes(k)'
    BY <1>0, <1>4 DEF SweepPending, SweepRetention, SweepFinished, Tick, Restart, vars, Idle
  <2>4. Swept'
    BY <1>0, <1>4 DEF SweepPending, SweepRetention, SweepFinished, Tick, Restart, vars,
                      Idle, TypeOK, Sweeper
  <2>. QED  BY <1>0, <2>1, <2>2, <2>3, <2>4
<1>5. NoneLive' /\ (\A k \in Handlers : Writes(k)') /\ Swept'
  BY <1>1, <1>2, <1>3, <1>4 DEF Next
<1>. QED  BY <1>5 DEF EventInv

\* While the organiser leaves the end alone, every horizon is the end's.
LEMMA StepHorizon ==
  ASSUME TypeOK, HistoryInv, EventInv, HorizonInv, [Next]_vars, event'.end = event.end
  PROVE  HorizonInv'
<1>. DEFINE Carries(k) == req[k].at = "confirm" => req[k].horizon = event.end + Retention
            Kept(b) == tickets[b] # {} /\ Live(b) => rows[b].expires = event.end + Retention
<1>0. (\A k \in Handlers : Carries(k)) /\ (\A b \in Bookings : Kept(b))
  BY DEF HorizonInv
<1>1. ASSUME NEW h \in Handlers, Handler(h), NEW k \in Handlers
      PROVE  Carries(k)'
  <2>1. CASE Quietly(h)
    BY <1>0, <2>1, QuietRequests
  <2>2. ASSUME NEW r, Goto(h, r), r.at # "confirm" \/ r.horizon = event.end + Retention
        PROVE  Carries(k)'
    BY <1>0, <2>2 DEF Goto, TypeOK
  <2>3. ASSUME NEW b \in Bookings, rows[b].status = "pending",
               Goto(h, [at |-> "confirm", b |-> b, horizon |-> Horizon])
        PROVE  Carries(k)'
    <3>1. Live(b)
      BY <2>3 DEF Live
    <3>2. Horizon = event.end + Retention
      BY <3>1 DEF EventInv, Horizon
    <3>. QED  BY <2>2, <2>3, <3>2
  <2>. QED  BY <1>1, <2>1, <2>2, <2>3, HandlerRequests
<1>2. ASSUME NEW h \in Handlers, Handler(h), NEW b \in Bookings
      PROVE  Kept(b)'
  <2>1. CASE rows'[b] = rows[b] /\ tickets'[b] = tickets[b]
    BY <1>0, <2>1 DEF Live
  <2>2. CASE rows'[b] = Gone \/ tickets'[b] = {}
    BY <2>2, Dying
  <2>3. CASE VerifyConfirm(h) /\ rows'[b].expires = req[h].horizon
    BY <1>0, <2>3 DEF VerifyConfirm, ConfirmIn
  <2>4. CASE /\ Live(b) /\ rows'[b].expires = rows[b].expires /\ tickets'[b] = tickets[b]
    BY <1>0, <2>4
  <2>. QED  BY <1>2, <2>1, <2>2, <2>3, <2>4, HandlerRows
<1>3. ASSUME \/ \E row \in Puts : PutEvent(row)
             \/ DeleteEvent \/ SweepPending \/ SweepRetention \/ Tick \/ Restart
             \/ UNCHANGED vars
      PROVE  (\A k \in Handlers : Carries(k)') /\ (\A b \in Bookings : Kept(b)')
  <2>1. \A k \in Handlers : Carries(k)'
    BY <1>0, <1>3 DEF PutEvent, DeleteEvent, SweepPending, SweepRetention, SweepFinished,
                      Tick, Restart, vars, Idle
  <2>2. ASSUME NEW b \in Bookings
        PROVE  Kept(b)'
    BY <1>0, <1>3, OtherRows, Dying DEF Live
  <2>. QED  BY <2>1, <2>2
<1>4. (\A k \in Handlers : Carries(k)') /\ (\A b \in Bookings : Kept(b)')
  BY <1>1, <1>2, <1>3 DEF Next
<1>. QED  BY <1>4 DEF HorizonInv

LEMMA InitRetention == Init => EventInv /\ HorizonInv
  BY BookingsAssumption DEF Init, EventInv, HorizonInv, Idle

\* A deleted event keeps no bookings and never comes back: no stale PATCH writes
\* it into existence again (the ON DELETE CASCADE of the bookings table).
THEOREM EventInvariant == Spec => []EventInv
<1>1. Init => EventInv
  BY InitRetention
<1>2. IInv /\ EventInv /\ [Next]_vars => EventInv'
  BY StepEvent DEF IInv
<1>. QED  BY <1>1, <1>2, HistoryInvariant, PTL DEF Spec

\* While nobody moves the end of the event, the hourly sweep keeps a verified
\* booking until the end and the whole retention are past: the long expiry
\* survives every change of status (startTokenCleanup, bookingLongExpiry).
THEOREM RetainedTheorem ==
  Spec /\ [][event'.end = event.end]_vars => VerifiedRetained
<1>1. Init => HorizonInv
  BY InitRetention
<1>2. IInv /\ EventInv /\ HorizonInv /\ [Next]_vars /\ [event'.end = event.end]_vars
        => HorizonInv'
  BY StepHorizon DEF IInv, vars
<1>3. ASSUME IInv, EventInv, HorizonInv, SweepPending \/ SweepRetention,
             NEW b \in Bookings, tickets[b] # {}, Live(b), ~Live(b)'
      PROVE  event.end + Retention < now
  <2>1. rows[b].status # "pending" /\ rows[b].expires = event.end + Retention
    BY <1>3 DEF IInv, HistoryInv, History, HorizonInv
  <2>2. CASE SweepPending
    BY <1>3, <2>1, <2>2 DEF SweepPending, Sweep, Live
  <2>3. CASE SweepRetention
    <3>1. sweeper.at = "retention" /\ rows[b].expires < sweeper.now
      BY <1>3, <2>3 DEF SweepRetention, SweepFinished, Sweep, Live
    <3>2. sweeper.now \in Nat /\ now \in Nat /\ rows[b].expires \in Nat
      BY <1>3, <3>1, RowShapes DEF IInv, TypeOK, Sweeper, Idle
    <3>. QED  BY <1>3, <2>1, <3>1, <3>2 DEF EventInv
  <2>. QED  BY <1>3, <2>2, <2>3
<1>4. IInv /\ EventInv /\ HorizonInv /\ [Next]_vars
        => [SweepPending \/ SweepRetention =>
              \A b \in Bookings :
                tickets[b] # {} /\ Live(b) /\ ~Live(b)' => event.end + Retention < now]_vars
  BY <1>3
<1>. QED  BY <1>1, <1>2, <1>4, HistoryInvariant, EventInvariant, PTL
          DEF Spec, VerifiedRetained

\* Edits that carry the end the event was published with do not move it, a PATCH
\* that writes back the row it read long before included.
EditsKeepEnd ==
  /\ \A p \in Puts : p.end = FirstEvent.end
  /\ \A p \in Patches : "end" \notin DOMAIN p

EndInv ==
  /\ event.end = FirstEvent.end
  /\ \A h \in Handlers : req[h].at = "write_patch" => req[h].row.end = FirstEvent.end

LEMMA OverlayKeepsEnd ==
  ASSUME NEW ev \in EventRow, NEW patch, "end" \notin DOMAIN patch
  PROVE  Overlay(ev, patch).end = ev.end
<1>1. "end" \in DOMAIN ev
  BY DEF EventRow
<1>. QED  BY <1>1 DEF Overlay

LEMMA StepEnd ==
  ASSUME EditsKeepEnd, TypeOK, EndInv, [Next]_vars
  PROVE  EndInv'
<1>. DEFINE Writes(k) == req[k].at = "write_patch" => req[k].row.end = FirstEvent.end
<1>0. event.end = FirstEvent.end /\ \A k \in Handlers : Writes(k)
  BY DEF EndInv
<1>1. ASSUME NEW h \in Handlers, Handler(h)
      PROVE  event'.end = FirstEvent.end
  <2>1. CASE PatchWrite(h)
    BY <1>0, <2>1 DEF PatchWrite
  <2>2. CASE PublishAvailability(h)
    BY <1>0, <2>2 DEF PublishAvailability, TypeOK, EventRow
  <2>3. CASE ~PatchWrite(h) /\ ~PublishAvailability(h)
    <3>1. event' = event
      BY <1>1, <2>3
      DEF Handler, CreateCheck, CheckBelow, Recount, CreateInsert, InsertRow, VerifySelect,
          ScanSelect, DeleteCheck, StatusCheck, PatchRead, VerifyDropExpired, DeleteRow,
          DeleteThen, VerifyConfirm, ConfirmIn, StatusUpdate, SetStatus, ScanAdmit, AdmitIn
    <3>. QED  BY <1>0, <3>1
  <2>. QED  BY <2>1, <2>2, <2>3
<1>2. ASSUME NEW h \in Handlers, Handler(h), NEW k \in Handlers
      PROVE  Writes(k)'
  <2>1. CASE Quietly(h)
    BY <1>0, <2>1, QuietRequests
  <2>2. ASSUME NEW r, Goto(h, r), r.at = "write_patch" => r.row.end = FirstEvent.end
        PROVE  Writes(k)'
    BY <1>0, <2>2 DEF Goto, TypeOK
  <2>3. ASSUME NEW patch \in Patches,
               Goto(h, [at |-> "write_patch", row |-> Overlay(event, patch)])
        PROVE  Writes(k)'
    <3>1. Overlay(event, patch).end = FirstEvent.end
      BY <1>0, OverlayKeepsEnd DEF EditsKeepEnd, TypeOK
    <3>. QED  BY <2>2, <2>3, <3>1
  <2>. QED  BY <1>2, <2>1, <2>2, <2>3, HandlerRequests
<1>3. ASSUME NEW row \in Puts, PutEvent(row)
      PROVE  event'.end = FirstEvent.end /\ \A k \in Handlers : Writes(k)'
  BY <1>0, <1>3 DEF PutEvent, EditsKeepEnd
<1>4. ASSUME DeleteEvent
      PROVE  event'.end = FirstEvent.end /\ \A k \in Handlers : Writes(k)'
  BY <1>0, <1>4 DEF DeleteEvent, TypeOK, EventRow
<1>5. ASSUME SweepPending \/ SweepRetention \/ Tick \/ Restart \/ UNCHANGED vars
      PROVE  event'.end = FirstEvent.end /\ \A k \in Handlers : Writes(k)'
  BY <1>0, <1>5 DEF SweepPending, SweepRetention, SweepFinished, Tick, Restart, vars, Idle
<1>6. event'.end = FirstEvent.end /\ \A k \in Handlers : Writes(k)'
  BY <1>1, <1>2, <1>3, <1>4, <1>5 DEF Next
<1>. QED  BY <1>6 DEF EndInv

LEMMA EndFixed ==
  ASSUME EditsKeepEnd
  PROVE  Spec => []EndInv
<1>1. Init => EndInv
  BY DEF Init, EndInv, Idle
<1>2. TypeOK /\ EndInv /\ [Next]_vars => EndInv'
  BY StepEnd
<1>. QED  BY <1>1, <1>2, TypeCorrect, PTL DEF Spec

\* The same for the edits that give no new end: whatever else they change, and
\* however late they are written, a verified booking is kept for the retention.
THEOREM EditsRetainTheorem ==
  ASSUME EditsKeepEnd
  PROVE  Spec => VerifiedRetained
<1>1. EndInv /\ EndInv' => event'.end = event.end
  BY DEF EndInv
<1>2. Spec => [][event'.end = event.end]_vars
  BY <1>1, EndFixed, PTL
<1>. QED  BY <1>2, RetainedTheorem, PTL

-----------------------------------------------------------------------------
(* The availability shown                                                  *)

\* The availability that follows from the seats taken now.
Current == AvailabilityOf(Cardinality(Seated), event.total)

\* While the newest count covers every seat: a value about to be published is the
\* right one, and with no recount under way it is the one shown.
Showing == event.exists /\ event.total > 0 /\ ~drift
Publishes(k) == req[k].at = "publish" => req[k].avail = Current
DriftInv == Showing => /\ \A k \in Handlers : Publishes(k)
                       /\ Settled => event.avail = Current

\* A step that moves no seat, no capacity and no recount.
LEMMA Unmoved ==
  ASSUME DriftInv, event'.total = event.total, event'.avail = event.avail,
         Showing' => Showing /\ Seated' = Seated,
         \A k \in Handlers : req'[k].at = "publish" => req'[k] = req[k],
         Settled' => Settled
  PROVE  DriftInv'
<1>1. Showing' => Current' = Current
  BY DEF Current
<1>. QED  BY <1>1 DEF DriftInv, Publishes

LEMMA Passing ==
  ASSUME TypeOK, NEW h \in Handlers, NEW r, Goto(h, r),
         req[h].at \notin {"recount", "publish"}, r.at \notin {"recount", "publish"}
  PROVE  /\ \A k \in Handlers : req'[k].at = "publish" => req'[k] = req[k]
         /\ Settled' => Settled
BY DEF Goto, TypeOK, Settled

\* A request that read something, or wrote no seat.
LEMMA PassingKeeps ==
  ASSUME TypeOK, DriftInv, NEW h \in Handlers, NEW r, Goto(h, r),
         req[h].at \notin {"recount", "publish"}, r.at \notin {"recount", "publish"},
         event' = event, drift' = drift, Seated' = Seated
  PROVE  DriftInv'
<1>1. Showing' => Showing
  BY DEF Showing
<1>. QED  BY <1>1, Passing, Unmoved

\* A seat that moves sends its request to recount; the other requests hold no
\* count then, or the drift is noted.
LEMMA MovingKeeps ==
  ASSUME TypeOK, DriftInv, NEW h \in Handlers, Goto(h, [at |-> "recount"]),
         Overtake(h), event' = event
  PROVE  DriftInv'
<1>1. req'[h].at = "recount" /\ \A k \in Handlers : k # h => req'[k] = req[k]
  BY DEF Goto, TypeOK
<1>2. ~Settled'
  BY <1>1 DEF Settled
<1>3. ASSUME Showing', NEW k \in Handlers
      PROVE  Publishes(k)'
  <2>1. Showing
    BY <1>3 DEF Showing, Overtake
  <2>2. CASE Seated' = Seated
    <3>1. Current' = Current
      BY <2>2 DEF Current
    <3>. QED  BY <1>1, <2>1, <3>1 DEF DriftInv, Publishes
  <2>3. CASE ~Holding(h)
    BY <1>1, <2>3 DEF Holding, Publishes
  <2>. QED  BY <1>3, <2>2, <2>3 DEF Showing, Overtake
<1>. QED  BY <1>2, <1>3 DEF DriftInv

LEMMA HandlerDrift ==
  ASSUME TypeOK, DriftInv, NEW h \in Handlers, Handler(h)
  PROVE  DriftInv'
<1>1. CASE \/ CreateCheck(h)
           \/ \E c \in Bookings :
                \/ VerifySelect(h, c) \/ ScanSelect(h, c) \/ DeleteCheck(h, c)
                \/ \E to \in {"approved", "cancelled"} : StatusCheck(h, c, to)
           \/ \E patch \in Patches : PatchRead(h, patch)
  <2>1. UNCHANGED <<event, rows, drift>>
    BY <1>1 DEF CreateCheck, CheckBelow, VerifySelect, ScanSelect, DeleteCheck, StatusCheck,
                PatchRead, ghosts
  <2>2. event' = event /\ drift' = drift /\ Seated' = Seated
    BY <2>1 DEF Seated
  <2>3. req[h] = Idle
    BY <1>1 DEF CreateCheck, CheckBelow, VerifySelect, ScanSelect, DeleteCheck, StatusCheck,
                PatchRead
  <2>4. req[h].at \notin {"recount", "publish"}
    BY <2>3 DEF Idle
  <2>. DEFINE Passes == \E r : Goto(h, r) /\ r.at \notin {"recount", "publish"}
  <2>5. ASSUME NEW c \in Bookings, VerifySelect(h, c)
        PROVE  Passes
    <3>1. \/ Goto(h, [at |-> "drop_expired", b |-> c])
          \/ Goto(h, [at |-> "confirm", b |-> c, horizon |-> Horizon])
      BY <2>5 DEF VerifySelect
    <3>. QED  BY <3>1
  <2>6. ASSUME NEW c \in Bookings, ScanSelect(h, c) \/ DeleteCheck(h, c)
        PROVE  Passes
    BY <2>6 DEF ScanSelect, DeleteCheck
  <2>7. ASSUME NEW c \in Bookings, NEW to, StatusCheck(h, c, to)
        PROVE  Passes
    BY <2>7 DEF StatusCheck
  <2>8. ASSUME NEW patch, PatchRead(h, patch)
        PROVE  Passes
    BY <2>8 DEF PatchRead
  <2>9. CreateCheck(h) => Passes
    BY DEF CreateCheck, CheckBelow
  <2>. HIDE DEF Passes
  <2>10. Passes
    BY <1>1, <2>5, <2>6, <2>7, <2>8, <2>9
  <2>. QED  BY <2>2, <2>10, <2>4, PassingKeeps DEF Passes
<1>2. CASE CreateInsert(h) \/ VerifyConfirm(h)
  <2>1. event' = event /\ drift' = drift /\ Goto(h, Idle)
    BY <1>2 DEF CreateInsert, InsertRow, VerifyConfirm, ConfirmIn, ghosts, history
  <2>2. ASSUME NEW b \in Bookings
        PROVE  (b \in Seated)' <=> b \in Seated
    BY <1>2 DEF CreateInsert, InsertRow, VerifyConfirm, ConfirmIn, SetRow, Seated, TypeOK
  <2>3. Seated' = Seated
    BY <2>2 DEF Seated
  <2>4. req[h].at \notin {"recount", "publish"} /\ Idle.at \notin {"recount", "publish"}
    BY <1>2 DEF CreateInsert, InsertRow, VerifyConfirm, ConfirmIn, Idle
  <2>. QED  BY <2>1, <2>3, <2>4, PassingKeeps
<1>3. CASE VerifyDropExpired(h)
  <2>1. event' = event /\ Goto(h, Idle) /\ Unseat /\ req[h].at = "drop_expired"
    BY <1>3 DEF VerifyDropExpired
  <2>2. Showing' => Showing /\ Seated' = Seated
    BY <2>1 DEF Showing, Unseat
  <2>3. Idle.at \notin {"recount", "publish"}
    BY DEF Idle
  <2>. QED  BY <2>1, <2>2, <2>3, Passing, Unmoved
<1>4. CASE StatusUpdate(h) \/ ScanAdmit(h) \/ DeleteRow(h)
  <2>1. event' = event /\ Overtake(h) /\ req[h].at \in {"set_status", "admit", "delete"}
    BY <1>4 DEF StatusUpdate, SetStatus, ScanAdmit, AdmitIn, DeleteRow, DeleteThen
  <2>2. \/ Goto(h, [at |-> "recount"])
        \/ Goto(h, Idle) /\ rows' = rows
    BY <1>4 DEF StatusUpdate, SetStatus, ScanAdmit, AdmitIn, DeleteRow, DeleteThen
  <2>3. CASE Goto(h, Idle) /\ rows' = rows
    <3>1. Seated' = Seated
      BY <2>3 DEF Seated
    <3>2. Showing' => Showing
      BY <2>1 DEF Showing, Overtake
    <3>3. Idle.at \notin {"recount", "publish"}
      BY DEF Idle
    <3>. QED  BY <2>1, <2>3, <3>1, <3>2, <3>3, Passing, Unmoved
  <2>. QED  BY <2>1, <2>2, <2>3, MovingKeeps
<1>5. CASE Recount(h)
  <2>1. event' = event /\ rows' = rows /\ drift' = (Holding(h) \/ (drift /\ event.total = 0))
    BY <1>5 DEF Recount
  <2>2. Seated' = Seated
    BY <2>1 DEF Seated
  <2>3. Current' = Current
    BY <2>1, <2>2 DEF Current
  <2>4. SUFFICES ASSUME Showing'
                 PROVE  (\A k \in Handlers : Publishes(k)') /\ ~Settled'
    BY DEF DriftInv
  <2>5. event.exists /\ event.total > 0 /\ ~Holding(h)
    BY <2>1, <2>4 DEF Showing
  <2>6. Goto(h, [at |-> "publish", avail |-> Current])
    BY <1>5, <2>5 DEF Recount, Current
  <2>7. /\ req'[h] = [at |-> "publish", avail |-> Current]
        /\ \A k \in Handlers : k # h => req'[k] = req[k]
    BY <2>6 DEF Goto, TypeOK
  <2>8. \A k \in Handlers : k # h => req[k].at # "publish"
    BY <2>5 DEF Holding
  <2>. QED  BY <2>3, <2>7, <2>8 DEF Publishes, Settled
<1>6. CASE PublishAvailability(h)
  <2>1. req[h].at = "publish" /\ Goto(h, Idle) /\ rows' = rows /\ drift' = drift
    BY <1>6 DEF PublishAvailability, ghosts, history
  <2>2. /\ event'.exists = event.exists /\ event'.total = event.total
        /\ event.exists => event'.avail = req[h].avail
    BY <1>6 DEF PublishAvailability, TypeOK, EventRow
  <2>3. Seated' = Seated
    BY <2>1 DEF Seated
  <2>4. Current' = Current /\ (Showing' => Showing)
    BY <2>1, <2>2, <2>3 DEF Current, Showing
  <2>5. Showing => event'.avail = Current
    BY <2>1, <2>2 DEF Showing, DriftInv, Publishes
  <2>6. \A k \in Handlers : req'[k] = req[k] \/ req'[k] = Idle
    BY <2>1 DEF Goto, TypeOK
  <2>. QED  BY <2>4, <2>5, <2>6 DEF DriftInv, Publishes, Idle
<1>7. CASE PatchWrite(h)
  <2>1. /\ req[h].at = "write_patch" /\ Goto(h, Idle) /\ Rewrite /\ rows' = rows
        /\ event' = IF event.exists THEN req[h].row ELSE event
    BY <1>7 DEF PatchWrite
  <2>2. Seated' = Seated
    BY <2>1 DEF Seated
  <2>3. Idle.at \notin {"recount", "publish"}
    BY DEF Idle
  <2>4. CASE Showing'
    <3>1. event'.total = event.total /\ event'.avail = event.avail /\ Showing
      BY <2>1, <2>4 DEF Showing, Rewrite
    <3>. QED  BY <2>1, <2>2, <2>3, <3>1, Passing, Unmoved
  <2>5. CASE ~Showing'
    BY <2>5 DEF DriftInv
  <2>. QED  BY <2>4, <2>5
<1>. QED  BY <1>1, <1>2, <1>3, <1>4, <1>5, <1>6, <1>7 DEF Handler

LEMMA StepDrift ==
  ASSUME TypeOK, DriftInv, [Next]_vars
  PROVE  DriftInv'
<1>1. ASSUME NEW row \in Puts, PutEvent(row)
      PROVE  DriftInv'
  <2>1. Rewrite /\ event.exists /\ UNCHANGED <<req, rows>>
    BY <1>1 DEF PutEvent
  <2>2. Seated' = Seated
    BY <2>1 DEF Seated
  <2>3. CASE Showing'
    <3>1. event'.total = event.total /\ event'.avail = event.avail /\ Showing
      BY <2>1, <2>3 DEF Showing, Rewrite
    <3>. QED  BY <2>1, <2>2, <3>1, Unmoved DEF Settled
  <2>4. CASE ~Showing'
    BY <2>4 DEF DriftInv
  <2>. QED  BY <2>3, <2>4
<1>2. CASE DeleteEvent
  <2>1. ~Showing'
    BY <1>2 DEF DeleteEvent, Showing, TypeOK, EventRow
  <2>. QED  BY <2>1 DEF DriftInv
<1>3. CASE SweepPending
  <2>1. ASSUME NEW b \in Bookings
        PROVE  (b \in Seated)' <=> b \in Seated
    BY <1>3 DEF SweepPending, Sweep, Gone, Seated
  <2>2. Seated' = Seated
    BY <2>1 DEF Seated
  <2>3. event' = event /\ req' = req /\ drift' = drift
    BY <1>3 DEF SweepPending, ghosts, history
  <2>. QED  BY <2>2, <2>3, Unmoved DEF Showing, Settled
<1>4. CASE SweepRetention
  <2>1. event' = event /\ req' = req /\ Unseat
    BY <1>4 DEF SweepRetention, SweepFinished
  <2>2. Showing' => Showing /\ Seated' = Seated
    BY <2>1 DEF Showing, Unseat
  <2>. QED  BY <2>1, <2>2, Unmoved DEF Settled
<1>5. CASE Tick \/ UNCHANGED vars
  <2>1. UNCHANGED <<event, req, rows, drift>>
    BY <1>5 DEF Tick, vars, ghosts, history
  <2>2. Seated' = Seated
    BY <2>1 DEF Seated
  <2>. QED  BY <2>1, <2>2, Unmoved DEF Showing, Settled
<1>6. CASE Restart
  <2>1. /\ event' = event /\ rows' = rows /\ drift' = (drift \/ ~Settled)
        /\ \A k \in Handlers : req'[k] = Idle
    BY <1>6 DEF Restart
  <2>2. Seated' = Seated
    BY <2>1 DEF Seated
  <2>3. CASE Settled
    <3>1. Showing' => Showing
      BY <2>1 DEF Showing
    <3>. QED  BY <2>1, <2>2, <2>3, <3>1, Unmoved DEF Idle
  <2>4. CASE ~Settled
    BY <2>1, <2>4 DEF DriftInv, Showing
  <2>. QED  BY <2>3, <2>4
<1>. QED  BY <1>1, <1>2, <1>3, <1>4, <1>5, <1>6, HandlerDrift DEF Next

LEMMA EmptyHall ==
  ASSUME NEW n \in Nat, n > 0
  PROVE  AvailabilityOf(0, n) = ""
  BY DEF AvailabilityOf

LEMMA InitDrift == Init => DriftInv
<1>. SUFFICES ASSUME Init
              PROVE  DriftInv
  OBVIOUS
<1>1. Seated = {}
  BY DEF Init, Seated
<1>2. Cardinality(Seated) = 0
  BY <1>1, FS_EmptySet
<1>3. \A k \in Handlers : req[k].at = "idle"
  BY DEF Init, Idle
<1>4. event = FirstEvent /\ FirstEvent.total \in Nat
  BY BookingsAssumption DEF Init, EventRow
<1>5. ~drift => FirstEvent.avail = ""
  BY Zenon DEF Init, Preset
<1>. QED  BY <1>2, <1>3, <1>4, <1>5, EmptyHall DEF DriftInv, Showing, Publishes, Current

\* For any number of bookings, requests and restarts, and whatever the organiser
\* writes: with no recount under way, the event shows the availability of its
\* seated bookings, or one of the named causes came after the newest count
\* (updateEventAvailability).
THEOREM AvailabilityTheorem == Spec => []AvailabilityExplained
<1>1. TypeOK /\ DriftInv /\ [Next]_vars => DriftInv'
  BY StepDrift
<1>2. DriftInv => AvailabilityExplained
  BY DEF DriftInv, AvailabilityExplained, Showing, Current
<1>. QED  BY <1>1, <1>2, InitDrift, TypeCorrect, PTL DEF Spec

-----------------------------------------------------------------------------
(* A scan that is about to admit has seen a ticket                          *)

AdmitsTickets == \A h \in Handlers : req[h].at = "admit" => tickets[req[h].b] # {}

\* Where a step leaves the request it moves.
Sent(h, r) == req' = [req EXCEPT ![h] = r]
SentElsewhere(h) == \E r : Sent(h, r) /\ r.at # "admit"

LEMMA Elsewhere ==
  ASSUME NEW h, NEW r, Goto(h, r), r.at # "admit"
  PROVE  SentElsewhere(h)
  BY DEF SentElsewhere, Sent, Goto

LEMMA SentKeepsAdmits ==
  ASSUME TypeOK, AdmitsTickets, NEW h \in Handlers, NEW r, Sent(h, r), r.at # "admit",
         \A b \in Bookings : tickets[b] \subseteq tickets'[b]
  PROVE  AdmitsTickets'
<1>1. ASSUME NEW k \in Handlers, req'[k].at = "admit"
      PROVE  tickets'[req'[k].b] # {}
  <2>1. k # h /\ req'[k] = req[k]
    BY <1>1 DEF Sent, TypeOK
  <2>2. req[k].b \in Bookings /\ tickets[req[k].b] # {}
    BY <1>1, <2>1, RequestShapes DEF AdmitsTickets, TypeOK
  <2>. QED  BY <2>1, <2>2
<1>. QED  BY <1>1 DEF AdmitsTickets

LEMMA StepAdmits ==
  ASSUME TypeOK, AdmitsTickets, [Next]_vars
  PROVE  AdmitsTickets'
<1>1. ASSUME NEW h \in Handlers,
             \/ CreateCheck(h) \/ CreateInsert(h) \/ VerifyDropExpired(h) \/ DeleteRow(h)
             \/ Recount(h) \/ PublishAvailability(h) \/ PatchWrite(h)
             \/ StatusUpdate(h) \/ ScanAdmit(h)
             \/ \E c \in Bookings :
                  \/ VerifySelect(h, c) \/ DeleteCheck(h, c)
                  \/ \E to \in {"approved", "cancelled"} : StatusCheck(h, c, to)
             \/ \E patch \in Patches : PatchRead(h, patch)
      PROVE  AdmitsTickets'
  <2>1. tickets' = tickets
    BY <1>1 DEF CreateCheck, CheckBelow, CreateInsert, InsertRow, VerifyDropExpired, DeleteRow,
       DeleteThen, Recount, PublishAvailability, PatchWrite, StatusUpdate, SetStatus, ScanAdmit,
       AdmitIn, VerifySelect, DeleteCheck, StatusCheck, PatchRead, ghosts, history
  <2>2. SentElsewhere(h)
    <3>1. /\ Idle.at # "admit" /\ [at |-> "insert"].at # "admit" /\ [at |-> "recount"].at # "admit"
          /\ \A a : [at |-> "publish", avail |-> a].at # "admit"
      BY DEF Idle
    <3>2. CASE CreateCheck(h) \/ CreateInsert(h) \/ VerifyDropExpired(h) \/ DeleteRow(h)
      BY <3>1, <3>2, Elsewhere DEF CreateCheck, CheckBelow, CreateInsert, InsertRow,
                                   VerifyDropExpired, DeleteRow, DeleteThen
    <3>3. CASE PublishAvailability(h) \/ PatchWrite(h) \/ StatusUpdate(h) \/ ScanAdmit(h)
      BY <3>1, <3>3, Elsewhere DEF PublishAvailability, PatchWrite, StatusUpdate, SetStatus,
                                   ScanAdmit, AdmitIn
    <3>4. CASE Recount(h)
      BY <3>1, <3>4, Elsewhere DEF Recount
    <3>5. ASSUME NEW c \in Bookings, VerifySelect(h, c)
          PROVE  SentElsewhere(h)
      <4>1. \A b, n : [at |-> "confirm", b |-> b, horizon |-> n].at # "admit"
        OBVIOUS
      <4>2. \A b : [at |-> "drop_expired", b |-> b].at # "admit"
        OBVIOUS
      <4>. QED  BY <3>5, <4>1, <4>2, Elsewhere DEF VerifySelect
    <3>6. ASSUME NEW c \in Bookings, DeleteCheck(h, c)
          PROVE  SentElsewhere(h)
      BY <3>6, Elsewhere DEF DeleteCheck
    <3>7. ASSUME NEW c \in Bookings, NEW to \in {"approved", "cancelled"}, StatusCheck(h, c, to)
          PROVE  SentElsewhere(h)
      BY <3>7, Elsewhere DEF StatusCheck
    <3>8. ASSUME NEW patch \in Patches, PatchRead(h, patch)
          PROVE  SentElsewhere(h)
      BY <3>8, Elsewhere DEF PatchRead
    <3>. QED  BY <1>1, <3>2, <3>3, <3>4, <3>5, <3>6, <3>7, <3>8
  <2>. QED  BY <2>1, <2>2, SentKeepsAdmits DEF SentElsewhere
<1>2. ASSUME NEW h \in Handlers, VerifyConfirm(h)
      PROVE  AdmitsTickets'
  <2>1. Sent(h, Idle) /\ Idle.at # "admit"
    BY <1>2 DEF VerifyConfirm, ConfirmIn, Goto, Sent, Idle
  <2>2. \A b \in Bookings : tickets[b] \subseteq tickets'[b]
    BY <1>2 DEF VerifyConfirm, ConfirmIn, TypeOK
  <2>. QED  BY <2>1, <2>2, SentKeepsAdmits
<1>3. ASSUME NEW h \in Handlers, NEW c \in Bookings, ScanSelect(h, c)
      PROVE  AdmitsTickets'
  <2>1. tickets[c] # {} /\ tickets' = tickets /\ req' = [req EXCEPT ![h] = [at |-> "admit", b |-> c]]
    BY <1>3 DEF ScanSelect, Goto, ghosts, history
  <2>2. ASSUME NEW k \in Handlers, req'[k].at = "admit"
        PROVE  tickets'[req'[k].b] # {}
    <3>1. CASE k = h
      BY <2>1, <3>1 DEF TypeOK
    <3>2. CASE k # h
      <4>1. req'[k] = req[k]
        BY <2>1, <3>2 DEF TypeOK
      <4>. QED  BY <2>1, <2>2, <4>1 DEF AdmitsTickets
    <3>. QED  BY <3>1, <3>2
  <2>. QED  BY <2>2 DEF AdmitsTickets
<1>4. CASE Restart
  <2>1. req' = [h \in Handlers |-> Idle]
    BY <1>4 DEF Restart
  <2>. QED  BY <2>1 DEF AdmitsTickets, Idle
<1>5. CASE \/ \E row \in Puts : PutEvent(row)
           \/ DeleteEvent \/ SweepPending \/ SweepRetention \/ Tick \/ UNCHANGED vars
  <2>1. UNCHANGED <<req, tickets>>
    BY <1>5 DEF PutEvent, DeleteEvent, SweepPending, SweepRetention, SweepFinished, Tick, vars, ghosts, history
  <2>. QED  BY <2>1 DEF AdmitsTickets
<1>. QED
  BY <1>1, <1>2, <1>3, <1>4, <1>5 DEF Next, Handler

RInv == IInv /\ AdmitsTickets

\* A scan that is about to admit a guest has seen the ticket of the booking, which
\* was handed out: for any number of requests.
THEOREM AdmitsInvariant == Spec => []RInv
<1>1. Init => RInv
  <2>1. Init => AdmitsTickets
    BY DEF Init, AdmitsTickets, Idle
  <2>. QED  BY <2>1, InitType, InitHistory DEF RInv, IInv
<1>2. RInv /\ [Next]_vars => RInv'
  BY StepType, StepHistory, StepAdmits DEF RInv, IInv
<1>. QED  BY <1>1, <1>2, PTL DEF Spec

-----------------------------------------------------------------------------
(* What a step on the rows means in the ticket office                      *)

Inside(b) == rows[b].status = "checked_in"

\* A booking that a step leaves as it is, for the office.
Same(b) ==
  /\ TicketOf(b)' = TicketOf(b)
  /\ Inside(b)' = Inside(b)
  /\ admitted'[b] = admitted[b]

LEMMA SameRow ==
  ASSUME NEW b \in Bookings, rows'[b] = rows[b], tickets'[b] = tickets[b], admitted'[b] = admitted[b]
  PROVE  Same(b)
  BY DEF Same, TicketOf, Inside

LEMMA NothingHappens ==
  ASSUME TypeOK, TypeOK', \A b \in Bookings : Same(b)
  PROVE  UNCHANGED Office!officeVars
<1>1. admitted' = admitted
  BY DEF TypeOK, Same
<1>2. [b \in Bookings |-> TicketOf(b)]' = [b \in Bookings |-> TicketOf(b)]
  BY DEF Same
<1>3. [b \in Bookings |-> rows[b].status = "checked_in"]'
        = [b \in Bookings |-> rows[b].status = "checked_in"]
  BY DEF Same, Inside
<1>. QED  BY <1>1, <1>2, <1>3 DEF Office!officeVars

LEMMA ErasingErases ==
  ASSUME TypeOK, NEW gs \in SUBSET Bookings, UNCHANGED <<tickets, admitted>>,
         \A b \in Bookings : rows'[b] = IF b \in gs THEN Gone ELSE rows[b]
  PROVE  Office!OfficeNext
<1>1. \A b \in Bookings : TicketOf(b)' = IF b \in gs THEN "gone" ELSE TicketOf(b)
  BY DEF TicketOf, Gone
<1>2. \A b \in Bookings : Inside(b)' = (b \notin gs /\ Inside(b))
  BY DEF Inside, Gone
<1>3. Office!Erase(gs)
  <2>1. [b \in Bookings |-> TicketOf(b)]'
          = [b \in Bookings |-> IF b \in gs THEN "gone" ELSE [c \in Bookings |-> TicketOf(c)][b]]
    BY <1>1
  <2>2. [b \in Bookings |-> rows[b].status = "checked_in"]'
          = [b \in Bookings |-> b \notin gs /\ [c \in Bookings |-> rows[c].status = "checked_in"][b]]
    BY <1>2 DEF Inside
  <2>. QED  BY <2>1, <2>2 DEF Office!Erase
<1>. QED  BY <1>3 DEF Office!OfficeNext

LEMMA IssuingIssues ==
  ASSUME TypeOK, TypeOK', NEW g \in Bookings, \A b \in Bookings \ {g} : Same(b),
         TicketOf(g) = "none", TicketOf(g)' = "valid", Inside(g)' = Inside(g), admitted' = admitted
  PROVE  Office!OfficeNext
<1>1. [b \in Bookings |-> TicketOf(b)]' = [[b \in Bookings |-> TicketOf(b)] EXCEPT ![g] = "valid"]
  BY DEF Same
<1>2. [b \in Bookings |-> rows[b].status = "checked_in"]'
        = [b \in Bookings |-> rows[b].status = "checked_in"]
  BY DEF Same, Inside
<1>3. Office!Issue(g)
  BY <1>1, <1>2 DEF Office!Issue
<1>. QED  BY <1>3 DEF Office!OfficeNext

LEMMA ReopeningReopens ==
  ASSUME TypeOK, TypeOK', NEW g \in Bookings, \A b \in Bookings \ {g} : Same(b),
         TicketOf(g)' = TicketOf(g), Inside(g), ~Inside(g)', admitted' = admitted
  PROVE  Office!OfficeNext
<1>1. [b \in Bookings |-> TicketOf(b)]' = [b \in Bookings |-> TicketOf(b)]
  BY DEF Same
<1>2. [b \in Bookings |-> rows[b].status = "checked_in"]'
        = [[b \in Bookings |-> rows[b].status = "checked_in"] EXCEPT ![g] = FALSE]
  BY DEF Same, Inside
<1>3. Office!Reopen(g)
  BY <1>1, <1>2 DEF Office!Reopen, Inside
<1>. QED  BY <1>3 DEF Office!OfficeNext

LEMMA AdmittingAdmits ==
  ASSUME TypeOK, TypeOK', NEW g \in Bookings, \A b \in Bookings \ {g} : Same(b),
         TicketOf(g) \in {"valid", "spent"}, TicketOf(g)' = "spent", ~Inside(g), Inside(g)',
         admitted' = [admitted EXCEPT ![g] = @ + 1]
  PROVE  Office!OfficeNext
<1>1. [b \in Bookings |-> TicketOf(b)]' = [[b \in Bookings |-> TicketOf(b)] EXCEPT ![g] = "spent"]
  BY DEF Same
<1>2. [b \in Bookings |-> rows[b].status = "checked_in"]'
        = [[b \in Bookings |-> rows[b].status = "checked_in"] EXCEPT ![g] = TRUE]
  BY DEF Same, Inside
<1>3. Office!Admit(g)
  BY <1>1, <1>2 DEF Office!Admit, Inside
<1>. QED  BY <1>3 DEF Office!OfficeNext

-----------------------------------------------------------------------------
(* Every step                                                              *)

OfficeStep == Office!OfficeNext \/ UNCHANGED Office!officeVars

LEMMA StepImplements ==
  ASSUME RInv, RInv', [Next]_vars
  PROVE  OfficeStep
<1>. USE DEF OfficeStep
<1>0. TypeOK /\ TypeOK' /\ HistoryInv
  BY DEF RInv, IInv
<1>1. ASSUME UNCHANGED <<rows, tickets, admitted>>
      PROVE  OfficeStep
  BY <1>0, <1>1, SameRow, NothingHappens
<1>2. ASSUME NEW h \in Handlers,
             \/ CreateCheck(h) \/ Recount(h) \/ PublishAvailability(h) \/ PatchWrite(h)
             \/ \E c \in Bookings :
                  \/ VerifySelect(h, c) \/ ScanSelect(h, c) \/ DeleteCheck(h, c)
                  \/ \E to \in {"approved", "cancelled"} : StatusCheck(h, c, to)
             \/ \E patch \in Patches : PatchRead(h, patch)
      PROVE  OfficeStep
  <2>1. UNCHANGED <<rows, history>>
    BY <1>2 DEF CreateCheck, CheckBelow, Recount, PublishAvailability, PatchWrite,
                VerifySelect, ScanSelect, DeleteCheck, StatusCheck, PatchRead,
                ghosts, history
  <2>. QED  BY <1>1, <2>1 DEF ghosts, history
<1>3. ASSUME NEW h \in Handlers, VerifyDropExpired(h) \/ DeleteRow(h)
      PROVE  OfficeStep
  <2>1. UNCHANGED history
    BY <1>3 DEF VerifyDropExpired, DeleteRow, DeleteThen, ghosts, history
  <2>2. CASE UNCHANGED rows
    BY <1>1, <2>1, <2>2 DEF ghosts, history
  <2>3. CASE SetRow(req[h].b, Gone)
    <3>1. \A b \in Bookings : rows'[b] = IF b \in {req[h].b} \cap Bookings THEN Gone ELSE rows[b]
      BY <1>0, <2>3 DEF SetRow, TypeOK
    <3>. QED  BY <1>0, <2>1, <3>1, ErasingErases DEF ghosts, history
  <2>. QED  BY <1>3, <2>2, <2>3 DEF VerifyDropExpired, DeleteRow, DeleteThen
<1>4. CASE DeleteEvent \/ SweepPending \/ SweepRetention
  <2>1. UNCHANGED history
    BY <1>4 DEF DeleteEvent, SweepPending, SweepRetention, SweepFinished, ghosts, history
  <2>2. \E doomed \in SUBSET Bookings :
          \A b \in Bookings : rows'[b] = IF b \in doomed THEN Gone ELSE rows[b]
    <3>1. CASE DeleteEvent
      <4>1. \A b \in Bookings : rows'[b] = IF b \in {c \in Bookings : Live(c)} THEN Gone ELSE rows[b]
        BY <3>1 DEF DeleteEvent
      <4>. QED  BY <4>1
    <3>2. ASSUME NEW doomed \in SUBSET Bookings, Sweep(doomed)
          PROVE  \E gs \in SUBSET Bookings :
                   \A b \in Bookings : rows'[b] = IF b \in gs THEN Gone ELSE rows[b]
      BY <3>2 DEF Sweep
    <3>3. CASE SweepPending
      BY <3>2, <3>3 DEF SweepPending
    <3>4. CASE SweepRetention
      BY <3>2, <3>4 DEF SweepRetention, SweepFinished
    <3>. QED  BY <1>4, <3>1, <3>3, <3>4
  <2>. QED  BY <1>0, <2>1, <2>2, ErasingErases DEF ghosts, history
<1>5. CASE (\E row \in Puts : PutEvent(row)) \/ Tick \/ Restart \/ UNCHANGED vars
  <2>1. UNCHANGED <<rows, history>>
    BY <1>5 DEF PutEvent, Tick, Restart, vars, ghosts, history
  <2>. QED  BY <1>1, <2>1 DEF ghosts, history
<1>6. ASSUME NEW h \in Handlers, CreateInsert(h)
      PROVE  OfficeStep
  <2>1. UNCHANGED history
    BY <1>6 DEF CreateInsert, InsertRow, ghosts, history
  <2>2. CASE UNCHANGED rows
    BY <1>1, <2>1, <2>2 DEF ghosts, history
  <2>3. ASSUME NEW c \in Bookings, rows[c].status = "none", NEW n,
               SetRow(c, [status |-> "pending", qr |-> NoQR, expires |-> n])
        PROVE  OfficeStep
    <3>1. rows'[c].status = "pending" /\ \A b \in Bookings \ {c} : rows'[b] = rows[b]
      BY <1>0, <2>3 DEF SetRow, TypeOK
    <3>2. tickets[c] = {} /\ tickets'[c] = {} /\ admitted' = admitted
      BY <1>0, <2>1, <2>3 DEF HistoryInv, History, ghosts, history
    <3>3. Same(c)
      BY <2>3, <3>1, <3>2 DEF Same, TicketOf, Inside
    <3>4. \A b \in Bookings : Same(b)
      BY <2>1, <3>1, <3>3, SameRow DEF ghosts, history
    <3>. QED  BY <1>0, <3>4, NothingHappens
  <2>. QED  BY <1>6, <2>2, <2>3 DEF CreateInsert, InsertRow
<1>7. ASSUME NEW h \in Handlers, VerifyConfirm(h)
      PROVE  OfficeStep
  <2>1. PICK c \in Bookings : c = req[h].b /\ admitted' = admitted
    BY <1>0, <1>7, RequestShapes DEF VerifyConfirm, ConfirmIn, TypeOK
  <2>2. CASE rows[c].status = "pending"
    <3>1. /\ rows'[c] = [status |-> "confirmed", qr |-> h, expires |-> req[h].horizon]
          /\ tickets'[c] = tickets[c] \cup {h}
          /\ \A b \in Bookings \ {c} : rows'[b] = rows[b] /\ tickets'[b] = tickets[b]
      BY <1>0, <1>7, <2>1, <2>2 DEF VerifyConfirm, ConfirmIn, SetRow, TypeOK
    <3>2. TicketOf(c) = "none" /\ ~Inside(c)
      BY <1>0, <2>1, <2>2 DEF HistoryInv, History, TicketOf, Inside
    <3>3. rows'[c].status = "confirmed" /\ rows'[c].qr = h /\ h # NoQR
      BY <3>1, BookingsAssumption
    <3>4. TicketOf(c)' = "valid" /\ ~Inside(c)'
      BY <3>1, <3>3 DEF TicketOf, Inside
    <3>5. \A b \in Bookings \ {c} : Same(b)
      BY <2>1, <3>1, SameRow
    <3>6. Inside(c)' = Inside(c)
      BY <2>2, <3>3 DEF Inside
    <3>. QED  BY <1>0, <2>1, <3>2, <3>4, <3>5, <3>6, IssuingIssues
  <2>3. CASE rows[c].status # "pending"
    BY <1>1, <1>7, <2>1, <2>3 DEF VerifyConfirm, ConfirmIn
  <2>. QED  BY <2>2, <2>3
<1>8. ASSUME NEW h \in Handlers, StatusUpdate(h)
      PROVE  OfficeStep
  <2>1. PICK c \in Bookings :
          /\ c = req[h].b /\ tickets' = tickets /\ admitted' = admitted
          /\ req[h].to \in {"approved", "cancelled"}
    BY <1>0, <1>8, RequestShapes DEF StatusUpdate, SetStatus, TypeOK
  <2>2. CASE Live(c)
    <3>1. /\ rows'[c] = [rows[c] EXCEPT !.status = req[h].to, !.qr = rows[c].qr]
          /\ \A b \in Bookings \ {c} : rows'[b] = rows[b]
      BY <1>0, <1>8, <2>1, <2>2 DEF StatusUpdate, SetStatus, SetRow, TypeOK
    <3>2. rows'[c].status = req[h].to /\ rows'[c].qr = rows[c].qr
      BY <1>0, <2>1, <3>1, RowShapes DEF TypeOK, Row
    <3>3. TicketOf(c)' = TicketOf(c) /\ ~Inside(c)'
      BY <2>1, <2>2, <3>2 DEF TicketOf, Inside, Live
    <3>4. \A b \in Bookings \ {c} : Same(b)
      BY <2>1, <3>1, SameRow
    <3>5. CASE Inside(c)
      BY <1>0, <2>1, <3>3, <3>4, <3>5, ReopeningReopens
    <3>6. CASE ~Inside(c)
      <4>1. Same(c)
        BY <2>1, <3>3, <3>6 DEF Same, Inside
      <4>. QED  BY <1>0, <3>4, <4>1, NothingHappens
    <3>. QED  BY <3>5, <3>6
  <2>3. CASE ~Live(c)
    BY <1>1, <1>8, <2>1, <2>3 DEF StatusUpdate, SetStatus
  <2>. QED  BY <2>2, <2>3
<1>9. ASSUME NEW h \in Handlers, ScanAdmit(h)
      PROVE  OfficeStep
  <2>1. PICK c \in Bookings : c = req[h].b /\ tickets' = tickets /\ tickets[c] # {}
    BY <1>0, <1>9, RequestShapes DEF ScanAdmit, AdmitIn, TypeOK, RInv, AdmitsTickets
  <2>2. CASE rows[c].status \in {"confirmed", "approved"}
    <3>1. /\ rows'[c] = [rows[c] EXCEPT !.status = "checked_in", !.qr = NoQR]
          /\ admitted' = [admitted EXCEPT ![c] = @ + 1]
          /\ \A b \in Bookings \ {c} : rows'[b] = rows[b]
      BY <1>0, <1>9, <2>1, <2>2 DEF ScanAdmit, AdmitIn, SetRow, TypeOK
    <3>2. rows'[c].status = "checked_in" /\ rows'[c].qr = NoQR
      BY <1>0, <2>1, <3>1, RowShapes DEF TypeOK, Row
    <3>3. TicketOf(c) \in {"valid", "spent"} /\ ~Inside(c)
      BY <2>1, <2>2 DEF TicketOf, Inside
    <3>4. TicketOf(c)' = "spent" /\ Inside(c)'
      BY <2>1, <3>2 DEF TicketOf, Inside
    <3>5. \A b \in Bookings \ {c} : admitted'[b] = admitted[b]
      BY <1>0, <3>1 DEF TypeOK
    <3>6. \A b \in Bookings \ {c} : Same(b)
      BY <2>1, <3>1, <3>5, SameRow
    <3>. QED  BY <1>0, <2>1, <3>1, <3>3, <3>4, <3>6, AdmittingAdmits
  <2>3. CASE rows[c].status \notin {"confirmed", "approved"}
    BY <1>1, <1>9, <2>1, <2>3 DEF ScanAdmit, AdmitIn
  <2>. QED  BY <2>2, <2>3
<1>. QED
  BY <1>2, <1>3, <1>4, <1>5, <1>6, <1>7, <1>8, <1>9 DEF Next, Handler

LEMMA InitImplements == Init => Office!OfficeInit
<1>. SUFFICES ASSUME Init
              PROVE  Office!OfficeInit
  OBVIOUS
<1>1. \A b \in Bookings : TicketOf(b) = "none" /\ rows[b].status = "none"
  BY DEF Init, TicketOf
<1>. QED  BY <1>1 DEF Init, Office!OfficeInit

\* The bookings keep the promises of the ticket office, whatever the numbers of
\* rows, requests and event edits.
THEOREM RefinementTheorem == Spec => ImplementsTicketOffice
<1>1. RInv /\ RInv' /\ [Next]_vars => [Office!OfficeNext]_Office!officeVars
  BY StepImplements DEF OfficeStep
<1>. QED  BY <1>1, InitImplements, AdmitsInvariant, PTL DEF Spec, ImplementsTicketOffice, Office!OfficeSpec
=============================================================================
