---------------------------- MODULE TicketOffice ----------------------------
(***************************************************************************)
(* What the bookings of cmd/dansal promise a guest and the staff at the     *)
(* door, without requests, rows or races: one ticket per booking, which is  *)
(* spent by the first admission; whoever is inside is admitted again only   *)
(* after staff re-opened the booking; what is erased does not come back.    *)
(***************************************************************************)
EXTENDS Naturals

CONSTANT Guests

VARIABLES
  ticket,     \* ticket[g]: "none", "valid", "spent" or "gone"
  inside,     \* inside[g]: admitted, and not re-opened since
  admissions  \* admissions[g]: scans that were answered "welcome"

officeVars == <<ticket, inside, admissions>>

OfficeInit ==
  /\ ticket = [g \in Guests |-> "none"]
  /\ inside = [g \in Guests |-> FALSE]
  /\ admissions = [g \in Guests |-> 0]

Issue(g) ==
  /\ ticket[g] = "none"
  /\ ticket' = [ticket EXCEPT ![g] = "valid"]
  /\ UNCHANGED <<inside, admissions>>

Admit(g) ==
  /\ ticket[g] \in {"valid", "spent"}
  /\ ~inside[g]
  /\ ticket' = [ticket EXCEPT ![g] = "spent"]
  /\ inside' = [inside EXCEPT ![g] = TRUE]
  /\ admissions' = [admissions EXCEPT ![g] = @ + 1]

Reopen(g) ==
  /\ inside[g]
  /\ inside' = [inside EXCEPT ![g] = FALSE]
  /\ UNCHANGED <<ticket, admissions>>

Erase(gs) ==
  /\ ticket' = [g \in Guests |-> IF g \in gs THEN "gone" ELSE ticket[g]]
  /\ inside' = [g \in Guests |-> g \notin gs /\ inside[g]]
  /\ UNCHANGED admissions

OfficeNext ==
  \/ \E g \in Guests : Issue(g) \/ Admit(g) \/ Reopen(g)
  \/ \E gs \in SUBSET Guests : Erase(gs)

OfficeSpec == OfficeInit /\ [][OfficeNext]_officeVars
=============================================================================
