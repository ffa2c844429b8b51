----------------------------- MODULE MCBookings -----------------------------
(* Instances of Bookings for TLC.                                          *)
EXTENDS Bookings, TLC

\* One event with room for one.
SmallEvent == [exists |-> TRUE, enabled |-> TRUE, total |-> 1, avail |-> "", end |-> 1]
\* tickets_total = 0, no capacity is configured; and the event is over at once.
OpenHouse == [SmallEvent EXCEPT !.total = 0, !.end = 0]

\* An organiser closes bookings and widens the event with a stale form.
OnePut == {[SmallEvent EXCEPT !.total = 2, !.enabled = FALSE]}

\* An organiser edits only the title, and so writes back every column read before.
TitlePatch == {[f \in {} |-> 0]}
None == {}

\* Rows and requests are interchangeable (safety runs only).
Symmetry == Permutations(Bookings) \cup Permutations(Handlers)
=============================================================================
