--------------------------- MODULE MCRegistration ---------------------------
(* Instances of Registration for TLC.                                      *)
EXTENDS Registration, TLC

Symmetry == Permutations(Users) \cup Permutations(Visitors) \cup Permutations(Invites)
=============================================================================
