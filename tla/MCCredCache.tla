---------------------------- MODULE MCCredCache -----------------------------
(* Instances of CredCache for TLC.                                         *)
EXTENDS CredCache, TLC

None == {}
Symmetry == Permutations(Tokens) \cup Permutations(Keys) \cup Permutations(Requests)

=============================================================================
