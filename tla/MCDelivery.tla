----------------------------- MODULE MCDelivery -----------------------------
(* Instances of Delivery for TLC.                                          *)
EXTENDS Delivery, TLC

Everyone == Targets \X Followers
Nobody == {}
OrgsOnly == Orgs \X Followers

\* Events that start one after the other.
OneByOne ==
  CHOOSE s \in [Events -> 1..Cardinality(Events)] : \A d, e \in Events : s[d] = s[e] => d = e

\* Organisations are interchangeable (safety runs only).
Symmetry == Permutations(Orgs)
=============================================================================
