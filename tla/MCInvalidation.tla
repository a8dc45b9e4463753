---------------------------- MODULE MCInvalidation ----------------------------
(* Instances of Invalidation for TLC: one key, in the one family there is. *)
EXTENDS Invalidation, TLC

CONSTANT k1

OneFamily == << {k1} >>

Symmetry == Permutations(Requests) \cup Permutations(Webhooks)

=============================================================================
