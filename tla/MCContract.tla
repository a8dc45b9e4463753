------------------------------ MODULE MCContract ------------------------------
(* Instance of Contract for TLC: one key, in the one family there is. *)
EXTENDS Contract

CONSTANT k1

OneFamily == << {k1} >>

=============================================================================
