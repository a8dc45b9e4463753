----------------------------- MODULE MCCoalescing -----------------------------
(* Instance of Coalescing for TLC. *)
EXTENDS Coalescing

CONSTANTS k1

OneFamily == << {k1} >>

=============================================================================
