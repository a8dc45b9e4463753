------------------------------ MODULE Coalescing ------------------------------
(***************************************************************************)
(* How far the coalescing of loaders goes.  ReadThrough with one history   *)
(* variable: the pending requests whose answer another flight of their key *)
(* has already loaded, and which has been live in L1 ever since.           *)
(***************************************************************************)
EXTENDS ReadThrough

VARIABLE loaded

cvars == <<vars, loaded>>

\* A flight of k ends in this step, and not with an error.
Landed(k) ==
  \E r \in Requests : Land(r) /\ key[r] = k /\ held[r] # Err

CInit == Init /\ loaded = {}

CNext ==
  /\ Next
  /\ loaded' = {r \in Requests :
       /\ pc'[r] # "idle" /\ Live(key[r])'
       /\ r \in loaded \/ (pc[r] # "idle" /\ Landed(key[r]))}

CSpec == CInit /\ [][CNext]_cvars

\* cache.go:102 has it that concurrent requests with the same key run the
\* loader once and the others wait for its result: a request never runs the
\* loader for an answer that was loaded while it was under way.
LoaderRunsOnce ==
  [][ \A r \in Requests : Lead(r) => r \notin loaded ]_cvars

=============================================================================
