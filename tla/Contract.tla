------------------------------- MODULE Contract -------------------------------
(***************************************************************************)
(* ReadThrough implements CacheContract.  A copy of a key is its L1 entry, *)
(* its Redis entry, or the value a goroutine carries from one to another;  *)
(* a request has been answered when CachedTTL has returned.                *)
(***************************************************************************)
EXTENDS ReadThrough

CopiesOf(k) ==
  ({l1[k], l2[k]} \cup wire[k] \cup {held[r] : r \in {q \in Requests :
      key[q] = k /\ pc[q] \in Carrying}}) \ {None, Err}

Answers == [r \in Requests |-> IF pc[r] = "done" THEN held[r] ELSE None]

Promise == INSTANCE CacheContract WITH
  copies <- [k \in Keys |-> CopiesOf(k)],
  asked  <- key,
  answer <- Answers

\* Every behaviour of the cache is one the contract allows: an answer is a copy
\* of its own key made while the data was that version, a follower gets what its
\* leader got, and a version whose last copy is gone is never served again.
ImplementsContract == Promise!Spec

=============================================================================
