---------------------------- MODULE CacheContract ----------------------------
(***************************************************************************)
(* What the read-through cache promises, with no L1, no Redis and no       *)
(* flights in it: for each key there is a set of copies, each made of the  *)
(* warehouse as it was at that moment; copies are lost at any time; and a  *)
(* request for a key is answered with one of its copies or with an error.  *)
(* It does not promise the newest copy, only that a version no copy is     *)
(* left of never comes back.  ReadThrough implements it (Contract).        *)
(***************************************************************************)
EXTENDS Naturals

CONSTANTS Requests, Keys, MaxRefresh, Faults, Peers, None, Err

VARIABLES
  warehouse,   \* version of the data
  copies,      \* of each key, the versions there is a copy of
  asked,       \* of each request, the key it asks for
  answer       \* of each request, what it was answered

vars == <<warehouse, copies, asked, answer>>

Init ==
  /\ warehouse = 0
  /\ copies = [k \in Keys |-> {}]
  /\ asked = [r \in Requests |-> None]
  /\ answer = [r \in Requests |-> None]

Ask(r, k) ==
  /\ asked[r] = None
  /\ asked' = [asked EXCEPT ![r] = k]
  /\ UNCHANGED <<warehouse, copies, answer>>

Done(r) ==
  /\ answer[r] # None
  /\ asked' = [asked EXCEPT ![r] = None]
  /\ answer' = [answer EXCEPT ![r] = None]
  /\ UNCHANGED <<warehouse, copies>>

\* A copy is made, for somebody who asked here or in another process, of the
\* data as it is now.
Copy(k) ==
  /\ Peers \/ \E r \in Requests : asked[r] = k /\ answer[r] = None
  /\ copies' = [copies EXCEPT ![k] = @ \cup {warehouse}]
  /\ UNCHANGED <<warehouse, asked, answer>>

Shrink == \A k \in Keys : copies'[k] \subseteq copies[k]

\* Some of the requests for a key are answered together.  Copies may be lost
\* in the same step.
Answer(k, R, v) ==
  /\ \A r \in R : asked[r] = k /\ answer[r] = None
  /\ v \in copies[k] \/ (Faults /\ v = Err)
  /\ answer' = [r \in Requests |-> IF r \in R THEN v ELSE answer[r]]
  /\ copies' \in [Keys -> SUBSET (0..warehouse)] /\ Shrink
  /\ UNCHANGED <<warehouse, asked>>

Lose ==
  /\ copies' \in [Keys -> SUBSET (0..warehouse)] /\ Shrink
  /\ UNCHANGED <<warehouse, asked, answer>>

\* The process dies: its requests are gone, copies outside it may survive.
Crash ==
  /\ Faults
  /\ copies' \in [Keys -> SUBSET (0..warehouse)] /\ Shrink
  /\ asked' = [r \in Requests |-> None]
  /\ answer' = [r \in Requests |-> None]
  /\ UNCHANGED warehouse

Refresh ==
  /\ warehouse < MaxRefresh
  /\ warehouse' = warehouse + 1
  /\ UNCHANGED <<copies, asked, answer>>

Next ==
  \/ \E r \in Requests, k \in Keys : Ask(r, k)
  \/ \E r \in Requests : Done(r)
  \/ \E k \in Keys : Copy(k)
  \/ \E k \in Keys, R \in SUBSET Requests, v \in (0..warehouse) \cup {Err} :
       Answer(k, R, v)
  \/ Lose \/ Crash \/ Refresh

Spec == Init /\ [][Next]_vars

=============================================================================
