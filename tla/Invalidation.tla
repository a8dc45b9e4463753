----------------------------- MODULE Invalidation -----------------------------
(***************************************************************************)
(* What POST /api/cache/invalidate achieves.  ReadThrough with history     *)
(* variables: which version the warehouse had when the invalidation began, *)
(* which keys nothing has disturbed since, and, once it has returned, the  *)
(* version below which no copy of such a key survives.                     *)
(*                                                                         *)
(* An invalidation takes no lock and cancels nothing: another may overlap  *)
(* it, a loader's value or a SET on its way to Redis may outlive it.  So   *)
(* it cannot promise to empty the caches: it promises it only for the keys *)
(* it was not raced on.  "quiet" says exactly which those are.             *)
(***************************************************************************)
EXTENDS ReadThrough

VARIABLES
  mark,    \* of each webhook: the version of the warehouse when its call began
  quiet,   \* of each webhook: the keys on which nothing has interfered with it
  floor,   \* of each key: no copy is older than this
  due      \* of each request: the floor of its key when it arrived

history == <<mark, quiet, floor, due>>
hvars   == <<vars, history>>

\* Keys a call in progress has yet to delete from Redis.
Pending(w) ==
  ivBatch[w] \cup (IF ivScan[w] = None THEN {} ELSE ivScan[w])
    \cup {k \in Keys : \E i \in 1..Len(Prefixes) :
            /\ k \in Prefixes[i]
            /\ IF ivScan[w] = None THEN i >= ivPos[w] ELSE i > ivPos[w]}

InHand == {key[r] : r \in {q \in Requests : pc[q] \in Carrying}}
OnWire == {k \in Keys : wire[k] # {}}

HInit ==
  /\ Init
  /\ mark = [w \in Webhooks |-> 0]
  /\ quiet = [w \in Webhooks |-> {}]
  /\ floor = [k \in Keys |-> 0]
  /\ due = [r \in Requests |-> 0]

\* A value of a key in somebody's hands, or on its way to Redis, when L1 is
\* emptied will be stored afterwards, whatever the invalidation does.
Begin(w) ==
  /\ InvalidateL1(w)
  /\ mark' = [mark EXCEPT ![w] = warehouse]
  /\ quiet' = [quiet EXCEPT ![w] = Keys \ (InHand \cup OnWire)]
  /\ UNCHANGED <<floor, due>>

Disturb(w, K) == quiet' = [quiet EXCEPT ![w] = @ \ K]

\* A family is left alone while Redis is thought to be down.
Open(w) ==
  /\ ScanOpen(w)
  /\ Disturb(w, IF Available THEN {} ELSE Prefixes[ivPos[w]])
  /\ UNCHANGED <<mark, floor, due>>

\* A failed DEL leaves its whole batch in place.
Visit(w, k, ok) ==
  /\ ScanVisit(w, k, ok)
  /\ Disturb(w, IF ok THEN {} ELSE ivBatch[w] \cup {k})
  /\ UNCHANGED <<mark, floor, due>>

\* So does a SCAN that ends before it has seen every key.
Close(w, ok) ==
  /\ ScanClose(w, ok)
  /\ Disturb(w, ivScan[w] \cup (IF ok THEN {} ELSE ivBatch[w]))
  /\ UNCHANGED <<mark, floor, due>>

\* What an overlapping call has promised meanwhile is not taken back.
Return(w) ==
  /\ InvalidateReturn(w)
  /\ floor' = [k \in Keys |->
       IF k \in quiet[w] /\ mark[w] > floor[k] THEN mark[w] ELSE floor[k]]
  /\ mark' = [mark EXCEPT ![w] = 0]
  /\ quiet' = [quiet EXCEPT ![w] = {}]
  /\ UNCHANGED due

\* A hit in Redis on a key not yet deleted there puts it back into L1.
ReadL2(r) ==
  /\ L2Hit(r)
  /\ quiet' = [w \in Webhooks |->
       IF key[r] \in Pending(w) THEN quiet[w] \ {key[r]} ELSE quiet[w]]
  /\ UNCHANGED <<mark, floor, due>>

Ask(r, k) ==
  /\ Arrive(r, k)
  /\ due' = [due EXCEPT ![r] = floor[k]]
  /\ UNCHANGED <<mark, quiet, floor>>

Leave(r) ==
  /\ Reply(r)
  /\ due' = [due EXCEPT ![r] = 0]
  /\ UNCHANGED <<mark, quiet, floor>>

Other(r) ==
  /\ \/ L1Hit(r) \/ L1Miss(r) \/ L1Evict(r) \/ L2Miss(r) \/ Fill(r)
     \/ Lead(r) \/ Follow(r) \/ Load(r) \/ LoadFail(r) \/ SetL1(r) \/ SetL2(r)
     \/ Land(r)
  /\ UNCHANGED history

\* The calls the process was serving are gone; what was promised stays.
Reborn ==
  /\ Restart
  /\ mark' = [w \in Webhooks |-> 0]
  /\ quiet' = [w \in Webhooks |-> {}]
  /\ due' = [r \in Requests |-> 0]
  /\ UNCHANGED floor

Outside ==
  /\ \/ \E k \in Keys : L1Expire(k) \/ L2Expire(k) \/ PeerSet(k)
     \/ \E k \in Keys : \E v \in wire[k] : LateSet(k, v)
     \/ Janitor \/ Refresh \/ HealthCheck
  /\ UNCHANGED history

HNext ==
  \/ \E r \in Requests, k \in Keys : Ask(r, k)
  \/ \E r \in Requests : ReadL2(r) \/ Leave(r) \/ Other(r)
  \/ \E w \in Webhooks : Begin(w) \/ Open(w) \/ Return(w)
  \/ \E w \in Webhooks, k \in Keys, ok \in BOOLEAN : Visit(w, k, ok)
  \/ \E w \in Webhooks, ok \in BOOLEAN : Close(w, ok)
  \/ Reborn
  \/ Outside

HSpec == HInit /\ [][HNext]_hvars

-----------------------------------------------------------------------------
(* Properties.                                                             *)

\* Every copy of a key: cached in L1 (live or not), in Redis, on its way
\* there, or in hand.
Copies(k) ==
  ({l1[k], l2[k]} \cup wire[k] \cup {held[r] : r \in {q \in Requests :
      key[q] = k /\ pc[q] \in Carrying}}) \ {None, Err}

\* Once an invalidation has returned, no copy of a key it was not raced on is
\* older than the refresh it announced: neither a later expiry, nor another
\* flight, nor a SET that arrives late, nor another process, nor a restart that
\* finds Redis as it was brings one back.
NoStaleCopy == \A k \in Keys : \A v \in Copies(k) : v >= floor[k]

\* What the caller of the webhook relies on (health.go:28): a request that
\* arrives after the invalidation returned is answered from data at least as
\* new as the refresh, for every key the invalidation was not raced on.
FreshReplies ==
  \A r \in Requests : pc[r] = "done" /\ held[r] # Err => held[r] >= due[r]

\* The webhook as its comment has it, "kosongkan L1 + L2": when it returns, no
\* cached entry is older than the warehouse was when it was called.
CachesEmptied ==
  [][ \A w \in Webhooks : Return(w) =>
        \A k \in Keys : \A v \in {l1[k], l2[k]} \ {None} : v >= mark[w] ]_hvars

\* The history only moves forward: what a request is owed was promised to its
\* key before, and no promise is ahead of the warehouse.
HistoryOrdered ==
  /\ mark \in [Webhooks -> Version]
  /\ quiet \in [Webhooks -> SUBSET Keys]
  /\ floor \in [Keys -> Version]
  /\ due \in [Requests -> Version]
  /\ \A r \in Requests : pc[r] # "idle" => due[r] <= floor[key[r]]

\* While an invalidation runs, the copies of a key that is still quiet are as
\* new as its mark, except in Redis, where the deletion is still to come: the
\* strengthening that makes NoStaleCopy inductive.
OldOnlyWherePending ==
  \A w \in Webhooks : ivPos[w] # 0 => \A k \in quiet[w] :
    /\ l1[k] # None => l1[k] >= mark[w]
    /\ l2[k] # None => l2[k] >= mark[w] \/ k \in Pending(w)
    /\ \A v \in wire[k] : v >= mark[w]
    /\ \A r \in Requests : key[r] = k /\ pc[r] \in Carrying /\ held[r] # Err
         => held[r] >= mark[w]

\* The two together: what keeps NoStaleCopy true from one step to the next.
PurgeInvariant == HistoryOrdered /\ OldOnlyWherePending

=============================================================================
