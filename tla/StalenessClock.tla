---------------------------- MODULE StalenessClock ----------------------------
(***************************************************************************)
(* How old an answer can be.  One cache key with the clock that            *)
(* ReadThrough abstracts away: each L1 and L2 entry keeps the age of its   *)
(* data, since it was read from the warehouse, and the time it has left.   *)
(* Clocks count from events, so time itself needs no bound.  Any number    *)
(* of processes share the Redis, each with an L1 of its own, and a SET may *)
(* reach Redis after its client gave up on it.  What does not bear on age  *)
(* is left out: failures, invalidations, and the flights (any number of    *)
(* loaders may run, which sfGroup only restricts).                         *)
(***************************************************************************)
EXTENDS Integers

CONSTANTS
  Requests,   \* request goroutines
  Instances,  \* processes of the program on the same Redis
  TTL,        \* the ttl CachedTTL is called with
  Hold,       \* longest time a goroutine keeps a value before it is stored
  Delay,      \* longest time from a SET that timed out to its effect, if any
  None,       \* no entry
  Expired     \* an entry past its time, not yet removed

ASSUME ClockAssumption ==
  /\ TTL \in Nat /\ Hold \in Nat /\ Delay \in Nat
  /\ None \notin [age : Nat, left : Nat] \cup {Expired}
  /\ Expired \notin [age : Nat, left : Nat]

VARIABLES
  l1,         \* the entry in the L1 of each process: the age of its data and
              \* how long it still counts
  l2,         \* the entry in Redis
  wire,       \* the SETs on their way to Redis: the age of their data, and how
              \* long ago they were sent
  pc, home,   \* of each request: where it is, the process that serves it
  held, kept  \* of each request: the age of the data in hand, and how long it
              \* has been in hand

clockVars == <<l1, l2, wire, pc, home, held, kept>>

Entry == [age : Nat, left : 0..TTL]   \* never kept for longer than its ttl
Sent  == [age : Nat, sent : Nat]

Stamped(age) == [age |-> age, left |-> TTL]            \* time.Now().Add(ttl)
Fresh(entry) == entry \notin {None, Expired}           \* ~now.After(expiresAt)

ClockInit ==
  /\ l1 = [i \in Instances |-> None] /\ l2 = None /\ wire = {}
  /\ pc = [r \in Requests |-> "idle"]
  /\ home \in [Requests -> Instances]
  /\ held = [r \in Requests |-> 0]
  /\ kept = [r \in Requests |-> 0]

\* AnalyticsCache.Get, and the answer it gives at once.
L1Hit(r) ==
  /\ pc[r] = "idle" /\ Fresh(l1[home[r]])
  /\ pc' = [pc EXCEPT ![r] = "done"]
  /\ held' = [held EXCEPT ![r] = l1[home[r]].age]
  /\ UNCHANGED <<l1, l2, wire, home, kept>>

\* An expired entry is removed on the way, in a critical section of its own.
L1Miss(r) ==
  /\ pc[r] = "idle" /\ ~Fresh(l1[home[r]])
  /\ pc' = [pc EXCEPT ![r] = IF l1[home[r]] = None THEN "l2" ELSE "evict"]
  /\ UNCHANGED <<l1, l2, wire, home, held, kept>>

L1Evict(r) ==
  /\ pc[r] = "evict"
  /\ pc' = [pc EXCEPT ![r] = "l2"]
  /\ l1' = [l1 EXCEPT ![home[r]] = None]
  /\ UNCHANGED <<l2, wire, home, held, kept>>

L2Hit(r) ==
  /\ pc[r] = "l2" /\ Fresh(l2)
  /\ pc' = [pc EXCEPT ![r] = "fill"]
  /\ held' = [held EXCEPT ![r] = l2.age]
  /\ UNCHANGED <<l1, l2, wire, home, kept>>

L2Miss(r) ==
  /\ pc[r] = "l2"                      \* no entry, or Redis is not available
  /\ pc' = [pc EXCEPT ![r] = "load"]
  /\ UNCHANGED <<l1, l2, wire, home, held, kept>>

StoreL1(r) == l1' = [l1 EXCEPT ![home[r]] = Stamped(held[r])]

\* (Seeded fault: the value just copied from Redis is written back there.)
FillBoth(r) ==
  /\ pc[r] = "fill"
  /\ StoreL1(r) /\ l2' = Stamped(held[r])
  /\ pc' = [pc EXCEPT ![r] = "done"]
  /\ kept' = [kept EXCEPT ![r] = 0]
  /\ UNCHANGED <<wire, home, held>>

\* The value read from Redis is stored in L1 for a whole TTL of its own.
Fill(r) ==
  /\ pc[r] = "fill"
  /\ StoreL1(r)
  /\ pc' = [pc EXCEPT ![r] = "done"]
  /\ kept' = [kept EXCEPT ![r] = 0]
  /\ UNCHANGED <<l2, wire, home, held>>

Load(r) ==
  /\ pc[r] = "load"
  /\ pc' = [pc EXCEPT ![r] = "setL1"]
  /\ UNCHANGED <<l1, l2, wire, home, held, kept>>

SetL1(r) ==
  /\ pc[r] = "setL1"
  /\ StoreL1(r)
  /\ pc' = [pc EXCEPT ![r] = "setL2"]
  /\ UNCHANGED <<l2, wire, home, held, kept>>

\* Redis takes the SET now, or later, or is off and never does.
SetL2(r) ==
  /\ pc[r] = "setL2"
  /\ \/ l2' = Stamped(held[r]) /\ UNCHANGED wire
     \/ wire' = wire \cup {[age |-> held[r], sent |-> 0]} /\ UNCHANGED l2
     \/ UNCHANGED <<l2, wire>>
  /\ pc' = [pc EXCEPT ![r] = "done"]
  /\ kept' = [kept EXCEPT ![r] = 0]
  /\ UNCHANGED <<l1, home, held>>

\* A SET that arrives late is given its whole ttl then, or it is lost.
LateSet(m) ==
  /\ m \in wire
  /\ wire' = wire \ {m}
  /\ l2' = Stamped(m.age) \/ UNCHANGED l2
  /\ UNCHANGED <<l1, pc, home, held, kept>>

\* The next request may be served by another process.
Reply(r) ==
  /\ pc[r] = "done"
  /\ pc' = [pc EXCEPT ![r] = "idle"]
  /\ \E i \in Instances : home' = [home EXCEPT ![r] = i]
  /\ held' = [held EXCEPT ![r] = 0]
  /\ UNCHANGED <<l1, l2, wire, kept>>

InHand == {r \in Requests : pc[r] \in {"fill", "setL1", "setL2"}}

\* (Seeded fault: Redis keeps entries for ever, as if SET had no expiry.)
AgedForEver(entry) ==
  IF Fresh(entry) THEN [entry EXCEPT !.age = @ + 1] ELSE entry

Aged(entry) ==
  IF ~Fresh(entry) THEN entry
  ELSE IF entry.left = 0 THEN Expired
  ELSE [age |-> entry.age + 1, left |-> entry.left - 1]

\* Time passes, but not while a goroutine has kept its value for Hold already,
\* or a SET has been on its way for Delay.
Tick ==
  /\ \A r \in InHand : kept[r] < Hold
  /\ \A m \in wire : m.sent < Delay
  /\ l1' = [i \in Instances |-> Aged(l1[i])]
  /\ l2' = Aged(l2)
  /\ wire' = {[age |-> m.age + 1, sent |-> m.sent + 1] : m \in wire}
  /\ held' = [r \in Requests |-> held[r] + IF r \in InHand THEN 1 ELSE 0]
  /\ kept' = [r \in Requests |-> kept[r] + IF r \in InHand THEN 1 ELSE 0]
  /\ UNCHANGED <<pc, home>>

ClockNext ==
  \/ \E r \in Requests :
       \/ L1Hit(r) \/ L1Miss(r) \/ L1Evict(r) \/ L2Hit(r) \/ L2Miss(r) \/ Fill(r)
       \/ Load(r) \/ SetL1(r) \/ SetL2(r) \/ Reply(r)
  \/ \E m \in wire : LateSet(m)
  \/ Tick

ClockSpec == ClockInit /\ [][ClockNext]_clockVars

-----------------------------------------------------------------------------
(* Properties.                                                             *)

Places == {"idle", "evict", "l2", "fill", "load", "setL1", "setL2", "done"}

\* Types; a goroutine without a value in hand has none.
ClockTypeOK ==
  /\ l1 \in [Instances -> Entry \cup {None, Expired}]
  /\ l2 \in Entry \cup {None, Expired}
  /\ wire \subseteq Sent
  /\ pc \in [Requests -> Places]
  /\ home \in [Requests -> Instances]
  /\ held \in [Requests -> Nat] /\ kept \in [Requests -> Nat]
  /\ \A r \in Requests :
       /\ pc[r] \in {"idle", "evict", "l2", "load"} => held[r] = 0
       /\ r \notin InHand => kept[r] = 0

\* How old the data of an entry will be when it expires, of a SET when it was
\* sent, and of a value when it was taken in hand.
EntriesExpire ==
  /\ Fresh(l2) => l2.age + l2.left <= TTL + Hold + Delay
  /\ \A i \in Instances :
       Fresh(l1[i]) => l1[i].age + l1[i].left <= 2 * TTL + 2 * Hold + Delay
  /\ \A m \in wire : m.age - m.sent <= Hold /\ m.sent <= Delay
  /\ \A r \in InHand :
       /\ kept[r] <= Hold
       /\ held[r] - kept[r] <= IF pc[r] = "fill" THEN TTL + Hold + Delay ELSE 0

\* No answer of any process is older than two TTLs and the time spent on the
\* way between the caches: L2 hands an entry to L1 at the end of its own life,
\* and L1 keeps it for another.
AgeBounded ==
  \A r \in Requests : pc[r] = "done" => held[r] <= 2 * TTL + 2 * Hold + Delay

\* The TTL table of cache_layer.go:21-24 ("status logistik: 30s"): an answer is
\* no older than the TTL of its kind and the time spent between the caches.
OneTTL ==
  \A r \in Requests : pc[r] = "done" => held[r] <= TTL + 2 * Hold + Delay

=============================================================================
