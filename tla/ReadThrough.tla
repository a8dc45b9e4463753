----------------------------- MODULE ReadThrough -----------------------------
(***************************************************************************)
(* The read-through cache every analytics endpoint goes through            *)
(* (database.CachedTTL): L1, an in-memory map with a TTL per entry; L2, a   *)
(* Redis server; and a loader that queries the warehouse table, coalesced  *)
(* per key by golang.org/x/sync/singleflight.  Around it: the L1 janitor,  *)
(* the Redis health loop, calls of the invalidation webhook that may       *)
(* overlap, the refresh of the warehouse they announce, a crash and        *)
(* restart of the process, and other processes that share its Redis.       *)
(*                                                                         *)
(* The payload of an answer is abstracted to the version of the warehouse  *)
(* its loader read.  Time is abstracted too: an entry may expire at any    *)
(* moment (StalenessClock keeps the clock and leaves the flights out).     *)
(* Another process is seen here by what it does to Redis: it deletes keys, *)
(* which L2Expire covers, and it sets them, which PeerSet does.            *)
(***************************************************************************)
EXTENDS Naturals, Sequences, FiniteSets

CONSTANTS
  Requests,      \* request goroutines (each one serves requests for ever)
  Keys,          \* cache keys, "op:sha1(payload)"
  Webhooks,      \* goroutines serving POST /api/cache/invalidate
  Prefixes,      \* the key families, in the order InvalidateAll scans them
  BatchSize,     \* keys per DEL while scanning (200 in the code)
  MaxRefresh,    \* bound: how often the warehouse is refreshed
  Faults,        \* may Redis fail, the loader fail, the process restart?
  Peers,         \* are there other processes on the same Redis?
  None,          \* no entry, no value
  Err            \* the error a failed loader returns

ASSUME ConstantsAssumption ==
  /\ Prefixes \in Seq(SUBSET Keys)
  /\ \A k \in Keys : \E i \in 1..Len(Prefixes) : k \in Prefixes[i]
  /\ BatchSize \in Nat \ {0}
  /\ MaxRefresh \in Nat
  /\ Faults \in BOOLEAN /\ Peers \in BOOLEAN
  /\ None \notin Nat \cup {Err} \cup Keys \cup Requests
  /\ \A S \in SUBSET Keys : S # None
  /\ Err \notin Nat

VARIABLES
  warehouse,     \* version of marts_ecommerce
  l1,            \* AnalyticsCache.store: the version cached for each key
  expired,       \* the keys whose L1 entry is past its expiresAt
  l2,            \* what Redis holds for each key
  wire,          \* the versions SETs still on their way to Redis carry
  redis,         \* RedisClient and redisAlive: "nil", "down" or "up"
  flight,        \* sfGroup: the request leading the flight of each key
  pc, key, held, \* of each request: where it is, its key, the value in hand
  ivPos,         \* of each webhook: 0 idle, else the family it is at
  ivScan,        \* the keys of that family SCAN has yet to visit
  ivBatch        \* the keys collected for the next DEL

l1Vars      == <<l1, expired>>
l2Vars      == <<l2, wire>>
requestVars == <<pc, key, held>>
ivVars      == <<ivPos, ivScan, ivBatch>>
vars == <<warehouse, l1Vars, l2Vars, redis, flight, requestVars, ivVars>>

Version   == 0..warehouse
Entry     == Version \cup {None}
Available == redis = "up"                       \* RedisAvailable()
Live(k)   == l1[k] # None /\ k \notin expired   \* SimpleCache.Get would hit

\* Where a leader of a flight can be, and where a goroutine has a value in hand.
Leading  == {"load", "setL1", "setL2", "land"}
Carrying == {"fill", "setL1", "setL2", "land"}
Places   == {"idle", "l1", "evict", "l2", "flight", "wait", "done"}
              \cup Leading \cup Carrying

Init ==
  /\ warehouse = 0
  /\ l1 = [k \in Keys |-> None]
  /\ expired = {}
  /\ l2 = [k \in Keys |-> None]
  /\ wire = [k \in Keys |-> {}]
  /\ redis \in {"nil", "up"}                    \* InitRedis: off, or pinged
  /\ flight = [k \in Keys |-> None]
  /\ pc = [r \in Requests |-> "idle"]
  /\ key = [r \in Requests |-> None]
  /\ held = [r \in Requests |-> None]
  /\ ivPos = [w \in Webhooks |-> 0]
  /\ ivScan = [w \in Webhooks |-> None]
  /\ ivBatch = [w \in Webhooks |-> {}]

-----------------------------------------------------------------------------
(* A request: CachedTTL(key, ttl, loader).                                 *)

Arrive(r, k) ==
  /\ pc[r] = "idle"
  /\ pc' = [pc EXCEPT ![r] = "l1"]
  /\ key' = [key EXCEPT ![r] = k]
  /\ UNCHANGED <<warehouse, l1Vars, l2Vars, redis, flight, held, ivVars>>

\* AnalyticsCache.Get finds an entry that has not expired.
L1Hit(r) ==
  /\ pc[r] = "l1" /\ Live(key[r])
  /\ pc' = [pc EXCEPT ![r] = "done"]
  /\ held' = [held EXCEPT ![r] = l1[key[r]]]
  /\ UNCHANGED <<warehouse, l1Vars, l2Vars, redis, flight, key, ivVars>>

\* Get finds nothing, or an expired entry it must go back and delete: the
\* read lock is released before the write lock is taken.
L1Miss(r) ==
  /\ pc[r] = "l1" /\ ~Live(key[r])
  /\ pc' = [pc EXCEPT ![r] = IF l1[key[r]] = None THEN "l2" ELSE "evict"]
  /\ UNCHANGED <<warehouse, l1Vars, l2Vars, redis, flight, key, held, ivVars>>

\* delete(c.store, key): whatever entry is there by now.
L1Evict(r) ==
  /\ pc[r] = "evict"
  /\ pc' = [pc EXCEPT ![r] = "l2"]
  /\ l1' = [l1 EXCEPT ![key[r]] = None]
  /\ expired' = expired \ {key[r]}
  /\ UNCHANGED <<warehouse, l2Vars, redis, flight, key, held, ivVars>>

L2Hit(r) ==
  /\ pc[r] = "l2" /\ Available /\ l2[key[r]] # None
  /\ pc' = [pc EXCEPT ![r] = "fill"]
  /\ held' = [held EXCEPT ![r] = l2[key[r]]]
  /\ UNCHANGED <<warehouse, l1Vars, l2Vars, redis, flight, key, ivVars>>

\* Redis is skipped, has no such key, or the GET failed or timed out: the
\* error is dropped and the request goes on to the loader.
L2Miss(r) ==
  /\ pc[r] = "l2" /\ (~Available \/ l2[key[r]] = None \/ Faults)
  /\ pc' = [pc EXCEPT ![r] = "flight"]
  /\ UNCHANGED <<warehouse, l1Vars, l2Vars, redis, flight, key, held, ivVars>>

\* SetWithTTL of the value in hand, under the L1 lock.
StoreL1(r) ==
  /\ l1' = [l1 EXCEPT ![key[r]] = held[r]]
  /\ expired' = expired \ {key[r]}

\* The L2 hit is copied into L1 and returned.
Fill(r) ==
  /\ pc[r] = "fill"
  /\ StoreL1(r)
  /\ pc' = [pc EXCEPT ![r] = "done"]
  /\ UNCHANGED <<warehouse, l2Vars, redis, flight, key, held, ivVars>>

\* (Seeded fault: no coalescing, every caller leads.)
LeadAlways(r) ==
  /\ pc[r] = "flight"
  /\ flight' = [flight EXCEPT ![key[r]] = r]
  /\ pc' = [pc EXCEPT ![r] = "load"]
  /\ UNCHANGED <<warehouse, l1Vars, l2Vars, redis, key, held, ivVars>>

\* sfGroup.Do: the first caller of a key leads, the others wait for it.
Lead(r) ==
  /\ pc[r] = "flight" /\ flight[key[r]] = None
  /\ flight' = [flight EXCEPT ![key[r]] = r]
  /\ pc' = [pc EXCEPT ![r] = "load"]
  /\ UNCHANGED <<warehouse, l1Vars, l2Vars, redis, key, held, ivVars>>

Follow(r) ==
  /\ pc[r] = "flight" /\ flight[key[r]] # None
  /\ pc' = [pc EXCEPT ![r] = "wait"]
  /\ UNCHANGED <<warehouse, l1Vars, l2Vars, redis, flight, key, held, ivVars>>

Load(r) ==
  /\ pc[r] = "load"
  /\ pc' = [pc EXCEPT ![r] = "setL1"]
  /\ held' = [held EXCEPT ![r] = warehouse]
  /\ UNCHANGED <<warehouse, l1Vars, l2Vars, redis, flight, key, ivVars>>

\* (Seeded fault: the loader's error is not looked at, its result is cached.)
LoadFailCached(r) ==
  /\ pc[r] = "load" /\ Faults
  /\ pc' = [pc EXCEPT ![r] = "setL1"]
  /\ held' = [held EXCEPT ![r] = Err]
  /\ UNCHANGED <<warehouse, l1Vars, l2Vars, redis, flight, key, ivVars>>

\* (Seeded fault: the error returns past the flight, which is never removed.)
LoadFailLeaves(r) ==
  /\ pc[r] = "load" /\ Faults
  /\ pc' = [pc EXCEPT ![r] = "done"]
  /\ held' = [held EXCEPT ![r] = Err]
  /\ UNCHANGED <<warehouse, l1Vars, l2Vars, redis, flight, key, ivVars>>

\* The loader returns an error: nothing is cached.
LoadFail(r) ==
  /\ pc[r] = "load" /\ Faults
  /\ pc' = [pc EXCEPT ![r] = "land"]
  /\ held' = [held EXCEPT ![r] = Err]
  /\ UNCHANGED <<warehouse, l1Vars, l2Vars, redis, flight, key, ivVars>>

SetL1(r) ==
  /\ pc[r] = "setL1"
  /\ StoreL1(r)
  /\ pc' = [pc EXCEPT ![r] = "setL2"]
  /\ UNCHANGED <<warehouse, l2Vars, redis, flight, key, held, ivVars>>

\* RedisSetJSON: skipped when Redis is off; a failure is only logged.  A SET
\* that timed out, or one the client sent again, may reach Redis later.
SetL2(r) ==
  /\ pc[r] = "setL2"
  /\ \E now, late \in BOOLEAN :
       /\ now \/ late => Available
       /\ ~now \/ late => ~Available \/ Faults
       /\ l2' = IF now THEN [l2 EXCEPT ![key[r]] = held[r]] ELSE l2
       /\ wire' = IF late THEN [wire EXCEPT ![key[r]] = @ \cup {held[r]}] ELSE wire
  /\ pc' = [pc EXCEPT ![r] = "land"]
  /\ UNCHANGED <<warehouse, l1Vars, redis, flight, key, held, ivVars>>

Waiting(r) == {w \in Requests : pc[w] = "wait" /\ key[w] = key[r]}

\* (Seeded fault: the flight ends without waking those who wait for it.)
LandAlone(r) ==
  /\ pc[r] = "land"
  /\ flight' = [flight EXCEPT ![key[r]] = None]
  /\ pc' = [pc EXCEPT ![r] = "done"]
  /\ UNCHANGED <<warehouse, l1Vars, l2Vars, redis, key, held, ivVars>>

\* (Seeded fault: who waited looks into L1 instead of taking the result.)
LandRereads(r) ==
  /\ pc[r] = "land"
  /\ flight' = [flight EXCEPT ![key[r]] = None]
  /\ pc' = [w \in Requests |-> IF w \in Waiting(r) \cup {r} THEN "done" ELSE pc[w]]
  /\ held' = [w \in Requests |-> IF w \in Waiting(r) THEN l1[key[r]] ELSE held[w]]
  /\ UNCHANGED <<warehouse, l1Vars, l2Vars, redis, key, ivVars>>

\* The flight ends: its entry is removed, and everyone who waits for it gets
\* the leader's result, value or error.
Land(r) ==
  /\ pc[r] = "land"
  /\ flight' = [flight EXCEPT ![key[r]] = None]
  /\ pc' = [w \in Requests |-> IF w \in Waiting(r) \cup {r} THEN "done" ELSE pc[w]]
  /\ held' = [w \in Requests |-> IF w \in Waiting(r) THEN held[r] ELSE held[w]]
  /\ UNCHANGED <<warehouse, l1Vars, l2Vars, redis, key, ivVars>>

\* The handler answers: 200 with the value, 500 with the error.
Reply(r) ==
  /\ pc[r] = "done"
  /\ pc' = [pc EXCEPT ![r] = "idle"]
  /\ key' = [key EXCEPT ![r] = None]
  /\ held' = [held EXCEPT ![r] = None]
  /\ UNCHANGED <<warehouse, l1Vars, l2Vars, redis, flight, ivVars>>

Step(r) ==
  \/ L1Hit(r) \/ L1Miss(r) \/ L1Evict(r) \/ L2Hit(r) \/ L2Miss(r) \/ Fill(r)
  \/ Lead(r) \/ Follow(r) \/ Load(r) \/ LoadFail(r) \/ SetL1(r) \/ SetL2(r)
  \/ Land(r) \/ Reply(r)

-----------------------------------------------------------------------------
(* InvalidateAll: L1 first, then each family of Redis keys by SCAN + DEL.  *)
(* It takes no lock: two calls may be under way at the same time.          *)

\* (Seeded fault: Invalidate drops only what the janitor would drop.)
InvalidateExpired(w) ==
  /\ ivPos[w] = 0
  /\ l1' = [k \in Keys |-> IF k \in expired THEN None ELSE l1[k]]
  /\ expired' = {}
  /\ ivPos' = [ivPos EXCEPT ![w] = 1]
  /\ UNCHANGED <<warehouse, l2Vars, redis, flight, requestVars, ivScan, ivBatch>>

InvalidateL1(w) ==
  /\ ivPos[w] = 0
  /\ l1' = [k \in Keys |-> None]
  /\ expired' = {}
  /\ ivPos' = [ivPos EXCEPT ![w] = 1]
  /\ UNCHANGED <<warehouse, l2Vars, redis, flight, requestVars, ivScan, ivBatch>>

\* (Seeded fault: the invalidation waits for Redis to come back.)
ScanOpenWaits(w) ==
  /\ ivPos[w] \in 1..Len(Prefixes) /\ ivScan[w] = None
  /\ Available
  /\ ivScan' = [ivScan EXCEPT ![w] = Prefixes[ivPos[w]]]
  /\ UNCHANGED <<warehouse, l1Vars, l2Vars, redis, flight, requestVars, ivPos, ivBatch>>

\* RedisInvalidatePrefix: nothing to do when Redis is off.
ScanOpen(w) ==
  /\ ivPos[w] \in 1..Len(Prefixes) /\ ivScan[w] = None
  /\ \/ /\ Available
        /\ ivScan' = [ivScan EXCEPT ![w] = Prefixes[ivPos[w]]]
        /\ UNCHANGED ivPos
     \/ /\ ~Available
        /\ ivPos' = [ivPos EXCEPT ![w] = @ + 1]
        /\ UNCHANGED ivScan
  /\ UNCHANGED <<warehouse, l1Vars, l2Vars, redis, flight, requestVars, ivBatch>>

\* flush: DEL of a batch, its error ignored; the batch is emptied either way.
\* (One that times out and is applied later is an L2Expire.)
Flush(batch, ok) ==
  l2' = IF ok THEN [k \in Keys |-> IF k \in batch THEN None ELSE l2[k]] ELSE l2

\* SCAN visits the keys in no particular order; one that is in Redis joins
\* the batch, which is flushed when it is full.
ScanVisit(w, k, ok) ==
  /\ ivScan[w] # None /\ k \in ivScan[w] /\ (ok \/ Faults)
  /\ ivScan' = [ivScan EXCEPT ![w] = @ \ {k}]
  /\ LET batch == IF l2[k] = None THEN ivBatch[w] ELSE ivBatch[w] \cup {k}
     IN  IF Cardinality(batch) >= BatchSize
           THEN Flush(batch, ok) /\ ivBatch' = [ivBatch EXCEPT ![w] = {}]
           ELSE ivBatch' = [ivBatch EXCEPT ![w] = batch] /\ UNCHANGED l2
  /\ UNCHANGED <<warehouse, l1Vars, wire, redis, flight, requestVars, ivPos>>

\* (Seeded fault: only full batches are deleted.)
ScanCloseUnflushed(w, ok) ==
  /\ ivScan[w] # None /\ (ivScan[w] = {} \/ Faults) /\ (ok \/ Faults)
  /\ ivBatch' = [ivBatch EXCEPT ![w] = {}]
  /\ ivScan' = [ivScan EXCEPT ![w] = None]
  /\ ivPos' = [ivPos EXCEPT ![w] = @ + 1]
  /\ UNCHANGED <<warehouse, l1Vars, l2Vars, redis, flight, requestVars>>

\* The cursor is exhausted, or the SCAN failed or hit its 5 s deadline: the
\* rest of the batch is flushed and the next family comes.
ScanClose(w, ok) ==
  /\ ivScan[w] # None /\ (ivScan[w] = {} \/ Faults) /\ (ok \/ Faults)
  /\ Flush(ivBatch[w], ok)
  /\ ivBatch' = [ivBatch EXCEPT ![w] = {}]
  /\ ivScan' = [ivScan EXCEPT ![w] = None]
  /\ ivPos' = [ivPos EXCEPT ![w] = @ + 1]
  /\ UNCHANGED <<warehouse, l1Vars, wire, redis, flight, requestVars>>

\* The webhook answers {"status": "invalidated"}.
InvalidateReturn(w) ==
  /\ ivPos[w] = Len(Prefixes) + 1
  /\ ivPos' = [ivPos EXCEPT ![w] = 0]
  /\ UNCHANGED <<warehouse, l1Vars, l2Vars, redis, flight, requestVars,
                 ivScan, ivBatch>>

InvalidateStep(w) ==
  \/ ScanOpen(w)
  \/ \E k \in Keys, ok \in BOOLEAN : ScanVisit(w, k, ok)
  \/ \E ok \in BOOLEAN : ScanClose(w, ok)
  \/ InvalidateReturn(w)

-----------------------------------------------------------------------------
(* Time, the warehouse, Redis and its other clients, the health loop and   *)
(* the life of the process.                                                *)

L1Expire(k) ==
  /\ Live(k)
  /\ expired' = expired \cup {k}
  /\ UNCHANGED <<warehouse, l1, l2Vars, redis, flight, requestVars, ivVars>>

\* One tick of the janitor: it reads the clock before it takes the lock, so
\* an entry that expired in between stays for the next tick.
Janitor ==
  \E dead \in SUBSET expired :
    /\ dead # {}
    /\ l1' = [k \in Keys |-> IF k \in dead THEN None ELSE l1[k]]
    /\ expired' = expired \ dead
    /\ UNCHANGED <<warehouse, l2Vars, redis, flight, requestVars, ivVars>>

L2Expire(k) ==
  /\ l2[k] # None
  /\ l2' = [l2 EXCEPT ![k] = None]
  /\ UNCHANGED <<warehouse, l1Vars, wire, redis, flight, requestVars, ivVars>>

\* A SET that was on its way reaches Redis, or is lost.
LateSet(k, v) ==
  /\ v \in wire[k]
  /\ wire' = [wire EXCEPT ![k] = @ \ {v}]
  /\ \/ l2' = [l2 EXCEPT ![k] = v]
     \/ UNCHANGED l2
  /\ UNCHANGED <<warehouse, l1Vars, redis, flight, requestVars, ivVars>>

\* A loader of another process has read the warehouse and will set the key.
PeerSet(k) ==
  /\ Peers
  /\ wire' = [wire EXCEPT ![k] = @ \cup {warehouse}]
  /\ UNCHANGED <<warehouse, l1Vars, l2, redis, flight, requestVars, ivVars>>

\* The ETL replaces the contents of marts_ecommerce.
Refresh ==
  /\ warehouse < MaxRefresh
  /\ warehouse' = warehouse + 1
  /\ UNCHANGED <<l1Vars, l2Vars, redis, flight, requestVars, ivVars>>

\* redisHealthLoop marks Redis up or down; without a client there is no loop.
HealthCheck ==
  /\ Faults /\ redis # "nil"
  /\ redis' = IF redis = "up" THEN "down" ELSE "up"
  /\ UNCHANGED <<warehouse, l1Vars, l2Vars, flight, requestVars, ivVars>>

\* The process dies and starts again: memory is lost, Redis keeps its keys,
\* and what was sent to it may still arrive.
Restart ==
  /\ Faults
  /\ l1' = [k \in Keys |-> None]
  /\ expired' = {}
  /\ redis' \in {"nil", "up"}
  /\ flight' = [k \in Keys |-> None]
  /\ pc' = [r \in Requests |-> "idle"]
  /\ key' = [r \in Requests |-> None]
  /\ held' = [r \in Requests |-> None]
  /\ ivPos' = [w \in Webhooks |-> 0]
  /\ ivScan' = [w \in Webhooks |-> None]
  /\ ivBatch' = [w \in Webhooks |-> {}]
  /\ UNCHANGED <<warehouse, l2Vars>>

Environment ==
  \/ \E k \in Keys : L1Expire(k) \/ L2Expire(k) \/ PeerSet(k)
  \/ \E k \in Keys : \E v \in wire[k] : LateSet(k, v)
  \/ Janitor \/ Refresh \/ HealthCheck \/ Restart

Next ==
  \/ \E r \in Requests, k \in Keys : Arrive(r, k)
  \/ \E r \in Requests : Step(r)
  \/ \E w \in Webhooks : InvalidateL1(w) \/ InvalidateStep(w)
  \/ Environment

Spec == Init /\ [][Next]_vars

\* A goroutine that can run is run: the scheduler is fair, every Redis call
\* has a timeout, and the warehouse answers or fails every query.  Nothing is
\* assumed of the clients, the clock, the ETL or the health of Redis.
Fairness ==
  /\ \A r \in Requests : WF_vars(Step(r))
  /\ \A w \in Webhooks : WF_vars(InvalidateStep(w))

FairSpec == Spec /\ Fairness

-----------------------------------------------------------------------------
(* Properties.                                                             *)

CacheTypes ==
  /\ warehouse \in 0..MaxRefresh
  /\ l1 \in [Keys -> Entry]
  /\ expired \subseteq {k \in Keys : l1[k] # None}
  /\ l2 \in [Keys -> Entry]
  /\ wire \in [Keys -> SUBSET Version]
  /\ redis \in {"nil", "down", "up"}
  /\ flight \in [Keys -> Requests \cup {None}]

RequestTypes ==
  /\ pc \in [Requests -> Places]
  /\ key \in [Requests -> Keys \cup {None}]
  /\ held \in [Requests -> Version \cup {None, Err}]
  /\ \A r \in Requests :
       /\ (key[r] = None) <=> (pc[r] = "idle")
       /\ (held[r] # None) <=> (pc[r] \in Carrying \cup {"done"})
       /\ pc[r] \in {"fill", "setL1", "setL2"} => held[r] # Err

WebhookTypes ==
  /\ ivPos \in [Webhooks -> 0..(Len(Prefixes) + 1)]
  /\ ivScan \in [Webhooks -> {None} \cup SUBSET Keys]
  /\ ivBatch \in [Webhooks -> SUBSET Keys]
  /\ \A w \in Webhooks :
       /\ ivScan[w] # None => ivPos[w] \in 1..Len(Prefixes)
       /\ ivScan[w] = None => ivBatch[w] = {}

\* Types.  The caches and the goroutines only ever hold versions the
\* warehouse has had: never an error, never the zero value CachedTTL returns
\* beside one.
TypeOK == CacheTypes /\ RequestTypes /\ WebhookTypes

\* Coalescing: at any moment at most one loader runs per key, and the flight
\* registered for a key is that loader's (cache.go:84-86, sfGroup.Do).
SingleFlight ==
  /\ \A r \in Requests : pc[r] \in Leading => flight[key[r]] = r
  /\ \A k \in Keys : flight[k] # None =>
       pc[flight[k]] \in Leading /\ key[flight[k]] = k

\* A request that waits always waits for a flight still in the air, whose
\* leader will wake it: no waiter is left behind when a flight lands.
NoLostWaiter ==
  \A w \in Requests : pc[w] = "wait" => flight[key[w]] # None

\* Every request is answered, unless the process dies first: no waiter hangs
\* on a flight whose loader failed, however flights of the key follow another.
EveryRequestAnswered ==
  \A r \in Requests : pc[r] = "l1" ~> pc[r] \in {"done", "idle"}

\* The webhook returns whatever Redis does: every scan ends, however many
\* calls overlap.
InvalidationReturns == \A w \in Webhooks : ivPos[w] # 0 ~> ivPos[w] = 0

=============================================================================
