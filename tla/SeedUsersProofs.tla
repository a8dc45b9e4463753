---------------------------- MODULE SeedUsersProofs ----------------------------
(***************************************************************************)
(* The seeding of the users table, proved for any number of instances and  *)
(* of users, with statements that fail or come late and instances that     *)
(* die; and what Startup composes it with, the link of one instance to     *)
(* Redis.                                                                  *)
(***************************************************************************)
EXTENDS Startup, TLAPS

USE SeedAssumption DEF Seeding

\* What the instance that is seeding has inserted so far; nothing that is still to
\* come is ahead of it.
Progress == \A i \in Instances : Seeding(i) => rows = 1..(next[i] - 1) /\ wire \ {0} \subseteq rows

\* Who was inserting a user when its session was lost had inserted those before.
WireInOrder == \A u \in wire \ {0} : 1..(u - 1) \subseteq rows

Inv == SeedTypeOK /\ SeededInOrder /\ OneSeeder /\ Progress /\ WireInOrder

\* The invariant holds before any instance has booted.
LEMMA InitInv == Init => Inv
  BY DEF Init, Inv, SeedTypeOK, SeededInOrder, OneSeeder, Progress, WireInOrder

\* The first user goes into an empty table, and only while nobody is seeding;
\* nothing but the first user can still come.
LEMMA FirstInsert ==
  ASSUME Inv, NEW i \in Instances, next[i] = 1, 1 \notin rows
  PROVE  rows = {} /\ wire \ {0} \subseteq {1} /\ \A j \in Instances : ~Seeding(j)
<1>1. rows = {}
  BY DEF Inv, SeedTypeOK, SeededInOrder
<1>2. ASSUME NEW u \in wire \ {0} PROVE u = 1
  <2>1. u \in 1..Users /\ 1..(u - 1) \subseteq rows
    BY DEF Inv, SeedTypeOK, WireInOrder
  <2> QED
    BY <1>1, <2>1
<1>3. ASSUME NEW j \in Instances, Seeding(j) PROVE FALSE
  <2>1. rows = 1..(next[j] - 1) /\ next[j] \in 1..Users
    BY <1>3 DEF Inv, Progress, SeedTypeOK
  <2> QED
    BY <1>1, <1>3, <2>1
<1> QED
  BY <1>1, <1>2, <1>3

\* Steps of an instance that leave the rows and the wire alone and start no
\* insert beyond the first keep the invariant.
LEMMA QuietStep ==
  ASSUME Inv, SeedTypeOK', rows' = rows, wire' = wire,
         \A j \in Instances : Seeding(j)' => Seeding(j) /\ next'[j] = next[j]
  PROVE  Inv'
<1>1. SeededInOrder' /\ OneSeeder' /\ WireInOrder'
  BY DEF Inv, SeededInOrder, OneSeeder, WireInOrder
<1>2. Progress'
  BY DEF Inv, Progress
<1> QED
  BY <1>1, <1>2 DEF Inv

\* An INSERT keeps the invariant: it adds the next user or meets a duplicate.
LEMMA InsertStep == ASSUME Inv, NEW i \in Instances, Insert(i) PROVE Inv'
<1> USE DEF Inv, SeedTypeOK
<1>1. SeedTypeOK'
  <2>1. rows' \subseteq 1..Users /\ UNCHANGED <<table, wire, trouble>>
    <3>1. rows' = rows \cup {next[i]} /\ UNCHANGED <<table, wire, trouble>>
      BY DEF Insert
    <3>2. next[i] \in 1..Users /\ rows \subseteq 1..Users
      OBVIOUS
    <3> QED
      BY <3>1, <3>2
  <2>2. next' \in [Instances -> 1..Users]
    BY DEF Insert
  <2>3. table = "present"
    BY DEF Insert
  <2>4. pc' \in [Instances -> {"down", "lookup", "create", "count", "insert", "serve"}]
    BY DEF Insert
  <2> QED
    BY <2>1, <2>2, <2>3, <2>4
<1>2. CASE next[i] \in rows
  BY <1>1, <1>2, QuietStep DEF Insert
<1>3. CASE next[i] \notin rows
  <2>1. rows = 1..(next[i] - 1) /\ wire \ {0} \subseteq rows \cup {next[i]}
    <3>1. CASE next[i] = 1
      BY <1>3, <3>1, FirstInsert
    <3>2. CASE next[i] # 1
      BY <3>2 DEF Insert, Progress
    <3> QED
      BY <3>1, <3>2
  <2>2. rows' = 1..next[i] /\ wire' \ {0} \subseteq rows' /\ rows \subseteq rows'
    BY <2>1 DEF Insert
  <2>3. \A j \in Instances \ {i} : ~Seeding(j)
    <3>1. CASE next[i] = 1
      BY <1>3, <3>1, FirstInsert
    <3>2. CASE next[i] # 1
      BY <3>2 DEF Insert, OneSeeder
    <3> QED
      BY <3>1, <3>2
  <2>4. \A j \in Instances \ {i} : ~Seeding(j)'
    BY <2>3 DEF Insert
  <2>5. Seeding(i)' => next'[i] = next[i] + 1
    BY <1>3 DEF Insert
  <2>6. SeededInOrder'
    BY <2>2 DEF SeededInOrder
  <2>7. OneSeeder'
    BY <2>4 DEF OneSeeder
  <2>8. Progress'
    BY <2>2, <2>4, <2>5 DEF Progress
  <2>9. WireInOrder'
    <3>1. wire' = wire
      BY DEF Insert
    <3> QED
      BY <2>2, <3>1 DEF WireInOrder
  <2> QED
    BY <1>1, <2>6, <2>7, <2>8, <2>9
<1> QED
  BY <1>2, <1>3

\* An instance that stops leaves at most its own statement behind.
LEMMA StopStep ==
  ASSUME Inv, NEW i \in Instances, Fail(i) \/ Crash(i)
  PROVE  Inv'
<1> USE DEF Inv, SeedTypeOK
<1>1. /\ rows' = rows /\ table' = table /\ next' = next /\ trouble' = "some"
      /\ pc'[i] \in {"serve", "down"} /\ \A j \in Instances \ {i} : pc'[j] = pc[j]
      /\ pc' \in [Instances -> {"down", "lookup", "create", "count", "insert", "serve"}]
      /\ LosesSession(i)
  BY DEF Fail, Crash
<1>2. \A j \in Instances : Seeding(j)' => j # i /\ Seeding(j) /\ next'[j] = next[j]
  BY <1>1
<1>3. CASE UNCHANGED wire
  <2>1. SeedTypeOK'
    BY <1>1, <1>3
  <2> QED
    BY <1>1, <1>2, <1>3, <2>1, QuietStep
<1>4. CASE pc[i] = "create" /\ wire' = wire \cup {0}
  <2>1. wire' \subseteq 0..Users /\ wire' \ {0} = wire \ {0}
    BY <1>4
  <2>2. SeedTypeOK' /\ SeededInOrder' /\ OneSeeder'
    BY <1>1, <1>2, <2>1 DEF SeededInOrder, OneSeeder
  <2>3. Progress' /\ WireInOrder'
    BY <1>1, <1>2, <2>1 DEF Progress, WireInOrder
  <2> QED
    BY <2>2, <2>3
<1>5. CASE pc[i] = "insert" /\ wire' = wire \cup {next[i]}
  <2>1. next[i] \in 1..Users /\ table = "present" /\ wire' \subseteq 0..Users
    <3>1. next[i] \in 1..Users
      OBVIOUS
    <3>2. next[i] \in 0..Users
      BY <3>1
    <3>3. table = "present"
      BY <1>5
    <3> QED
      BY <1>5, <3>1, <3>2, <3>3
  <2>2. SeedTypeOK' /\ SeededInOrder' /\ OneSeeder'
    BY <1>1, <1>2, <2>1 DEF SeededInOrder, OneSeeder
  <2>3. 1..(next[i] - 1) \subseteq rows
    <3>1. CASE next[i] = 1
      BY <3>1
    <3>2. CASE next[i] # 1
      BY <1>5, <2>1, <3>2 DEF Progress
    <3> QED
      BY <3>1, <3>2
  <2>4. WireInOrder'
    BY <1>1, <1>5, <2>3 DEF WireInOrder
  <2>5. ASSUME NEW j \in Instances, Seeding(j)'
        PROVE  rows = 1..(next[j] - 1) /\ wire' \ {0} \subseteq rows
    <3>1. Seeding(j) /\ j # i /\ next[j] \in 1..Users
      BY <1>2, <2>5
    <3>2. ~Seeding(i)
      BY <3>1 DEF OneSeeder
    <3>3. next[i] = 1 /\ 1 \in 1..(next[j] - 1)
      BY <1>5, <2>1, <3>1, <3>2
    <3> QED
      BY <1>5, <3>1, <3>3 DEF Progress
  <2>6. Progress'
    BY <1>1, <2>5 DEF Progress
  <2> QED
    BY <2>2, <2>4, <2>6
<1> QED
  BY <1>1, <1>3, <1>4, <1>5 DEF LosesSession

\* A statement that comes late creates a table or adds the user that is next,
\* while nobody is seeding, or else changes nothing.
LEMMA LandStep == ASSUME Inv, NEW n \in wire, Land(n) PROVE Inv'
<1> USE DEF Inv, SeedTypeOK
<1>1. wire' = wire \ {n} /\ UNCHANGED <<pc, next, trouble>> /\ n \in 0..Users
  BY DEF Land
<1>2. \A j \in Instances : Seeding(j)' <=> Seeding(j)
  BY <1>1
<1>3. CASE n = 0 /\ table' = "present" /\ UNCHANGED rows
  <2>1. SeedTypeOK' /\ SeededInOrder' /\ OneSeeder'
    BY <1>1, <1>2, <1>3 DEF SeededInOrder, OneSeeder
  <2>2. Progress' /\ WireInOrder'
    BY <1>1, <1>2, <1>3 DEF Progress, WireInOrder
  <2> QED
    BY <2>1, <2>2
<1>4. CASE n > 0 /\ rows' = rows \cup {n} /\ UNCHANGED table
  <2>1. n \in wire \ {0} /\ n \in 1..Users /\ table = "present"
    BY <1>1, <1>4
  <2>2. SeedTypeOK'
    BY <1>1, <1>4, <2>1
  <2>3. 1..n \subseteq rows'
    <3>1. 1..(n - 1) \subseteq rows
      BY <2>1 DEF WireInOrder
    <3> QED
      BY <1>4, <2>1, <3>1
  <2>4. SeededInOrder' /\ OneSeeder'
    BY <1>2, <1>4, <2>3 DEF SeededInOrder, OneSeeder
  <2>5. WireInOrder'
    BY <1>1, <1>4 DEF WireInOrder
  <2>6. Progress'
    BY <1>1, <1>2, <1>4, <2>1 DEF Progress
  <2> QED
    BY <2>2, <2>4, <2>5, <2>6
<1> QED
  BY <1>3, <1>4 DEF Land

\* Every statement, failure, boot and crash keeps the invariant.
LEMMA InvStep == Inv /\ [Next]_vars => Inv'
<1> SUFFICES ASSUME Inv, [Next]_vars PROVE Inv'
  OBVIOUS
<1>1. ASSUME NEW i \in Instances, Insert(i) PROVE Inv'
  BY <1>1, InsertStep
<1>2. ASSUME NEW i \in Instances, Fail(i) \/ Crash(i) PROVE Inv'
  BY <1>2, StopStep
<1>3. ASSUME NEW n \in wire, Land(n) PROVE Inv'
  BY <1>3, LandStep
<1>4. ASSUME NEW i \in Instances, Connect(i) \/ Lookup(i) \/ Create(i) \/ Count(i)
      PROVE  Inv'
  <2>1. SeedTypeOK'
    <3> USE DEF Inv, SeedTypeOK
    <3>1. CASE Connect(i)
      BY <3>1 DEF Connect
    <3>2. CASE Lookup(i)
      BY <3>2 DEF Lookup
    <3>3. CASE Create(i)
      BY <3>3 DEF Create
    <3>4. CASE Count(i)
      BY <3>4 DEF Count
    <3> QED
      BY <1>4, <3>1, <3>2, <3>3, <3>4
  <2>2. rows' = rows /\ wire' = wire
    BY <1>4 DEF Connect, Lookup, Create, Count
  <2>3. ASSUME NEW j \in Instances, Seeding(j)'
        PROVE  Seeding(j) /\ next'[j] = next[j]
    BY <1>4, <2>3 DEF Inv, SeedTypeOK, Connect, Lookup, Create, Count
  <2> QED
    BY <2>1, <2>2, <2>3, QuietStep
<1>5. CASE UNCHANGED vars
  BY <1>5, QuietStep DEF vars, Inv, SeedTypeOK
<1> QED
  BY <1>1, <1>2, <1>3, <1>4, <1>5 DEF Next, Boot, Serving

\* Each step of the composition is a step of SeedUsers, or leaves it alone.
LEMMA StartupStepSeeds == [StartupNext]_allVars => [Next]_vars
<1> SUFFICES ASSUME [StartupNext]_allVars PROVE [Next]_vars
  OBVIOUS
<1>1. ASSUME NEW i \in Instances, Booting(i) \/ Failing(i) \/ Dying(i) PROVE Next
  BY <1>1 DEF Booting, Failing, Dying, Next
<1>2. ASSUME NEW n \in wire, Landing(n) PROVE Next
  BY <1>2 DEF Landing, Next
<1>3. CASE /\ ~\E i \in Instances : Booting(i) \/ Failing(i) \/ Dying(i)
           /\ ~\E n \in wire : Landing(n)
  BY <1>3 DEF StartupNext, LinkUp, Serve, Talk, Serving, allVars
<1> QED
  BY <1>1, <1>2, <1>3

\* The composition behaves as SeedUsers does, so its theorems carry over.
LEMMA StartupSeeds == StartupSpec => Spec
<1>1. StartupInit => Init
  BY DEF StartupInit
<1> QED
  BY <1>1, StartupStepSeeds, PTL DEF StartupSpec, Spec

\* No two instances ever insert side by side, whatever fails, dies or boots
\* beside them (seeder.go:27, 47-51).
THEOREM SeedingIsSerial == StartupSpec => []OneSeeder
<1>1. Inv => OneSeeder
  BY DEF Inv
<1> QED
  BY <1>1, InitInv, InvStep, StartupSeeds, PTL DEF Spec

\* The users that are there are the first of the list, wherever the seeding
\* stopped (seeder.go:42-53).
THEOREM SeededInOrderAlways == StartupSpec => []SeededInOrder
<1>1. Inv => SeededInOrder
  BY DEF Inv
<1> QED
  BY <1>1, InitInv, InvStep, StartupSeeds, PTL DEF Spec

\* Users are counted and inserted only into a table that is there (seeder.go:19).
THEOREM SeedTypes == StartupSpec => []SeedTypeOK
<1>1. Inv => SeedTypeOK
  BY DEF Inv
<1> QED
  BY <1>1, InitInv, InvStep, StartupSeeds, PTL DEF Spec

\* A table whose seeder died or failed half-way is never completed: no later boot
\* adds the users that are missing, and at most the one INSERT that was under way
\* still comes (seeder.go:27-29).
THEOREM AbandonedTableStays == StartupSpec => AbandonedForGood
<1>1. Inv /\ [Next]_vars => [rows # {} /\ ~UnderWay => Sent' = Sent /\ ~UnderWay']_vars
  <2> SUFFICES ASSUME Inv, Next, rows # {}, ~UnderWay
               PROVE  Sent' = Sent /\ ~UnderWay'
    OBVIOUS
  <2> USE DEF Inv, SeedTypeOK, UnderWay
  <2>1. 1 \in rows
    <3>1. PICK u \in rows : TRUE
      OBVIOUS
    <3>2. u \in 1..Users /\ 1 \in 1..u
      OBVIOUS
    <3> QED
      BY <3>2 DEF SeededInOrder
  <2>2. \A i \in Instances : pc[i] = "insert" => next[i] = 1
    OBVIOUS
  <2>3. ASSUME NEW i \in Instances, Insert(i) PROVE Sent' = Sent /\ ~UnderWay'
    <3>1. next[i] = 1
      BY <2>2, <2>3 DEF Insert
    <3> QED
      BY <2>1, <2>3, <3>1 DEF Insert, Sent
  <2>4. ASSUME NEW i \in Instances, Fail(i) \/ Crash(i) PROVE Sent' = Sent /\ ~UnderWay'
    <3>1. rows' = rows /\ next' = next /\ LosesSession(i)
          /\ \A j \in Instances : pc'[j] = "insert" => pc[j] = "insert"
      BY <2>4 DEF Fail, Crash
    <3>2. Sent' = Sent
      BY <2>1, <2>2, <3>1 DEF LosesSession, Sent
    <3> QED
      BY <3>1, <3>2
  <2>5. ASSUME NEW n \in wire, Land(n) PROVE Sent' = Sent /\ ~UnderWay'
    BY <2>5 DEF Land, Sent
  <2>6. ASSUME NEW i \in Instances, Connect(i) \/ Lookup(i) \/ Create(i) \/ Count(i)
        PROVE  Sent' = Sent /\ ~UnderWay'
    BY <2>6 DEF Connect, Lookup, Create, Count, Sent
  <2> QED
    BY <2>3, <2>4, <2>5, <2>6 DEF Next, Boot, Serving, vars, Sent
<1> QED
  BY <1>1, InitInv, InvStep, StartupSeeds, PTL DEF Spec, AbandonedForGood

-----------------------------------------------------------------------------
(* The link to Redis.                                                      *)

\* No step of the composition leads to a use of Redis without a client.
LEMMA LinkStep == LinkTypeOK /\ [StartupNext]_allVars => LinkTypeOK'
<1> SUFFICES ASSUME LinkTypeOK, [StartupNext]_allVars PROVE LinkTypeOK'
  OBVIOUS
<1> USE DEF LinkTypeOK, Link!LinkTypeOK
<1>1. CASE UNCHANGED linkVars
  BY <1>1 DEF linkVars
<1>2. CASE Link!InitRedis
  BY <1>2 DEF Link!InitRedis
<1>3. CASE Link!Ping
  BY <1>3 DEF Link!Ping
<1>4. CASE Link!Mark
  BY <1>4 DEF Link!Mark
<1>5. CASE Link!ServerChange
  BY <1>5 DEF Link!ServerChange
<1>6. CASE Link!Restart
  BY <1>6 DEF Link!Restart
<1>7. ASSUME NEW r \in Requests, Link!Gate(r) PROVE LinkTypeOK'
  BY <1>7 DEF Link!Gate, Link!Available
<1>8. ASSUME NEW r \in Requests, Link!Use(r) PROVE LinkTypeOK'
  <2>1. client # "nil"
    BY <1>8 DEF Link!Use
  <2> QED
    BY <1>8, <2>1 DEF Link!Use
<1>9. ASSUME NEW r \in Requests, Link!Return(r) PROVE LinkTypeOK'
  BY <1>9 DEF Link!Return
<1> QED
  BY <1>1, <1>2, <1>3, <1>4, <1>5, <1>6, <1>7, <1>8, <1>9
     DEF StartupNext, Booting, Failing, Dying, Landing, LinkUp, Serve, Talk, allVars

\* RedisClient is never used while it is nil, nor marked up, from the boot of an
\* instance to its death (redis.go:91-98, 132-134).
THEOREM LinkIsNeverUsedNil == StartupSpec => []LinkTypeOK
<1>1. StartupInit => LinkTypeOK
  BY DEF StartupInit, Link!Init, LinkTypeOK, Link!LinkTypeOK
<1> QED
  BY <1>1, LinkStep, PTL DEF StartupSpec

\* Between two boots the link only goes up and down: a process that booted
\* without Redis never uses it, one that booted with it never drops its client.
THEOREM LinkMovesUpAndDown == StartupSpec => LinkGoesUpAndDown
<1>1. [StartupNext]_allVars =>
        [Link!Link' # Link!Link =>
           loop = "boot" \/ loop' = "boot" \/ "nil" \notin {Link!Link, Link!Link'}]_linkVars
  <2> SUFFICES ASSUME [StartupNext]_allVars, loop # "boot", loop' # "boot",
                      Link!Link' # Link!Link
               PROVE  "nil" \notin {Link!Link, Link!Link'}
    OBVIOUS
  <2>1. client' = client
    BY DEF StartupNext, Booting, Failing, Dying, Landing, LinkUp, Serve, Talk, Serving, allVars, linkVars,
           Link!InitRedis, Link!Ping, Link!Mark, Link!ServerChange, Link!Restart,
           Link!Gate, Link!Use, Link!Return
  <2> QED
    BY <2>1 DEF Link!Link
<1> QED
  BY <1>1, PTL DEF StartupSpec, LinkGoesUpAndDown, Link!LinkGoesUpAndDown, linkVars, Link!vars

=============================================================================
