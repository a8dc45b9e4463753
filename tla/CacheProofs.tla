------------------------------ MODULE CacheProofs ------------------------------
(***************************************************************************)
(* The two caches, the flights and the webhook: what ReadThrough keeps,    *)
(* that it implements CacheContract, and what an invalidation guarantees,  *)
(* proved for every number of requests, keys and key families, every batch *)
(* size and every number of refreshes.                                     *)
(***************************************************************************)
EXTENDS Contract, Invalidation, TLAPS

\* The sets of places and values, expanded everywhere below.
USE DEF Version, Entry, Available, Live, Leading, Carrying, Places, l1Vars, l2Vars

\* The steps of a webhook touch no goroutine of a request and cache no value.
WebhookStep(w) == InvalidateL1(w) \/ InvalidateStep(w)

\* A webhook's place in its scan stays one, whichever webhook it is.
LEMMA WebhookTypesStep ==
  ASSUME TypeOK, NEW w \in Webhooks, WebhookStep(w)
  PROVE  WebhookTypes'
<1> USE ConstantsAssumption DEF TypeOK, CacheTypes, WebhookTypes
<1>1. CASE InvalidateL1(w)
  BY <1>1 DEF InvalidateL1
<1>5. CASE InvalidateReturn(w)
  BY <1>5 DEF InvalidateReturn
<1>2. CASE ScanOpen(w)
  <2>1. CASE Available /\ ivScan' = [ivScan EXCEPT ![w] = Prefixes[ivPos[w]]]
             /\ UNCHANGED <<ivPos, ivBatch>>
    <3>1. Prefixes[ivPos[w]] \in SUBSET Keys
      BY <1>2 DEF ScanOpen
    <3> QED
      BY <1>2, <2>1, <3>1 DEF ScanOpen
  <2>2. CASE ivPos' = [ivPos EXCEPT ![w] = @ + 1] /\ UNCHANGED <<ivScan, ivBatch>>
    BY <1>2, <2>2 DEF ScanOpen
  <2> QED
    BY <1>2, <2>1, <2>2 DEF ScanOpen
<1>3. ASSUME NEW k \in Keys, NEW ok \in BOOLEAN, ScanVisit(w, k, ok)
      PROVE  WebhookTypes'
  <2>1. PICK batch \in SUBSET Keys : ivBatch' = [ivBatch EXCEPT ![w] = batch]
    BY <1>3 DEF ScanVisit
  <2>2. ivScan[w] # None /\ ivScan' = [ivScan EXCEPT ![w] = @ \ {k}] /\ ivPos' = ivPos
    BY <1>3 DEF ScanVisit
  <2>3. ivScan[w] \ {k} \in SUBSET Keys
    BY <2>2
  <2> QED
    BY <2>1, <2>2, <2>3
<1>4. ASSUME NEW ok \in BOOLEAN, ScanClose(w, ok) PROVE WebhookTypes'
  BY <1>4 DEF ScanClose
<1> QED
  BY <1>1, <1>2, <1>3, <1>4, <1>5 DEF WebhookStep, InvalidateStep

\* A webhook only ever removes entries, and touches no request and no SET on
\* its way.
LEMMA WebhookFrame ==
  ASSUME TypeOK, NEW w \in Webhooks, WebhookStep(w)
  PROVE  /\ UNCHANGED <<warehouse, wire, redis, flight, requestVars>>
         /\ l1' \in [Keys -> Entry] /\ l2' \in [Keys -> Entry]
         /\ \A k \in Keys : l1'[k] \in {None, l1[k]} /\ l2'[k] \in {None, l2[k]}
         /\ expired' \subseteq {k \in Keys : l1'[k] # None}
<1> USE DEF TypeOK, CacheTypes, WebhookTypes
<1>1. CASE InvalidateL1(w)
  BY <1>1 DEF InvalidateL1
<1>2. CASE ScanOpen(w) \/ InvalidateReturn(w)
  BY <1>2 DEF ScanOpen, InvalidateReturn
<1>3. ASSUME NEW k \in Keys, NEW ok \in BOOLEAN, ScanVisit(w, k, ok)
      PROVE  UNCHANGED <<warehouse, wire, l1Vars, redis, flight, requestVars>>
             /\ l2' \in [Keys -> Entry] /\ \A j \in Keys : l2'[j] \in {None, l2[j]}
  BY <1>3 DEF ScanVisit, Flush
<1>4. ASSUME NEW ok \in BOOLEAN, ScanClose(w, ok)
      PROVE  UNCHANGED <<warehouse, wire, l1Vars, redis, flight, requestVars>>
             /\ l2' \in [Keys -> Entry] /\ \A j \in Keys : l2'[j] \in {None, l2[j]}
  BY <1>4 DEF ScanClose, Flush
<1> QED
  BY <1>1, <1>2, <1>3, <1>4 DEF WebhookStep, InvalidateStep

\* So its steps keep the types.
LEMMA TypeWebhookStep ==
  ASSUME TypeOK, NEW w \in Webhooks, WebhookStep(w)
  PROVE  TypeOK'
<1>1. CacheTypes' /\ RequestTypes'
  BY WebhookFrame DEF TypeOK, CacheTypes, RequestTypes, requestVars
<1> QED
  BY <1>1, WebhookTypesStep DEF TypeOK

\* The other steps leave the webhooks alone.
LEMMA TypeRequestStep ==
  ASSUME TypeOK, NEW r \in Requests, Step(r) \/ \E k \in Keys : Arrive(r, k)
  PROVE  TypeOK'
<1> USE ConstantsAssumption
    DEF TypeOK, CacheTypes, RequestTypes, WebhookTypes, requestVars, ivVars
<1>1. ASSUME NEW k \in Keys, Arrive(r, k) PROVE TypeOK'
  BY <1>1 DEF Arrive
<1>2. CASE L1Hit(r)
  BY <1>2 DEF L1Hit
<1>3. CASE L1Miss(r)
  BY <1>3 DEF L1Miss
<1>4. CASE L1Evict(r)
  BY <1>4 DEF L1Evict
<1>5. CASE L2Hit(r)
  BY <1>5 DEF L2Hit
<1>6. CASE L2Miss(r)
  BY <1>6 DEF L2Miss
<1>7. CASE Fill(r)
  BY <1>7 DEF Fill, StoreL1
<1>8. CASE Lead(r)
  <2>1. flight' \in [Keys -> Requests \cup {None}]
    BY <1>8 DEF Lead
  <2> QED
    BY <1>8, <2>1 DEF Lead
<1>9. CASE Follow(r)
  BY <1>9 DEF Follow
<1>10. CASE Load(r)
  BY <1>10 DEF Load
<1>11. CASE LoadFail(r)
  BY <1>11 DEF LoadFail
<1>12. CASE SetL1(r)
  BY <1>12 DEF SetL1, StoreL1
<1>13. CASE SetL2(r)
  BY <1>13 DEF SetL2
<1>14. CASE Land(r)
  BY <1>14 DEF Land, Waiting
<1>15. CASE Reply(r)
  BY <1>15 DEF Reply
<1> QED
  BY <1>1, <1>2, <1>3, <1>4, <1>5, <1>6, <1>7, <1>8, <1>9,
     <1>10, <1>11, <1>12, <1>13, <1>14, <1>15 DEF Step

\* The steps of time, Redis, the other processes and restarts keep the types.
LEMMA TypeEnvironmentStep == TypeOK /\ Environment => TypeOK'
<1> SUFFICES ASSUME TypeOK, Environment PROVE TypeOK'
  OBVIOUS
<1> USE ConstantsAssumption
    DEF TypeOK, CacheTypes, RequestTypes, WebhookTypes, requestVars, ivVars
<1>1. ASSUME NEW k \in Keys, L1Expire(k) PROVE TypeOK'
  BY <1>1 DEF L1Expire
<1>7. ASSUME NEW k \in Keys, L2Expire(k) PROVE TypeOK'
  BY <1>7 DEF L2Expire
<1>2. ASSUME NEW k \in Keys, NEW v \in wire[k], LateSet(k, v) PROVE TypeOK'
  <2>1. v \in Version
    OBVIOUS
  <2>2. l2' \in [Keys -> Entry] /\ wire' \in [Keys -> SUBSET Version]
    BY <1>2, <2>1 DEF LateSet
  <2> QED
    BY <1>2, <2>2 DEF LateSet
<1>3. ASSUME NEW k \in Keys, PeerSet(k) PROVE TypeOK'
  BY <1>3 DEF PeerSet
<1>4. CASE Janitor
  BY <1>4 DEF Janitor
<1>5. CASE Refresh \/ HealthCheck
  BY <1>5 DEF Refresh, HealthCheck
<1>6. CASE Restart
  BY <1>6 DEF Restart
<1> QED
  BY <1>1, <1>2, <1>3, <1>4, <1>5, <1>6, <1>7 DEF Environment

\* TypeOK is inductive by itself.
LEMMA TypeStep == TypeOK /\ [Next]_vars => TypeOK'
<1>1. TypeOK /\ UNCHANGED vars => TypeOK'
  BY DEF TypeOK, CacheTypes, RequestTypes, WebhookTypes, vars, requestVars, ivVars
<1> QED
  BY <1>1, TypeRequestStep, TypeWebhookStep, TypeEnvironmentStep
     DEF Next, WebhookStep

\* The caches, the flights and the goroutines hold versions the warehouse has
\* had, and an error is never cached (cache.go:129-135).
THEOREM TypeInvariant == Spec => []TypeOK
<1>1. Init => TypeOK
  BY ConstantsAssumption DEF Init, TypeOK, CacheTypes, RequestTypes, WebhookTypes
<1> QED
  BY <1>1, TypeStep, PTL DEF Spec

-----------------------------------------------------------------------------
(* Coalescing: sfGroup.Do.  A flight is registered exactly while its leader *)
(* is under way, which is also why nobody waits for a flight that is over.  *)

USE DEF CacheTypes, RequestTypes

Coalesced == SingleFlight /\ NoLostWaiter

\* The steps that concern no flight: whatever they do to the caches, they start
\* no flight, end none, and move nobody into or out of one.
LEMMA NoFlightTouched ==
  ASSUME Coalesced, UNCHANGED flight,
         \A r \in Requests :
           \/ pc'[r] \notin Leading \cup {"wait"} /\ pc[r] \notin Leading
           \/ pc'[r] = pc[r] /\ key'[r] = key[r]
           \/ pc[r] \in Leading /\ pc'[r] \in Leading /\ key'[r] = key[r],
         TypeOK
  PROVE  Coalesced'
<1>1. ASSUME NEW r \in Requests, pc'[r] \in Leading PROVE flight'[key'[r]] = r
  BY <1>1 DEF Coalesced, SingleFlight
<1>2. ASSUME NEW k \in Keys, flight'[k] # None
      PROVE  pc'[flight'[k]] \in Leading /\ key'[flight'[k]] = k
  BY <1>2 DEF Coalesced, SingleFlight, TypeOK
<1>3. ASSUME NEW w \in Requests, pc'[w] = "wait" PROVE flight'[key'[w]] # None
  BY <1>3 DEF Coalesced, NoLostWaiter
<1> QED
  BY <1>1, <1>2, <1>3 DEF Coalesced, SingleFlight, NoLostWaiter

\* Every step keeps the flight of a key and its leader together.
LEMMA CoalescedStep ==
  TypeOK /\ TypeOK' /\ Coalesced /\ [Next]_vars => Coalesced'
<1> SUFFICES ASSUME TypeOK, TypeOK', Coalesced, [Next]_vars PROVE Coalesced'
  OBVIOUS
<1> USE DEF requestVars
<1>1. ASSUME NEW r \in Requests, Lead(r) PROVE Coalesced'
  \* Nobody else can be leading the key: the flight would be registered.
  <2>1. \A q \in Requests : pc[q] \in Leading => key[q] # key[r]
    BY <1>1, ConstantsAssumption DEF Lead, Coalesced, SingleFlight, TypeOK
  <2> QED
    BY <1>1, <2>1, ConstantsAssumption
       DEF Lead, Coalesced, SingleFlight, NoLostWaiter, TypeOK
<1>2. ASSUME NEW r \in Requests, Follow(r) PROVE Coalesced'
  BY <1>2, ConstantsAssumption
     DEF Follow, Coalesced, SingleFlight, NoLostWaiter, TypeOK
<1>3. ASSUME NEW r \in Requests, Land(r) PROVE Coalesced'
  \* The key had this one leader, and all who waited for it are done.
  <2>1. \A q \in Requests : pc'[q] \in Leading \cup {"wait"} =>
          pc'[q] = pc[q] /\ key[q] # key[r]
    BY <1>3, ConstantsAssumption
       DEF Land, Waiting, Coalesced, SingleFlight, TypeOK
  <2> QED
    BY <1>3, <2>1, ConstantsAssumption
       DEF Land, Waiting, Coalesced, SingleFlight, NoLostWaiter, TypeOK
<1>4. ASSUME NEW r \in Requests,
             Load(r) \/ LoadFail(r) \/ SetL1(r) \/ SetL2(r)
      PROVE  Coalesced'
  BY <1>4, NoFlightTouched DEF Load, LoadFail, SetL1, StoreL1, SetL2, TypeOK
<1>5. ASSUME NEW r \in Requests, NEW k \in Keys, Arrive(r, k) PROVE Coalesced'
  BY <1>5, NoFlightTouched DEF Arrive, TypeOK
<1>6. ASSUME NEW r \in Requests,
             \/ L1Hit(r) \/ L1Miss(r) \/ L1Evict(r) \/ L2Hit(r) \/ L2Miss(r)
             \/ Fill(r) \/ Reply(r)
      PROVE  Coalesced'
  BY <1>6, NoFlightTouched
     DEF L1Hit, L1Miss, L1Evict, L2Hit, L2Miss, Fill, StoreL1, Reply, TypeOK
<1>7. ASSUME NEW w \in Webhooks, InvalidateL1(w) \/ InvalidateStep(w)
      PROVE  Coalesced'
  BY <1>7, NoFlightTouched, WebhookFrame DEF WebhookStep
<1>8. CASE Restart
  BY <1>8, ConstantsAssumption DEF Restart, Coalesced, SingleFlight, NoLostWaiter
<1>9. CASE Environment /\ ~Restart
  BY <1>9, NoFlightTouched
     DEF Environment, L1Expire, L2Expire, LateSet, PeerSet, Janitor, Refresh, HealthCheck
<1>10. CASE UNCHANGED vars
  BY <1>10, NoFlightTouched DEF vars
<1> QED
  BY <1>1, <1>2, <1>3, <1>4, <1>5, <1>6, <1>7, <1>8, <1>9, <1>10
     DEF Next, Step

\* The inductive invariant behind the two theorems below (cache.go:128).
THEOREM CoalescedAlways == Spec => []Coalesced
<1>1. Init => Coalesced
  BY DEF Init, Coalesced, SingleFlight, NoLostWaiter
<1> QED
  BY <1>1, CoalescedStep, TypeInvariant, PTL DEF Spec

\* At most one loader runs per key, however many requests there are.
THEOREM AtMostOneLoader == Spec => []SingleFlight
<1>1. Coalesced => SingleFlight
  BY DEF Coalesced
<1> QED
  BY <1>1, CoalescedAlways, PTL

\* Whoever waits, waits for a flight that is still in the air.
THEOREM WaitersHaveALeader == Spec => []NoLostWaiter
<1>1. Coalesced => NoLostWaiter
  BY DEF Coalesced
<1> QED
  BY <1>1, CoalescedAlways, PTL

-----------------------------------------------------------------------------
(* Refinement: ReadThrough implements CacheContract.  Each step makes a     *)
(* copy of the warehouse, answers with a copy there is, or only loses some. *)

\* A loader fails only where faults are allowed.
FaultsOnly == \A r \in Requests : held[r] = Err => Faults

\* A request holds an error only where a loader may fail.
LEMMA FaultsOnlyStep == TypeOK /\ FaultsOnly /\ [Next]_vars => FaultsOnly'
<1> SUFFICES ASSUME TypeOK, FaultsOnly, [Next]_vars PROVE FaultsOnly'
  OBVIOUS
<1> USE ConstantsAssumption DEF TypeOK, FaultsOnly, requestVars
<1>1. ASSUME NEW r \in Requests, Step(r) PROVE FaultsOnly'
  <2>1. ASSUME NEW q \in Requests PROVE
          \/ held'[q] = held[q]
          \/ held'[q] = None \/ held'[q] \in Nat
          \/ held'[q] = held[r]
          \/ Faults
    BY <1>1 DEF Step, L1Hit, L1Miss, L1Evict, L2Hit, L2Miss, Fill, Lead, Follow,
       Load, LoadFail, SetL1, SetL2, Land, Reply
  <2> QED
    BY <2>1
<1>2. ASSUME NEW r \in Requests, NEW k \in Keys, Arrive(r, k) PROVE FaultsOnly'
  BY <1>2 DEF Arrive
<1>3. ASSUME NEW w \in Webhooks, InvalidateL1(w) \/ InvalidateStep(w)
      PROVE  FaultsOnly'
  BY <1>3, WebhookFrame DEF WebhookStep
<1>4. CASE Environment \/ UNCHANGED vars
  BY <1>4 DEF vars, Environment, L1Expire, L2Expire, LateSet, PeerSet, Janitor,
     Refresh, HealthCheck, Restart
<1> QED
  BY <1>1, <1>2, <1>3, <1>4 DEF Next

\* The copies of a key, place by place.
LEMMA CopiesOfIs ==
  ASSUME NEW k, NEW v
  PROVE  v \in CopiesOf(k) <=>
           /\ v # None /\ v # Err
           /\ \/ v = l1[k] \/ v = l2[k] \/ v \in wire[k]
              \/ \E r \in Requests : key[r] = k /\ pc[r] \in Carrying /\ held[r] = v
  BY DEF CopiesOf

\* A copy is a version the warehouse has had.
LEMMA CopiesAreVersions ==
  TypeOK => \A k \in Keys : CopiesOf(k) \subseteq 0..warehouse
  BY CopiesOfIs, ConstantsAssumption DEF TypeOK

\* A step that makes no copy and answers nobody.
LEMMA LosingStep ==
  ASSUME TypeOK, UNCHANGED <<warehouse, key, Answers>>,
         \A k \in Keys : CopiesOf(k)' \subseteq CopiesOf(k)
  PROVE  Promise!Next
<1>1. \A k \in Keys : CopiesOf(k)' \subseteq 0..warehouse
  BY CopiesAreVersions
<1>2. Promise!Lose
  BY <1>1 DEF Promise!Lose, Promise!Shrink
<1> QED
  BY <1>2 DEF Promise!Next

\* A step that makes a copy of k.
LEMMA CopyingStep ==
  ASSUME TypeOK, NEW k \in Keys,
         Peers \/ \E r \in Requests : key[r] = k /\ Answers[r] = None,
         UNCHANGED <<warehouse, key, Answers>>,
         \A j \in Keys :
           CopiesOf(j)' = IF j = k THEN CopiesOf(k) \cup {warehouse} ELSE CopiesOf(j)
  PROVE  Promise!Next
<1> DEFINE copies == [j \in Keys |-> CopiesOf(j)]
<1>1. copies' = [copies EXCEPT ![k] = @ \cup {warehouse}]
  OBVIOUS
<1>2. Promise!Copy(k)
  BY <1>1 DEF Promise!Copy
<1> QED
  BY <1>2 DEF Promise!Next

\* A step that answers the requests R, which ask for k, with v.
Answering(k, R, v) ==
  /\ v \in CopiesOf(k) \/ (Faults /\ v = Err)
  /\ R \subseteq Requests
  /\ \A r \in R : key[r] = k /\ pc[r] # "done"
  /\ \A r \in R : pc'[r] = "done" /\ held'[r] = v
  /\ \A r \in Requests \ R :
       (pc'[r] = "done") = (pc[r] = "done") /\ held'[r] = held[r]
  /\ UNCHANGED <<warehouse, key>>
  /\ \A j \in Keys : CopiesOf(j)' \subseteq CopiesOf(j)

\* Answering some requests with one copy of their key is a step of the contract.
LEMMA AnsweringStep ==
  ASSUME TypeOK, NEW k \in Keys, NEW R, NEW v, Answering(k, R, v)
  PROVE  Promise!Next
<1>1. \A j \in Keys : CopiesOf(j) \subseteq 0..warehouse
  BY CopiesAreVersions
<1>2. v \in (0..warehouse) \cup {Err}
  BY <1>1 DEF Answering
<1>3. Answers' = [r \in Requests |-> IF r \in R THEN v ELSE Answers[r]]
  BY DEF Answers, Answering
<1>4. \A r \in R : Answers[r] = None
  BY DEF Answers, Answering
<1>5. Promise!Answer(k, R, v)
  BY <1>1, <1>3, <1>4 DEF Promise!Answer, Promise!Shrink, Answering
<1> QED
  BY <1>2, <1>5 DEF Promise!Next, Answering

\* Each step of a request is a step of the contract or leaves it alone.
LEMMA RequestRefines ==
  ASSUME TypeOK, FaultsOnly, NEW r \in Requests, Step(r)
  PROVE  Promise!Next
<1> DEFINE k == key[r]
<1> USE ConstantsAssumption DEF TypeOK, requestVars
<1>1. CASE L1Hit(r)
  <2>1. k \in Keys /\ l1[k] \in CopiesOf(k)
    BY <1>1, CopiesOfIs DEF L1Hit
  <2>2. \A j \in Keys : CopiesOf(j)' \subseteq CopiesOf(j)
    BY <1>1, CopiesOfIs DEF L1Hit, CopiesOf
  <2>3. Answering(k, {r}, l1[k])
    BY <1>1, <2>1, <2>2 DEF L1Hit, Answering
  <2> QED
    BY <2>1, <2>3, AnsweringStep
<1>2. CASE L1Miss(r) \/ L1Evict(r) \/ L2Miss(r) \/ Lead(r) \/ Follow(r)
  <2>1. Answers' = Answers /\ UNCHANGED <<warehouse, key>>
    BY <1>2 DEF L1Miss, L1Evict, L2Miss, Lead, Follow, Answers
  <2>2. \A j \in Keys : CopiesOf(j)' \subseteq CopiesOf(j)
    BY <1>2 DEF L1Miss, L1Evict, L2Miss, Lead, Follow, CopiesOf
  <2> QED
    BY <2>1, <2>2, LosingStep
\* A value read from Redis, or stored in a cache, is a copy already.
<1>3. CASE L2Hit(r)
  <2>1. Answers' = Answers /\ UNCHANGED <<warehouse, key>>
    BY <1>3 DEF L2Hit, Answers
  <2>2. \A j \in Keys : CopiesOf(j)' \subseteq CopiesOf(j)
    BY <1>3 DEF L2Hit, CopiesOf
  <2> QED
    BY <2>1, <2>2, LosingStep
<1>4. CASE SetL1(r) \/ SetL2(r)
  <2>1. Answers' = Answers /\ UNCHANGED <<warehouse, key>>
    BY <1>4 DEF SetL1, SetL2, StoreL1, Answers
  <2>2. \A j \in Keys : CopiesOf(j)' \subseteq CopiesOf(j)
    BY <1>4 DEF SetL1, SetL2, StoreL1, CopiesOf
  <2> QED
    BY <2>1, <2>2, LosingStep
<1>5. CASE LoadFail(r)
  <2>1. Answers' = Answers /\ UNCHANGED <<warehouse, key>>
    BY <1>5 DEF LoadFail, Answers
  <2>2. \A j \in Keys : CopiesOf(j)' \subseteq CopiesOf(j)
    BY <1>5 DEF LoadFail, CopiesOf
  <2> QED
    BY <2>1, <2>2, LosingStep
<1>6. CASE Fill(r)
  <2>1. k \in Keys /\ held[r] \in CopiesOf(k)
    BY <1>6, CopiesOfIs DEF Fill
  <2>2. \A j \in Keys : CopiesOf(j)' \subseteq CopiesOf(j)
    BY <1>6 DEF Fill, StoreL1, CopiesOf
  <2>3. Answering(k, {r}, held[r])
    BY <1>6, <2>1, <2>2 DEF Fill, Answering
  <2> QED
    BY <2>1, <2>3, AnsweringStep
\* The loader makes a copy of the warehouse as it is now.
<1>7. CASE Load(r)
  <2>1. Answers' = Answers /\ Answers[r] = None /\ UNCHANGED <<warehouse, key>>
    BY <1>7 DEF Load, Answers
  <2>2. \A j \in Keys :
          CopiesOf(j)' = IF j = k THEN CopiesOf(k) \cup {warehouse} ELSE CopiesOf(j)
    BY <1>7 DEF Load, CopiesOf
  <2>3. k \in Keys
    BY <1>7 DEF Load
  <2> QED
    BY <2>1, <2>2, <2>3, CopyingStep
<1>8. CASE Land(r)
  <2>1. k \in Keys /\ (held[r] \in CopiesOf(k) \/ (Faults /\ held[r] = Err))
    BY <1>8, CopiesOfIs DEF Land, FaultsOnly
  <2>2. \A j \in Keys : CopiesOf(j)' \subseteq CopiesOf(j)
    BY <1>8 DEF Land, Waiting, CopiesOf
  <2>3. Answering(k, Waiting(r) \cup {r}, held[r])
    BY <1>8, <2>1, <2>2 DEF Land, Waiting, Answering
  <2> QED
    BY <2>1, <2>3, AnsweringStep
<1>9. CASE Reply(r)
  <2>1. Answers[r] # None /\ Answers' = [Answers EXCEPT ![r] = None]
    BY <1>9 DEF Reply, Answers
  <2>2. \A j \in Keys : CopiesOf(j)' = CopiesOf(j)
    BY <1>9 DEF Reply, CopiesOf
  <2>3. Promise!Done(r)
    BY <1>9, <2>1, <2>2 DEF Reply, Promise!Done
  <2> QED
    BY <2>3 DEF Promise!Next
<1> QED
  BY <1>1, <1>2, <1>3, <1>4, <1>5, <1>6, <1>7, <1>8, <1>9 DEF Step

\* So is each step of time, Redis, the other processes and restarts.
LEMMA OutsideRefines ==
  ASSUME TypeOK, Environment
  PROVE  Promise!Next
<1> USE ConstantsAssumption DEF TypeOK, requestVars
<1>1. CASE \/ \E k \in Keys : L1Expire(k) \/ L2Expire(k)
           \/ \E k \in Keys : \E v \in wire[k] : LateSet(k, v)
           \/ Janitor \/ HealthCheck
  <2>1. Answers' = Answers /\ UNCHANGED <<warehouse, key>>
    BY <1>1 DEF L1Expire, L2Expire, Janitor, HealthCheck, LateSet, Answers
  <2>2. \A j \in Keys : CopiesOf(j)' \subseteq CopiesOf(j)
    BY <1>1 DEF L1Expire, L2Expire, Janitor, HealthCheck, LateSet, CopiesOf
  <2> QED
    BY <2>1, <2>2, LosingStep
<1>2. ASSUME NEW k \in Keys, PeerSet(k) PROVE Promise!Next
  <2>1. Answers' = Answers /\ UNCHANGED <<warehouse, key>> /\ Peers
    BY <1>2 DEF PeerSet, Answers
  <2>2. \A j \in Keys :
          CopiesOf(j)' = IF j = k THEN CopiesOf(k) \cup {warehouse} ELSE CopiesOf(j)
    BY <1>2 DEF PeerSet, CopiesOf
  <2> QED
    BY <2>1, <2>2, CopyingStep
<1>3. CASE Refresh
  <2>1. Answers' = Answers /\ key' = key
    BY <1>3 DEF Refresh, Answers
  <2>2. \A j \in Keys : CopiesOf(j)' = CopiesOf(j)
    BY <1>3 DEF Refresh, CopiesOf
  <2> QED
    BY <1>3, <2>1, <2>2 DEF Refresh, Promise!Refresh, Promise!Next
<1>4. CASE Restart
  <2>1. Answers' = [r \in Requests |-> None]
    BY <1>4 DEF Restart, Answers
  <2>2. \A j \in Keys : CopiesOf(j)' \subseteq CopiesOf(j)
    BY <1>4 DEF Restart, CopiesOf
  <2>3. \A j \in Keys : CopiesOf(j)' \subseteq 0..warehouse
    BY <2>2, CopiesAreVersions
  <2> QED
    BY <1>4, <2>1, <2>2, <2>3
       DEF Restart, Promise!Crash, Promise!Shrink, Promise!Next
<1> QED
  BY <1>1, <1>2, <1>3, <1>4 DEF Environment

\* Every step of the cache is a step of the contract or leaves it alone.
LEMMA StepRefines ==
  TypeOK /\ FaultsOnly /\ [Next]_vars => [Promise!Next]_(Promise!vars)
<1> SUFFICES ASSUME TypeOK, FaultsOnly, [Next]_vars
             PROVE  [Promise!Next]_(Promise!vars)
  OBVIOUS
<1>1. ASSUME NEW r \in Requests, NEW k \in Keys, Arrive(r, k) PROVE Promise!Next
  <2>1. Answers' = Answers /\ \A j \in Keys : CopiesOf(j)' = CopiesOf(j)
    BY <1>1, ConstantsAssumption DEF Arrive, Answers, CopiesOf, TypeOK
  <2>2. Promise!Ask(r, k)
    BY <1>1, <2>1 DEF Arrive, TypeOK, Promise!Ask
  <2> QED
    BY <2>2 DEF Promise!Next
<1>2. ASSUME NEW w \in Webhooks, WebhookStep(w) PROVE Promise!Next
  <2>1. Answers' = Answers /\ UNCHANGED <<warehouse, key>>
    BY <1>2, WebhookFrame DEF Answers, requestVars
  <2>2. \A j \in Keys : CopiesOf(j)' \subseteq CopiesOf(j)
    BY <1>2, WebhookFrame DEF CopiesOf, requestVars
  <2> QED
    BY <2>1, <2>2, LosingStep
<1>3. CASE UNCHANGED vars
  BY <1>3 DEF vars, requestVars, Promise!vars, CopiesOf, Answers
<1> QED
  BY <1>1, <1>2, <1>3, RequestRefines, OutsideRefines DEF Next, WebhookStep

\* The cache keeps its promise: an answer is a copy of its own key made while
\* the warehouse was that version, waiters get what their leader got, and a
\* version whose last copy is gone is never served again (cache.go:112-143).
THEOREM KeepsThePromise == Spec => ImplementsContract
<1>1. Init => FaultsOnly
  BY ConstantsAssumption DEF Init, FaultsOnly
<1>2. Spec => []FaultsOnly
  BY <1>1, FaultsOnlyStep, TypeInvariant, PTL DEF Spec
<1>3. Init => Promise!Init
  BY DEF Init, Promise!Init, CopiesOf, Answers
<1> QED
  BY <1>2, <1>3, StepRefines, TypeInvariant, PTL
     DEF Spec, ImplementsContract, Promise!Spec

-----------------------------------------------------------------------------
(* Invalidation: the history it is judged by, and what it guarantees.       *)

\* A step with its history is a step, so types are inherited.
LEMMA HStepIsStep == [HNext]_hvars => [Next]_vars
<1> SUFFICES ASSUME [HNext]_hvars PROVE [Next]_vars
  OBVIOUS
<1>1. ASSUME NEW r \in Requests, NEW k \in Keys, Ask(r, k) PROVE Next
  BY <1>1 DEF Ask, Next
<1>2. ASSUME NEW r \in Requests, ReadL2(r) \/ Leave(r) \/ Other(r) PROVE Next
  BY <1>2 DEF ReadL2, Leave, Other, Next, Step
<1>3. ASSUME NEW w \in Webhooks, Begin(w) \/ Open(w) \/ Return(w) PROVE Next
  BY <1>3 DEF Begin, Open, Return, Next, InvalidateStep
<1>4. ASSUME NEW w \in Webhooks, NEW k \in Keys, NEW ok \in BOOLEAN, Visit(w, k, ok)
      PROVE  Next
  BY <1>4 DEF Visit, Next, InvalidateStep
<1>5. ASSUME NEW w \in Webhooks, NEW ok \in BOOLEAN, Close(w, ok) PROVE Next
  BY <1>5 DEF Close, Next, InvalidateStep
<1>6. CASE Reborn \/ Outside
  BY <1>6 DEF Reborn, Outside, Next, Environment
<1>7. CASE UNCHANGED hvars
  BY <1>7 DEF hvars
<1> QED
  BY <1>1, <1>2, <1>3, <1>4, <1>5, <1>6, <1>7 DEF HNext

\* The history changes nothing of what ReadThrough does: its types hold.
THEOREM HTypeInvariant == HSpec => []TypeOK
<1>1. HInit => TypeOK
  BY ConstantsAssumption DEF HInit, Init, TypeOK, WebhookTypes
<1>2. TypeOK /\ [HNext]_hvars => TypeOK'
  BY HStepIsStep, TypeStep
<1> QED
  BY <1>1, <1>2, PTL DEF HSpec

-----------------------------------------------------------------------------
(* The inductive invariant.  NoStaleCopy is stated entry by entry, the form *)
(* in which the steps keep it.                                              *)

AboveFloor ==
  \A k \in Keys :
    /\ l1[k] # None => l1[k] >= floor[k]
    /\ l2[k] # None => l2[k] >= floor[k]
    /\ \A v \in wire[k] : v >= floor[k]
    /\ \A r \in Requests : key[r] = k /\ pc[r] \in Carrying /\ held[r] # Err
         => held[r] >= floor[k]

HInv == HistoryOrdered /\ OldOnlyWherePending /\ AboveFloor /\ FreshReplies

\* Being above the floor, place by place, is what NoStaleCopy says of copies.
LEMMA AboveFloorIsNoStaleCopy == TypeOK /\ AboveFloor => NoStaleCopy
  BY DEF TypeOK, AboveFloor, NoStaleCopy, Copies

\* Before any webhook nothing is promised.
LEMMA HInitHolds == HInit => HInv
<1> SUFFICES ASSUME HInit PROVE HInv
  OBVIOUS
<1>1. HistoryOrdered
  BY DEF HInit, Init, HistoryOrdered
<1>2. OldOnlyWherePending
  BY DEF HInit, Init, OldOnlyWherePending
<1>3. AboveFloor /\ FreshReplies
  BY DEF HInit, Init, AboveFloor, FreshReplies
<1> QED
  BY <1>1, <1>2, <1>3 DEF HInv

\* Where a step may take a value of key k from without reading Redis: from the
\* warehouse, from L1, from the wire, or from a goroutine's hands.
Source(k, v) ==
  /\ v \in Nat
  /\ \/ v = warehouse
     \/ v = l1[k]
     \/ v \in wire[k]
     \/ \E r \in Requests : key[r] = k /\ pc[r] \in Carrying /\ held[r] = v

\* A value that may be copied is as new as the promise to its key, and as the
\* mark of every running call the key is still quiet for.
LEMMA SourceIsFresh ==
  ASSUME TypeOK, HInv, NEW k \in Keys, NEW v, Source(k, v)
  PROVE  /\ v >= floor[k]
         /\ \A w \in Webhooks : ivPos[w] # 0 /\ k \in quiet[w] => v >= mark[w]
<1> USE ConstantsAssumption DEF TypeOK, HInv
<1>1. CASE v = warehouse
  BY <1>1 DEF HistoryOrdered
<1>2. CASE v = l1[k] /\ v # None
  BY <1>2 DEF AboveFloor, OldOnlyWherePending
<1>3. ASSUME NEW r \in Requests, key[r] = k, pc[r] \in Carrying, held[r] = v, v # Err
      PROVE  /\ v >= floor[k]
             /\ \A w \in Webhooks : ivPos[w] # 0 /\ k \in quiet[w] => v >= mark[w]
  BY <1>3 DEF AboveFloor, OldOnlyWherePending
<1>4. CASE v \in wire[k]
  BY <1>4 DEF AboveFloor, OldOnlyWherePending
<1>5. v # None /\ v # Err
  BY DEF Source
<1> QED
  BY <1>1, <1>2, <1>3, <1>4, <1>5 DEF Source

\* A step that copies values from these sources, and lets others go.
Copying ==
  /\ UNCHANGED <<history, ivVars>> /\ warehouse <= warehouse'
  /\ \A k \in Keys : l1'[k] = None \/ Source(k, l1'[k])
  /\ \A k \in Keys : l2'[k] \in {None, l2[k]} \/ Source(k, l2'[k])
  /\ \A k \in Keys : \A v \in wire'[k] : Source(k, v)
  /\ \A r \in Requests : pc'[r] \in Carrying /\ held'[r] # Err
       => key'[r] \in Keys /\ Source(key'[r], held'[r])
  /\ \A r \in Requests : pc'[r] = "done" /\ held'[r] # Err
       => \/ pc[r] = "done" /\ held'[r] = held[r]
          \/ Source(key'[r], held'[r])
  /\ \A r \in Requests : pc'[r] # "idle" => pc[r] # "idle" /\ key'[r] = key[r]

\* Such a step keeps HInv.
LEMMA CopyStep == ASSUME TypeOK, TypeOK', HInv, Copying PROVE HInv'
<1> USE ConstantsAssumption DEF history, ivVars, Copying
<1>1. HistoryOrdered'
  BY DEF TypeOK, HInv, HistoryOrdered
<1>2. \A w \in Webhooks : Pending(w)' = Pending(w)
  BY DEF Pending
<1>3. ASSUME NEW w \in Webhooks, ivPos[w] # 0, NEW k \in quiet[w]
      PROVE  /\ l1'[k] # None => l1'[k] >= mark[w]
             /\ l2'[k] # None => l2'[k] >= mark[w] \/ k \in Pending(w)
             /\ \A v \in wire'[k] : v >= mark[w]
             /\ \A r \in Requests :
                  key'[r] = k /\ pc'[r] \in Carrying /\ held'[r] # Err
                    => held'[r] >= mark[w]
  <2>1. k \in Keys
    BY <1>3 DEF HInv, HistoryOrdered
  <2>2. \A v : Source(k, v) => v >= mark[w]
    BY <1>3, <2>1, SourceIsFresh
  <2> QED
    BY <1>3, <2>1, <2>2 DEF HInv, OldOnlyWherePending
<1>4. OldOnlyWherePending'
  BY <1>2, <1>3 DEF OldOnlyWherePending
<1>5. AboveFloor'
  BY SourceIsFresh DEF HInv, AboveFloor
<1>6. ASSUME NEW r \in Requests, pc'[r] = "done", held'[r] # Err
      PROVE  held'[r] >= due'[r]
  <2>1. CASE pc[r] = "done" /\ held'[r] = held[r]
    BY <1>6, <2>1 DEF HInv, FreshReplies
  <2>2. CASE Source(key'[r], held'[r])
    <3>1. key'[r] \in Keys /\ due[r] <= floor[key'[r]]
      BY <1>6 DEF TypeOK, HInv, HistoryOrdered
    <3>2. held'[r] >= floor[key'[r]]
      BY <2>2, <3>1, SourceIsFresh
    <3> QED
      BY <2>2, <3>1, <3>2 DEF TypeOK, HInv, HistoryOrdered, Source
  <2> QED
    BY <1>6, <2>1, <2>2
<1> QED
  BY <1>1, <1>4, <1>5, <1>6 DEF HInv, FreshReplies

\* The steps of a request, but for its arrival, its reading of Redis and its end.
LEMMA OtherStep ==
  ASSUME TypeOK, TypeOK', HInv, NEW r \in Requests, Other(r)
  PROVE  HInv'
<1> USE ConstantsAssumption DEF TypeOK, Source, requestVars, history, ivVars
<1>1. CASE L1Hit(r) /\ UNCHANGED history
  <2>1. Copying
    BY <1>1 DEF L1Hit, Copying
  <2> QED
    BY <2>1, CopyStep
<1>2. CASE /\ UNCHANGED history
           /\ L1Miss(r) \/ L1Evict(r) \/ L2Miss(r) \/ Lead(r) \/ Follow(r)
  <2>1. Copying
    BY <1>2 DEF L1Miss, L1Evict, L2Miss, Lead, Follow, Copying
  <2> QED
    BY <2>1, CopyStep
<1>3. CASE (Fill(r) \/ SetL1(r)) /\ UNCHANGED history
  <2>1. Copying
    BY <1>3 DEF Fill, SetL1, StoreL1, Copying
  <2> QED
    BY <2>1, CopyStep
<1>4. CASE Load(r) /\ UNCHANGED history
  <2>1. Copying
    BY <1>4 DEF Load, Copying
  <2> QED
    BY <2>1, CopyStep
<1>7. CASE LoadFail(r) /\ UNCHANGED history
  <2>1. Copying
    BY <1>7 DEF LoadFail, Copying
  <2> QED
    BY <2>1, CopyStep
<1>5. CASE SetL2(r) /\ UNCHANGED history
  <2>1. Copying
    BY <1>5 DEF SetL2, Copying
  <2> QED
    BY <2>1, CopyStep
<1>6. CASE Land(r) /\ UNCHANGED history
  <2>1. Copying
    BY <1>6 DEF Land, Waiting, Copying
  <2> QED
    BY <2>1, CopyStep
<1> QED
  BY <1>1, <1>2, <1>3, <1>4, <1>5, <1>6, <1>7 DEF Other

\* The steps of nobody's goroutine: Redis is set from the wire at most.
LEMMA OutsideStep ==
  ASSUME TypeOK, TypeOK', HInv, Outside \/ UNCHANGED hvars
  PROVE  HInv'
<1>1. ASSUME UNCHANGED history,
             \/ \E k \in Keys : L1Expire(k) \/ L2Expire(k)
             \/ Janitor \/ Refresh \/ HealthCheck
      PROVE  Copying
  <2>1. UNCHANGED <<ivVars, requestVars, wire>> /\ warehouse <= warehouse'
    BY <1>1 DEF TypeOK, L1Expire, L2Expire, Janitor, Refresh, HealthCheck
  <2>2. \A k \in Keys : l1'[k] \in {None, l1[k]} /\ l2'[k] \in {None, l2[k]}
    BY <1>1 DEF TypeOK, L1Expire, L2Expire, Janitor, Refresh, HealthCheck
  <2> QED
    BY <1>1, <2>1, <2>2 DEF TypeOK, Source, Copying, requestVars
<1>2. ASSUME UNCHANGED history, NEW k \in Keys, NEW v \in wire[k], LateSet(k, v)
      PROVE  Copying
  BY <1>2 DEF LateSet, TypeOK, Source, Copying, requestVars
<1>3. ASSUME UNCHANGED history, NEW k \in Keys, PeerSet(k) PROVE Copying
  BY <1>3 DEF PeerSet, TypeOK, Source, Copying, requestVars
<1>4. CASE UNCHANGED hvars
  <2>1. Copying
    BY <1>4 DEF hvars, vars, TypeOK, Source, Copying, requestVars
  <2> QED
    BY <2>1, CopyStep
<1> QED
  BY <1>1, <1>2, <1>3, <1>4, CopyStep DEF Outside

\* The steps that begin and end a request, or the process.
LEMMA OwnStep ==
  ASSUME TypeOK, TypeOK', HInv,
         \/ \E r \in Requests, k \in Keys : Ask(r, k)
         \/ \E r \in Requests : ReadL2(r) \/ Leave(r)
         \/ Reborn
  PROVE  HInv'
<1> USE ConstantsAssumption
    DEF HInv, TypeOK, HistoryOrdered, OldOnlyWherePending, AboveFloor, FreshReplies,
        requestVars, ivVars, vars, history
<1>1. ASSUME NEW r \in Requests, NEW k \in Keys, Ask(r, k) PROVE HInv'
  BY <1>1 DEF Ask, Arrive, Pending
<1>2. ASSUME NEW r \in Requests, ReadL2(r) PROVE HInv'
  <2>1. \A w \in Webhooks : Pending(w)' = Pending(w)
    BY <1>2 DEF ReadL2, L2Hit, Pending
  <2>2. HistoryOrdered' /\ AboveFloor' /\ FreshReplies'
    BY <1>2 DEF ReadL2, L2Hit
  <2>3. OldOnlyWherePending'
    BY <1>2, <2>1 DEF ReadL2, L2Hit
  <2> QED
    BY <2>2, <2>3
<1>3. ASSUME NEW r \in Requests, Leave(r) PROVE HInv'
  BY <1>3 DEF Leave, Reply, Pending
<1>4. CASE Reborn
  BY <1>4 DEF Reborn, Restart
<1> HIDE DEF HInv, TypeOK
<1> QED
  BY <1>1, <1>2, <1>3, <1>4

\* The steps of a webhook other than its return: they lose copies, and the
\* keys whose deletion is no longer to come are gone from Redis or not quiet.
LEMMA PurgeStep ==
  ASSUME TypeOK, TypeOK', HInv, NEW w \in Webhooks,
         \/ Open(w)
         \/ \E k \in Keys, ok \in BOOLEAN : Visit(w, k, ok)
         \/ \E ok \in BOOLEAN : Close(w, ok)
  PROVE  HInv'
<1> USE ConstantsAssumption DEF HInv, HistoryOrdered, requestVars, history
<1>1. /\ UNCHANGED <<mark, floor, due>>
      /\ quiet' \in [Webhooks -> SUBSET Keys]
      /\ \A u \in Webhooks : quiet'[u] \subseteq quiet[u]
      /\ \A u \in Webhooks : u # w => quiet'[u] = quiet[u]
  BY DEF Open, Visit, Close, Disturb
<1>2. WebhookStep(w) /\ l1' = l1
  BY DEF Open, Visit, Close, ScanOpen, ScanVisit, ScanClose,
         WebhookStep, InvalidateStep
<1>3. /\ UNCHANGED <<warehouse, wire, pc, key, held>>
      /\ \A k \in Keys : l2'[k] \in {None, l2[k]}
  BY <1>2, WebhookFrame
<1>4. HistoryOrdered' /\ AboveFloor' /\ FreshReplies'
  BY <1>1, <1>2, <1>3 DEF AboveFloor, FreshReplies
<1>5. /\ ivPos[w] # 0
      /\ \A u \in Webhooks : u # w =>
           UNCHANGED <<ivPos[u], ivScan[u], ivBatch[u]>>
  <2> USE DEF TypeOK, WebhookTypes
  <2>1. CASE Open(w)
    BY <2>1 DEF Open, ScanOpen
  <2>2. CASE \E k \in Keys, ok \in BOOLEAN : Visit(w, k, ok)
    BY <2>2 DEF Visit, ScanVisit
  <2>3. CASE \E ok \in BOOLEAN : Close(w, ok)
    BY <2>3 DEF Close, ScanClose
  <2> QED
    BY <2>1, <2>2, <2>3
<1>6. \A u \in Webhooks : u # w => Pending(u)' = Pending(u)
  BY <1>5 DEF Pending
<1>7. ASSUME NEW k \in quiet'[w], k \in Pending(w)
      PROVE  k \in Pending(w)' \/ l2'[k] = None
  <2> USE DEF TypeOK, WebhookTypes, Disturb, Pending
  <2>1. CASE Open(w)
    BY <1>7, <2>1 DEF Open, ScanOpen
  <2>2. ASSUME NEW j \in Keys, NEW ok \in BOOLEAN, Visit(w, j, ok)
        PROVE  k \in Pending(w)' \/ l2'[k] = None
    BY <1>7, <2>2 DEF Visit, ScanVisit, Flush
  <2>3. ASSUME NEW ok \in BOOLEAN, Close(w, ok)
        PROVE  k \in Pending(w)' \/ l2'[k] = None
    BY <1>7, <2>3 DEF Close, ScanClose, Flush
  <2> QED
    BY <2>1, <2>2, <2>3
<1>8. ASSUME NEW u \in Webhooks, ivPos'[u] # 0, NEW k \in quiet'[u]
      PROVE  /\ l1'[k] # None => l1'[k] >= mark'[u]
             /\ l2'[k] # None => l2'[k] >= mark'[u] \/ k \in Pending(u)'
             /\ \A v \in wire'[k] : v >= mark'[u]
             /\ \A r \in Requests :
                  key'[r] = k /\ pc'[r] \in Carrying /\ held'[r] # Err
                    => held'[r] >= mark'[u]
  <2>1. k \in Keys /\ k \in quiet[u] /\ ivPos[u] # 0
    BY <1>1, <1>5, <1>8
  <2>2. /\ l1[k] # None => l1[k] >= mark[u]
        /\ l2[k] # None => l2[k] >= mark[u] \/ k \in Pending(u)
        /\ \A v \in wire[k] : v >= mark[u]
        /\ \A r \in Requests : key[r] = k /\ pc[r] \in Carrying /\ held[r] # Err
             => held[r] >= mark[u]
    BY <2>1 DEF OldOnlyWherePending
  <2>3. k \in Pending(u) => k \in Pending(u)' \/ l2'[k] = None
    BY <1>6, <1>7, <1>8
  <2> QED
    BY <1>1, <1>2, <1>3, <2>1, <2>2, <2>3
<1>9. OldOnlyWherePending'
  BY <1>8 DEF OldOnlyWherePending
<1> QED
  BY <1>4, <1>9

\* A call that begins promises only keys nobody has a value of, and L1 is empty.
LEMMA BeginStep ==
  ASSUME TypeOK, TypeOK', HInv, NEW w \in Webhooks, Begin(w)
  PROVE  HInv'
<1> USE ConstantsAssumption DEF TypeOK, WebhookTypes, HInv, requestVars
<1>1. ASSUME NEW k \in Keys PROVE k \in Pending(w)'
  <2>1. ivPos'[w] = 1 /\ ivScan'[w] = None
    BY DEF Begin, InvalidateL1
  <2>2. PICK i \in 1..Len(Prefixes) : k \in Prefixes[i]
    OBVIOUS
  <2> QED
    BY <2>1, <2>2 DEF Pending
<1>2. HistoryOrdered'
  BY DEF Begin, InvalidateL1, HistoryOrdered
<1>3. \A u \in Webhooks : u # w =>
        /\ ivPos'[u] = ivPos[u] /\ Pending(u)' = Pending(u)
        /\ quiet'[u] = quiet[u] /\ mark'[u] = mark[u]
  BY DEF Begin, InvalidateL1, Pending, HistoryOrdered
<1>4. \A k \in quiet'[w] : \A r \in Requests : key[r] = k => pc[r] \notin Carrying
  BY DEF Begin, InHand, HistoryOrdered
<1>5. \A k \in quiet'[w] : k \in Keys /\ wire[k] = {}
  BY DEF Begin, OnWire, HistoryOrdered
<1>6. /\ UNCHANGED <<l2, wire, pc, key, held>>
      /\ l1' = [k \in Keys |-> None]
  BY DEF Begin, InvalidateL1
<1>7. OldOnlyWherePending'
  BY <1>1, <1>3, <1>4, <1>5, <1>6, <1>2 DEF OldOnlyWherePending, HistoryOrdered
<1>8. AboveFloor' /\ FreshReplies'
  BY DEF Begin, InvalidateL1, AboveFloor, FreshReplies
<1> QED
  BY <1>2, <1>7, <1>8

\* Nothing is pending any more, so every copy of a quiet key has the mark.
LEMMA ReturnStep ==
  ASSUME TypeOK, TypeOK', HInv, NEW w \in Webhooks, Return(w)
  PROVE  HInv'
<1> USE ConstantsAssumption DEF TypeOK, WebhookTypes, HInv, requestVars
<1>1. Pending(w) = {} /\ ivPos[w] # 0
  BY DEF Return, InvalidateReturn, Pending
<1>2. /\ floor' \in [Keys -> Version]
      /\ \A k \in Keys : floor[k] <= floor'[k]
      /\ \A k \in Keys : floor'[k] = floor[k] \/ (k \in quiet[w] /\ floor'[k] = mark[w])
  BY DEF Return, HistoryOrdered
<1>3. HistoryOrdered'
  BY <1>2 DEF Return, InvalidateReturn, HistoryOrdered
<1>7. UNCHANGED <<l1, l2, wire, pc, key, held>>
  BY DEF Return, InvalidateReturn
<1>8. ASSUME NEW k \in Keys, k \in quiet[w]
      PROVE  /\ l1[k] # None => l1[k] >= mark[w]
             /\ l2[k] # None => l2[k] >= mark[w]
             /\ \A v \in wire[k] : v >= mark[w]
             /\ \A r \in Requests : key[r] = k /\ pc[r] \in Carrying /\ held[r] # Err
                  => held[r] >= mark[w]
  BY <1>1, <1>8 DEF OldOnlyWherePending
<1>9. ASSUME NEW k \in Keys
      PROVE  /\ l1'[k] # None => l1'[k] >= floor'[k]
             /\ l2'[k] # None => l2'[k] >= floor'[k]
             /\ \A v \in wire'[k] : v >= floor'[k]
             /\ \A r \in Requests : key'[r] = k /\ pc'[r] \in Carrying /\ held'[r] # Err
                  => held'[r] >= floor'[k]
  <2>1. CASE floor'[k] = floor[k]
    BY <1>7, <2>1 DEF AboveFloor
  <2>2. CASE k \in quiet[w] /\ floor'[k] = mark[w]
    BY <1>7, <1>8, <2>2
  <2> QED
    BY <1>2, <2>1, <2>2
<1>4. AboveFloor'
  BY <1>9 DEF AboveFloor
<1>5. \A u \in Webhooks : u # w =>
        /\ ivPos'[u] = ivPos[u] /\ Pending(u)' = Pending(u)
        /\ quiet'[u] = quiet[u] /\ mark'[u] = mark[u]
  BY DEF Return, InvalidateReturn, Pending, HistoryOrdered
<1>6. OldOnlyWherePending' /\ FreshReplies'
  BY <1>5 DEF Return, InvalidateReturn, OldOnlyWherePending, FreshReplies
<1> QED
  BY <1>3, <1>4, <1>6

\* Every step of the cache, with its history, keeps the invariant.
LEMMA HInvStep == TypeOK /\ TypeOK' /\ HInv /\ [HNext]_hvars => HInv'
<1> SUFFICES ASSUME TypeOK, TypeOK', HInv, [HNext]_hvars PROVE HInv'
  OBVIOUS
<1> QED
  BY OtherStep, OwnStep, OutsideStep, PurgeStep, BeginStep, ReturnStep DEF HNext

\* The inductive invariant behind the three theorems below.
THEOREM HInvariant == HSpec => [](TypeOK /\ HInv)
<1>1. TypeOK /\ TypeOK' /\ HInv /\ [HNext]_hvars => HInv'
  BY HInvStep
<1> QED
  BY <1>1, HInitHolds, HTypeInvariant, PTL DEF HSpec

\* The invariant of the purge: what an invalidation in progress keeps true.
THEOREM PurgeInvariantAlways == HSpec => []PurgeInvariant
<1>1. TypeOK /\ HInv => PurgeInvariant
  BY DEF HInv, PurgeInvariant
<1> QED
  BY <1>1, HInvariant, PTL

\* No copy of a key an invalidation was not raced on is older than the refresh
\* it announced, in L1, in Redis or in anybody's hands (cache.go:147).
THEOREM NoStaleCopyAlways == HSpec => []NoStaleCopy
<1>1. TypeOK /\ HInv => NoStaleCopy
  BY AboveFloorIsNoStaleCopy DEF HInv
<1> QED
  BY <1>1, HInvariant, PTL

\* Nor is any answer to a request that arrives after it (health.go:28).
THEOREM FreshRepliesAlways == HSpec => []FreshReplies
<1>1. TypeOK /\ HInv => FreshReplies
  BY DEF HInv
<1> QED
  BY <1>1, HInvariant, PTL

=============================================================================
