-------------------------- MODULE MartsColumnsProofs --------------------------
(***************************************************************************)
(* What the requests pick from the column cache, proved for every table,   *)
(* every list of candidates and every number of requests that race.        *)
(***************************************************************************)
EXTENDS MartsColumns, TLAPS, WellFoundedInduction

USE ColumnsAssumption

Less == {p \in Nat \X Nat : p[1] < p[2]}

\* Every set of indexes has a least one, which is what Pick takes.
LEMMA LeastIndex ==
  ASSUME NEW N \in SUBSET Nat, N # {}
  PROVE  \E n \in N : \A m \in N : n <= m
<1>1. IsWellFoundedOn(Less, Nat)
  BY NatLessThanWellFounded DEF OpToRel, Less
<1>2. PICK n \in N : \A m \in N : ~ (<<m, n>> \in Less)
  BY <1>1, WFMin
<1>3. ASSUME NEW m \in N PROVE n <= m
  <2>1. m < n => <<m, n>> \in Less
    BY Zenon DEF Less
  <2> QED
    BY <1>2, <2>1
<1> QED
  BY <1>3

\* What is picked is one of the candidates and one of the columns, or nothing.
LEMMA PickIsAColumn ==
  ASSUME NEW columns, NEW names \in Seq(STRING)
  PROVE  /\ Pick(columns, names) \in columns \cup {None}
         /\ Pick(columns, names) \in STRING \cup {None}
<1> DEFINE there == {n \in 1..Len(names) : names[n] \in columns}
           least == CHOOSE n \in there : \A m \in there : n <= m
<1>1. CASE there = {}
  BY <1>1 DEF Pick
<1>2. CASE there # {}
  <2>1. \E n \in there : \A m \in there : n <= m
    <3>1. there \in SUBSET Nat
      OBVIOUS
    <3> HIDE DEF there
    <3> QED
      BY <1>2, <3>1, LeastIndex
  <2>2. least \in there
    BY <2>1, Zenon
  <2>3. Pick(columns, names) = names[least]
    BY <1>2 DEF Pick
  <2> QED
    BY <2>2, <2>3
<1> QED
  BY <1>1, <1>2

\* The names listed are strings, and each is one the SQL can use, unless it is of
\* another table or has capitals.
LEMMA ListedNames ==
  /\ Listed \subseteq STRING
  /\ \A name \in Listed : name \in Usable \/
       \E c \in Others \cup {d \in Own : d.capitals} : c.name = name
<1>1. \A c \in Own \cup Others : c.name \in STRING /\ c.capitals \in BOOLEAN
  OBVIOUS
<1>2. ASSUME NEW c \in Own \cup Others
      PROVE  c.name \in Usable \/
               \E e \in Others \cup {d \in Own : d.capitals} : e.name = c.name
  <2>1. CASE c \in Own /\ ~c.capitals
    BY <2>1 DEF Usable
  <2>2. CASE c \in Others \cup {d \in Own : d.capitals}
    BY <2>2
  <2> QED
    BY <1>1, <1>2, <2>1, <2>2
<1> QED
  BY <1>1, <1>2 DEF Listed

\* Each pick is listed, or nothing.
PicksListed ==
  \A r \in Requests : \A n \in 1..Len(picked[r]) : picked[r][n] \in Listed \cup {None}

Inv == ColumnsTypeOK /\ PicksListed

\* The invariant holds when the map has never been filled.
LEMMA InitInv == Init => Inv
  BY DEF Init, Inv, ColumnsTypeOK, PicksListed

\* A pick from a map of listed columns keeps the picks well-formed.
LEMMA PickStep ==
  ASSUME Inv, NEW r \in Requests, pc[r] \in {"look", "store"},
         NEW columns \in SUBSET Listed, PickFrom(r, columns)
  PROVE  /\ picked' \in [Requests -> Seq(STRING \cup {None})]
         /\ pc' \in [Requests -> {"idle", "look", "ask", "store", "query"}]
         /\ \A q \in Requests : Len(picked'[q]) <= Len(Candidates)
         /\ \A q \in Requests : pc'[q] \in {"look", "ask", "store"} =>
              Len(picked'[q]) < Len(Candidates)
         /\ \A q \in Requests : pc'[q] = "idle" => picked'[q] = <<>>
         /\ PicksListed'
<1> DEFINE n == Len(picked[r]) + 1
           p == Pick(columns, Candidates[n])
<1> USE DEF Inv, ColumnsTypeOK
<1>1. n \in 1..Len(Candidates) /\ Candidates[n] \in Seq(STRING)
  OBVIOUS
<1>2. p \in Listed \cup {None} /\ p \in STRING \cup {None}
  BY <1>1, PickIsAColumn
<1>3. /\ picked' = [picked EXCEPT ![r] = Append(picked[r], p)]
      /\ pc' = [pc EXCEPT ![r] = IF n = Len(Candidates) THEN "query" ELSE "look"]
  BY DEF PickFrom
<1> HIDE DEF p
<1>4. /\ picked'[r] \in Seq(STRING \cup {None})
      /\ Len(picked'[r]) = n
      /\ picked'[r][n] = p
      /\ \A m \in 1..(n - 1) : picked'[r][m] = picked[r][m]
  BY <1>2, <1>3
<1>5. PicksListed'
  <2> SUFFICES ASSUME NEW q \in Requests, NEW m \in 1..Len(picked'[q])
               PROVE  picked'[q][m] \in Listed \cup {None}
    BY DEF PicksListed
  <2>1. CASE q # r
    BY <1>3, <2>1 DEF PicksListed
  <2>2. CASE q = r /\ m = n
    BY <1>2, <1>4, <2>2
  <2>3. CASE q = r /\ m # n
    <3>1. m \in 1..Len(picked[r]) /\ picked'[r][m] = picked[r][m]
      BY <1>4, <2>3
    <3> QED
      BY <2>3, <3>1 DEF PicksListed
  <2> QED
    BY <2>1, <2>2, <2>3
<1> QED
  BY <1>1, <1>3, <1>4, <1>5

\* Every lookup, introspection and pick keeps the invariant.
LEMMA InvStep == Inv /\ [Next]_vars => Inv'
<1> SUFFICES ASSUME Inv, [Next]_vars PROVE Inv'
  OBVIOUS
<1>1. ASSUME NEW r \in Requests, Start(r) PROVE Inv'
  BY <1>1 DEF Inv, ColumnsTypeOK, PicksListed, Start
<1>2. ASSUME NEW r \in Requests, Hit(r) PROVE Inv'
  <2>1. cache \in SUBSET Listed /\ pc[r] = "look" /\ PickFrom(r, cache)
    BY <1>2 DEF Inv, ColumnsTypeOK, Hit
  <2> QED
    BY <1>2, <2>1, PickStep DEF Inv, ColumnsTypeOK, Hit
<1>3. ASSUME NEW r \in Requests, Miss(r) PROVE Inv'
  BY <1>3 DEF Inv, ColumnsTypeOK, PicksListed, Miss
<1>4. ASSUME NEW r \in Requests, Ask(r) PROVE Inv'
  <2>1. PICK columns \in SUBSET Listed : seen' = [seen EXCEPT ![r] = columns]
    BY <1>4 DEF Ask
  <2> QED
    BY <1>4, <2>1 DEF Inv, ColumnsTypeOK, PicksListed, Ask
<1>5. ASSUME NEW r \in Requests, Store(r) PROVE Inv'
  <2>1. seen[r] \in SUBSET Listed /\ pc[r] = "store" /\ PickFrom(r, seen[r])
    BY <1>5 DEF Inv, ColumnsTypeOK, Store
  <2> QED
    BY <1>5, <2>1, PickStep DEF Inv, ColumnsTypeOK, Store
<1>6. ASSUME NEW r \in Requests, Query(r) PROVE Inv'
  BY <1>6 DEF Inv, ColumnsTypeOK, PicksListed, Query
<1>7. CASE UNCHANGED vars
  BY <1>7 DEF Inv, ColumnsTypeOK, PicksListed, vars
<1> QED
  BY <1>1, <1>2, <1>3, <1>4, <1>5, <1>6, <1>7 DEF Next, Step

\* The map holds columns that are listed, and nobody picks more than there are
\* lists of candidates for.
THEOREM ColumnTypes == Spec => []ColumnsTypeOK
<1>1. Inv => ColumnsTypeOK
  BY DEF Inv
<1> QED
  BY <1>1, InitInv, InvStep, PTL DEF Spec

\* Whatever partial maps the requests see and share, the SQL of the loaders
\* names only columns the table has, unless a table of that name elsewhere has
\* the column or its own has it in capitals (metrik.go:313-317, 338-346).
THEOREM QueriesAreValid == Spec => []QueryIsValid
<1>1. Inv => QueryIsValid
  BY ListedNames DEF Inv, PicksListed, QueryIsValid
<1> QED
  BY <1>1, InitInv, InvStep, PTL DEF Spec

\* What a failed or partial introspection left in the map stays there: nothing
\* but a request that was reading before it was stored can replace it.
THEOREM MapBecomesFinal == Spec => MapIsFinal
<1>1. Inv /\ [Next]_vars =>
        [cache # None /\ ~Reading => cache' = cache /\ ~Reading']_vars
  <2> SUFFICES ASSUME Inv, Next, cache # None, ~Reading
               PROVE  cache' = cache /\ ~Reading'
    OBVIOUS
  <2>1. PICK r \in Requests : Start(r) \/ Hit(r) \/ Query(r)
    BY DEF Next, Step, Reading, Miss, Ask, Store
  <2>2. pc'[r] \in {"look", "query", "idle"} /\ cache' = cache
        /\ \A q \in Requests \ {r} : pc'[q] = pc[q]
    BY <2>1 DEF Inv, ColumnsTypeOK, Start, Hit, Query, PickFrom
  <2> QED
    BY <2>2 DEF Reading
<1> QED
  BY <1>1, InitInv, InvStep, PTL DEF Spec, MapIsFinal

-----------------------------------------------------------------------------
(* Until an introspection fails nobody sees less than the whole list.     *)

Whole ==
  /\ Inv
  /\ cache \in {None, Listed}
  /\ \A r \in Requests : pc[r] = "store" => seen[r] = Listed
  /\ AllBest

WholeUnlessLost == Inv /\ (lost = "no" => Whole)

\* A pick from the whole list is the best there is.
LEMMA PickBest ==
  ASSUME Whole, NEW r \in Requests, pc[r] \in {"look", "store"}, PickFrom(r, Listed)
  PROVE  AllBest'
<1> DEFINE n == Len(picked[r]) + 1
           p == Pick(Listed, Candidates[n])
<1> USE DEF Whole, Inv, ColumnsTypeOK
<1>1. /\ picked' = [picked EXCEPT ![r] = Append(picked[r], p)]
      /\ n \in 1..Len(Candidates)
  BY DEF PickFrom
<1>2. p \in STRING \cup {None}
  BY <1>1, PickIsAColumn
<1>3. /\ Len(picked'[r]) = n
      /\ picked'[r][n] = p
      /\ \A m \in 1..(n - 1) : picked'[r][m] = picked[r][m]
  <2> HIDE DEF p
  <2> QED
    BY <1>1, <1>2
<1> SUFFICES ASSUME NEW q \in Requests, NEW m \in 1..Len(picked'[q])
             PROVE  picked'[q][m] = Pick(Listed, Candidates[m])
  BY DEF AllBest
<1>4. CASE q # r
  BY <1>1, <1>4 DEF AllBest
<1>5. CASE q = r /\ m = n
  BY <1>3, <1>5
<1>6. CASE q = r /\ m # n
  <2>1. m \in 1..Len(picked[r]) /\ picked'[r][m] = picked[r][m]
    BY <1>3, <1>6
  <2> QED
    BY <1>6, <2>1 DEF AllBest
<1> QED
  BY <1>4, <1>5, <1>6

\* As long as nothing is lost, maps are the whole list.
LEMMA WholeStep == ASSUME Whole, [Next]_vars, lost' = "no", lost = "no" PROVE Whole'
<1>1. Inv'
  BY InvStep DEF Whole
<1>2. ASSUME NEW r \in Requests, Start(r) \/ Miss(r) \/ Query(r) PROVE Whole'
  <2>1. cache' = cache /\ seen' = seen
    BY <1>2 DEF Start, Miss, Query
  <2>2. \A q \in Requests : pc'[q] = "store" => pc[q] = "store"
    BY <1>2 DEF Whole, Inv, ColumnsTypeOK, Start, Miss, Query
  <2>3. AllBest'
    <3>1. CASE Start(r) \/ Miss(r)
      BY <3>1 DEF Whole, AllBest, Start, Miss
    <3>2. CASE Query(r)
      <4>1. /\ picked'[r] = <<>>
            /\ \A q \in Requests \ {r} : picked'[q] = picked[q]
        BY <3>2 DEF Whole, Inv, ColumnsTypeOK, Query
      <4>2. ASSUME NEW q \in Requests, NEW m \in 1..Len(picked'[q])
            PROVE  picked'[q][m] = Pick(Listed, Candidates[m])
        <5>1. q # r
          BY <4>1
        <5>2. picked'[q] = picked[q]
          BY <4>1, <5>1
        <5> QED
          BY <5>2 DEF Whole, AllBest
      <4> QED
        BY <4>2 DEF AllBest
    <3> QED
      BY <1>2, <3>1, <3>2
  <2> QED
    BY <1>1, <2>1, <2>2, <2>3 DEF Whole
<1>3. ASSUME NEW r \in Requests, Hit(r) PROVE Whole'
  <2>1. cache = Listed /\ pc[r] = "look" /\ PickFrom(r, Listed)
    BY <1>3 DEF Whole, Hit
  <2>2. AllBest'
    BY <2>1, PickBest
  <2> QED
    BY <1>1, <1>3, <2>1, <2>2 DEF Whole, Inv, ColumnsTypeOK, Hit, PickFrom
<1>4. ASSUME NEW r \in Requests, Ask(r) PROVE Whole'
  <2>1. seen' = [seen EXCEPT ![r] = Listed]
    <3>1. PICK columns \in SUBSET Listed :
            /\ seen' = [seen EXCEPT ![r] = columns]
            /\ lost' = IF columns = Listed THEN lost ELSE "yes"
      BY <1>4 DEF Ask
    <3>2. columns = Listed
      BY <3>1
    <3> QED
      BY <3>1, <3>2
  <2> QED
    BY <1>1, <1>4, <2>1 DEF Whole, Inv, ColumnsTypeOK, AllBest, Ask
<1>5. ASSUME NEW r \in Requests, Store(r) PROVE Whole'
  <2>1. seen[r] = Listed /\ pc[r] = "store" /\ PickFrom(r, Listed)
    BY <1>5 DEF Whole, Store
  <2>2. AllBest'
    BY <2>1, PickBest
  <2> QED
    BY <1>1, <1>5, <2>1, <2>2 DEF Whole, Inv, ColumnsTypeOK, Store, PickFrom
<1>6. CASE UNCHANGED vars
  BY <1>1, <1>6 DEF Whole, AllBest, vars
<1> QED
  BY <1>2, <1>3, <1>4, <1>5, <1>6 DEF Next, Step

\* Nothing that was lost is ever forgotten.
LEMMA LostStays == Inv /\ [Next]_vars /\ lost' = "no" => lost = "no"
<1> SUFFICES ASSUME Inv, [Next]_vars, lost' = "no" PROVE lost = "no"
  OBVIOUS
<1>1. ASSUME NEW r \in Requests, Ask(r) PROVE lost = "no"
  BY <1>1 DEF Ask
<1>2. ASSUME NEW r \in Requests, Start(r) \/ Hit(r) \/ Miss(r) \/ Store(r) \/ Query(r)
      PROVE  lost = "no"
  BY <1>2 DEF Start, Hit, Miss, Store, Query
<1>3. CASE UNCHANGED vars
  BY <1>3 DEF vars
<1> QED
  BY <1>1, <1>2, <1>3 DEF Next, Step

\* As long as the introspection works, every request names the columns
\* listed first, also the ones that race to fill the map.
THEOREM PicksAreBest == Spec => []BestPicked
<1>1. Init => WholeUnlessLost
  BY InitInv DEF WholeUnlessLost, Whole, Init, AllBest
<1>2. WholeUnlessLost /\ [Next]_vars => WholeUnlessLost'
  BY WholeStep, LostStays, InvStep DEF WholeUnlessLost
<1>3. WholeUnlessLost => BestPicked
  BY DEF WholeUnlessLost, Whole, BestPicked
<1> QED
  BY <1>1, <1>2, <1>3, PTL DEF Spec

=============================================================================
