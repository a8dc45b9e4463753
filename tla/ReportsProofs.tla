----------------------------- MODULE ReportsProofs -----------------------------
(***************************************************************************)
(* What the three loaders compute, proved for any groups and any amounts,  *)
(* in whatever order the rows come and whichever of them are lost: the     *)
(* stores the summary shows, and that the provinces, the channels and the  *)
(* bars add up.                                                            *)
(***************************************************************************)
EXTENDS Reports, FoldLemmas

\* What the table holds is an amount for each group, or nothing.
MartsType == marts \in [Groups -> Amounts \cup {None}]

\* A refresh changes what it holds, and nothing else does.
LEMMA MartsStep == MartsType /\ [Next]_vars => MartsType'
<1> USE DEF MartsType, warehouse
<1> SUFFICES ASSUME MartsType, [Next]_vars PROVE MartsType'
  OBVIOUS
<1>1. CASE Refresh
  BY <1>1, ReportsAssumption DEF Refresh
<1>2. ASSUME NEW row \in rows, Skip(row) \/ ReadBar(row) \/ ReadProvinsi(row)
                               \/ ReadKanal(row) \/ ReadToko(row)
      PROVE  marts' = marts
  BY <1>2 DEF Skip, ReadBar, ReadProvinsi, ReadKanal, ReadToko
<1>3. CASE Query \/ Fail \/ EndRows \/ ReadTotal \/ DropSame \/ UNCHANGED vars
  BY <1>3 DEF Query, Fail, EndRows, ReadTotal, DropSame, vars
<1> QED
  BY <1>1, <1>2, <1>3 DEF Next, Finished

-----------------------------------------------------------------------------
(* The stores that grew most and least.                                    *)

\* The stores that are compared.
Compared == {r \in Store : r.lalu > 0}

-----------------------------------------------------------------------------
(* Growth is compared without a division: an order of the stores.          *)

\* Multiplying by a positive number keeps the order.
LEMMA Scaled ==
  ASSUME NEW x \in Int, NEW y \in Int, NEW n \in Int, n > 0
  PROVE  n * x > n * y <=> x > y
<1>1. n * x - n * y = n * (x - y)
  OBVIOUS
<1>2. ASSUME NEW d \in Int PROVE n * d > 0 <=> d > 0
  BY <1>2
<1>3. n * (x - y) > 0 <=> x - y > 0
  BY <1>2
<1> QED
  BY <1>1, <1>3

\* Who grew more than one that grew no less than another grew more than it.
LEMMA GrowthOrder ==
  ASSUME NEW a \in Compared, NEW b \in Compared, NEW c \in Compared,
         \/ GrewMore(a, b) /\ ~GrewMore(c, b)
         \/ ~GrewMore(b, a) /\ GrewMore(b, c)
  PROVE  GrewMore(a, c)
<1> DEFINE ao == a.omset  al == a.lalu  bo == b.omset  bl == b.lalu
           co == c.omset  cl == c.lalu
<1>1. /\ ao \in Int /\ al \in Int /\ bo \in Int /\ bl \in Int /\ co \in Int /\ cl \in Int
      /\ al > 0 /\ bl > 0 /\ cl > 0
  BY DEF Compared, Store
<1>2. SUFFICES bl * (ao * cl) > bl * (co * al)
  BY <1>1, Scaled DEF GrewMore
<1>3. /\ bl * (ao * cl) = cl * (ao * bl) /\ bl * (co * al) = al * (co * bl)
      /\ cl * (bo * al) = al * (bo * cl)
  BY <1>1
<1>4. CASE GrewMore(a, b) /\ ~GrewMore(c, b)
  <2>1. cl * (ao * bl) > cl * (bo * al)
    BY <1>1, <1>4, Scaled DEF GrewMore
  <2>2. ~(al * (co * bl) > al * (bo * cl))
    BY <1>1, <1>4, Scaled DEF GrewMore
  <2> QED
    BY <1>1, <1>3, <2>1, <2>2
<1>5. CASE ~GrewMore(b, a) /\ GrewMore(b, c)
  <2>1. ~(cl * (bo * al) > cl * (ao * bl))
    BY <1>1, <1>5, Scaled DEF GrewMore
  <2>2. al * (bo * cl) > al * (co * bl)
    BY <1>1, <1>5, Scaled DEF GrewMore
  <2> QED
    BY <1>1, <1>3, <2>1, <2>2
<1> QED
  BY <1>4, <1>5

\* No store grew more than itself, nor each of two more than the other.
LEMMA GrowthStrict ==
  ASSUME NEW a \in Compared, NEW b \in Compared, GrewMore(a, b)
  PROVE  ~GrewMore(b, a) /\ ~GrewMore(a, a)
BY DEF GrewMore, Compared, Store

-----------------------------------------------------------------------------
(* The inductive invariant.                                                *)

\* What is known while the stores are compared: the extremes of those so far,
\* and that the two are one store unless the one grew more than the other.
Extremes ==
  /\ seen \subseteq Compared
  /\ top = None <=> seen = {}
  /\ bottom = None <=> seen = {}
  /\ seen # {} =>
       /\ top \in seen /\ \A r \in seen : ~GrewMore(r, top)
       /\ bottom \in seen /\ \A r \in seen : ~GrewMore(bottom, r)
       /\ top = bottom \/ GrewMore(top, bottom)

SummaryInv ==
  /\ MartsType
  /\ stage \in {"total", "kanal", "kanalRows", "toko"} =>
       seen = {} /\ top = None /\ bottom = None
  /\ stage = "tokoRows" => rows \subseteq Store
  /\ stage \in {"tokoRows", "compare"} => Extremes
  /\ GrowthExtremes

\* The rows of the query are stores.
LEMMA TokoRowsAreStores ==
  ASSUME MartsType
  PROVE  TokoRows \subseteq Store
<1> SUFFICES ASSUME NEW g \in Groups, marts[g] # None PROVE Toko(g) \in Store
  BY DEF TokoRows, Sold
<1>1. marts[g] \in [omset : Int, lalu : Int, qty : Nat]
  BY ReportsAssumption DEF MartsType
<1> QED
  BY <1>1 DEF Toko, Store

\* A store is never mistaken for no store.
LEMMA StoreIsNotNone == ASSUME NEW r \in Store PROVE r # None
  BY NoneIsNoStore

\* One more store compared.
LEMMA CompareStep ==
  ASSUME Extremes, NEW row \in Compared, Compare(row), seen' = seen \cup {row}
  PROVE  Extremes'
<1>1. row # None
  BY StoreIsNotNone DEF Compared
<1>2. CASE seen = {}
  <2>1. top' = row /\ bottom' = row /\ seen' = {row}
    BY <1>2 DEF Compare, Extremes
  <2> QED
    BY <1>1, <2>1, GrowthStrict DEF Extremes, GrewMore, Compared, Store
<1>3. CASE seen # {}
  <2> USE DEF Extremes
  <2>1. /\ top \in Compared /\ bottom \in Compared /\ top # None /\ bottom # None
        /\ \A r \in seen : r \in Compared
    BY <1>3
  <2>2. CASE GrewMore(row, top)
    <3>1. GrewMore(row, bottom)
      BY <1>3, <2>1, <2>2, GrowthOrder
    <3>2. top' = row /\ bottom' = bottom
      BY <2>1, <2>2, <3>1, GrowthStrict DEF Compare
    <3>3. \A r \in seen : ~GrewMore(r, row)
      <4> SUFFICES ASSUME NEW r \in seen, GrewMore(r, row) PROVE FALSE
        OBVIOUS
      <4>1. GrewMore(r, top)
        BY <2>1, <2>2, GrowthStrict, GrowthOrder
      <4> QED
        BY <1>3, <4>1
    <3>4. ~GrewMore(row, row) /\ ~GrewMore(bottom, row)
      BY <2>1, <2>2, <3>1, GrowthStrict
    <3> QED
      BY <1>1, <1>3, <2>1, <3>1, <3>2, <3>3, <3>4
  <2>3. CASE ~GrewMore(row, top) /\ GrewMore(bottom, row)
    <3>1. GrewMore(top, row)
      BY <1>3, <2>1, <2>3, GrowthOrder
    <3>2. top' = top /\ bottom' = row
      BY <2>1, <2>3 DEF Compare
    <3>3. \A r \in seen : ~GrewMore(row, r)
      <4> SUFFICES ASSUME NEW r \in seen, GrewMore(row, r) PROVE FALSE
        OBVIOUS
      <4>1. GrewMore(bottom, r)
        BY <2>1, <2>3, GrowthStrict, GrowthOrder
      <4> QED
        BY <1>3, <4>1
    <3>4. ~GrewMore(row, row)
      BY <2>1, <2>3, GrowthStrict
    <3> QED
      BY <1>1, <1>3, <2>1, <2>3, <3>1, <3>2, <3>3, <3>4
  <2>4. CASE ~GrewMore(row, top) /\ ~GrewMore(bottom, row)
    <3>1. top' = top /\ bottom' = bottom
      BY <2>1, <2>4 DEF Compare
    <3> QED
      BY <1>3, <2>1, <2>4, <3>1
  <2> QED
    BY <2>2, <2>3, <2>4
<1> QED
  BY <1>2, <1>3

\* The end of the comparison.
LEMMA DropStep == ASSUME Extremes, DropSame PROVE GrowthExtremes'
<1>1. seen' = seen /\ top' = top /\ seen \subseteq Compared
  BY DEF DropSame, Extremes
<1>2. CASE seen = {}
  BY <1>1, <1>2 DEF Extremes, DropSame, GrowthExtremes
<1>3. CASE seen # {} /\ top.toko = bottom.toko
  <2>1. bottom' = None /\ top # None
    BY <1>3 DEF Extremes, DropSame
  <2> QED
    BY <1>1, <1>3, <2>1 DEF Extremes, GrowthExtremes, GrewMore
<1>4. CASE seen # {} /\ top.toko # bottom.toko
  <2>1. bottom' = bottom /\ GrewMore(top, bottom) /\ bottom # None
    BY <1>4 DEF Extremes, DropSame
  <2> QED
    BY <1>1, <1>4, <2>1 DEF Extremes, GrowthExtremes, GrewMore
<1> QED
  BY <1>2, <1>3, <1>4

\* Steps that neither compare nor end the comparison.
LEMMA OtherSummaryStep ==
  ASSUME SummaryInv, UNCHANGED <<seen, growthVars>>,
         MartsType',
         stage' = "summary" => stage = "summary",
         stage' \in {"total", "kanal", "kanalRows", "toko"} =>
           stage \in {"total", "kanal", "kanalRows", "toko"},
         stage' = "tokoRows" => rows' \subseteq Store,
         stage' \in {"tokoRows", "compare"} => stage \in {"toko", "tokoRows", "compare"}
  PROVE  SummaryInv'
<1>1. GrowthExtremes'
  BY DEF SummaryInv, GrowthExtremes, growthVars, GrewMore
<1>2. stage' \in {"tokoRows", "compare"} => Extremes'
  BY DEF SummaryInv, Extremes, growthVars, GrewMore
<1> QED
  BY <1>1, <1>2 DEF SummaryInv, growthVars

\* Every step of the three loaders keeps what is known of the summary.
LEMMA SummaryStep == SummaryInv /\ [Next]_vars => SummaryInv'
<1> SUFFICES ASSUME SummaryInv, [Next]_vars PROVE SummaryInv'
  OBVIOUS
<1> USE DEF warehouse
<1>0. MartsType /\ MartsType'
  BY MartsStep DEF SummaryInv
<1>1. CASE Query
  <2>1. stage = "toko" => rows' = TokoRows
    BY <1>1 DEF Query
  <2>2. stage' = Reading[stage] /\ stage \in {"contrib", "provinsi", "kanal", "toko"}
    BY <1>1 DEF Query, Reading
  <2>3. stage' = "tokoRows" => stage = "toko"
    BY <2>2 DEF Reading
  <2>4. stage' = "kanalRows" => stage = "kanal"
    BY <2>2 DEF Reading
  <2>5. stage' \in {"contribRows", "provinsiRows", "kanalRows", "tokoRows"}
    BY <2>2 DEF Reading
  <2>6. UNCHANGED <<seen, growthVars>>
    BY <1>1 DEF Query
  <2> QED
    BY <1>0, <2>1, <2>3, <2>4, <2>5, <2>6, TokoRowsAreStores, OtherSummaryStep DEF SummaryInv
<1>2. CASE Fail
  BY <1>0, <1>2, OtherSummaryStep DEF Fail, SummaryInv
<1>3. CASE EndRows
  <2>1. stage' = After[stage]
        /\ stage \in {"contribRows", "provinsiRows", "kanalRows", "tokoRows"}
    BY <1>3 DEF EndRows, After
  <2>2. stage' \in {"bars", "provinces", "toko", "compare"}
    BY <2>1 DEF After
  <2>3. (stage' = "toko" => stage = "kanalRows") /\ (stage' = "compare" => stage = "tokoRows")
    BY <2>1 DEF After
  <2>4. UNCHANGED <<seen, growthVars>>
    BY <1>3 DEF EndRows
  <2> QED
    BY <1>0, <2>2, <2>3, <2>4, OtherSummaryStep DEF SummaryInv
<1>4. CASE Refresh
  BY <1>0, <1>4, OtherSummaryStep DEF Refresh, SummaryInv
<1>5. CASE ReadTotal
  BY <1>0, <1>5, OtherSummaryStep DEF ReadTotal, SummaryInv
<1>6. CASE DropSame
  <2>1. Extremes
    BY <1>6 DEF SummaryInv, DropSame
  <2> QED
    BY <1>0, <1>6, <2>1, DropStep DEF SummaryInv, DropSame
<1>7. ASSUME NEW row \in rows, Skip(row) PROVE SummaryInv'
  BY <1>0, <1>7, OtherSummaryStep DEF Skip, SummaryInv
<1>8. ASSUME NEW row \in rows, ReadBar(row) PROVE SummaryInv'
  BY <1>0, <1>8, OtherSummaryStep DEF ReadBar, SummaryInv
<1>9. ASSUME NEW row \in rows, ReadProvinsi(row) PROVE SummaryInv'
  BY <1>0, <1>9 DEF ReadProvinsi, SummaryInv, GrowthExtremes
<1>10. ASSUME NEW row \in rows, ReadKanal(row) PROVE SummaryInv'
  BY <1>0, <1>10, OtherSummaryStep DEF ReadKanal, SummaryInv
<1>11. ASSUME NEW row \in rows, ReadToko(row) PROVE SummaryInv'
  <2>1. /\ row \in Store /\ rows' \subseteq Store /\ Extremes
        /\ stage = "tokoRows" /\ stage' = "tokoRows"
    BY <1>11 DEF ReadToko, SummaryInv
  <2>2. CASE row.lalu > 0 /\ Compare(row) /\ seen' = seen \cup {row}
    <3>1. Extremes'
      BY <2>1, <2>2, CompareStep DEF Compared
    <3> QED
      BY <1>0, <2>1, <3>1 DEF SummaryInv, GrowthExtremes
  <2>3. CASE UNCHANGED <<seen, growthVars>>
    BY <1>0, <2>1, <2>3, OtherSummaryStep DEF SummaryInv
  <2> QED
    BY <1>11, <2>2, <2>3 DEF ReadToko
<1>12. CASE UNCHANGED vars
  BY <1>0, <1>12, OtherSummaryStep DEF vars, SummaryInv
<1> QED
  BY <1>1, <1>2, <1>3, <1>4, <1>5, <1>6, <1>7, <1>8, <1>9, <1>10, <1>11, <1>12
     DEF Next, Finished

\* The stores shown grew most and least of all that were compared, and the
\* least is missing only if they all grew alike or one of its name grew most
\* (metrik.go:601-627).
THEOREM GrowthExtremesAlways == Spec => []GrowthExtremes
<1>1. Init => SummaryInv
  BY DEF Init, SummaryInv, MartsType, GrowthExtremes, Extremes
<1>2. SummaryInv => GrowthExtremes
  BY DEF SummaryInv
<1> QED
  BY <1>1, <1>2, SummaryStep, PTL DEF Spec

-----------------------------------------------------------------------------
(* Sums of groups and of rows.                                             *)

\* A row of the query of the provinces, and one of the query of the channels.
ProvinsiRow == [prov : {g.prov : g \in Groups}, kota : {g.kota : g \in Groups}, omset : Int]
KanalRow == [kanal : {Trimmed(g.kanal, "Unknown") : g \in Groups},
             raw : {g.kanal : g \in Groups}, omset : Int, lalu : Int]

\* What each group adds up to, and what each row says it does.
GroupOmset == [g \in Groups |-> marts[g].omset]
GroupLalu  == [g \in Groups |-> marts[g].lalu]
GroupQty   == [g \in Groups |-> marts[g].qty]
RowOmset   == [r \in ProvinsiRow \cup KanalRow |-> r.omset]
RowLalu    == [r \in KanalRow |-> r.lalu]

\* What SQL sums over groups is the total of their weights: the turnover,
LEMMA OmsetIsTotal ==
  ASSUME NEW S \in SUBSET Groups, Weighing(GroupOmset, S)
  PROVE  Omset(S) = Total(GroupOmset, S)
<1> DEFINE Body(F) == F = [s \in SUBSET S |->
                             IF s = {} THEN 0
                             ELSE marts[CHOOSE x \in s : TRUE].omset + F[s \ {CHOOSE x \in s : TRUE}]]
           C == CHOOSE F : Body(F)
<1>1. Omset(S) = C[S]
  BY Zenon DEF Omset, MapThenSumSet, MapThenFoldSet
<1>2. \A F : Body(F) <=> IsSum(F, GroupOmset, S)
  <2>1. \A s \in SUBSET S : s # {} =>
          GroupOmset[CHOOSE x \in s : TRUE] = marts[CHOOSE x \in s : TRUE].omset
    <3>1. \A s \in SUBSET S : s # {} => (CHOOSE x \in s : TRUE) \in Groups
      OBVIOUS
    <3> QED
      BY <3>1 DEF GroupOmset
  <2> QED
    BY <2>1 DEF IsSum
<1>3. IsSum(C, GroupOmset, S)
  <2>1. \E F : IsSum(F, GroupOmset, S)
    BY SumExists
  <2> HIDE DEF Body
  <2>2. Body(C)
    BY <1>2, <2>1, Zenon
  <2> QED
    BY <1>2, <2>2
<1> HIDE DEF C
<1> QED
  BY <1>1, <1>3, TotalIs DEF Weighing

\* the turnover of the month before,
LEMMA LaluIsTotal ==
  ASSUME NEW S \in SUBSET Groups, Weighing(GroupLalu, S)
  PROVE  Lalu(S) = Total(GroupLalu, S)
<1> DEFINE Body(F) == F = [s \in SUBSET S |->
                             IF s = {} THEN 0
                             ELSE marts[CHOOSE x \in s : TRUE].lalu + F[s \ {CHOOSE x \in s : TRUE}]]
           C == CHOOSE F : Body(F)
<1>1. Lalu(S) = C[S]
  BY Zenon DEF Lalu, MapThenSumSet, MapThenFoldSet
<1>2. \A F : Body(F) <=> IsSum(F, GroupLalu, S)
  <2>1. \A s \in SUBSET S : s # {} =>
          GroupLalu[CHOOSE x \in s : TRUE] = marts[CHOOSE x \in s : TRUE].lalu
    <3>1. \A s \in SUBSET S : s # {} => (CHOOSE x \in s : TRUE) \in Groups
      OBVIOUS
    <3> QED
      BY <3>1 DEF GroupLalu
  <2> QED
    BY <2>1 DEF IsSum
<1>3. IsSum(C, GroupLalu, S)
  <2>1. \E F : IsSum(F, GroupLalu, S)
    BY SumExists
  <2> HIDE DEF Body
  <2>2. Body(C)
    BY <1>2, <2>1, Zenon
  <2> QED
    BY <1>2, <2>2
<1> HIDE DEF C
<1> QED
  BY <1>1, <1>3, TotalIs DEF Weighing

\* and the pieces sold.
LEMMA QtyIsTotal ==
  ASSUME NEW S \in SUBSET Groups, Weighing(GroupQty, S)
  PROVE  Qty(S) = Total(GroupQty, S)
<1> DEFINE Body(F) == F = [s \in SUBSET S |->
                             IF s = {} THEN 0
                             ELSE marts[CHOOSE x \in s : TRUE].qty + F[s \ {CHOOSE x \in s : TRUE}]]
           C == CHOOSE F : Body(F)
<1>1. Qty(S) = C[S]
  BY Zenon DEF Qty, MapThenSumSet, MapThenFoldSet
<1>2. \A F : Body(F) <=> IsSum(F, GroupQty, S)
  <2>1. \A s \in SUBSET S : s # {} =>
          GroupQty[CHOOSE x \in s : TRUE] = marts[CHOOSE x \in s : TRUE].qty
    <3>1. \A s \in SUBSET S : s # {} => (CHOOSE x \in s : TRUE) \in Groups
      OBVIOUS
    <3> QED
      BY <3>1 DEF GroupQty
  <2> QED
    BY <2>1 DEF IsSum
<1>3. IsSum(C, GroupQty, S)
  <2>1. \E F : IsSum(F, GroupQty, S)
    BY SumExists
  <2> HIDE DEF Body
  <2>2. Body(C)
    BY <1>2, <2>1, Zenon
  <2> QED
    BY <1>2, <2>2
<1> HIDE DEF C
<1> QED
  BY <1>1, <1>3, TotalIs DEF Weighing

\* The same of the rows of a query, of the turnover they state
LEMMA RowsTotal ==
  ASSUME NEW S \in SUBSET (ProvinsiRow \cup KanalRow), IsFiniteSet(S)
  PROVE  Weighing(RowOmset, S) /\ MapThenSumSet(LAMBDA r : r.omset, S) = Total(RowOmset, S)
<1> DEFINE Body(F) == F = [s \in SUBSET S |->
                             IF s = {} THEN 0
                             ELSE (CHOOSE x \in s : TRUE).omset + F[s \ {CHOOSE x \in s : TRUE}]]
           C == CHOOSE F : Body(F)
<1>1. MapThenSumSet(LAMBDA r : r.omset, S) = C[S]
  BY Zenon DEF MapThenSumSet, MapThenFoldSet
<1>2. \A F : Body(F) <=> IsSum(F, RowOmset, S)
  <2>1. \A s \in SUBSET S : s # {} =>
          RowOmset[CHOOSE x \in s : TRUE] = (CHOOSE x \in s : TRUE).omset
    <3>1. \A s \in SUBSET S : s # {} => (CHOOSE x \in s : TRUE) \in ProvinsiRow \cup KanalRow
      OBVIOUS
    <3> QED
      BY <3>1 DEF RowOmset
  <2> QED
    BY <2>1 DEF IsSum
<1>3. Weighing(RowOmset, S)
  BY DEF Weighing, RowOmset, ProvinsiRow, KanalRow
<1>4. IsSum(C, RowOmset, S)
  <2>1. \E F : IsSum(F, RowOmset, S)
    BY <1>3, SumExists
  <2> HIDE DEF Body
  <2>2. Body(C)
    BY <1>2, <2>1, Zenon
  <2> QED
    BY <1>2, <2>2
<1> HIDE DEF C
<1> QED
  BY <1>1, <1>3, <1>4, TotalIs DEF Weighing
\* and of that of the month before.
LEMMA RowsTotalLalu ==
  ASSUME NEW S \in SUBSET KanalRow, IsFiniteSet(S)
  PROVE  Weighing(RowLalu, S) /\ MapThenSumSet(LAMBDA r : r.lalu, S) = Total(RowLalu, S)
<1> DEFINE Body(F) == F = [s \in SUBSET S |->
                             IF s = {} THEN 0
                             ELSE (CHOOSE x \in s : TRUE).lalu + F[s \ {CHOOSE x \in s : TRUE}]]
           C == CHOOSE F : Body(F)
<1>1. MapThenSumSet(LAMBDA r : r.lalu, S) = C[S]
  BY Zenon DEF MapThenSumSet, MapThenFoldSet
<1>2. \A F : Body(F) <=> IsSum(F, RowLalu, S)
  <2>1. \A s \in SUBSET S : s # {} =>
          RowLalu[CHOOSE x \in s : TRUE] = (CHOOSE x \in s : TRUE).lalu
    <3>1. \A s \in SUBSET S : s # {} => (CHOOSE x \in s : TRUE) \in KanalRow
      OBVIOUS
    <3> QED
      BY <3>1 DEF RowLalu
  <2> QED
    BY <2>1 DEF IsSum
<1>3. Weighing(RowLalu, S)
  BY DEF Weighing, RowLalu, KanalRow
<1>4. IsSum(C, RowLalu, S)
  <2>1. \E F : IsSum(F, RowLalu, S)
    BY <1>3, SumExists
  <2> HIDE DEF Body
  <2>2. Body(C)
    BY <1>2, <2>1, Zenon
  <2> QED
    BY <1>2, <2>2
<1> HIDE DEF C
<1> QED
  BY <1>1, <1>3, <1>4, TotalIs DEF Weighing

\* Groups that have rows have amounts to sum.
LEMMA SoldWeighs ==
  ASSUME MartsType, NEW S \in SUBSET Sold
  PROVE  /\ S \in SUBSET Groups /\ IsFiniteSet(S)
         /\ Weighing(GroupOmset, S)
         /\ Weighing(GroupLalu, S)
         /\ Omset(S) = Total(GroupOmset, S) /\ Omset(S) \in Int
         /\ Lalu(S) = Total(GroupLalu, S) /\ Lalu(S) \in Int
         /\ Qty(S) \in Int
<1>1. S \in SUBSET Groups /\ \A g \in S : marts[g] \in Amounts
  BY DEF MartsType, Sold
<1>2. IsFiniteSet(S)
  BY <1>1, ReportsAssumption, FS_Subset
<1>3. \A g \in S : marts[g].omset \in Int /\ marts[g].lalu \in Int /\ marts[g].qty \in Int
  BY <1>1, ReportsAssumption
<1>4. Weighing(GroupOmset, S) /\ Weighing(GroupLalu, S) /\ Weighing(GroupQty, S)
  BY <1>1, <1>2, <1>3 DEF Weighing, GroupOmset, GroupLalu, GroupQty
<1>5. Omset(S) = Total(GroupOmset, S) /\ Lalu(S) = Total(GroupLalu, S)
      /\ Qty(S) = Total(GroupQty, S)
  BY <1>1, <1>4, OmsetIsTotal, LaluIsTotal, QtyIsTotal
<1> QED
  BY <1>1, <1>2, <1>4, <1>5, TotalChoice

-----------------------------------------------------------------------------
(* The provinces add up.                                                   *)

\* The rows of the query are rows.
LEMMA ProvinsiRowsTyped ==
  ASSUME MartsType
  PROVE  ProvinsiRows \in SUBSET ProvinsiRow /\ IsFiniteSet(ProvinsiRows)
<1> DEFINE Of(p, k) == {g \in Sold : g.prov = p /\ g.kota = k}
           h == [g \in Sold |-> [prov |-> g.prov, kota |-> g.kota, omset |-> Omset(Of(g.prov, g.kota))]]
           H == {h[g] : g \in Sold}
<1>1. IsFiniteSet(Sold)
  BY SoldWeighs
<1>2. IsFiniteSet(H)
  <2> HIDE DEF h
  <2> QED
    BY <1>1, ImageFinite
<1>3. H \in SUBSET ProvinsiRow
  <2> SUFFICES ASSUME NEW g \in Sold PROVE h[g] \in ProvinsiRow
    OBVIOUS
  <2>1. g \in Groups
    BY DEF Sold
  <2>2. Omset(Of(g.prov, g.kota)) \in Int
    <3>1. Of(g.prov, g.kota) \in SUBSET Sold
      OBVIOUS
    <3> HIDE DEF Of
    <3> QED
      BY <3>1, SoldWeighs
  <2> HIDE DEF Of
  <2> QED
    BY <2>1, <2>2 DEF ProvinsiRow
<1>4. ProvinsiRows \in SUBSET H
  BY DEF ProvinsiRows
<1> HIDE DEF H
<1> QED
  BY <1>2, <1>3, <1>4, FS_Subset

\* The rows that name a province or a known city, and those of one province.
Known == {r \in seen : resolveProvinsi(r.prov, r.kota) # None}
Counted(p) == {r \in Known : resolveProvinsi(r.prov, r.kota) = p}

\* What is known of the rows read so far, which the map and the counts tell.
Placed ==
  /\ seen \in SUBSET ProvinsiRow /\ IsFiniteSet(seen)
  /\ DOMAIN agg = {resolveProvinsi(r.prov, r.kota) : r \in Known}
  /\ \A p \in DOMAIN agg : agg[p] = Total(RowOmset, Counted(p))
  /\ mapped = Cardinality(Known)
  /\ unmapped \in Nat /\ mapped + unmapped = Cardinality(seen)

\* The inductive invariant: no row comes twice.
ProvinsiInv ==
  /\ MartsType
  /\ stage = "provinsi" => seen = {} /\ agg = <<>> /\ mapped = 0 /\ unmapped = 0
  /\ stage = "provinsiRows" =>
       rows \in SUBSET ProvinsiRow /\ IsFiniteSet(rows) /\ rows \cap seen = {}
  /\ stage \in {"provinsiRows", "provinces"} => Placed

\* Which is the property.
LEMMA PlacedAddsUp ==
  ASSUME ProvinsiInv PROVE ProvincesAddUp
<1> SUFFICES ASSUME stage \in {"provinsiRows", "provinces"}
             PROVE  /\ DOMAIN agg = {resolveProvinsi(r.prov, r.kota) : r \in Known}
                    /\ \A p \in DOMAIN agg : agg[p] = MapThenSumSet(LAMBDA r : r.omset, Counted(p))
                    /\ mapped = Cardinality(Known)
                    /\ mapped + unmapped = Cardinality(seen)
  BY Zenon DEF ProvincesAddUp, Known, Counted
<1>1. Placed
  BY DEF ProvinsiInv
<1>2. ASSUME NEW p \in DOMAIN agg
      PROVE  agg[p] = MapThenSumSet(LAMBDA r : r.omset, Counted(p))
  <2>1. Counted(p) \in SUBSET seen
    BY DEF Counted, Known
  <2>2. Counted(p) \in SUBSET (ProvinsiRow \cup KanalRow) /\ IsFiniteSet(Counted(p))
    BY <1>1, <2>1, FS_Subset DEF Placed
  <2>3. MapThenSumSet(LAMBDA r : r.omset, Counted(p)) = Total(RowOmset, Counted(p))
    BY <2>2, RowsTotal
  <2> QED
    BY <1>1, <2>3 DEF Placed
<1> QED
  BY <1>1, <1>2 DEF Placed

\* A row that has not been counted is counted, in its province if it has one.
LEMMA ReadProvinsiStep ==
  ASSUME Placed, NEW row \in ProvinsiRow, row \notin seen, ReadProvinsi(row)
  PROVE  Placed'
<1> DEFINE canonical == resolveProvinsi(row.prov, row.kota)
<1> USE DEF Placed
<1>1. /\ seen' = seen \cup {row} /\ IsFiniteSet(seen') /\ seen' \in SUBSET ProvinsiRow
      /\ Cardinality(seen') = Cardinality(seen) + 1 /\ Cardinality(seen) \in Nat
  BY FS_AddElement, FS_CardinalityType DEF ReadProvinsi
<1>2. IsFiniteSet(Known) /\ Known \in SUBSET seen /\ row \notin Known
  BY FS_Subset DEF Known
<1>3. Cardinality(Known) \in Nat /\ mapped \in Nat
  BY <1>2, FS_CardinalityType
<1>4. unmapped \in Nat /\ unmapped + 1 \in Nat
  OBVIOUS
<1>5. CASE canonical = None
  <2>1. Known' = Known
    BY <1>1, <1>5 DEF Known
  <2>2. \A p : Counted(p)' = Counted(p)
    BY <2>1 DEF Counted
  <2>3. agg' = agg /\ mapped' = mapped /\ unmapped' = unmapped + 1
    BY <1>5 DEF ReadProvinsi
  <2>4. unmapped' \in Nat /\ mapped' + unmapped' = Cardinality(seen')
    BY <1>1, <1>3, <1>4, <2>3
  <2> QED
    BY <1>1, <2>1, <2>2, <2>3, <2>4
<1>6. CASE canonical # None
  <2>1. Known' = Known \cup {row}
    BY <1>1, <1>6 DEF Known
  <2>2. \A p : Counted(p)' = IF p = canonical THEN Counted(p) \cup {row} ELSE Counted(p)
    BY <2>1 DEF Counted
  <2>3. agg' = AddTo(agg, canonical, row.omset) /\ mapped' = mapped + 1 /\ unmapped' = unmapped
    BY <1>6 DEF ReadProvinsi
  <2>4. Cardinality(Known') = Cardinality(Known) + 1
    BY <1>2, <2>1, FS_AddElement
  <2>5. mapped' + unmapped' = Cardinality(seen')
    BY <1>1, <1>3, <1>4, <2>3
  <2>6. DOMAIN agg' = DOMAIN agg \cup {canonical}
    BY <2>3 DEF AddTo
  <2>7. DOMAIN agg' = {resolveProvinsi(r.prov, r.kota) : r \in Known'}
    BY <2>1, <2>6
  <2>8. ASSUME NEW p \in DOMAIN agg' PROVE agg'[p] = Total(RowOmset, Counted(p)')
    <3>1. Counted(p) \in SUBSET ProvinsiRow /\ IsFiniteSet(Counted(p)) /\ row \notin Counted(p)
          /\ (p \notin DOMAIN agg => Counted(p) = {})
      BY <1>2, FS_Subset DEF Counted
    <3>2. Weighing(RowOmset, Counted(p) \cup {row}) /\ Weighing(RowOmset, Counted(p))
          /\ RowOmset[row] = row.omset
      BY <3>1, FS_AddElement DEF Weighing, RowOmset, ProvinsiRow
    <3>3. p \notin DOMAIN agg => Total(RowOmset, Counted(p)) = 0
      BY <3>1, <3>2, TotalChoice
    <3>4. (IF p \in DOMAIN agg THEN agg[p] ELSE 0) = Total(RowOmset, Counted(p))
      BY <3>3
    <3>5. agg'[p] = (IF p \in DOMAIN agg THEN agg[p] ELSE 0) + (IF p = canonical THEN row.omset ELSE 0)
      BY <2>3, <2>6, <2>8 DEF AddTo
    <3>6. Total(RowOmset, Counted(p)) \in Int
      BY <3>2, TotalChoice
    <3>7. CASE p = canonical
      <4>1. Total(RowOmset, Counted(p) \cup {row}) = Total(RowOmset, Counted(p)) + row.omset
        <5>1. Total(RowOmset, Counted(p) \cup {row}) = Total(RowOmset, Counted(p)) + RowOmset[row]
          BY <3>1, <3>2, TotalAdd, Zenon
        <5> QED
          BY <3>2, <5>1
      <4>2. Counted(p)' = Counted(p) \cup {row}
        BY <2>2, <3>7
      <4> QED
        BY <3>4, <3>5, <3>7, <4>1, <4>2
    <3>8. CASE p # canonical
      BY <2>2, <3>4, <3>5, <3>6, <3>8
    <3> QED
      BY <3>7, <3>8
  <2> QED
    BY <1>1, <2>3, <2>4, <2>5, <2>7, <2>8
<1> QED
  BY <1>5, <1>6

\* Steps that count no row.
LEMMA OtherProvinsiStep ==
  ASSUME ProvinsiInv, MartsType', UNCHANGED <<seen, provinsiVars>>,
         stage' = "provinsi" => stage = "provinsi",
         stage' = "provinsiRows" => stage = "provinsiRows" /\ rows' \subseteq rows,
         stage' = "provinces" => stage \in {"provinsiRows", "provinces"}
  PROVE  ProvinsiInv'
<1> USE DEF provinsiVars
<1>1. Placed => Placed'
  BY DEF Placed, Known, Counted
<1>2. stage' = "provinsiRows" =>
        rows' \in SUBSET ProvinsiRow /\ IsFiniteSet(rows') /\ rows' \cap seen' = {}
  BY FS_Subset DEF ProvinsiInv
<1> QED
  BY <1>1, <1>2 DEF ProvinsiInv

\* Every step of the three loaders keeps what is known of the provinces.
LEMMA ProvinsiStep == ProvinsiInv /\ [Next]_vars => ProvinsiInv'
<1> SUFFICES ASSUME ProvinsiInv, [Next]_vars PROVE ProvinsiInv'
  OBVIOUS
<1> USE DEF summaryVars
<1>0. MartsType /\ MartsType'
  BY MartsStep DEF ProvinsiInv
<1>1. CASE Query
  <2>1. stage' = Reading[stage] /\ stage \in {"contrib", "provinsi", "kanal", "toko"}
        /\ UNCHANGED <<seen, provinsiVars>>
    BY <1>1 DEF Query, Reading
  <2>2. stage' \in {"contribRows", "provinsiRows", "kanalRows", "tokoRows"}
        /\ (stage' = "provinsiRows" => stage = "provinsi")
    BY <2>1 DEF Reading
  <2>3. CASE stage' # "provinsiRows"
    BY <1>0, <2>1, <2>2, <2>3, OtherProvinsiStep
  <2>4. CASE stage' = "provinsiRows"
    <3>1. rows' = ProvinsiRows
      BY <1>1, <2>2, <2>4 DEF Query
    <3>2. seen' = {} /\ agg' = <<>> /\ mapped' = 0 /\ unmapped' = 0
      BY <2>1, <2>2, <2>4 DEF ProvinsiInv, provinsiVars
    <3>3. rows' \in SUBSET ProvinsiRow /\ IsFiniteSet(rows') /\ rows' \cap seen' = {}
      BY <1>0, <3>1, <3>2, ProvinsiRowsTyped
    <3>4. Placed'
      <4>1. Known' = {} /\ DOMAIN agg' = {}
        BY <3>2 DEF Known
      <4>2. IsFiniteSet({}) /\ Cardinality({}) = 0
        BY FS_EmptySet
      <4> QED
        BY <3>2, <4>1, <4>2 DEF Placed
    <3> QED
      BY <1>0, <2>4, <3>3, <3>4 DEF ProvinsiInv
  <2> QED
    BY <2>3, <2>4
<1>2. CASE EndRows
  <2>1. stage' = After[stage]
        /\ stage \in {"contribRows", "provinsiRows", "kanalRows", "tokoRows"}
        /\ UNCHANGED <<seen, provinsiVars>>
    BY <1>2 DEF EndRows, After
  <2>2. stage' \in {"bars", "provinces", "toko", "compare"}
        /\ (stage' = "provinces" => stage = "provinsiRows")
    BY <2>1 DEF After
  <2> QED
    BY <1>0, <2>1, <2>2, OtherProvinsiStep
<1>3. CASE Fail \/ Refresh \/ ReadTotal \/ DropSame \/ UNCHANGED vars
  <2>1. UNCHANGED <<seen, provinsiVars>>
        /\ \/ stage' = stage /\ rows' = rows
           \/ stage' \in {"failed", "kanal", "summary"}
    BY <1>3 DEF Fail, Refresh, ReadTotal, DropSame, vars
  <2> QED
    BY <1>0, <2>1, OtherProvinsiStep
<1>4. ASSUME NEW row \in rows, Skip(row) \/ ReadBar(row) \/ ReadKanal(row)
      PROVE  ProvinsiInv'
  <2>1. UNCHANGED <<seen, provinsiVars>> /\ stage' = stage /\ rows' = rows \ {row}
    BY <1>4 DEF Skip, ReadBar, ReadKanal
  <2> QED
    BY <1>0, <2>1, OtherProvinsiStep
<1>5. ASSUME NEW row \in rows, ReadToko(row) PROVE ProvinsiInv'
  <2>1. stage' = "tokoRows"
    BY <1>5 DEF ReadToko
  <2> QED
    BY <1>0, <2>1 DEF ProvinsiInv
<1>6. ASSUME NEW row \in rows, ReadProvinsi(row) PROVE ProvinsiInv'
  <2>1. /\ stage = "provinsiRows" /\ stage' = "provinsiRows"
        /\ rows' = rows \ {row} /\ seen' = seen \cup {row}
    BY <1>6 DEF ReadProvinsi
  <2>2. /\ rows \in SUBSET ProvinsiRow /\ IsFiniteSet(rows) /\ rows \cap seen = {}
        /\ Placed /\ row \in ProvinsiRow /\ row \notin seen
    BY <2>1 DEF ProvinsiInv
  <2>3. Placed'
    BY <1>6, <2>2, ReadProvinsiStep
  <2>4. rows' \in SUBSET ProvinsiRow /\ IsFiniteSet(rows') /\ rows' \cap seen' = {}
    BY <2>1, <2>2, FS_RemoveElement
  <2> QED
    BY <1>0, <2>1, <2>3, <2>4 DEF ProvinsiInv
<1> QED
  BY <1>1, <1>2, <1>3, <1>4, <1>5, <1>6 DEF Next, Finished

\* The provinces of the map are those the rows name, each is the sum of its rows, and the
\* counts are those of the rows, whatever the names are and in whatever order the rows come
\* (sales_performance.go:172-191).
THEOREM ProvincesAlwaysAddUp == Spec => []ProvincesAddUp
<1>1. Init => ProvinsiInv
  <2> SUFFICES ASSUME Init PROVE ProvinsiInv
    OBVIOUS
  <2>1. stage \in {"contrib", "provinsi", "total"}
    BY DEF Init
  <2> QED
    BY <2>1 DEF Init, ProvinsiInv, MartsType
<1>2. ProvinsiInv => ProvincesAddUp
  BY PlacedAddsUp
<1> QED
  BY <1>1, <1>2, ProvinsiStep, PTL DEF Spec

-----------------------------------------------------------------------------
(* The channels add up.                                                    *)

\* The groups of the channels the request filters for, and the rows of these channels.
Chosen    == {g \in Sold : Matches(g.kanal)}
Wanted(R) == {r \in R : Matches(r.raw)}

\* The channels of the table are rows, one for each name; those that the request filters for
\* sum to the groups it filters for.
LEMMA KanalGroupsTyped ==
  ASSUME MartsType
  PROVE  /\ KanalGroups \in SUBSET KanalRow /\ IsFiniteSet(KanalGroups)
         /\ \A q, r \in KanalGroups : q.raw = r.raw => q = r
         /\ Weighing(RowOmset, Wanted(KanalGroups)) /\ Weighing(RowLalu, Wanted(KanalGroups))
         /\ Total(RowOmset, Wanted(KanalGroups)) = Total(GroupOmset, Chosen)
         /\ Total(RowLalu, Wanted(KanalGroups)) = Total(GroupLalu, Chosen)
<1> DEFINE Of(k) == {g \in Sold : g.kanal = k}
           Row(k) == [kanal |-> Trimmed(k, "Unknown"), raw |-> k,
                      omset |-> Omset(Of(k)), lalu |-> Lalu(Of(k))]
           h == [g \in Sold |-> Row(g.kanal)]
           R == Wanted(KanalGroups)
<1>1. IsFiniteSet(Sold) /\ \A g \in Sold : g \in Groups
  BY SoldWeighs DEF Sold
<1>2. \A k : /\ Of(k) \in SUBSET Sold
             /\ Omset(Of(k)) = Total(GroupOmset, Of(k)) /\ Omset(Of(k)) \in Int
             /\ Lalu(Of(k)) = Total(GroupLalu, Of(k)) /\ Lalu(Of(k)) \in Int
  <2> SUFFICES ASSUME NEW k
               PROVE  /\ Of(k) \in SUBSET Sold
                      /\ Omset(Of(k)) = Total(GroupOmset, Of(k)) /\ Omset(Of(k)) \in Int
                      /\ Lalu(Of(k)) = Total(GroupLalu, Of(k)) /\ Lalu(Of(k)) \in Int
    OBVIOUS
  <2>1. Of(k) \in SUBSET Sold
    OBVIOUS
  <2> HIDE DEF Of
  <2> QED
    BY <2>1, SoldWeighs
<1>3. KanalGroups = {Row(k) : k \in {g.kanal : g \in Sold}}
  BY Zenon DEF KanalGroups
<1>4. \A k : Row(k).raw = k /\ Row(k).omset = Omset(Of(k)) /\ Row(k).lalu = Lalu(Of(k))
  <2> HIDE DEF Of
  <2> QED
    OBVIOUS
<1>5. \A g \in Sold : Row(g.kanal) \in KanalRow
  <2> HIDE DEF Of
  <2> QED
    BY <1>1, <1>2 DEF KanalRow
<1> HIDE DEF Row
<1>6. KanalGroups = {h[g] : g \in Sold} /\ \A g \in Sold : h[g].raw = g.kanal
  BY <1>3, <1>4
<1>7. IsFiniteSet(KanalGroups)
  <2> HIDE DEF h
  <2> QED
    BY <1>1, <1>6, ImageFinite
<1>8. KanalGroups \in SUBSET KanalRow
  BY <1>3, <1>5
<1>9. \A q, r \in KanalGroups : q.raw = r.raw => q = r
  BY <1>3, <1>4
<1>10. R = Image(h, Chosen)
  <2> HIDE DEF h
  <2> QED
    BY <1>6 DEF Wanted, Chosen, Image
<1>11. ASSUME NEW r \in R
       PROVE  /\ RowOmset[r] = Total(GroupOmset, Fibre(Chosen, h, r))
              /\ RowLalu[r] = Total(GroupLalu, Fibre(Chosen, h, r))
  <2>1. r \in KanalGroups /\ Matches(r.raw)
    BY DEF Wanted
  <2>2. r = Row(r.raw)
    BY <1>3, <1>4, <2>1
  <2>3. Fibre(Chosen, h, r) = Of(r.raw)
    <3>1. \A g \in Sold : h[g] = r <=> g.kanal = r.raw
      BY <1>4, <2>2
    <3> HIDE DEF h
    <3> QED
      BY <2>1, <3>1 DEF Fibre, Chosen
  <2>4. RowOmset[r] = r.omset /\ RowLalu[r] = r.lalu
    BY <1>8, <2>1 DEF RowOmset, RowLalu
  <2>5. r.omset = Omset(Of(r.raw)) /\ r.lalu = Lalu(Of(r.raw))
    BY <1>4, <2>2
  <2> HIDE DEF Of, h
  <2> QED
    BY <1>2, <2>3, <2>4, <2>5
<1>12. Weighing(GroupOmset, Chosen) /\ Weighing(GroupLalu, Chosen)
  BY SoldWeighs DEF Chosen
<1> HIDE DEF h, R
<1>13. Weighing(RowOmset, R) /\ Total(RowOmset, R) = Total(GroupOmset, Chosen)
  BY <1>10, <1>11, <1>12, TotalFibres
<1>14. Weighing(RowLalu, R) /\ Total(RowLalu, R) = Total(GroupLalu, Chosen)
  BY <1>10, <1>11, <1>12, TotalFibres
<1> QED
  BY <1>7, <1>8, <1>9, <1>13, <1>14 DEF R

\* The channels that are listed and those HAVING leaves out are the groups the request filters
\* for, and the ones left out have nothing positive to them.
LEMMA KanalRowsTyped ==
  ASSUME MartsType, NEW out, out = KanalGroups \ KanalRows
  PROVE  /\ KanalRows \cup out = KanalGroups
         /\ Total(RowOmset, Wanted(KanalRows)) + Total(RowOmset, Wanted(out))
              = Total(GroupOmset, Chosen)
         /\ Total(RowLalu, Wanted(KanalRows)) + Total(RowLalu, Wanted(out))
              = Total(GroupLalu, Chosen)
         /\ \A r \in out : r.omset <= 0 /\ r.lalu <= 0
<1> DEFINE B == Wanted(KanalGroups)
           D == Wanted(KanalRows)
           E == Wanted(out)
<1>1. KanalRows \subseteq KanalGroups
  BY DEF KanalRows
<1>2. D \subseteq B /\ B \ D = E
  BY <1>1 DEF Wanted
<1>3. /\ Weighing(RowOmset, B) /\ Weighing(RowLalu, B)
      /\ Total(RowOmset, B) = Total(GroupOmset, Chosen)
      /\ Total(RowLalu, B) = Total(GroupLalu, Chosen)
  BY KanalGroupsTyped
<1> HIDE DEF B, D, E
<1>4. Total(RowOmset, B) = Total(RowOmset, D) + Total(RowOmset, E)
  BY <1>2, <1>3, TotalSplit
<1>5. Total(RowLalu, B) = Total(RowLalu, D) + Total(RowLalu, E)
  BY <1>2, <1>3, TotalSplit
<1>6. ASSUME NEW r \in out PROVE r.omset <= 0 /\ r.lalu <= 0
  <2>1. r \in KanalRow /\ ~(r.omset > 0) /\ ~(r.lalu > 0)
    BY KanalGroupsTyped DEF KanalRows
  <2> QED
    BY <2>1 DEF KanalRow
<1> QED
  BY <1>1, <1>3, <1>4, <1>5, <1>6 DEF D, E

\* The channels read, or to be read.
Channels == IF stage = "kanalRows" THEN rows \cup perKanal ELSE perKanal

\* The stages from which on the channels have been read from the table.
KanalRead == {"kanalRows", "toko", "tokoRows", "compare", "summary"}

\* Those the request filters for, with the ones left out, are the total.
AddUp ==
  /\ total.omset = Total(RowOmset, Wanted(Channels)) + Total(RowOmset, Wanted(left))
  /\ total.lalu = Total(RowLalu, Wanted(Channels)) + Total(RowLalu, Wanted(left))

\* No channel is there twice, and those left out have nothing positive to them.
Apart ==
  /\ \A q, r \in Channels \cup left : q.raw = r.raw => q = r
  /\ \A r \in left : r.omset <= 0 /\ r.lalu <= 0

\* The inductive invariant: the total is that of the table as long as no refresh came since,
\* and the channels, read or yet to come, add up to it.
ChannelInv ==
  /\ MartsType /\ refreshes \in Nat /\ totalAt \in Nat /\ totalAt <= refreshes
  /\ stage \in {"total", "kanal"} => perKanal = {}
  /\ stage = "kanal" /\ totalAt = refreshes =>
       total.omset = Total(GroupOmset, Chosen) /\ total.lalu = Total(GroupLalu, Chosen)
  /\ stage \in KanalRead =>
       /\ Channels \cup left \in SUBSET KanalRow /\ IsFiniteSet(Channels \cup left)
       /\ Apart
       /\ ~lost /\ totalAt = kanalAt => AddUp

\* Which is the property.
LEMMA ListedAddUp ==
  ASSUME ChannelInv PROVE ChannelsAddUp
<1> DEFINE L == Wanted(perKanal)
           M == Wanted(left)
<1> SUFFICES ASSUME stage \in {"toko", "tokoRows", "compare", "summary"}, ~lost, totalAt = kanalAt
             PROVE  /\ total.omset = MapThenSumSet(LAMBDA r : r.omset, L)
                                       + MapThenSumSet(LAMBDA r : r.omset, M)
                    /\ total.lalu = MapThenSumSet(LAMBDA r : r.lalu, L)
                                      + MapThenSumSet(LAMBDA r : r.lalu, M)
                    /\ \A r \in left : r.omset <= 0 /\ r.lalu <= 0
                    /\ \A q, r \in perKanal \cup left : q.raw = r.raw => q = r
  BY Zenon DEF ChannelsAddUp, Wanted
<1>1. Channels = perKanal /\ stage \in KanalRead
  BY DEF Channels, KanalRead
<1>2. AddUp /\ Apart
  BY <1>1 DEF ChannelInv
<1>3. L \in SUBSET KanalRow /\ IsFiniteSet(L) /\ M \in SUBSET KanalRow /\ IsFiniteSet(M)
  BY <1>1, FS_Subset DEF ChannelInv, Wanted
<1>4. total.omset = Total(RowOmset, L) + Total(RowOmset, M)
      /\ total.lalu = Total(RowLalu, L) + Total(RowLalu, M)
  BY <1>1, <1>2 DEF AddUp
<1> HIDE DEF L, M
<1>5. L \in SUBSET (ProvinsiRow \cup KanalRow) /\ M \in SUBSET (ProvinsiRow \cup KanalRow)
  BY <1>3
<1>6. MapThenSumSet(LAMBDA r : r.omset, L) = Total(RowOmset, L)
  BY <1>3, <1>5, RowsTotal
<1>7. MapThenSumSet(LAMBDA r : r.omset, M) = Total(RowOmset, M)
  BY <1>3, <1>5, RowsTotal
<1>8. MapThenSumSet(LAMBDA r : r.lalu, L) = Total(RowLalu, L)
  BY <1>3, RowsTotalLalu
<1>9. MapThenSumSet(LAMBDA r : r.lalu, M) = Total(RowLalu, M)
  BY <1>3, RowsTotalLalu
<1> QED
  BY <1>1, <1>2, <1>4, <1>6, <1>7, <1>8, <1>9 DEF Apart

\* The sums are those of the channels, those left out, the filter and the total.
LEMMA SameSums ==
  ASSUME UNCHANGED <<Channels, left, selected, total>>
  PROVE  AddUp => AddUp'
<1>1. Wanted(Channels)' = Wanted(Channels) /\ Wanted(left)' = Wanted(left)
  BY DEF Wanted, Matches
<1>2. RowOmset' = RowOmset /\ RowLalu' = RowLalu
  BY DEF RowOmset, RowLalu, ProvinsiRow, KanalRow
<1>3. /\ Total(RowOmset, Wanted(Channels))' = Total(RowOmset, Wanted(Channels))
      /\ Total(RowOmset, Wanted(left))' = Total(RowOmset, Wanted(left))
      /\ Total(RowLalu, Wanted(Channels))' = Total(RowLalu, Wanted(Channels))
      /\ Total(RowLalu, Wanted(left))' = Total(RowLalu, Wanted(left))
  BY <1>1, <1>2
<1> QED
  BY <1>3 DEF AddUp

\* Once the channels have been read, a step keeps them or loses some for good.
LEMMA LaterChannelStep ==
  ASSUME ChannelInv, MartsType', refreshes' = refreshes,
         UNCHANGED <<selected, total, totalAt, kanalAt, left>>,
         stage \in KanalRead, stage' \in KanalRead,
         Channels' \subseteq Channels, ~lost' => ~lost /\ Channels' = Channels
  PROVE  ChannelInv'
<1>1. (Channels \cup left)' \subseteq Channels \cup left
  OBVIOUS
<1>2. (Channels \cup left)' \in SUBSET KanalRow /\ IsFiniteSet((Channels \cup left)') /\ Apart'
  BY <1>1, FS_Subset DEF ChannelInv, Apart
<1>3. ASSUME ~lost', totalAt' = kanalAt' PROVE AddUp'
  <2>1. AddUp /\ Channels' = Channels
    BY <1>3 DEF ChannelInv
  <2> QED
    BY <2>1, SameSums
<1> QED
  BY <1>2, <1>3 DEF ChannelInv, KanalRead

\* Every step of the three loaders keeps what is known of the channels.
LEMMA ChannelStep == ChannelInv /\ [Next]_vars => ChannelInv'
<1> SUFFICES ASSUME ChannelInv, [Next]_vars PROVE ChannelInv'
  OBVIOUS
<1> USE DEF warehouse, summaryVars
<1>0. MartsType /\ MartsType'
  BY MartsStep DEF ChannelInv
<1>1. CASE Query
  <2>1. stage' = Reading[stage] /\ stage \in {"contrib", "provinsi", "kanal", "toko"}
        /\ UNCHANGED <<marts, refreshes, selected, lost, total, totalAt, perKanal>>
    BY <1>1 DEF Query, Reading
  <2>2. CASE stage \in {"contrib", "provinsi"}
    <3>1. stage' \in {"contribRows", "provinsiRows"}
      BY <2>1, <2>2 DEF Reading
    <3> QED
      BY <1>0, <2>1, <3>1 DEF ChannelInv, KanalRead
  <2>3. CASE stage = "kanal"
    <3>1. stage' = "kanalRows" /\ rows' = KanalRows /\ kanalAt' = refreshes /\ perKanal = {}
      BY <1>1, <2>1, <2>3 DEF Query, Reading, ChannelInv
    <3>2. Channels' = KanalRows /\ left' = KanalGroups \ KanalRows
      BY <1>1, <2>1, <2>3, <3>1 DEF Query, Channels
    <3>3. /\ (Channels \cup left)' = KanalGroups
          /\ \A r \in left' : r.omset <= 0 /\ r.lalu <= 0
      BY <1>0, <3>2, KanalRowsTyped
    <3>4. (Channels \cup left)' \in SUBSET KanalRow /\ IsFiniteSet((Channels \cup left)') /\ Apart'
      BY <1>0, <3>3, KanalGroupsTyped DEF Apart
    <3>5. ASSUME totalAt' = kanalAt' PROVE AddUp'
      <4>1. total.omset = Total(GroupOmset, Chosen) /\ total.lalu = Total(GroupLalu, Chosen)
        BY <2>1, <2>3, <3>1, <3>5 DEF ChannelInv
      <4>2. /\ Total(RowOmset, Wanted(KanalRows)) + Total(RowOmset, Wanted(left'))
                  = Total(GroupOmset, Chosen)
            /\ Total(RowLalu, Wanted(KanalRows)) + Total(RowLalu, Wanted(left'))
                  = Total(GroupLalu, Chosen)
        BY <1>0, <3>2, KanalRowsTyped
      <4>3. Wanted(Channels)' = Wanted(KanalRows) /\ Wanted(left)' = Wanted(left')
        BY <2>1, <3>2 DEF Wanted, Matches
      <4>4. RowOmset' = RowOmset /\ RowLalu' = RowLalu
        BY DEF RowOmset, RowLalu, ProvinsiRow, KanalRow
      <4>5. /\ Total(RowOmset, Wanted(Channels))' = Total(RowOmset, Wanted(KanalRows))
            /\ Total(RowLalu, Wanted(Channels))' = Total(RowLalu, Wanted(KanalRows))
            /\ Total(RowOmset, Wanted(left))' = Total(RowOmset, Wanted(left'))
            /\ Total(RowLalu, Wanted(left))' = Total(RowLalu, Wanted(left'))
        BY <4>3, <4>4
      <4> QED
        BY <2>1, <4>1, <4>2, <4>5 DEF AddUp
    <3> QED
      BY <1>0, <2>1, <3>1, <3>4, <3>5 DEF ChannelInv
  <2>4. CASE stage = "toko"
    <3>1. stage' = "tokoRows" /\ UNCHANGED <<kanalAt, left>>
      BY <1>1, <2>1, <2>4 DEF Query, Reading
    <3>2. Channels' = Channels /\ stage \in KanalRead /\ stage' \in KanalRead
      BY <2>1, <2>4, <3>1 DEF Channels, KanalRead
    <3> QED
      BY <1>0, <2>1, <3>1, <3>2, LaterChannelStep
  <2> QED
    BY <2>1, <2>2, <2>3, <2>4
<1>2. CASE Fail
  BY <1>0, <1>2 DEF Fail, ChannelInv, KanalRead
<1>3. CASE EndRows
  <2>1. stage' = After[stage] /\ rows' = {} /\ lost' = (lost \/ rows # {})
        /\ stage \in {"contribRows", "provinsiRows", "kanalRows", "tokoRows"}
        /\ UNCHANGED <<marts, refreshes, selected, total, totalAt, perKanal, kanalAt, left>>
    BY <1>3 DEF EndRows, After
  <2>2. CASE stage \in {"contribRows", "provinsiRows"}
    <3>1. stage' \in {"bars", "provinces"}
      BY <2>1, <2>2 DEF After
    <3> QED
      BY <1>0, <2>1, <3>1 DEF ChannelInv, KanalRead
  <2>3. CASE stage \in {"kanalRows", "tokoRows"}
    <3>1. stage' \in {"toko", "compare"} /\ stage \in KanalRead /\ stage' \in KanalRead
      BY <2>1, <2>3 DEF After, KanalRead
    <3>2. Channels' \subseteq Channels /\ (~lost' => ~lost /\ Channels' = Channels)
      BY <2>1, <2>3, <3>1 DEF Channels
    <3> QED
      BY <1>0, <2>1, <3>1, <3>2, LaterChannelStep
  <2> QED
    BY <2>1, <2>2, <2>3
<1>4. CASE Refresh
  <2>1. /\ refreshes' = refreshes + 1 /\ stage' = stage /\ stage \in {"total", "kanal", "toko"}
        /\ UNCHANGED <<selected, rows, lost, total, totalAt, perKanal, kanalAt, left>>
    BY <1>4 DEF Refresh
  <2>2. refreshes' \in Nat /\ totalAt' <= refreshes' /\ totalAt' # refreshes'
    BY <2>1 DEF ChannelInv
  <2>3. Channels' = Channels
    BY <2>1 DEF Channels
  <2>4. (AddUp => AddUp') /\ (Apart => Apart')
    BY <2>1, <2>3, SameSums DEF Apart
  <2> QED
    BY <1>0, <2>1, <2>2, <2>3, <2>4 DEF ChannelInv, KanalRead
<1>5. CASE ReadTotal
  <2> DEFINE of == {g \in Sold : Matches(g.kanal)}
  <2>1. /\ stage' = "kanal" /\ stage = "total" /\ totalAt' = refreshes
        /\ total' = [omset |-> Omset(of), lalu |-> Lalu(of)]
        /\ UNCHANGED <<marts, refreshes, selected, lost, perKanal, kanalAt, left>>
    BY <1>5 DEF ReadTotal
  <2>2. of = Chosen /\ Chosen \in SUBSET Sold
    BY DEF Chosen
  <2>3. Omset(of) = Total(GroupOmset, Chosen) /\ Lalu(of) = Total(GroupLalu, Chosen)
    <3> HIDE DEF of
    <3> QED
      BY <1>0, <2>2, SoldWeighs
  <2>4. GroupOmset' = GroupOmset /\ GroupLalu' = GroupLalu /\ Chosen' = Chosen
    BY <2>1 DEF GroupOmset, GroupLalu, Chosen, Matches, Sold
  <2>5. total'.omset = Total(GroupOmset, Chosen)' /\ total'.lalu = Total(GroupLalu, Chosen)'
    <3> HIDE DEF of
    <3> QED
      BY <2>1, <2>3, <2>4
  <2> HIDE DEF of
  <2> QED
    BY <1>0, <2>1, <2>5 DEF ChannelInv, KanalRead
<1>6. CASE DropSame
  <2>1. stage' = "summary" /\ stage = "compare"
        /\ UNCHANGED <<marts, refreshes, selected, rows, lost, total, totalAt, perKanal, kanalAt, left>>
    BY <1>6 DEF DropSame
  <2>2. Channels' = Channels /\ stage \in KanalRead /\ stage' \in KanalRead
    BY <2>1 DEF Channels, KanalRead
  <2> QED
    BY <1>0, <2>1, <2>2, LaterChannelStep
<1>7. ASSUME NEW row \in rows, ReadBar(row) \/ ReadProvinsi(row) PROVE ChannelInv'
  <2>1. stage' \in {"contribRows", "provinsiRows"} /\ UNCHANGED <<refreshes, totalAt>>
    BY <1>7 DEF ReadBar, ReadProvinsi
  <2> QED
    BY <1>0, <2>1 DEF ChannelInv, KanalRead
<1>8. ASSUME NEW row \in rows, Skip(row) PROVE ChannelInv'
  <2>1. /\ stage' = stage /\ rows' = rows \ {row} /\ lost' = TRUE
        /\ UNCHANGED <<marts, refreshes, selected, total, totalAt, perKanal, kanalAt, left>>
    BY <1>8 DEF Skip
  <2>2. Channels' \subseteq Channels
    BY <2>1 DEF Channels
  <2>3. CASE stage \in KanalRead
    BY <1>0, <2>1, <2>2, <2>3, LaterChannelStep
  <2>4. CASE stage \notin KanalRead
    <3>1. GroupOmset' = GroupOmset /\ GroupLalu' = GroupLalu /\ Chosen' = Chosen
      BY <2>1 DEF GroupOmset, GroupLalu, Chosen, Matches, Sold
    <3> QED
      BY <1>0, <2>1, <2>4, <3>1 DEF ChannelInv
  <2> QED
    BY <2>3, <2>4
<1>9. ASSUME NEW row \in rows, ReadKanal(row) PROVE ChannelInv'
  <2>1. /\ stage = "kanalRows" /\ stage' = stage /\ rows' = rows \ {row}
        /\ perKanal' = perKanal \cup {row} /\ lost' = lost
        /\ UNCHANGED <<marts, refreshes, selected, total, totalAt, kanalAt, left>>
    BY <1>9 DEF ReadKanal
  <2>2. Channels' = Channels /\ stage \in KanalRead
    BY <2>1 DEF Channels, KanalRead
  <2> QED
    BY <1>0, <2>1, <2>2, LaterChannelStep
<1>10. ASSUME NEW row \in rows, ReadToko(row) PROVE ChannelInv'
  <2>1. /\ stage = "tokoRows" /\ stage' = stage /\ lost' = lost
        /\ UNCHANGED <<marts, refreshes, selected, total, totalAt, perKanal, kanalAt, left>>
    BY <1>10 DEF ReadToko
  <2>2. Channels' = Channels /\ stage \in KanalRead
    BY <2>1 DEF Channels, KanalRead
  <2> QED
    BY <1>0, <2>1, <2>2, LaterChannelStep
<1>11. CASE UNCHANGED vars
  <2>1. UNCHANGED <<marts, refreshes, selected, stage, rows, lost, total, totalAt, perKanal, kanalAt, left>>
    BY <1>11 DEF vars
  <2>2. GroupOmset' = GroupOmset /\ GroupLalu' = GroupLalu /\ Chosen' = Chosen /\ Channels' = Channels
    BY <2>1 DEF GroupOmset, GroupLalu, Chosen, Matches, Sold, Channels
  <2>3. (AddUp => AddUp') /\ (Apart => Apart')
    BY <2>1, <2>2, SameSums DEF Apart
  <2> QED
    BY <1>0, <2>1, <2>2, <2>3 DEF ChannelInv
<1> QED
  BY <1>1, <1>2, <1>3, <1>4, <1>5, <1>6, <1>7, <1>8, <1>9, <1>10, <1>11
     DEF Next, Finished

\* If no row is lost and no refresh comes between the two queries, the channels that the
\* request filters for, with the returns of those of them that are not listed, are the total,
\* neither more nor less, and none is listed twice under one name (metrik.go:549-579).
THEOREM ChannelsAlwaysAddUp == Spec => []ChannelsAddUp
<1>1. Init => ChannelInv
  <2> SUFFICES ASSUME Init PROVE ChannelInv
    OBVIOUS
  <2>1. stage \in {"contrib", "provinsi", "total"}
    BY DEF Init
  <2> QED
    BY <2>1 DEF Init, ChannelInv, MartsType, KanalRead
<1>2. ChannelInv => ChannelsAddUp
  BY ListedAddUp
<1> QED
  BY <1>1, <1>2, ChannelStep, PTL DEF Spec

-----------------------------------------------------------------------------
(* The bars add up.                                                        *)

\* A bar: one of the rows, or the one the tail goes to.
Bar == [label : {Trimmed(g.label, "Lainnya") : g \in Groups} \cup {Name("Lainnya")},
        omset : Int, qty : Int]

\* What stands at each place.
OmsetAt(list) == [i \in DOMAIN list |-> list[i].omset]
QtyAt(list)   == [i \in DOMAIN list |-> list[i].qty]

\* A sequence of bars can be summed.
LEMMA BarsWeigh ==
  ASSUME NEW list \in Seq(Bar)
  PROVE  Weighing(OmsetAt(list), 1..Len(list)) /\ Weighing(QtyAt(list), 1..Len(list))
<1>1. DOMAIN list = 1..Len(list) /\ Len(list) \in Nat /\ IsFiniteSet(1..Len(list))
  BY FS_Interval
<1>2. \A i \in 1..Len(list) : list[i].omset \in Int /\ list[i].qty \in Int
  <2> SUFFICES ASSUME NEW i \in 1..Len(list) PROVE list[i].omset \in Int /\ list[i].qty \in Int
    OBVIOUS
  <2>1. list[i] \in Bar
    OBVIOUS
  <2> QED
    BY <2>1 DEF Bar
<1> QED
  BY <1>1, <1>2 DEF Weighing, OmsetAt, QtyAt

\* The sums of the loader are totals of the places, of the turnover
LEMMA SumOmsetIsTotal ==
  ASSUME NEW list \in Seq(Bar)
  PROVE  SumOmset(list) = Total(OmsetAt(list), 1..Len(list)) /\ SumOmset(list) \in Int
<1> DEFINE D == DOMAIN list
           w == OmsetAt(list)
           Body(F) == F = [s \in SUBSET D |->
                             IF s = {} THEN 0 ELSE F[s \ {Max(s)}] + list[Max(s)].omset]
           C == CHOOSE F : Body(F)
<1>1. D = 1..Len(list) /\ Len(list) \in Nat
  OBVIOUS
<1>2. SumOmset(list) = C[D]
  BY Zenon DEF SumOmset, FoldLeft, MapThenFoldSet
<1>3. \A F : Body(F) <=> IsSumLeft(F, w, D)
  <2>1. \A s \in SUBSET D : s # {} => w[Max(s)] = list[Max(s)].omset
    <3> SUFFICES ASSUME NEW s \in SUBSET D, s # {} PROVE w[Max(s)] = list[Max(s)].omset
      OBVIOUS
    <3>1. Max(s) \in DOMAIN list
      BY <1>1, MaxIndex
    <3> QED
      BY <3>1 DEF OmsetAt
  <2> HIDE DEF w
  <2> QED
    BY <2>1 DEF IsSumLeft
<1>4. Weighing(w, D)
  BY <1>1, BarsWeigh
<1> HIDE DEF Body, D, w
<1>5. /\ \E F : IsSumLeft(F, w, D)
      /\ \A F : IsSumLeft(F, w, D) => F[D] = Total(w, D)
  BY <1>1, <1>4, SumLeft
<1>6. Body(C)
  BY <1>3, <1>5, Zenon
<1>7. C[D] = Total(w, D) /\ Total(w, D) \in Int
  BY <1>3, <1>4, <1>5, <1>6, TotalChoice
<1> QED
  BY <1>1, <1>2, <1>7 DEF w

\* and of the pieces sold.
LEMMA SumQtyIsTotal ==
  ASSUME NEW list \in Seq(Bar)
  PROVE  SumQty(list) = Total(QtyAt(list), 1..Len(list)) /\ SumQty(list) \in Int
<1> DEFINE D == DOMAIN list
           w == QtyAt(list)
           Body(F) == F = [s \in SUBSET D |->
                             IF s = {} THEN 0 ELSE F[s \ {Max(s)}] + list[Max(s)].qty]
           C == CHOOSE F : Body(F)
<1>1. D = 1..Len(list) /\ Len(list) \in Nat
  OBVIOUS
<1>2. SumQty(list) = C[D]
  BY Zenon DEF SumQty, FoldLeft, MapThenFoldSet
<1>3. \A F : Body(F) <=> IsSumLeft(F, w, D)
  <2>1. \A s \in SUBSET D : s # {} => w[Max(s)] = list[Max(s)].qty
    <3> SUFFICES ASSUME NEW s \in SUBSET D, s # {} PROVE w[Max(s)] = list[Max(s)].qty
      OBVIOUS
    <3>1. Max(s) \in DOMAIN list
      BY <1>1, MaxIndex
    <3> QED
      BY <3>1 DEF QtyAt
  <2> HIDE DEF w
  <2> QED
    BY <2>1 DEF IsSumLeft
<1>4. Weighing(w, D)
  BY <1>1, BarsWeigh
<1> HIDE DEF Body, D, w
<1>5. /\ \E F : IsSumLeft(F, w, D)
      /\ \A F : IsSumLeft(F, w, D) => F[D] = Total(w, D)
  BY <1>1, <1>4, SumLeft
<1>6. Body(C)
  BY <1>3, <1>5, Zenon
<1>7. C[D] = Total(w, D) /\ Total(w, D) \in Int
  BY <1>3, <1>4, <1>5, <1>6, TotalChoice
<1> QED
  BY <1>1, <1>2, <1>7 DEF w

\* The sums of a sequence with one bar more,
LEMMA SumsOfAppend ==
  ASSUME NEW list \in Seq(Bar), NEW b \in Bar, NEW longer, longer = Append(list, b)
  PROVE  /\ SumOmset(longer) = SumOmset(list) + b.omset
         /\ SumQty(longer) = SumQty(list) + b.qty
<1> DEFINE n == Len(list)
<1>1. /\ longer \in Seq(Bar) /\ Len(longer) = n + 1 /\ n \in Nat /\ longer[n + 1] = b
      /\ \A j \in 1..n : longer[j] = list[j]
  BY AppendElements
<1>2. /\ \A j \in 1..n : OmsetAt(longer)[j] = OmsetAt(list)[j] /\ QtyAt(longer)[j] = QtyAt(list)[j]
      /\ OmsetAt(longer)[n + 1] = b.omset /\ b.omset \in Int
      /\ QtyAt(longer)[n + 1] = b.qty /\ b.qty \in Int
  <2>1. DOMAIN list = 1..n /\ DOMAIN longer = 1..(n + 1)
    BY <1>1
  <2> HIDE DEF n
  <2> QED
    BY <1>1, <2>1 DEF OmsetAt, QtyAt, Bar
<1>3. Weighing(OmsetAt(list), 1..n) /\ Weighing(QtyAt(list), 1..n)
  BY BarsWeigh
<1>4. /\ SumOmset(list) = Total(OmsetAt(list), 1..n) /\ SumQty(list) = Total(QtyAt(list), 1..n)
      /\ SumOmset(longer) = Total(OmsetAt(longer), 1..(n + 1))
      /\ SumQty(longer) = Total(QtyAt(longer), 1..(n + 1))
  BY <1>1, SumOmsetIsTotal, SumQtyIsTotal
<1> HIDE DEF n
<1>5. Total(OmsetAt(longer), 1..(n + 1)) = Total(OmsetAt(list), 1..n) + b.omset
  BY <1>1, <1>2, <1>3, TotalLonger
<1>6. Total(QtyAt(longer), 1..(n + 1)) = Total(QtyAt(list), 1..n) + b.qty
  BY <1>1, <1>2, <1>3, TotalLonger
<1> QED
  BY <1>4, <1>5, <1>6

\* The two parts of a sequence of bars.
CutInto(list, s, t) ==
  /\ s \in Seq(Bar) /\ t \in Seq(Bar) /\ Len(list) = Len(s) + Len(t)
  /\ \A j \in 1..Len(s) : s[j] = list[j]
  /\ \A j \in 1..Len(t) : t[j] = list[Len(s) + j]

\* of one that is cut in two,
LEMMA SumsOfParts ==
  ASSUME NEW list \in Seq(Bar), NEW s, NEW t, CutInto(list, s, t)
  PROVE  /\ SumOmset(list) = SumOmset(s) + SumOmset(t)
         /\ SumQty(list) = SumQty(s) + SumQty(t)
<1> DEFINE n == Len(list)
           k == Len(s)
           m == Len(t)
<1>1. /\ s \in Seq(Bar) /\ k \in Nat /\ n \in Nat /\ DOMAIN list = 1..n
      /\ \A j \in 1..k : s[j] = list[j]
  BY DEF CutInto
<1>2. t \in Seq(Bar) /\ m \in Nat /\ n = k + m /\ \A j \in 1..m : t[j] = list[k + j]
  BY DEF CutInto
<1> HIDE DEF n, k, m
<1>3. /\ \A j \in 1..k : OmsetAt(s)[j] = OmsetAt(list)[j]
      /\ \A j \in 1..k : QtyAt(s)[j] = QtyAt(list)[j]
      /\ \A j \in 1..m : OmsetAt(t)[j] = OmsetAt(list)[k + j]
      /\ \A j \in 1..m : QtyAt(t)[j] = QtyAt(list)[k + j]
  <2>1. DOMAIN s = 1..k /\ DOMAIN t = 1..m /\ 1..k \subseteq 1..n
        /\ \A j \in 1..m : k + j \in 1..n
    BY <1>1, <1>2 DEF n, k, m
  <2> QED
    BY <1>1, <1>2, <2>1 DEF OmsetAt, QtyAt
<1>4. Weighing(OmsetAt(list), 1..n) /\ Weighing(QtyAt(list), 1..n) /\ n = k + m
  BY <1>2, BarsWeigh DEF n
<1>5. /\ SumOmset(list) = Total(OmsetAt(list), 1..n) /\ SumQty(list) = Total(QtyAt(list), 1..n)
      /\ SumOmset(s) = Total(OmsetAt(s), 1..k) /\ SumQty(s) = Total(QtyAt(s), 1..k)
      /\ SumOmset(t) = Total(OmsetAt(t), 1..m) /\ SumQty(t) = Total(QtyAt(t), 1..m)
  BY <1>1, <1>2, SumOmsetIsTotal, SumQtyIsTotal DEF n, k, m
<1>6. Total(OmsetAt(list), 1..n) = Total(OmsetAt(s), 1..k) + Total(OmsetAt(t), 1..m)
  <2> DEFINE w == OmsetAt(list)
             u == OmsetAt(s)
             v == OmsetAt(t)
  <2>1. /\ n \in Nat /\ k \in Nat /\ m \in Nat /\ n = k + m /\ Weighing(w, 1..n)
        /\ \A j \in 1..k : u[j] = w[j]
        /\ \A j \in 1..m : v[j] = w[k + j]
    BY <1>1, <1>2, <1>3, <1>4
  <2> HIDE DEF w, u, v
  <2>2. Total(w, 1..n) = Total(u, 1..k) + Total(v, 1..m)
    BY <2>1, TotalCut
  <2> QED
    BY <2>2 DEF w, u, v
<1>7. Total(QtyAt(list), 1..n) = Total(QtyAt(s), 1..k) + Total(QtyAt(t), 1..m)
  <2> DEFINE w == QtyAt(list)
             u == QtyAt(s)
             v == QtyAt(t)
  <2>1. /\ n \in Nat /\ k \in Nat /\ m \in Nat /\ n = k + m /\ Weighing(w, 1..n)
        /\ \A j \in 1..k : u[j] = w[j]
        /\ \A j \in 1..m : v[j] = w[k + j]
    BY <1>1, <1>2, <1>3, <1>4
  <2> HIDE DEF w, u, v
  <2>2. Total(w, 1..n) = Total(u, 1..k) + Total(v, 1..m)
    BY <2>1, TotalCut
  <2> QED
    BY <2>2 DEF w, u, v
<1> QED
  BY <1>1, <1>2, <1>5, <1>6, <1>7

Raised(list, i, a, b) == [list EXCEPT ![i].omset = @ + a, ![i].qty = @ + b]

\* A bar to which an amount is added, by itself and at its place.
RaisedOne(bar, a, b) == [bar EXCEPT !.omset = @ + a, !.qty = @ + b]

\* A raised bar is a bar.
LEMMA RaisedBar ==
  ASSUME NEW bar \in Bar, NEW a \in Int, NEW b \in Int,
         NEW it, it = RaisedOne(bar, a, b)
  PROVE  it \in Bar /\ it.label = bar.label /\ it.omset = bar.omset + a /\ it.qty = bar.qty + b
<1> DEFINE Fields == {"label", "omset", "qty"}
<1>1. it.label = bar.label /\ it.omset = bar.omset + a /\ it.qty = bar.qty + b
  BY DEF Bar, RaisedOne
<1>2. it = [x \in Fields |-> it[x]]
  BY DEF Bar, RaisedOne
<1>3. it = [label |-> it.label, omset |-> it.omset, qty |-> it.qty]
  BY <1>2
<1> QED
  BY <1>1, <1>3 DEF Bar

\* and of one in which a bar is raised.
LEMMA SumsOfRaise ==
  ASSUME NEW list \in Seq(Bar), NEW i \in 1..Len(list), NEW a \in Int, NEW b \in Int,
         NEW raised, raised = Raised(list, i, a, b)
  PROVE  /\ raised \in Seq(Bar) /\ Len(raised) = Len(list)
         /\ \A j \in 1..Len(list) : raised[j].label = list[j].label
         /\ SumOmset(raised) = SumOmset(list) + a
         /\ SumQty(raised) = SumQty(list) + b
<1> DEFINE n == Len(list)
           it == RaisedOne(list[i], a, b)
<1>1. n \in Nat /\ DOMAIN list = 1..n /\ i \in 1..n /\ list[i] \in Bar
  OBVIOUS
<1>2. /\ it \in Bar /\ it.label = list[i].label
      /\ it.omset = list[i].omset + a /\ it.qty = list[i].qty + b
  BY <1>1, RaisedBar
<1>3. raised = [list EXCEPT ![i] = it]
  BY <1>1 DEF Raised, RaisedOne
<1> HIDE DEF it, n
<1>4. /\ raised \in Seq(Bar) /\ Len(raised) = n /\ raised[i] = it
      /\ \A j \in 1..n : j # i => raised[j] = list[j]
  <2>1. raised = [j \in 1..n |-> IF j = i THEN it ELSE list[j]]
    BY <1>1, <1>3
  <2>2. \A j \in 1..n : list[j] \in Bar
    BY DEF n
  <2>3. raised \in [1..n -> Bar]
    BY <1>2, <2>1, <2>2
  <2>4. raised \in Seq(Bar) /\ Len(raised) = n
    BY <1>1, <2>3
  <2> QED
    BY <1>1, <2>1, <2>4
<1>5. /\ OmsetAt(raised)[i] = OmsetAt(list)[i] + a
      /\ QtyAt(raised)[i] = QtyAt(list)[i] + b
      /\ \A j \in (1..n) \ {i} : OmsetAt(raised)[j] = OmsetAt(list)[j]
      /\ \A j \in (1..n) \ {i} : QtyAt(raised)[j] = QtyAt(list)[j]
  <2>1. DOMAIN raised = 1..n
    BY <1>4
  <2> QED
    BY <1>1, <1>2, <1>4, <2>1 DEF OmsetAt, QtyAt
<1>6. Weighing(OmsetAt(list), 1..n) /\ Weighing(QtyAt(list), 1..n)
  BY BarsWeigh DEF n
<1>7. Total(OmsetAt(raised), 1..n) = Total(OmsetAt(list), 1..n) + a
  <2> DEFINE w == OmsetAt(list)
             v == OmsetAt(raised)
             S == 1..n
  <2>1. Weighing(w, S) /\ i \in S /\ (\A j \in S \ {i} : v[j] = w[j]) /\ v[i] = w[i] + a
    BY <1>1, <1>5, <1>6
  <2> HIDE DEF w, v, S
  <2>2. Total(v, S) = Total(w, S) + a
    BY <2>1, TotalReplace
  <2> QED
    BY <2>2 DEF w, v, S
<1>8. Total(QtyAt(raised), 1..n) = Total(QtyAt(list), 1..n) + b
  <2> DEFINE w == QtyAt(list)
             v == QtyAt(raised)
             S == 1..n
  <2>1. Weighing(w, S) /\ i \in S /\ (\A j \in S \ {i} : v[j] = w[j]) /\ v[i] = w[i] + b
    BY <1>1, <1>5, <1>6
  <2> HIDE DEF w, v, S
  <2>2. Total(v, S) = Total(w, S) + b
    BY <2>1, TotalReplace
  <2> QED
    BY <2>2 DEF w, v, S
<1>9. /\ SumOmset(list) = Total(OmsetAt(list), 1..n) /\ SumQty(list) = Total(QtyAt(list), 1..n)
      /\ SumOmset(raised) = Total(OmsetAt(raised), 1..n)
      /\ SumQty(raised) = Total(QtyAt(raised), 1..n)
  BY <1>4, SumOmsetIsTotal, SumQtyIsTotal DEF n
<1>10. \A j \in 1..n : raised[j].label = list[j].label
  BY <1>2, <1>4
<1> QED
  BY <1>4, <1>7, <1>8, <1>9, <1>10 DEF n

\* The names of the bars are their own.
Distinct(list) == \A i, j \in 1..Len(list) : list[i].label = list[j].label => i = j

\* As many names as bars.
LEMMA DistinctLabels ==
  ASSUME NEW list \in Seq(Bar), Distinct(list)
  PROVE  Cardinality(Labels(list)) = Len(list)
<1> DEFINE n == Len(list)
           f == [i \in 1..n |-> list[i].label]
<1>1. n \in Nat
  OBVIOUS
<1>2. f \in Bijection(1..n, Labels(list))
  BY DEF Bijection, Injection, Surjection, IsInjective, Labels, Distinct
<1> HIDE DEF n, f
<1>3. Cardinality(Labels(list)) = n
  BY <1>1, <1>2, FS_CountingElements DEF ExistsBijection
<1> QED
  BY <1>3 DEF n

\* The first bar called Lainnya, if there is one.
LEMMA FirstOthers ==
  ASSUME NEW out \in Seq(Bar), \E i \in 1..Len(out) : IsOthers(out[i])
  PROVE  SelectInSeq(out, IsOthers) \in 1..Len(out)
<1> DEFINE I == {i \in 1..Len(out) : IsOthers(out[i])}
<1>1. I \in SUBSET Nat /\ I # {} /\ I \subseteq 1..Len(out)
  OBVIOUS
<1>2. SelectInSeq(out, IsOthers) = Min(I)
  BY <1>1 DEF SelectInSeq
<1> HIDE DEF I
<1>3. \E n \in I : \A m \in I : n <= m
  BY <1>1, LeastNumber
<1>4. Min(I) \in I
  BY <1>3 DEF Min
<1> QED
  BY <1>1, <1>2, <1>4

\* The tail is merged into the bars: nothing is lost, and no name comes twice.
LEMMA MergedKeepsSums ==
  ASSUME NEW out \in Seq(Bar), Distinct(out), NEW tail \in Seq(Bar),
         NEW bars, bars = Merged(out, tail)
  PROVE  /\ bars \in Seq(Bar) /\ Distinct(bars) /\ Len(bars) <= Len(out) + 1
         /\ Labels(bars) \ Labels(out) \subseteq {Name("Lainnya")}
         /\ SumOmset(bars) = SumOmset(out) + SumOmset(tail)
         /\ SumQty(bars) = SumQty(out) + SumQty(tail)
<1>1. SumOmset(tail) \in Int /\ SumQty(tail) \in Int
  BY SumOmsetIsTotal, SumQtyIsTotal
<1> DEFINE a == SumOmset(tail)
           b == SumQty(tail)
<1>2. CASE \E i \in 1..Len(out) : IsOthers(out[i])
  <2> DEFINE first == SelectInSeq(out, IsOthers)
  <2>1. first \in 1..Len(out)
    BY <1>2, FirstOthers
  <2>2. bars = Raised(out, first, a, b)
    BY <1>2 DEF Merged, Raised
  <2>0. a \in Int /\ b \in Int
    BY <1>1
  <2> HIDE DEF first, a, b
  <2>3. /\ bars \in Seq(Bar) /\ Len(bars) = Len(out)
        /\ \A j \in 1..Len(out) : bars[j].label = out[j].label
        /\ SumOmset(bars) = SumOmset(out) + a
        /\ SumQty(bars) = SumQty(out) + b
    BY <2>0, <2>1, <2>2, SumsOfRaise
  <2>4. Distinct(bars) /\ Labels(bars) = Labels(out)
    BY <2>3 DEF Distinct, Labels
  <2> QED
    BY <2>3, <2>4 DEF a, b
<1>3. CASE ~\E i \in 1..Len(out) : IsOthers(out[i])
  <2> DEFINE new == [label |-> Name("Lainnya"), omset |-> a, qty |-> b]
  <2>1. bars = Append(out, new)
    BY <1>3 DEF Merged
  <2>2. new \in Bar /\ new.label = Name("Lainnya") /\ new.omset = a /\ new.qty = b
    BY <1>1 DEF Bar
  <2>3. \A i \in 1..Len(out) : out[i].label # Name("Lainnya")
    BY <1>3 DEF IsOthers, Name
  <2> HIDE DEF new, a, b
  <2>4. /\ bars \in Seq(Bar) /\ Len(bars) = Len(out) + 1 /\ bars[Len(out) + 1] = new
        /\ \A j \in 1..Len(out) : bars[j] = out[j]
    BY <2>1, <2>2, AppendElements
  <2>5. Distinct(bars) /\ Labels(bars) \ Labels(out) \subseteq {Name("Lainnya")}
    <3>1. Len(out) \in Nat /\ \A j \in 1..(Len(out) + 1) : j \in 1..Len(out) \/ j = Len(out) + 1
      OBVIOUS
    <3>2. Distinct(bars)
      BY <2>2, <2>3, <2>4, <3>1 DEF Distinct
    <3> QED
      BY <2>2, <2>4, <3>1, <3>2 DEF Labels
  <2>6. SumOmset(bars) = SumOmset(out) + a /\ SumQty(bars) = SumQty(out) + b
    BY <2>1, <2>2, SumsOfAppend
  <2> QED
    BY <2>4, <2>5, <2>6 DEF a, b
<1> QED
  BY <1>2, <1>3

\* What is known of the rows scanned is all that the bars need.
LEMMA BarsAddUp ==
  ASSUME all \in Seq(Bar), Distinct(all)
  PROVE  LET rest == Len(all) > TopN /\ SumOmset(Tail_) <= 0
         IN  /\ Cardinality(Labels(Bars)) = Len(Bars)
             /\ Len(Bars) <= TopN + 1 /\ Labels(Bars) \ Labels(all) \subseteq {Name("Lainnya")}
             /\ SumOmset(Bars) >= SumOmset(all)
             /\ SumOmset(Bars) > SumOmset(all) => rest
             /\ SumQty(Bars) # SumQty(all) => rest
<1>1. TopN \in Nat /\ Len(all) \in Nat
  BY ReportsAssumption
<1>2. SumOmset(all) \in Int
  BY SumOmsetIsTotal
<1>3. CASE Len(all) <= TopN
  <2>1. Bars = all
    BY <1>3 DEF Bars
  <2>2. Cardinality(Labels(all)) = Len(all)
    BY DistinctLabels
  <2> QED
    BY <1>1, <1>2, <1>3, <2>1, <2>2
<1>4. CASE Len(all) > TopN
  <2>1. /\ Shown \in Seq(Bar) /\ Len(Shown) = TopN /\ Tail_ \in Seq(Bar)
        /\ \A j \in 1..TopN : Shown[j] = all[j]
        /\ SumOmset(all) = SumOmset(Shown) + SumOmset(Tail_)
        /\ SumQty(all) = SumQty(Shown) + SumQty(Tail_)
    <3>1. /\ Shown \in Seq(Bar) /\ Len(Shown) = TopN
          /\ \A j \in 1..TopN : Shown[j] = all[j]
      BY <1>1, <1>4 DEF Shown
    <3>2. /\ Tail_ \in Seq(Bar) /\ Len(Tail_) = Len(all) - TopN
          /\ \A j \in 1..(Len(all) - TopN) : Tail_[j] = all[TopN + j]
      BY <1>1, <1>4 DEF Tail_
    <3>3. CutInto(all, Shown, Tail_)
      BY <1>1, <3>1, <3>2 DEF CutInto
    <3> QED
      BY <3>1, <3>3, SumsOfParts DEF CutInto
  <2>2. Distinct(Shown) /\ Labels(Shown) \subseteq Labels(all)
    BY <1>1, <1>4, <2>1 DEF Distinct, Labels
  <2>3. /\ SumOmset(Shown) \in Int /\ SumOmset(Tail_) \in Int
        /\ SumQty(Shown) \in Int /\ SumQty(Tail_) \in Int
    BY <2>1, SumOmsetIsTotal, SumQtyIsTotal
  <2>4. CASE SumOmset(Tail_) > 0
    <3>1. Bars = Merged(Shown, Tail_)
      BY <1>1, <1>4, <2>4 DEF Bars
    <3>2. /\ Bars \in Seq(Bar) /\ Distinct(Bars) /\ Len(Bars) <= Len(Shown) + 1
          /\ Labels(Bars) \ Labels(Shown) \subseteq {Name("Lainnya")}
          /\ SumOmset(Bars) = SumOmset(Shown) + SumOmset(Tail_)
          /\ SumQty(Bars) = SumQty(Shown) + SumQty(Tail_)
      BY <2>1, <2>2, <3>1, MergedKeepsSums
    <3>3. Cardinality(Labels(Bars)) = Len(Bars)
      BY <3>2, DistinctLabels
    <3>4. SumOmset(Bars) = SumOmset(all) /\ SumQty(Bars) = SumQty(all)
      BY <2>1, <3>2
    <3> QED
      BY <1>2, <2>1, <2>2, <3>2, <3>3, <3>4
  <2>5. CASE ~(SumOmset(Tail_) > 0)
    <3>1. Bars = Shown
      BY <1>1, <1>4, <2>5 DEF Bars
    <3>2. SumOmset(Tail_) <= 0 /\ SumOmset(Shown) >= SumOmset(all)
      BY <2>1, <2>3, <2>5
    <3>3. Cardinality(Labels(Shown)) = Len(Shown)
      BY <2>1, <2>2, DistinctLabels
    <3> QED
      BY <1>1, <1>4, <2>1, <2>2, <3>1, <3>2, <3>3
  <2> QED
    BY <2>4, <2>5
<1> QED
  BY <1>1, <1>3, <1>4

\* The rows of the query are bars, one for each name.
LEMMA ContribRowsTyped ==
  ASSUME MartsType
  PROVE  /\ ContribRows \subseteq Bar
         /\ \A r, q \in ContribRows : r.label = q.label => r = q
<1> DEFINE Label(g) == Trimmed(g.label, "Lainnya")
           Of(l) == {g \in Sold : Label(g) = l}
           h(l) == [label |-> l, omset |-> Omset(Of(l)), qty |-> Qty(Of(l))]
<1>1. ContribRows = {h(l) : l \in {Label(g) : g \in Sold}}
  BY DEF ContribRows
<1>2. \A l : h(l).label = l
  OBVIOUS
<1>3. ASSUME NEW g \in Sold PROVE h(Label(g)) \in Bar
  <2>1. Of(Label(g)) \in SUBSET Sold
    OBVIOUS
  <2> HIDE DEF Of
  <2>2. Omset(Of(Label(g))) \in Int /\ Qty(Of(Label(g))) \in Int
    BY <2>1, SoldWeighs
  <2>3. g \in Groups
    BY DEF Sold
  <2> QED
    BY <2>2, <2>3 DEF Bar
<1> HIDE DEF h
<1> QED
  BY <1>1, <1>2, <1>3

\* The inductive invariant: no name comes twice, scanned or yet to come.
BarInv ==
  /\ MartsType
  /\ stage = "contrib" => all = <<>>
  /\ stage = "contribRows" =>
       /\ rows \subseteq Bar /\ \A r, q \in rows : r.label = q.label => r = q
       /\ \A r \in rows, i \in 1..Len(all) : all[i].label # r.label
  /\ stage \in {"contribRows", "bars"} => all \in Seq(Bar) /\ Distinct(all)

\* Steps that scan no row.
LEMMA OtherBarStep ==
  ASSUME BarInv, MartsType', all' = all, stage' # "contrib" \/ stage' = stage,
         stage' = "contribRows" => stage = "contribRows" /\ rows' \subseteq rows,
         stage' = "bars" => stage \in {"contribRows", "bars"}
  PROVE  BarInv'
<1>1. Distinct(all)' = Distinct(all)
  BY DEF Distinct
<1> QED
  BY <1>1 DEF BarInv

\* Every step of the three loaders keeps what is known of the bars.
LEMMA BarStep == BarInv /\ [Next]_vars => BarInv'
<1> SUFFICES ASSUME BarInv, [Next]_vars PROVE BarInv'
  OBVIOUS
<1>0. MartsType /\ MartsType'
  BY MartsStep DEF BarInv
<1>1. CASE Query
  <2>1. stage' = Reading[stage] /\ stage \in {"contrib", "provinsi", "kanal", "toko"} /\ all' = all
    BY <1>1 DEF Query, Reading
  <2>2. CASE stage # "contrib"
    <3>1. stage' \in {"provinsiRows", "kanalRows", "tokoRows"}
      BY <2>1, <2>2 DEF Reading
    <3> QED
      BY <1>0, <2>1, <3>1, OtherBarStep
  <2>3. CASE stage = "contrib"
    <3>1. stage' = "contribRows" /\ rows' = ContribRows /\ all = <<>>
      BY <1>1, <2>1, <2>3 DEF Query, Reading, BarInv
    <3>2. rows' \subseteq Bar /\ \A r, q \in rows' : r.label = q.label => r = q
      BY <1>0, <3>1, ContribRowsTyped
    <3>3. all' \in Seq(Bar) /\ Distinct(all') /\ Len(all') = 0
      BY <2>1, <3>1 DEF Distinct
    <3> QED
      BY <1>0, <3>1, <3>2, <3>3 DEF BarInv
  <2> QED
    BY <2>2, <2>3
<1>2. CASE EndRows
  <2>1. stage' = After[stage] /\ all' = all
        /\ stage \in {"contribRows", "provinsiRows", "kanalRows", "tokoRows"}
    BY <1>2 DEF EndRows, After
  <2>2. stage' \in {"bars", "provinces", "toko", "compare"}
        /\ (stage' = "bars" => stage = "contribRows")
    BY <2>1 DEF After
  <2> QED
    BY <1>0, <2>1, <2>2, OtherBarStep
<1>3. CASE Fail \/ Refresh \/ ReadTotal \/ DropSame \/ UNCHANGED vars
  <2>1. all' = all
        /\ \/ stage' = stage /\ rows' = rows
           \/ stage' \in {"failed", "kanal", "summary"}
    BY <1>3 DEF Fail, Refresh, ReadTotal, DropSame, vars
  <2> QED
    BY <1>0, <2>1, OtherBarStep
<1>4. ASSUME NEW row \in rows, Skip(row) \/ ReadProvinsi(row) \/ ReadKanal(row) \/ ReadToko(row)
      PROVE  BarInv'
  <2>1. all' = all /\ stage' = stage /\ rows' = rows \ {row}
    BY <1>4 DEF Skip, ReadProvinsi, ReadKanal, ReadToko
  <2> QED
    BY <1>0, <2>1, OtherBarStep
<1>5. ASSUME NEW row \in rows, ReadBar(row) PROVE BarInv'
  <2>1. /\ stage = "contribRows" /\ stage' = stage
        /\ rows' = rows \ {row} /\ all' = Append(all, row)
    BY <1>5 DEF ReadBar
  <2>2. /\ all \in Seq(Bar) /\ Distinct(all) /\ rows \subseteq Bar /\ row \in Bar
        /\ \A r, q \in rows : r.label = q.label => r = q
        /\ \A r \in rows, i \in 1..Len(all) : all[i].label # r.label
    BY <2>1 DEF BarInv
  <2>3. /\ all' \in Seq(Bar) /\ Len(all') = Len(all) + 1 /\ all'[Len(all) + 1] = row
        /\ \A i \in 1..Len(all) : all'[i] = all[i]
    BY <2>1, <2>2, AppendElements
  <2>4. Len(all) \in Nat /\ \A i \in 1..(Len(all) + 1) : i \in 1..Len(all) \/ i = Len(all) + 1
    BY <2>2
  <2>5. Distinct(all')
    BY <2>2, <2>3, <2>4 DEF Distinct
  <2>6. \A r \in rows', i \in 1..Len(all') : all'[i].label # r.label
    BY <2>1, <2>2, <2>3, <2>4
  <2> QED
    BY <1>0, <2>1, <2>2, <2>3, <2>5, <2>6 DEF BarInv
<1> QED
  BY <1>1, <1>2, <1>3, <1>4, <1>5 DEF Next, Finished

\* The bars of a breakdown sum to the rows scanned, each name once and at most one of them
\* new, or to more when the small groups come to less than nothing, for any number of bars
\* (sales_performance.go:64-86).
THEOREM BreakdownAlwaysAddsUp == Spec => []BreakdownAddsUp
<1>1. Init => BarInv
  <2> SUFFICES ASSUME Init PROVE BarInv
    OBVIOUS
  <2>1. stage \in {"contrib", "provinsi", "total"}
    BY DEF Init
  <2> QED
    BY <2>1 DEF Init, BarInv, MartsType
<1>2. BarInv => BreakdownAddsUp
  BY BarsAddUp DEF BarInv, BreakdownAddsUp
<1> QED
  BY <1>1, <1>2, BarStep, PTL DEF Spec

=============================================================================
