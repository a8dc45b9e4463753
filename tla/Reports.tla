-------------------------------- MODULE Reports --------------------------------
(***************************************************************************)
(* What three loaders compute from the rows of their queries:              *)
(* queryContribution, the bars of a breakdown and its "Lainnya" (others);  *)
(* queryGeographicProvinsi, the omset per province, whose name is looked   *)
(* up for each row; GetRingkasanHarian, the summary of a day, three        *)
(* queries one after the other: the total, the channels and the stores,    *)
(* of which the ones that grew most and least are shown.                   *)
(*                                                                         *)
(* marts_ecommerce is what each group of its rows adds up to.  The rows of *)
(* a query come one at a time; a row may not scan, and the connection may  *)
(* break, which ends the rows without an error for nobody asks rows.Err.   *)
(* Amounts are exact: the rounding of float64 is left out.                 *)
(***************************************************************************)
EXTENDS Integers, Sequences, FiniteSets, FiniteSetsExt, SequencesExt

CONSTANTS
  Groups,             \* the groups of rows of marts_ecommerce, one for each name
                      \* as it is stored: [label, kanal, prov, kota]; a label
                      \* or a kanal is [name, caps, padded]
  Amounts,            \* what a group may add up to: [omset, lalu, qty]
  TopN,               \* topContribN, 7 in the code
  provinsiCanonical,  \* province of a name, without its prefix
  cityToProvinceMap,  \* province of a city, without "kota", "kabupaten", ...
  Fakfak,             \* the city names that contain Fakfak, however written
  FakfakProvince,     \* and the province it is in
  MaxRefresh,         \* bound: refreshes of marts_ecommerce, and what it may
  Refreshed,          \* hold after one
  Faults,             \* may a query, a row or a connection fail?
  None                \* no province, no store, no rows in this period

ASSUME ReportsAssumption ==
  /\ IsFiniteSet(Groups) /\ \A g, h \in Groups : g.label = h.label => g = h
  /\ Amounts \subseteq [omset : Int, lalu : Int, qty : Nat] /\ None \notin Amounts
  /\ Refreshed \subseteq [Groups -> Amounts \cup {None}]
  /\ TopN \in Nat /\ MaxRefresh \in Nat
  /\ Faults \in BOOLEAN

VARIABLES
  marts,             \* what each group adds up to now, None if it has no rows
  refreshes,         \* refreshes so far
  selected,          \* the channels the request filters for, none of them: all
  stage,             \* what the loader does next
  rows,              \* the rows of the query that have not come yet
  lost,              \* history: has a row or a connection been lost?
  all,               \* queryContribution: the rows scanned
  agg, mapped, unmapped,   \* queryGeographicProvinsi: its map and its counts
  total, totalAt,    \* GetRingkasanHarian: the total, and when it was read
  perKanal, kanalAt, \* the channels, and when they were read
  left,              \* history: the channels HAVING left out then
  seen,              \* history: the rows that were added up or compared
  top, bottom        \* topGrowth and bottomGrowth

warehouse    == <<marts, refreshes, selected>>
provinsiVars == <<agg, mapped, unmapped>>
summaryVars  == <<total, totalAt, perKanal, kanalAt, left>>
growthVars   == <<top, bottom>>
vars == <<warehouse, stage, rows, lost, all, provinsiVars, summaryVars, seen, growthVars>>

-----------------------------------------------------------------------------
(* SQL.                                                                    *)

Sold     == {g \in Groups : marts[g] # None}
Omset(S) == MapThenSumSet(LAMBDA g : marts[g].omset, S)
Lalu(S)  == MapThenSumSet(LAMBDA g : marts[g].lalu, S)
Qty(S)   == MapThenSumSet(LAMBDA g : marts[g].qty, S)

\* COALESCE(NULLIF(TRIM(label), ''), otherwise)
Name(n) == [name |-> n, caps |-> FALSE, padded |-> FALSE]
Trimmed(label, otherwise) ==
  IF label.name = "" THEN Name(otherwise) ELSE [label EXCEPT !.padded = FALSE]

\* GROUP BY label: an alias, the trimmed name.
ContribRows ==
  LET Label(g) == Trimmed(g.label, "Lainnya")
      Of(l)    == {g \in Sold : Label(g) = l}
  IN  {[label |-> l, omset |-> Omset(Of(l)), qty |-> Qty(Of(l))] : l \in {Label(g) : g \in Sold}}

ProvinsiRows ==
  LET Of(p, k) == {g \in Sold : g.prov = p /\ g.kota = k}
  IN  {r \in {[prov |-> g.prov, kota |-> g.kota, omset |-> Omset(Of(g.prov, g.kota))] :
                g \in Sold} : r.omset > 0}

\* LOWER(kanal) IN (the words sent, in lower case): the column is not trimmed, so
\* a filter never finds a name that is stored with spaces around it.
Matches(kanal) == selected = {} \/ (~kanal.padded /\ kanal.name \in selected)

\* (Seeded fault: GROUP BY 1, the name as it is shown.)
KanalGroupsShown ==
  LET Of(k) == {g \in Sold : Trimmed(g.kanal, "Unknown") = k}
  IN  {[kanal |-> k, raw |-> k, omset |-> Omset(Of(k)), lalu |-> Lalu(Of(k))] :
         k \in {Trimmed(g.kanal, "Unknown") : g \in Sold}}

\* GROUP BY kanal: the column rather than the alias of the same name, so two
\* spellings of a channel are two rows that may look the same.
KanalGroups ==
  LET Of(k) == {g \in Sold : g.kanal = k}
  IN  {[kanal |-> Trimmed(k, "Unknown"), raw |-> k, omset |-> Omset(Of(k)), lalu |-> Lalu(Of(k))] :
         k \in {g.kanal : g \in Sold}}

\* HAVING; the channels are not filtered by kanal.
KanalRows == {r \in KanalGroups : r.omset > 0 \/ r.lalu > 0}

\* GROUP BY toko: again the name as it is stored.
Toko(g) == [toko |-> Trimmed(g.label, "Unknown"), raw |-> g.label,
            omset |-> marts[g].omset, lalu |-> marts[g].lalu]
TokoRows ==
  {r \in {Toko(g) : g \in {h \in Sold : Matches(h.kanal)}} : r.omset > 0 \/ r.lalu > 0}

\* A row of this query.
Store == [toko : {Trimmed(g.label, "Unknown") : g \in Groups},
          raw : {g.label : g \in Groups}, omset : Int, lalu : Int]
ASSUME NoneIsNoStore == None \notin Store

-----------------------------------------------------------------------------
\* The channels a request may name.
KanalWords == {g.kanal.name : g \in Groups} \ {""}

Init ==
  /\ marts \in [Groups -> Amounts \cup {None}]
  /\ refreshes = 0
  /\ stage \in {"contrib", "provinsi", "total"}
  /\ selected \in IF stage = "total" THEN SUBSET KanalWords ELSE {{}}
  /\ rows = {} /\ lost = FALSE
  /\ all = <<>>
  /\ agg = <<>> /\ mapped = 0 /\ unmapped = 0
  /\ total = [omset |-> 0, lalu |-> 0] /\ totalAt = 0
  /\ perKanal = {} /\ kanalAt = 0 /\ left = {}
  /\ seen = {} /\ top = None /\ bottom = None

\* Where the rows of a query are read, and what comes after them; "bars",
\* "provinces" and "summary" are the ends.
Reading == [contrib |-> "contribRows", provinsi |-> "provinsiRows",
            kanal |-> "kanalRows", toko |-> "tokoRows"]
After   == [contribRows |-> "bars", provinsiRows |-> "provinces",
            kanalRows |-> "toko", tokoRows |-> "compare"]

\* DB.Query: the rows are those of the table at this moment.
Query ==
  /\ stage \in DOMAIN Reading
  /\ rows' = CASE stage = "contrib"  -> ContribRows
               [] stage = "provinsi" -> ProvinsiRows
               [] stage = "kanal"    -> KanalRows
               [] stage = "toko"     -> TokoRows
  /\ kanalAt' = IF stage = "kanal" THEN refreshes ELSE kanalAt
  /\ left' = IF stage = "kanal" THEN KanalGroups \ KanalRows ELSE left
  /\ stage' = Reading[stage]
  /\ UNCHANGED <<warehouse, lost, all, provinsiVars, total, totalAt, perKanal, seen, growthVars>>

\* A query fails: the loader returns its error and nothing else.
Fail ==
  /\ Faults /\ stage \in DOMAIN Reading \cup {"total"}
  /\ stage' = "failed"
  /\ UNCHANGED <<warehouse, rows, lost, all, provinsiVars, summaryVars, seen, growthVars>>

\* A row that does not scan is skipped.
Skip(row) ==
  /\ Faults /\ row \in rows
  /\ rows' = rows \ {row} /\ lost' = TRUE
  /\ UNCHANGED <<warehouse, stage, all, provinsiVars, summaryVars, seen, growthVars>>

\* rows.Next returns false: there are no more, or the connection broke.
EndRows ==
  /\ stage \in DOMAIN After /\ (rows = {} \/ Faults)
  /\ rows' = {} /\ lost' = (lost \/ rows # {})
  /\ stage' = After[stage]
  /\ UNCHANGED <<warehouse, all, provinsiVars, summaryVars, seen, growthVars>>

\* The ETL replaces the contents of marts_ecommerce between two queries.
Refresh ==
  /\ refreshes < MaxRefresh /\ stage \in {"total", "kanal", "toko"}
  /\ marts' \in Refreshed
  /\ refreshes' = refreshes + 1
  /\ UNCHANGED <<selected, stage, rows, lost, all, provinsiVars, summaryVars, seen, growthVars>>

-----------------------------------------------------------------------------
(* queryContribution.                                                      *)

\* ORDER BY total_gmv DESC, in any order among equals.
ReadBar(row) ==
  /\ stage = "contribRows" /\ row \in rows
  /\ \A other \in rows : other.omset <= row.omset
  /\ all' = Append(all, row)
  /\ rows' = rows \ {row}
  /\ UNCHANGED <<warehouse, stage, lost, provinsiVars, summaryVars, seen, growthVars>>

SumOmset(list) == FoldLeft(LAMBDA sum, it : sum + it.omset, 0, list)
SumQty(list)   == FoldLeft(LAMBDA sum, it : sum + it.qty, 0, list)

\* strings.EqualFold(label, "Lainnya")
IsOthers(it) == it.label.name = "Lainnya"

\* (Seeded fault: a bar for the tail is always added.)
MergedNowhere(out, tail) ==
  Append(out, [label |-> Name("Lainnya"), omset |-> SumOmset(tail), qty |-> SumQty(tail)])

\* The tail goes to the first bar that is called Lainnya, or to a new one.
Merged(out, tail) ==
  IF \E i \in 1..Len(out) : IsOthers(out[i])
    THEN LET first == SelectInSeq(out, IsOthers)
         IN  [out EXCEPT ![first].omset = @ + SumOmset(tail), ![first].qty = @ + SumQty(tail)]
    ELSE Append(out, [label |-> Name("Lainnya"), omset |-> SumOmset(tail), qty |-> SumQty(tail)])

Shown == SubSeq(all, 1, TopN)
Tail_ == SubSeq(all, TopN + 1, Len(all))

\* The bars: the first TopN, and the rest as one if it comes to anything.
Bars ==
  IF Len(all) <= TopN THEN all
  ELSE IF SumOmset(Tail_) > 0 THEN Merged(Shown, Tail_) ELSE Shown

-----------------------------------------------------------------------------
(* queryGeographicProvinsi.                                                *)

\* The prefix, the suffix and spare spaces are taken off; the name is looked up
\* as it is and then with its dashes as spaces.
Bare(raw)      == [raw EXCEPT !.wrapped = FALSE]
Collapsed(raw) == [raw EXCEPT !.wrapped = FALSE, !.dashed = FALSE]
LookUp(table, raw) ==
  IF Bare(raw) \in DOMAIN table THEN table[Bare(raw)]
  ELSE IF Collapsed(raw) \in DOMAIN table THEN table[Collapsed(raw)] ELSE None

normalizeProvinsiName(raw) == LookUp(provinsiCanonical, raw)

provinceFromCity(raw) ==
  IF raw.name \in Fakfak THEN FakfakProvince ELSE LookUp(cityToProvinceMap, raw)

resolveProvinsi(prov, kota) ==
  IF normalizeProvinsiName(prov) # None THEN normalizeProvinsiName(prov)
  ELSE provinceFromCity(kota)

\* (Seeded fault: agg[canonical] = omset.)
StoreIn(map, p, omset) ==
  [q \in DOMAIN map \cup {p} |-> IF q = p THEN omset ELSE map[q]]

\* agg[canonical] += omset
AddTo(map, p, omset) ==
  [q \in DOMAIN map \cup {p} |->
     (IF q \in DOMAIN map THEN map[q] ELSE 0) + (IF q = p THEN omset ELSE 0)]

ReadProvinsi(row) ==
  LET canonical == resolveProvinsi(row.prov, row.kota)
  IN  /\ stage = "provinsiRows" /\ row \in rows
      /\ rows' = rows \ {row} /\ seen' = seen \cup {row}
      /\ \/ /\ canonical = None
            /\ unmapped' = unmapped + 1 /\ UNCHANGED <<agg, mapped>>
         \/ /\ canonical # None
            /\ mapped' = mapped + 1 /\ UNCHANGED unmapped
            /\ agg' = AddTo(agg, canonical, row.omset)
      /\ UNCHANGED <<warehouse, stage, lost, all, summaryVars, growthVars>>

-----------------------------------------------------------------------------
(* GetRingkasanHarian.                                                     *)

\* The total of the channels the request filters for.
ReadTotal ==
  /\ stage = "total"
  /\ LET of == {g \in Sold : Matches(g.kanal)}
     IN  total' = [omset |-> Omset(of), lalu |-> Lalu(of)]
  /\ totalAt' = refreshes
  /\ stage' = "kanal"
  /\ UNCHANGED <<warehouse, rows, lost, all, provinsiVars, perKanal, kanalAt, left, seen, growthVars>>

ReadKanal(row) ==
  /\ stage = "kanalRows" /\ row \in rows
  /\ perKanal' = perKanal \cup {row}
  /\ rows' = rows \ {row}
  /\ UNCHANGED <<warehouse, stage, lost, all, provinsiVars, total, totalAt, kanalAt, left, seen, growthVars>>

\* pct of the one > pct of the other: (omset - lalu) / lalu, with lalu > 0.
GrewMore(a, b) == a.omset * b.lalu > b.omset * a.lalu

\* (Seeded fault: "else if" before the second comparison.)
CompareElse(row) ==
  IF top = None \/ GrewMore(row, top) THEN top' = row /\ UNCHANGED bottom
  ELSE /\ bottom' = IF bottom = None \/ GrewMore(bottom, row) THEN row ELSE bottom
       /\ UNCHANGED top

Compare(row) ==
  /\ top'    = IF top = None \/ GrewMore(row, top) THEN row ELSE top
  /\ bottom' = IF bottom = None \/ GrewMore(bottom, row) THEN row ELSE bottom

\* A store that sold nothing in the month before has no growth.
ReadToko(row) ==
  /\ stage = "tokoRows" /\ row \in rows
  /\ rows' = rows \ {row}
  /\ \/ row.lalu > 0 /\ Compare(row) /\ seen' = seen \cup {row}
     \/ row.lalu <= 0 /\ UNCHANGED <<seen, growthVars>>
  /\ UNCHANGED <<warehouse, stage, lost, all, provinsiVars, summaryVars>>

\* The one store of the list is shown once, as are two of the same name.
DropSame ==
  /\ stage = "compare"
  /\ bottom' = IF top # None /\ bottom # None /\ top.toko = bottom.toko THEN None ELSE bottom
  /\ stage' = "summary"
  /\ UNCHANGED <<warehouse, rows, lost, all, provinsiVars, summaryVars, seen, top>>

Finished == stage \in {"bars", "provinces", "summary", "failed"} /\ UNCHANGED vars

Next ==
  \/ Query \/ Fail \/ EndRows \/ Refresh \/ ReadTotal \/ DropSame \/ Finished
  \/ \E row \in rows :
       Skip(row) \/ ReadBar(row) \/ ReadProvinsi(row) \/ ReadKanal(row) \/ ReadToko(row)

Spec == Init /\ [][Next]_vars

-----------------------------------------------------------------------------
(* Properties.                                                             *)

Labels(list) == {list[i].label : i \in 1..Len(list)}

\* A breakdown adds up: its bars have names of their own, at most one of them
\* is new, and they sum to the rows scanned, unless the small groups come to
\* less than nothing, returns say, and are left out: then the bars sum to more.
\* Quantities are left out with them (sales_performance.go:64-86).
BreakdownAddsUp ==
  LET rest == Len(all) > TopN /\ SumOmset(Tail_) <= 0
  IN  stage = "bars" =>
        /\ Cardinality(Labels(Bars)) = Len(Bars)
        /\ Len(Bars) <= TopN + 1 /\ Labels(Bars) \ Labels(all) \subseteq {Name("Lainnya")}
        /\ SumOmset(Bars) >= SumOmset(all)
        /\ SumOmset(Bars) > SumOmset(all) => rest
        /\ SumQty(Bars) # SumQty(all) => rest

\* Every row that names a province, or else a city that is known, is counted
\* in that province and once, and a province is there for each of them and for
\* nothing else: the provinces sum to the rows scanned less the unmapped ones,
\* which are counted, however the names are spelled.
ProvincesAddUp ==
  stage \in {"provinsiRows", "provinces"} =>
    LET Known == {r \in seen : resolveProvinsi(r.prov, r.kota) # None}
        Of(p) == {r \in Known : resolveProvinsi(r.prov, r.kota) = p}
    IN  /\ DOMAIN agg = {resolveProvinsi(r.prov, r.kota) : r \in Known}
        /\ \A p \in DOMAIN agg : agg[p] = MapThenSumSet(LAMBDA r : r.omset, Of(p))
        /\ mapped = Cardinality(Known)
        /\ mapped + unmapped = Cardinality(seen)

\* The channels of the summary that the filter is for, and the returns of those
\* of them that are not listed, are the total, neither more nor less: what is
\* left out had nothing positive to it, and no channel is listed twice under the
\* name it is stored by.  This needs both queries to see one version of the table,
\* and the rows of the channels to be read to the end (metrik.go:549-579).
ChannelsAddUp ==
  LET Of(R) == {r \in R : Matches(r.raw)}
      SumOf(Amount(_), R) == MapThenSumSet(Amount, Of(R))
  IN  stage \in {"toko", "tokoRows", "compare", "summary"} /\ ~lost /\ totalAt = kanalAt =>
        /\ total.omset = SumOf(LAMBDA r : r.omset, perKanal) + SumOf(LAMBDA r : r.omset, left)
        /\ total.lalu = SumOf(LAMBDA r : r.lalu, perKanal) + SumOf(LAMBDA r : r.lalu, left)
        /\ \A r \in left : r.omset <= 0 /\ r.lalu <= 0
        /\ \A q, r \in perKanal \cup left : q.raw = r.raw => q = r

\* The stores shown are the ones that grew most and least of those compared, in
\* whatever order they came.  None is shown as the least when they all grew
\* alike, or when the least has the name of the most (metrik.go:601-627).
GrowthExtremes ==
  stage = "summary" =>
    /\ top = None => seen = {}
    /\ top # None => top \in seen /\ \A r \in seen : ~GrewMore(r, top)
    /\ bottom # None =>
         bottom \in seen /\ GrewMore(top, bottom) /\ \A r \in seen : ~GrewMore(bottom, r)
    /\ top # None /\ bottom = None =>
         \E least \in seen : least.toko = top.toko /\ \A r \in seen : ~GrewMore(least, r)

=============================================================================
