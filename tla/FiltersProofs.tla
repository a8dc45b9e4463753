------------------------------ MODULE FiltersProofs ------------------------------
(***************************************************************************)
(* The placeholders, the cache key and the cleaning of the filters, proved *)
(* for any columns, any alphabet and any callers, and for lists of any     *)
(* length.  The loops are folds, so what they do with one more value       *)
(* (cleanMultiLaws, FirstSpellingsLaws) is enough, by induction over the   *)
(* list, for what they return.  The key of the options is told from others *)
(* by where its first list ends (NoLonger).                                *)
(***************************************************************************)
EXTENDS Filters, FoldLemmas

-----------------------------------------------------------------------------
(* What the two loops do with one more value. *)

\* Any value, of whatever alphabet.
Value == [word : Int, caps : BOOLEAN, padded : BOOLEAN]

\* One turn of cleanMulti, and of the loop of Clean.
keepClean(out, v) ==
  IF isSemuaOrEmpty(v) \/ \E u \in ToSet(out) : ToLower(u) = ToLower(TrimSpace(v))
  THEN out ELSE Append(out, TrimSpace(v))

keepFirst(out, v) ==
  IF v.word \in {Blank, Semua} \/ \E i \in 1..Len(out) : out[i].word = v.word
  THEN out ELSE Append(out, TrimSpace(v))

\* A trimmed value is a value.
LEMMA TrimSpaceType == ASSUME NEW v \in Value PROVE TrimSpace(v) \in Value
  BY DEF TrimSpace, Value

\* cleanMulti is a left fold that takes lists of values to lists of values.
LEMMA cleanMultiIsLeft ==
  ASSUME NEW s \in Seq(Value)
  PROVE  cleanMulti(s) = Left([p \in Seq(Value) \X Value |-> keepClean(p[1], p[2])], <<>>, s)
<1> DEFINE A == Seq(Value)
           step == [p \in A \X Value |-> keepClean(p[1], p[2])]
           Body(G) == G = [t \in SUBSET DOMAIN s |->
             IF t = {} THEN <<>> ELSE keepClean(G[t \ {Max(t)}], s[Max(t)])]
           C == CHOOSE G : Body(G)
<1>1. cleanMulti(s) = C[DOMAIN s]
  BY Zenon DEF cleanMulti, FoldLeft, MapThenFoldSet, keepClean
<1>2. Folding(step, <<>>, A, Value)
  BY TrimSpaceType DEF Folding, keepClean
<1>3. \A out \in A, v \in Value : step[<<out, v>>] = keepClean(out, v)
  OBVIOUS
<1>4. DOMAIN s = 1..Len(s) /\ Len(s) \in Nat /\ \A k \in 1..Len(s) : s[k] \in Value
  OBVIOUS
<1> HIDE DEF A, step
<1>5. PICK F \in [SUBSET DOMAIN s -> A] : IsLeft(F, step, <<>>, s)
  BY <1>2, LeftExists
<1>6. ASSUME NEW t \in SUBSET DOMAIN s, t # {}
      PROVE  step[<<F[t \ {Max(t)}], s[Max(t)]>>] = keepClean(F[t \ {Max(t)}], s[Max(t)])
  <2>1. s[Max(t)] \in Value /\ t \ {Max(t)} \in SUBSET DOMAIN s
    BY <1>6, LastValue
  <2> QED
    BY <1>3, <1>5, <2>1
<1>7. Body(F)
  BY <1>5, <1>6, Zenon DEF IsLeft
<1>8. Body(C)
  BY <1>7, Zenon
<1> HIDE DEF C
<1>9. TypedSteps(C, step, <<>>, s, A)
  <2>1. C[{}] = <<>>
    BY <1>8
  <2>2. ASSUME NEW k \in 1..Len(s), C[1..(k - 1)] \in A
        PROVE  C[1..k] = step[<<C[1..(k - 1)], s[k]>>]
    <3>1. 1..k \in SUBSET DOMAIN s /\ 1..k # {} /\ Max(1..k) = k /\ (1..k) \ {k} = 1..(k - 1)
      BY <1>4, Prefix
    <3>2. C[1..k] = keepClean(C[(1..k) \ {Max(1..k)}], s[Max(1..k)])
      BY <1>8, <3>1, Zenon
    <3>3. C[1..k] = keepClean(C[1..(k - 1)], s[k])
      BY <3>1, <3>2, Zenon
    <3>4. s[k] \in Value
      BY <1>4
    <3> QED
      BY <1>3, <2>2, <3>3, <3>4, Zenon
  <2> QED
    BY <2>1, <2>2, Zenon DEF TypedSteps
<1>10. C[DOMAIN s] = Left(step, <<>>, s)
  BY <1>2, <1>9, TypedIsLeft
<1> QED
  BY <1>1, <1>10 DEF step, A

\* So is the loop of Clean.
LEMMA FirstSpellingsIsLeft ==
  ASSUME NEW s \in Seq(Value)
  PROVE  FirstSpellings(s) = Left([p \in Seq(Value) \X Value |-> keepFirst(p[1], p[2])], <<>>, s)
<1> DEFINE A == Seq(Value)
           step == [p \in A \X Value |-> keepFirst(p[1], p[2])]
           Body(G) == G = [t \in SUBSET DOMAIN s |->
             IF t = {} THEN <<>> ELSE keepFirst(G[t \ {Max(t)}], s[Max(t)])]
           C == CHOOSE G : Body(G)
<1>1. FirstSpellings(s) = C[DOMAIN s]
  BY Zenon DEF FirstSpellings, FoldLeft, MapThenFoldSet, keepFirst
<1>2. Folding(step, <<>>, A, Value)
  BY TrimSpaceType DEF Folding, keepFirst
<1>3. \A out \in A, v \in Value : step[<<out, v>>] = keepFirst(out, v)
  OBVIOUS
<1>4. DOMAIN s = 1..Len(s) /\ Len(s) \in Nat /\ \A k \in 1..Len(s) : s[k] \in Value
  OBVIOUS
<1> HIDE DEF A, step
<1>5. PICK F \in [SUBSET DOMAIN s -> A] : IsLeft(F, step, <<>>, s)
  BY <1>2, LeftExists
<1>6. ASSUME NEW t \in SUBSET DOMAIN s, t # {}
      PROVE  step[<<F[t \ {Max(t)}], s[Max(t)]>>] = keepFirst(F[t \ {Max(t)}], s[Max(t)])
  <2>1. s[Max(t)] \in Value /\ t \ {Max(t)} \in SUBSET DOMAIN s
    BY <1>6, LastValue
  <2> QED
    BY <1>3, <1>5, <2>1
<1>7. Body(F)
  BY <1>5, <1>6, Zenon DEF IsLeft
<1>8. Body(C)
  BY <1>7, Zenon
<1> HIDE DEF C
<1>9. TypedSteps(C, step, <<>>, s, A)
  <2>1. C[{}] = <<>>
    BY <1>8
  <2>2. ASSUME NEW k \in 1..Len(s), C[1..(k - 1)] \in A
        PROVE  C[1..k] = step[<<C[1..(k - 1)], s[k]>>]
    <3>1. 1..k \in SUBSET DOMAIN s /\ 1..k # {} /\ Max(1..k) = k /\ (1..k) \ {k} = 1..(k - 1)
      BY <1>4, Prefix
    <3>2. C[1..k] = keepFirst(C[(1..k) \ {Max(1..k)}], s[Max(1..k)])
      BY <1>8, <3>1, Zenon
    <3>3. C[1..k] = keepFirst(C[1..(k - 1)], s[k])
      BY <3>1, <3>2, Zenon
    <3>4. s[k] \in Value
      BY <1>4
    <3> QED
      BY <1>3, <2>2, <3>3, <3>4, Zenon
  <2> QED
    BY <2>1, <2>2, Zenon DEF TypedSteps
<1>10. C[DOMAIN s] = Left(step, <<>>, s)
  BY <1>2, <1>9, TypedIsLeft
<1> QED
  BY <1>1, <1>10 DEF step, A

\* What cleanMulti makes of nothing, and of one more value.
LEMMA cleanMultiLaws ==
  /\ cleanMulti(<<>>) = <<>>
  /\ \A s \in Seq(Value) : cleanMulti(s) \in Seq(Value)
  /\ \A s \in Seq(Value), v \in Value : cleanMulti(Append(s, v)) = keepClean(cleanMulti(s), v)
<1> DEFINE A == Seq(Value)
           step == [p \in A \X Value |-> keepClean(p[1], p[2])]
<1>1. Folding(step, <<>>, A, Value)
  BY TrimSpaceType DEF Folding, keepClean
<1>2. \A out \in A, v \in Value : step[<<out, v>>] = keepClean(out, v)
  OBVIOUS
<1>3. \A s \in A : cleanMulti(s) = Left(step, <<>>, s)
  BY cleanMultiIsLeft
<1>4. <<>> \in A /\ \A s \in A, v \in Value : Append(s, v) \in A
  OBVIOUS
<1> HIDE DEF step, A
<1>5. /\ Left(step, <<>>, <<>>) = <<>>
      /\ \A s \in Seq(Value) : Left(step, <<>>, s) \in A
      /\ \A s \in Seq(Value), v \in Value :
           Left(step, <<>>, Append(s, v)) = step[<<Left(step, <<>>, s), v>>]
  BY <1>1, LeftLaws
<1> QED
  BY <1>2, <1>3, <1>4, <1>5 DEF A

\* What the loop of Clean makes of nothing, and of one more value.
LEMMA FirstSpellingsLaws ==
  /\ FirstSpellings(<<>>) = <<>>
  /\ \A s \in Seq(Value) : FirstSpellings(s) \in Seq(Value)
  /\ \A s \in Seq(Value), v \in Value : FirstSpellings(Append(s, v)) = keepFirst(FirstSpellings(s), v)
<1> DEFINE A == Seq(Value)
           step == [p \in A \X Value |-> keepFirst(p[1], p[2])]
<1>1. Folding(step, <<>>, A, Value)
  BY TrimSpaceType DEF Folding, keepFirst
<1>2. \A out \in A, v \in Value : step[<<out, v>>] = keepFirst(out, v)
  OBVIOUS
<1>3. \A s \in A : FirstSpellings(s) = Left(step, <<>>, s)
  BY FirstSpellingsIsLeft
<1>4. <<>> \in A /\ \A s \in A, v \in Value : Append(s, v) \in A
  OBVIOUS
<1> HIDE DEF step, A
<1>5. /\ Left(step, <<>>, <<>>) = <<>>
      /\ \A s \in Seq(Value) : Left(step, <<>>, s) \in A
      /\ \A s \in Seq(Value), v \in Value :
           Left(step, <<>>, Append(s, v)) = step[<<Left(step, <<>>, s), v>>]
  BY <1>1, LeftLaws
<1> QED
  BY <1>2, <1>3, <1>4, <1>5 DEF A

-----------------------------------------------------------------------------
(* What the loops keep. *)

\* The spellings selected in a list (Spelled, of any list).
SpelledIn(s) == {TrimSpace(v) : v \in {v \in ToSet(s) : ~isSemuaOrEmpty(v)}}

\* No word twice.
Distinct(s) == \A i, j \in 1..Len(s) : s[i].word = s[j].word => i = j

\* Every value trimmed, and none that selects nothing.
Cleaned(s) == \A i \in 1..Len(s) : ~s[i].padded /\ ~isSemuaOrEmpty(s[i])

\* A value more is a spelling more, unless it selects nothing.
LEMMA SpelledAppend ==
  ASSUME NEW s \in Seq(Value), NEW v \in Value
  PROVE  SpelledIn(Append(s, v)) =
           SpelledIn(s) \cup (IF isSemuaOrEmpty(v) THEN {} ELSE {TrimSpace(v)})
  BY AppendElements DEF SpelledIn

\* Words once kept are told apart, spelled as they were selected, and all there.
KeepsFirst(s) ==
  /\ Distinct(FirstSpellings(s))
  /\ \A i \in 1..Len(FirstSpellings(s)) : FirstSpellings(s)[i] \in SpelledIn(s)
  /\ \A u \in SpelledIn(s) :
       \E i \in 1..Len(FirstSpellings(s)) : FirstSpellings(s)[i].word = u.word

\* The loop of Clean keeps the first spelling of every word, and nothing else.
LEMMA FirstSpellingsKeep == \A s \in Seq(Value) : KeepsFirst(s)
<1> DEFINE P == {s \in Seq(Value) : KeepsFirst(s)}
<1>1. <<>> \in P
  <2>1. SpelledIn(<<>>) = {}
    BY DEF SpelledIn, ToSet
  <2>2. <<>> \in Seq(Value) /\ Len(<<>>) = 0 /\ FirstSpellings(<<>>) = <<>>
    BY FirstSpellingsLaws
  <2>3. KeepsFirst(<<>>)
    BY <2>1, <2>2 DEF KeepsFirst, Distinct
  <2> QED
    BY <2>2, <2>3
<1>2. ASSUME NEW s \in P, NEW v \in Value PROVE Append(s, v) \in P
  <2> DEFINE f == FirstSpellings(s)
             g == FirstSpellings(Append(s, v))
             t == TrimSpace(v)
  <2>1. /\ s \in Seq(Value) /\ KeepsFirst(s) /\ f \in Seq(Value) /\ Len(f) \in Nat
        /\ t \in Value /\ t.word = v.word /\ Append(s, v) \in Seq(Value)
    <3>1. s \in Seq(Value) /\ KeepsFirst(s)
      OBVIOUS
    <3>2. f \in Seq(Value)
      BY <3>1, FirstSpellingsLaws
    <3>3. t.word = v.word
      BY DEF TrimSpace, Value
    <3> QED
      BY <3>1, <3>2, <3>3, TrimSpaceType
  <2>2. g = keepFirst(f, v)
    BY <2>1, FirstSpellingsLaws
  <2>3. SpelledIn(Append(s, v)) = SpelledIn(s) \cup (IF isSemuaOrEmpty(v) THEN {} ELSE {t})
    BY <2>1, SpelledAppend
  <2> HIDE DEF f, g, t
  <2>4. /\ Distinct(f) /\ \A i \in 1..Len(f) : f[i] \in SpelledIn(s)
        /\ \A u \in SpelledIn(s) : \E i \in 1..Len(f) : f[i].word = u.word
    BY <2>1 DEF KeepsFirst, f
  <2>5. CASE isSemuaOrEmpty(v)
    <3>1. g = f
      BY <2>2, <2>5 DEF keepFirst, isSemuaOrEmpty
    <3> QED
      BY <2>1, <2>3, <2>4, <2>5, <3>1 DEF KeepsFirst, g
  <2>6. CASE \E i \in 1..Len(f) : f[i].word = v.word
    <3>1. g = f
      BY <2>2, <2>6 DEF keepFirst
    <3> QED
      BY <2>1, <2>3, <2>4, <2>6, <3>1 DEF KeepsFirst, g
  <2>7. CASE ~isSemuaOrEmpty(v) /\ ~\E i \in 1..Len(f) : f[i].word = v.word
    <3>1. g = Append(f, t)
      BY <2>2, <2>7 DEF keepFirst, isSemuaOrEmpty, t
    <3>2. /\ Len(g) = Len(f) + 1 /\ g[Len(f) + 1] = t
          /\ \A i \in 1..Len(f) : g[i] = f[i]
      BY <2>1, <3>1, AppendElements
    <3>3. Distinct(g)
      BY <2>1, <2>4, <2>7, <3>2 DEF Distinct
    <3>4. \A i \in 1..Len(g) : g[i] \in SpelledIn(s) \cup {t}
      BY <2>1, <2>4, <3>2
    <3>5. \A u \in SpelledIn(s) \cup {t} : \E i \in 1..Len(g) : g[i].word = u.word
      <4>1. ASSUME NEW u \in SpelledIn(s) PROVE \E i \in 1..Len(g) : g[i].word = u.word
        <5>1. PICK i \in 1..Len(f) : f[i].word = u.word
          BY <2>4
        <5>2. i \in 1..Len(g) /\ g[i] = f[i]
          BY <2>1, <3>2
        <5> QED
          BY <5>1, <5>2
      <4>2. Len(f) + 1 \in 1..Len(g)
        BY <2>1, <3>2
      <4> QED
        BY <3>2, <4>1, <4>2
    <3> QED
      BY <2>1, <2>3, <2>7, <3>3, <3>4, <3>5 DEF KeepsFirst, g
  <2> QED
    BY <2>5, <2>6, <2>7
<1>3. P = Seq(Value)
  <2>1. P \in SUBSET Seq(Value)
    OBVIOUS
  <2> HIDE DEF P
  <2> QED
    BY <1>1, <1>2, <2>1, SeqInduction
<1> QED
  BY <1>3

\* The other loop finds nothing to drop or to merge in a list that is clean.
LEMMA cleanMultiKeeps ==
  \A s \in Seq(Value) : Distinct(s) /\ Cleaned(s) => cleanMulti(s) = s
<1> DEFINE P == {s \in Seq(Value) : Distinct(s) /\ Cleaned(s) => cleanMulti(s) = s}
<1>1. <<>> \in P
  BY cleanMultiLaws
<1>2. ASSUME NEW s \in P, NEW v \in Value PROVE Append(s, v) \in P
  <2>1. s \in Seq(Value) /\ Len(s) \in Nat /\ Append(s, v) \in Seq(Value)
    OBVIOUS
  <2> SUFFICES ASSUME Distinct(Append(s, v)), Cleaned(Append(s, v))
               PROVE  cleanMulti(Append(s, v)) = Append(s, v)
    BY <2>1
  <2>2. /\ Len(Append(s, v)) = Len(s) + 1 /\ Append(s, v)[Len(s) + 1] = v
        /\ \A i \in 1..Len(s) : Append(s, v)[i] = s[i] /\ i \in 1..(Len(s) + 1) /\ i # Len(s) + 1
        /\ Len(s) + 1 \in 1..(Len(s) + 1)
    BY <2>1, AppendElements
  <2>3. Distinct(s) /\ Cleaned(s)
    BY <2>2 DEF Distinct, Cleaned
  <2>4. cleanMulti(s) = s /\ cleanMulti(Append(s, v)) = keepClean(s, v)
    <3>1. cleanMulti(s) = s
      BY <2>3
    <3> QED
      BY <2>1, <3>1, cleanMultiLaws
  <2>5. ~v.padded /\ ~isSemuaOrEmpty(v) /\ \A i \in 1..Len(s) : s[i].word # v.word
    BY <2>2 DEF Distinct, Cleaned
  <2>6. TrimSpace(v) = v
    BY <2>5 DEF TrimSpace, Value
  <2>7. ~\E u \in ToSet(s) : ToLower(u) = ToLower(v)
    <3> SUFFICES ASSUME NEW u \in ToSet(s), ToLower(u) = ToLower(v) PROVE FALSE
      OBVIOUS
    <3>1. PICK i \in 1..Len(s) : u = s[i]
      BY <2>1 DEF ToSet
    <3>2. u \in Value
      BY <2>1, <3>1
    <3>3. u.word = v.word
      BY <3>2 DEF ToLower, Value
    <3> QED
      BY <2>5, <3>1, <3>3
  <2> QED
    BY <2>4, <2>5, <2>6, <2>7 DEF keepClean
<1>3. P = Seq(Value)
  <2>1. P \in SUBSET Seq(Value)
    OBVIOUS
  <2> HIDE DEF P
  <2> QED
    BY <1>1, <1>2, <2>1, SeqInduction
<1> QED
  BY <1>3

-----------------------------------------------------------------------------
(* The order. *)

\* The values that InOrder puts before the i-th of a list.
Before(s, i) == {j \in 1..Len(s) : \/ s[j].word < s[i].word
                                   \/ s[j].word = s[i].word /\ j < i}
Place(s, i) == Cardinality(Before(s, i))

\* The elements of a list of values, and its indexes.
LEMMA Elements ==
  ASSUME NEW s \in Seq(Value)
  PROVE  /\ Len(s) \in Nat /\ DOMAIN s = 1..Len(s)
         /\ \A i \in 1..Len(s) : s[i] \in Value /\ s[i].word \in Int /\ i \in Int
         /\ IsFiniteSet(1..Len(s)) /\ Cardinality(1..Len(s)) = Len(s)
<1>1. Len(s) \in Nat /\ DOMAIN s = 1..Len(s) /\ \A i \in 1..Len(s) : s[i] \in Value
  OBVIOUS
<1>2. \A v \in Value : v.word \in Int
  BY DEF Value
<1>3. \A i \in 1..Len(s) : i \in Int
  BY <1>1
<1>4. IsFiniteSet(1..Len(s)) /\ Cardinality(1..Len(s)) = Len(s)
  <2>1. 1 \in Int /\ Len(s) \in Int
    BY <1>1
  <2>2. /\ IsFiniteSet(1..Len(s))
        /\ Cardinality(1..Len(s)) = IF 1 > Len(s) THEN 0 ELSE Len(s) - 1 + 1
    BY <2>1, FS_Interval, Zenon
  <2> QED
    BY <1>1, <2>2
<1> QED
  BY <1>1, <1>2, <1>3, <1>4

\* The i-th value of the list comes before the j-th.
Ahead(s, i, j) == \/ s[i].word < s[j].word
                  \/ (s[i].word = s[j].word /\ i < j)

\* The order is strict, total and transitive.
LEMMA AheadOrders ==
  ASSUME NEW s \in Seq(Value)
  PROVE  \A i, j, k \in 1..Len(s) :
           /\ ~Ahead(s, i, i)
           /\ (Ahead(s, i, j) /\ Ahead(s, j, k)) => Ahead(s, i, k)
           /\ Ahead(s, i, j) \/ Ahead(s, j, i) \/ i = j
           /\ Ahead(s, i, j) => s[i].word <= s[j].word
<1> SUFFICES ASSUME NEW i \in 1..Len(s), NEW j \in 1..Len(s), NEW k \in 1..Len(s)
             PROVE  /\ ~Ahead(s, i, i)
                    /\ (Ahead(s, i, j) /\ Ahead(s, j, k)) => Ahead(s, i, k)
                    /\ Ahead(s, i, j) \/ Ahead(s, j, i) \/ i = j
                    /\ Ahead(s, i, j) => s[i].word <= s[j].word
  OBVIOUS
<1>1. /\ s[i].word \in Int /\ s[j].word \in Int /\ s[k].word \in Int
      /\ i \in Int /\ j \in Int /\ k \in Int
  BY Elements
<1> QED
  BY <1>1 DEF Ahead

\* A value's place is one of the list's, and places are in the order of the values.
LEMMA PlaceInOrder ==
  ASSUME NEW s \in Seq(Value)
  PROVE  /\ \A i \in 1..Len(s) : Place(s, i) \in 0..(Len(s) - 1)
         /\ \A i, j \in 1..Len(s) : Place(s, i) < Place(s, j) <=> Ahead(s, i, j)
<1> DEFINE I == 1..Len(s)
<1>1. Len(s) \in Nat /\ IsFiniteSet(I) /\ Cardinality(I) = Len(s)
  BY Elements
<1>2. ASSUME NEW i \in I
      PROVE  /\ Before(s, i) \in SUBSET I /\ i \notin Before(s, i)
             /\ \A j \in I : j \in Before(s, i) <=> Ahead(s, j, i)
             /\ IsFiniteSet(Before(s, i)) /\ Place(s, i) \in Nat
  <2>1. Before(s, i) = {j \in I : Ahead(s, j, i)}
    BY DEF Before, Ahead
  <2>2. /\ Before(s, i) \in SUBSET I
        /\ \A j \in I : j \in Before(s, i) <=> Ahead(s, j, i)
    BY <2>1
  <2>3. IsFiniteSet(Before(s, i))
    BY <1>1, <2>2, FS_Subset
  <2> QED
    BY <2>2, <2>3, AheadOrders, FS_CardinalityType DEF Place
<1>3. ASSUME NEW i \in I PROVE Place(s, i) \in 0..(Len(s) - 1)
  <2>1. /\ IsFiniteSet(Before(s, i) \cup {i})
        /\ Cardinality(Before(s, i) \cup {i}) = Place(s, i) + 1
    BY <1>2, FS_AddElement DEF Place
  <2>2. Before(s, i) \cup {i} \in SUBSET I
    BY <1>2
  <2> HIDE DEF I
  <2>3. Cardinality(Before(s, i) \cup {i}) <= Cardinality(I)
    BY <1>1, <2>2, FS_Subset
  <2>4. Place(s, i) \in Nat
    BY <1>2 DEF I
  <2> QED
    BY <1>1, <2>1, <2>3, <2>4
<1>4. ASSUME NEW i \in I, NEW j \in I, Ahead(s, i, j) PROVE Place(s, i) < Place(s, j)
  <2>1. Before(s, i) \in SUBSET Before(s, j)
    <3> SUFFICES ASSUME NEW k \in Before(s, i) PROVE k \in Before(s, j)
      OBVIOUS
    <3>1. k \in I /\ Ahead(s, k, i)
      BY <1>2
    <3>2. Ahead(s, k, j)
      BY <1>4, <3>1, AheadOrders
    <3> QED
      BY <1>2, <3>1, <3>2
  <2>2. i \in Before(s, j) /\ i \notin Before(s, i) /\ IsFiniteSet(Before(s, j))
    BY <1>2, <1>4
  <2>3. /\ Cardinality(Before(s, i)) <= Cardinality(Before(s, j))
        /\ Cardinality(Before(s, i)) # Cardinality(Before(s, j))
    BY <2>1, <2>2, FS_Subset
  <2>4. Place(s, i) \in Nat /\ Place(s, j) \in Nat
    BY <1>2
  <2> QED
    BY <2>3, <2>4 DEF Place
<1>5. ASSUME NEW i \in I, NEW j \in I PROVE Place(s, i) < Place(s, j) <=> Ahead(s, i, j)
  <2>1. Place(s, i) \in Nat /\ Place(s, j) \in Nat
    BY <1>2
  <2>2. Ahead(s, i, j) \/ Ahead(s, j, i) \/ i = j
    BY AheadOrders
  <2>3. Ahead(s, i, j) => Place(s, i) < Place(s, j)
    BY <1>4
  <2>4. Ahead(s, j, i) => Place(s, j) < Place(s, i)
    BY <1>4
  <2> QED
    BY <2>1, <2>2, <2>3, <2>4
<1> QED
  BY <1>3, <1>5

\* Each place in the order is some value's: there are as many places as values.
LEMMA EveryPlaceIsTaken ==
  ASSUME NEW s \in Seq(Value), NEW n \in 1..Len(s)
  PROVE  \E i \in 1..Len(s) : Place(s, i) = n - 1
<1> DEFINE I == 1..Len(s)
           J == 0..(Len(s) - 1)
           f == [i \in I |-> Place(s, i)]
<1>1. Len(s) \in Nat
  OBVIOUS
<1>2. IsFiniteSet(I) /\ Cardinality(I) = Len(s) /\ IsFiniteSet(J) /\ Cardinality(J) = Len(s)
  <2>1. IsFiniteSet(I) /\ Cardinality(I) = Len(s)
    BY Elements
  <2>2. 0 \in Int /\ Len(s) - 1 \in Int
    BY <1>1
  <2>3. /\ IsFiniteSet(J)
        /\ Cardinality(J) = IF 0 > Len(s) - 1 THEN 0 ELSE (Len(s) - 1) - 0 + 1
    BY <2>2, FS_Interval, Zenon
  <2> QED
    BY <1>1, <2>1, <2>3
<1>3. f \in [I -> J]
  BY PlaceInOrder
<1>4. ASSUME NEW i \in I, NEW j \in I, f[i] = f[j] PROVE i = j
  <2>1. Place(s, i) = Place(s, j) /\ Place(s, i) \in 0..(Len(s) - 1)
    BY <1>4, PlaceInOrder
  <2>2. ~(Place(s, i) < Place(s, j)) /\ ~(Place(s, j) < Place(s, i))
    BY <1>1, <2>1
  <2> QED
    BY <2>2, PlaceInOrder, AheadOrders
<1>5. f \in Injection(I, J)
  <2> HIDE DEF f
  <2> QED
    BY <1>3, <1>4 DEF Injection, IsInjective
<1>6. f \in Surjection(I, J)
  <2> HIDE DEF f
  <2> QED
    BY <1>2, <1>5, FS_Injection
<1>7. n - 1 \in J
  BY <1>1
<1>8. \E i \in I : f[i] = n - 1
  <2> HIDE DEF f
  <2> QED
    BY <1>6, <1>7 DEF Surjection
<1> QED
  BY <1>8

\* sort.SliceStable returns the same values, in the order of their words.
LEMMA InOrderLaws ==
  ASSUME NEW s \in Seq(Value)
  PROVE  /\ InOrder(s) \in Seq(Value) /\ Len(InOrder(s)) = Len(s)
         /\ ToSet(InOrder(s)) = ToSet(s)
         /\ \A m, n \in 1..Len(s) : m < n => InOrder(s)[m].word <= InOrder(s)[n].word
         /\ Distinct(s) => Distinct(InOrder(s))
<1> DEFINE I == 1..Len(s)
           At(n) == CHOOSE i \in I : Place(s, i) = n - 1
           r == InOrder(s)
<1>1. Len(s) \in Nat /\ DOMAIN s = I /\ \A i \in I : s[i] \in Value /\ s[i].word \in Int
  BY Elements
<1>2. ASSUME NEW n \in I PROVE At(n) \in I /\ Place(s, At(n)) = n - 1
  <2>1. \E i \in I : Place(s, i) = n - 1
    BY EveryPlaceIsTaken
  <2> QED
    BY <2>1, Zenon
<1>3. r = [n \in I |-> s[At(n)]]
  BY Zenon DEF InOrder, Place, Before
<1> HIDE DEF At, r
<1>4. r \in Seq(Value) /\ Len(r) = Len(s) /\ DOMAIN r = I
  <2>1. \A n \in I : s[At(n)] \in Value
    BY <1>1, <1>2
  <2> QED
    BY <1>1, <1>3, <2>1
<1>5. ToSet(r) = ToSet(s)
  <2>1. ASSUME NEW x \in ToSet(r) PROVE x \in ToSet(s)
    BY <1>1, <1>2, <1>3 DEF ToSet
  <2>2. ASSUME NEW i \in I PROVE s[i] \in ToSet(r)
    <3>1. Place(s, i) \in 0..(Len(s) - 1)
      BY PlaceInOrder
    <3>2. Place(s, i) + 1 \in I /\ (Place(s, i) + 1) - 1 = Place(s, i)
      BY <1>1, <3>1
    <3>3. At(Place(s, i) + 1) \in I /\ Place(s, At(Place(s, i) + 1)) = Place(s, i)
      BY <1>2, <3>2
    <3>4. At(Place(s, i) + 1) = i
      <4> DEFINE k == At(Place(s, i) + 1)
      <4>1. k \in I /\ ~(Place(s, k) < Place(s, i)) /\ ~(Place(s, i) < Place(s, k))
        BY <3>1, <3>3
      <4> HIDE DEF k
      <4>2. k = i
        BY <4>1, PlaceInOrder, AheadOrders
      <4> QED
        BY <4>2 DEF k
    <3>5. r[Place(s, i) + 1] = s[i]
      BY <1>3, <3>2, <3>4
    <3> QED
      BY <1>4, <3>2, <3>5 DEF ToSet
  <2> QED
    BY <1>1, <2>1, <2>2 DEF ToSet
<1>6. ASSUME NEW m \in I, NEW n \in I, m < n PROVE r[m].word <= r[n].word /\ At(m) # At(n)
  <2>1. /\ At(m) \in I /\ At(n) \in I /\ Place(s, At(m)) < Place(s, At(n))
        /\ r[m] = s[At(m)] /\ r[n] = s[At(n)] /\ At(m) # At(n)
    BY <1>1, <1>2, <1>3, <1>6
  <2>2. s[At(m)].word <= s[At(n)].word
    BY <2>1, PlaceInOrder, AheadOrders
  <2> QED
    BY <1>1, <2>1, <2>2
<1>7. ASSUME Distinct(s) PROVE Distinct(r)
  <2> SUFFICES ASSUME NEW m \in I, NEW n \in I, m < n, r[m].word = r[n].word PROVE FALSE
    <3>1. \A m, n \in I : m < n => r[m].word # r[n].word
      OBVIOUS
    <3>2. \A m, n \in I : m < n \/ n < m \/ m = n
      BY <1>1
    <3> QED
      BY <1>4, <3>1, <3>2 DEF Distinct
  <2>1. At(m) \in I /\ At(n) \in I /\ r[m] = s[At(m)] /\ r[n] = s[At(n)] /\ At(m) # At(n)
    BY <1>2, <1>3, <1>6
  <2> QED
    BY <1>7, <2>1 DEF Distinct
<1> QED
  BY <1>4, <1>5, <1>6, <1>7 DEF r

\* A list in the order of words that are told apart is determined by its elements.
LEMMA OneOrder ==
  ASSUME NEW s \in Seq(Value), NEW t \in Seq(Value), ToSet(s) = ToSet(t),
         Distinct(s), Distinct(t),
         \A m, n \in 1..Len(s) : m < n => s[m].word <= s[n].word,
         \A m, n \in 1..Len(t) : m < n => t[m].word <= t[n].word
  PROVE  s = t
<1> DEFINE P == {n \in Nat : n \in 1..Len(s) \cup 1..Len(t) =>
                              n \in 1..Len(s) /\ n \in 1..Len(t) /\ s[n] = t[n]}
           Bad == Nat \ P
<1>1. /\ Len(s) \in Nat /\ DOMAIN s = 1..Len(s) /\ \A i \in 1..Len(s) : s[i].word \in Int
      /\ Len(t) \in Nat /\ DOMAIN t = 1..Len(t) /\ \A i \in 1..Len(t) : t[i].word \in Int
  BY Elements
<1>2. /\ \A m, n \in 1..Len(s) : m < n => s[m].word < s[n].word
      /\ \A m, n \in 1..Len(t) : m < n => t[m].word < t[n].word
  BY <1>1 DEF Distinct
<1>3. ASSUME Bad # {} PROVE FALSE
  <2>1. PICK n \in Bad : \A m \in Bad : n <= m
    <3>1. Bad \in SUBSET Nat
      OBVIOUS
    <3> HIDE DEF Bad
    <3> QED
      BY <1>3, <3>1, LeastNumber
  <2>2. \A m \in Nat : m < n => m \in P
    BY <2>1
  <2>3. \A m \in Nat :
          m < n /\ m > 0 => /\ m \in 1..Len(s) <=> m \in 1..Len(t)
                            /\ m \in 1..Len(s) => s[m] = t[m]
    BY <2>2
  <2>4. CASE n \in 1..Len(s)
    <3>1. PICK j \in 1..Len(t) : t[j] = s[n]
      BY <1>1, <2>4 DEF ToSet
    <3>2. j >= n
      <4> SUFFICES ASSUME j < n PROVE FALSE
        BY <1>1, <2>4
      <4>1. j \in 1..Len(s) /\ s[j] = t[j]
        BY <1>1, <2>3
      <4>2. s[j].word < s[n].word
        BY <1>2, <2>4, <4>1
      <4>3. s[j] = s[n] /\ s[j].word \in Int
        BY <1>1, <3>1, <4>1
      <4> QED
        BY <4>2, <4>3
    <3>3. n \in 1..Len(t)
      BY <1>1, <2>4, <3>2
    <3>4. PICK i \in 1..Len(s) : s[i] = t[n]
      BY <1>1, <3>3 DEF ToSet
    <3>5. i >= n
      <4> SUFFICES ASSUME i < n PROVE FALSE
        BY <1>1, <2>4
      <4>1. i \in 1..Len(t) /\ s[i] = t[i]
        BY <1>1, <2>3
      <4>2. t[i].word < t[n].word
        BY <1>2, <3>3, <4>1
      <4>3. t[i] = t[n] /\ t[i].word \in Int
        BY <1>1, <3>4, <4>1
      <4> QED
        BY <4>2, <4>3
    <3>6. j = n
      <4>1. j > n => t[n].word < t[j].word
        BY <1>2, <3>3
      <4>2. i > n => s[n].word < s[i].word
        BY <1>2, <2>4
      <4> QED
        BY <1>1, <2>4, <3>1, <3>2, <3>3, <3>4, <3>5, <4>1, <4>2
    <3> QED
      BY <2>1, <2>4, <3>1, <3>3, <3>6
  <2>5. CASE n \in 1..Len(t) /\ n \notin 1..Len(s)
    <3>1. PICK i \in 1..Len(s) : s[i] = t[n]
      BY <1>1, <2>5 DEF ToSet
    <3>2. i < n
      BY <1>1, <2>5
    <3>3. i \in 1..Len(t) /\ s[i] = t[i]
      BY <1>1, <2>3, <3>2
    <3>4. t[i].word < t[n].word
      BY <1>2, <2>5, <3>2, <3>3
    <3>5. t[i] = t[n] /\ t[i].word \in Int
      BY <1>1, <3>1, <3>3
    <3> QED
      BY <3>4, <3>5
  <2>6. CASE n \notin 1..Len(s) \cup 1..Len(t)
    BY <2>1, <2>6
  <2> QED
    BY <2>4, <2>5, <2>6
<1>4. \A n \in Nat : n \in P
  BY <1>3
<1>5. Len(s) = Len(t)
  <2>1. Len(s) \in 1..Len(s) => Len(s) \in 1..Len(t)
    BY <1>1, <1>4
  <2>2. Len(t) \in 1..Len(t) => Len(t) \in 1..Len(s)
    BY <1>1, <1>4
  <2>3. Len(s) = 0 \/ Len(s) \in 1..Len(s)
    BY <1>1
  <2>4. Len(t) = 0 \/ Len(t) \in 1..Len(t)
    BY <1>1
  <2>5. Len(s) <= Len(t)
    BY <1>1, <2>1, <2>3
  <2>6. Len(t) <= Len(s)
    BY <1>1, <2>2, <2>4
  <2>7. Len(s) \in Int /\ Len(t) \in Int
    BY <1>1
  <2> QED
    BY <2>5, <2>6, <2>7
<1>6. \A n \in 1..Len(s) : s[n] = t[n]
  BY <1>1, <1>4
<1> QED
  BY <1>1, <1>5, <1>6

-----------------------------------------------------------------------------
(* MultiString.Clean. *)

\* Clean returns each word selected, once and as it was first spelled, in order.
LEMMA CleanLaws ==
  ASSUME NEW s \in Seq(Value)
  PROVE  /\ Clean(s) \in Seq(Value) /\ Distinct(Clean(s)) /\ Cleaned(Clean(s))
         /\ ToSet(Clean(s)) \subseteq SpelledIn(s)
         /\ \A u \in SpelledIn(s) : \E v \in ToSet(Clean(s)) : v.word = u.word
         /\ \A m, n \in 1..Len(Clean(s)) : m < n => Clean(s)[m].word <= Clean(s)[n].word
<1> DEFINE f == FirstSpellings(s)
           c == Clean(s)
<1>1. f \in Seq(Value) /\ KeepsFirst(s)
  BY FirstSpellingsLaws, FirstSpellingsKeep
<1>2. c = InOrder(f)
  BY DEF Clean
<1>3. /\ Distinct(f) /\ \A i \in 1..Len(f) : f[i] \in SpelledIn(s)
      /\ \A u \in SpelledIn(s) : \E i \in 1..Len(f) : f[i].word = u.word
  BY <1>1 DEF KeepsFirst
<1> HIDE DEF f, c
<1>4. /\ c \in Seq(Value) /\ Len(c) = Len(f) /\ ToSet(c) = ToSet(f)
      /\ \A m, n \in 1..Len(f) : m < n => c[m].word <= c[n].word
      /\ Distinct(f) => Distinct(c)
  BY <1>1, <1>2, InOrderLaws
<1>5. ToSet(c) \subseteq SpelledIn(s)
  <2>1. DOMAIN f = 1..Len(f)
    BY <1>1, Elements
  <2> QED
    BY <1>3, <1>4, <2>1 DEF ToSet
<1>6. \A u \in SpelledIn(s) : \E v \in ToSet(c) : v.word = u.word
  <2>1. DOMAIN f = 1..Len(f)
    BY <1>1, Elements
  <2> QED
    BY <1>3, <1>4, <2>1 DEF ToSet
<1>7. Cleaned(c)
  <2>1. ASSUME NEW u \in SpelledIn(s) PROVE ~u.padded /\ ~isSemuaOrEmpty(u)
    <3>1. PICK v \in ToSet(s) : ~isSemuaOrEmpty(v) /\ u = TrimSpace(v)
      BY DEF SpelledIn
    <3>2. v \in Value
      BY <3>1, Elements DEF ToSet
    <3>3. u.word = v.word /\ u.padded = FALSE
      BY <3>1, <3>2 DEF TrimSpace, Value
    <3> QED
      BY <3>1, <3>3 DEF isSemuaOrEmpty
  <2>2. \A i \in 1..Len(c) : c[i] \in SpelledIn(s)
    <3>1. DOMAIN c = 1..Len(c)
      BY <1>4, Elements
    <3> QED
      BY <1>5, <3>1 DEF ToSet
  <2> QED
    BY <2>1, <2>2 DEF Cleaned
<1> QED
  BY <1>3, <1>4, <1>5, <1>6, <1>7 DEF c

\* The loader's second cleaning changes nothing (cleanMulti of Clean).
LEMMA CleanTwice ==
  ASSUME NEW s \in Seq(Value)
  PROVE  cleanMulti(Clean(s)) = Clean(s)
  BY CleanLaws, cleanMultiKeeps

\* No word is spelled in two ways.
OneSpelling(s) == \A u, v \in SpelledIn(s) : u.word = v.word => u = v

\* When no word is spelled in two ways, Clean keeps all there is.
LEMMA CleanIsAllWords ==
  ASSUME NEW s \in Seq(Value), OneSpelling(s)
  PROVE  ToSet(Clean(s)) = SpelledIn(s)
<1>1. ASSUME NEW u \in SpelledIn(s) PROVE u \in ToSet(Clean(s))
  <2>1. PICK v \in ToSet(Clean(s)) : v.word = u.word
    BY CleanLaws
  <2>2. v \in SpelledIn(s)
    BY CleanLaws
  <2> QED
    BY <2>1, <2>2 DEF OneSpelling
<1> QED
  BY <1>1, CleanLaws

\* Two lists that select the same words, spelled alike, are cleaned to one list.
LEMMA SameSpellings ==
  ASSUME NEW s \in Seq(Value), NEW t \in Seq(Value), OneSpelling(s),
         SpelledIn(s) = SpelledIn(t)
  PROVE  Clean(s) = Clean(t)
<1>1. OneSpelling(t)
  BY DEF OneSpelling
<1>2. ToSet(Clean(s)) = ToSet(Clean(t))
  BY <1>1, CleanIsAllWords
<1> DEFINE c == Clean(s)
           d == Clean(t)
<1>3. /\ c \in Seq(Value) /\ Distinct(c)
      /\ \A m, n \in 1..Len(c) : m < n => c[m].word <= c[n].word
  BY CleanLaws
<1>4. /\ d \in Seq(Value) /\ Distinct(d)
      /\ \A m, n \in 1..Len(d) : m < n => d[m].word <= d[n].word
  BY CleanLaws
<1>5. ToSet(c) = ToSet(d)
  BY <1>2
<1> HIDE DEF c, d
<1>6. c = d
  BY <1>3, <1>4, <1>5, OneOrder
<1> QED
  BY <1>6 DEF c, d

\* A list and its reverse have the same values.
LEMMA ReverseElements ==
  ASSUME NEW s \in Seq(Value)
  PROVE  Reverse(s) \in Seq(Value) /\ ToSet(Reverse(s)) = ToSet(s)
<1> DEFINE r == Reverse(s)
<1>1. /\ Len(s) \in Nat /\ DOMAIN s = 1..Len(s) /\ \A i \in 1..Len(s) : s[i] \in Value
  BY Elements
<1>2. \A i \in 1..Len(s) : (Len(s) - i) + 1 \in 1..Len(s)
  BY <1>1
<1>3. r = [i \in 1..Len(s) |-> s[(Len(s) - i) + 1]]
  BY DEF Reverse
<1> HIDE DEF r
<1>4. r \in Seq(Value) /\ DOMAIN r = 1..Len(s)
  BY <1>1, <1>2, <1>3
<1>5. ASSUME NEW x \in ToSet(r) PROVE x \in ToSet(s)
  BY <1>1, <1>2, <1>3 DEF ToSet
<1>6. ASSUME NEW i \in 1..Len(s) PROVE s[i] \in ToSet(r)
  <2>1. (Len(s) - ((Len(s) - i) + 1)) + 1 = i
    BY <1>1
  <2>2. r[(Len(s) - i) + 1] = s[i]
    BY <1>2, <1>3, <2>1
  <2> QED
    BY <1>2, <1>4, <2>2 DEF ToSet
<1> QED
  BY <1>1, <1>4, <1>5, <1>6 DEF ToSet, r

\* A value put in front is one more value.
LEMMA FrontElements ==
  ASSUME NEW s \in Seq(Value), NEW v \in Value
  PROVE  <<v>> \o s \in Seq(Value) /\ ToSet(<<v>> \o s) = ToSet(s) \cup {v}
<1> DEFINE r == <<v>> \o s
<1>1. Len(s) \in Nat /\ DOMAIN s = 1..Len(s)
  BY Elements
<1>2. /\ r \in Seq(Value) /\ DOMAIN r = 1..(Len(s) + 1) /\ r[1] = v
      /\ \A i \in 1..Len(s) : r[i + 1] = s[i]
  OBVIOUS
<1> HIDE DEF r
<1>3. ASSUME NEW x \in ToSet(r) PROVE x \in ToSet(s) \cup {v}
  <2>1. PICK i \in 1..(Len(s) + 1) : x = r[i]
    BY <1>2 DEF ToSet
  <2>2. CASE i = 1
    BY <1>2, <2>1, <2>2
  <2>3. CASE i # 1
    <3>1. i - 1 \in 1..Len(s) /\ (i - 1) + 1 = i
      BY <1>1, <2>3
    <3>2. x = s[i - 1]
      BY <1>2, <2>1, <3>1
    <3> QED
      BY <1>1, <3>1, <3>2 DEF ToSet
  <2> QED
    BY <2>2, <2>3
<1>4. ASSUME NEW i \in 1..Len(s) PROVE s[i] \in ToSet(r)
  <2>1. i + 1 \in DOMAIN r
    BY <1>1, <1>2
  <2> QED
    BY <1>2, <2>1 DEF ToSet
<1>5. v \in ToSet(r)
  <2>1. 1 \in DOMAIN r
    BY <1>1, <1>2
  <2> QED
    BY <1>2, <2>1 DEF ToSet
<1>6. ToSet(r) = ToSet(s) \cup {v}
  BY <1>1, <1>3, <1>4, <1>5 DEF ToSet
<1> QED
  BY <1>2, <1>6 DEF r

\* What a request can send is a value.
LEMMA ValuesAreValues == Values \subseteq Value
<1>1. Ranks \subseteq Int /\ Blank \in Int /\ Semua \in Int
  <2>1. Ranks \subseteq Nat \ {0}
    BY FilterAssumption
  <2> QED
    BY <2>1 DEF Blank, Semua
<1>2. ASSUME NEW w \in {Blank, Semua}
      PROVE  [word |-> w, caps |-> TRUE, padded |-> TRUE] \in Value
  BY <1>1 DEF Value
<1>3. [word : Ranks, caps : BOOLEAN, padded : BOOLEAN] \subseteq Value
  BY <1>1 DEF Value
<1> QED
  BY <1>2, <1>3 DEF Values

\* So is each of the values sent.
LEMMA SentValues == sent \in Seq(Values) => sent \in Seq(Value)
  BY ValuesAreValues

\* SameWordsSameKey holds of any list of values: what is sent in another order, more
\* often, or beside what selects nothing, has the same spellings.
LEMMA SameWords ==
  ASSUME sent \in Seq(Values)
  PROVE  SameWordsSameKey
<1>1. sent \in Seq(Value)
  BY SentValues
<1>2. Spelled = SpelledIn(sent)
  BY DEF Spelled, SpelledIn
<1>3. {v.word : v \in ToSet(Clean(sent))} = {v.word : v \in Spelled}
  <2>1. ToSet(Clean(sent)) \subseteq SpelledIn(sent)
    BY <1>1, CleanLaws
  <2>2. \A u \in SpelledIn(sent) : \E v \in ToSet(Clean(sent)) : v.word = u.word
    BY <1>1, CleanLaws
  <2> QED
    BY <1>2, <2>1, <2>2
<1>4. ASSUME \A u, v \in Spelled : u.word = v.word => u = v
      PROVE  /\ Clean(Reverse(sent)) = Clean(sent)
             /\ \A v \in Values : TrimSpace(v) \in Spelled \/ isSemuaOrEmpty(v) =>
                  Clean(Append(sent, v)) = Clean(sent) /\ Clean(<<v>> \o sent) = Clean(sent)
  <2>1. OneSpelling(sent)
    BY <1>2, <1>4 DEF OneSpelling
  <2>2. \A t \in Seq(Value) : SpelledIn(t) = SpelledIn(sent) => Clean(t) = Clean(sent)
    BY <1>1, <2>1, SameSpellings
  <2>3. Clean(Reverse(sent)) = Clean(sent)
    <3>1. Reverse(sent) \in Seq(Value) /\ ToSet(Reverse(sent)) = ToSet(sent)
      BY <1>1, ReverseElements
    <3>2. SpelledIn(Reverse(sent)) = SpelledIn(sent)
      BY <3>1 DEF SpelledIn
    <3> QED
      BY <2>2, <3>1, <3>2
  <2>4. ASSUME NEW v \in Values, TrimSpace(v) \in Spelled \/ isSemuaOrEmpty(v)
        PROVE  Clean(Append(sent, v)) = Clean(sent) /\ Clean(<<v>> \o sent) = Clean(sent)
    <3>1. v \in Value
      BY ValuesAreValues
    <3>2. ASSUME NEW t \in Seq(Value), ToSet(t) = ToSet(sent) \cup {v}
          PROVE  SpelledIn(t) = SpelledIn(sent)
      <4>1. SpelledIn(t) = SpelledIn(sent) \cup (IF isSemuaOrEmpty(v) THEN {} ELSE {TrimSpace(v)})
        BY <3>2 DEF SpelledIn
      <4> QED
        BY <1>2, <2>4, <4>1
    <3>3. Append(sent, v) \in Seq(Value) /\ ToSet(Append(sent, v)) = ToSet(sent) \cup {v}
      BY <1>1, <3>1, AppendElements
    <3>4. <<v>> \o sent \in Seq(Value) /\ ToSet(<<v>> \o sent) = ToSet(sent) \cup {v}
      BY <1>1, <3>1, FrontElements
    <3> QED
      BY <2>2, <3>2, <3>3, <3>4
  <2> QED
    BY <2>3, <2>4
<1> QED
  BY <1>3, <1>4 DEF SameWordsSameKey

-----------------------------------------------------------------------------
(* Lists joined. *)

\* The lists, one behind the other.
Joined(lists) == FoldLeft(LAMBDA list, next : list \o next, <<>>, lists)

\* Joining is a left fold that takes lists of lists to lists.
LEMMA JoinedIsLeft ==
  ASSUME NEW B, NEW s \in Seq(Seq(B))
  PROVE  Joined(s) = Left([p \in Seq(B) \X Seq(B) |-> p[1] \o p[2]], <<>>, s)
<1> DEFINE A == Seq(B)
           step == [p \in A \X A |-> p[1] \o p[2]]
           Body(G) == G = [t \in SUBSET DOMAIN s |->
             IF t = {} THEN <<>> ELSE G[t \ {Max(t)}] \o s[Max(t)]]
           C == CHOOSE G : Body(G)
<1>1. Joined(s) = C[DOMAIN s]
  BY Zenon DEF Joined, FoldLeft, MapThenFoldSet
<1>2. Folding(step, <<>>, A, A)
  BY DEF Folding
<1>3. \A a \in A, b \in A : step[<<a, b>>] = a \o b
  OBVIOUS
<1>4. DOMAIN s = 1..Len(s) /\ Len(s) \in Nat /\ \A k \in 1..Len(s) : s[k] \in A
  OBVIOUS
<1>11. s \in Seq(A)
  OBVIOUS
<1> HIDE DEF A, step
<1>5. PICK F \in [SUBSET DOMAIN s -> A] : IsLeft(F, step, <<>>, s)
  BY <1>2, <1>11, LeftExists
<1>6. ASSUME NEW t \in SUBSET DOMAIN s, t # {}
      PROVE  step[<<F[t \ {Max(t)}], s[Max(t)]>>] = F[t \ {Max(t)}] \o s[Max(t)]
  <2>1. s[Max(t)] \in A /\ t \ {Max(t)} \in SUBSET DOMAIN s
    BY <1>6, <1>11, LastValue
  <2> QED
    BY <1>3, <1>5, <2>1
<1>7. Body(F)
  BY <1>5, <1>6, Zenon DEF IsLeft
<1>8. Body(C)
  BY <1>7, Zenon
<1> HIDE DEF C
<1>9. TypedSteps(C, step, <<>>, s, A)
  <2>1. C[{}] = <<>>
    BY <1>8
  <2>2. ASSUME NEW k \in 1..Len(s), C[1..(k - 1)] \in A
        PROVE  C[1..k] = step[<<C[1..(k - 1)], s[k]>>]
    <3>1. 1..k \in SUBSET DOMAIN s /\ 1..k # {} /\ Max(1..k) = k /\ (1..k) \ {k} = 1..(k - 1)
      BY <1>4, Prefix
    <3>2. C[1..k] = C[(1..k) \ {Max(1..k)}] \o s[Max(1..k)]
      BY <1>8, <3>1, Zenon
    <3>3. C[1..k] = C[1..(k - 1)] \o s[k]
      BY <3>1, <3>2, Zenon
    <3>4. s[k] \in A
      BY <1>4
    <3> QED
      BY <1>3, <2>2, <3>3, <3>4, Zenon
  <2> QED
    BY <2>1, <2>2, Zenon DEF TypedSteps
<1>10. C[DOMAIN s] = Left(step, <<>>, s)
  BY <1>2, <1>9, <1>11, TypedIsLeft
<1> QED
  BY <1>1, <1>10 DEF step, A

\* What is joined of nothing, and of one more list.
LEMMA JoinedLaws ==
  ASSUME NEW B
  PROVE  /\ Joined(<<>>) = <<>>
         /\ \A s \in Seq(Seq(B)) : Joined(s) \in Seq(B)
         /\ \A s \in Seq(Seq(B)), e \in Seq(B) : Joined(Append(s, e)) = Joined(s) \o e
<1> DEFINE A == Seq(B)
           step == [p \in A \X A |-> p[1] \o p[2]]
<1>1. Folding(step, <<>>, A, A)
  BY DEF Folding
<1>2. \A a \in A, b \in A : step[<<a, b>>] = a \o b
  OBVIOUS
<1>3. \A s \in Seq(A) : Joined(s) = Left(step, <<>>, s)
  BY JoinedIsLeft
<1>4. <<>> \in Seq(A) /\ \A s \in Seq(A), e \in A : Append(s, e) \in Seq(A)
  OBVIOUS
<1> HIDE DEF step, A
<1>5. /\ Left(step, <<>>, <<>>) = <<>>
      /\ \A s \in Seq(A) : Left(step, <<>>, s) \in A
      /\ \A s \in Seq(A), e \in A :
           Left(step, <<>>, Append(s, e)) = step[<<Left(step, <<>>, s), e>>]
  BY <1>1, LeftLaws
<1>6. Joined(<<>>) = <<>>
  BY <1>3, <1>4, <1>5
<1>7. \A s \in Seq(A) : Joined(s) \in A
  BY <1>3, <1>5
<1>8. ASSUME NEW s \in Seq(A), NEW e \in A PROVE Joined(Append(s, e)) = Joined(s) \o e
  <2>1. Joined(Append(s, e)) = step[<<Joined(s), e>>]
    BY <1>3, <1>4, <1>5
  <2> QED
    BY <1>2, <1>7, <2>1
<1> QED
  BY <1>6, <1>7, <1>8, Zenon DEF A

\* What a placeholder and an argument are: the names of the columns and two more.
Names == STRING \cup {"own", "search"}
Placeholder == [number : Int, column : Names]
Arg == [column : Names, word : Int]

\* Types, how far the key has come, and that only callers that may search do.
FilterTypes ==
  /\ caller \in Callers
  /\ at \in Nat \ {0} /\ at <= Len(Columns) + 2 /\ (at > Len(Columns) + 1 => caller.search)
  /\ sent \in Seq(Values)
  /\ key \in Seq(Seq(Value))
  /\ Len(key) = IF at > Len(Columns) THEN Len(Columns) ELSE at - 1
  /\ counter \in Int
  /\ text \in Seq(Placeholder) /\ args \in Seq(Arg)

\* Text and list grow together: the n-th placeholder names the n-th argument
\* behind the caller's own, and the counter the next.
Numbered ==
  /\ Len(args) = caller.fixed + Len(text)
  /\ at <= Len(Columns) + 1 => counter = Len(args) + 1
  /\ \A i \in 1..Len(text) :
       text[i].number = caller.fixed + i /\ args[caller.fixed + i].column = text[i].column

FilterInv == FilterTypes /\ Numbered /\ KeyIsTheQuery

\* What FilterAssumption says of the columns and of each caller.
LEMMA CallersStartBehind ==
  /\ Len(Columns) \in Nat /\ \A i \in 1..Len(Columns) : Columns[i] \in Names
  /\ \A c \in Callers : /\ c.fixed \in Nat /\ c.own \in STRING /\ c.start = c.fixed + 1
                        /\ c.search => c.fixed = 2
  BY FilterAssumption DEF Names

-----------------------------------------------------------------------------
(* The invariant. *)

\* What a column adds to the arguments and to the text, given its words.
Added(column, words) == [i \in 1..Len(words) |-> [column |-> column, word |-> words[i].word]]
Named(column, first, words) ==
  [i \in 1..Len(words) |-> [number |-> first + i - 1, column |-> column]]

\* The lists of a key, as they are found among the arguments.
KeyArgs(own, lists) ==
  [c \in 1..Len(lists) |-> IF Columns[c] = own THEN <<>> ELSE Added(Columns[c], lists[c])]

\* The arguments of a column.
LEMMA AddedType ==
  ASSUME NEW words \in Seq(Value), NEW column \in Names
  PROVE  /\ Added(column, words) \in Seq(Arg) /\ Len(Added(column, words)) = Len(words)
         /\ \A i \in 1..Len(words) : Added(column, words)[i].column = column
<1>1. Len(words) \in Nat /\ \A i \in 1..Len(words) : words[i].word \in Int
  BY Elements
<1>2. Added(column, words) \in Seq(Arg) /\ Len(Added(column, words)) = Len(words)
  BY <1>1 DEF Added, Arg
<1>3. \A i \in 1..Len(words) : Added(column, words)[i].column = column
  BY DEF Added
<1> QED
  BY <1>2, <1>3

\* The placeholders of a column.
LEMMA NamedType ==
  ASSUME NEW words \in Seq(Value), NEW column \in Names, NEW first \in Int
  PROVE  /\ Named(column, first, words) \in Seq(Placeholder)
         /\ Len(Named(column, first, words)) = Len(words)
         /\ \A i \in 1..Len(words) : /\ Named(column, first, words)[i].number = first + i - 1
                                     /\ Named(column, first, words)[i].column = column
<1>1. Len(words) \in Nat /\ \A i \in 1..Len(words) : first + i - 1 \in Int
  OBVIOUS
<1>2. Named(column, first, words) \in Seq(Placeholder) /\ Len(Named(column, first, words)) = Len(words)
  BY <1>1 DEF Named, Placeholder
<1>3. \A i \in 1..Len(words) : /\ Named(column, first, words)[i].number = first + i - 1
                               /\ Named(column, first, words)[i].column = column
  BY DEF Named
<1> QED
  BY <1>2, <1>3

\* The lists of arguments of a key.
LEMMA KeyArgsType ==
  ASSUME NEW own, NEW lists \in Seq(Seq(Value)), Len(lists) <= Len(Columns)
  PROVE  KeyArgs(own, lists) \in Seq(Seq(Arg)) /\ Len(KeyArgs(own, lists)) = Len(lists)
<1>1. Len(lists) \in Nat /\ \A c \in 1..Len(lists) : lists[c] \in Seq(Value)
  OBVIOUS
<1>2. ASSUME NEW c \in 1..Len(lists)
      PROVE  (IF Columns[c] = own THEN <<>> ELSE Added(Columns[c], lists[c])) \in Seq(Arg)
  <2>1. Columns[c] \in Names /\ lists[c] \in Seq(Value)
    BY <1>1, CallersStartBehind
  <2>2. Added(Columns[c], lists[c]) \in Seq(Arg)
    BY <2>1, AddedType
  <2> QED
    BY <2>2
<1> QED
  BY <1>1, <1>2 DEF KeyArgs

\* One more column in the key is one more list of arguments.
LEMMA KeyArgsAppend ==
  ASSUME NEW own, NEW lists \in Seq(Seq(Value)), NEW list \in Seq(Value),
         Len(lists) + 1 <= Len(Columns)
  PROVE  KeyArgs(own, Append(lists, list)) =
           Append(KeyArgs(own, lists),
                  IF Columns[Len(lists) + 1] = own THEN <<>>
                  ELSE Added(Columns[Len(lists) + 1], list))
<1> DEFINE n == Len(lists)
           long == Append(lists, list)
           last == IF Columns[n + 1] = own THEN <<>> ELSE Added(Columns[n + 1], list)
           a == KeyArgs(own, lists)
           b == KeyArgs(own, long)
<1>1. n \in Nat /\ Len(Columns) \in Nat
  BY CallersStartBehind
<1>2. /\ long \in Seq(Seq(Value)) /\ Len(long) = n + 1 /\ long[n + 1] = list
      /\ \A c \in 1..n : long[c] = lists[c]
  OBVIOUS
<1>3. a \in Seq(Seq(Arg)) /\ Len(a) = n
  BY <1>1, KeyArgsType
<1>4. b \in Seq(Seq(Arg)) /\ Len(b) = n + 1
  BY <1>1, <1>2, KeyArgsType
<1>5. \A c \in 1..n : b[c] = a[c]
  <2> SUFFICES ASSUME NEW c \in 1..n PROVE b[c] = a[c]
    OBVIOUS
  <2>1. c \in 1..(n + 1) /\ long[c] = lists[c]
    BY <1>1, <1>2
  <2> HIDE DEF long
  <2> QED
    BY <1>2, <2>1 DEF KeyArgs
<1>6. b[n + 1] = last
  <2>1. n + 1 \in 1..(n + 1)
    BY <1>1
  <2> HIDE DEF long
  <2> QED
    BY <1>2, <2>1 DEF KeyArgs
<1>7. last \in Seq(Arg)
  <2>1. b[n + 1] \in Seq(Arg)
    <3> HIDE DEF b
    <3> QED
      BY <1>1, <1>4
  <2> QED
    BY <1>6, <2>1
<1> HIDE DEF a, b, last
<1>8. /\ Append(a, last) \in Seq(Seq(Arg)) /\ Len(Append(a, last)) = n + 1
      /\ Append(a, last)[n + 1] = last /\ \A c \in 1..n : Append(a, last)[c] = a[c]
  BY <1>3, <1>7
<1>9. b = Append(a, last)
  <2>1. \A c \in 1..(n + 1) : b[c] = Append(a, last)[c]
    BY <1>1, <1>5, <1>6, <1>8
  <2> DEFINE r == Append(a, last)
  <2>2. r \in Seq(Seq(Arg)) /\ Len(r) = n + 1 /\ \A c \in 1..(n + 1) : b[c] = r[c]
    BY <1>8, <2>1
  <2> HIDE DEF r
  <2>3. b = r
    BY <1>4, <2>2
  <2> QED
    BY <2>3 DEF r
<1> QED
  BY <1>9 DEF a, b, last

\* What KeyIsTheQuery says of a caller c, a column n, a key k and arguments a.
Matches(c, n, k, a) ==
  SubSeq(a, c.fixed + 1, Len(a) - (IF n > Len(Columns) + 1 THEN 1 ELSE 0))
    = Joined(KeyArgs(c.own, k))

\* KeyIsTheQuery, said of the four variables it reads.
LEMMA Restated == KeyIsTheQuery <=> Matches(caller, at, key, args)
  BY Zenon DEF KeyIsTheQuery, InKey, KeyArgs, Added, Joined, Matches

\* The invariant holds before the first column.
LEMMA FilterInvInit == Init => FilterInv
<1> SUFFICES ASSUME Init PROVE FilterInv
  OBVIOUS
<1>1. /\ caller \in Callers /\ caller.fixed \in Nat /\ caller.own \in STRING
      /\ caller.start = caller.fixed + 1 /\ Len(Columns) \in Nat
  BY CallersStartBehind DEF Init
<1>2. args \in Seq(Arg) /\ Len(args) = caller.fixed
  <2>1. Fixed \in Arg
    <3>1. "own" \in Names /\ Blank \in Int
      BY DEF Blank, Names
    <3> QED
      BY <3>1 DEF Fixed, Arg
  <2> QED
    BY <1>1, <2>1 DEF Init
<1>3. text \in Seq(Placeholder) /\ Len(text) = 0 /\ sent \in Seq(Values) /\ key \in Seq(Seq(Value)) /\ Len(key) = 0
  BY DEF Init
<1>4. FilterTypes
  BY <1>1, <1>2, <1>3 DEF FilterTypes, Init
<1>5. Numbered
  BY <1>1, <1>2, <1>3 DEF Numbered, Init
<1>6. KeyIsTheQuery
  <2>1. KeyArgs(caller.own, key) = <<>>
    BY DEF KeyArgs, Init
  <2>2. Joined(<<>>) = <<>>
    BY JoinedLaws
  <2>3. SubSeq(args, caller.fixed + 1, Len(args) - 0) = <<>>
    BY <1>1, <1>2
  <2>4. ~(at > Len(Columns) + 1)
    BY <1>1 DEF Init
  <2> QED
    BY <2>1, <2>2, <2>3, <2>4, Restated DEF Matches
<1> QED
  BY <1>4, <1>5, <1>6 DEF FilterInv

\* Every step keeps it: a column that is skipped adds an empty list to the key, one
\* that is added brings as many placeholders as arguments, each one behind the last.
LEMMA FilterInvStep == FilterInv /\ [Next]_vars => FilterInv'
<1> SUFFICES ASSUME FilterInv, [Next]_vars PROVE FilterInv'
  OBVIOUS
<1>0. (KeyIsTheQuery <=> Matches(caller, at, key, args))'
  BY Restated, PTL
<1>1. /\ caller \in Callers /\ at \in Nat \ {0} /\ at <= Len(Columns) + 2
      /\ sent \in Seq(Values) /\ key \in Seq(Seq(Value)) /\ Len(key) \in Nat
      /\ Len(key) = IF at > Len(Columns) THEN Len(Columns) ELSE at - 1
      /\ text \in Seq(Placeholder) /\ args \in Seq(Arg)
      /\ Len(text) \in Nat /\ Len(args) \in Nat
  BY DEF FilterInv, FilterTypes
<1>2. /\ Len(args) = caller.fixed + Len(text)
      /\ at <= Len(Columns) + 1 => counter = Len(args) + 1
      /\ \A i \in 1..Len(text) :
           /\ text[i].number = caller.fixed + i
           /\ args[caller.fixed + i].column = text[i].column
  BY DEF FilterInv, Numbered
<1>3. Matches(caller, at, key, args)
  BY Restated DEF FilterInv
<1>4. /\ caller.fixed \in Nat /\ caller.own \in STRING /\ (caller.search => caller.fixed = 2)
      /\ Len(Columns) \in Nat
  BY <1>1, CallersStartBehind
<1>5. sent \in Seq(Value) /\ Clean(sent) \in Seq(Value) /\ cleanMulti(Clean(sent)) = Clean(sent)
  BY <1>1, SentValues, CleanLaws, CleanTwice
<1>6. ASSUME NEW v \in Values, Send(v) PROVE FilterInv'
  <2>1. sent' \in Seq(Values) /\ UNCHANGED <<caller, at, key, counter, text, args>>
    BY <1>1, <1>6 DEF Send
  <2>2. FilterTypes' /\ Numbered'
    BY <2>1 DEF FilterInv, FilterTypes, Numbered
  <2> QED
    BY <1>0, <1>3, <2>1, <2>2 DEF FilterInv
<1>7. CASE Skip
  <2>1. /\ at <= Len(Columns) /\ at' = at + 1 /\ sent' = <<>> /\ key' = Append(key, Clean(sent))
        /\ UNCHANGED <<caller, counter, text, args>>
        /\ Clean(sent) = <<>> \/ Columns[at] = caller.own
    BY <1>5, <1>7 DEF Skip
  <2>2. key' \in Seq(Seq(Value)) /\ Len(key') = Len(key) + 1 /\ sent' \in Seq(Values)
    BY <1>1, <1>5, <2>1
  <2>3. FilterTypes'
    BY <1>1, <1>4, <2>1, <2>2 DEF FilterInv, FilterTypes
  <2>4. Numbered'
    BY <1>1, <1>2, <1>4, <2>1 DEF Numbered
  <2>5. Joined(KeyArgs(caller.own, key')) = Joined(KeyArgs(caller.own, key))
    <3>1. KeyArgs(caller.own, key') = Append(KeyArgs(caller.own, key), <<>>)
      <4>1. Clean(sent) = <<>> => Added(Columns[at], Clean(sent)) = <<>>
        BY DEF Added
      <4>2. Len(key) + 1 = at
        BY <1>1, <2>1
      <4>3. KeyArgs(caller.own, key') =
              Append(KeyArgs(caller.own, key),
                     IF Columns[at] = caller.own THEN <<>> ELSE Added(Columns[at], Clean(sent)))
        BY <1>1, <1>5, <2>1, <4>2, KeyArgsAppend
      <4> QED
        BY <2>1, <4>1, <4>3
    <3>2. KeyArgs(caller.own, key) \in Seq(Seq(Arg)) /\ <<>> \in Seq(Arg)
      BY <1>1, <1>4, <2>1, KeyArgsType
    <3>3. /\ Joined(KeyArgs(caller.own, key)) \in Seq(Arg)
          /\ Joined(KeyArgs(caller.own, key')) = Joined(KeyArgs(caller.own, key)) \o <<>>
      BY <3>1, <3>2, JoinedLaws
    <3> QED
      BY <3>3
  <2>6. ~(at > Len(Columns) + 1) /\ ~(at' > Len(Columns) + 1)
    BY <1>1, <1>4, <2>1
  <2>7. Matches(caller, at', key', args)
    BY <1>3, <2>5, <2>6 DEF Matches
  <2> QED
    BY <1>0, <2>1, <2>3, <2>4, <2>7 DEF FilterInv
<1>8. CASE Add
  <2> DEFINE words == Clean(sent)
             column == Columns[at]
             more == Added(column, words)
             names == Named(column, counter, words)
  <2>1. /\ at <= Len(Columns) /\ at' = at + 1 /\ sent' = <<>> /\ key' = Append(key, words)
        /\ column # caller.own /\ caller' = caller
        /\ text' = text \o names /\ args' = args \o more /\ counter' = counter + Len(words)
    BY <1>5, <1>8 DEF Add, Added, Named
  <2>2. /\ words \in Seq(Value) /\ Len(words) \in Nat /\ column \in Names /\ counter \in Int
        /\ counter = Len(args) + 1
    BY <1>1, <1>2, <1>4, <1>5, <2>1, CallersStartBehind DEF FilterInv, FilterTypes
  <2> HIDE DEF words, column
  <2>3. /\ more \in Seq(Arg) /\ Len(more) = Len(words)
        /\ \A i \in 1..Len(words) : more[i].column = column
    BY <2>2, AddedType
  <2>4. /\ names \in Seq(Placeholder) /\ Len(names) = Len(words)
        /\ \A i \in 1..Len(words) : names[i].number = counter + i - 1 /\ names[i].column = column
    BY <2>2, NamedType
  <2> HIDE DEF more, names
  <2>5. /\ args' \in Seq(Arg) /\ Len(args') = Len(args) + Len(words)
        /\ \A i \in 1..Len(args) : args'[i] = args[i]
        /\ \A i \in 1..Len(words) : args'[Len(args) + i] = more[i]
    <3>1. args \in Seq(Arg) /\ more \in Seq(Arg)
      BY <1>1, <2>3
    <3>2. /\ args \o more \in Seq(Arg) /\ Len(args \o more) = Len(args) + Len(more)
          /\ \A i \in 1..Len(args) : (args \o more)[i] = args[i]
          /\ \A i \in 1..Len(more) : (args \o more)[Len(args) + i] = more[i]
      BY <3>1, Longer
    <3> QED
      BY <2>1, <2>3, <3>2
  <2>6. /\ text' \in Seq(Placeholder) /\ Len(text') = Len(text) + Len(words)
        /\ \A i \in 1..Len(text) : text'[i] = text[i]
        /\ \A i \in 1..Len(words) : text'[Len(text) + i] = names[i]
    <3>1. text \in Seq(Placeholder) /\ names \in Seq(Placeholder)
      BY <1>1, <2>4
    <3>2. /\ text \o names \in Seq(Placeholder)
          /\ Len(text \o names) = Len(text) + Len(names)
          /\ \A i \in 1..Len(text) : (text \o names)[i] = text[i]
          /\ \A i \in 1..Len(names) : (text \o names)[Len(text) + i] = names[i]
      BY <3>1, Longer
    <3> QED
      BY <2>1, <2>4, <3>2
  <2>7. key' \in Seq(Seq(Value)) /\ Len(key') = Len(key) + 1 /\ sent' \in Seq(Values)
    BY <1>1, <2>1, <2>2
  <2>8. FilterTypes'
    BY <1>1, <1>4, <2>1, <2>2, <2>5, <2>6, <2>7 DEF FilterInv, FilterTypes
  <2>9. Numbered'
    <3>0. /\ Len(args) = caller.fixed + Len(text) /\ counter = Len(args) + 1
          /\ caller.fixed \in Nat /\ Len(text) \in Nat /\ Len(args) \in Nat /\ Len(words) \in Nat
          /\ Len(args') = Len(args) + Len(words) /\ Len(text') = Len(text) + Len(words)
          /\ counter' = counter + Len(words)
      BY <1>1, <1>2, <1>4, <2>1, <2>2, <2>5, <2>6
    <3>1. Len(args') = caller.fixed + Len(text') /\ counter' = Len(args') + 1
      BY <3>0
    <3>2. ASSUME NEW i \in 1..Len(text')
          PROVE  text'[i].number = caller.fixed + i /\ args'[caller.fixed + i].column = text'[i].column
      <4>1. CASE i <= Len(text)
        <5>1. i \in 1..Len(text) /\ caller.fixed + i \in 1..Len(args)
          BY <1>1, <1>2, <1>4, <4>1
        <5> QED
          BY <1>2, <2>5, <2>6, <5>1
      <4>2. CASE i > Len(text)
        <5> DEFINE j == i - Len(text)
        <5>1. /\ j \in 1..Len(words) /\ i = Len(text) + j /\ caller.fixed + i = Len(args) + j
              /\ counter + j - 1 = caller.fixed + i
          <6>1. i \in Nat /\ i <= Len(text')
            BY <3>0
          <6>2. i - Len(text) \in 1..Len(words)
            BY <3>0, <4>2, <6>1
          <6>3. i = Len(text) + j
            BY <3>0, <6>1
          <6>4. caller.fixed + i = Len(args) + j
            BY <3>0, <6>1
          <6>5. counter + j - 1 = Len(args) + j
            BY <3>0, <6>1
          <6> QED
            BY <6>2, <6>3, <6>4, <6>5
        <5> HIDE DEF j
        <5>2. text'[i] = names[j] /\ args'[caller.fixed + i] = more[j]
          BY <2>5, <2>6, <5>1
        <5> QED
          BY <2>3, <2>4, <5>1, <5>2
      <4>3. i \in Int
        BY <1>1, <2>6
      <4> QED
        BY <1>1, <4>1, <4>2, <4>3
    <3> QED
      BY <2>1, <3>1, <3>2 DEF Numbered
  <2>10. Joined(KeyArgs(caller.own, key')) = Joined(KeyArgs(caller.own, key)) \o more
    <3>1. KeyArgs(caller.own, key') = Append(KeyArgs(caller.own, key), more)
      <4>1. Len(key) + 1 = at
        BY <1>1, <2>1
      <4> QED
        BY <1>1, <2>1, <2>2, <4>1, KeyArgsAppend DEF column, more
    <3>2. KeyArgs(caller.own, key) \in Seq(Seq(Arg))
      BY <1>1, <1>4, <2>1, KeyArgsType
    <3> QED
      BY <2>3, <3>1, <3>2, JoinedLaws
  <2>11. ~(at > Len(Columns) + 1) /\ ~(at' > Len(Columns) + 1)
    BY <1>1, <1>4, <2>1
  <2>12. SubSeq(args', caller.fixed + 1, Len(args')) =
           SubSeq(args, caller.fixed + 1, Len(args)) \o more
    <3>1. caller.fixed \in 0..Len(args)
      BY <1>1, <1>2, <1>4
    <3> QED
      BY <1>1, <2>1, <2>3, <3>1, Behind
  <2>13. Matches(caller, at', key', args')
    <3>1. /\ Len(args) - 0 = Len(args) /\ Len(args') - 0 = Len(args')
      BY <1>1, <2>5
    <3>2. SubSeq(args, caller.fixed + 1, Len(args)) = Joined(KeyArgs(caller.own, key))
      BY <1>3, <2>11, <3>1 DEF Matches
    <3> QED
      BY <2>10, <2>11, <2>12, <3>1, <3>2 DEF Matches
  <2> QED
    BY <1>0, <2>1, <2>8, <2>9, <2>13 DEF FilterInv
<1>9. CASE Search
  <2> DEFINE x == [column |-> "search", word |-> Blank]
             p == [number |-> 3 + (Len(args) - caller.fixed), column |-> "search"]
  <2>1. /\ at = Len(Columns) + 1 /\ caller.search /\ caller.fixed = 2 /\ at' = at + 1
        /\ text' = Append(text, p) /\ args' = Append(args, x)
        /\ UNCHANGED <<caller, sent, key, counter>>
    BY <1>4, <1>9 DEF Search
  <2>2. /\ x \in Arg /\ p \in Placeholder /\ p.number = Len(args) + 1 /\ x.column = p.column
    <3>1. "search" \in Names /\ Blank \in Int /\ 3 + (Len(args) - caller.fixed) \in Int
      BY <1>1, <1>4 DEF Blank, Names
    <3>2. x \in Arg /\ p \in Placeholder
      BY <3>1 DEF Arg, Placeholder
    <3>3. p.number = Len(args) + 1
      BY <1>1, <2>1
    <3> QED
      BY <3>2, <3>3
  <2> HIDE DEF x, p
  <2>3. /\ args' \in Seq(Arg) /\ Len(args') = Len(args) + 1 /\ args'[Len(args) + 1] = x
        /\ \A i \in 1..Len(args) : args'[i] = args[i]
    <3>1. args \in Seq(Arg) /\ x \in Arg /\ args' = Append(args, x)
      BY <1>1, <2>1, <2>2
    <3> QED
      BY <3>1, AppendElements
  <2>4. /\ text' \in Seq(Placeholder) /\ Len(text') = Len(text) + 1 /\ text'[Len(text) + 1] = p
        /\ \A i \in 1..Len(text) : text'[i] = text[i]
    <3>1. text \in Seq(Placeholder) /\ p \in Placeholder /\ text' = Append(text, p)
      BY <1>1, <2>1, <2>2
    <3> QED
      BY <3>1, AppendElements
  <2>5. FilterTypes'
    BY <1>1, <1>4, <2>1, <2>3, <2>4 DEF FilterInv, FilterTypes
  <2>6. Numbered'
    <3>1. Len(args') = caller.fixed + Len(text') /\ ~(at' <= Len(Columns) + 1)
      BY <1>1, <1>2, <1>4, <2>1, <2>3, <2>4
    <3>2. ASSUME NEW i \in 1..Len(text')
          PROVE  text'[i].number = caller.fixed + i /\ args'[caller.fixed + i].column = text'[i].column
      <4>1. CASE i <= Len(text)
        <5>1. i \in 1..Len(text) /\ caller.fixed + i \in 1..Len(args)
          BY <1>1, <1>2, <1>4, <4>1
        <5> QED
          BY <1>2, <2>3, <2>4, <5>1
      <4>2. CASE i = Len(text) + 1
        <5>1. caller.fixed + (Len(text) + 1) = Len(args) + 1
          <6>1. /\ Len(args) = caller.fixed + Len(text)
                /\ caller.fixed \in Nat /\ Len(text) \in Nat /\ Len(args) \in Nat
            BY <1>1, <1>2, <1>4
          <6> QED
            BY <6>1
        <5> QED
          BY <2>2, <2>3, <2>4, <4>2, <5>1
      <4> QED
        BY <1>1, <2>4, <4>1, <4>2
    <3> QED
      BY <2>1, <3>1, <3>2 DEF Numbered
  <2>7. SubSeq(args', caller.fixed + 1, Len(args)) = SubSeq(args, caller.fixed + 1, Len(args))
    <3>1. caller.fixed \in 0..Len(args)
      BY <1>1, <1>2, <1>4
    <3>2. <<x>> \in Seq(Arg) /\ args' = args \o <<x>>
      BY <1>1, <2>1, <2>2
    <3> QED
      BY <1>1, <3>1, <3>2, Behind
  <2>8. Matches(caller, at', key', args')
    <3>1. ~(at > Len(Columns) + 1) /\ at' > Len(Columns) + 1
      BY <1>1, <1>4, <2>1
    <3>2. Len(args) - 0 = Len(args) /\ Len(args') - 1 = Len(args)
      BY <1>1, <2>3
    <3>3. SubSeq(args, caller.fixed + 1, Len(args)) = Joined(KeyArgs(caller.own, key))
      BY <1>3, <3>1, <3>2 DEF Matches
    <3> QED
      BY <2>1, <2>7, <3>1, <3>2, <3>3 DEF Matches
  <2> QED
    BY <1>0, <2>1, <2>5, <2>6, <2>8 DEF FilterInv
<1>10. CASE Run \/ UNCHANGED vars
  <2>1. UNCHANGED vars
    BY <1>10 DEF Run
  <2> QED
    BY <1>0, <1>3, <2>1 DEF FilterInv, FilterTypes, Numbered, vars
<1> QED
  BY <1>6, <1>7, <1>8, <1>9, <1>10 DEF Next

\* Numbers in sequence name every argument behind the caller's own, and once.
LEMMA NumberedBinds == FilterTypes /\ Numbered => PlaceholdersBound
<1> SUFFICES ASSUME FilterTypes, Numbered PROVE PlaceholdersBound
  OBVIOUS
<1>1. /\ Len(text) \in Nat /\ Len(args) \in Nat /\ caller.fixed \in Nat
      /\ DOMAIN args = 1..Len(args) /\ Len(args) = caller.fixed + Len(text)
  BY CallersStartBehind DEF FilterTypes, Numbered
<1>2. \A i \in 1..Len(text) :
        /\ text[i].number = caller.fixed + i
        /\ args[caller.fixed + i].column = text[i].column
  BY DEF Numbered
<1>3. ASSUME NEW i \in 1..Len(text)
      PROVE  text[i].number \in DOMAIN args /\ args[text[i].number].column = text[i].column
  <2>1. caller.fixed + i \in 1..Len(args)
    BY <1>1
  <2> QED
    BY <1>1, <1>2, <2>1
<1>4. ASSUME NEW n \in DOMAIN args, n > caller.fixed
      PROVE  \E i \in 1..Len(text) :
               text[i].number = n /\ \A j \in 1..Len(text) \ {i} : text[j].number # n
  <2> DEFINE i == n - caller.fixed
  <2>1. i \in 1..Len(text) /\ caller.fixed + i = n
    BY <1>1, <1>4
  <2>2. ASSUME NEW j \in 1..Len(text) \ {i} PROVE text[j].number # n
    <3>1. caller.fixed + j # n
      BY <1>1, <2>1
    <3> QED
      BY <1>2, <3>1
  <2> HIDE DEF i
  <2> QED
    BY <1>2, <2>1, <2>2
<1> QED
  BY <1>3, <1>4 DEF PlaceholdersBound

-----------------------------------------------------------------------------
(* The key of the options. *)

\* A word of the key: trimmed, and none that selects nothing.
Word == [word : Ranks, caps : BOOLEAN, padded : {FALSE}]

\* What is selected, once it is trimmed, is a word.
LEMMA TrimmedIsWord ==
  ASSUME NEW v \in Values, ~isSemuaOrEmpty(v)
  PROVE  TrimSpace(v) \in Word
<1>1. v \in [word : Ranks, caps : BOOLEAN, padded : BOOLEAN]
  BY DEF Values, isSemuaOrEmpty
<1> QED
  BY <1>1 DEF TrimSpace, Word

\* Clean returns words.
LEMMA CleanWords ==
  ASSUME NEW s \in Seq(Values)
  PROVE  Clean(s) \in Seq(Word)
<1>1. s \in Seq(Value)
  BY ValuesAreValues
<1>2. ToSet(s) \subseteq Values
  BY DEF ToSet
<1>3. SpelledIn(s) \subseteq Word
  BY <1>2, TrimmedIsWord DEF SpelledIn
<1> DEFINE c == Clean(s)
<1>4. c \in Seq(Value) /\ ToSet(c) \subseteq Word
  BY <1>1, <1>3, CleanLaws
<1> HIDE DEF c
<1>5. \A i \in 1..Len(c) : c[i] \in Word
  BY <1>4, Elements DEF ToSet
<1>6. c \in Seq(Word)
  BY <1>4, <1>5
<1> QED
  BY <1>6 DEF c

\* FlattenSeq of two sequences.
LEMMA FlattenTwo ==
  ASSUME NEW T, NEW x \in Seq(T), NEW y \in Seq(T)
  PROVE  FlattenSeq(<<x, y>>) = x \o y
<1> DEFINE pair == <<x, y>>
           Body(G) == G = [i \in 1..Len(pair) |-> IF i = 1 THEN pair[i] ELSE G[i - 1] \o pair[i]]
           C == CHOOSE G : Body(G)
           F == [i \in 1..2 |-> IF i = 1 THEN x ELSE x \o y]
<1>1. Len(pair) = 2 /\ pair[1] = x /\ pair[2] = y
  OBVIOUS
<1>2. FlattenSeq(pair) = C[Len(pair)]
  <2> HIDE DEF pair
  <2>1. Len(pair) # 0
    BY <1>1
  <2> QED
    BY <2>1, Zenon DEF FlattenSeq
<1> HIDE DEF pair
<1>3. Body(F)
  BY <1>1
<1>4. Body(C)
  BY <1>3, Zenon
<1> HIDE DEF C, F
<1>5. C[1] = x
  BY <1>1, <1>4
<1>6. C[2] = x \o y
  <2>1. C[2] = C[2 - 1] \o pair[2]
    <3>1. 2 \in 1..Len(pair) /\ 2 # 1
      BY <1>1
    <3> QED
      BY <1>4, <3>1, Zenon
  <2>2. 2 - 1 = 1
    OBVIOUS
  <2> QED
    BY <1>1, <1>5, <2>1, <2>2
<1> QED
  BY <1>1, <1>2, <1>6 DEF pair

\* Each element of a sequence, in a sequence of its own.
Alone(t) == [i \in 1..Len(t) |-> <<t[i]>>]

\* FlattenSeq of sequences of one element.
LEMMA FlattenAlone ==
  ASSUME NEW T, NEW t \in Seq(T)
  PROVE  FlattenSeq(Alone(t)) = t
<1> DEFINE s == Alone(t)
           n == Len(t)
           Body(G) == G = [i \in 1..Len(s) |-> IF i = 1 THEN s[i] ELSE G[i - 1] \o s[i]]
           C == CHOOSE G : Body(G)
           F == [i \in 1..n |-> SubSeq(t, 1, i)]
<1>1. n \in Nat /\ Len(s) = n /\ \A i \in 1..n : s[i] = <<t[i]>>
  BY DEF Alone
<1>2. CASE n = 0
  BY <1>1, <1>2 DEF FlattenSeq, Alone
<1>3. CASE n # 0
  <2>1. FlattenSeq(s) = C[Len(s)]
    <3> HIDE DEF s
    <3> QED
      BY <1>1, <1>3, Zenon DEF FlattenSeq
  <2> HIDE DEF s
  <2>2. \A i \in 1..n : SubSeq(t, 1, 1) = s[1] /\ (i # 1 => SubSeq(t, 1, i) = SubSeq(t, 1, i - 1) \o s[i])
    <3> SUFFICES ASSUME NEW i \in 1..n
        PROVE  SubSeq(t, 1, 1) = s[1] /\ (i # 1 => SubSeq(t, 1, i) = SubSeq(t, 1, i - 1) \o s[i])
      OBVIOUS
    <3>1. SubSeq(t, 1, 1) = s[1]
      BY <1>1, <1>3
    <3>2. ASSUME i # 1 PROVE SubSeq(t, 1, i) = SubSeq(t, 1, i - 1) \o s[i]
      <4> DEFINE a == SubSeq(t, 1, i)
                 b == SubSeq(t, 1, i - 1)
                 c == b \o <<t[i]>>
      <4>1. /\ i \in 2..n /\ t[i] \in T
            /\ a \in Seq(T) /\ Len(a) = i /\ \A j \in 1..i : a[j] = t[j]
            /\ b \in Seq(T) /\ Len(b) = i - 1 /\ \A j \in 1..(i - 1) : b[j] = t[j]
        BY <1>1, <3>2
      <4> HIDE DEF a, b
      <4>2. c \in Seq(T) /\ Len(c) = i /\ c[i] = t[i] /\ \A j \in 1..(i - 1) : c[j] = b[j]
        BY <4>1
      <4> HIDE DEF c
      <4>3. \A j \in 1..i : a[j] = c[j]
        BY <4>1, <4>2
      <4>4. a = c
        BY <4>1, <4>2, <4>3
      <4> QED
        BY <1>1, <4>4 DEF a, b, c
    <3> QED
      BY <3>1, <3>2
  <2>3. Body(F)
    <3> DEFINE G == [i \in 1..Len(s) |-> IF i = 1 THEN s[i] ELSE F[i - 1] \o s[i]]
    <3>1. \A i \in 1..n : F[i] = G[i]
      <4> SUFFICES ASSUME NEW i \in 1..n PROVE F[i] = G[i]
        OBVIOUS
      <4>1. CASE i = 1
        BY <1>1, <2>2, <4>1
      <4>2. CASE i # 1
        <5>1. i - 1 \in 1..n
          BY <1>1, <4>2
        <5>2. F[i - 1] = SubSeq(t, 1, i - 1) /\ F[i] = SubSeq(t, 1, i)
          BY <5>1
        <5>3. G[i] = F[i - 1] \o s[i]
          <6> HIDE DEF F
          <6> QED
            BY <1>1, <4>2
        <5> QED
          BY <2>2, <4>2, <5>2, <5>3
      <4> QED
        BY <4>1, <4>2
    <3>2. DOMAIN F = 1..n /\ DOMAIN G = 1..n
      BY <1>1
    <3>3. F = G
      BY <3>1, <3>2
    <3> QED
      BY <3>3
  <2>4. Body(C)
    BY <2>3, Zenon
  <2> HIDE DEF C, F
  <2> DEFINE P == {k \in Nat : k + 1 \in 1..n => C[k + 1] = SubSeq(t, 1, k + 1)}
  <2>5. 0 \in P
    <3>1. 1 \in 1..n /\ 0 + 1 = 1 /\ 0 \in Nat
      BY <1>1, <1>3
    <3>2. C[1] = s[1]
      BY <1>1, <2>4, <3>1
    <3> QED
      BY <2>2, <3>1, <3>2
  <2>6. ASSUME NEW k \in P PROVE k + 1 \in P
    <3> SUFFICES ASSUME k + 2 \in 1..n PROVE C[k + 2] = SubSeq(t, 1, k + 2)
      OBVIOUS
    <3>1. k \in Nat /\ k + 1 \in 1..n /\ k + 2 # 1 /\ (k + 2) - 1 = k + 1
      BY <1>1
    <3>2. C[k + 1] = SubSeq(t, 1, k + 1)
      BY <3>1
    <3>3. C[k + 2] = C[k + 1] \o s[k + 2]
      BY <1>1, <2>4, <3>1
    <3>4. SubSeq(t, 1, k + 2) = SubSeq(t, 1, k + 1) \o s[k + 2]
      BY <2>2, <3>1
    <3> QED
      BY <3>2, <3>3, <3>4
  <2>7. P = Nat
    <3>1. P \in SUBSET Nat
      OBVIOUS
    <3> HIDE DEF P
    <3> QED
      BY <2>5, <2>6, <3>1, Induction
  <2>8. C[n] = SubSeq(t, 1, n)
    <3>1. n - 1 \in Nat /\ (n - 1) + 1 = n /\ n \in 1..n
      BY <1>1, <1>3
    <3>2. n - 1 \in P
      <4> HIDE DEF P
      <4> QED
        BY <2>7, <3>1
    <3> QED
      BY <3>1, <3>2
  <2>9. SubSeq(t, 1, n) = t
    OBVIOUS
  <2> QED
    BY <1>1, <2>1, <2>8, <2>9 DEF s
<1> QED
  BY <1>2, <1>3

\* The only element of a sequence.
LEMMA OnlyElement ==
  ASSUME NEW S, NEW p \in Seq(S), Len(p) = 1
  PROVE  p[1] \in S
  OBVIOUS

\* A sequence behind another.
LEMMA InFront ==
  ASSUME NEW T, NEW x \in Seq(T), NEW y \in Seq(T)
  PROVE  /\ x \o y \in Seq(T) /\ Len(x \o y) = Len(x) + Len(y)
         /\ \A i \in 1..Len(x) : (x \o y)[i] = x[i]
         /\ \A i \in 1..Len(y) : (x \o y)[Len(x) + i] = y[i]
<1>1. Len(x) \in Nat /\ Len(y) \in Nat
  OBVIOUS
<1>2. x \o y \in Seq(T) /\ Len(x \o y) = Len(x) + Len(y)
  OBVIOUS
<1>3. \A i \in 1..Len(x) : (x \o y)[i] = x[i]
  BY <1>1
<1>4. \A i \in 1..Len(y) : (x \o y)[Len(x) + i] = y[i]
  BY <1>1
<1> QED
  BY <1>2, <1>3, <1>4

\* What a key is made of: the parts of the words, and the signs around them.
Signs == {"[", "]", "|"}
Token == [part : STRING \cup Signs, caps : BOOLEAN]
TokenOf(v) == [part |-> Written[v.word][1], caps |-> v.caps]
Tokens(list) == [i \in 1..Len(list) |-> TokenOf(list[i])]

\* A plain list is formatted word by word, and no word is written as a sign.
LEMMA PlainTokens ==
  ASSUME NEW list \in Seq(Word), Plain(list)
  PROVE  /\ Tokens(list) \in Seq(Token) /\ Len(Tokens(list)) = Len(list)
         /\ \A i \in 1..Len(list) :
              Tokens(list)[i] = TokenOf(list[i]) /\ Tokens(list)[i].part \notin Signs
         /\ Formatted(list) = Mark("[") \o Tokens(list) \o Mark("]")
<1> DEFINE t == Tokens(list)
           n == Len(list)
<1>1. n \in Nat /\ \A i \in 1..n : list[i] \in Word
  OBVIOUS
<1>2. ASSUME NEW i \in 1..n
      PROVE  /\ Parts(list[i]) = <<TokenOf(list[i])>> /\ TokenOf(list[i]) \in Token
             /\ TokenOf(list[i]).part \notin Signs
  <2> DEFINE w == list[i].word
             p == Written[w]
  <2>1. w \in Ranks /\ list[i].caps \in BOOLEAN
    BY <1>1 DEF Word
  <2>2. p \in Seq(STRING)
    BY <2>1, FilterAssumption
  <2>3. Len(p) = 1 /\ p[1] \notin Signs
    BY DEF Plain, Signs
  <2> HIDE DEF p, w
  <2>4. p[1] \in STRING
    BY <2>2, <2>3, OnlyElement
  <2>5. Parts(list[i]) = [j \in 1..Len(p) |-> [part |-> p[j], caps |-> list[i].caps]]
    BY DEF Parts, p, w
  <2>6. TokenOf(list[i]) = [part |-> p[1], caps |-> list[i].caps]
    BY DEF TokenOf, p, w
  <2>7. Parts(list[i]) = <<TokenOf(list[i])>>
    BY <2>3, <2>5, <2>6
  <2> QED
    BY <2>1, <2>3, <2>4, <2>6, <2>7 DEF Token
<1>3. t \in Seq(Token) /\ Len(t) = n /\ \A i \in 1..n : t[i] = TokenOf(list[i])
  BY <1>1, <1>2 DEF Tokens
<1>4. [i \in 1..n |-> Parts(list[i])] = Alone(t)
  <2> HIDE DEF t
  <2> QED
    BY <1>2, <1>3 DEF Alone
<1>5. FlattenSeq([i \in 1..n |-> Parts(list[i])]) = t
  <2> HIDE DEF t
  <2> QED
    BY <1>3, <1>4, FlattenAlone
<1> QED
  BY <1>2, <1>3, <1>5 DEF Formatted

\* Brackets around it and a bar behind it move a list by one place.
LEMMA WithSigns ==
  ASSUME NEW t \in Seq(Token)
  PROVE  LET a == (Mark("[") \o t \o Mark("]")) \o Mark("|")
         IN  /\ a \in Seq(Token) /\ Len(a) = Len(t) + 3
             /\ \A i \in 1..Len(t) : a[i + 1] = t[i]
             /\ a[Len(t) + 2].part = "]"
<1> DEFINE open == Mark("[")
           close == Mark("]")
           bar == Mark("|")
           n == Len(t)
           b == open \o t
           c == b \o close
           d == c \o bar
<1>1. /\ open \in Seq(Token) /\ Len(open) = 1
      /\ close \in Seq(Token) /\ Len(close) = 1 /\ close[1].part = "]"
      /\ bar \in Seq(Token) /\ Len(bar) = 1
  BY DEF Mark, Token, Signs
<1> HIDE DEF open, close, bar
<1>2. n \in Nat
  OBVIOUS
<1>3. /\ b \in Seq(Token) /\ Len(b) = Len(open) + n
      /\ \A i \in 1..n : b[Len(open) + i] = t[i]
  <2>1. open \in Seq(Token)
    BY <1>1
  <2> QED
    BY <2>1, InFront
<1> HIDE DEF b
<1>4. /\ c \in Seq(Token) /\ Len(c) = Len(b) + Len(close)
      /\ \A i \in 1..Len(b) : c[i] = b[i]
      /\ \A i \in 1..Len(close) : c[Len(b) + i] = close[i]
  <2>1. b \in Seq(Token) /\ close \in Seq(Token)
    BY <1>1, <1>3
  <2> QED
    BY <2>1, InFront
<1> HIDE DEF c
<1>5. d \in Seq(Token) /\ Len(d) = Len(c) + Len(bar) /\ \A i \in 1..Len(c) : d[i] = c[i]
  <2>1. c \in Seq(Token) /\ bar \in Seq(Token)
    BY <1>1, <1>4
  <2> QED
    BY <2>1, InFront
<1> HIDE DEF d, n
<1>6. \A i \in 1..n : d[i + 1] = t[i]
  <2> SUFFICES ASSUME NEW i \in 1..n PROVE d[i + 1] = t[i]
    OBVIOUS
  <2>1. i + 1 \in 1..Len(b) /\ i + 1 \in 1..Len(c) /\ i + 1 = Len(open) + i
    BY <1>1, <1>2, <1>3, <1>4
  <2> QED
    BY <1>3, <1>4, <1>5, <2>1
<1>7. d[n + 2].part = "]"
  <2>1. n + 2 \in 1..Len(c) /\ n + 2 = Len(b) + 1 /\ 1 \in 1..Len(close)
    BY <1>1, <1>2, <1>3, <1>4
  <2>2. d[n + 2] = c[n + 2] /\ c[n + 2] = close[1]
    BY <1>4, <1>5, <2>1
  <2> QED
    BY <1>1, <2>2
<1>8. Len(d) = n + 3
  BY <1>1, <1>2, <1>3, <1>4, <1>5
<1> QED
  BY <1>5, <1>6, <1>7, <1>8 DEF b, c, d, n, open, close, bar

\* How two plain lists are written: where their words are, and where the first ends.
LEMMA KeyOfTwo ==
  ASSUME NEW x \in Seq(Word), NEW y \in Seq(Word), Plain(x), Plain(y)
  PROVE  LET k == OptionsKey(<<x, y>>)
         IN  /\ Len(k) = Len(x) + Len(y) + 6
             /\ \A i \in 1..Len(x) : k[i + 1] = TokenOf(x[i]) /\ k[i + 1].part \notin Signs
             /\ k[Len(x) + 2].part = "]"
             /\ \A i \in 1..Len(y) : k[Len(x) + 4 + i] = TokenOf(y[i])
<1> DEFINE open == Mark("[")
           close == Mark("]")
           bar == Mark("|")
           tx == Tokens(x)
           ty == Tokens(y)
           a == (open \o tx \o close) \o bar
           b == (open \o ty \o close) \o bar
           n == Len(x)
           m == Len(y)
<1>0. n \in Nat /\ m \in Nat
  OBVIOUS
<1>1. /\ tx \in Seq(Token) /\ Len(tx) = n /\ ty \in Seq(Token) /\ Len(ty) = m
      /\ \A i \in 1..n : tx[i] = TokenOf(x[i]) /\ tx[i].part \notin Signs
      /\ \A i \in 1..m : ty[i] = TokenOf(y[i])
      /\ Formatted(x) = open \o tx \o close /\ Formatted(y) = open \o ty \o close
  BY PlainTokens
<1>3. OptionsKey(<<x, y>>) = FlattenSeq(<<a, b>>)
  <2> DEFINE pair == <<x, y>>
  <2>1. Len(pair) = 2 /\ pair[1] = x /\ pair[2] = y
    OBVIOUS
  <2> HIDE DEF pair
  <2>2. [c \in 1..Len(pair) |-> Formatted(pair[c]) \o Mark("|")] = <<a, b>>
    <3>1. Formatted(x) \o Mark("|") = a /\ Formatted(y) \o Mark("|") = b
      BY <1>1
    <3> HIDE DEF a, b
    <3> QED
      BY <2>1, <3>1
  <2>3. OptionsKey(pair) = FlattenSeq(<<a, b>>)
    BY <2>2 DEF OptionsKey
  <2> QED
    BY <2>3 DEF pair
<1>4. /\ a \in Seq(Token) /\ Len(a) = n + 3
      /\ \A i \in 1..n : a[i + 1] = tx[i]
      /\ a[n + 2].part = "]"
  BY <1>1, WithSigns
<1>5. b \in Seq(Token) /\ Len(b) = m + 3 /\ \A i \in 1..m : b[i + 1] = ty[i]
  BY <1>1, WithSigns
<1> HIDE DEF a, b, open, close, bar, tx, ty
<1>6. OptionsKey(<<x, y>>) = a \o b
  BY <1>3, <1>4, <1>5, FlattenTwo
<1> DEFINE k == a \o b
<1>7. /\ Len(k) = Len(a) + Len(b) /\ \A i \in 1..Len(a) : k[i] = a[i]
      /\ \A i \in 1..Len(b) : k[Len(a) + i] = b[i]
  <2>1. a \in Seq(Token) /\ b \in Seq(Token)
    BY <1>4, <1>5
  <2> QED
    BY <2>1, InFront
<1> HIDE DEF k, n, m
<1>8. \A i \in 1..(n + 3) : k[i] = a[i]
  BY <1>4, <1>7
<1>9. \A i \in 1..(m + 3) : k[n + 3 + i] = b[i]
  BY <1>4, <1>5, <1>7
<1>10. \A i \in 1..n : k[i + 1] = tx[i]
  BY <1>0, <1>4, <1>8
<1>11. k[n + 2].part = "]"
  BY <1>0, <1>4, <1>8
<1>12. \A i \in 1..m : k[n + 4 + i] = ty[i]
  <2> SUFFICES ASSUME NEW i \in 1..m PROVE k[n + 4 + i] = ty[i]
    OBVIOUS
  <2>1. i + 1 \in 1..(m + 3) /\ n + 3 + (i + 1) = n + 4 + i
    BY <1>0
  <2> QED
    BY <1>5, <1>9, <2>1
<1>13. OptionsKey(<<x, y>>) = k
  BY <1>6 DEF k
<1>14. Len(k) = n + m + 6
  BY <1>0, <1>4, <1>5, <1>7
<1>15. /\ Len(k) = n + m + 6
       /\ \A i \in 1..n : k[i + 1] = TokenOf(x[i]) /\ k[i + 1].part \notin Signs
       /\ k[n + 2].part = "]"
       /\ \A i \in 1..m : k[n + 4 + i] = TokenOf(y[i])
  BY <1>1, <1>10, <1>11, <1>12, <1>14 DEF n, m
<1> QED
  BY <1>13, <1>15 DEF n, m

\* Two words that are written alike, in one part each, are one.
LEMMA OneToken ==
  ASSUME NEW v \in Word, NEW u \in Word, TokenOf(v) = TokenOf(u),
         Len(Written[v.word]) = 1, Len(Written[u.word]) = 1
  PROVE  v = u
<1>1. v.word \in Ranks /\ u.word \in Ranks
  BY DEF Word
<1>2. Written[v.word] \in Seq(STRING) /\ Written[u.word] \in Seq(STRING)
  BY <1>1, FilterAssumption
<1>3. Written[v.word][1] = Written[u.word][1] /\ v.caps = u.caps
  <2>1. TokenOf(v).part = TokenOf(u).part /\ TokenOf(v).caps = TokenOf(u).caps
    OBVIOUS
  <2> QED
    BY <2>1 DEF TokenOf
<1> DEFINE p == Written[v.word]
           q == Written[u.word]
<1>4. p \in Seq(STRING) /\ q \in Seq(STRING) /\ Len(p) = 1 /\ Len(q) = 1 /\ p[1] = q[1]
  BY <1>2, <1>3
<1> HIDE DEF p, q
<1>5. p = q
  BY <1>4
<1>6. v.word = u.word
  BY <1>1, <1>5, FilterAssumption DEF p, q
<1>7. /\ v = [word |-> v.word, caps |-> v.caps, padded |-> FALSE]
      /\ u = [word |-> u.word, caps |-> u.caps, padded |-> FALSE]
  BY DEF Word
<1> QED
  BY <1>3, <1>6, <1>7

\* Plain lists of one length with the same tokens are one.
LEMMA SameTokens ==
  ASSUME NEW x \in Seq(Word), NEW z \in Seq(Word), Plain(x), Plain(z), Len(x) = Len(z),
         \A i \in 1..Len(x) : TokenOf(x[i]) = TokenOf(z[i])
  PROVE  x = z
<1>1. \A i \in 1..Len(x) : x[i] \in Word /\ z[i] \in Word
  OBVIOUS
<1>2. \A i \in 1..Len(x) : Len(Written[x[i].word]) = 1 /\ Len(Written[z[i].word]) = 1
  BY DEF Plain
<1>3. \A i \in 1..Len(x) : x[i] = z[i]
  BY <1>1, <1>2, OneToken
<1> QED
  BY <1>3

\* The first of two plain lists is no longer than that of two others with the same key:
\* its closing bracket would be taken for a word.
LEMMA NoLonger ==
  ASSUME NEW x \in Seq(Word), NEW y \in Seq(Word), NEW z \in Seq(Word), NEW w \in Seq(Word),
         Plain(x), Plain(y), Plain(z), Plain(w),
         OptionsKey(<<x, y>>) = OptionsKey(<<z, w>>)
  PROVE  Len(z) <= Len(x)
<1> SUFFICES ASSUME Len(x) < Len(z) PROVE FALSE
  OBVIOUS
<1> DEFINE k == OptionsKey(<<x, y>>)
           n == Len(x)
<1>1. k[n + 2].part = "]"
  BY KeyOfTwo
<1>2. \A i \in 1..Len(z) : k[i + 1].part \notin Signs
  BY KeyOfTwo
<1> HIDE DEF k
<1>3. n + 1 \in 1..Len(z) /\ (n + 1) + 1 = n + 2
  OBVIOUS
<1>4. k[n + 2].part \notin Signs
  BY <1>2, <1>3
<1> QED
  BY <1>1, <1>4 DEF Signs

\* Two pairs of plain lists with one key are one pair.
LEMMA OneKey ==
  ASSUME NEW x \in Seq(Word), NEW y \in Seq(Word), NEW z \in Seq(Word), NEW w \in Seq(Word),
         Plain(x), Plain(y), Plain(z), Plain(w),
         OptionsKey(<<x, y>>) = OptionsKey(<<z, w>>)
  PROVE  x = z /\ y = w
<1>1. Len(x) \in Nat /\ Len(y) \in Nat /\ Len(z) \in Nat /\ Len(w) \in Nat
  OBVIOUS
<1>2. Len(x) = Len(z)
  <2>1. Len(z) <= Len(x)
    BY NoLonger
  <2>2. Len(x) <= Len(z)
    BY NoLonger
  <2> QED
    BY <1>1, <2>1, <2>2
<1> DEFINE k == OptionsKey(<<x, y>>)
           n == Len(x)
<1>3. /\ Len(k) = n + Len(y) + 6
      /\ \A i \in 1..n : k[i + 1] = TokenOf(x[i])
      /\ \A i \in 1..Len(y) : k[n + 4 + i] = TokenOf(y[i])
  BY KeyOfTwo
<1>4. /\ Len(k) = n + Len(w) + 6
      /\ \A i \in 1..n : k[i + 1] = TokenOf(z[i])
      /\ \A i \in 1..Len(w) : k[n + 4 + i] = TokenOf(w[i])
  <2> DEFINE h == OptionsKey(<<z, w>>)
  <2>1. /\ Len(h) = Len(z) + Len(w) + 6
        /\ \A i \in 1..Len(z) : h[i + 1] = TokenOf(z[i])
        /\ \A i \in 1..Len(w) : h[Len(z) + 4 + i] = TokenOf(w[i])
    BY KeyOfTwo
  <2>2. h = k /\ Len(z) = n
    BY <1>2
  <2> HIDE DEF h, k, n
  <2> QED
    BY <2>1, <2>2
<1> HIDE DEF k, n
<1>5. n \in Nat /\ Len(y) = Len(w)
  BY <1>1, <1>3, <1>4 DEF n
<1>6. x = z
  <2>1. \A i \in 1..Len(x) : TokenOf(x[i]) = TokenOf(z[i])
    BY <1>3, <1>4 DEF n
  <2> QED
    BY <1>2, <2>1, SameTokens
<1>7. y = w
  <2>1. \A i \in 1..Len(y) : TokenOf(y[i]) = TokenOf(w[i])
    BY <1>3, <1>4, <1>5
  <2> QED
    BY <1>5, <2>1, SameTokens
<1> QED
  BY <1>6, <1>7

\* The key is made of words, whoever builds the query.
KeyOfWords == key \in Seq(Seq(Word))

\* Every step keeps it: only Clean adds to the key.
LEMMA KeyOfWordsStep == FilterInv /\ KeyOfWords /\ [Next]_vars => KeyOfWords'
<1> SUFFICES ASSUME FilterInv, KeyOfWords, [Next]_vars PROVE KeyOfWords'
  OBVIOUS
<1>1. Clean(sent) \in Seq(Word)
  BY CleanWords DEF FilterInv, FilterTypes
<1>2. key' = key \/ key' = Append(key, Clean(sent))
  BY DEF Next, Send, Skip, Add, Search, Run, vars
<1> QED
  BY <1>1, <1>2 DEF KeyOfWords

\* OptionsKeyTells holds of every key of words with two lists.
LEMMA WordsTell ==
  ASSUME FilterInv, KeyOfWords
  PROVE  OptionsKeyTells
<1> SUFFICES ASSUME at = 3, sent = <<>>, caller.fixed = 0,
                    NEW one \in Lists, NEW two \in Lists,
                    OptionsKey(<<one, two>>) = OptionsKey(key),
                    \A list \in {one, two} \cup ToSet(key) : Plain(list)
             PROVE  <<one, two>> = key
  BY DEF OptionsKeyTells
<1>1. \A list \in Lists : list \in Seq(Word)
  <2> SUFFICES ASSUME NEW values \in SeqOf(Values, MaxValues) PROVE Clean(values) \in Seq(Word)
    BY DEF Lists
  <2>1. values \in Seq(Values)
    BY FilterAssumption DEF SeqOf
  <2> QED
    BY <2>1, CleanWords
<1>2. Len(key) = 2
  <2>1. at <= Len(Columns) + 1 /\ Len(Columns) \in Nat
    BY CallersStartBehind DEF FilterInv, FilterTypes
  <2>2. Len(key) = IF at > Len(Columns) THEN Len(Columns) ELSE at - 1
    BY DEF FilterInv, FilterTypes
  <2> DEFINE L == Len(Columns)
             K == Len(key)
  <2>3. L \in Nat /\ 3 <= L + 1 /\ K = IF 3 > L THEN L ELSE 3 - 1
    BY <2>1, <2>2
  <2> HIDE DEF L, K
  <2>4. K = 2
    BY <2>3
  <2> QED
    BY <2>4 DEF K
<1> DEFINE z == key[1]
           w == key[2]
<1>3. key = <<z, w>> /\ z \in Seq(Word) /\ w \in Seq(Word) /\ z \in ToSet(key) /\ w \in ToSet(key)
  BY <1>2 DEF KeyOfWords, ToSet
<1> HIDE DEF z, w
<1>4. one = z /\ two = w
  BY <1>1, <1>3, OneKey
<1> QED
  BY <1>3, <1>4

-----------------------------------------------------------------------------
(* The theorems. *)

\* The invariant, for any columns, words and callers.
THEOREM FilterInvariant == Spec => []FilterInv
  BY FilterInvInit, FilterInvStep, PTL DEF Spec

\* buildFilterClausesExt and its callers: every placeholder names an argument of its
\* column and every argument behind the caller's own is named once.
THEOREM EveryPlaceholderIsBound == Spec => []PlaceholdersBound
<1>1. FilterInv => PlaceholdersBound
  BY NumberedBinds DEF FilterInv
<1> QED
  BY <1>1, FilterInvariant, PTL

\* The arguments of the filters are the words of the cache key, in its order.
THEOREM KeyIsAlwaysTheQuery == Spec => []KeyIsTheQuery
<1>1. FilterInv => KeyIsTheQuery
  BY DEF FilterInv
<1> QED
  BY <1>1, FilterInvariant, PTL

\* The same words share a key, however they are sent.
THEOREM SameWordsShareAKey == Spec => []SameWordsSameKey
<1>1. FilterInv => SameWordsSameKey
  BY SameWords DEF FilterInv, FilterTypes
<1> QED
  BY <1>1, FilterInvariant, PTL

\* The key of the options takes no plain word for that of another column
\* (cache_layer.go:56), for any alphabet and lists of any length.
THEOREM OptionsKeyAlwaysTells == Spec => []OptionsKeyTells
<1>1. Init => KeyOfWords
  BY DEF Init, KeyOfWords
<1>2. FilterInv /\ KeyOfWords => OptionsKeyTells
  BY WordsTell
<1> QED
  BY <1>1, <1>2, KeyOfWordsStep, FilterInvariant, PTL DEF Spec

=================================================================================
