------------------------------- MODULE FoldLemmas -------------------------------
(***************************************************************************)
(* Induction for sets of numbers, of sequences and of the parts of a       *)
(* finite set, and with it what the folds of the community modules compute *)
(* for every finite set and every sequence, sums above all.  FiltersProofs *)
(* and ReportsProofs rest on it.                                           *)
(***************************************************************************)
EXTENDS Integers, SequencesExt, FiniteSetTheorems, TLAPS

\* The order of the numbers.
Less == {p \in Nat \X Nat : p[1] < p[2]}

\* Every set of numbers that is not empty has a least one.
LEMMA LeastNumber ==
  ASSUME NEW N \in SUBSET Nat, N # {}
  PROVE  \E n \in N : \A m \in N : n <= m
<1>1. IsWellFoundedOn(Less, Nat)
  BY NatLessThanWellFounded DEF OpToRel, Less
<1>2. PICK n \in N : \A m \in N : ~ (<<m, n>> \in Less)
  BY <1>1, WFMin
<1>3. ASSUME NEW m \in N PROVE n <= m
  <2>1. m < n => <<m, n>> \in Less
    BY Zenon DEF Less
  <2> QED
    BY <1>2, <2>1
<1> QED
  BY <1>3

\* Induction over the numbers, for a set of them: no operator is a parameter, so the
\* lemma can be cited for the set of the numbers that have some property.
LEMMA Induction ==
  ASSUME NEW P \in SUBSET Nat, 0 \in P, \A n \in P : n + 1 \in P
  PROVE  P = Nat
<1> SUFFICES ASSUME Nat \ P # {} PROVE FALSE
  OBVIOUS
<1>1. PICK n \in Nat \ P : \A m \in Nat \ P : n <= m
  <2> DEFINE N == Nat \ P
  <2>1. N \in SUBSET Nat /\ N # {}
    OBVIOUS
  <2> HIDE DEF N
  <2>2. \E n \in N : \A m \in N : n <= m
    BY <2>1, LeastNumber
  <2> QED
    BY <2>2 DEF N
<1>2. n - 1 \in P
  BY <1>1
<1> QED
  BY <1>1, <1>2

\* The ways to choose an element of each subset of S that is not empty.
Choice(S) == {c \in [(SUBSET S) \ {{}} -> S] : \A s \in (SUBSET S) \ {{}} : c[s] \in s}

\* F folds the subsets of S, taking the chosen element last.
IsFold(F, S, choice, step, base) ==
  F = [s \in SUBSET S |->
         IF s = {} THEN base ELSE step[<<choice[s], F[s \ {choice[s]}]>>]]

\* A fold over a finite set exists: the recursive function in MapThenFoldSet is one
\* for every way of choosing the next element.
LEMMA FoldExists ==
  ASSUME NEW S, IsFiniteSet(S), NEW A, NEW base \in A,
         NEW choice \in Choice(S), NEW step \in [S \X A -> A]
  PROVE  \E F \in [SUBSET S -> A] : IsFold(F, S, choice, step, base)
<1> DEFINE Sub(n) == {s \in SUBSET S : Cardinality(s) <= n}
           Val(F, s) == IF s = {} THEN base ELSE step[<<choice[s], F[s \ {choice[s]}]>>]
           Folds(n) == {F \in [Sub(n) -> A] : \A s \in Sub(n) : F[s] = Val(F, s)}
           P == {n \in Nat : Folds(n) # {}}
<1>1. ASSUME NEW s \in SUBSET S
      PROVE  /\ IsFiniteSet(s) /\ Cardinality(s) \in Nat
             /\ Cardinality(s) = 0 <=> s = {}
             /\ Cardinality(s) <= Cardinality(S)
             /\ s # {} => /\ choice[s] \in s /\ s \ {choice[s]} \in SUBSET S
                          /\ Cardinality(s \ {choice[s]}) = Cardinality(s) - 1
  <2>1. IsFiniteSet(s) /\ Cardinality(s) <= Cardinality(S)
    BY FS_Subset
  <2>2. s # {} => choice[s] \in s
    BY DEF Choice
  <2> QED
    BY <2>1, <2>2, FS_CardinalityType, FS_EmptySet, FS_RemoveElement
<1>2. ASSUME NEW n \in Nat, NEW s \in Sub(n + 1), s # {}
      PROVE  choice[s] \in S /\ s \ {choice[s]} \in Sub(n)
  <2>1. /\ s \in SUBSET S /\ Cardinality(s) \in Nat /\ Cardinality(s) <= n + 1
        /\ choice[s] \in s /\ s \ {choice[s]} \in SUBSET S
        /\ Cardinality(s \ {choice[s]}) = Cardinality(s) - 1
    BY <1>1, <1>2
  <2> HIDE DEF P
  <2> QED
    BY <2>1
<1>3. ASSUME NEW n \in Nat, NEW s \in Sub(n) PROVE s \in Sub(n + 1)
  <2>1. s \in SUBSET S /\ Cardinality(s) \in Nat /\ Cardinality(s) <= n
    BY <1>1
  <2> QED
    BY <2>1
<1>4. 0 \in P
  <2>1. ASSUME NEW s \in Sub(0) PROVE s = {}
    <3>1. s \in SUBSET S /\ Cardinality(s) \in Nat /\ Cardinality(s) <= 0 /\ IsFiniteSet(s)
      BY <1>1
    <3>2. Cardinality(s) = 0
      BY <3>1
    <3> QED
      BY <3>1, <3>2, FS_EmptySet
  <2> DEFINE F == [s \in Sub(0) |-> base]
  <2>2. \A s \in Sub(0) : F[s] = Val(F, s)
    BY <2>1
  <2>3. F \in [Sub(0) -> A]
    OBVIOUS
  <2>4. F \in Folds(0)
    BY <2>2, <2>3
  <2> QED
    BY <2>4
<1>5. ASSUME NEW n \in P PROVE n + 1 \in P
  <2>1. n \in Nat /\ n + 1 \in Nat
    <3> HIDE DEF Folds
    <3> QED
      OBVIOUS
  <2>2. PICK F : F \in [Sub(n) -> A] /\ \A s \in Sub(n) : F[s] = Val(F, s)
    OBVIOUS
  <2> DEFINE G == [s \in Sub(n + 1) |-> Val(F, s)]
  <2> HIDE DEF Sub
  <2>3. ASSUME NEW s \in Sub(n + 1) PROVE G[s] \in A
    <3>1. CASE s = {}
      BY <3>1
    <3>2. CASE s # {}
      <4>1. choice[s] \in S /\ F[s \ {choice[s]}] \in A
        BY <1>2, <2>1, <2>2, <3>2
      <4> QED
        BY <3>2, <4>1
    <3> QED
      BY <3>1, <3>2
  <2>4. ASSUME NEW s \in Sub(n) PROVE G[s] = F[s]
    BY <1>3, <2>1, <2>2
  <2>5. ASSUME NEW s \in Sub(n + 1) PROVE G[s] = Val(G, s)
    <3>1. CASE s = {}
      BY <3>1
    <3>2. CASE s # {}
      <4>1. G[s \ {choice[s]}] = F[s \ {choice[s]}]
        BY <1>2, <2>1, <2>4, <3>2
      <4> QED
        BY <3>2, <4>1
    <3> QED
      BY <3>1, <3>2
  <2>6. G \in [Sub(n + 1) -> A]
    BY <2>3
  <2>7. G \in Folds(n + 1)
    <3> HIDE DEF G
    <3> QED
      BY <2>5, <2>6
  <2> QED
    BY <2>1, <2>7
<1>6. P = Nat
  <2> HIDE DEF P
  <2> QED
    <3>1. P \in SUBSET Nat
      BY DEF P
    <3> QED BY <1>4, <1>5, <3>1, Induction
<1>7. PICK F \in Folds(Cardinality(S)) : TRUE
  BY <1>1, <1>6
<1>8. Sub(Cardinality(S)) = SUBSET S
  BY <1>1
<1> QED
  BY <1>7, <1>8 DEF IsFold

-----------------------------------------------------------------------------
(* Left folds over sequences. *)

\* Max of a set of indexes is its greatest member.
LEMMA MaxIndex ==
  ASSUME NEW n \in Nat, NEW s \in SUBSET (1..n), s # {}
  PROVE  Max(s) \in s /\ \A y \in s : y <= Max(s)
<1> DEFINE N == {n - x : x \in s}
<1>1. N \in SUBSET Nat /\ N # {}
  <2>1. \A x \in s : x \in 1..n /\ n - x \in Nat
    OBVIOUS
  <2> QED
    BY <2>1
<1>2. PICK m \in N : \A k \in N : m <= k
  <2> HIDE DEF N
  <2> QED
    BY <1>1, LeastNumber
<1>3. PICK x \in s : m = n - x
  OBVIOUS
<1>4. ASSUME NEW y \in s PROVE y <= x
  <2>1. n - y \in N
    OBVIOUS
  <2>2. n - x <= n - y
    BY <1>2, <1>3, <2>1
  <2> QED
    BY <2>2
<1>5. \E z \in s : \A y \in s : z >= y
  BY <1>4
<1>6. Max(s) \in s /\ \A y \in s : Max(s) >= y
  BY <1>5, Zenon DEF Max
<1> QED
  BY <1>6

\* step takes what has been made of a sequence of B, starting from base, and the
\* element that comes next.
Folding(step, base, A, B) == base \in A /\ step \in [A \X B -> A]

\* The fold of the community modules, with step as a function.
Left(step, base, seq) == FoldLeft(LAMBDA a, b : step[<<a, b>>], base, seq)

\* The recursion by which FoldLeft is defined.
IsLeft(F, step, base, seq) ==
  F = [s \in SUBSET DOMAIN seq |->
         IF s = {} THEN base ELSE step[<<F[s \ {Max(s)}], seq[Max(s)]>>]]

\* The recursive function by which FoldLeft is defined exists.
LEMMA LeftExists ==
  ASSUME NEW A, NEW B, NEW base, NEW step, Folding(step, base, A, B), NEW seq \in Seq(B)
  PROVE  \E F \in [SUBSET DOMAIN seq -> A] : IsLeft(F, step, base, seq)
<1> USE DEF Folding
<1> DEFINE S == DOMAIN seq
           choice == [s \in (SUBSET S) \ {{}} |-> Max(s)]
           flip == [p \in S \X A |-> step[<<p[2], seq[p[1]]>>]]
<1>1. S = 1..Len(seq) /\ Len(seq) \in Nat /\ IsFiniteSet(S) /\ \A i \in S : seq[i] \in B
  BY FS_Interval
<1>2. \A s \in (SUBSET S) \ {{}} : Max(s) \in s
  BY <1>1, MaxIndex
<1> HIDE DEF S
<1>3. choice \in Choice(S)
  BY <1>2 DEF Choice
<1>4. flip \in [S \X A -> A]
  BY <1>1
<1>5. PICK F \in [SUBSET S -> A] : IsFold(F, S, choice, flip, base)
  <2> HIDE DEF choice, flip
  <2> QED
    BY <1>1, <1>3, <1>4, FoldExists
<1>6. ASSUME NEW s \in SUBSET S
      PROVE  F[s] = IF s = {} THEN base ELSE step[<<F[s \ {Max(s)}], seq[Max(s)]>>]
  <2>1. F[s] = IF s = {} THEN base ELSE flip[<<choice[s], F[s \ {choice[s]}]>>]
    <3> HIDE DEF choice, flip
    <3> QED BY <1>5 DEF IsFold
  <2>2. CASE s # {}
    <3>1. choice[s] = Max(s) /\ Max(s) \in S /\ F[s \ {Max(s)}] \in A
      BY <1>2, <1>5, <2>2
    <3>2. flip[<<Max(s), F[s \ {Max(s)}]>>] = step[<<F[s \ {Max(s)}], seq[Max(s)]>>]
      BY <3>1
    <3> HIDE DEF choice, flip
    <3> QED BY <2>1, <2>2, <3>1, <3>2
  <2> QED
    BY <2>1, <2>2
<1>7. IsLeft(F, step, base, seq)
  BY <1>5, <1>6 DEF IsLeft, S
<1> QED
  BY <1>5, <1>7 DEF S

\* F folds the prefixes of seq one after the other.
Steps(F, step, base, seq) ==
  /\ F[{}] = base
  /\ \A k \in 1..Len(seq) : F[1..k] = step[<<F[1..(k - 1)], seq[k]>>]

\* The same, for as long as what has been made is in A.
TypedSteps(G, step, base, seq, A) ==
  /\ G[{}] = base
  /\ \A k \in 1..Len(seq) :
       G[1..(k - 1)] \in A => G[1..k] = step[<<G[1..(k - 1)], seq[k]>>]

\* That function takes the prefixes of seq one after the other.
LEMMA LeftStep ==
  ASSUME NEW B, NEW base, NEW step, NEW seq \in Seq(B), NEW F, IsLeft(F, step, base, seq)
  PROVE  Steps(F, step, base, seq)
<1>1. F[{}] = base
  BY DEF IsLeft
<1>2. ASSUME NEW k \in 1..Len(seq) PROVE F[1..k] = step[<<F[1..(k - 1)], seq[k]>>]
  <2>1. 1..k \in SUBSET DOMAIN seq /\ 1..k # {} /\ k \in Nat /\ 1..k \in SUBSET (1..k)
    OBVIOUS
  <2>2. Max(1..k) = k
    <3>1. Max(1..k) \in 1..k /\ \A y \in 1..k : y <= Max(1..k)
      BY <2>1, MaxIndex, Zenon
    <3> QED
      BY <3>1
  <2>3. (1..k) \ {k} = 1..(k - 1)
    OBVIOUS
  <2>4. F[1..k] = step[<<F[(1..k) \ {Max(1..k)}], seq[Max(1..k)]>>]
    BY <2>1 DEF IsLeft
  <2> QED
    BY <2>2, <2>3, <2>4
<1> QED
  BY <1>1, <1>2 DEF Steps

\* Two such functions agree on the whole sequence, when the one steps everywhere and
\* the other as long as what it has made is in A.
LEMMA StepsAgree ==
  ASSUME NEW A, NEW B, NEW base, NEW step, Folding(step, base, A, B), NEW seq \in Seq(B),
         NEW F, Steps(F, step, base, seq), NEW G, TypedSteps(G, step, base, seq, A)
  PROVE  G[1..Len(seq)] = F[1..Len(seq)] /\ F[1..Len(seq)] \in A
<1> USE DEF Folding, TypedSteps
<1> DEFINE P == {k \in Nat : k <= Len(seq) => F[1..k] \in A /\ G[1..k] = F[1..k]}
<1>1. 0 \in P
  <2>1. 1..0 = {} /\ F[{}] = base
    BY DEF Steps
  <2> QED
    BY <2>1
<1>2. ASSUME NEW k \in P PROVE k + 1 \in P
  <2>1. k \in Nat /\ (k + 1) - 1 = k
    OBVIOUS
  <2> SUFFICES ASSUME k + 1 <= Len(seq)
               PROVE  F[1..(k + 1)] \in A /\ G[1..(k + 1)] = F[1..(k + 1)]
    BY <2>1
  <2>2. k + 1 \in 1..Len(seq) /\ seq[k + 1] \in B
    BY <2>1
  <2>3. F[1..k] \in A /\ G[1..k] = F[1..k]
    BY <2>1
  <2>4. F[1..(k + 1)] = step[<<F[1..k], seq[k + 1]>>]
    BY <2>1, <2>2 DEF Steps
  <2>5. G[1..(k + 1)] = step[<<G[1..k], seq[k + 1]>>]
    BY <2>1, <2>2, <2>3
  <2>6. step[<<F[1..k], seq[k + 1]>>] \in A
    BY <2>2, <2>3
  <2> QED
    BY <2>3, <2>4, <2>5, <2>6
<1>3. P = Nat
  <2>1. P \in SUBSET Nat
    OBVIOUS
  <2> HIDE DEF P
  <2> QED
    BY <1>1, <1>2, <2>1, Induction
<1>4. Len(seq) \in P
  BY <1>3
<1> QED
  BY <1>4

\* What a left fold returns is the last of its steps, and in A.
LEMMA LeftIs ==
  ASSUME NEW A, NEW B, NEW base, NEW step, Folding(step, base, A, B), NEW seq \in Seq(B)
  PROVE  \E F : /\ Steps(F, step, base, seq)
                /\ F[1..Len(seq)] = Left(step, base, seq)
                /\ Left(step, base, seq) \in A
<1>1. \E F : IsLeft(F, step, base, seq)
  BY LeftExists
<1> DEFINE C == CHOOSE G : IsLeft(G, step, base, seq)
<1>2. Left(step, base, seq) = C[DOMAIN seq]
  BY Zenon DEF Left, FoldLeft, MapThenFoldSet, IsLeft
<1>3. IsLeft(C, step, base, seq)
  BY <1>1, Zenon
<1> HIDE DEF C
<1>4. DOMAIN seq = 1..Len(seq) /\ Len(seq) \in Nat
  OBVIOUS
<1>5. Steps(C, step, base, seq)
  BY <1>3, LeftStep
<1>6. C[1..Len(seq)] \in A
  <2>1. TypedSteps(C, step, base, seq, A)
    BY <1>5 DEF Steps, TypedSteps
  <2> QED
    BY <1>5, <2>1, StepsAgree
<1> QED
  BY <1>2, <1>4, <1>5, <1>6

\* A function that steps as long as what it has made is in A ends with the fold.
LEMMA TypedIsLeft ==
  ASSUME NEW A, NEW B, NEW base, NEW step, Folding(step, base, A, B), NEW seq \in Seq(B),
         NEW F, TypedSteps(F, step, base, seq, A)
  PROVE  F[DOMAIN seq] = Left(step, base, seq)
<1>1. PICK G : Steps(G, step, base, seq) /\ G[1..Len(seq)] = Left(step, base, seq)
  BY LeftIs
<1>2. F[1..Len(seq)] = G[1..Len(seq)]
  BY <1>1, StepsAgree
<1>3. DOMAIN seq = 1..Len(seq)
  OBVIOUS
<1> QED
  BY <1>1, <1>2, <1>3

\* A left fold of nothing is its base, a fold is in A, and a sequence with one more
\* element takes one more step.
LEMMA LeftLaws ==
  ASSUME NEW A, NEW B, NEW base, NEW step, Folding(step, base, A, B)
  PROVE  /\ Left(step, base, <<>>) = base
         /\ \A seq \in Seq(B) : Left(step, base, seq) \in A
         /\ \A seq \in Seq(B), e \in B :
              Left(step, base, Append(seq, e)) = step[<<Left(step, base, seq), e>>]
<1>1. Left(step, base, <<>>) = base
  <2>1. ASSUME NEW seq \in Seq(B), Len(seq) = 0 PROVE Left(step, base, seq) = base
    <3>1. PICK F : Steps(F, step, base, seq) /\ F[1..Len(seq)] = Left(step, base, seq)
      BY LeftIs
    <3>2. 1..Len(seq) = {}
      BY <2>1
    <3> QED
      BY <3>1, <3>2 DEF Steps
  <2>2. <<>> \in Seq(B) /\ Len(<<>>) = 0
    OBVIOUS
  <2> QED
    BY <2>1, <2>2
<1>2. ASSUME NEW seq \in Seq(B) PROVE Left(step, base, seq) \in A
  BY LeftIs
<1>3. ASSUME NEW seq \in Seq(B), NEW e \in B
      PROVE  Left(step, base, Append(seq, e)) = step[<<Left(step, base, seq), e>>]
  <2> DEFINE long == Append(seq, e)
             n == Len(seq)
  <2>1. /\ long \in Seq(B) /\ n \in Nat /\ Len(long) = n + 1 /\ long[n + 1] = e
        /\ \A k \in 1..n : long[k] = seq[k]
        /\ \A k \in 1..n : k \in 1..(n + 1)
        /\ n + 1 \in 1..(n + 1)
        /\ (n + 1) - 1 = n
    OBVIOUS
  <2> HIDE DEF long
  <2>2. PICK F : /\ Steps(F, step, base, long)
                 /\ F[1..Len(long)] = Left(step, base, long)
    BY <2>1, LeftIs
  <2>3. PICK G : Steps(G, step, base, seq) /\ G[1..n] = Left(step, base, seq)
    BY LeftIs
  <2>4. F[1..n] = G[1..n]
    <3>1. TypedSteps(F, step, base, seq, A)
      BY <2>1, <2>2 DEF Steps, TypedSteps
    <3> QED
      BY <2>3, <3>1, StepsAgree
  <2>5. F[1..(n + 1)] = step[<<F[1..n], e>>]
    BY <2>1, <2>2 DEF Steps
  <2> QED
    BY <2>1, <2>2, <2>3, <2>4, <2>5 DEF long
<1> QED
  BY <1>1, <1>2, <1>3

\* The prefixes of 1..n that a left fold goes through.
LEMMA Prefix ==
  ASSUME NEW n \in Nat, NEW k \in 1..n
  PROVE  /\ 1..k \in SUBSET (1..n) /\ 1..k # {}
         /\ Max(1..k) = k /\ (1..k) \ {k} = 1..(k - 1)
<1>1. 1..k \in SUBSET (1..n) /\ 1..k # {} /\ (1..k) \ {k} = 1..(k - 1)
  OBVIOUS
<1>2. Max(1..k) \in 1..k /\ \A y \in 1..k : y <= Max(1..k)
  BY <1>1, MaxIndex, Zenon
<1> QED
  BY <1>1, <1>2

\* Where a set of indexes ends, there is a value.
LEMMA LastValue ==
  ASSUME NEW B, NEW s \in Seq(B), NEW t \in SUBSET DOMAIN s, t # {}
  PROVE  Max(t) \in DOMAIN s /\ s[Max(t)] \in B
<1>1. DOMAIN s = 1..Len(s) /\ Len(s) \in Nat
  OBVIOUS
<1>2. t \in SUBSET (1..Len(s))
  BY <1>1
<1>3. Max(t) \in t
  BY <1>1, <1>2, MaxIndex
<1> QED
  BY <1>3

-----------------------------------------------------------------------------
(* Sequences. *)

\* The elements of a sequence with one more.
LEMMA AppendElements ==
  ASSUME NEW B, NEW s \in Seq(B), NEW v \in B
  PROVE  /\ Append(s, v) \in Seq(B) /\ Len(Append(s, v)) = Len(s) + 1
         /\ Append(s, v)[Len(s) + 1] = v
         /\ \A i \in 1..Len(s) : Append(s, v)[i] = s[i]
         /\ ToSet(Append(s, v)) = ToSet(s) \cup {v}
<1>1. /\ Append(s, v) \in Seq(B) /\ Len(Append(s, v)) = Len(s) + 1
      /\ Append(s, v)[Len(s) + 1] = v
      /\ \A i \in 1..Len(s) : Append(s, v)[i] = s[i]
  OBVIOUS
<1>2. DOMAIN Append(s, v) = 1..(Len(s) + 1) /\ DOMAIN s = 1..Len(s) /\ Len(s) \in Nat
  OBVIOUS
<1>3. ToSet(Append(s, v)) = ToSet(s) \cup {v}
  <2>1. ASSUME NEW x \in ToSet(Append(s, v)) PROVE x \in ToSet(s) \cup {v}
    <3>1. PICK i \in 1..(Len(s) + 1) : x = Append(s, v)[i]
      BY <1>2 DEF ToSet
    <3> QED
      BY <1>1, <1>2, <3>1 DEF ToSet
  <2>2. ASSUME NEW x \in ToSet(s) PROVE x \in ToSet(Append(s, v))
    <3>1. PICK i \in 1..Len(s) : x = s[i]
      BY <1>2 DEF ToSet
    <3>2. i \in 1..(Len(s) + 1)
      BY <1>2
    <3> QED
      BY <1>1, <1>2, <3>1, <3>2 DEF ToSet
  <2>3. v \in ToSet(Append(s, v))
    <3>1. Len(s) + 1 \in 1..(Len(s) + 1)
      BY <1>2
    <3> QED
      BY <1>1, <1>2, <3>1 DEF ToSet
  <2> QED
    BY <2>1, <2>2, <2>3
<1> QED
  BY <1>1, <1>3

\* The elements of two sequences, one behind the other.
LEMMA Longer ==
  ASSUME NEW B, NEW s \in Seq(B), NEW t \in Seq(B)
  PROVE  /\ s \o t \in Seq(B) /\ Len(s \o t) = Len(s) + Len(t)
         /\ \A i \in 1..Len(s) : (s \o t)[i] = s[i]
         /\ \A i \in 1..Len(t) : (s \o t)[Len(s) + i] = t[i]
  OBVIOUS

\* What lies behind the first f elements of two sequences.
LEMMA Behind ==
  ASSUME NEW B, NEW s \in Seq(B), NEW t \in Seq(B), NEW f \in 0..Len(s)
  PROVE  /\ SubSeq(s, f + 1, Len(s)) \in Seq(B)
         /\ SubSeq(s \o t, f + 1, Len(s \o t)) = SubSeq(s, f + 1, Len(s)) \o t
         /\ SubSeq(s \o t, f + 1, Len(s)) = SubSeq(s, f + 1, Len(s))
<1>1. /\ Len(s) \in Nat /\ Len(t) \in Nat /\ f \in Nat /\ f <= Len(s)
      /\ s \o t \in Seq(B) /\ Len(s \o t) = Len(s) + Len(t)
  OBVIOUS
<1>2. /\ \A i \in 1..Len(s) : (s \o t)[i] = s[i]
      /\ \A i \in 1..Len(t) : (s \o t)[Len(s) + i] = t[i]
  OBVIOUS
<1> DEFINE a == SubSeq(s, f + 1, Len(s))
           b == SubSeq(s \o t, f + 1, Len(s \o t))
           c == SubSeq(s \o t, f + 1, Len(s))
<1>3. /\ a \in Seq(B) /\ Len(a) = Len(s) - f
      /\ \A i \in 1..Len(a) : a[i] = s[f + i]
  BY <1>1
<1>4. /\ b \in Seq(B) /\ Len(b) = (Len(s) + Len(t)) - f
      /\ \A i \in 1..Len(b) : b[i] = (s \o t)[f + i]
  BY <1>1
<1>5. /\ c \in Seq(B) /\ Len(c) = Len(s) - f
      /\ \A i \in 1..Len(c) : c[i] = (s \o t)[f + i]
  BY <1>1
<1> HIDE DEF a, b, c
<1>6. /\ a \o t \in Seq(B) /\ Len(a \o t) = Len(a) + Len(t)
      /\ \A i \in 1..Len(a) : (a \o t)[i] = a[i]
      /\ \A i \in 1..Len(t) : (a \o t)[Len(a) + i] = t[i]
  <2>1. a \in Seq(B)
    BY <1>3
  <2> QED
    BY <2>1, Longer
<1>7. ASSUME NEW i \in 1..Len(b) PROVE b[i] = (a \o t)[i]
  <2>1. CASE i <= Len(a)
    <3>1. i \in 1..Len(a) /\ f + i \in 1..Len(s)
      BY <1>1, <1>3, <2>1
    <3> QED
      BY <1>2, <1>3, <1>4, <1>6, <3>1
  <2>2. CASE i > Len(a)
    <3>1. i - Len(a) \in 1..Len(t)
      BY <1>1, <1>3, <1>4, <2>2
    <3>2. Len(a) + (i - Len(a)) = i /\ Len(s) + (i - Len(a)) = f + i
      BY <1>1, <1>3
    <3>3. (a \o t)[i] = t[i - Len(a)]
      BY <1>6, <3>1, <3>2
    <3>4. (s \o t)[f + i] = t[i - Len(a)]
      BY <1>2, <3>1, <3>2
    <3> QED
      BY <1>4, <3>3, <3>4
  <2>3. i \in Int /\ Len(a) \in Int
    BY <1>1, <1>3, <1>4
  <2>4. i <= Len(a) \/ i > Len(a)
    BY <2>3
  <2> QED
    BY <2>1, <2>2, <2>4
<1>8. b = a \o t
  <2>1. Len(b) = Len(a \o t)
    BY <1>1, <1>3, <1>4, <1>6
  <2> DEFINE r == a \o t
  <2>2. r \in Seq(B) /\ Len(b) = Len(r) /\ \A i \in 1..Len(b) : b[i] = r[i]
    BY <1>6, <1>7, <2>1
  <2> HIDE DEF r
  <2>3. b = r
    BY <1>4, <2>2
  <2> QED
    BY <2>3 DEF r
<1>9. c = a
  <2>1. ASSUME NEW i \in 1..Len(a) PROVE c[i] = a[i]
    <3>1. f + i \in 1..Len(s)
      BY <1>1, <1>3
    <3> QED
      BY <1>2, <1>3, <1>5, <3>1
  <2>2. c \in Seq(B) /\ a \in Seq(B) /\ Len(c) = Len(a)
    BY <1>3, <1>5
  <2> QED
    BY <2>1, <2>2
<1> QED
  BY <1>3, <1>8, <1>9 DEF a, b, c

\* A sequence is what its elements make of it, the last one put at the end.
LEMMA FrontAndLast ==
  ASSUME NEW B, NEW s \in Seq(B), NEW n \in Nat, Len(s) = n + 1,
         NEW t \in Seq(B), Len(t) = n, \A k \in 1..n : t[k] = s[k]
  PROVE  s = Append(t, s[n + 1])
<1>1. s[n + 1] \in B
  OBVIOUS
<1> DEFINE v == s[n + 1]
           r == Append(t, v)
<1> HIDE DEF v
<1>2. v \in B
  BY <1>1 DEF v
<1>3. r \in Seq(B) /\ Len(r) = n + 1 /\ r[n + 1] = v /\ \A k \in 1..n : r[k] = t[k]
  BY <1>2, AppendElements
<1> HIDE DEF r
<1>4. ASSUME NEW k \in 1..(n + 1) PROVE r[k] = s[k]
  <2>1. k \in 1..n \/ k = n + 1
    OBVIOUS
  <2> QED
    BY <1>3, <2>1 DEF v
<1>5. s = r
  BY <1>3, <1>4
<1> QED
  BY <1>5 DEF r, v

\* Induction over sequences, for a set of them.
LEMMA SeqInduction ==
  ASSUME NEW B, NEW P \in SUBSET Seq(B), <<>> \in P,
         \A s \in P, e \in B : Append(s, e) \in P
  PROVE  P = Seq(B)
<1> DEFINE N == {n \in Nat : \A s \in Seq(B) : Len(s) = n => s \in P}
<1>1. 0 \in N
  OBVIOUS
<1>2. ASSUME NEW n \in N PROVE n + 1 \in N
  <2> SUFFICES ASSUME NEW s \in Seq(B), Len(s) = n + 1 PROVE s \in P
    OBVIOUS
  <2> DEFINE t == SubSeq(s, 1, n)
  <2>1. /\ n \in Nat /\ t \in Seq(B) /\ Len(t) = n /\ s[n + 1] \in B
    OBVIOUS
  <2>2. s = Append(t, s[n + 1])
    <3>1. \A k \in 1..n : t[k] = s[k]
      BY <2>1
    <3> HIDE DEF t
    <3> QED
      BY <2>1, <3>1, FrontAndLast
  <2>3. t \in P
    BY <2>1
  <2> HIDE DEF t
  <2> QED
    BY <2>1, <2>2, <2>3
<1>3. N = Nat
  <2>1. N \in SUBSET Nat
    OBVIOUS
  <2> HIDE DEF N
  <2> QED
    BY <1>1, <1>2, <2>1, Induction
<1>4. ASSUME NEW s \in Seq(B) PROVE s \in P
  <2>1. Len(s) \in N
    BY <1>3
  <2> QED
    BY <2>1
<1> QED
  BY <1>4

-----------------------------------------------------------------------------
(* Sums over finite sets.                                                  *)

\* The sum of the weights of the elements of S.
Total(w, S) == MapThenSumSet(LAMBDA x : w[x], S)

\* The recursion by which MapThenSumSet is defined.
IsSum(F, w, S) ==
  F = [s \in SUBSET S |->
         IF s = {} THEN 0
         ELSE w[CHOOSE x \in s : TRUE] + F[s \ {CHOOSE x \in s : TRUE}]]

\* There is a sum: the set is finite and its elements weigh something.
Weighing(w, S) == IsFiniteSet(S) /\ \A x \in S : w[x] \in Int

\* Induction over the parts of a finite set: a set of them that holds the empty one, and
\* each one that it holds with any element taken out, holds them all.
LEMMA SetInduction ==
  ASSUME NEW S, IsFiniteSet(S), NEW P \in SUBSET SUBSET S, {} \in P,
         \A s \in SUBSET S : s # {} /\ (\A x \in s : s \ {x} \in P) => s \in P
  PROVE  P = SUBSET S
<1> DEFINE N == {n \in Nat : \A s \in SUBSET S : Cardinality(s) = n => s \in P}
<1>1. ASSUME NEW s \in SUBSET S
      PROVE  /\ IsFiniteSet(s) /\ Cardinality(s) \in Nat
             /\ Cardinality(s) = 0 <=> s = {}
             /\ \A x \in s : Cardinality(s \ {x}) = Cardinality(s) - 1
  <2>1. IsFiniteSet(s)
    BY FS_Subset
  <2> QED
    BY <2>1, FS_CardinalityType, FS_EmptySet, FS_RemoveElement
<1>2. 0 \in N
  BY <1>1
<1>3. ASSUME NEW n \in N PROVE n + 1 \in N
  <2> SUFFICES ASSUME NEW s \in SUBSET S, Cardinality(s) = n + 1 PROVE s \in P
    OBVIOUS
  <2>1. n \in Nat /\ s # {}
    BY <1>1
  <2>2. ASSUME NEW x \in s PROVE s \ {x} \in P
    <3>1. Cardinality(s \ {x}) = n /\ s \ {x} \in SUBSET S
      BY <1>1, <2>1
    <3> QED
      BY <3>1
  <2> QED
    BY <2>1, <2>2
<1>4. N = Nat
  <2>1. N \in SUBSET Nat
    OBVIOUS
  <2> HIDE DEF N
  <2> QED
    BY <1>2, <1>3, <2>1, Induction
<1>5. ASSUME NEW s \in SUBSET S PROVE s \in P
  <2>1. Cardinality(s) \in N
    BY <1>1, <1>4
  <2> QED
    BY <2>1
<1> QED
  BY <1>5

\* The recursion has a solution over every finite set.
LEMMA SumExists ==
  ASSUME NEW w, NEW S, Weighing(w, S)
  PROVE  \E F \in [SUBSET S -> Int] : IsSum(F, w, S)
<1> DEFINE choice == [s \in (SUBSET S) \ {{}} |-> CHOOSE x \in s : TRUE]
           step == [p \in S \X Int |-> w[p[1]] + p[2]]
<1>1. IsFiniteSet(S) /\ \A x \in S : w[x] \in Int
  BY DEF Weighing
<1>2. \A s \in (SUBSET S) \ {{}} : (CHOOSE x \in s : TRUE) \in s
  OBVIOUS
<1>3. choice \in Choice(S)
  BY <1>2 DEF Choice
<1>4. step \in [S \X Int -> Int]
  BY <1>1
<1>5. PICK F \in [SUBSET S -> Int] : IsFold(F, S, choice, step, 0)
  <2>1. 0 \in Int
    OBVIOUS
  <2> HIDE DEF choice, step
  <2> QED
    BY <1>1, <1>3, <1>4, <2>1, FoldExists
<1>6. ASSUME NEW s \in SUBSET S
      PROVE  F[s] = IF s = {} THEN 0
                    ELSE w[CHOOSE x \in s : TRUE] + F[s \ {CHOOSE x \in s : TRUE}]
  <2>1. F[s] = IF s = {} THEN 0 ELSE step[<<choice[s], F[s \ {choice[s]}]>>]
    <3> HIDE DEF choice, step
    <3> QED
      BY <1>5 DEF IsFold
  <2>2. CASE s # {}
    <3> DEFINE c == CHOOSE x \in s : TRUE
    <3>1. choice[s] = c /\ c \in s
      BY <1>2, <2>2
    <3> HIDE DEF c, choice
    <3>2. c \in S /\ F[s \ {c}] \in Int
      BY <1>5, <3>1
    <3>3. step[<<c, F[s \ {c}]>>] = w[c] + F[s \ {c}]
      BY <3>2
    <3> HIDE DEF step
    <3>4. F[s] = w[c] + F[s \ {c}]
      BY <2>1, <2>2, <3>1, <3>3
    <3> QED
      BY <2>2, <3>4 DEF c
  <2> QED
    BY <2>1, <2>2
<1>7. IsSum(F, w, S)
  BY <1>5, <1>6 DEF IsSum
<1> QED
  BY <1>5, <1>7

\* It is one recursion, whatever set it starts from.
LEMMA SumsAgree ==
  ASSUME NEW w, NEW S, IsFiniteSet(S), NEW T \in SUBSET S,
         NEW F, IsSum(F, w, S), NEW G, IsSum(G, w, T)
  PROVE  G[T] = F[T]
<1> DEFINE P == {s \in SUBSET T : G[s] = F[s]}
<1>1. IsFiniteSet(T) /\ SUBSET T \subseteq SUBSET S
  BY FS_Subset
<1>2. {} \in P
  BY DEF IsSum
<1>3. ASSUME NEW s \in SUBSET T, s # {}, \A x \in s : s \ {x} \in P
      PROVE  s \in P
  <2> DEFINE c == CHOOSE x \in s : TRUE
  <2>1. c \in s
    BY <1>3
  <2>2. G[s] = w[c] + G[s \ {c}]
    BY <1>3 DEF IsSum
  <2>3. F[s] = w[c] + F[s \ {c}]
    BY <1>1, <1>3 DEF IsSum
  <2> HIDE DEF c
  <2>4. G[s \ {c}] = F[s \ {c}]
    BY <1>3, <2>1
  <2> QED
    BY <2>2, <2>3, <2>4
<1>4. P = SUBSET T
  <2>1. P \in SUBSET SUBSET T
    OBVIOUS
  <2> HIDE DEF P
  <2> QED
    BY <1>1, <1>2, <1>3, <2>1, SetInduction
<1> QED
  BY <1>4

\* A total is what the recursion gives, for every part of the set.
LEMMA TotalIs ==
  ASSUME NEW w, NEW S, IsFiniteSet(S), NEW F, IsSum(F, w, S), NEW T \in SUBSET S, Weighing(w, T)
  PROVE  Total(w, T) = F[T]
<1> DEFINE C == CHOOSE G : IsSum(G, w, T)
<1>1. Total(w, T) = C[T]
  BY Zenon DEF Total, MapThenSumSet, MapThenFoldSet, IsSum
<1>2. IsSum(C, w, T)
  <2>1. \E G : IsSum(G, w, T)
    BY SumExists
  <2> QED
    BY <2>1, Zenon
<1> HIDE DEF C
<1>3. C[T] = F[T]
  BY <1>2, SumsAgree
<1> QED
  BY <1>1, <1>3

\* The total is a number, none for the empty set; the element that is chosen first adds its
\* weight.
LEMMA TotalChoice ==
  ASSUME NEW w, NEW S, Weighing(w, S)
  PROVE  /\ Total(w, S) \in Int
         /\ S = {} => Total(w, S) = 0
         /\ S # {} => LET c == CHOOSE x \in S : TRUE
                      IN  c \in S /\ Total(w, S) = w[c] + Total(w, S \ {c})
<1>1. IsFiniteSet(S) /\ \A x \in S : w[x] \in Int
  BY DEF Weighing
<1>2. PICK F \in [SUBSET S -> Int] : IsSum(F, w, S)
  BY SumExists
<1>3. \A T \in SUBSET S : Total(w, T) = F[T]
  <2> SUFFICES ASSUME NEW T \in SUBSET S PROVE Total(w, T) = F[T]
    OBVIOUS
  <2>1. Weighing(w, T)
    BY <1>1, FS_Subset DEF Weighing
  <2> QED
    BY <1>1, <1>2, <2>1, TotalIs
<1>4. S # {} => F[S] = w[CHOOSE x \in S : TRUE] + F[S \ {CHOOSE x \in S : TRUE}]
  BY <1>2 DEF IsSum
<1>5. S = {} => F[S] = 0
  BY <1>2 DEF IsSum
<1> QED
  BY <1>2, <1>3, <1>4, <1>5

\* What can be summed can be summed in part.
LEMMA Part ==
  ASSUME NEW w, NEW S, Weighing(w, S), NEW T \in SUBSET S
  PROVE  Weighing(w, T)
  BY FS_Subset DEF Weighing

\* So does any other element: the order in which they are chosen does not matter.
LEMMA TotalTake ==
  ASSUME NEW w, NEW S, Weighing(w, S), NEW x \in S
  PROVE  /\ Total(w, S) = w[x] + Total(w, S \ {x})
         /\ Total(w, S \ {x}) \in Int /\ w[x] \in Int
<1> DEFINE P == {s \in SUBSET S : \A y \in s : Total(w, s) = w[y] + Total(w, s \ {y})}
<1>1. IsFiniteSet(S) /\ \A y \in S : w[y] \in Int
  BY DEF Weighing
<1>2. \A s \in SUBSET S : Total(w, s) \in Int
  BY Part, TotalChoice
<1>3. {} \in P
  OBVIOUS
<1>4. ASSUME NEW s \in SUBSET S, s # {}, \A y \in s : s \ {y} \in P
      PROVE  s \in P
  <2> SUFFICES ASSUME NEW y \in s PROVE Total(w, s) = w[y] + Total(w, s \ {y})
    OBVIOUS
  <2> DEFINE c == CHOOSE z \in s : TRUE
  <2>1. c \in s /\ Total(w, s) = w[c] + Total(w, s \ {c})
    BY <1>4, Part, TotalChoice
  <2> HIDE DEF c
  <2>2. CASE c = y
    BY <2>1, <2>2
  <2>3. CASE c # y
    <3>1. Total(w, s \ {c}) = w[y] + Total(w, (s \ {c}) \ {y})
      BY <1>4, <2>1, <2>3
    <3>2. Total(w, s \ {y}) = w[c] + Total(w, (s \ {y}) \ {c})
      BY <1>4, <2>1, <2>3
    <3>3. (s \ {c}) \ {y} = (s \ {y}) \ {c}
      OBVIOUS
    <3>4. w[c] \in Int /\ w[y] \in Int /\ Total(w, (s \ {y}) \ {c}) \in Int
      BY <1>1, <1>2, <2>1
    <3> DEFINE X == Total(w, (s \ {y}) \ {c})
    <3>5. Total(w, s) = w[c] + (w[y] + X) /\ Total(w, s \ {y}) = w[c] + X
      BY <2>1, <3>1, <3>2, <3>3
    <3> HIDE DEF X
    <3> QED
      BY <3>4, <3>5 DEF X
  <2> QED
    BY <2>2, <2>3
<1>5. P = SUBSET S
  <2>1. P \in SUBSET SUBSET S
    OBVIOUS
  <2> HIDE DEF P
  <2> QED
    BY <1>1, <1>3, <1>4, <2>1, SetInduction
<1>6. S \in P
  BY <1>5
<1> QED
  BY <1>1, <1>2, <1>6

\* The total with an element more.
LEMMA TotalAdd ==
  ASSUME NEW w, NEW S, NEW x, x \notin S, Weighing(w, S \cup {x})
  PROVE  /\ Total(w, S \cup {x}) = Total(w, S) + w[x]
         /\ Total(w, S) \in Int /\ w[x] \in Int /\ Weighing(w, S)
<1>1. x \in S \cup {x} /\ (S \cup {x}) \ {x} = S /\ S \in SUBSET (S \cup {x})
  OBVIOUS
<1>2. /\ Total(w, S \cup {x}) = w[x] + Total(w, S)
      /\ Total(w, S) \in Int /\ w[x] \in Int
  BY <1>1, TotalTake
<1>3. Weighing(w, S)
  BY <1>1, Part
<1> QED
  BY <1>2, <1>3

\* The more the elements weigh, the more they weigh together.
LEMMA TotalMonotone ==
  ASSUME NEW S, NEW w, Weighing(w, S), NEW v, Weighing(v, S),
         \A x \in S : w[x] <= v[x]
  PROVE  Total(w, S) <= Total(v, S)
<1> DEFINE P == {s \in SUBSET S : Total(w, s) <= Total(v, s)}
<1>1. IsFiniteSet(S)
  BY DEF Weighing
<1>2. {} \in P
  <2>1. Total(w, {}) = 0 /\ Total(v, {}) = 0
    <3>1. Weighing(w, {}) /\ Weighing(v, {})
      BY Part
    <3> QED
      BY <3>1, TotalChoice
  <2> QED
    BY <2>1
<1>3. ASSUME NEW s \in SUBSET S, s # {}, \A x \in s : s \ {x} \in P
      PROVE  s \in P
  <2>1. PICK x \in s : TRUE
    BY <1>3
  <2>2. /\ Total(w, s) = w[x] + Total(w, s \ {x})
        /\ Total(w, s \ {x}) \in Int /\ w[x] \in Int
    <3>1. Weighing(w, s)
      BY Part
    <3> QED
      BY <3>1, TotalTake
  <2>3. /\ Total(v, s) = v[x] + Total(v, s \ {x})
        /\ Total(v, s \ {x}) \in Int /\ v[x] \in Int
    <3>1. Weighing(v, s)
      BY Part
    <3> QED
      BY <3>1, TotalTake
  <2>4. Total(w, s \ {x}) <= Total(v, s \ {x}) /\ w[x] <= v[x]
    BY <1>3
  <2>5. Total(w, s) <= Total(v, s)
    BY <2>2, <2>3, <2>4
  <2> QED
    BY <2>5
<1>4. P = SUBSET S
  <2>1. P \in SUBSET SUBSET S
    OBVIOUS
  <2> HIDE DEF P
  <2> QED
    BY <1>1, <1>2, <1>3, <2>1, SetInduction
<1>5. S \in P
  BY <1>4
<1> QED
  BY <1>5

\* A total looks at the weights of its own elements only.
LEMMA TotalSame ==
  ASSUME NEW S, NEW w, Weighing(w, S), NEW v, \A x \in S : w[x] = v[x]
  PROVE  Total(w, S) = Total(v, S)
<1>1. Weighing(v, S) /\ \A x \in S : w[x] \in Int
  BY DEF Weighing
<1>2. \A x \in S : w[x] <= v[x] /\ v[x] <= w[x]
  BY <1>1
<1>3. Total(w, S) <= Total(v, S) /\ Total(v, S) <= Total(w, S)
  BY <1>1, <1>2, TotalMonotone
<1>4. Total(w, S) \in Int /\ Total(v, S) \in Int
  BY <1>1, TotalChoice
<1> QED
  BY <1>3, <1>4

\* A set is a part and the rest.
LEMMA TotalUnion ==
  ASSUME NEW w, NEW S, Weighing(w, S), NEW T \in SUBSET S
  PROVE  /\ Total(w, S) = Total(w, T) + Total(w, S \ T)
         /\ Total(w, T) \in Int /\ Total(w, S \ T) \in Int /\ Total(w, S) \in Int
<1> DEFINE U == S \ T
           P == {s \in SUBSET U : Total(w, T \cup s) = Total(w, T) + Total(w, s)}
<1>1. \A s \in SUBSET S : Weighing(w, s) /\ Total(w, s) \in Int
  BY Part, TotalChoice
<1>2. IsFiniteSet(U) /\ U \in SUBSET S
  BY <1>1 DEF Weighing
<1>3. {} \in P
  <2>1. Total(w, {}) = 0 /\ T \cup {} = T /\ Total(w, T) \in Int
    BY <1>1, TotalChoice
  <2> QED
    BY <2>1
<1>4. ASSUME NEW s \in SUBSET U, s # {}, \A x \in s : s \ {x} \in P
      PROVE  s \in P
  <2>1. PICK x \in s : TRUE
    BY <1>4
  <2>2. Total(w, s) = w[x] + Total(w, s \ {x}) /\ w[x] \in Int
    BY <1>1, TotalTake
  <2>3. Total(w, T \cup s) = w[x] + Total(w, (T \cup s) \ {x})
    <3>1. x \in T \cup s /\ Weighing(w, T \cup s)
      BY <1>1
    <3> QED
      BY <3>1, TotalTake
  <2>4. (T \cup s) \ {x} = T \cup (s \ {x})
    OBVIOUS
  <2>5. Total(w, T \cup (s \ {x})) = Total(w, T) + Total(w, s \ {x})
    BY <1>4
  <2>6. Total(w, T) \in Int /\ Total(w, s \ {x}) \in Int
    BY <1>1
  <2>7. Total(w, T \cup s) = w[x] + (Total(w, T) + Total(w, s \ {x}))
    BY <2>3, <2>4, <2>5
  <2>8. Total(w, T \cup s) = Total(w, T) + Total(w, s)
    BY <2>2, <2>6, <2>7
  <2> QED
    BY <2>8
<1>5. P = SUBSET U
  <2>1. P \in SUBSET SUBSET U
    OBVIOUS
  <2> HIDE DEF P, U
  <2> QED
    BY <1>2, <1>3, <1>4, <2>1, SetInduction
<1>6. U \in P /\ T \cup U = S
  BY <1>5
<1> QED
  BY <1>1, <1>6

\* The same, for a part and a rest that have names.
LEMMA TotalSplit ==
  ASSUME NEW w, NEW B, Weighing(w, B), NEW D, D \subseteq B, NEW E, B \ D = E
  PROVE  Total(w, B) = Total(w, D) + Total(w, E)
<1>1. D \in SUBSET B
  OBVIOUS
<1> QED
  BY <1>1, TotalUnion

\* Leaving out what weighs nothing, or less than nothing, does not lower the total.
LEMMA TotalDrop ==
  ASSUME NEW w, NEW S, Weighing(w, S), NEW T \in SUBSET S, \A x \in S \ T : w[x] <= 0
  PROVE  Total(w, S) <= Total(w, T)
<1> DEFINE U == S \ T
           P == {s \in SUBSET U : Total(w, s) <= 0}
<1>1. \A s \in SUBSET S : Weighing(w, s) /\ Total(w, s) \in Int
  BY Part, TotalChoice
<1>2. IsFiniteSet(U) /\ U \in SUBSET S
  BY <1>1 DEF Weighing
<1>3. {} \in P
  <2>1. Total(w, {}) = 0
    BY <1>1, TotalChoice
  <2> QED
    BY <2>1
<1>4. ASSUME NEW s \in SUBSET U, s # {}, \A x \in s : s \ {x} \in P
      PROVE  s \in P
  <2>1. PICK x \in s : TRUE
    BY <1>4
  <2>2. Total(w, s) = w[x] + Total(w, s \ {x}) /\ w[x] \in Int /\ Total(w, s \ {x}) \in Int
    BY <1>1, TotalTake
  <2>3. w[x] <= 0 /\ Total(w, s \ {x}) <= 0
    BY <1>4
  <2>4. Total(w, s) <= 0
    BY <2>2, <2>3
  <2> QED
    BY <2>4
<1>5. P = SUBSET U
  <2>1. P \in SUBSET SUBSET U
    OBVIOUS
  <2> HIDE DEF P, U
  <2> QED
    BY <1>2, <1>3, <1>4, <2>1, SetInduction
<1>6. Total(w, U) <= 0
  <2>1. U \in P
    BY <1>5
  <2> QED
    BY <2>1
<1> QED
  BY <1>6, TotalUnion

\* A finite set has finitely many values.
LEMMA ImageFinite ==
  ASSUME NEW S, IsFiniteSet(S), NEW h
  PROVE  IsFiniteSet({h[x] : x \in S})
<1> DEFINE T == {h[x] : x \in S}
           g == [x \in S |-> h[x]]
<1>1. g \in Surjection(S, T)
  BY DEF Surjection
<1> HIDE DEF g, T
<1>2. IsFiniteSet(T)
  BY <1>1, FS_Surjection
<1> QED
  BY <1>2 DEF T

\* The values of a function on a set, and where it has one of them: GROUP BY.
Image(h, S) == {h[x] : x \in S}
Fibre(S, h, r) == {x \in S : h[x] = r}

\* The groups of a set add up to the set.
LEMMA TotalFibres ==
  ASSUME NEW w, NEW S, Weighing(w, S), NEW h, NEW R, R = Image(h, S),
         NEW v, \A r \in R : v[r] = Total(w, Fibre(S, h, r))
  PROVE  Weighing(v, R) /\ Total(v, R) = Total(w, S)
<1> USE DEF Image
<1> DEFINE In(q) == {x \in S : h[x] \in q}
           P == {q \in SUBSET R : Total(v, q) = Total(w, In(q))}
<1>1. \A s \in SUBSET S : Weighing(w, s) /\ Total(w, s) \in Int
  BY Part, TotalChoice
<1>2. IsFiniteSet(R)
  <2>1. IsFiniteSet(S)
    BY DEF Weighing
  <2> QED
    BY <2>1, ImageFinite
<1>3. Weighing(v, R)
  <2>1. ASSUME NEW r \in R PROVE v[r] \in Int
    <3>1. Fibre(S, h, r) \in SUBSET S
      BY DEF Fibre
    <3> QED
      BY <1>1, <3>1
  <2> QED
    BY <1>2, <2>1 DEF Weighing
<1>4. {} \in P
  <2>1. In({}) = {}
    OBVIOUS
  <2>2. Total(v, {}) = 0 /\ Total(w, {}) = 0
    <3>1. Weighing(v, {}) /\ Weighing(w, {})
      BY <1>1, <1>3, Part
    <3> QED
      BY <3>1, TotalChoice
  <2> QED
    BY <2>1, <2>2
<1>5. ASSUME NEW q \in SUBSET R, q # {}, \A r \in q : q \ {r} \in P
      PROVE  q \in P
  <2>1. PICK r \in q : TRUE
    BY <1>5
  <2>2. Total(v, q) = v[r] + Total(v, q \ {r})
    <3>1. Weighing(v, q)
      BY <1>3, Part
    <3> QED
      BY <3>1, TotalTake
  <2> DEFINE T == Fibre(S, h, r)
  <2>3. v[r] = Total(w, T) /\ Total(v, q \ {r}) = Total(w, In(q \ {r}))
    BY <1>5
  <2>4. T \in SUBSET In(q) /\ In(q) \ T = In(q \ {r}) /\ In(q) \in SUBSET S
    BY DEF Fibre
  <2> HIDE DEF T, In
  <2>5. Total(w, In(q)) = Total(w, T) + Total(w, In(q \ {r}))
    <3>1. Weighing(w, In(q))
      BY <1>1, <2>4
    <3> DEFINE B == In(q)  E == In(q \ {r})
    <3>2. Weighing(w, B) /\ T \subseteq B /\ B \ T = E
      BY <2>4, <3>1
    <3> HIDE DEF B, E
    <3>3. Total(w, B) = Total(w, T) + Total(w, E)
      BY <3>2, TotalSplit
    <3> QED
      BY <3>3 DEF B, E
  <2>6. Total(v, q) = Total(w, In(q))
    BY <2>2, <2>3, <2>5
  <2> QED
    BY <2>6
<1>6. P = SUBSET R
  <2>1. P \in SUBSET SUBSET R
    OBVIOUS
  <2> HIDE DEF P
  <2> QED
    BY <1>2, <1>4, <1>5, <2>1, SetInduction
<1>7. R \in P /\ In(R) = S
  BY <1>6
<1> QED
  BY <1>3, <1>7

\* The recursion by which a sum over a sequence is folded from the left.
IsSumLeft(F, w, D) ==
  F = [s \in SUBSET D |-> IF s = {} THEN 0 ELSE F[s \ {Max(s)}] + w[Max(s)]]

\* The sum over a sequence, folded from the left, is the total of its places.
LEMMA SumLeft ==
  ASSUME NEW n \in Nat, NEW w, Weighing(w, 1..n)
  PROVE  /\ \E F : IsSumLeft(F, w, 1..n)
         /\ \A F : IsSumLeft(F, w, 1..n) => F[1..n] = Total(w, 1..n)
<1> DEFINE D == 1..n
<1>1. \A s \in SUBSET D : s # {} => /\ Max(s) \in s
                                    /\ Total(w, s) = Total(w, s \ {Max(s)}) + w[Max(s)]
  <2> SUFFICES ASSUME NEW s \in SUBSET D, s # {}
               PROVE  Max(s) \in s /\ Total(w, s) = Total(w, s \ {Max(s)}) + w[Max(s)]
    OBVIOUS
  <2> DEFINE m == Max(s)
  <2>1. m \in s
    BY MaxIndex
  <2>2. Weighing(w, s)
    BY Part
  <2> HIDE DEF m
  <2>3. Total(w, s) = w[m] + Total(w, s \ {m}) /\ Total(w, s \ {m}) \in Int /\ w[m] \in Int
    BY <2>1, <2>2, TotalTake
  <2>4. Total(w, s) = Total(w, s \ {m}) + w[m]
    BY <2>3
  <2> QED
    BY <2>1, <2>4 DEF m
<1>2. IsFiniteSet(D) /\ Total(w, {}) = 0
  <2>1. Weighing(w, {})
    BY Part
  <2> QED
    BY <2>1, TotalChoice DEF Weighing
<1>3. \E F : IsSumLeft(F, w, D)
  <2> DEFINE T == [s \in SUBSET D |-> Total(w, s)]
  <2>1. \A s \in SUBSET D : s \ {Max(s)} \in SUBSET D
    OBVIOUS
  <2> HIDE DEF D
  <2>2. T = [s \in SUBSET D |-> IF s = {} THEN 0 ELSE T[s \ {Max(s)}] + w[Max(s)]]
    BY <1>1, <1>2, <2>1
  <2>3. IsSumLeft(T, w, D)
    BY <2>2, Zenon DEF IsSumLeft
  <2> QED
    BY <2>3
<1>4. ASSUME NEW F, IsSumLeft(F, w, D) PROVE F[D] = Total(w, D)
  <2> DEFINE P == {s \in SUBSET D : F[s] = Total(w, s)}
  <2> HIDE DEF D
  <2>1. {} \in P
    BY <1>2, <1>4 DEF IsSumLeft
  <2>2. ASSUME NEW s \in SUBSET D, s # {}, \A x \in s : s \ {x} \in P PROVE s \in P
    <3>1. Max(s) \in s /\ Total(w, s) = Total(w, s \ {Max(s)}) + w[Max(s)]
      BY <1>1, <2>2
    <3>2. F[s \ {Max(s)}] = Total(w, s \ {Max(s)})
      BY <2>2, <3>1
    <3>3. F[s] = F[s \ {Max(s)}] + w[Max(s)]
      BY <1>4, <2>2 DEF IsSumLeft
    <3> QED
      BY <3>1, <3>2, <3>3
  <2>3. P = SUBSET D
    <3>1. P \in SUBSET SUBSET D
      OBVIOUS
    <3> HIDE DEF P
    <3> QED
      BY <1>2, <2>1, <2>2, <3>1, SetInduction
  <2> QED
    BY <2>3
<1> QED
  BY <1>3, <1>4

\* One element.
LEMMA TotalOne ==
  ASSUME NEW w, NEW x, w[x] \in Int
  PROVE  Total(w, {x}) = w[x]
<1>1. Weighing(w, {x}) /\ Weighing(w, {})
  BY FS_Singleton, FS_EmptySet DEF Weighing
<1>2. Total(w, {x}) = w[x] + Total(w, {x} \ {x})
  BY <1>1, TotalTake
<1>3. Total(w, {}) = 0 /\ {x} \ {x} = {}
  BY <1>1, TotalChoice
<1> QED
  BY <1>2, <1>3

\* Numbered from one or from k + 1, the places sum to the same.
LEMMA TotalShift ==
  ASSUME NEW n \in Nat, NEW k \in 0..n, NEW w, Weighing(w, 1..n), NEW v,
         \A j \in 1..(n - k) : v[j] = w[k + j]
  PROVE  Weighing(v, 1..(n - k)) /\ Total(v, 1..(n - k)) = Total(w, (k + 1)..n)
<1> DEFINE S == (k + 1)..n
           R == 1..(n - k)
           h == [i \in S |-> i - k]
<1>1. S \in SUBSET (1..n)
  OBVIOUS
<1>2. Weighing(w, S)
  BY <1>1, Part
<1>3. R = Image(h, S)
  <2>1. \A i \in S : h[i] \in R
    OBVIOUS
  <2>2. \A j \in R : k + j \in S /\ h[k + j] = j
    OBVIOUS
  <2> HIDE DEF S, R, h
  <2> QED
    BY <2>1, <2>2 DEF Image
<1>4. ASSUME NEW r \in R PROVE v[r] = Total(w, Fibre(S, h, r))
  <2>1. Fibre(S, h, r) = {k + r} /\ k + r \in S
    BY DEF Fibre
  <2>2. w[k + r] \in Int /\ v[r] = w[k + r]
    BY <1>2, <2>1 DEF Weighing
  <2>3. Total(w, {k + r}) = w[k + r]
    BY <2>2, TotalOne
  <2> QED
    BY <2>1, <2>2, <2>3
<1> HIDE DEF S, R, h
<1>5. Weighing(v, R) /\ Total(v, R) = Total(w, S)
  BY <1>2, <1>3, <1>4, TotalFibres
<1> QED
  BY <1>5 DEF S, R

\* The sum of a sequence with one more element,
LEMMA TotalLonger ==
  ASSUME NEW n \in Nat, NEW w, Weighing(w, 1..n),
         NEW v, \A j \in 1..n : v[j] = w[j], v[n + 1] \in Int
  PROVE  Total(v, 1..(n + 1)) = Total(w, 1..n) + v[n + 1]
<1> DEFINE m == n + 1
           S == 1..n
<1>1. 1..m = S \cup {m} /\ m \notin S
  OBVIOUS
<1>2. Weighing(v, S) /\ Total(w, S) = Total(v, S)
  <2>1. Weighing(w, S) /\ \A j \in S : w[j] = v[j]
    OBVIOUS
  <2> HIDE DEF S
  <2>2. Weighing(v, S)
    BY <2>1 DEF Weighing
  <2> QED
    BY <2>1, <2>2, TotalSame DEF S
<1>3. v[m] \in Int
  OBVIOUS
<1> HIDE DEF S, m
<1>4. Weighing(v, S \cup {m})
  BY <1>2, <1>3, FS_AddElement DEF Weighing
<1>5. Total(v, S \cup {m}) = Total(v, S) + v[m]
  BY <1>1, <1>4, TotalAdd, Zenon
<1> QED
  BY <1>1, <1>2, <1>5 DEF S, m

\* of one that is cut in two,
LEMMA TotalCut ==
  ASSUME NEW n \in Nat, NEW k \in Nat, NEW m \in Nat, n = k + m, NEW w, Weighing(w, 1..n),
         NEW u, \A j \in 1..k : u[j] = w[j],
         NEW v, \A j \in 1..m : v[j] = w[k + j]
  PROVE  Total(w, 1..n) = Total(u, 1..k) + Total(v, 1..m)
<1> DEFINE S == 1..n
           T == 1..k
           U == (k + 1)..n
<1>1. T \subseteq S /\ S \ T = U /\ T \in SUBSET S
  OBVIOUS
<1>2. Total(v, 1..m) = Total(w, U)
  <2>1. k \in 0..n /\ n - k = m
    OBVIOUS
  <2>2. Total(v, 1..(n - k)) = Total(w, (k + 1)..n)
    BY <2>1, TotalShift
  <2> QED
    BY <2>1, <2>2
<1>3. \A j \in T : w[j] = u[j]
  OBVIOUS
<1> HIDE DEF S, T, U
<1>4. Weighing(w, S)
  BY DEF S
<1>5. Weighing(w, T)
  BY <1>1, <1>4, Part
<1>6. Total(w, T) = Total(u, T)
  BY <1>3, <1>5, TotalSame
<1>7. Total(w, S) = Total(w, T) + Total(w, U)
  BY <1>1, <1>4, TotalSplit
<1>8. Total(w, S) = Total(u, T) + Total(v, 1..m)
  BY <1>2, <1>6, <1>7
<1> QED
  BY <1>8 DEF S, T

\* and of one that has another weight at one place.
LEMMA TotalReplace ==
  ASSUME NEW w, NEW S, Weighing(w, S), NEW i \in S,
         NEW v, \A j \in S \ {i} : v[j] = w[j], NEW d \in Int, v[i] = w[i] + d
  PROVE  Total(v, S) = Total(w, S) + d
<1> DEFINE R == S \ {i}
<1>1. Total(w, S) = w[i] + Total(w, R) /\ Total(w, R) \in Int /\ w[i] \in Int
  BY TotalTake
<1>2. Weighing(v, S)
  BY DEF Weighing
<1>3. Total(v, S) = v[i] + Total(v, R)
  BY <1>2, TotalTake
<1>4. Weighing(w, R) /\ \A j \in R : w[j] = v[j]
  BY Part
<1> HIDE DEF R
<1>5. Total(w, R) = Total(v, R)
  BY <1>4, TotalSame
<1> QED
  BY <1>1, <1>3, <1>5

=============================================================================
