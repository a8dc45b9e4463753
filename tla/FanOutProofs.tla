----------------------------- MODULE FanOutProofs -----------------------------
(***************************************************************************)
(* The WaitGroup and the pool do their work: for every number of calls and *)
(* sections and every size of the pool, a response is put together only    *)
(* when the goroutines of its call are done, and holds all they found.     *)
(***************************************************************************)
EXTENDS FanOut, FiniteSetTheorems, TLAPS

\* What a section has found may be of several versions only if it is an empty
\* list of hero products with a total queried later.
Fits(c, s) ==
  \A u, v \in from[c][s] : u.of # v.of => s = Hero /\ u.part # "rows" /\ v.part # "rows"

\* Nothing but the word that there are no rows, all of one query.
OnlyNone(c, s) == \A u, v \in from[c][s] : u.part = "none" /\ u.of = v.of

\* Where a goroutine can be, given where its call is, and what it has stored.
Progress ==
  \A c \in Calls :
    /\ main[c] \in {"wait", "answered"} => \A s \in Workers(c) : at[c][s] # "off"
    /\ \A s \in Sections :
         /\ at[c][s] # "off" => s \in Workers(c)
         /\ at[c][s] \in {"leave", "gone"} =>
              found[c][s] = "nil" \/ result[c][s] = found[c][s]
         /\ at[c][s] = "off" => found[c][s] = "nil"
         /\ at[c][s] \in {"ask", "read"} /\ query[c][s] <= 1 => found[c][s] = "nil"
         \* Whoever still queries has no rows to show yet, so those it will show
         \* come without anything older.
         /\ at[c][s] \in {"off", "ask", "read"} => OnlyNone(c, s)
         /\ Fits(c, s)

Inv == FanOutTypeOK /\ Accounts /\ Progress /\ AnswerComplete

Under == {"ask", "read", "assign", "leave"}

-----------------------------------------------------------------------------
(* Counting goroutines and connections.                                    *)

\* What is counted is finite: the goroutines of a call that are under way, and
\* the connections in use.
LEMMA FiniteParts ==
  /\ \A c \in Calls : IsFiniteSet(Running(c)) /\ Cardinality(Running(c)) \in Nat
  /\ IsFiniteSet(Reading) /\ Cardinality(Reading) \in Nat
<1>1. IsFiniteSet({Hero}) /\ IsFiniteSet({Npl})
  BY FS_Singleton
<1>2. IsFiniteSet({Hero} \cup {Npl})
  BY <1>1, FS_Union
<1>3. {Hero, Npl} = {Hero} \cup {Npl}
  OBVIOUS
<1>4. IsFiniteSet(Sections)
  BY <1>2, <1>3, FS_Union, FanOutAssumption DEF Sections
<1>5. IsFiniteSet(Calls)
  BY FS_Union, FanOutAssumption DEF Calls
<1>6. IsFiniteSet(Calls \X Sections)
  BY <1>4, <1>5, FS_Product
<1>7. IsFiniteSet(Reading) /\ Cardinality(Reading) \in Nat
  BY <1>6, FS_Subset, FS_CardinalityType DEF Reading
<1>8. ASSUME NEW c \in Calls
      PROVE  IsFiniteSet(Running(c)) /\ Cardinality(Running(c)) \in Nat
  BY <1>4, FS_Subset, FS_CardinalityType DEF Running
<1> QED
  BY <1>7, <1>8

\* A goroutine that moves is the only one to change the two sets it may be in.
LEMMA Move ==
  ASSUME FanOutTypeOK, NEW c \in Calls, NEW s \in Sections, NEW new \in Stages,
         at' = [at EXCEPT ![c][s] = new]
  PROVE  /\ Running(c)' = IF new \in Under THEN Running(c) \cup {s} ELSE Running(c) \ {s}
         /\ \A d \in Calls \ {c} : Running(d)' = Running(d)
         /\ Reading' = IF new = "read" THEN Reading \cup {<<c, s>>}
                                       ELSE Reading \ {<<c, s>>}
<1>1. \A d \in Calls, t \in Sections :
        at'[d][t] = IF d = c /\ t = s THEN new ELSE at[d][t]
  BY DEF FanOutTypeOK
<1>2. Running(c)' = IF new \in Under THEN Running(c) \cup {s} ELSE Running(c) \ {s}
  BY <1>1 DEF Running, Under
<1>3. \A d \in Calls \ {c} : Running(d)' = Running(d)
  BY <1>1 DEF Running
<1>4. CASE new = "read"
  <2>1. \A w \in Calls \X Sections : at'[w[1]][w[2]] = "read" <=>
          at[w[1]][w[2]] = "read" \/ w = <<c, s>>
    BY <1>1, <1>4
  <2> QED
    BY <1>2, <1>3, <1>4, <2>1 DEF Reading
<1>5. CASE new # "read"
  <2>1. \A w \in Calls \X Sections : at'[w[1]][w[2]] = "read" <=>
          at[w[1]][w[2]] = "read" /\ w # <<c, s>>
    BY <1>1, <1>5
  <2> QED
    BY <1>2, <1>3, <1>5, <2>1 DEF Reading
<1> QED
  BY <1>4, <1>5

\* And the two counts change by what it leaves and what it enters.
LEMMA Count ==
  ASSUME FanOutTypeOK, NEW c \in Calls, NEW s \in Sections, NEW new \in Stages,
         at' = [at EXCEPT ![c][s] = new]
  PROVE  /\ Cardinality(Running(c)') \in Nat /\ Cardinality(Reading') \in Nat
         /\ Cardinality(Running(c)') = Cardinality(Running(c))
              + (IF new \in Under THEN 1 ELSE 0) - (IF at[c][s] \in Under THEN 1 ELSE 0)
         /\ \A d \in Calls \ {c} : Cardinality(Running(d)') = Cardinality(Running(d))
         /\ Cardinality(Reading') = Cardinality(Reading)
              + (IF new = "read" THEN 1 ELSE 0) - (IF at[c][s] = "read" THEN 1 ELSE 0)
<1>1. s \in Running(c) <=> at[c][s] \in Under
  BY DEF Running, Under
<1>2. <<c, s>> \in Reading <=> at[c][s] = "read"
  BY DEF Reading
<1>3. Cardinality(Running(c)') \in Nat /\ Cardinality(Running(c)') = Cardinality(Running(c))
        + (IF new \in Under THEN 1 ELSE 0) - (IF at[c][s] \in Under THEN 1 ELSE 0)
  <2> DEFINE R == Running(c)
  <2>1. IsFiniteSet(R) /\ Cardinality(R) \in Nat
    BY FiniteParts
  <2>2. /\ Cardinality(R \cup {s}) =
             IF s \in R THEN Cardinality(R) ELSE Cardinality(R) + 1
        /\ Cardinality(R \cup {s}) \in Nat
    BY <2>1, FS_AddElement, FS_CardinalityType
  <2>3. /\ Cardinality(R \ {s}) =
             IF s \in R THEN Cardinality(R) - 1 ELSE Cardinality(R)
        /\ Cardinality(R \ {s}) \in Nat
    BY <2>1, FS_RemoveElement, FS_CardinalityType
  <2>4. Running(c)' = IF new \in Under THEN R \cup {s} ELSE R \ {s}
    BY Move
  <2>5. Cardinality(Running(c)') =
          IF new \in Under THEN Cardinality(R \cup {s}) ELSE Cardinality(R \ {s})
    BY <2>4
  <2>6. s \in R <=> at[c][s] \in Under
    BY <1>1
  <2> HIDE DEF R
  <2>7. Cardinality(Running(c)') \in Nat /\ Cardinality(Running(c)') = Cardinality(R)
          + (IF new \in Under THEN 1 ELSE 0) - (IF at[c][s] \in Under THEN 1 ELSE 0)
    BY <2>1, <2>2, <2>3, <2>5, <2>6
  <2> QED
    BY <2>7 DEF R
<1>4. Cardinality(Reading') \in Nat /\ Cardinality(Reading') = Cardinality(Reading)
        + (IF new = "read" THEN 1 ELSE 0) - (IF at[c][s] = "read" THEN 1 ELSE 0)
  <2> DEFINE R == Reading
  <2>1. IsFiniteSet(R) /\ Cardinality(R) \in Nat
    BY FiniteParts
  <2>2. /\ Cardinality(R \cup {<<c, s>>}) =
             IF <<c, s>> \in R THEN Cardinality(R) ELSE Cardinality(R) + 1
        /\ Cardinality(R \cup {<<c, s>>}) \in Nat
    BY <2>1, FS_AddElement, FS_CardinalityType
  <2>3. /\ Cardinality(R \ {<<c, s>>}) =
             IF <<c, s>> \in R THEN Cardinality(R) - 1 ELSE Cardinality(R)
        /\ Cardinality(R \ {<<c, s>>}) \in Nat
    BY <2>1, FS_RemoveElement, FS_CardinalityType
  <2>4. Reading' = IF new = "read" THEN R \cup {<<c, s>>} ELSE R \ {<<c, s>>}
    BY Move
  <2>5. Cardinality(Reading') =
          IF new = "read" THEN Cardinality(R \cup {<<c, s>>}) ELSE Cardinality(R \ {<<c, s>>})
    BY <2>4
  <2>6. <<c, s>> \in R <=> at[c][s] = "read"
    BY <1>2
  <2> HIDE DEF R
  <2>7. Cardinality(Reading') \in Nat /\ Cardinality(Reading') = Cardinality(R)
          + (IF new = "read" THEN 1 ELSE 0) - (IF at[c][s] = "read" THEN 1 ELSE 0)
    BY <2>1, <2>2, <2>3, <2>5, <2>6
  <2> QED
    BY <2>7 DEF R
<1> QED
  BY <1>3, <1>4, Move

-----------------------------------------------------------------------------
(* The inductive invariant.                                                *)

\* The invariant holds before any call starts a goroutine.
LEMMA InitInv == Init => Inv
<1> SUFFICES ASSUME Init PROVE Inv
  OBVIOUS
<1>1. FanOutTypeOK
  BY FanOutAssumption DEF Init, FanOutTypeOK, Stages, Contents
<1>2. Progress /\ AnswerComplete
  BY DEF Init, Progress, AnswerComplete, OnlyNone, Fits
<1>3. Reading = {} /\ \A c \in Calls : Running(c) = {}
  BY DEF Init, Reading, Running
<1>4. Accounts
  BY <1>3, FS_EmptySet DEF Init, Accounts
<1> QED
  BY <1>1, <1>2, <1>4 DEF Inv

\* The accounts balance after a goroutine moves, if what it did to the
\* WaitGroup and to the pool is what its move does to the two counts.
LEMMA AccountsMove ==
  ASSUME Inv, NEW c \in Calls, NEW s \in Sections, NEW new \in Stages,
         at' = [at EXCEPT ![c][s] = new],
         wg' \in [Calls -> Int],
         \A d \in Calls \ {c} : wg'[d] = wg[d],
         wg'[c] = wg[c] + (IF new \in Under THEN 1 ELSE 0)
                        - (IF at[c][s] \in Under THEN 1 ELSE 0),
         open' = open + (IF new = "read" THEN 1 ELSE 0)
                      - (IF at[c][s] = "read" THEN 1 ELSE 0),
         open' <= Pool
  PROVE  Accounts' /\ wg' \in [Calls -> Nat] /\ open' \in 0..Pool
<1>1. ASSUME NEW d \in Calls
      PROVE  wg'[d] = Cardinality(Running(d)') /\ wg'[d] \in Nat
  <2>1. CASE d = c
    <3>1. /\ Cardinality(Running(c)') \in Nat
          /\ Cardinality(Running(c)') = Cardinality(Running(c))
               + (IF new \in Under THEN 1 ELSE 0) - (IF at[c][s] \in Under THEN 1 ELSE 0)
      BY Count DEF Inv
    <3>2. wg[c] = Cardinality(Running(c))
      BY DEF Inv, Accounts
    <3>3. wg'[c] = wg[c] + (IF new \in Under THEN 1 ELSE 0)
                         - (IF at[c][s] \in Under THEN 1 ELSE 0)
      OBVIOUS
    <3> QED
      BY <2>1, <3>1, <3>2, <3>3
  <2>2. CASE d # c
    <3>1. Cardinality(Running(d)') = Cardinality(Running(d))
      BY <2>2, Count DEF Inv
    <3>2. wg'[d] = wg[d] /\ wg[d] \in Nat /\ wg[d] = Cardinality(Running(d))
      BY <2>2 DEF Inv, FanOutTypeOK, Accounts
    <3> QED
      BY <3>1, <3>2
  <2> QED
    BY <2>1, <2>2
<1>2. open' = Cardinality(Reading') /\ open' \in Nat
  <2>1. /\ Cardinality(Reading') \in Nat
        /\ Cardinality(Reading') = Cardinality(Reading)
             + (IF new = "read" THEN 1 ELSE 0) - (IF at[c][s] = "read" THEN 1 ELSE 0)
    BY Count DEF Inv
  <2>2. open = Cardinality(Reading) /\ open \in Nat
    BY DEF Inv, FanOutTypeOK, Accounts
  <2> QED
    BY <2>1, <2>2
<1> QED
  <2>1. Accounts'
    BY <1>1, <1>2 DEF Accounts
  <2>2. wg' \in [Calls -> Nat]
    BY <1>1
  <2>3. open' \in 0..Pool
    BY <1>2, FanOutAssumption
  <2> QED
    BY <2>1, <2>2, <2>3

\* A goroutine that is under way moves to "new": the others, and the calls that
\* have answered, are not touched.
Moves(c, s, new) ==
  /\ at[c][s] \in Under
  /\ at' = [at EXCEPT ![c][s] = new]
  /\ wg' \in [Calls -> Int] /\ \A d \in Calls \ {c} : wg'[d] = wg[d]
  /\ wg'[c] = wg[c] + (IF new \in Under THEN 1 ELSE 0) - 1
  /\ open' = open + (IF new = "read" THEN 1 ELSE 0)
                  - (IF at[c][s] = "read" THEN 1 ELSE 0)
  /\ open' <= Pool
  /\ UNCHANGED <<main, answer, version>>
  /\ from' \in [Calls -> [Sections -> SUBSET [part : Parts, of : 0..MaxRefresh]]]
  /\ query' \in [Calls -> [Sections -> 0..3]]
  /\ found' \in [Calls -> [Sections -> Contents]]
  /\ result' \in [Calls -> [Sections -> Contents]]
  /\ \A d \in Calls, t \in Sections : d # c \/ t # s =>
       /\ found'[d][t] = found[d][t]
       /\ query'[d][t] = query[d][t]
       /\ result'[d][t] = result[d][t]
       /\ from'[d][t] = from[d][t]
  /\ new \in {"ask", "read"} => OnlyNone(c, s)'
  /\ Fits(c, s)'
  /\ new \in {"leave", "gone"} =>
       found'[c][s] = "nil" \/ result'[c][s] = found'[c][s]
  /\ new \in {"ask", "read"} /\ query'[c][s] <= 1 => found'[c][s] = "nil"

\* One goroutine's move keeps the invariant, if it keeps the accounts and what
\* is known of its place.
LEMMA InvMove ==
  ASSUME Inv, NEW c \in Calls, NEW s \in Sections, NEW new \in Stages \ {"off"},
         Moves(c, s, new)
  PROVE  Inv'
<1> USE DEF Moves
<1>1. \A d \in Calls, t \in Sections :
        at'[d][t] = IF d = c /\ t = s THEN new ELSE at[d][t]
  BY DEF Inv, FanOutTypeOK
<1>2. Accounts' /\ wg' \in [Calls -> Nat] /\ open' \in 0..Pool
  <2>1. wg'[c] = wg[c] + (IF new \in Under THEN 1 ELSE 0)
                       - (IF at[c][s] \in Under THEN 1 ELSE 0)
    OBVIOUS
  <2> QED
    BY <2>1, AccountsMove
<1>3. FanOutTypeOK'
  BY <1>2 DEF Inv, FanOutTypeOK
<1>4. main[c] # "answered"
  <2>1. s \in Workers(c)
    BY DEF Inv, Progress, Under
  <2> QED
    BY <2>1 DEF Inv, AnswerComplete, Under
<1>5. Progress'
  <2>1. \A d \in Calls : main'[d] \in {"wait", "answered"} =>
          \A t \in Workers(d) : at'[d][t] # "off"
    BY <1>1 DEF Inv, Progress, Workers, Sections
  <2>2. ASSUME NEW d \in Calls, NEW t \in Sections
        PROVE  /\ at'[d][t] # "off" => t \in Workers(d)
               /\ at'[d][t] \in {"leave", "gone"} =>
                    found'[d][t] = "nil" \/ result'[d][t] = found'[d][t]
               /\ at'[d][t] = "off" => found'[d][t] = "nil"
               /\ at'[d][t] \in {"ask", "read"} /\ query'[d][t] <= 1 => found'[d][t] = "nil"
               /\ at'[d][t] \in {"off", "ask", "read"} => OnlyNone(d, t)'
               /\ Fits(d, t)'
    <3>1. CASE d = c /\ t = s
      BY <1>1, <3>1 DEF Inv, Progress, Under
    <3>2. CASE ~(d = c /\ t = s)
      <4>1. /\ at'[d][t] = at[d][t] /\ found'[d][t] = found[d][t]
            /\ query'[d][t] = query[d][t] /\ result'[d][t] = result[d][t]
            /\ from'[d][t] = from[d][t]
        BY <1>1, <3>2
      <4>2. /\ OnlyNone(d, t)' <=> OnlyNone(d, t)
            /\ Fits(d, t)' <=> Fits(d, t)
        BY <4>1 DEF OnlyNone, Fits
      <4> QED
        BY <4>1, <4>2 DEF Inv, Progress
    <3> QED
      BY <3>1, <3>2
  <2> QED
    BY <2>1, <2>2 DEF Progress, Workers
<1>6. AnswerComplete'
  <2>1. ASSUME NEW d \in Calls, main'[d] = "answered", NEW t \in Workers(d)
        PROVE  at'[d][t] = "gone" /\ (found'[d][t] # "nil" => answer'[d][t] = found'[d][t])
    <3>1. d # c /\ t \in Sections
      BY <1>4, <2>1 DEF Workers, Sections
    <3>2. at'[d][t] = at[d][t] /\ found'[d][t] = found[d][t]
      BY <1>1, <3>1
    <3>3. main[d] = "answered" /\ answer'[d] = answer[d]
      BY <2>1
    <3> QED
      BY <2>1, <3>2, <3>3 DEF Inv, AnswerComplete
  <2> QED
    BY <2>1 DEF AnswerComplete, Workers
<1> QED
  BY <1>2, <1>3, <1>5, <1>6 DEF Inv

\* What a query returns now is of the version there is now.
LEMMA NowIsNow ==
  ASSUME FanOutTypeOK, NEW parts \in SUBSET Parts
  PROVE  /\ Now(parts) \subseteq [part : Parts, of : 0..MaxRefresh]
         /\ \A u \in Now(parts) : u.part \in parts /\ u.of = version
  BY DEF FanOutTypeOK, Now

\* What a section shows is replaced by parts of one query.
LEMMA Shown ==
  ASSUME Inv, NEW c \in Calls, NEW s \in Sections, NEW nth \in Contents,
         NEW parts \in SUBSET Parts, Show(c, s, nth, parts)
  PROVE  /\ found' = [found EXCEPT ![c][s] = nth]
         /\ from' \in [Calls -> [Sections -> SUBSET [part : Parts, of : 0..MaxRefresh]]]
         /\ \A d \in Calls, t \in Sections : d # c \/ t # s => from'[d][t] = from[d][t]
         /\ Fits(c, s)'
         /\ parts = {"none"} => OnlyNone(c, s)'
<1> DEFINE N == Now(parts)
<1>1. /\ N \subseteq [part : Parts, of : 0..MaxRefresh]
      /\ \A u \in N : u.part \in parts /\ u.of = version
  BY NowIsNow DEF Inv
<1>2. from' = [from EXCEPT ![c][s] = N] /\ found' = [found EXCEPT ![c][s] = nth]
  BY DEF Show
<1> HIDE DEF N
<1>3. \A d \in Calls, t \in Sections :
        from'[d][t] = IF d = c /\ t = s THEN N ELSE from[d][t]
  BY <1>2 DEF Inv, FanOutTypeOK
<1>4. from' \in [Calls -> [Sections -> SUBSET [part : Parts, of : 0..MaxRefresh]]]
  BY <1>1, <1>2 DEF Inv, FanOutTypeOK
<1> QED
  BY <1>1, <1>2, <1>3, <1>4 DEF Fits, OnlyNone

\* The hero products get a total beside an empty list.
LEMMA ShownTotal ==
  ASSUME Inv, NEW c \in Calls, OnlyNone(c, Hero), ShowTotal(c, Hero)
  PROVE  /\ found' = [found EXCEPT ![c][Hero] = "second"]
         /\ from' \in [Calls -> [Sections -> SUBSET [part : Parts, of : 0..MaxRefresh]]]
         /\ \A d \in Calls, t \in Sections : d # c \/ t # Hero => from'[d][t] = from[d][t]
         /\ Fits(c, Hero)'
<1> DEFINE N == from[c][Hero] \cup Now({"total"})
<1>1. Hero \in Sections /\ {"total"} \in SUBSET Parts
  BY DEF Sections, Parts
<1>2. /\ N \subseteq [part : Parts, of : 0..MaxRefresh]
      /\ \A u \in N : u.part \in {"none", "total"}
  <2>1. /\ Now({"total"}) \subseteq [part : Parts, of : 0..MaxRefresh]
        /\ \A u \in Now({"total"}) : u.part = "total"
    BY <1>1, NowIsNow DEF Inv
  <2>2. /\ from[c][Hero] \subseteq [part : Parts, of : 0..MaxRefresh]
        /\ \A u \in from[c][Hero] : u.part = "none"
    BY <1>1 DEF Inv, FanOutTypeOK, OnlyNone
  <2> QED
    BY <2>1, <2>2
<1>3. /\ from' = [from EXCEPT ![c][Hero] = N]
      /\ found' = [found EXCEPT ![c][Hero] = "second"]
  BY DEF ShowTotal
<1> HIDE DEF N
<1>4. \A d \in Calls, t \in Sections :
        from'[d][t] = IF d = c /\ t = Hero THEN N ELSE from[d][t]
  BY <1>3 DEF Inv, FanOutTypeOK
<1>5. from' \in [Calls -> [Sections -> SUBSET [part : Parts, of : 0..MaxRefresh]]]
  BY <1>1, <1>2, <1>3 DEF Inv, FanOutTypeOK
<1> QED
  BY <1>1, <1>2, <1>3, <1>4, <1>5 DEF Fits

\* What a goroutine may find: with rows it has nothing further to ask.
Finds(c, s) ==
  /\ UNCHANGED found \/ \E x \in Contents : found' = [found EXCEPT ![c][s] = x]
  /\ from' \in [Calls -> [Sections -> SUBSET [part : Parts, of : 0..MaxRefresh]]]
  /\ \A d \in Calls, t \in Sections : d # c \/ t # s => from'[d][t] = from[d][t]
  /\ Fits(c, s)'
  /\ \/ Assign(c, s)
     \/ /\ AskNext(c, s) /\ query[c][s] \in {0, 1, 2} /\ OnlyNone(c, s)'
        /\ query[c][s] = 0 => UNCHANGED found

\* Each way of taking the rows of a query finds something of that kind.
LEMMA TakeFinds ==
  ASSUME Inv, NEW c \in Calls, NEW s \in Sections, at[c][s] = "read", Take(c, s)
  PROVE  Finds(c, s)
<1> USE DEF Contents, Parts
<1>1. OnlyNone(c, s) /\ Fits(c, s)
  BY DEF Inv, Progress
<1>2. ASSUME UNCHANGED <<found, from>>,
             Assign(c, s) \/ (AskNext(c, s) /\ query[c][s] \in {0, 1, 2})
      PROVE  Finds(c, s)
  <2>1. OnlyNone(c, s)' /\ Fits(c, s)'
    BY <1>1, <1>2 DEF OnlyNone, Fits
  <2> QED
    BY <1>2, <2>1 DEF Finds, Inv, FanOutTypeOK
<1>3. ASSUME NEW nth \in Contents, NEW parts \in SUBSET Parts, Show(c, s, nth, parts),
             \/ Assign(c, s)
             \/ parts = {"none"} /\ AskNext(c, s) /\ query[c][s] = 1
      PROVE  Finds(c, s)
  BY <1>3, Shown DEF Finds
<1>4. CASE ReadColumns(c, s)
  BY <1>2, <1>4 DEF ReadColumns
<1>5. CASE ReadPlain(c, s)
  BY <1>3, <1>5 DEF ReadPlain
<1>6. CASE ReadHero(c, s)
  <2>1. CASE Assign(c, s) /\ Show(c, s, "first", {"rows", "total"})
    BY <1>3, <2>1
  <2>2. CASE query[c][s] = 1 /\ AskNext(c, s) /\ Show(c, s, "first", {"none"})
    BY <1>3, <2>2
  <2>3. CASE Assign(c, s) /\ ShowTotal(c, s)
    <3>1. s = Hero
      BY <1>6 DEF ReadHero
    <3> QED
      BY <1>1, <2>3, <3>1, ShownTotal DEF Finds
  <2> QED
    BY <1>6, <2>1, <2>2, <2>3 DEF ReadHero
<1>7. CASE ReadCodes(c, s)
  BY <1>3, <1>7 DEF ReadCodes
<1>8. CASE ReadLaunches(c, s)
  <2>1. CASE UNCHANGED <<found, from>>
    BY <1>2, <1>8, <2>1 DEF ReadLaunches
  <2>2. CASE Assign(c, s) /\ \E nth \in Contents : Show(c, s, nth, {"rows"})
    BY <1>3, <2>2
  <2> QED
    BY <1>8, <2>1, <2>2 DEF ReadLaunches
<1> QED
  BY <1>4, <1>5, <1>6, <1>7, <1>8 DEF Take

\* Every step of the loaders keeps the invariant.
LEMMA InvStep == Inv /\ [Next]_vars => Inv'
<1> SUFFICES ASSUME Inv, [Next]_vars PROVE Inv'
  OBVIOUS
<1> USE DEF Stages, Contents, Under
<1>1. ASSUME NEW c \in Calls, NEW s \in Sections, Spawn(c, s) PROVE Inv'
  <2>1. Accounts' /\ wg' \in [Calls -> Nat]
    <3>1. at' = [at EXCEPT ![c][s] = "ask"] /\ at[c][s] = "off" /\ open' <= Pool
      BY <1>1, FanOutAssumption DEF Spawn, Inv, FanOutTypeOK
    <3>2. /\ wg' \in [Calls -> Int]
          /\ \A d \in Calls \ {c} : wg'[d] = wg[d]
          /\ wg'[c] = wg[c] + (IF "ask" \in Under THEN 1 ELSE 0)
                            - (IF at[c][s] \in Under THEN 1 ELSE 0)
      BY <1>1, <3>1 DEF Spawn, Inv, FanOutTypeOK
    <3>3. open' = open + (IF "ask" = "read" THEN 1 ELSE 0)
                       - (IF at[c][s] = "read" THEN 1 ELSE 0)
      BY <1>1, <3>1 DEF Spawn, Inv, FanOutTypeOK
    <3> QED
      BY <3>1, <3>2, <3>3, AccountsMove
  <2>2. /\ query' \in [Calls -> [Sections -> 0..3]]
        /\ \A d \in Calls, t \in Sections :
             query'[d][t] # query[d][t] => d = c /\ t = s /\ query'[d][t] \in {0, 1}
    <3>1. PICK q \in {0, 1} : query' = [query EXCEPT ![c][s] = q]
      BY <1>1 DEF Spawn, FirstQuery
    <3> QED
      BY <3>1 DEF Inv, FanOutTypeOK
  <2>8. FanOutTypeOK'
    BY <1>1, <2>1, <2>2 DEF Spawn, Inv, FanOutTypeOK, history
  <2>3. \A d \in Calls, t \in Sections :
          at'[d][t] = IF d = c /\ t = s THEN "ask" ELSE at[d][t]
    BY <1>1 DEF Spawn, Inv, FanOutTypeOK
  <2>4. \A d \in Calls : main'[d] # main[d] =>
          d = c /\ main'[d] = "wait" /\ \A t \in Workers(c) \ {s} : at[c][t] # "off"
    BY <1>1 DEF Spawn, Inv, FanOutTypeOK
  <2>5. main[c] = "spawn" /\ s \in Workers(c) /\ at[c][s] = "off"
        /\ UNCHANGED <<found, result, answer, from>>
        /\ found[c][s] = "nil"
    <3>1. main[c] = "spawn" /\ s \in Workers(c) /\ at[c][s] = "off"
          /\ UNCHANGED <<found, result, answer, from>>
      BY <1>1 DEF Spawn, history
    <3> QED
      BY <3>1 DEF Inv, Progress
  <2>6. Progress'
    <3>1. ASSUME NEW d \in Calls, main'[d] \in {"wait", "answered"}, NEW t \in Workers(d)
          PROVE  at'[d][t] # "off"
      BY <2>3, <2>4, <3>1 DEF Inv, Progress, Workers, Sections
    <3>2. ASSUME NEW d \in Calls, NEW t \in Sections
          PROVE  /\ at'[d][t] # "off" => t \in Workers(d)
                 /\ at'[d][t] \in {"leave", "gone"} =>
                      found'[d][t] = "nil" \/ result'[d][t] = found'[d][t]
                 /\ at'[d][t] = "off" => found'[d][t] = "nil"
                 /\ at'[d][t] \in {"ask", "read"} /\ query'[d][t] <= 1 => found'[d][t] = "nil"
                 /\ at'[d][t] \in {"off", "ask", "read"} => OnlyNone(d, t)'
                 /\ Fits(d, t)'
      <4>1. /\ OnlyNone(d, t)' <=> OnlyNone(d, t)
            /\ Fits(d, t)' <=> Fits(d, t)
        BY <2>5 DEF OnlyNone, Fits
      <4>2. /\ at'[d][t] = at[d][t] \/ (d = c /\ t = s /\ at'[d][t] = "ask")
            /\ query'[d][t] = query[d][t] \/ (d = c /\ t = s)
        BY <2>2, <2>3
      <4> QED
        BY <2>5, <4>1, <4>2 DEF Inv, Progress
    <3> QED
      BY <3>1, <3>2 DEF Progress, Workers
  <2>7. AnswerComplete'
    BY <2>3, <2>4, <2>5 DEF Inv, AnswerComplete, Workers, Sections
  <2> QED
    BY <2>1, <2>6, <2>7, <2>8 DEF Inv
<1>2. ASSUME NEW c \in Calls, NEW s \in Sections, Connect(c, s) PROVE Inv'
  <2>1. Moves(c, s, "read")
    BY <1>2, FanOutAssumption DEF Moves, Connect, Inv, FanOutTypeOK, Progress, OnlyNone,
                                             Fits, history
  <2> QED
    BY <2>1, InvMove
<1>3. ASSUME NEW c \in Calls, NEW s \in Sections, Publish(c, s) PROVE Inv'
  <2>1. Moves(c, s, "leave")
    BY <1>3, FanOutAssumption DEF Moves, Publish, Inv, FanOutTypeOK, Progress, OnlyNone,
                                             Fits, history
  <2> QED
    BY <2>1, InvMove
<1>4. ASSUME NEW c \in Calls, NEW s \in Sections, Done(c, s) PROVE Inv'
  <2>1. Moves(c, s, "gone")
    BY <1>4, FanOutAssumption DEF Moves, Done, Inv, FanOutTypeOK, Progress, OnlyNone,
                                             Fits, history
  <2> QED
    BY <2>1, InvMove
<1>5. ASSUME NEW c \in Calls, NEW s \in Sections, Read(c, s) PROVE Inv'
  <2>1. /\ at[c][s] = "read" /\ open' = open - 1
        /\ UNCHANGED <<main, wg, result, answer, version>>
        /\ Finds(c, s)
    BY <1>5, TakeFinds DEF Read
  <2>2. found' \in [Calls -> [Sections -> Contents]]
        /\ \A d \in Calls, t \in Sections : d # c \/ t # s => found'[d][t] = found[d][t]
    <3>1. CASE UNCHANGED found
      BY <3>1 DEF Inv, FanOutTypeOK
    <3>2. ASSUME NEW x \in Contents, found' = [found EXCEPT ![c][s] = x]
          PROVE  /\ found' \in [Calls -> [Sections -> Contents]]
                 /\ \A d \in Calls, t \in Sections : d # c \/ t # s =>
                      found'[d][t] = found[d][t]
      BY <3>2 DEF Inv, FanOutTypeOK
    <3> QED
      BY <2>1, <3>1, <3>2 DEF Finds
  <2>3. /\ from' \in [Calls -> [Sections -> SUBSET [part : Parts, of : 0..MaxRefresh]]]
        /\ \A d \in Calls, t \in Sections : d # c \/ t # s => from'[d][t] = from[d][t]
        /\ Fits(c, s)'
    BY <2>1 DEF Finds
  <2>4. CASE Assign(c, s)
    <3>1. at' = [at EXCEPT ![c][s] = "assign"] /\ UNCHANGED query
      BY <2>4 DEF Assign
    <3>2. Moves(c, s, "assign")
      BY <2>1, <2>2, <2>3, <3>1, FanOutAssumption DEF Moves, Inv, FanOutTypeOK
    <3> QED
      BY <3>2, InvMove
  <2>5. CASE /\ AskNext(c, s) /\ query[c][s] \in {0, 1, 2} /\ OnlyNone(c, s)'
             /\ query[c][s] = 0 => UNCHANGED found
    <3>1. /\ at' = [at EXCEPT ![c][s] = "ask"]
          /\ query' = [query EXCEPT ![c][s] = @ + 1] /\ query[c][s] \in {0, 1, 2}
      BY <2>5 DEF AskNext
    <3>2. query[c][s] = 0 => found[c][s] = "nil" /\ found'[c][s] = "nil"
      BY <2>1, <2>5 DEF Inv, Progress
    <3>3. query'[c][s] <= 1 => found'[c][s] = "nil"
      BY <3>1, <3>2 DEF Inv, FanOutTypeOK
    <3>4. /\ query' \in [Calls -> [Sections -> 0..3]]
          /\ \A d \in Calls, t \in Sections : d # c \/ t # s => query'[d][t] = query[d][t]
      BY <3>1 DEF Inv, FanOutTypeOK
    <3>5. Moves(c, s, "ask")
      BY <2>1, <2>2, <2>3, <2>5, <3>1, <3>3, <3>4, FanOutAssumption
         DEF Moves, Inv, FanOutTypeOK
    <3> QED
      BY <3>5, InvMove
  <2> QED
    BY <2>1, <2>4, <2>5 DEF Finds
<1>6. ASSUME NEW c \in Calls, NEW s \in Sections, Fail(c, s) PROVE Inv'
  <2>1. /\ at[c][s] = "ask" /\ UNCHANGED <<main, wg, result, answer, open, version, from>>
        /\ OnlyNone(c, s) /\ Fits(c, s)
    BY <1>6 DEF Fail, history, Inv, Progress
  <2>6. OnlyNone(c, s)' /\ Fits(c, s)'
    BY <2>1 DEF OnlyNone, Fits
  <2>2. CASE query[c][s] = 1 /\ c \in OptionsCalls
    <3>1. Assign(c, s) /\ found' = [found EXCEPT ![c][s] = "empty"]
      BY <1>6, <2>2 DEF Fail
    <3>2. Moves(c, s, "assign")
      BY <2>1, <2>6, <3>1, FanOutAssumption DEF Moves, Assign, Inv, FanOutTypeOK
    <3> QED
      BY <3>2, InvMove
  \* The section stays as it was: it has found nothing yet.
  <2>3. CASE query[c][s] = 1 /\ c \notin OptionsCalls
    <3>1. found[c][s] = "nil"
      BY <2>1, <2>3 DEF Inv, Progress
    <3>2. Moves(c, s, "leave")
      BY <1>6, <2>1, <2>3, <2>6, <3>1, FanOutAssumption
         DEF Moves, Fail, Leave, Inv, FanOutTypeOK
    <3> QED
      BY <3>2, InvMove
  <2>4. CASE query[c][s] # 1 /\ (query[c][s] = 0 \/ (s = Npl /\ query[c][s] = 2))
    <3>1. AskNext(c, s) /\ UNCHANGED found
      BY <1>6, <2>4 DEF Fail
    <3>2. query'[c][s] <= 1 => found'[c][s] = "nil"
      BY <1>6, <2>1, <2>4, <3>1 DEF AskNext, Inv, FanOutTypeOK, Progress
    <3>3. Moves(c, s, "ask")
      BY <2>1, <2>4, <2>6, <3>1, <3>2, FanOutAssumption DEF Moves, AskNext, Inv, FanOutTypeOK
    <3> QED
      BY <3>3, InvMove
  <2>5. CASE query[c][s] # 1 /\ ~(query[c][s] = 0 \/ (s = Npl /\ query[c][s] = 2))
    <3>1. Moves(c, s, "assign")
      BY <1>6, <2>1, <2>5, <2>6, FanOutAssumption DEF Moves, Fail, Assign, Inv, FanOutTypeOK
    <3> QED
      BY <3>1, InvMove
  <2> QED
    BY <2>2, <2>3, <2>4, <2>5
\* The WaitGroup is at zero, so none of the goroutines is under way.
<1>7. ASSUME NEW c \in Calls, Answer(c) PROVE Inv'
  <2>1. Running(c) = {}
    BY <1>7, FiniteParts, FS_EmptySet DEF Answer, Inv, Accounts
  <2>2. \A s \in Workers(c) : s \in Sections /\ at[c][s] = "gone"
    BY <1>7, <2>1 DEF Answer, Running, Inv, Progress, FanOutTypeOK, Workers, Sections
  <2>3. FanOutTypeOK'
    BY <1>7 DEF Answer, Inv, FanOutTypeOK, history
  <2>4. Accounts'
    BY <1>7 DEF Answer, Inv, Accounts, Running, Reading
  <2>5. Progress'
    BY <1>7 DEF Answer, Inv, FanOutTypeOK, Progress, OnlyNone, Fits, Workers, history
  <2>6. \A s \in Workers(c) : found[c][s] # "nil" => result[c][s] = found[c][s]
    BY <2>2 DEF Inv, Progress
  <2>7. AnswerComplete'
    BY <1>7, <2>2, <2>6 DEF Answer, Inv, FanOutTypeOK, AnswerComplete, Workers
  <2> QED
    BY <2>3, <2>4, <2>5, <2>7 DEF Inv
<1>8. ASSUME NEW c \in Calls, Refuse(c) PROVE Inv'
  <2>1. FanOutTypeOK'
    BY <1>8 DEF Refuse, Inv, FanOutTypeOK, history
  <2>2. Accounts'
    BY <1>8 DEF Refuse, Inv, Accounts, Running, Reading
  <2>3. Progress' /\ AnswerComplete'
    BY <1>8 DEF Refuse, Inv, FanOutTypeOK, Progress, OnlyNone, Fits, AnswerComplete,
                Workers, history
  <2> QED
    BY <2>1, <2>2, <2>3 DEF Inv
<1>9. CASE Refresh
  <2>1. /\ version' \in 0..MaxRefresh
        /\ UNCHANGED <<main, wg, at, query, found, result, answer, open, from>>
    BY <1>9, FanOutAssumption DEF Refresh, Inv, FanOutTypeOK
  <2> QED
    BY <2>1 DEF Inv, FanOutTypeOK, Accounts, Running, Reading, Progress, OnlyNone, Fits,
                AnswerComplete, Workers
<1>10. CASE UNCHANGED vars
  BY <1>10 DEF vars, history, Inv, FanOutTypeOK, Accounts, Running, Reading, Progress,
              OnlyNone, Fits, AnswerComplete, Workers
<1> QED
  BY <1>1, <1>2, <1>3, <1>4, <1>5, <1>6, <1>7, <1>8, <1>9, <1>10 DEF Next, Work, Finished

\* The invariant the theorems below are parts or consequences of.
THEOREM FanOutInvariant == Spec => []Inv
  BY InitInv, InvStep, PTL DEF Spec

\* The WaitGroup never goes below zero, which would panic, and the pool is never
\* exceeded, whatever fails (sales_performance.go:498-504).
THEOREM FanOutTypes == Spec => []FanOutTypeOK
<1>1. Inv => FanOutTypeOK
  BY DEF Inv
<1> QED
  BY <1>1, FanOutInvariant, PTL

\* The WaitGroup counts the goroutines under way and the pool the connections
\* in use, also between two queries of a section.
THEOREM AccountsAlways == Spec => []Accounts
<1>1. Inv => Accounts
  BY DEF Inv
<1> QED
  BY <1>1, FanOutInvariant, PTL

\* No response is put together before all its goroutines are done, and none is
\* missing anything that was found for it (sales_performance.go:602).
THEOREM AnswerCompleteAlways == Spec => []AnswerComplete
<1>1. Inv => AnswerComplete
  BY DEF Inv
<1> QED
  BY <1>1, FanOutInvariant, PTL

\* Whenever refreshes come, the rows of a section are shown with nothing of
\* another version: the shares of the hero products are of the total shown, and
\* launches are never beside other codes (sales_performance.go:239-256, 573-585).
THEOREM RowsOfOneVersionAlways == Spec => []RowsOfOneVersion
<1>1. Inv => RowsOfOneVersion
  BY DEF Inv, Progress, Fits, RowsOfOneVersion, Calls
<1> QED
  BY <1>1, FanOutInvariant, PTL

-----------------------------------------------------------------------------
(* The options.                                                            *)

\* A column of the options makes one query, and has a list once it assigns.
Lists ==
  \A c \in OptionsCalls, s \in Plain :
    /\ query[c][s] = 1 /\ result[c][s] # "nil"
    /\ at[c][s] = "assign" => found[c][s] # "nil"
    /\ main[c] = "answered" => answer[c][s] # "nil"

\* Once it has a list, a column of the options never goes back to null.
LEMMA ListsStep == Inv /\ Lists /\ [Next]_vars => Lists'
<1> SUFFICES ASSUME Inv, Lists, [Next]_vars, NEW c \in OptionsCalls, NEW s \in Plain
             PROVE  /\ query'[c][s] = 1 /\ result'[c][s] # "nil"
                    /\ at'[c][s] = "assign" => found'[c][s] # "nil"
                    /\ main'[c] = "answered" => answer'[c][s] # "nil"
  BY DEF Lists
<1> DEFINE Listed == /\ query'[c][s] = 1 /\ result'[c][s] # "nil"
                     /\ at'[c][s] = "assign" => found'[c][s] # "nil"
                     /\ main'[c] = "answered" => answer'[c][s] # "nil"
<1>1. c \in Calls /\ s \in Sections /\ s # Hero /\ s # Npl /\ c \notin SalesCalls
  BY FanOutAssumption DEF Calls, Sections
<1>2. /\ query[c][s] = 1 /\ result[c][s] # "nil"
      /\ at[c][s] = "assign" => found[c][s] # "nil"
      /\ main[c] = "answered" => answer[c][s] # "nil"
  BY DEF Lists
<1> USE DEF Inv, FanOutTypeOK
<1>3. ASSUME NEW d \in Calls, NEW t \in Sections, Spawn(d, t) PROVE Listed
  <2>1. main'[c] = main[c] \/ main'[c] = "wait"
    BY <1>1, <1>3 DEF Spawn
  <2>2. at'[c][s] = at[c][s] \/ at'[c][s] = "ask"
    BY <1>1, <1>3 DEF Spawn
  <2>3. UNCHANGED <<found, result, answer>>
    BY <1>3 DEF Spawn
  <2>4. query'[c][s] = 1
    <3>1. PICK q \in FirstQuery(d, t) : query' = [query EXCEPT ![d][t] = q]
      BY <1>3 DEF Spawn
    <3> QED
      BY <1>1, <1>2, <3>1 DEF FirstQuery
  <2> QED
    BY <1>2, <2>1, <2>2, <2>3, <2>4
<1>4. ASSUME NEW d \in Calls, NEW t \in Sections, Connect(d, t) \/ Done(d, t)
      PROVE  Listed
  <2>1. PICK new \in {"read", "gone"} : at' = [at EXCEPT ![d][t] = new]
    BY <1>4 DEF Connect, Done
  <2>2. UNCHANGED <<main, query, found, result, answer>>
    BY <1>4 DEF Connect, Done
  <2>3. at'[c][s] \in {at[c][s], new}
    BY <1>1, <2>1
  <2> QED
    BY <1>2, <2>2, <2>3
<1>5. ASSUME NEW d \in Calls, NEW t \in Sections, Publish(d, t) PROVE Listed
  BY <1>1, <1>2, <1>5 DEF Publish
<1>6. ASSUME NEW d \in Calls, NEW t \in Sections, Read(d, t) PROVE Listed
  <2>1. UNCHANGED <<main, result, answer>>
    BY <1>6 DEF Read
  <2>2. CASE d = c /\ t = s
    <3>1. ReadPlain(c, s)
      BY <1>1, <1>2, <1>6, <2>2 DEF Read, Take, ReadColumns, ReadHero, ReadCodes,
                                    ReadLaunches
    <3> QED
      BY <1>1, <1>2, <2>1, <3>1 DEF ReadPlain, Assign, Show
  <2>3. CASE ~(d = c /\ t = s)
    <3>1. at'[c][s] = at[c][s] /\ query'[c][s] = query[c][s]
      BY <1>1, <1>6, <2>3 DEF Read, Take, ReadColumns, ReadPlain, ReadHero, ReadCodes,
                              ReadLaunches, Assign, AskNext
    <3>2. found'[c][s] = found[c][s]
      BY <1>1, <1>6, <2>3 DEF Read, Take, ReadColumns, ReadPlain, ReadHero, ReadCodes,
                              ReadLaunches, Show, ShowTotal
    <3> QED
      BY <1>2, <2>1, <3>1, <3>2
  <2> QED
    BY <2>2, <2>3
<1>7. ASSUME NEW d \in Calls, NEW t \in Sections, Fail(d, t) PROVE Listed
  <2>1. UNCHANGED <<main, result, answer>>
    BY <1>7 DEF Fail
  <2>2. CASE d = c /\ t = s
    <3>1. Assign(c, s) /\ found' = [found EXCEPT ![c][s] = "empty"]
      BY <1>2, <1>7, <2>2 DEF Fail
    <3> QED
      BY <1>1, <1>2, <2>1, <3>1 DEF Assign
  <2>3. CASE ~(d = c /\ t = s)
    <3>1. at'[c][s] = at[c][s] /\ query'[c][s] = query[c][s]
      BY <1>1, <1>7, <2>3 DEF Fail, Assign, AskNext, Leave
    <3>2. found'[c][s] = found[c][s]
      BY <1>1, <1>7, <2>3 DEF Fail
    <3> QED
      BY <1>2, <2>1, <3>1, <3>2
  <2> QED
    BY <2>2, <2>3
<1>8. ASSUME NEW d \in Calls, Refuse(d) \/ Answer(d) PROVE Listed
  BY <1>1, <1>2, <1>8 DEF Refuse, Answer
<1>9. CASE Refresh \/ UNCHANGED vars
  BY <1>2, <1>9 DEF Refresh, vars
<1> QED
  BY <1>3, <1>4, <1>5, <1>6, <1>7, <1>8, <1>9 DEF Next, Work, Finished

\* However often the queries of the options fail, each column gets a list
\* (metrik.go:477-479).
THEOREM OptionsNeverNullAlways == Spec => []OptionsNeverNull
<1>1. Init => Lists
  <2> SUFFICES ASSUME Init, NEW c \in OptionsCalls, NEW s \in Plain
               PROVE  query[c][s] = 1 /\ result[c][s] = "empty" /\ at[c][s] = "off"
                      /\ main[c] = "spawn"
    BY DEF Lists
  <2>1. c \in Calls /\ s \in Sections
    BY DEF Calls, Sections
  <2> QED
    BY <2>1 DEF Init
<1>2. Lists => OptionsNeverNull
  BY DEF Lists, OptionsNeverNull
<1> QED
  BY <1>1, <1>2, ListsStep, FanOutInvariant, PTL DEF Spec

=============================================================================
