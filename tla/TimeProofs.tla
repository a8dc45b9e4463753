------------------------------- MODULE TimeProofs -------------------------------
(***************************************************************************)
(* What depends on the date and on the clock: the periods a dashboard      *)
(* compares, and how old an answer can be.                                 *)
(***************************************************************************)
EXTENDS Periods, StalenessClock, TLAPS

-----------------------------------------------------------------------------
(* The comparison of periods, for every year of the calendar and periods of *)
(* any length.  All that matters of DaysIn is that it lies between 28 and   *)
(* 31 and that Go and Postgres use the same one.                            *)

USE PeriodAssumption DEF On

\* Every month of every year has 28 to 31 days.
LEMMA MonthLengths == \A y \in Int, m \in Int : DaysIn(y, m) \in 28..31
  BY DEF DaysIn

\* The day one month earlier, as a date of the month before.
LEMMA MinusMonthIs ==
  ASSUME NEW t \in Dates
  PROVE  /\ MinusMonth(t).y = MonthBefore(t).y
         /\ MinusMonth(t).m = MonthBefore(t).m
         /\ MinusMonth(t).d \in 1..31
         /\ MinusMonth(t).d <= t.d
         /\ MinusMonth(t).d <= DaysIn(MonthBefore(t).y, MonthBefore(t).m)
         /\ MonthNo(MinusMonth(t)) = MonthNo(t) - 1
<1> DEFINE p == MonthBefore(t)
<1>1. /\ p = [y |-> p.y, m |-> p.m, d |-> 1] /\ p.y \in Int /\ p.m \in 1..12
      /\ 12 * p.y + p.m = 12 * t.y + t.m - 1
  BY DEF Dates, MonthBefore
<1>2. DaysIn(p.y, p.m) \in 28..31
  BY <1>1, MonthLengths
<1>3. t.y \in Nat /\ t.m \in 1..12 /\ t.d \in 1..31
  BY DEF Dates
<1> DEFINE day == IF t.d > DaysIn(p.y, p.m) THEN DaysIn(p.y, p.m) ELSE t.d
<1>4. day \in 1..31 /\ day <= t.d /\ day <= DaysIn(p.y, p.m)
  BY <1>2, <1>3
<1>5. MinusMonth(t) = [p EXCEPT !.d = day]
  BY DEF MinusMonth
<1> HIDE DEF p, day
<1>6. MinusMonth(t) = [y |-> p.y, m |-> p.m, d |-> day]
  BY <1>1, <1>5
<1>7. /\ MinusMonth(t).y = p.y /\ MinusMonth(t).m = p.m
      /\ MinusMonth(t).d = day
  BY <1>6
<1>8. MonthNo(MinusMonth(t)) = MonthNo(t) - 1
  BY <1>1, <1>3, <1>7 DEF MonthNo
<1> QED
  BY <1>4, <1>7, <1>8, Zenon DEF p

\* The code clamps as Postgres does.
LEMMA ShiftIsMinusMonth ==
  ASSUME NEW t \in Dates
  PROVE  shiftToPrevMonth(t) = MinusMonth(t)
<1> DEFINE p == MonthBefore(t)
           last == DaysIn(p.y, p.m)
<1>1. /\ t = [y |-> t.y, m |-> t.m, d |-> t.d]
      /\ t.y \in Nat /\ t.m \in 1..12 /\ t.d \in 1..31
  BY DEF Dates
<1>2. p.y \in Int /\ p.m \in 1..12 /\ p = [y |-> p.y, m |-> p.m, d |-> 1]
  BY <1>1 DEF MonthBefore
<1>3. last \in 28..31
  BY <1>2, MonthLengths
<1>4. GoDate(t.y, t.m, 0).d = last
  BY <1>1, <1>2 DEF GoDate, MonthBefore
<1>5. ASSUME NEW d \in 1..31, d <= last
      PROVE  GoDate(t.y, t.m - 1, d) = [p EXCEPT !.d = d]
  <2>1. (IF t.m - 1 = 0 THEN On(t.y - 1, 12, 1) ELSE On(t.y, t.m - 1, 1)) = p
    BY <1>1 DEF MonthBefore
  <2>2. d # 0 /\ ~(d > last)
    BY <1>3, <1>5
  <2> QED
    BY <2>1, <2>2 DEF GoDate
<1> DEFINE day == IF t.d > last THEN last ELSE t.d
<1>6. day \in 1..31 /\ day <= last
  BY <1>1, <1>3
<1>7. shiftToPrevMonth(t) = GoDate(t.y, t.m - 1, day)
  BY <1>4 DEF shiftToPrevMonth
<1>8. MinusMonth(t) = [p EXCEPT !.d = day]
  BY DEF MinusMonth
<1> HIDE DEF day, p, last
<1> QED
  BY <1>5, <1>6, <1>7, <1>8

\* Taking a month off keeps the order of two days.
LEMMA MinusMonthMonotone ==
  ASSUME NEW s \in Dates, NEW t \in Dates, Upto(s, t)
  PROVE  Upto(MinusMonth(s), MinusMonth(t))
<1>1. /\ s.y \in Nat /\ s.m \in 1..12 /\ s.d \in 1..31
      /\ t.y \in Nat /\ t.m \in 1..12 /\ t.d \in 1..31
  BY DEF Dates
<1>2. CASE MonthNo(s) < MonthNo(t)
  BY <1>1, <1>2, MinusMonthIs DEF Upto, MonthNo
<1>3. CASE MonthNo(s) = MonthNo(t) /\ s.d <= t.d
  <2>1. s.y = t.y /\ s.m = t.m
    BY <1>1, <1>3 DEF MonthNo
  <2>2. MonthBefore(s) = MonthBefore(t)
    BY <2>1 DEF MonthBefore
  <2>3. MonthNo(MinusMonth(s)) = MonthNo(MinusMonth(t))
    BY <1>3, MinusMonthIs
  <2>4. MinusMonth(s).d <= MinusMonth(t).d
    <3>1. DaysIn(MonthBefore(t).y, MonthBefore(t).m) \in 28..31
      BY <1>1, MonthLengths DEF MonthBefore
    <3>2. MinusMonth(s).d = (IF s.d > DaysIn(MonthBefore(t).y, MonthBefore(t).m)
                               THEN DaysIn(MonthBefore(t).y, MonthBefore(t).m) ELSE s.d)
      BY <2>2 DEF MinusMonth, MonthBefore
    <3>3. MinusMonth(t).d = (IF t.d > DaysIn(MonthBefore(t).y, MonthBefore(t).m)
                               THEN DaysIn(MonthBefore(t).y, MonthBefore(t).m) ELSE t.d)
      BY DEF MinusMonth, MonthBefore
    <3> QED
      BY <1>1, <1>3, <3>1, <3>2, <3>3
  <2> QED
    BY <2>3, <2>4 DEF Upto
<1> QED
  BY <1>2, <1>3 DEF Upto

\* The day after a date is a date, and a later one.
LEMMA DayAfterIs ==
  ASSUME NEW t \in Dates
  PROVE  DayAfter(t) \in Dates /\ Upto(t, DayAfter(t))
<1>1. /\ t = [y |-> t.y, m |-> t.m, d |-> t.d]
      /\ t.y \in Nat /\ t.m \in 1..12 /\ t.d \in 1..31 /\ t.d <= DaysIn(t.y, t.m)
  BY DEF Dates
<1>2. \A y \in Nat, m \in 1..12 : DaysIn(y, m) \in 28..31
  BY MonthLengths
<1>3. CASE t.d = DaysIn(t.y, t.m)
  <2>1. DayAfter(t) = IF t.m = 12 THEN [y |-> t.y + 1, m |-> 1, d |-> 1]
                                  ELSE [y |-> t.y, m |-> t.m + 1, d |-> 1]
    BY <1>3 DEF DayAfter, MonthAfter
  <2> QED
    BY <1>1, <1>2, <2>1 DEF Dates, Upto, MonthNo
<1>4. CASE t.d # DaysIn(t.y, t.m)
  <2>1. DayAfter(t) = [y |-> t.y, m |-> t.m, d |-> t.d + 1]
    BY <1>1, <1>4 DEF DayAfter
  <2> QED
    BY <1>1, <1>2, <1>4, <2>1 DEF Dates, Upto, MonthNo
<1> QED
  BY <1>3, <1>4

\* The order of dates is transitive.
LEMMA UptoTransitive ==
  ASSUME NEW r \in Dates, NEW s \in Dates, NEW t \in Dates, Upto(r, s), Upto(s, t)
  PROVE  Upto(r, t)
  BY DEF Dates, Upto, MonthNo

\* The order of dates is reflexive.
LEMMA UptoReflexive == \A t \in Dates : Upto(t, t)
  BY DEF Dates, Upto, MonthNo

\* A period stays a period as its end moves on.
LEMMA TypeStep == PeriodTypeOK /\ [Next]_vars => PeriodTypeOK'
<1> SUFFICES ASSUME PeriodTypeOK, [Next]_vars PROVE PeriodTypeOK'
  OBVIOUS
<1> USE DEF PeriodTypeOK
<1>1. CASE LaterEnd
  <2>1. from' = from /\ to' = DayAfter(to)
    BY <1>1 DEF LaterEnd
  <2>2. DayAfter(to) \in Dates /\ Upto(to, DayAfter(to))
    BY DayAfterIs
  <2> QED
    BY <2>1, <2>2, UptoTransitive
<1>2. CASE LaterStart
  <2>1. from' = DayAfter(from) /\ to' = from'
    BY <1>2 DEF LaterStart
  <2>2. from' \in Dates
    BY <2>1, DayAfterIs
  <2> QED
    BY <2>1, <2>2, UptoReflexive
<1>3. CASE UNCHANGED vars
  BY <1>3 DEF vars
<1> QED
  BY <1>1, <1>2, <1>3 DEF Next

\* A period begins as one of a single day.
LEMMA InitType == Init => PeriodTypeOK
<1> SUFFICES ASSUME NEW y \in Years, from = On(y, 1, 1), to = On(y, 1, 1)
             PROVE  PeriodTypeOK
  BY DEF Init
<1>1. DaysIn(y, 1) \in 28..31
  BY MonthLengths
<1>2. On(y, 1, 1) \in Dates
  BY <1>1 DEF Dates
<1> QED
  BY <1>2, UptoReflexive DEF PeriodTypeOK

\* In every period of any year, the trend's pairs lie in the range it aggregates.
THEOREM TrendPairsAreRead == Spec => []PairsInRange
<1>1. PeriodTypeOK => PairsInRange
  <2> SUFFICES ASSUME PeriodTypeOK PROVE PairsInRange
    OBVIOUS
  <2> USE DEF PeriodTypeOK
  <2>1. Previous = [start |-> MinusMonth(from), end |-> MinusMonth(to)]
    BY ShiftIsMinusMonth DEF Previous, getPeriodRanges
  <2>2. Upto(MinusMonth(from), MinusMonth(to))
    BY MinusMonthMonotone
  <2>3. Upto(MinusMonth(to), MinusMonth(to))
    BY UptoReflexive, MinusMonthMonotone
  <2> QED
    BY <2>1, <2>2, <2>3 DEF PairsInRange
<1> QED
  BY <1>1, InitType, TypeStep, PTL DEF Spec

\* A period within one month and the one it is compared with never overlap.
THEOREM PreviousIsApart == Spec => []PeriodsApart
<1>1. PeriodTypeOK => PeriodsApart
  <2> SUFFICES ASSUME PeriodTypeOK, from.m = to.m, from.y = to.y
               PROVE  Before(MinusMonth(to), from)
    BY ShiftIsMinusMonth DEF PeriodTypeOK, PeriodsApart, Previous, getPeriodRanges
  <2>1. MonthNo(MinusMonth(to)) = MonthNo(from) - 1 /\ MonthNo(from) \in Int
    BY MinusMonthIs DEF PeriodTypeOK, Dates, MonthNo
  <2> QED
    BY <2>1 DEF Before, Upto
<1> QED
  BY <1>1, InitType, TypeStep, PTL DEF Spec

\* Within one month, the metrics stay inside the month the ranking reads, which
\* ends where the clamped days end.
THEOREM RankingCoversAlways == Spec => []RankingCovers
<1>1. PeriodTypeOK => RankingCovers
  <2> SUFFICES ASSUME PeriodTypeOK, from.m = to.m, from.y = to.y
               PROVE  LET month == getPreviousMonthRange(from)
                      IN  /\ Upto(month.start, MinusMonth(from))
                          /\ Upto(MinusMonth(to), month.end)
    BY ShiftIsMinusMonth DEF PeriodTypeOK, RankingCovers, Previous, getPeriodRanges
  <2> DEFINE p == MonthBefore(from)
             last == DaysIn(p.y, p.m)
             month == getPreviousMonthRange(from)
  <2>1. from \in Dates /\ to \in Dates /\ from.y \in Nat /\ from.m \in 1..12
    BY DEF PeriodTypeOK, Dates
  <2>2. p.y \in Int /\ p.m \in 1..12 /\ p.d = 1 /\ last \in 28..31
    BY <2>1, MonthLengths DEF MonthBefore
  <2>3. month.start = [p EXCEPT !.d = 1]
    BY <2>1, <2>2 DEF getPreviousMonthRange, GoDate, MonthBefore
  <2>4. month.end = [p EXCEPT !.d = last]
    BY <2>1, <2>2 DEF getPreviousMonthRange, GoDate, MonthBefore
  <2>5. p = [y |-> p.y, m |-> p.m, d |-> 1]
    BY <2>1 DEF MonthBefore
  <2>6. /\ MonthNo(month.start) = MonthNo(p) /\ month.start.d = 1
        /\ MonthNo(month.end) = MonthNo(p) /\ month.end.d = last
    BY <2>3, <2>4, <2>5 DEF MonthNo
  <2>7. MonthBefore(to) = p /\ MonthNo(p) = MonthNo(from) - 1 /\ MonthNo(to) = MonthNo(from)
    BY <2>1 DEF MonthBefore, MonthNo
  <2>8. /\ MonthNo(MinusMonth(from)) = MonthNo(p) /\ MinusMonth(from).d \in 1..31
        /\ MonthNo(MinusMonth(to)) = MonthNo(p) /\ MinusMonth(to).d <= last
    BY <2>1, <2>7, MinusMonthIs
  <2> HIDE DEF month, p, last
  <2> QED
    BY <2>6, <2>8 DEF Upto, month
<1> QED
  BY <1>1, InitType, TypeStep, PTL DEF Spec

-----------------------------------------------------------------------------
(* The bound on the age of an answer, for every TTL, every time spent        *)
(* between the caches and on the way to Redis, and every number of requests  *)
(* and processes.                                                            *)

USE ClockAssumption DEF Entry, Sent, Places, InHand, Fresh, Stamped

ClockInv == ClockTypeOK /\ EntriesExpire /\ AgeBounded

\* The invariant holds with empty caches.
LEMMA ClockInvInit == ClockInit => ClockInv
  BY DEF ClockInit, ClockInv, ClockTypeOK, EntriesExpire, AgeBounded

\* A tick takes from the time left what it adds to the age.
LEMMA AgedEntry ==
  ASSUME NEW entry \in Entry \cup {None, Expired}
  PROVE  /\ Aged(entry) \in Entry \cup {None, Expired}
         /\ Fresh(Aged(entry)) => /\ Fresh(entry)
                                  /\ Aged(entry).age + Aged(entry).left
                                       = entry.age + entry.left
  BY DEF Aged

\* Time ages every entry, SET and value by what it takes off their rest.
LEMMA TickStep == ClockInv /\ Tick => ClockInv'
<1> SUFFICES ASSUME ClockInv, Tick PROVE ClockInv'
  OBVIOUS
<1> USE DEF ClockInv, ClockTypeOK, EntriesExpire, AgeBounded
<1>1. /\ l1' \in [Instances -> Entry \cup {None, Expired}]
      /\ l2' \in Entry \cup {None, Expired}
  BY AgedEntry DEF Tick
<1>2. /\ Fresh(l2') => l2'.age + l2'.left <= TTL + Hold + Delay
      /\ \A i \in Instances :
           Fresh(l1'[i]) => l1'[i].age + l1'[i].left <= 2 * TTL + 2 * Hold + Delay
  BY AgedEntry DEF Tick
<1>3. /\ wire' \subseteq Sent
      /\ \A m \in wire' : m.age - m.sent <= Hold /\ m.sent <= Delay
  BY DEF Tick
<1>4. /\ held' \in [Requests -> Nat] /\ kept' \in [Requests -> Nat]
      /\ \A r \in Requests \ InHand : held'[r] = held[r] /\ kept'[r] = kept[r]
      /\ \A r \in InHand : held'[r] - kept'[r] = held[r] - kept[r] /\ kept'[r] <= Hold
  BY DEF Tick
<1>5. UNCHANGED <<pc, home>>
  BY DEF Tick
<1> QED
  BY <1>1, <1>2, <1>3, <1>4, <1>5

\* Every step keeps the invariant.
LEMMA ClockInvStep == ClockInv /\ [ClockNext]_clockVars => ClockInv'
<1> SUFFICES ASSUME ClockInv, [ClockNext]_clockVars PROVE ClockInv'
  OBVIOUS
<1> USE DEF ClockInv, ClockTypeOK, EntriesExpire, AgeBounded
<1>1. ASSUME NEW r \in Requests, L1Hit(r) PROVE ClockInv'
  BY <1>1 DEF L1Hit
<1>2. ASSUME NEW r \in Requests, L1Miss(r) \/ L2Miss(r) \/ Load(r) PROVE ClockInv'
  BY <1>2 DEF L1Miss, L2Miss, Load
<1>3. ASSUME NEW r \in Requests, L1Evict(r) PROVE ClockInv'
  BY <1>3 DEF L1Evict
\* A hit in Redis happens at most one TTL after the entry was stored there.
<1>4. ASSUME NEW r \in Requests, L2Hit(r) PROVE ClockInv'
  BY <1>4 DEF L2Hit
\* Storing starts a new TTL, whatever the age of the data.
<1>5. ASSUME NEW r \in Requests, Fill(r) PROVE ClockInv'
  BY <1>5 DEF Fill, StoreL1
<1>6. ASSUME NEW r \in Requests, SetL1(r) PROVE ClockInv'
  BY <1>6 DEF SetL1, StoreL1
<1>7. ASSUME NEW r \in Requests, SetL2(r) PROVE ClockInv'
  BY <1>7 DEF SetL2
<1>8. ASSUME NEW m \in wire, LateSet(m) PROVE ClockInv'
  BY <1>8 DEF LateSet
<1>9. ASSUME NEW r \in Requests, Reply(r) PROVE ClockInv'
  BY <1>9 DEF Reply
<1>10. CASE UNCHANGED clockVars
  BY <1>10 DEF clockVars
<1> QED
  BY <1>1, <1>2, <1>3, <1>4, <1>5, <1>6, <1>7, <1>8, <1>9, <1>10, TickStep DEF ClockNext

\* The invariant the theorems below are parts or consequences of.
THEOREM ClockInvariant == ClockSpec => []ClockInv
  BY ClockInvInit, ClockInvStep, PTL DEF ClockSpec

\* Types.
THEOREM ClockTypes == ClockSpec => []ClockTypeOK
  BY ClockInvariant, PTL DEF ClockInv

\* Every entry, every SET and every value in hand is young enough to be passed
\* on (cache.go:122-135).
THEOREM EntriesExpireAlways == ClockSpec => []EntriesExpire
  BY ClockInvariant, PTL DEF ClockInv

\* No answer of an analytics endpoint is older than 2 * TTL, the time its data
\* spent in the hands of two goroutines, one per cache, and the time it was on
\* its way to Redis (cache.go:122-135, redis.go:163).
THEOREM AgeIsBounded == ClockSpec => []AgeBounded
  BY ClockInvariant, PTL DEF ClockInv

=============================================================================
