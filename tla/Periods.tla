-------------------------------- MODULE Periods --------------------------------
(***************************************************************************)
(* The periods a dashboard compares.  The user picks a period; the metrics *)
(* set it against the same days one month earlier (getPeriodRanges), the   *)
(* outlet ranking against the whole month before (getPreviousMonthRange),  *)
(* and the trend pairs every day with the one Postgres finds by taking a   *)
(* month off.  The state is the period picked; its steps walk through      *)
(* every period of a few months in the years of interest.                  *)
(***************************************************************************)
EXTENDS Integers

CONSTANTS
  Years,      \* years periods begin in
  MaxMonths   \* bound: how many months later they end at most

ASSUME PeriodAssumption == Years \subseteq Nat \ {0} /\ MaxMonths \in Nat

VARIABLES from, to    \* the period picked, TanggalMulai and TanggalSelesai

vars == <<from, to>>

-----------------------------------------------------------------------------
(* The calendar.                                                           *)

Leap(y) == y % 4 = 0 /\ (y % 100 # 0 \/ y % 400 = 0)

DaysIn(y, m) ==
  IF m = 2 THEN IF Leap(y) THEN 29 ELSE 28
  ELSE IF m \in {4, 6, 9, 11} THEN 30 ELSE 31

On(y, m, d) == [y |-> y, m |-> m, d |-> d]
Dates == {t \in [y : Nat, m : 1..12, d : 1..31] : t.d <= DaysIn(t.y, t.m)}

MonthNo(t) == 12 * t.y + t.m
Upto(s, t) == MonthNo(s) < MonthNo(t) \/ (MonthNo(s) = MonthNo(t) /\ s.d <= t.d)
Before(s, t) == Upto(s, t) /\ s # t

MonthAfter(t)  == IF t.m = 12 THEN On(t.y + 1, 1, 1) ELSE On(t.y, t.m + 1, 1)
MonthBefore(t) == IF t.m = 1 THEN On(t.y - 1, 12, 1) ELSE On(t.y, t.m - 1, 1)
DayAfter(t) == IF t.d = DaysIn(t.y, t.m) THEN MonthAfter(t) ELSE [t EXCEPT !.d = @ + 1]

-----------------------------------------------------------------------------
(* The code.                                                               *)

\* time.Date(y, m, d), which accepts a month 0 and days that are not in the
\* month and carries them over to the months around it.
GoDate(y, m, d) ==
  LET first == IF m = 0 THEN On(y - 1, 12, 1) ELSE On(y, m, 1)
      days  == DaysIn(first.y, first.m)
      prior == MonthBefore(first)
  IN  IF d = 0 THEN [prior EXCEPT !.d = DaysIn(prior.y, prior.m)]
      ELSE IF d > days THEN [MonthAfter(first) EXCEPT !.d = d - days]
      ELSE [first EXCEPT !.d = d]

\* (Seeded fault: the day is not clamped to the month before.)
ShiftAnyDay(t) == GoDate(t.y, t.m - 1, t.d)

\* (Seeded fault: any clamped day becomes the 28th, the safe choice.)
ShiftTo28(t) ==
  LET last == GoDate(t.y, t.m, 0).d
  IN  GoDate(t.y, t.m - 1, IF t.d > last THEN 28 ELSE t.d)

shiftToPrevMonth(t) ==
  LET last == GoDate(t.y, t.m, 0).d
  IN  GoDate(t.y, t.m - 1, IF t.d > last THEN last ELSE t.d)

\* (Seeded fault: every month before has 30 days.)
RangeOf30(t) == [start |-> GoDate(t.y, t.m - 1, 1), end |-> GoDate(t.y, t.m - 1, 30)]

\* The ranking's range: the whole month before the one the period begins in.
getPreviousMonthRange(t) ==
  [start |-> GoDate(t.y, t.m - 1, 1), end |-> GoDate(t.y, t.m, 0)]

\* The metrics' range: both ends of the period, a month earlier.
getPeriodRanges(s, t) == [start |-> shiftToPrevMonth(s), end |-> shiftToPrevMonth(t)]

\* date - INTERVAL '1 month' in Postgres: the day before the carry, clamped.
MinusMonth(t) ==
  LET p == MonthBefore(t) IN
  [p EXCEPT !.d = IF t.d > DaysIn(p.y, p.m) THEN DaysIn(p.y, p.m) ELSE t.d]

-----------------------------------------------------------------------------
(* Every period that begins in one of the years.                           *)

Init == \E y \in Years : from = On(y, 1, 1) /\ to = On(y, 1, 1)

LaterEnd ==
  /\ MonthNo(DayAfter(to)) <= MonthNo(from) + MaxMonths
  /\ to' = DayAfter(to)
  /\ UNCHANGED from

LaterStart ==
  /\ from = to /\ DayAfter(from).y = from.y
  /\ from' = DayAfter(from) /\ to' = from'

Next == LaterEnd \/ LaterStart
Spec == Init /\ [][Next]_vars

-----------------------------------------------------------------------------
(* Properties.                                                             *)

\* Types, and the period does not end before it begins.
PeriodTypeOK == from \in Dates /\ to \in Dates /\ Upto(from, to)

Previous == getPeriodRanges(from, to)

\* metrik.go:187-188, 221, 226: the day the trend pairs with a day of the period
\* lies in the range its single scan aggregates, for Go and Postgres clamp a
\* month's end alike; no pair is silently zero.  (Each day of a period is the
\* last day of another state, so it is enough to look at the last.)
PairsInRange ==
  Upto(Previous.start, MinusMonth(to)) /\ Upto(MinusMonth(to), Previous.end)

\* A period within a month and the one it is compared with share no day: no sale
\* counts both as current and as previous.
PeriodsApart == from.m = to.m /\ from.y = to.y => Before(Previous.end, from)

\* For such a period the metrics never look outside the month the ranking
\* compares with, even when that month is the shorter one.
RankingCovers ==
  LET month == getPreviousMonthRange(from)
  IN  from.m = to.m /\ from.y = to.y =>
        Upto(month.start, Previous.start) /\ Upto(Previous.end, month.end)

=============================================================================
