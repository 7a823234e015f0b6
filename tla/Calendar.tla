------------------------------ MODULE Calendar ------------------------------
(***************************************************************************)
(* The two date conversions of time.c, time_t_to_timestamp and             *)
(* timestamp_to_time_t, beside a calendar that is walked day by day from   *)
(* 1 January 1970.  Both work on days; the time of day is carried by       *)
(* division and remainder alone and is left out, as is the wrap of the     *)
(* 32-bit second counter in February 2106.                                 *)
(***************************************************************************)
EXTENDS Integers, FiniteSets

CONSTANT LastYear  \* where the walk ends, for model checking

ASSUME CalendarAssumption == LastYear \in 1970 .. 2105

VARIABLES
  date,  \* the day the walk has reached
  n      \* days walked

vars == <<date, n>>

d_month == <<31, 28, 31, 30, 31, 30, 31, 31, 30, 31, 30, 31>>

leap_year(y) == y % 4 = 0 /\ (y % 100 # 0 \/ y % 400 = 0)

YearDays(y) == IF leap_year(y) THEN 366 ELSE 365

-----------------------------------------------------------------------------
(* The code *)

\* The loop over the years since 1970.
YearsBefore(y) == LET sum[i \in 1970 .. y] == IF i = 1970 THEN 0 ELSE sum[i - 1] + YearDays(i - 1)
                  IN sum[y]

\* The loop over the months before this one: January is month 1.
MonthsBefore(m) == LET sum[i \in 0 .. m - 1] == IF i = 0 THEN 0 ELSE sum[i - 1] + d_month[i]
                   IN sum[m - 1]

\* The leap day is added from February on.
LeapDay(t) == IF t.month >= 2 /\ leap_year(t.year) THEN 1 ELSE 0

time_t_to_timestamp(t) == YearsBefore(t.year) + MonthsBefore(t.month) + LeapDay(t) + t.day - 1

\* Fault: February is not adjusted.
MonthDays_NoLeap(y, m) == d_month[m]

\* February has 29 days in a leap year.
MonthDays(y, m) == IF m = 2 /\ leap_year(y) THEN 29 ELSE d_month[m]

\* Take off whole years while they fit, then whole months: p is the year, or the
\* month, that has been reached, and the days that are left.
timestamp_to_time_t(total_days) ==
  LET year[p \in Nat \X Nat] ==
        IF p[2] < YearDays(p[1]) THEN p ELSE year[<<p[1] + 1, p[2] - YearDays(p[1])>>]
      y == year[<<1970, total_days>>]
      month[p \in (1 .. 13) \X Nat] ==
        IF p[1] = 13 \/ p[2] < MonthDays(y[1], p[1]) THEN p
        ELSE month[<<p[1] + 1, p[2] - MonthDays(y[1], p[1])>>]
      m == month[<<1, y[2]>>]
  IN [year |-> y[1], month |-> m[1], day |-> m[2] + 1]

-----------------------------------------------------------------------------
(* The calendar *)

Epoch == [year |-> 1970, month |-> 1, day |-> 1]

\* Thirty days hath September, April, June and November.
Length(y, m) == IF m \in {4, 6, 9, 11} THEN 30
                ELSE IF m # 2 THEN 31
                ELSE IF (4 * (y \div 4) = y /\ 100 * (y \div 100) # y) \/ 400 * (y \div 400) = y
                THEN 29 ELSE 28

Tomorrow(t) == IF t.day < Length(t.year, t.month) THEN [t EXCEPT !.day = @ + 1]
               ELSE IF t.month < 12 THEN [t EXCEPT !.day = 1, !.month = @ + 1]
               ELSE [year |-> t.year + 1, month |-> 1, day |-> 1]

Init == date = Epoch /\ n = 0

NextDay == /\ date.year < LastYear
           /\ date' = Tomorrow(date)
           /\ n' = n + 1

Next == NextDay

Spec == Init /\ [][Next]_vars

-----------------------------------------------------------------------------
(* Properties *)

\* Converting a day number gives the day the calendar has reached, leap years
\* and century years included.
DateOfDays == timestamp_to_time_t(n) = date

InLeapFebruary == date.month = 2 /\ leap_year(date.year)

\* Converting a date gives its day number, except in February of a leap year.
DaysOfDate == ~InLeapFebruary => time_t_to_timestamp(date) = n
=============================================================================
