----------------------------- MODULE CompatTime -----------------------------
(***************************************************************************)
(* gmtime_safe_internal (src/src/compat.cpp), which the sinks use instead  *)
(* of localtime when USE_SAFE_LOCALTIME_UTC is set, against the Gregorian  *)
(* calendar.  The behaviours of this module walk through the days of a     *)
(* year; every state compares the computed date with the one the calendar  *)
(* has reached by counting days.                                           *)
(*                                                                         *)
(* Time is counted in hours: seconds and minutes are split off first, and  *)
(* the offset is UTC.  The cast of the hours to 32 bits changes nothing    *)
(* before the year 491936.                                                 *)
(***************************************************************************)
EXTENDS Integers

CONSTANT Years   \* the years whose days are walked through

ASSUME YearsAssumption == Years \subseteq Nat

VARIABLES day,   \* days since 1 January 1970
          date   \* the same day in the calendar

vars == <<day, date>>

-----------------------------------------------------------------------------
(* gmtime_safe_internal                                                      *)

Days == <<31, 28, 31, 30, 31, 30, 31, 31, 30, 31, 30, 31>>
Before[m \in 0 .. 12] == IF m = 0 THEN 0 ELSE Before[m - 1] + Days[m]

(* tm_year counts from 1900.                                                 *)
IsLeap(year) == year % 4 = 0
HoursOf(year) == (IF IsLeap(year) THEN 366 ELSE 365) * 24

(* The loop: the years of a period of four that have passed at an hour of it. *)
Start[y \in 70 .. 73] == IF y = 70 THEN 0 ELSE Start[y - 1] + HoursOf(y - 1)
YearsPassed(hour) ==
    CHOOSE k \in 0 .. 3 : Start[70 + k] <= hour /\ hour < Start[70 + k] + HoursOf(70 + k)

(* Mutant: days are counted from 0.                                          *)
DayFromZero(hour) == hour \div 24

(* The number of the day in its year.                                        *)
DayOf(hour) == hour \div 24 + 1

(* Mutant: the days after 29 February are not moved back.                    *)
KeepsDay(leap, n) == n

(* In a leap year the table of a common year is used from 1 March on.        *)
InTable(leap, n) == IF leap /\ n > 60 THEN n - 1 ELSE n

(* tm_mon and tm_mday of the n-th day of a year.                             *)
MonthDay(leap, n) ==
    IF leap /\ n = 60 THEN [mon |-> 1, mday |-> 29]
    ELSE LET d == InTable(leap, n)
             m == CHOOSE i \in 0 .. 11 :
                      d <= Before[i + 1] /\ \A j \in 0 .. i - 1 : Before[j + 1] < d
         IN  [mon |-> m, mday |-> d - Before[m]]

gmtime_safe(time) ==
    LET hours == IF time < 0 THEN 0 ELSE time
        hour  == hours % (1461 * 24)
        k     == YearsPassed(hour)
        year  == 70 + 4 * (hours \div (1461 * 24)) + k
        left  == hour - Start[70 + k]
        md    == MonthDay(IsLeap(year), DayOf(left))
    IN  [year |-> year, mon |-> md.mon, mday |-> md.mday, hour |-> left % 24]

-----------------------------------------------------------------------------
(* The calendar.                                                             *)

Gregorian(y) == (y % 4 = 0 /\ y % 100 # 0) \/ y % 400 = 0

MonthLength(y, m) ==
    CASE m = 2 -> IF Gregorian(y) THEN 29 ELSE 28
      [] m \in {4, 6, 9, 11} -> 30
      [] OTHER -> 31

(* Days between 1 January 1970 and 1 January of y.                           *)
LeapsBefore(y) == (y - 1) \div 4 - (y - 1) \div 100 + (y - 1) \div 400
DaysBefore(y)  == 365 * (y - 1970) + LeapsBefore(y) - LeapsBefore(1970)

Init == \E y \in Years : day = DaysBefore(y) /\ date = <<y, 1, 1>>

NextDay ==
    LET y == date[1]  m == date[2]  d == date[3]
    IN  /\ <<m, d>> # <<12, 31>>
        /\ day' = day + 1
        /\ date' = IF d < MonthLength(y, m) THEN <<y, m, d + 1>> ELSE <<y, m + 1, 1>>

Next == NextDay

Spec == Init /\ [][Next]_vars

-----------------------------------------------------------------------------
(* Properties                                                                *)

(* Every field of the result is in the range that strftime accepts, so that  *)
(* the loop over the months stays inside its table.                          *)
TypeOK ==
    \A h \in 0 .. 23 :
        LET t == gmtime_safe(24 * day + h)
        IN  t \in [year : Nat, mon : 0 .. 11, mday : 1 .. 31, hour : 0 .. 23]

(* localtime-safe-tests.cpp "gmtime_safe matches std::gmtime": at every hour *)
(* of every day, not only at the five instants of the test.                  *)
MatchesCalendar ==
    \A h \in 0 .. 23 :
        gmtime_safe(24 * day + h) =
            [year |-> date[1] - 1900, mon |-> date[2] - 1, mday |-> date[3], hour |-> h]
=============================================================================
