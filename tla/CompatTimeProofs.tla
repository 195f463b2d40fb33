-------------------------- MODULE CompatTimeProofs --------------------------
(***************************************************************************)
(* gmtime_safe_internal gives a date for every time, and the one of the    *)
(* calendar at every hour from 1970 to 2099.                               *)
(*                                                                         *)
(* In these years the rule of four is the whole rule, so that periods of   *)
(* four years have 1461 days.  A day is then the number of its period, the *)
(* year in it, and its number in that year (Position); the code takes      *)
(* these three out of the hours, and finds month and day from the last.    *)
(***************************************************************************)
EXTENDS CompatTime, TLAPS

YearLength(leap) == IF leap THEN 366 ELSE 365

(* The years of a period of four, of which the third is a leap year.         *)
DaysOf(k)    == IF k = 2 THEN 366 ELSE 365
FirstDay(k)  == IF k = 3 THEN 1096 ELSE 365 * k

(* The days before a month, from the table of a common year.                 *)
TableBefore == <<0, 31, 59, 90, 120, 151, 181, 212, 243, 273, 304, 334, 365>>

(* The number of a day in its year.                                          *)
DayNumber(leap, m, d) == TableBefore[m] + (IF leap /\ m > 2 THEN 1 ELSE 0) + d

LengthOf(leap, m) == IF m = 2 /\ leap THEN 29 ELSE Days[m]

(* The date is one of the year the walk began with, and the number of days   *)
(* is what it counts up to.                                                  *)
IInv ==
    /\ date \in Years \X (1 .. 12) \X (1 .. 31)
    /\ date[3] <= MonthLength(date[1], date[2])
    /\ day = DaysBefore(date[1]) + DayNumber(Gregorian(date[1]), date[2], date[3]) - 1

-----------------------------------------------------------------------------
(* The tables.                                                               *)

LEMMA Months ==
  ASSUME NEW m \in 1 .. 12
  PROVE  /\ m = 1 => TableBefore[m] = 0 /\ TableBefore[m + 1] = 31 /\ Days[m] = 31
         /\ m = 2 => TableBefore[m] = 31 /\ TableBefore[m + 1] = 59 /\ Days[m] = 28
         /\ m = 3 => TableBefore[m] = 59 /\ TableBefore[m + 1] = 90 /\ Days[m] = 31
         /\ m = 4 => TableBefore[m] = 90 /\ TableBefore[m + 1] = 120 /\ Days[m] = 30
         /\ m = 5 => TableBefore[m] = 120 /\ TableBefore[m + 1] = 151 /\ Days[m] = 31
         /\ m = 6 => TableBefore[m] = 151 /\ TableBefore[m + 1] = 181 /\ Days[m] = 30
         /\ m = 7 => TableBefore[m] = 181 /\ TableBefore[m + 1] = 212 /\ Days[m] = 31
         /\ m = 8 => TableBefore[m] = 212 /\ TableBefore[m + 1] = 243 /\ Days[m] = 31
         /\ m = 9 => TableBefore[m] = 243 /\ TableBefore[m + 1] = 273 /\ Days[m] = 30
         /\ m = 10 => TableBefore[m] = 273 /\ TableBefore[m + 1] = 304 /\ Days[m] = 31
         /\ m = 11 => TableBefore[m] = 304 /\ TableBefore[m + 1] = 334 /\ Days[m] = 30
         /\ m = 12 => TableBefore[m] = 334 /\ TableBefore[m + 1] = 365 /\ Days[m] = 31
  BY DEF TableBefore, Days

LEMMA BeforeIsTable == \A m \in 0 .. 12 : Before[m] = TableBefore[m + 1]
<1> DEFINE w == [m \in 0 .. 12 |-> TableBefore[m + 1]]
           G(f) == [m \in 0 .. 12 |-> IF m = 0 THEN 0 ELSE f[m - 1] + Days[m]]
<1>1. w = G(w)
  <2>1. ASSUME NEW m \in 0 .. 12 PROVE w[m] = IF m = 0 THEN 0 ELSE w[m - 1] + Days[m]
    BY DEF TableBefore, Days
  <2> QED
    BY <2>1
<1>2. Before = CHOOSE f : f = G(f)
  BY DEF Before
<1>3. Before = G(Before)
  BY <1>1, <1>2
<1> HIDE DEF w
<1>4. Before[0] = 0 /\ \A m \in 1 .. 12 : Before[m] = Before[m - 1] + Days[m]
  BY <1>3
<1>5. \A m \in 1 .. 12 : m - 1 \in 0 .. 12
  OBVIOUS
<1>6. /\ Before[1] = Before[0] + 31 /\ Before[2] = Before[1] + 28 /\ Before[3] = Before[2] + 31
      /\ Before[4] = Before[3] + 30 /\ Before[5] = Before[4] + 31 /\ Before[6] = Before[5] + 30
      /\ Before[7] = Before[6] + 31 /\ Before[8] = Before[7] + 31 /\ Before[9] = Before[8] + 30
      /\ Before[10] = Before[9] + 31 /\ Before[11] = Before[10] + 30 /\ Before[12] = Before[11] + 31
  BY <1>4 DEF Days
<1>7. /\ Before[0] = 0 /\ Before[1] = 31 /\ Before[2] = 59 /\ Before[3] = 90 /\ Before[4] = 120
      /\ Before[5] = 151 /\ Before[6] = 181 /\ Before[7] = 212 /\ Before[8] = 243 /\ Before[9] = 273
      /\ Before[10] = 304 /\ Before[11] = 334 /\ Before[12] = 365
  BY <1>4, <1>6
<1> QED
  BY <1>7 DEF TableBefore

LEMMA Leaps == ~IsLeap(70) /\ ~IsLeap(71) /\ IsLeap(72) /\ ~IsLeap(73)
  BY DEF IsLeap

LEMMA Starts ==
    /\ Start[70] = 0 /\ Start[71] = 8760 /\ Start[72] = 17520 /\ Start[73] = 26304
    /\ HoursOf(70) = 8760 /\ HoursOf(71) = 8760 /\ HoursOf(72) = 8784 /\ HoursOf(73) = 8760
<1> DEFINE w == [y \in 70 .. 73 |-> CASE y = 70 -> 0 [] y = 71 -> 8760 [] y = 72 -> 17520 [] y = 73 -> 26304]
           G(f) == [y \in 70 .. 73 |-> IF y = 70 THEN 0 ELSE f[y - 1] + HoursOf(y - 1)]
<1>1. HoursOf(70) = 8760 /\ HoursOf(71) = 8760 /\ HoursOf(72) = 8784 /\ HoursOf(73) = 8760
  BY Leaps DEF HoursOf
<1>2. w = G(w)
  BY <1>1
<1>3. Start = G(Start)
  BY <1>2 DEF Start
<1> HIDE DEF w
<1>4. Start[70] = 0 /\ \A y \in 71 .. 73 : Start[y] = Start[y - 1] + HoursOf(y - 1)
  BY <1>3
<1>5. Start[71] = Start[70] + HoursOf(70) /\ Start[72] = Start[71] + HoursOf(71) /\ Start[73] = Start[72] + HoursOf(72)
  BY <1>4
<1> QED
  BY <1>1, <1>4, <1>5

(* The hours before a year of the period, and in it.                         *)
LEMMA Period ==
  ASSUME NEW k \in 0 .. 3
  PROVE  Start[70 + k] = 24 * FirstDay(k) /\ HoursOf(70 + k) = 24 * DaysOf(k)
<1>1. k = 0 \/ k = 1 \/ k = 2 \/ k = 3
  OBVIOUS
<1> QED
  BY <1>1, Starts DEF FirstDay, DaysOf

(* The loop over the years ends in the year of the hour.                     *)
LEMMA YearFound ==
  ASSUME NEW hour \in Nat, hour < 35064
  PROVE  LET k == YearsPassed(hour)
         IN  /\ k \in 0 .. 3
             /\ hour - Start[70 + k] \in 0 .. 24 * DaysOf(k) - 1
             /\ \A j \in 0 .. 3 : hour - Start[70 + j] \in 0 .. 24 * DaysOf(j) - 1 => j = k
<1> DEFINE In(j) == Start[70 + j] <= hour /\ hour < Start[70 + j] + HoursOf(70 + j)
           k == YearsPassed(hour)
<1>1. /\ In(0) <=> hour < 8760
      /\ In(1) <=> 8760 <= hour /\ hour < 17520
      /\ In(2) <=> 17520 <= hour /\ hour < 26304
      /\ In(3) <=> 26304 <= hour
  <2>1. 70 + 0 = 70 /\ 70 + 1 = 71 /\ 70 + 2 = 72 /\ 70 + 3 = 73 /\ hour \in Int /\ 0 <= hour /\ hour < 35064
    OBVIOUS
  <2>2. /\ In(0) <=> Start[70] <= hour /\ hour < Start[70] + HoursOf(70)
        /\ In(1) <=> Start[71] <= hour /\ hour < Start[71] + HoursOf(71)
        /\ In(2) <=> Start[72] <= hour /\ hour < Start[72] + HoursOf(72)
        /\ In(3) <=> Start[73] <= hour /\ hour < Start[73] + HoursOf(73)
    <3>1. /\ Start[70 + 0] = Start[70] /\ HoursOf(70 + 0) = HoursOf(70)
          /\ Start[70 + 1] = Start[71] /\ HoursOf(70 + 1) = HoursOf(71)
          /\ Start[70 + 2] = Start[72] /\ HoursOf(70 + 2) = HoursOf(72)
          /\ Start[70 + 3] = Start[73] /\ HoursOf(70 + 3) = HoursOf(73)
      BY <2>1
    <3> QED
      BY <3>1
  <2> HIDE DEF In
  <2> QED
    BY <2>1, <2>2, Starts
<1>2. \A j \in 0 .. 3 : In(j) <=> hour - Start[70 + j] \in 0 .. 24 * DaysOf(j) - 1
  <2> SUFFICES ASSUME NEW j \in 0 .. 3 PROVE In(j) <=> hour - Start[70 + j] \in 0 .. 24 * DaysOf(j) - 1
    OBVIOUS
  <2>1. /\ Start[70 + j] = 24 * FirstDay(j) /\ HoursOf(70 + j) = 24 * DaysOf(j)
        /\ FirstDay(j) \in Int /\ DaysOf(j) \in Int
    BY Period DEF FirstDay, DaysOf
  <2> QED
    BY <2>1
<1>3. k = CHOOSE j \in 0 .. 3 : In(j)
  BY DEF YearsPassed
<1>4. \E j \in 0 .. 3 : In(j)
  BY <1>1
<1>5. \A i, j \in 0 .. 3 : In(i) /\ In(j) => i = j
  BY <1>1
<1> HIDE DEF In, k
<1>6. k \in 0 .. 3 /\ In(k)
  BY <1>3, <1>4
<1> QED
  BY <1>2, <1>5, <1>6 DEF k

(* The loop over the months ends in the month of the day.                    *)
LEMMA MonthFound ==
  ASSUME NEW leap \in BOOLEAN, NEW m \in 1 .. 12, NEW d \in 1 .. LengthOf(leap, m)
  PROVE  /\ DayNumber(leap, m, d) \in 1 .. YearLength(leap)
         /\ MonthDay(leap, DayNumber(leap, m, d)) = [mon |-> m - 1, mday |-> d]
<1> DEFINE n == DayNumber(leap, m, d)
           t == TableBefore[m] + d
           Ends(i) == t <= Before[i + 1] /\ \A j \in 0 .. i - 1 : Before[j + 1] < t
<1>1. m = 1 \/ m = 2 \/ m = 3 \/ m = 4 \/ m = 5 \/ m = 6 \/ m = 7 \/ m = 8 \/ m = 9 \/ m = 10 \/ m = 11 \/ m = 12
  OBVIOUS
<1>2. d \in Nat
  BY Months, <1>1 DEF LengthOf
<1>3. n \in 1 .. YearLength(leap)
  BY <1>1, <1>2, Months DEF DayNumber, LengthOf, YearLength
<1>4. CASE leap /\ m = 2 /\ d = 29
  <2>1. n = 60
    BY <1>4, Months DEF DayNumber
  <2>2. MonthDay(leap, 60) = [mon |-> 1, mday |-> 29]
    BY <1>4 DEF MonthDay
  <2>3. m - 1 = 1 /\ d = 29
    BY <1>4
  <2> QED
    BY <1>3, <2>1, <2>2, <2>3, Zenon
<1>5. CASE ~(leap /\ m = 2 /\ d = 29)
  <2>1. d \in 1 .. Days[m]
    BY <1>1, <1>2, <1>5, Months DEF LengthOf
  <2>2. InTable(leap, n) = t /\ ~(leap /\ n = 60)
    BY <1>1, <1>2, <1>5, <2>1, Months DEF InTable, DayNumber
  <2>3. MonthDay(leap, n) = LET i == CHOOSE i \in 0 .. 11 : Ends(i) IN [mon |-> i, mday |-> t - Before[i]]
    BY <2>2 DEF MonthDay
  <2>4. TableBefore[m] < t /\ t <= TableBefore[m + 1] /\ Before[m] = TableBefore[m + 1] /\ Before[m - 1] = TableBefore[m]
    BY <1>1, <2>1, Months, BeforeIsTable
  <2>5. Ends(m - 1)
    BY <1>1, <2>4, BeforeIsTable, Months
  <2>6. \A i \in 0 .. 11 : Ends(i) => i = m - 1
    BY <1>1, <2>4, BeforeIsTable, Months
  <2>7. m - 1 \in 0 .. 11
    OBVIOUS
  <2> HIDE DEF Ends, t, n
  <2>8. (CHOOSE i \in 0 .. 11 : Ends(i)) = m - 1
    BY <2>5, <2>6, <2>7
  <2>9. MonthDay(leap, n) = [mon |-> m - 1, mday |-> t - Before[m - 1]]
    BY <2>3, <2>8
  <2>10. t - Before[m - 1] = d
    BY <1>1, <1>2, <2>4, Months DEF t
  <2>11. MonthDay(leap, n) = [mon |-> m - 1, mday |-> d]
    BY <2>9, <2>10, Zenon
  <2> QED
    BY <1>3, <2>11 DEF n
<1> QED
  BY <1>4, <1>5

LEMMA MonthInYear ==
  ASSUME NEW leap \in BOOLEAN, NEW n \in 1 .. YearLength(leap)
  PROVE  \E m \in 1 .. 12 : \E d \in 1 .. LengthOf(leap, m) : n = DayNumber(leap, m, d)
<1> DEFINE S(m) == TableBefore[m] + (IF leap /\ m > 2 THEN 1 ELSE 0)
<1>1. n \in Nat /\ 0 < n /\ (leap => n <= 366) /\ (~leap => n <= 365)
  BY DEF YearLength
<1>2. \A m \in 1 .. 12 : LengthOf(leap, m) = Days[m] + IF leap /\ m = 2 THEN 1 ELSE 0
  BY Months DEF LengthOf
<1>3. \E m \in 1 .. 12 : S(m) < n /\ n <= S(m) + LengthOf(leap, m)
  BY <1>1, <1>2, Months
<1>4. PICK m \in 1 .. 12 : S(m) < n /\ n <= S(m) + LengthOf(leap, m)
  BY <1>3
<1>5. S(m) \in Int /\ LengthOf(leap, m) \in Int
  BY <1>1, <1>2, Months
<1>6. n = S(m) + (n - S(m)) /\ n - S(m) \in 1 .. LengthOf(leap, m)
  BY <1>1, <1>4, <1>5
<1> QED
  BY <1>6 DEF DayNumber

-----------------------------------------------------------------------------
(* What gmtime_safe gives, by the year and the day the hours lie in.         *)

LEMMA Split ==
  ASSUME NEW q \in Nat, NEW r \in Nat, r < 35064
  PROVE  /\ 35064 * q + r \in Nat
         /\ (35064 * q + r) % (1461 * 24) = r /\ (35064 * q + r) \div (1461 * 24) = q
  OBVIOUS

LEMMA Scaled ==
  ASSUME NEW q \in Nat, NEW f \in Nat, NEW n \in Int, 1 <= n, f + n <= 1461, NEW h \in 0 .. 23
  PROVE  /\ 24 * (1461 * q + f + n - 1) + h = 35064 * q + (24 * (f + n - 1) + h)
         /\ 24 * (f + n - 1) + h \in Nat /\ 24 * (f + n - 1) + h < 35064
  OBVIOUS

(* An hour, as that of a day in a month, of a year k of the period q.        *)
Lies(time, q, k, leap, m, d, h) ==
    /\ q \in Nat /\ k \in 0 .. 3 /\ leap \in BOOLEAN /\ (leap => k = 2) /\ (k = 2 => leap)
    /\ m \in 1 .. 12 /\ d \in 1 .. LengthOf(leap, m) /\ h \in 0 .. 23
    /\ time = 24 * (1461 * q + FirstDay(k) + DayNumber(leap, m, d) - 1) + h

LEMMA DateOf ==
  ASSUME NEW time, NEW q, NEW k, NEW leap, NEW m, NEW d, NEW h, Lies(time, q, k, leap, m, d, h)
  PROVE  gmtime_safe(time) = [year |-> 70 + 4 * q + k, mon |-> m - 1, mday |-> d, hour |-> h]
<1>0. /\ q \in Nat /\ k \in 0 .. 3 /\ leap \in BOOLEAN /\ (leap => k = 2) /\ (k = 2 => leap)
      /\ m \in 1 .. 12 /\ d \in 1 .. LengthOf(leap, m) /\ h \in 0 .. 23
      /\ time = 24 * (1461 * q + FirstDay(k) + DayNumber(leap, m, d) - 1) + h
  BY DEF Lies
<1> DEFINE n == DayNumber(leap, m, d)
           hour == 24 * (FirstDay(k) + n - 1) + h
           year == 70 + 4 * q + k
<1>1. n \in 1 .. YearLength(leap) /\ MonthDay(leap, n) = [mon |-> m - 1, mday |-> d]
  BY <1>0, MonthFound
<1>2. time = 24 * (1461 * q + FirstDay(k) + n - 1) + h
  BY <1>0
<1> HIDE DEF n
<1>3. /\ n \in Int /\ 1 <= n /\ n <= DaysOf(k) /\ FirstDay(k) \in Nat /\ DaysOf(k) \in Nat
      /\ FirstDay(k) + DaysOf(k) <= 1461
  <2>1. k = 0 \/ k = 1 \/ k = 2 \/ k = 3
    BY <1>0
  <2>2. YearLength(leap) = DaysOf(k)
    BY <1>0 DEF DaysOf, YearLength
  <2>3. FirstDay(k) \in Nat /\ DaysOf(k) \in Nat /\ FirstDay(k) + DaysOf(k) <= 1461
    BY <2>1 DEF DaysOf, FirstDay
  <2> QED
    BY <1>1, <2>2, <2>3
<1>4. time = 35064 * q + hour /\ hour \in Nat /\ hour < 35064
  BY <1>0, <1>2, <1>3, Scaled
<1>5. hour - Start[70 + k] = 24 * (n - 1) + h
  <2>1. Start[70 + k] = 24 * FirstDay(k)
    BY <1>0, Period
  <2> QED
    BY <1>0, <1>3, <2>1
<1>6. hour - Start[70 + k] \in 0 .. 24 * DaysOf(k) - 1
  BY <1>0, <1>3, <1>5
<1> HIDE DEF hour
<1>7. time \in Nat /\ time % (1461 * 24) = hour /\ time \div (1461 * 24) = q
  <2> DEFINE p == 35064 * q + hour
  <2>1. p \in Nat /\ p % (1461 * 24) = hour /\ p \div (1461 * 24) = q
    BY <1>0, <1>4, Split
  <2>2. time = p
    BY <1>4
  <2> HIDE DEF p
  <2> QED
    BY <2>1, <2>2
<1>8. YearsPassed(hour) = k
  BY <1>0, <1>4, <1>6, YearFound
<1>9. (hour - Start[70 + k]) % 24 = h /\ DayOf(hour - Start[70 + k]) = n
  <2> DEFINE left == hour - Start[70 + k]
  <2>1. left = 24 * (n - 1) + h
    BY <1>5
  <2> HIDE DEF left
  <2>2. left % 24 = h /\ left \div 24 = n - 1
    BY <1>0, <1>3, <2>1
  <2> QED
    BY <1>3, <2>2 DEF DayOf, left
<1>10. IsLeap(year) = leap
  <2>1. (70 + 4 * q + k) % 4 = (2 + k) % 4
    BY <1>0
  <2>2. (2 + k) % 4 = 0 <=> k = 2
    BY <1>0
  <2> QED
    BY <1>0, <2>1, <2>2 DEF IsLeap
<1>11. gmtime_safe(time) = [year |-> year, mon |-> MonthDay(leap, n).mon, mday |-> MonthDay(leap, n).mday, hour |-> h]
  <2>1. ~(time < 0)
    BY <1>7
  <2>2. 70 + 4 * (time \div (1461 * 24)) + k = year
    BY <1>7
  <2> HIDE DEF year
  <2> QED
    BY <1>7, <1>8, <1>9, <1>10, <2>1, <2>2 DEF gmtime_safe
<1> QED
  BY <1>1, <1>11

-----------------------------------------------------------------------------
(* Any time lies in some year of some period, so that gmtime_safe gives a    *)
(* date for it; one before 1970 is taken for the first hour of 1970.         *)

LEMMA DaySplit ==
  ASSUME NEW left \in Nat, NEW days \in Nat, left < 24 * days
  PROVE  \E n \in 1 .. days, h \in 0 .. 23 : left = 24 * (n - 1) + h
<1> DEFINE n == left \div 24 + 1
           h == left % 24
<1>1. n \in Int /\ h \in 0 .. 23 /\ left = 24 * (n - 1) + h
  OBVIOUS
<1> HIDE DEF n, h
<1>2. n \in 1 .. days
  BY <1>1
<1> QED
  BY <1>1, <1>2

LEMMA Typed ==
  ASSUME NEW time \in Int
  PROVE  gmtime_safe(time) \in [year : Nat, mon : 0 .. 11, mday : 1 .. 31, hour : 0 .. 23]
<1> DEFINE hours == IF time < 0 THEN 0 ELSE time
           hour  == hours % (1461 * 24)
           q     == hours \div (1461 * 24)
           k     == YearsPassed(hour)
           left  == hour - Start[70 + k]
<1>1. hours \in Nat
  OBVIOUS
<1>2. gmtime_safe(time) = gmtime_safe(hours)
  BY DEF gmtime_safe
<1> HIDE DEF hours
<1>3. hour \in Nat /\ hour < 35064 /\ q \in Nat /\ hours = 35064 * q + hour
  BY <1>1
<1> HIDE DEF hour, q
<1>4. k \in 0 .. 3 /\ left \in 0 .. 24 * DaysOf(k) - 1
  BY <1>3, YearFound
<1> HIDE DEF k
<1>5. FirstDay(k) \in Nat /\ DaysOf(k) \in Nat /\ Start[70 + k] = 24 * FirstDay(k)
  BY <1>4, Period DEF FirstDay, DaysOf
<1>6. hour = 24 * FirstDay(k) + left /\ left \in Nat /\ left < 24 * DaysOf(k)
  BY <1>3, <1>4, <1>5
<1> HIDE DEF left
<1>7. PICK n \in 1 .. DaysOf(k), h \in 0 .. 23 : left = 24 * (n - 1) + h
  BY <1>5, <1>6, DaySplit
<1>8. PICK leap \in BOOLEAN : leap <=> k = 2
  OBVIOUS
<1>9. n \in 1 .. YearLength(leap)
  BY <1>8 DEF YearLength, DaysOf
<1>10. PICK m \in 1 .. 12 : \E d \in 1 .. LengthOf(leap, m) : n = DayNumber(leap, m, d)
  BY <1>9, MonthInYear
<1>11. PICK d \in 1 .. LengthOf(leap, m) : n = DayNumber(leap, m, d)
  BY <1>10
<1>12. hours = 24 * (1461 * q + FirstDay(k) + DayNumber(leap, m, d) - 1) + h
  <2> DEFINE f == FirstDay(k)
  <2>1. n \in Int /\ f \in Int /\ hours = 35064 * q + (24 * f + (24 * (n - 1) + h))
    BY <1>3, <1>5, <1>6, <1>7
  <2> HIDE DEF f
  <2>2. hours = 24 * (1461 * q + f + n - 1) + h
    BY <1>3, <2>1
  <2> QED
    BY <1>11, <2>2 DEF f
<1>13. gmtime_safe(hours) = [year |-> 70 + 4 * q + k, mon |-> m - 1, mday |-> d, hour |-> h]
  <2>1. Lies(hours, q, k, leap, m, d, h)
    BY <1>3, <1>4, <1>8, <1>12 DEF Lies
  <2> QED
    BY <2>1, DateOf
<1>14. 70 + 4 * q + k \in Nat /\ m - 1 \in 0 .. 11 /\ d \in 1 .. 31
  <2>1. d \in 1 .. 31
    BY Months DEF LengthOf
  <2> QED
    BY <1>3, <1>4, <2>1
<1> QED
  BY <1>2, <1>13, <1>14

-----------------------------------------------------------------------------
(* The calendar.                                                             *)

LEMMA MonthLengths ==
  ASSUME NEW y, NEW m \in 1 .. 12
  PROVE  MonthLength(y, m) = LengthOf(Gregorian(y), m) /\ MonthLength(y, m) \in 28 .. 31
  BY Months DEF MonthLength, LengthOf

LEMMA DaysAreInt == \A y \in Nat : DaysBefore(y) \in Int
  BY DEF DaysBefore, LeapsBefore

(* The walk through a year counts the days of its months.                    *)
LEMMA IInvInductive == IInv /\ [Next]_vars => IInv'
<1> SUFFICES ASSUME IInv, [Next]_vars PROVE IInv'
  OBVIOUS
<1>1. CASE UNCHANGED vars
  BY <1>1 DEF IInv, vars
<1>2. CASE NextDay
  <2> DEFINE y == date[1]
             m == date[2]
             d == date[3]
             leap == Gregorian(y)
  <2>1. /\ y \in Years /\ m \in 1 .. 12 /\ d \in 1 .. 31 /\ d <= MonthLength(y, m)
        /\ day = DaysBefore(y) + DayNumber(leap, m, d) - 1
        /\ date = <<y, m, d>> /\ <<m, d>> # <<12, 31>> /\ day' = day + 1
        /\ date' = IF d < MonthLength(y, m) THEN <<y, m, d + 1>> ELSE <<y, m + 1, 1>>
    BY <1>2 DEF IInv, NextDay
  <2>2. leap \in BOOLEAN /\ DaysBefore(y) \in Int
    BY <2>1, DaysAreInt, YearsAssumption DEF Gregorian
  <2> HIDE DEF y, m, d, leap
  <2>3. MonthLength(y, m) = LengthOf(leap, m) /\ MonthLength(y, m) \in 28 .. 31
    BY <2>1, MonthLengths DEF leap
  <2>4. CASE d < MonthLength(y, m)
    <3>1. date' = <<y, m, d + 1>> /\ d + 1 \in 1 .. 31 /\ d + 1 <= MonthLength(y, m)
      BY <2>1, <2>3, <2>4
    <3>2. DayNumber(leap, m, d + 1) = DayNumber(leap, m, d) + 1 /\ DayNumber(leap, m, d) \in Int
      BY <2>1, <2>2, Months DEF DayNumber
    <3> QED
      BY <2>1, <2>2, <3>1, <3>2 DEF IInv, leap
  <2>5. CASE ~(d < MonthLength(y, m))
    <3>1. d = LengthOf(leap, m) /\ m < 12
      BY <2>1, <2>3, <2>5, Months DEF LengthOf
    <3>2. date' = <<y, m + 1, 1>> /\ m + 1 \in 1 .. 12
      BY <2>1, <2>5, <3>1
    <3>3. 1 <= MonthLength(y, m + 1)
      BY <3>2, MonthLengths
    <3>4. DayNumber(leap, m + 1, 1) = DayNumber(leap, m, d) + 1 /\ DayNumber(leap, m, d) \in Int
      BY <2>1, <2>2, <3>1, <3>2, Months DEF DayNumber, LengthOf
    <3> QED
      BY <2>1, <2>2, <3>2, <3>3, <3>4 DEF IInv, leap
  <2> QED
    BY <2>4, <2>5
<1> QED
  BY <1>1, <1>2 DEF Next

LEMMA InitIInv == Init => IInv
<1> SUFFICES ASSUME NEW y \in Years, day = DaysBefore(y), date = <<y, 1, 1>> PROVE IInv
  BY DEF Init
<1>1. DayNumber(Gregorian(y), 1, 1) = 1
  BY Months DEF DayNumber
<1>2. 1 <= MonthLength(y, 1)
  BY MonthLengths
<1>3. DaysBefore(y) \in Int
  BY DaysAreInt, YearsAssumption
<1> QED
  BY <1>1, <1>2, <1>3 DEF IInv

LEMMA Invariance == Spec => []IInv
  BY InitIInv, IInvInductive, PTL DEF Spec

(* gmtime_safe gives a date whose fields are in range, for every year.       *)
THEOREM TypeCorrect == Spec => []TypeOK
<1>1. IInv => TypeOK
  <2> SUFFICES ASSUME IInv, NEW h \in 0 .. 23
               PROVE  gmtime_safe(24 * day + h) \in [year : Nat, mon : 0 .. 11, mday : 1 .. 31, hour : 0 .. 23]
    BY DEF TypeOK
  <2>1. day \in Int
    <3>1. date[1] \in Nat /\ date[2] \in 1 .. 12 /\ date[3] \in 1 .. 31
      BY YearsAssumption DEF IInv
    <3>2. DayNumber(Gregorian(date[1]), date[2], date[3]) \in Int
      BY <3>1, Months DEF DayNumber
    <3> QED
      BY <3>1, <3>2, DaysAreInt DEF IInv
  <2> QED
    BY <2>1, Typed
<1> QED
  BY <1>1, Invariance, PTL

(* In the years in which the rule of four is right.                          *)
InRange == \A y \in Years : 1970 <= y /\ y < 2100

LEMMA RuleOfFour ==
  ASSUME NEW y \in Nat, 1970 <= y, y < 2100
  PROVE  \E q \in Nat, k \in 0 .. 3 :
           /\ y = 1970 + 4 * q + k
           /\ Gregorian(y) <=> k = 2
           /\ DaysBefore(y) = 1461 * q + FirstDay(k)
<1> DEFINE q == (y - 1970) \div 4
           k == (y - 1970) % 4
<1>1. q \in Nat /\ k \in 0 .. 3 /\ y = 1970 + 4 * q + k
  OBVIOUS
<1>2. Gregorian(y) <=> k = 2
  <2>1. y % 4 = 0 <=> k = 2
    OBVIOUS
  <2>2. y % 100 = 0 => y = 2000
    OBVIOUS
  <2>3. 2000 % 400 = 0 /\ (y = 2000 => y % 4 = 0) /\ (y % 400 = 0 => y = 2000)
    OBVIOUS
  <2> QED
    BY <2>1, <2>2, <2>3 DEF Gregorian
<1>3. DaysBefore(y) = 1461 * q + FirstDay(k)
  <2>1. (y - 1) \div 4 = 492 + q + (IF k = 3 THEN 1 ELSE 0)
    OBVIOUS
  <2>2. (y - 1) \div 400 - (y - 1) \div 100 = 0 - 15
    OBVIOUS
  <2>3. (1970 - 1) \div 4 = 492 /\ (1970 - 1) \div 100 = 19 /\ (1970 - 1) \div 400 = 4
    OBVIOUS
  <2>4. LeapsBefore(y) - LeapsBefore(1970) = q + (IF k = 3 THEN 1 ELSE 0)
    BY <1>1, <2>1, <2>2, <2>3 DEF LeapsBefore
  <2> QED
    BY <1>1, <2>4 DEF DaysBefore, FirstDay
<1> QED
  BY <1>1, <1>2, <1>3

(* From 1970 to 2099 the date is the one of the calendar, at every hour.     *)
THEOREM CalendarMatched == ASSUME InRange PROVE Spec => []MatchesCalendar
<1>1. IInv => MatchesCalendar
  <2> SUFFICES ASSUME IInv, NEW h \in 0 .. 23
               PROVE  gmtime_safe(24 * day + h) =
                        [year |-> date[1] - 1900, mon |-> date[2] - 1, mday |-> date[3], hour |-> h]
    BY DEF MatchesCalendar
  <2> DEFINE y == date[1]
             m == date[2]
             d == date[3]
             leap == Gregorian(y)
  <2>1. /\ y \in Nat /\ 1970 <= y /\ y < 2100 /\ m \in 1 .. 12 /\ d \in 1 .. 31 /\ d <= MonthLength(y, m)
        /\ day = DaysBefore(y) + DayNumber(leap, m, d) - 1
    <3>1. /\ y \in Years /\ m \in 1 .. 12 /\ d \in 1 .. 31 /\ d <= MonthLength(y, m)
          /\ day = DaysBefore(y) + DayNumber(leap, m, d) - 1
      BY DEF IInv
    <3> HIDE DEF y, m, d, leap
    <3>2. y \in Nat /\ 1970 <= y /\ y < 2100
      BY <3>1, YearsAssumption DEF InRange
    <3> QED
      BY <3>1, <3>2
  <2>2. leap \in BOOLEAN
    BY <2>1 DEF Gregorian
  <2>3. d \in 1 .. LengthOf(leap, m)
    BY <2>1, MonthLengths
  <2>4. PICK q \in Nat, k \in 0 .. 3 : /\ y = 1970 + 4 * q + k
                                       /\ leap <=> k = 2
                                       /\ DaysBefore(y) = 1461 * q + FirstDay(k)
    BY <2>1, RuleOfFour
  <2>5. DayNumber(leap, m, d) \in Int /\ FirstDay(k) \in Int
    BY <2>1, Months DEF DayNumber, FirstDay
  <2> HIDE DEF leap, y, m, d
  <2>6. 24 * day + h = 24 * (1461 * q + FirstDay(k) + DayNumber(leap, m, d) - 1) + h
    BY <2>1, <2>4, <2>5
  <2>7. gmtime_safe(24 * day + h) = [year |-> 70 + 4 * q + k, mon |-> m - 1, mday |-> d, hour |-> h]
    <3>1. Lies(24 * day + h, q, k, leap, m, d, h)
      BY <2>1, <2>2, <2>3, <2>4, <2>6 DEF Lies
    <3> QED
      BY <3>1, DateOf
  <2>8. y - 1900 = 70 + 4 * q + k
    BY <2>4
  <2> QED
    BY <2>7, <2>8 DEF y, m, d
<1> QED
  BY <1>1, Invariance, PTL
=============================================================================
