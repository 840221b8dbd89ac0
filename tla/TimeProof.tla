------------------------------ MODULE TimeProof ------------------------------
(***************************************************************************)
(* The class's calendar is localtime_r's for every date, and therefore a   *)
(* text of another program is read as the second of that calendar which it *)
(* names, or refused if it names none, and the timespec that is left is    *)
(* that time's, before 1970 too.  What formatInternal writes is read back  *)
(* as it was, but for the offset: for all texts, times, zones and threads. *)
(***************************************************************************)
EXTENDS Time, WellFoundedInduction, TLAPS

\* A month has the days that lie between its first and the next one's: the leap
\* years of daysInMonth are those of the calendar.
LEMMA MonthsAgree ==
    ASSUME NEW y \in Nat, NEW mon \in 1..12
    PROVE  daysInMonth(y, mon) = MonthStart(y, mon + 1) - MonthStart(y, mon)
<1>1. mon \in {1, 2, 3, 4, 5, 6, 7, 8, 9, 10, 11, 12}
  OBVIOUS
<1> QED BY <1>1, SMTT(60) DEF daysInMonth, isLeapYear, MonthStart, YearStart, Leaps, DaysUpTo

\* daysFromCivil counts the days from the epoch: the era arithmetic agrees with
\* adding up years and months.
LEMMA CalendarsAgree ==
    ASSUME NEW y \in Nat, NEW mon \in 1..12, NEW day \in Int
    PROVE  daysFromCivil(y, mon, day) = MonthStart(y, mon) + day - 1
<1>1. mon \in {1, 2, 3, 4, 5, 6, 7, 8, 9, 10, 11, 12}
  OBVIOUS
<1> QED BY <1>1, SMTT(60) DEF daysFromCivil, MonthStart, YearStart, Leaps, DaysUpTo

\* No month is longer than 31 days.
LEMMA MonthsAreShort ==
    ASSUME NEW y \in Int, NEW mon \in 1..12
    PROVE  daysInMonth(y, mon) \in 28..31
<1>1. mon \in {1, 2, 3, 4, 5, 6, 7, 8, 9, 10, 11, 12}
  OBVIOUS
<1> QED BY <1>1, SMTT(60) DEF daysInMonth, isLeapYear

----------------------------------------------------------------------------
(* Fields of digits *)

LEMMA Powers ==
    /\ 10^0 = 1 /\ 10^1 = 10 /\ 10^2 = 100 /\ 10^3 = 1000 /\ 10^4 = 10000
    /\ 10^5 = 100000 /\ 10^6 = 1000000 /\ 10^7 = 10000000 /\ 10^8 = 100000000
    /\ 10^9 = Billion
BY SMT DEF Billion

LEMMA BillionIsANumber == Billion \in Nat \ {0}
BY SMT DEF Billion

LEMMA PowersArePositive == \A k \in 0..Nano : 10^k \in Nat \ {0}
<1> SUFFICES ASSUME NEW k \in 0..9 PROVE 10^k \in Nat \ {0}
  BY DEF Nano
<1>0. CASE k = 0
  BY <1>0, Powers, SMT DEF Billion
<1>1. CASE k = 1
  BY <1>1, Powers, SMT DEF Billion
<1>2. CASE k = 2
  BY <1>2, Powers, SMT DEF Billion
<1>3. CASE k = 3
  BY <1>3, Powers, SMT DEF Billion
<1>4. CASE k = 4
  BY <1>4, Powers, SMT DEF Billion
<1>5. CASE k = 5
  BY <1>5, Powers, SMT DEF Billion
<1>6. CASE k = 6
  BY <1>6, Powers, SMT DEF Billion
<1>7. CASE k = 7
  BY <1>7, Powers, SMT DEF Billion
<1>8. CASE k = 8
  BY <1>8, Powers, SMT DEF Billion
<1>9. CASE k = 9
  BY <1>9, Powers, SMT DEF Billion
<1> QED
  BY <1>0, <1>1, <1>2, <1>3, <1>4, <1>5, <1>6, <1>7, <1>8, <1>9

\* A number reads as its first width digits: k digits are dropped, and no fewer.
LEMMA FirstDigits ==
    ASSUME NEW v \in Nat, NEW width \in 0..Nano, NEW k \in 0..Nano, v \div 10^k < 10^width,
           \A j \in 0..(k - 1) : v \div 10^j >= 10^width
    PROVE  formatUIntWidth(v, width) = v \div 10^k
<1> DEFINE D(h)   == v \div 10^h
           W      == 10^width
           Few(h) == D(h) < W /\ \A j \in 0..(h - 1) : D(j) >= W
           K      == CHOOSE h \in 0..Nano : Few(h)
<1> USE DEF Nano
<1>1. \A h \in 0..Nano : D(h) \in Nat
  <2> TAKE h \in 0..Nano
  <2>1. PICK p \in Nat \ {0} : p = 10^h
    BY PowersArePositive
  <2>2. v \div p \in Nat
    OBVIOUS
  <2> QED
    BY <2>1, <2>2
<1>2. W \in Nat
  BY PowersArePositive
<1>3. Few(k)
  OBVIOUS
<1>4. formatUIntWidth(v, width) = D(K)
  <2>1. ~(v < 0)
    OBVIOUS
  <2> QED
    BY <2>1 DEF formatUIntWidth
<1> HIDE DEF D, W
<1>5. K \in 0..Nano /\ Few(K)
  BY <1>3
<1>6. K = k
  <2> HIDE DEF K
  <2>1. CASE K < k
    <3>1. K \in 0..(k - 1) /\ D(K) \in Nat
      BY <1>1, <1>5, <2>1
    <3> QED
      BY <3>1, <1>2, <1>3, <1>5
  <2>2. CASE k < K
    <3>1. k \in 0..(K - 1) /\ D(k) \in Nat
      BY <1>1, <1>5, <2>2
    <3> QED
      BY <3>1, <1>2, <1>3, <1>5
  <2> QED
    BY <2>1, <2>2, <1>5
<1> QED
  BY <1>4, <1>6 DEF D

\* What has no more digits than that reads as it is.
LEMMA AllDigits ==
    ASSUME NEW v \in Nat, NEW width \in 0..Nano, v < 10^width
    PROVE  formatUIntWidth(v, width) = v
<1>1. PICK k \in 0..Nano : k = 0
  BY DEF Nano
<1>2. v \div 10^k = v
  <2>1. 10^k = 1
    BY <1>1, Powers, SMT
  <2>2. v \div 1 = v
    BY SMT
  <2> QED
    BY <2>1, <2>2, Zenon
<1>3. \A j \in 0..(k - 1) : v \div 10^j >= 10^width
  BY <1>1
<1>4. formatUIntWidth(v, width) = v \div 10^k
  BY <1>2, <1>3, FirstDigits
<1> QED
  BY <1>2, <1>4

\* No number of nine digits reads as more than its field holds.
LEMMA NoMoreDigits ==
    ASSUME NEW v \in 0..(Billion - 1), NEW width \in 0..Nano
    PROVE  formatUIntWidth(v, width) \in Nat /\ formatUIntWidth(v, width) < 10^width
<1> DEFINE D(h) == v \div 10^h
           W    == 10^width
           S    == {h \in 0..9 : D(h) < W}
<1>0. v \in Nat /\ v < Billion
  BY BillionIsANumber
<1>1. \A h \in 0..9 : D(h) \in Nat
  <2> TAKE h \in 0..9
  <2>1. PICK p \in Nat \ {0} : p = 10^h
    BY PowersArePositive DEF Nano
  <2>2. v \div p \in Nat
    OBVIOUS
  <2> QED
    BY <2>1, <2>2
<1>2. W \in Nat \ {0}
  BY PowersArePositive
<1>3. D(9) = 0
  <2>1. PICK b \in Nat \ {0} : b = Billion
    BY BillionIsANumber
  <2>2. v \in Nat /\ v < b
    BY <1>0, <2>1
  <2>3. v \div b = 0
    BY <2>2, SMT
  <2>4. 10^9 = b
    BY <2>1, Powers
  <2> QED
    BY <2>3, <2>4
<1> HIDE DEF D, W
<1>4. 9 \in S /\ S \subseteq Nat
  BY <1>2, <1>3
<1> HIDE DEF S
<1>5. PICK k \in S : \A j \in S : k <= j
  <2> DEFINE Less == {p \in Nat \X Nat : p[1] < p[2]}
  <2>1. IsWellFoundedOn(Less, Nat)
    BY NatLessThanWellFounded DEF OpToRel
  <2> HIDE DEF Less
  <2>2. PICK k \in S : \A j \in S : <<j, k>> \notin Less
    BY <1>4, <2>1, WFMin
  <2>3. ASSUME NEW j \in S PROVE k <= j
    <3>1. j \in Nat /\ k \in Nat
      BY <1>4
    <3>2. j < k => <<j, k>> \in Less
      BY <3>1 DEF Less
    <3> QED
      BY <2>2, <3>1, <3>2
  <2> QED
    BY <2>3
<1>6. k \in 0..9 /\ D(k) < W
  BY DEF S
<1>7. \A j \in 0..(k - 1) : D(j) >= W
  <2> TAKE j \in 0..(k - 1)
  <2>1. j \in 0..9 /\ j < k
    BY <1>6
  <2>2. j \notin S
    BY <1>5, <1>6, <2>1
  <2>3. ~(D(j) < W)
    BY <2>1, <2>2 DEF S
  <2>4. D(j) \in Nat
    BY <1>1, <2>1
  <2> QED
    BY <1>2, <2>3, <2>4
<1>8. formatUIntWidth(v, width) = D(k)
  <2>1. k \in 0..Nano
    BY <1>6 DEF Nano
  <2>2. v \div 10^k < 10^width /\ \A j \in 0..(k - 1) : v \div 10^j >= 10^width
    BY <1>6, <1>7 DEF D, W
  <2>3. formatUIntWidth(v, width) = v \div 10^k
    BY <1>0, <2>1, <2>2, FirstDigits
  <2> QED
    BY <2>3 DEF D
<1> QED
  BY <1>1, <1>6, <1>8 DEF W

----------------------------------------------------------------------------
(* The calendar gives every day a date *)

\* The days that 64 bits of nanoseconds reach, and one more on either side.
Days == {day \in Int : -106753 <= day /\ day <= 106752}

\* A year has 365 or 366 days.
LEMMA YearsAreLong ==
    ASSUME NEW y \in Int
    PROVE  YearStart(y) \in Int /\ YearStart(y + 1) - YearStart(y) \in {365, 366}
BY SMTT(60) DEF YearStart, Leaps

\* The year of a day is one of the three that the search looks at.
LEMMA YearIs ==
    ASSUME NEW day \in Days
    PROVE  /\ Year(day) \in Nat /\ 1600 < Year(day) /\ Year(day) < 2400
           /\ YearStart(Year(day)) <= day /\ day < YearStart(Year(day) + 1)
<1> DEFINE q == day \div 365
           lo == 1969 + q
<1>1. q \in Int /\ -294 < q /\ q < 293 /\ day \in Int
  BY SMT DEF Days
<1>2. lo \in Int /\ lo + 1 \in Int /\ lo + 2 \in Int
  BY <1>1, SMT
<1>3. YearStart(lo) <= day
  BY <1>1, SMTT(60) DEF YearStart, Leaps, Days
<1>4. day < YearStart(lo + 3)
  BY <1>1, SMTT(60) DEF YearStart, Leaps, Days
<1>5. \E y \in lo..(lo + 2) : YearStart(y) <= day /\ day < YearStart(y + 1)
  <2>1. /\ YearStart(lo) \in Int /\ YearStart(lo + 1) \in Int /\ YearStart(lo + 2) \in Int
        /\ YearStart(lo + 3) \in Int
    BY <1>2, SMT DEF YearStart, Leaps
  <2>2. day \in Int
    BY DEF Days
  <2> HIDE DEF lo
  <2>3. CASE day < YearStart(lo + 1)
    <3>1. lo \in lo..(lo + 2)
      BY <1>2
    <3> QED
      BY <3>1, <1>3, <2>3
  <2>4. CASE ~(day < YearStart(lo + 1)) /\ day < YearStart(lo + 2)
    <3>1. lo + 1 \in lo..(lo + 2) /\ lo + 1 + 1 = lo + 2
      BY <1>2
    <3>2. YearStart(lo + 1) <= day
      BY <2>1, <2>2, <2>4
    <3> QED
      BY <3>1, <3>2, <2>4
  <2>5. CASE ~(day < YearStart(lo + 2))
    <3>1. lo + 2 \in lo..(lo + 2) /\ lo + 2 + 1 = lo + 3
      BY <1>2
    <3>2. YearStart(lo + 2) <= day
      BY <2>1, <2>2, <2>5
    <3> QED
      BY <3>1, <3>2, <1>4
  <2> QED
    BY <2>3, <2>4, <2>5
<1> DEFINE Tried == (1969 + day \div 365)..(1971 + day \div 365)
<1>6. Tried = lo..(lo + 2)
  BY <1>1, SMT
<1>7. /\ Year(day) \in lo..(lo + 2)
      /\ YearStart(Year(day)) <= day /\ day < YearStart(Year(day) + 1)
  <2>1. Year(day) = CHOOSE y \in Tried : YearStart(y) <= day /\ day < YearStart(y + 1)
    BY SMT DEF Year
  <2> HIDE DEF Tried, lo
  <2>2. \E y \in Tried : YearStart(y) <= day /\ day < YearStart(y + 1)
    BY <1>5, <1>6
  <2> QED
    BY <1>6, <2>1, <2>2
<1> HIDE DEF lo, q
<1>8. Year(day) \in Nat /\ 1600 < Year(day) /\ Year(day) < 2400
  BY <1>1, <1>2, <1>7, SMT DEF lo
<1> QED
  BY <1>7, <1>8

\* So is its month.
LEMMA MonthIs ==
    ASSUME NEW day \in Days
    PROVE  /\ Month(day) \in 1..12
           /\ MonthStart(Year(day), Month(day)) <= day
           /\ day < MonthStart(Year(day), Month(day) + 1)
<1>1. PICK y \in Int : y = Year(day) /\ YearStart(y) <= day /\ day < YearStart(y + 1)
  BY YearIs, SMT
<1>2. PICK s, l \in Int : s = YearStart(y) /\ l = YearStart(y + 1) - s - 365
  BY <1>1, YearsAreLong, SMT
<1>3. /\ YearStart(y + 1) = s + 365 + l
      /\ day \in Int
  BY <1>1, <1>2, YearsAreLong, SMT DEF Days
<1>4. /\ MonthStart(y, 1) = s          /\ MonthStart(y, 2) = s + 31
      /\ MonthStart(y, 3) = s + 59 + l /\ MonthStart(y, 4) = s + 90 + l
      /\ MonthStart(y, 5) = s + 120 + l /\ MonthStart(y, 6) = s + 151 + l
      /\ MonthStart(y, 7) = s + 181 + l /\ MonthStart(y, 8) = s + 212 + l
      /\ MonthStart(y, 9) = s + 243 + l /\ MonthStart(y, 10) = s + 273 + l
      /\ MonthStart(y, 11) = s + 304 + l /\ MonthStart(y, 12) = s + 334 + l
      /\ MonthStart(y, 13) = s + 365 + l
  BY <1>2, SMT DEF MonthStart, DaysUpTo
<1>5. \E mon \in 1..12 : MonthStart(y, mon) <= day /\ day < MonthStart(y, mon + 1)
  <2>1. \/ MonthStart(y, 1) <= day /\ day < MonthStart(y, 2)
        \/ MonthStart(y, 2) <= day /\ day < MonthStart(y, 3)
        \/ MonthStart(y, 3) <= day /\ day < MonthStart(y, 4)
        \/ MonthStart(y, 4) <= day /\ day < MonthStart(y, 5)
        \/ MonthStart(y, 5) <= day /\ day < MonthStart(y, 6)
        \/ MonthStart(y, 6) <= day /\ day < MonthStart(y, 7)
        \/ MonthStart(y, 7) <= day /\ day < MonthStart(y, 8)
        \/ MonthStart(y, 8) <= day /\ day < MonthStart(y, 9)
        \/ MonthStart(y, 9) <= day /\ day < MonthStart(y, 10)
        \/ MonthStart(y, 10) <= day /\ day < MonthStart(y, 11)
        \/ MonthStart(y, 11) <= day /\ day < MonthStart(y, 12)
        \/ MonthStart(y, 12) <= day /\ day < MonthStart(y, 13)
    BY <1>1, <1>2, <1>3, <1>4, SMT
  <2>2. ASSUME NEW k \in 1..12, MonthStart(y, k) <= day, NEW n, n = k + 1,
               day < MonthStart(y, n)
        PROVE  \E mon \in 1..12 : MonthStart(y, mon) <= day /\ day < MonthStart(y, mon + 1)
    BY <2>2
  <2>3. /\ 2 = 1 + 1 /\ 3 = 2 + 1 /\ 4 = 3 + 1 /\ 5 = 4 + 1 /\ 6 = 5 + 1 /\ 7 = 6 + 1
        /\ 8 = 7 + 1 /\ 9 = 8 + 1 /\ 10 = 9 + 1 /\ 11 = 10 + 1 /\ 12 = 11 + 1 /\ 13 = 12 + 1
    BY SMT
  <2> QED
    BY <2>1, <2>2, <2>3, SMT
<1> QED
  BY <1>1, <1>5, Zenon DEF Month

\* And the date is read as the day.
LEMMA DateIsRead ==
    ASSUME NEW day \in Days
    PROVE  /\ Year(day) \in Nat /\ 1600 < Year(day) /\ Year(day) < 2400
           /\ Month(day) \in 1..12 /\ Day(day) \in 1..31
           /\ Day(day) <= daysInMonth(Year(day), Month(day))
           /\ daysFromCivil(Year(day), Month(day), Day(day)) = day
<1>1. PICK y \in Nat : y = Year(day) /\ 1600 < y /\ y < 2400
  BY YearIs, SMT
<1>2. PICK mon \in 1..12 : mon = Month(day) /\ MonthStart(y, mon) <= day
                           /\ day < MonthStart(y, mon + 1)
  BY <1>1, MonthIs
<1>3. MonthStart(y, mon) \in Int /\ MonthStart(y, mon + 1) \in Int /\ day \in Int
  <2>1. mon \in {1, 2, 3, 4, 5, 6, 7, 8, 9, 10, 11, 12}
    BY SMT
  <2> QED
    BY <2>1, SMTT(30) DEF MonthStart, YearStart, Leaps, DaysUpTo, Days
<1>4. PICK a, b \in Int : a = MonthStart(y, mon) /\ b = MonthStart(y, mon + 1)
  BY <1>3
<1>5. PICK d \in Int : d = day - a + 1
  BY <1>3
<1>6. Day(day) = d
  BY <1>1, <1>2, <1>4, <1>5 DEF Day
<1>7. daysInMonth(y, mon) = b - a /\ daysInMonth(y, mon) \in 28..31
  BY <1>4, MonthsAgree, MonthsAreShort
<1>8. d \in 1..31 /\ d <= b - a
  BY <1>2, <1>3, <1>4, <1>5, <1>7, SMT
<1>9. daysFromCivil(y, mon, d) = a + d - 1
  BY <1>4, CalendarsAgree
<1>10. a + d - 1 = day
  BY <1>3, <1>5, SMT
<1> QED
  BY <1>1, <1>2, <1>6, <1>7, <1>8, <1>9, <1>10

----------------------------------------------------------------------------
(* What is read of a text has its types *)

\* Seconds are carried into days.
LEMMA AtCarries ==
    ASSUME NEW day \in Int, NEW sec \in Int, NEW ns
    PROVE  /\ At(day, sec, ns).day \in Int /\ At(day, sec, ns).sec \in Nat
           /\ At(day, sec, ns).sec < 86400 /\ At(day, sec, ns).ns = ns
           /\ At(day, sec, ns).day * 86400 + At(day, sec, ns).sec = day * 86400 + sec
<1>1. PICK d \in Int, s \in Nat : d = day + sec \div 86400 /\ s = sec % 86400
  BY SMT
<1>2. s < 86400 /\ d * 86400 + s = day * 86400 + sec
  BY <1>1, SMT
<1>3. At(day, sec, ns) = [day |-> d, sec |-> s, ns |-> ns]
  BY <1>1, SMT DEF At
<1> QED
  BY <1>2, <1>3, SMT

\* Rounding to zero leaves a timespec whose parts agree in sign, which is the count
\* itself unless that is a fraction before 1970; and its sum is the count again.
LEMMA TimespecIs ==
    ASSUME NEW i, i.day \in Int, i.sec \in Nat, i.sec < 86400, i.ns \in 0..(Billion - 1),
           NEW ts, ts = timepointToTimespec(i)
    PROVE  /\ IsTimespec(ts)
           /\ ~Early(i) => ts.day = i.day /\ ts.sec = i.sec /\ ts.ns = i.ns
           /\ timespecToTimePoint(ts) = [day |-> i.day, sec |-> i.sec, ns |-> i.ns]
<1>1. PICK b \in Nat \ {0} : b = Billion
  BY BillionIsANumber
<1>2. PICK d \in Int, s \in Nat, n \in Nat :
        d = i.day /\ s = i.sec /\ n = i.ns /\ s < 86400 /\ n < b
  <2>1. i.ns \in Nat /\ i.ns < b
    BY <1>1
  <2> QED
    BY <2>1
<1>3. Early(i) <=> d < 0 /\ n > 0
  BY <1>2 DEF Early
<1>4. CASE ~Early(i)
  <2>1. ts = [day |-> d, sec |-> s, ns |-> n]
    <3>1. to_time_t(i) = At(d, s + 0, 0) /\ nanosecond(i) = n
      BY <1>2, <1>4 DEF to_time_t, nanosecond
    <3>2. At(d, s + 0, 0) = [day |-> d, sec |-> s, ns |-> 0]
      BY <1>2, SMT DEF At
    <3> QED
      BY <3>1, <3>2 DEF timepointToTimespec
  <2>2. timespecToTimePoint(ts) = At(d, s, n)
    BY <2>1, <1>2, SMT DEF timespecToTimePoint
  <2>3. At(d, s, n) = [day |-> d, sec |-> s, ns |-> n]
    BY <1>2, SMT DEF At
  <2>4. -b < n /\ ~(n < 0) /\ (n > 0 => d >= 0)
    BY <1>2, <1>3, <1>4, SMT
  <2>5. IsTimespec(ts)
    BY <1>1, <1>2, <2>1, <2>4 DEF IsTimespec
  <2> QED
    BY <1>2, <2>1, <2>2, <2>3, <2>5
<1>5. CASE Early(i)
  <2>1. PICK e \in Int, u \in Nat :
          /\ At(d, s + 1, 0) = [day |-> e, sec |-> u, ns |-> 0]
          /\ u < 86400 /\ e * 86400 + u = d * 86400 + s + 1
    <3>1. /\ At(d, s + 1, 0).day * 86400 + At(d, s + 1, 0).sec = d * 86400 + (s + 1)
          /\ At(d, s + 1, 0).day \in Int /\ At(d, s + 1, 0).sec \in Nat
          /\ At(d, s + 1, 0).sec < 86400
      BY <1>2, AtCarries
    <3>2. At(d, s + 1, 0)
            = [day |-> At(d, s + 1, 0).day, sec |-> At(d, s + 1, 0).sec, ns |-> 0]
      BY DEF At
    <3>3. PICK e \in Int, u \in Nat : e = At(d, s + 1, 0).day /\ u = At(d, s + 1, 0).sec
      BY <3>1
    <3>4. u < 86400 /\ e * 86400 + u = d * 86400 + s + 1
      BY <3>1, <3>3, SMT
    <3> QED
      BY <3>2, <3>3, <3>4
  <2>2. PICK m \in Int : m = n - b /\ -b < m /\ m < 0 /\ m + b = n
    BY <1>2, <1>3, <1>5, SMT
  <2>3. ts = [day |-> e, sec |-> u, ns |-> m]
    <3>1. to_time_t(i) = At(d, s + 1, 0) /\ nanosecond(i) = m
      BY <1>1, <1>2, <1>5, <2>2 DEF to_time_t, nanosecond
    <3> QED
      BY <2>1, <3>1 DEF timepointToTimespec
  <2>4. timespecToTimePoint(ts) = At(e, u - 1, n)
    BY <1>1, <2>2, <2>3 DEF timespecToTimePoint
  <2>5. At(e, u - 1, n) = [day |-> d, sec |-> s, ns |-> n]
    <3>1. e * 86400 + (u - 1) = d * 86400 + s /\ s < 86400
      BY <1>2, <2>1, SMT
    <3>2. e + (u - 1) \div 86400 = d /\ (u - 1) % 86400 = s
      BY ONLY <3>1, SMT
    <3> QED
      BY <3>2 DEF At
  <2>6. e < 0 \/ (e = 0 /\ u = 0)
    <3>1. d < 0 /\ s < 86400 /\ e * 86400 + u = d * 86400 + s + 1
      BY <1>2, <1>3, <1>5, <2>1
    <3> QED
      BY ONLY <3>1, SMT
  <2>7. IsTimespec(ts)
    BY <1>1, <2>1, <2>2, <2>3, <2>6 DEF IsTimespec
  <2> QED
    BY <1>2, <1>5, <2>4, <2>5, <2>7
<1> QED
  BY <1>4, <1>5

\* What width digits count, and what the others do.
LEMMA PowersOfNano ==
    ASSUME NEW k \in 0..Nano
    PROVE  \E p, q \in Nat \ {0} : p = 10^k /\ q = 10^(Nano - k) /\ p * q = Billion
<1>1. PICK r \in 0..9 : r = 9 - k
  BY SMT DEF Nano
<1>2. Nano - k = r
  BY <1>1 DEF Nano
<1> SUFFICES \E p, q \in Nat \ {0} : p = 10^k /\ q = 10^r /\ p * q = Billion
  BY <1>2
<1>3. CASE k = 0 /\ r = 9
  <2>1. 1 * Billion = Billion
    BY SMT DEF Billion
  <2> QED
    BY <1>3, <2>1, Powers, BillionIsANumber, SMT
<1>4. CASE k = 1 /\ r = 8
  <2>1. 10 * 100000000 = Billion
    BY SMT DEF Billion
  <2> QED
    BY <1>4, <2>1, Powers, BillionIsANumber, SMT
<1>5. CASE k = 2 /\ r = 7
  <2>1. 100 * 10000000 = Billion
    BY SMT DEF Billion
  <2> QED
    BY <1>5, <2>1, Powers, BillionIsANumber, SMT
<1>6. CASE k = 3 /\ r = 6
  <2>1. 1000 * 1000000 = Billion
    BY SMT DEF Billion
  <2> QED
    BY <1>6, <2>1, Powers, BillionIsANumber, SMT
<1>7. CASE k = 4 /\ r = 5
  <2>1. 10000 * 100000 = Billion
    BY SMT DEF Billion
  <2> QED
    BY <1>7, <2>1, Powers, BillionIsANumber, SMT
<1>8. CASE k = 5 /\ r = 4
  <2>1. 100000 * 10000 = Billion
    BY SMT DEF Billion
  <2> QED
    BY <1>8, <2>1, Powers, BillionIsANumber, SMT
<1>9. CASE k = 6 /\ r = 3
  <2>1. 1000000 * 1000 = Billion
    BY SMT DEF Billion
  <2> QED
    BY <1>9, <2>1, Powers, BillionIsANumber, SMT
<1>10. CASE k = 7 /\ r = 2
  <2>1. 10000000 * 100 = Billion
    BY SMT DEF Billion
  <2> QED
    BY <1>10, <2>1, Powers, BillionIsANumber, SMT
<1>11. CASE k = 8 /\ r = 1
  <2>1. 100000000 * 10 = Billion
    BY SMT DEF Billion
  <2> QED
    BY <1>11, <2>1, Powers, BillionIsANumber, SMT
<1>12. CASE k = 9 /\ r = 0
  <2>1. Billion * 1 = Billion
    BY SMT DEF Billion
  <2> QED
    BY <1>12, <2>1, Powers, BillionIsANumber, SMT
<1> QED
  BY <1>1, <1>3, <1>4, <1>5, <1>6, <1>7, <1>8, <1>9, <1>10, <1>11, <1>12, SMT DEF Nano

\* A fraction of len digits is less than a second.
LEMMA FractionIs ==
    ASSUME NEW len \in 0..Nano, NEW frac \in Nat, frac < 10^len
    PROVE  frac * 10^(Nano - len) \in 0..(Billion - 1)
<1>1. PICK p, q \in Nat \ {0} : p = 10^len /\ q = 10^(Nano - len) /\ p * q = Billion
  BY PowersOfNano
<1>2. PICK b, r \in Nat : b = Billion /\ r = frac * q
  <2>1. frac * q \in Nat
    BY <1>1, SMT
  <2> QED
    BY <2>1, BillionIsANumber
<1>3. r <= p * q - q
  <2>1. frac <= p - 1
    BY <1>1
  <2>2. frac * q <= (p - 1) * q
    BY <1>1, <2>1, SMT
  <2>3. (p - 1) * q = p * q - q
    BY <1>1, SMT
  <2> QED
    BY <1>2, <2>2, <2>3
<1>4. p * q = b
  BY <1>1, <1>2
<1>5. r \in 0..(b - 1)
  BY <1>1, <1>2, <1>3, <1>4, SMT
<1> QED
  BY <1>1, <1>2, <1>5

LEMMA DaysAreNumbers ==
    ASSUME NEW y \in Int, NEW mon \in Int, NEW day \in Int
    PROVE  daysFromCivil(y, mon, day) \in Int
BY SMT DEF daysFromCivil

\* The fields that a text may have.
HasFields(t) ==
    /\ t.year \in Int
    /\ t.frac.len \in Nat /\ t.frac.frac \in Nat \cup {Junk}
    /\ t.frac.len <= Nano => t.frac.frac < 10^t.frac.len

LEMMA ParsedIs ==
    ASSUME NEW t, HasFields(t), NEW width, NEW exact, IsValid(t, width, exact)
    PROVE  /\ Parsed(t).day \in Int /\ Parsed(t).sec \in Nat /\ Parsed(t).sec < 86400
           /\ Parsed(t).ns = nanoseconds(t) /\ Parsed(t).ns \in 0..(Billion - 1)
           /\ Parsed(t).day * 86400 + Parsed(t).sec
                = daysFromCivil(t.year, t.month, t.day) * 86400 + SecondOfDay(t)
                  - offsetSeconds(t)
           /\ SecondOfDay(t) \in Int /\ offsetSeconds(t) \in Int
<1>1. /\ t.year \in Int /\ t.month \in Int /\ t.day \in Int
      /\ t.hour \in Int /\ t.minute \in Int /\ t.second \in Int
  BY SMT DEF HasFields, IsValid, DateIsValid, TimeIsValid
<1>2. daysFromCivil(t.year, t.month, t.day) \in Int
  BY <1>1, DaysAreNumbers
<1>3. SecondOfDay(t) \in Int
  BY <1>1, SMT DEF SecondOfDay
<1>4. offsetSeconds(t) \in Int
  <2>1. CASE t.off.sign = "Z"
    BY <2>1, SMT DEF offsetSeconds
  <2>2. CASE t.off.sign # "Z"
    <3>1. PICK h, m \in Int : h = t.off.hour /\ m = t.off.minute
      BY <2>2, SMT DEF IsValid, OffIsValid
    <3>2. PICK o \in Int : o = h * 3600 + m * 60
      BY <3>1, SMT
    <3>3. PICK g \in Int : g = IF t.off.sign = "-" THEN -1 ELSE 1
      BY SMT
    <3>4. offsetSeconds(t) = o * g
      BY <2>2, <3>1, <3>2, <3>3, SMT DEF offsetSeconds
    <3> QED
      BY <3>2, <3>3, <3>4, SMT
  <2> QED
    BY <2>1, <2>2
<1>5. nanoseconds(t) \in 0..(Billion - 1)
  <2>1. t.frac.len \in 0..Nano /\ t.frac.frac \in Nat /\ t.frac.frac < 10^t.frac.len
    BY SMT DEF HasFields, IsValid, FracIsValid, Nano
  <2> QED
    BY <2>1, FractionIs DEF nanoseconds
<1>6. PICK d, s, o \in Int : /\ d = daysFromCivil(t.year, t.month, t.day)
                             /\ s = SecondOfDay(t) /\ o = offsetSeconds(t)
  BY <1>2, <1>3, <1>4
<1>7. Parsed(t) = At(d, s - o, nanoseconds(t))
  BY <1>6 DEF Parsed
<1>8. s - o \in Int /\ d * 86400 + (s - o) = d * 86400 + s - o
  BY <1>6, SMT
<1> QED
  BY <1>3, <1>4, <1>5, <1>6, <1>7, <1>8, AtCarries

----------------------------------------------------------------------------
(* What this program writes *)

\* What chrono rounds to zero is a second later before 1970.
LEMMA RoundedIs ==
    ASSUME NEW i \in Instants
    PROVE  /\ to_time_t(i).day \in Int /\ to_time_t(i).sec \in Nat
           /\ to_time_t(i).sec < 86400
           /\ to_time_t(i).day * 86400 + to_time_t(i).sec
                = i.day * 86400 + i.sec + (IF Early(i) THEN 1 ELSE 0)
           /\ ~Early(i) => to_time_t(i).day = i.day /\ to_time_t(i).sec = i.sec
           /\ -106752 <= to_time_t(i).day /\ to_time_t(i).day <= 106751
<1>1. /\ i.day \in Int /\ i.sec \in Nat /\ i.sec < 86400
      /\ -106752 <= i.day /\ i.day <= 106751
  BY InstantsAssumption, SMT DEF NotAfter, Least, Last
<1>2. PICK n \in {0, 1} : n = IF Early(i) THEN 1 ELSE 0
  BY SMT
<1>3. PICK d \in Int, s \in Nat : d = i.day /\ s = i.sec
  BY <1>1
<1>4. to_time_t(i) = At(d, s + n, 0) /\ s + n \in Int
  BY <1>2, <1>3, SMT DEF to_time_t
<1>5. PICK c : c = to_time_t(i)
  OBVIOUS
<1>6. /\ c.day \in Int /\ c.sec \in Nat /\ c.sec < 86400
      /\ c.day * 86400 + c.sec = d * 86400 + (s + n)
  BY <1>4, <1>5, AtCarries
<1>7. Early(i) => i.day < 0
  BY DEF Early
<1>8. PICK e \in Int, u \in Nat : e = c.day /\ u = c.sec
  BY <1>6
<1>9. /\ e * 86400 + u = d * 86400 + (s + n) /\ u < 86400 /\ s < 86400
       /\ -106752 <= d /\ d <= 106751
  BY <1>1, <1>3, <1>6, <1>8
<1>10. ~Early(i) => c.day = i.day /\ c.sec = i.sec
  <2>1. n = 0 => e = d /\ u = s
    BY <1>9, SMT
  <2> QED
    BY <1>2, <1>3, <1>8, <2>1
<1>11. -106752 <= c.day /\ c.day <= 106751
  <2>1. n = 0 \/ d < 0
    BY <1>2, <1>3, <1>7
  <2>2. -106752 <= e /\ e <= 106751
    BY <1>9, <2>1, SMT
  <2> QED
    BY <1>8, <2>2
<1>12. c.day * 86400 + c.sec = i.day * 86400 + i.sec + (IF Early(i) THEN 1 ELSE 0)
  BY <1>2, <1>3, <1>6, SMT
<1> QED
  BY <1>5, <1>6, <1>10, <1>11, <1>12

\* Local time: the seconds of localtime_r's offset later.
Local(i) == LET c == to_time_t(i) IN At(c.day, c.sec + Offset(zone, c), 0)

LEMMA LocalIs ==
    ASSUME zone \in Zones, NEW i \in Instants, NEW o, o = Offset(zone, to_time_t(i))
    PROVE  /\ o \in Int /\ -86400 < o /\ o < 86400 /\ o \in {zone.std, zone.dst}
           /\ Local(i).day \in Days /\ Local(i).sec \in Nat /\ Local(i).sec < 86400
           /\ Local(i).day * 86400 + Local(i).sec
                = i.day * 86400 + i.sec + (IF Early(i) THEN 1 ELSE 0) + o
<1>1. o \in Int /\ -86400 < o /\ o < 86400 /\ o \in {zone.std, zone.dst}
  BY ZonesAssumption, SMT DEF Offset
<1>2. PICK d \in Int, s \in Nat : /\ d = to_time_t(i).day /\ s = to_time_t(i).sec /\ s < 86400
                                  /\ -106752 <= d /\ d <= 106751
  BY RoundedIs
<1>3. Local(i) = At(d, s + o, 0) /\ s + o \in Int
  BY <1>1, <1>2, SMT DEF Local
<1>4. PICK l : l = Local(i)
  OBVIOUS
<1>5. /\ l.day \in Int /\ l.sec \in Nat /\ l.sec < 86400
      /\ l.day * 86400 + l.sec = d * 86400 + (s + o)
  BY <1>3, <1>4, AtCarries
<1>6. l.day \in Days
  BY <1>1, <1>2, <1>5, SMT DEF Days
<1>7. l.day * 86400 + l.sec = d * 86400 + s + o
  BY <1>1, <1>2, <1>5, SMT
<1>8. d * 86400 + s = i.day * 86400 + i.sec + (IF Early(i) THEN 1 ELSE 0)
  BY <1>2, RoundedIs
<1> QED
  BY <1>1, <1>4, <1>5, <1>6, <1>7, <1>8

\* Two digits are enough for what localtime_r gives, four for the year.
LEMMA TwoDigits ==
    ASSUME NEW v \in Nat, v < 100
    PROVE  formatUIntWidth(v, 2) = v
<1>1. 2 \in 0..Nano /\ v < 10^2
  BY Powers, SMT DEF Nano
<1> QED
  BY <1>1, AllDigits

\* The date and the time of day are written as they are.
LEMMA DateIsWritten ==
    ASSUME zone \in Zones, NEW i \in Instants, NEW off, NEW width,
           NEW t, t = formatInternal(i, off, width)
    PROVE  /\ t.year \in Nat /\ DateIsValid(t) /\ TimeIsValid(t)
           /\ daysFromCivil(t.year, t.month, t.day) = Local(i).day
           /\ SecondOfDay(t) = Local(i).sec
<1>1. PICK d \in Days, s \in Nat : d = Local(i).day /\ s = Local(i).sec /\ s < 86400
  BY LocalIs
<1>2. PICK y \in Nat, mon \in 1..12, day \in 1..31 :
         /\ y = Year(d) /\ mon = Month(d) /\ day = Day(d) /\ y < 10000
         /\ day <= daysInMonth(y, mon) /\ daysFromCivil(y, mon, day) = d
  <2>1. Year(d) \in Nat /\ Year(d) < 10000
    BY DateIsRead, SMT
  <2> QED
    BY <2>1, DateIsRead
<1>3. t.year = y /\ t.month = mon /\ t.day = day
  <2>1. /\ t.year = formatUIntWidth(y, 4) /\ t.month = formatUIntWidth(mon, 2)
        /\ t.day = formatUIntWidth(day, 2)
    BY <1>1, <1>2 DEF formatInternal, Local
  <2>2. formatUIntWidth(y, 4) = y
    <3>1. 4 \in 0..Nano /\ y < 10^4
      BY <1>2, Powers, SMT DEF Nano
    <3> QED
      BY <3>1, AllDigits
  <2>3. formatUIntWidth(mon, 2) = mon /\ formatUIntWidth(day, 2) = day
    <3>1. mon \in Nat /\ mon < 100 /\ day \in Nat /\ day < 100
      BY SMT
    <3> QED
      BY <3>1, TwoDigits
  <2> QED
    BY <2>1, <2>2, <2>3
<1>4. PICK h, m, n \in Nat : /\ h = s \div 3600 /\ m = (s \div 60) % 60 /\ n = s % 60
                             /\ h < 24 /\ m < 60 /\ n < 60 /\ h * 3600 + m * 60 + n = s
  <2>1. PICK q \in Nat : q = s \div 60
    BY SMT
  <2>2. PICK h, m, n \in Nat : h = s \div 3600 /\ m = q % 60 /\ n = s % 60
    BY SMT
  <2>3. s < 86400
    BY <1>1
  <2>4. n < 60 /\ m < 60 /\ q * 60 + n = s
    BY <2>1, <2>2, SMT
  <2>5. PICK g \in Nat : g = q \div 60 /\ g * 60 + m = q
    BY <2>2, SMT
  <2>6. g * 3600 <= s /\ s < (g + 1) * 3600 /\ g * 3600 + m * 60 + n = s
    BY <2>4, <2>5, SMT
  <2>7. h = g
    BY <2>2, <2>6, SMT
  <2>8. h < 24 /\ h * 3600 + m * 60 + n = s
    BY <2>3, <2>6, <2>7, SMT
  <2> QED
    BY <2>1, <2>2, <2>4, <2>8
<1>5. t.hour = h /\ t.minute = m /\ t.second = n
  <2>1. /\ t.hour = formatUIntWidth(h, 2) /\ t.minute = formatUIntWidth(m, 2)
        /\ t.second = formatUIntWidth(n, 2)
    BY <1>1, <1>4 DEF formatInternal, Local
  <2>2. h < 100 /\ m < 100 /\ n < 100
    BY <1>4, SMT
  <2> QED
    BY <2>1, <2>2, TwoDigits
<1>6. DateIsValid(t)
  BY <1>2, <1>3, SMT DEF DateIsValid, Junk
<1>7. TimeIsValid(t)
  BY <1>4, <1>5, SMT DEF TimeIsValid
<1>8. SecondOfDay(t) = s
  BY <1>4, <1>5, SMT DEF SecondOfDay
<1> QED
  BY <1>1, <1>2, <1>3, <1>6, <1>7, <1>8

\* What is written of the fraction is legible; it is the fraction to the digits that
\* were asked for, unless leading zeros were lost or it is before 1970.
LEMMA FractionIsWritten ==
    ASSUME NEW i \in Instants, NEW off, NEW width \in {0, 3, 6, Nano},
           NEW t, t = formatInternal(i, off, width)
    PROVE  /\ t.frac.len \in {0, width} /\ t.frac.frac \in Nat \cup {Junk}
           /\ t.frac.len \in 0..Nano /\ t.frac.frac < 10^t.frac.len
           /\ ~Early(i) => t.frac.frac # Junk
           /\ (~Early(i) /\ (width \in 1..8 => i.ns = 0 \/ i.ns >= Billion \div 10))
                => nanoseconds(t) = i.ns - (i.ns % 10^(Nano - width))
<1>1. t.frac = formatSecFrac(i, width)
  BY DEF formatInternal
<1>2. PICK b \in Nat \ {0} : b = Billion
  BY BillionIsANumber
<1>3. PICK n \in Nat : n = i.ns /\ n < b
  BY <1>2, InstantsAssumption
<1>4. width \in 0..Nano /\ 0 \in 0..Nano
  BY SMT DEF Nano
<1>5. PICK p \in Nat \ {0} : p = 10^(Nano - width)
  BY <1>4, PowersOfNano
<1>6. CASE width = 0 \/ nanosecond(i) = 0
  <2>1. t.frac.len = 0 /\ t.frac.frac = 0
    BY <1>1, <1>6 DEF formatSecFrac
  <2>2. 0 < 10^0
    BY Powers, SMT
  <2>3. nanoseconds(t) = 0
    <3>1. PICK q \in Nat : q = 10^(Nano - t.frac.len)
      BY <1>4, <2>1, PowersOfNano
    <3>2. 0 * q = 0
      BY SMT
    <3> QED
      BY <2>1, <3>1, <3>2 DEF nanoseconds
  <2>4. ~Early(i) => n - (n % p) = 0
    <3>1. CASE width = 0
      <4>1. p = b
        <5>1. Nano - width = 9
          BY <3>1, SMT DEF Nano
        <5>2. p = 10^9
          BY <5>1, <1>5, Zenon
        <5> QED
          BY <5>2, <1>2, Powers, SMT
      <4> QED
        BY <4>1, <1>3, SMT
    <3>2. CASE nanosecond(i) = 0
      <4>1. ~Early(i) => n = 0
        BY <3>2, <1>3 DEF nanosecond
      <4>2. 0 % p = 0
        BY SMT
      <4> QED
        BY <4>1, <4>2
    <3> QED
      BY <1>6, <3>1, <3>2
  <2>5. 0 # Junk
    BY SMT DEF Junk
  <2> QED
    BY <1>3, <1>4, <1>5, <2>1, <2>2, <2>3, <2>4, <2>5
<1>7. CASE width # 0 /\ nanosecond(i) # 0 /\ Early(i)
  <2>1. t.frac.len = width /\ t.frac.frac = formatUIntWidth(nanosecond(i), width)
    BY <1>1, <1>7 DEF formatSecFrac
  <2>2. PICK v \in Int : v = nanosecond(i) /\ v < 0
    <3>1. nanosecond(i) = n - b
      BY <1>2, <1>3, <1>7 DEF nanosecond
    <3> QED
      BY <3>1, <1>3
  <2>3. formatUIntWidth(v, width) \in {Junk} \cup 0..9
    BY <2>2, SMT DEF formatUIntWidth
  <2>4. 10 <= 10^width
    <3>1. CASE width = 3
      BY <3>1, Powers, SMT
    <3>2. CASE width = 6
      BY <3>2, Powers, SMT
    <3>3. CASE width = 9
      BY <3>3, Powers, SMT DEF Billion
    <3> QED
      BY <1>7, <3>1, <3>2, <3>3, SMT DEF Nano
  <2>5. PICK w \in Nat : w = 10^width
    BY <1>4, PowersArePositive
  <2>6. PICK f \in {Junk} \cup 0..9 : f = t.frac.frac
    BY <2>1, <2>2, <2>3
  <2>7. f \in Nat \cup {Junk} /\ f < w
    BY <2>4, <2>5, <2>6, SMT DEF Junk
  <2> QED
    BY <1>4, <1>7, <2>1, <2>5, <2>6, <2>7
<1>8. CASE width # 0 /\ nanosecond(i) # 0 /\ ~Early(i)
  <2>1. t.frac.len = width /\ t.frac.frac = formatUIntWidth(n, width)
    BY <1>1, <1>3, <1>8 DEF formatSecFrac, nanosecond
  <2>2. formatUIntWidth(n, width) \in Nat /\ formatUIntWidth(n, width) < 10^width
    <3>1. n \in 0..(Billion - 1)
      BY <1>2, <1>3
    <3> QED
      BY <1>4, <3>1, NoMoreDigits
  <2>3. t.frac.frac # Junk
    BY <2>1, <2>2, SMT DEF Junk
  <2>4. ASSUME width \in 1..8 => i.ns = 0 \/ i.ns >= Billion \div 10
        PROVE  formatUIntWidth(n, width) = n \div p
    <3>1. CASE width = Nano
      <4>1. Nano - width = 0 /\ 10^Nano = b
        BY <3>1, <1>2, Powers, SMT DEF Nano
      <4>2. p = 1 /\ n \div 1 = n
        <5>1. p = 10^0
          BY <4>1, <1>5, Zenon
        <5> QED
          BY <5>1, Powers, SMT
      <4>3. formatUIntWidth(n, width) = n
        BY <3>1, <4>1, <1>3, <1>4, AllDigits
      <4> QED
        BY <4>2, <4>3
    <3>2. CASE width # Nano
      <4>1. width \in {3, 6} /\ width \in 1..8
        BY <3>2, <1>8, SMT DEF Nano
      <4>2. n # 0
        BY <1>3, <1>8 DEF nanosecond
      <4>3. n >= 10^8 /\ n < 10 * 10^8
        <5>1. Billion \div 10 = 10^8 /\ b = 10 * 10^8
          BY <1>2, Powers, SMT DEF Billion
        <5> QED
          BY <5>1, <4>1, <4>2, <2>4, <1>3
      <4>4. PICK k \in 0..Nano : k = Nano - width
        BY <4>1, SMT DEF Nano
      <4>5. n \div 10^k < 10^width
        <5>1. CASE width = 3
          <6>1. k = 6
            BY <5>1, <4>4, SMT DEF Nano
          <6> QED
            BY <5>1, <6>1, <4>3, Powers, SMT
        <5>2. CASE width = 6
          <6>1. k = 3
            BY <5>2, <4>4, SMT DEF Nano
          <6> QED
            BY <5>2, <6>1, <4>3, Powers, SMT
        <5> QED
          BY <4>1, <5>1, <5>2
      <4>6. ASSUME NEW j \in 0..(k - 1) PROVE n \div 10^j >= 10^width
        <5>1. CASE width = 3
          <6>1. j \in {0, 1, 2, 3, 4, 5}
            BY <5>1, <4>4, SMT DEF Nano
          <6>2. /\ n \div 1 >= 1000 /\ n \div 10 >= 1000 /\ n \div 100 >= 1000
                /\ n \div 1000 >= 1000 /\ n \div 10000 >= 1000 /\ n \div 100000 >= 1000
            BY <4>3, Powers, SMT
          <6>3. CASE j = 0
            BY <5>1, <6>2, <6>3, Powers, SMT
          <6>4. CASE j = 1
            BY <5>1, <6>2, <6>4, Powers, SMT
          <6>5. CASE j = 2
            BY <5>1, <6>2, <6>5, Powers, SMT
          <6>6. CASE j = 3
            BY <5>1, <6>2, <6>6, Powers, SMT
          <6>7. CASE j = 4
            BY <5>1, <6>2, <6>7, Powers, SMT
          <6>8. CASE j = 5
            BY <5>1, <6>2, <6>8, Powers, SMT
          <6> QED
            BY <6>1, <6>3, <6>4, <6>5, <6>6, <6>7, <6>8
        <5>2. CASE width = 6
          <6>1. j \in {0, 1, 2}
            BY <5>2, <4>4, SMT DEF Nano
          <6>2. n \div 1 >= 1000000 /\ n \div 10 >= 1000000 /\ n \div 100 >= 1000000
            BY <4>3, Powers, SMT
          <6>3. CASE j = 0
            BY <5>2, <6>2, <6>3, Powers, SMT
          <6>4. CASE j = 1
            BY <5>2, <6>2, <6>4, Powers, SMT
          <6>5. CASE j = 2
            BY <5>2, <6>2, <6>5, Powers, SMT
          <6> QED
            BY <6>1, <6>3, <6>4, <6>5
        <5> QED
          BY <4>1, <5>1, <5>2
      <4> QED
        BY <4>4, <4>5, <4>6, <1>4, <1>5, FirstDigits
    <3> QED
      BY <3>1, <3>2
  <2>5. ASSUME width \in 1..8 => i.ns = 0 \/ i.ns >= Billion \div 10
        PROVE  nanoseconds(t) = n - (n % p)
    <3>1. nanoseconds(t) = (n \div p) * p
      BY <2>1, <2>4, <2>5, <1>5 DEF nanoseconds
    <3>2. (n \div p) * p = n - (n % p)
      BY SMT
    <3> QED
      BY <3>1, <3>2
  <2> QED
    BY <1>3, <1>4, <1>5, <1>8, <2>1, <2>2, <2>3, <2>5
<1> QED
  BY <1>6, <1>7, <1>8

\* What two digits make of the quarters of an hour, which are still in seconds.
LEMMA QuartersAreWritten ==
    ASSUME NEW v \in Nat
    PROVE  /\ v = 0 => formatUIntWidth(v, 2) = 0
           /\ v = 900 => formatUIntWidth(v, 2) = 90
           /\ v = 1800 => formatUIntWidth(v, 2) = 18
           /\ v = 2700 => formatUIntWidth(v, 2) = 27
<1>0. 1 \in 0..Nano /\ 2 \in 0..Nano
  BY SMT DEF Nano
<1>1. v = 0 => formatUIntWidth(v, 2) = 0
  BY TwoDigits, SMT
<1>2. ASSUME v = 900 PROVE formatUIntWidth(v, 2) = 90
  <2>0. PICK k \in 0..Nano : k = 1
    BY <1>0
  <2>1. v \div 10^k = 90 /\ v \div 10^k < 10^2
    BY <1>2, <2>0, Powers, SMT
  <2>2. ASSUME NEW j \in 0..(k - 1) PROVE v \div 10^j >= 10^2
    <3>1. j = 0
      BY <2>0, SMT
    <3> QED
      BY <1>2, <3>1, Powers, SMT
  <2>3. formatUIntWidth(v, 2) = v \div 10^k
    BY <1>0, <2>1, <2>2, FirstDigits
  <2> QED
    BY <2>1, <2>3
<1>3. ASSUME v = 1800 PROVE formatUIntWidth(v, 2) = 18
  <2>1. v \div 10^2 = 18 /\ v \div 10^2 < 10^2
    BY <1>3, Powers, SMT
  <2>2. ASSUME NEW j \in 0..(2 - 1) PROVE v \div 10^j >= 10^2
    <3>1. CASE j = 0
      BY <1>3, <3>1, Powers, SMT
    <3>2. CASE j = 1
      BY <1>3, <3>2, Powers, SMT
    <3> QED
      BY <3>1, <3>2, SMT
  <2>3. formatUIntWidth(v, 2) = v \div 10^2
    BY <1>0, <2>1, <2>2, FirstDigits
  <2> QED
    BY <2>1, <2>3
<1>4. ASSUME v = 2700 PROVE formatUIntWidth(v, 2) = 27
  <2>1. v \div 10^2 = 27 /\ v \div 10^2 < 10^2
    BY <1>4, Powers, SMT
  <2>2. ASSUME NEW j \in 0..(2 - 1) PROVE v \div 10^j >= 10^2
    <3>1. CASE j = 0
      BY <1>4, <3>1, Powers, SMT
    <3>2. CASE j = 1
      BY <1>4, <3>2, Powers, SMT
    <3> QED
      BY <3>1, <3>2, SMT
  <2>3. formatUIntWidth(v, 2) = v \div 10^2
    BY <1>0, <2>1, <2>2, FirstDigits
  <2> QED
    BY <2>1, <2>3
<1> QED
  BY <1>1, <1>2, <1>3, <1>4

\* A negative number is no digit, or by accident.
LEMMA NegativesAreJunk ==
    ASSUME NEW v \in Int, v < 0, ~(v % 256 < 10), NEW width
    PROVE  formatUIntWidth(v, width) = Junk
BY DEF formatUIntWidth

\* An offset of whole hours is written as it is if it is not west of UTC.
LEMMA HoursAreWritten ==
    ASSUME NEW off \in Int, 0 <= off, off < 86400, off % 3600 = 0,
           NEW t, t.off = formatTimeOff(off)
    PROVE  OffIsValid(t) /\ offsetSeconds(t) = off
<1>1. PICK h \in Nat : h = off \div 3600 /\ h * 3600 = off /\ h < 24
  BY SMT
<1>2. CASE off = 0
  <2>1. t.off.sign = "Z"
    BY <1>2 DEF formatTimeOff
  <2> QED
    BY <1>2, <2>1 DEF OffIsValid, offsetSeconds
<1>3. CASE off # 0
  <2>1. ~(off < 0) /\ off - h * 3600 = 0
    BY <1>1, SMT
  <2>2. /\ t.off.sign = "+" /\ t.off.hour = formatUIntWidth(h, 2)
        /\ t.off.minute = formatUIntWidth(off - h * 3600, 2)
    BY <1>1, <1>3, <2>1 DEF formatTimeOff
  <2>3. t.off.hour = h /\ t.off.minute = 0
    <3>1. h < 100
      BY <1>1, SMT
    <3> QED
      BY <2>1, <2>2, <3>1, TwoDigits, QuartersAreWritten
  <2>4. OffIsValid(t)
    BY <1>1, <2>3, SMT DEF OffIsValid
  <2>5. (h * 3600 + 0 * 60) * 1 = off
    BY <1>1, SMT
  <2>6. offsetSeconds(t) = off
    BY <2>2, <2>3, <2>5, SMT DEF offsetSeconds
  <2> QED
    BY <2>4, <2>6
<1> QED
  BY <1>2, <1>3

\* One of whole quarters of an hour is refused, or it loses the seconds that its
\* minutes were taken for.
LEMMA QuartersAreNear ==
    ASSUME NEW off \in Int, -86400 < off, off < 86400, off % 900 = 0,
           NEW t, t.off = formatTimeOff(off), OffIsValid(t)
    PROVE  off - offsetSeconds(t) \in 0..1080
<1>1. CASE off = 0
  <2>1. t.off.sign = "Z"
    BY <1>1 DEF formatTimeOff
  <2>2. offsetSeconds(t) = 0
    BY <2>1 DEF offsetSeconds
  <2> QED
    BY <1>1, <2>2, SMT
<1>2. CASE off > 0
  <2>1. PICK h \in Nat, r \in {0, 900, 1800, 2700} :
           h = off \div 3600 /\ r = off - h * 3600 /\ h < 24
    <3>1. PICK h \in Nat : h = off \div 3600 /\ h < 24
      BY <1>2, SMT
    <3>2. PICK q \in Nat : off = q * 900
      <4>1. PICK q \in Nat : q = off \div 900
        BY <1>2, SMT
      <4> QED
        BY <1>2, <4>1, SMT
    <3>3. off - h * 3600 \in {0, 900, 1800, 2700}
      BY <1>2, <3>1, <3>2, SMT
    <3> QED
      BY <3>1, <3>3
  <2>2. /\ t.off.sign = "+" /\ t.off.hour = formatUIntWidth(h, 2)
        /\ t.off.minute = formatUIntWidth(r, 2)
    <3>1. off # 0 /\ ~(off < 0)
      BY <1>2
    <3> QED
      BY <2>1, <3>1 DEF formatTimeOff
  <2>3. t.off.hour = h
    <3>1. h < 100
      BY <2>1, SMT
    <3> QED
      BY <2>2, <3>1, TwoDigits
  <2>4. t.off.minute \in {0, 18, 27} /\ r - t.off.minute * 60 \in 0..1080
    <3>1. CASE r = 0
      <4>1. t.off.minute = 0
        BY <3>1, <2>2, QuartersAreWritten
      <4> QED
        BY <3>1, <4>1, SMT
    <3>2. CASE r = 900
      <4>1. t.off.minute = 90
        BY <3>2, <2>2, QuartersAreWritten
      <4> QED
        BY <4>1, <2>2, SMT DEF OffIsValid
    <3>3. CASE r = 1800
      BY <3>3, <2>2, QuartersAreWritten, SMT
    <3>4. CASE r = 2700
      BY <3>4, <2>2, QuartersAreWritten, SMT
    <3> QED
      BY <2>1, <3>1, <3>2, <3>3, <3>4
  <2>5. PICK m \in Nat : m = t.off.minute
    BY <2>4, SMT
  <2>6. offsetSeconds(t) = h * 3600 + m * 60
    <3>1. offsetSeconds(t) = (h * 3600 + m * 60) * 1
      BY <2>2, <2>3, <2>5, SMT DEF offsetSeconds
    <3> QED
      BY <3>1, SMT
  <2>7. off - (h * 3600 + m * 60) = r - m * 60
    BY <2>1, SMT
  <2>8. r - m * 60 \in 0..1080
    BY <2>4, <2>5, SMT
  <2> QED
    BY <2>6, <2>7, <2>8, SMT
<1>3. CASE off < 0
  <2>1. PICK h \in Nat : h = (-off) \div 3600 /\ h < 24
    BY <1>3, SMT
  <2>2. /\ t.off.sign = "-" /\ t.off.hour = formatUIntWidth(-h, 2)
        /\ t.off.minute = formatUIntWidth(off - (-h) * 3600, 2)
    BY <1>3, <2>1, SMT DEF formatTimeOff
  <2>3. t.off.hour # Junk /\ t.off.minute # Junk
    BY <2>2, SMT DEF OffIsValid, Junk
  <2>4. CASE h > 0
    <3>1. -h < 0 /\ ~((-h) % 256 < 10)
      BY <2>1, <2>4, SMT
    <3>2. formatUIntWidth(-h, 2) = Junk
      BY <2>1, <3>1, NegativesAreJunk
    <3> QED
      BY <2>2, <2>3, <3>2
  <2>5. CASE h = 0
    <3>1. off \in {-900, -1800, -2700}
      <4>1. PICK q \in Int : q = off \div 900
        BY SMT
      <4>2. off = q * 900 /\ off > -3600
        BY <1>3, <2>1, <2>5, <4>1, SMT
      <4> QED
        BY <1>3, <4>2, SMT
    <3>2. off - (-h) * 3600 = off
      BY <2>5, SMT
    <3>3. ~(off % 256 < 10)
      BY <3>1, SMT
    <3>4. formatUIntWidth(off, 2) = Junk
      BY <1>3, <3>3, NegativesAreJunk
    <3> QED
      BY <2>2, <2>3, <3>2, <3>4
  <2> QED
    BY <2>1, <2>4, <2>5
<1> QED
  BY <1>1, <1>2, <1>3, SMT

----------------------------------------------------------------------------
(* Reading a text of another program *)

\* What the reader checks of a date is that the calendar has it.
LEMMA DatesAreReal ==
    ASSUME NEW t, t.year \in Nat \cup {-1}, t.month \in Int, t.day \in Int
    PROVE  DateIsValid(t) <=> InCalendar(t)
<1>1. CASE t.year \in Nat /\ t.month \in 1..12
  <2>1. daysInMonth(t.year, t.month)
            = MonthStart(t.year, t.month + 1) - MonthStart(t.year, t.month)
    BY <1>1, MonthsAgree
  <2>2. daysInMonth(t.year, t.month) \in 28..31
    BY <1>1, MonthsAreShort
  <2> QED BY <1>1, <2>1, <2>2 DEF DateIsValid, InCalendar, Junk
<1>2. CASE ~(t.year \in Nat /\ t.month \in 1..12)
  BY <1>2 DEF DateIsValid, InCalendar, Junk
<1> QED BY <1>1, <1>2

\* A message that is no time of this program's is one of the texts.
Foreign ==
    msg # NoMessage /\ msg.of = NoInstant => msg.text \in Texts /\ msg.width = Nano

THEOREM ForeignTexts == Spec => []Foreign
<1>1. Init => Foreign
  BY DEF Init, Foreign
<1>2. Foreign /\ [Next]_vars => Foreign'
  <2> SUFFICES ASSUME Foreign, [Next]_vars PROVE Foreign'
    OBVIOUS
  <2>1. ASSUME NEW th \in Thread, NEW i \in Instants, NEW width, Save(th, i, width)
        PROVE  Foreign'
    BY <2>1, TimeAssumption DEF Save, Foreign
  <2>2. ASSUME NEW t \in Texts, Receive(t) PROVE Foreign'
    BY <2>2 DEF Receive, Foreign
  <2>3. CASE Read
    BY <2>3 DEF Read, Foreign
  <2>4. CASE Clear
    BY <2>4 DEF Clear, Foreign
  <2>5. CASE UNCHANGED vars
    BY <2>5 DEF vars, Foreign
  <2> QED BY <2>1, <2>2, <2>3, <2>4, <2>5 DEF Next
<1> QED BY <1>1, <1>2, PTL DEF Spec

\* One step of the reader is what ReadIsCalendar says.
LEMMA ReadStep ==
    ASSUME Foreign, Read, msg.of = NoInstant
    PROVE  /\ NamesTime(msg.text) /\ Fits(CalendarTime(msg.text)) =>
                 ret' = OK /\ timespecToTimePoint(dest') = CalendarTime(msg.text)
           /\ ~NamesTime(msg.text) => ret' = FORMAT /\ dest' = dest
<1> DEFINE t == msg.text
<1>1. t \in Texts /\ msg.width = Nano
  BY DEF Read, Foreign
<1>2. t.year \in Nat \cup {-1} /\ t.month \in Int /\ t.day \in Int
  BY <1>1, TimeAssumption DEF Junk
<1>3. DateIsValid(t) <=> InCalendar(t)
  BY <1>2, DatesAreReal
<1>4. NamesTime(t) <=> IsValid(t, msg.width, msg.width \in {3, 6})
  <2>1. FracIsValid(t, msg.width, msg.width \in {3, 6}) <=> FracIsValid(t, Nano, FALSE)
    BY <1>1, SMT DEF FracIsValid, Nano
  <2> QED BY <1>3, <2>1 DEF IsValid, NamesTime
<1>5. ASSUME NamesTime(t), Fits(CalendarTime(t))
      PROVE  ret' = OK /\ timespecToTimePoint(dest') = CalendarTime(t)
  <2>1. IsValid(t, msg.width, msg.width \in {3, 6})
    BY <1>4, <1>5
  <2>2. Parsed(t) = CalendarTime(t)
    <3>1. daysFromCivil(t.year, t.month, t.day) = MonthStart(t.year, t.month) + t.day - 1
      BY <1>2, <1>5, CalendarsAgree DEF NamesTime, InCalendar, Junk
    <3> QED BY <3>1 DEF Parsed, CalendarTime
  <2>3. ret' = OK /\ dest' = timepointToTimespec(Parsed(t))
    BY <1>5, <2>1, <2>2 DEF Read
  <2>4. /\ Parsed(t).day \in Int /\ Parsed(t).sec \in Nat /\ Parsed(t).sec < 86400
        /\ Parsed(t).ns \in 0..(Billion - 1)
    <3>1. HasFields(t)
      BY <1>1, <1>2, TimeAssumption DEF HasFields
    <3> QED BY <2>1, <3>1, ParsedIs
  <2>5. timespecToTimePoint(dest')
           = [day |-> Parsed(t).day, sec |-> Parsed(t).sec, ns |-> Parsed(t).ns]
    BY <2>3, <2>4, TimespecIs
  <2>6. Parsed(t) = [day |-> Parsed(t).day, sec |-> Parsed(t).sec, ns |-> Parsed(t).ns]
    BY DEF Parsed, At
  <2> QED BY <2>2, <2>3, <2>5, <2>6
<1>6. ASSUME ~NamesTime(t)
      PROVE  ret' = FORMAT /\ dest' = dest
  BY <1>4, <1>6 DEF Read
<1> QED BY <1>5, <1>6

\* For all texts: one that names a time which 64 bits hold is accepted and leaves the
\* timespec of that time; one that names none is refused.
THEOREM ReadsTheCalendar == Spec => ReadIsCalendar
<1>1. Foreign /\ [Next]_vars =>
        [Read /\ msg.of = NoInstant =>
            /\ NamesTime(msg.text) /\ Fits(CalendarTime(msg.text)) =>
                  ret' = OK /\ timespecToTimePoint(dest') = CalendarTime(msg.text)
            /\ ~NamesTime(msg.text) => ret' = FORMAT /\ dest' = dest]_vars
  BY ReadStep
<1> QED BY <1>1, ForeignTexts, PTL DEF Spec, ReadIsCalendar

----------------------------------------------------------------------------
(* The types *)

\* A message that is a time of this program's is what formatInternal made of it, with
\* an offset that the zone has, or had in another season.
Ours ==
    msg # NoMessage /\ msg.of # NoInstant =>
        /\ msg.of \in Instants /\ msg.width \in {0, 3, 6, Nano}
        /\ msg.off \in {zone.std, zone.dst}
        /\ msg.text = formatInternal(msg.of, msg.off, msg.width)

\* Every thread has a place for its offset.
Cached == DOMAIN t_off = Thread

IInv == TypeOK /\ Cached /\ Ours

\* Whoever wrote the message, its fields are those of a text.
LEMMA MessageHasFields ==
    ASSUME zone \in Zones, Ours, Foreign, msg # NoMessage
    PROVE  HasFields(msg.text)
<1>1. CASE msg.of = NoInstant
  <2>1. msg.text \in Texts
    BY <1>1 DEF Foreign
  <2>2. msg.text.year \in Int
    BY <2>1, TimeAssumption DEF Junk
  <2> QED
    BY <2>1, <2>2, TimeAssumption DEF HasFields
<1>2. CASE msg.of # NoInstant
  <2>1. /\ msg.of \in Instants /\ msg.width \in {0, 3, 6, Nano}
        /\ msg.text = formatInternal(msg.of, msg.off, msg.width)
    BY <1>2 DEF Ours
  <2>2. msg.text.year \in Int
    BY <2>1, DateIsWritten
  <2>3. /\ msg.text.frac.frac \in Nat \cup {Junk} /\ msg.text.frac.len \in 0..Nano
        /\ msg.text.frac.frac < 10^msg.text.frac.len
    BY <2>1, FractionIsWritten
  <2>4. msg.text.frac.len \in Nat
    BY <2>3 DEF Nano
  <2> QED
    BY <2>2, <2>3, <2>4 DEF HasFields
<1> QED
  BY <1>1, <1>2

\* What Read leaves in the object is a time.
LEMMA ReadKeepsType ==
    ASSUME TypeOK, Ours, Foreign, Read
    PROVE  TypeOK'
<1>1. zone' = zone /\ t_off' = t_off /\ msg' = msg /\ msg # NoMessage
  BY DEF Read
<1>2. ret' \in {OK, FORMAT}
  BY DEF Read
<1>3. \/ dest' = dest
      \/ \E i \in Instants : dest' = timepointToTimespec(i)
      \/ /\ IsValid(msg.text, msg.width, msg.width \in {3, 6})
         /\ dest' = timepointToTimespec(Parsed(msg.text))
  BY DEF Read
<1>4. IsTimespec(dest')
  <2>1. CASE dest' = dest
    BY <2>1 DEF TypeOK
  <2>2. ASSUME NEW i \in Instants, dest' = timepointToTimespec(i)
        PROVE  IsTimespec(dest')
    <3>1. i.day \in Int /\ i.sec \in Nat /\ i.sec < 86400 /\ i.ns \in 0..(Billion - 1)
      BY InstantsAssumption
    <3> QED
      BY <2>2, <3>1, TimespecIs
  <2>3. CASE /\ IsValid(msg.text, msg.width, msg.width \in {3, 6})
             /\ dest' = timepointToTimespec(Parsed(msg.text))
    <3>1. HasFields(msg.text)
      BY <1>1, MessageHasFields DEF TypeOK
    <3>2. /\ Parsed(msg.text).day \in Int /\ Parsed(msg.text).sec \in Nat
          /\ Parsed(msg.text).sec < 86400 /\ Parsed(msg.text).ns \in 0..(Billion - 1)
      BY <2>3, <3>1, ParsedIs
    <3> QED
      BY <2>3, <3>2, TimespecIs
  <2> QED
    BY <1>3, <2>1, <2>2, <2>3
<1> QED
  BY <1>1, <1>2, <1>4 DEF TypeOK

LEMMA EpochIs == IsTimespec(Epoch)
<1>1. /\ Epoch.day \in Int /\ Epoch.sec \in Nat /\ Epoch.sec < 86400 /\ Epoch.ns = 0
  BY AtCarries DEF Epoch
<1>2. -Billion < 0 /\ 0 < Billion
  BY BillionIsANumber
<1> QED
  BY <1>1, <1>2 DEF IsTimespec

LEMMA InitIsTyped == Init => IInv
<1> SUFFICES ASSUME Init PROVE IInv
  OBVIOUS
<1>1. TypeOK
  BY EpochIs DEF Init, TypeOK
<1>2. Cached /\ Ours
  BY DEF Init, Cached, Ours
<1> QED
  BY <1>1, <1>2 DEF IInv

LEMMA StepIsTyped ==
    ASSUME IInv, Foreign, [Next]_vars
    PROVE  IInv'
<1> USE DEF IInv
<1>1. ASSUME NEW th \in Thread, NEW i \in Instants, NEW width \in {0, 3, 6, Nano},
             Save(th, i, width)
      PROVE  IInv'
  <2> DEFINE off == timezone(th, i)
  <2>1. off \in {Unset, zone.std, zone.dst} /\ off \in {zone.std, zone.dst}
    BY DEF TypeOK, timezone, Offset
  <2> HIDE DEF off
  <2>2. /\ t_off' = [t_off EXCEPT ![th] = off] /\ zone' = zone
        /\ msg' = [text |-> formatInternal(i, off, width), width |-> width, of |-> i, off |-> off]
        /\ dest' = dest /\ ret' = ret
    BY <1>1 DEF Save, off
  <2>3. TypeOK'
    BY <2>1, <2>2 DEF TypeOK, Cached
  <2>4. Cached'
    BY <2>2 DEF Cached
  <2>5. Ours'
    BY <2>1, <2>2 DEF Ours, formatInternal, Offset
  <2> QED
    BY <2>3, <2>4, <2>5
<1>2. ASSUME NEW t \in Texts, Receive(t) PROVE IInv'
  BY <1>2 DEF Receive, TypeOK, Cached, Ours
<1>3. CASE Read
  <2>1. TypeOK'
    BY <1>3, ReadKeepsType
  <2>2. Ours' /\ Cached'
    BY <1>3 DEF Read, Ours, Cached, formatInternal, Offset
  <2> QED
    BY <2>1, <2>2
<1>4. CASE Clear
  BY <1>4, EpochIs DEF Clear, TypeOK, Cached, Ours
<1>5. CASE UNCHANGED vars
  BY <1>5 DEF vars, TypeOK, Cached, Ours, formatInternal, Offset
<1> QED
  BY <1>1, <1>2, <1>3, <1>4, <1>5 DEF Next

\* For all texts, times, zones and threads: whatever was read left a timespec whose
\* parts agree in sign, and the offsets the threads cached are the zone's.
THEOREM TypeCorrect == Spec => []TypeOK
<1>1. IInv /\ Foreign /\ [Next]_vars => IInv'
  BY StepIsTyped
<1>2. IInv => TypeOK
  BY DEF IInv
<1> QED
  BY <1>1, <1>2, InitIsTyped, ForeignTexts, PTL DEF Spec

----------------------------------------------------------------------------
(* What is read of this program's times *)

\* The time of day and the offset of a message give back the instant, but for the
\* offsets that differ from the zone's and for the second that rounding cost.
LEMMA ReadOfWritten ==
    ASSUME zone \in Zones, NEW i \in Instants, NEW width \in {0, 3, 6, Nano}, NEW off,
           NEW t, t = formatInternal(i, off, width), HasFields(t),
           NEW exact, IsValid(t, width, exact), NEW o, o = Offset(zone, to_time_t(i))
    PROVE  /\ o \in Int /\ offsetSeconds(t) \in Int
           /\ Parsed(t).day \in Int /\ Parsed(t).sec \in Nat /\ Parsed(t).sec < 86400
           /\ Parsed(t).ns = nanoseconds(t)
           /\ Parsed(t).day * 86400 + Parsed(t).sec
                = i.day * 86400 + i.sec + (IF Early(i) THEN 1 ELSE 0) + o - offsetSeconds(t)
<1>1. PICK d \in Int, s \in Nat :
        /\ d = daysFromCivil(t.year, t.month, t.day) /\ s = SecondOfDay(t)
        /\ o \in Int
        /\ d * 86400 + s = i.day * 86400 + i.sec + (IF Early(i) THEN 1 ELSE 0) + o
  <2>1. PICK d \in Int, s \in Nat : d = Local(i).day /\ s = Local(i).sec
    BY LocalIs DEF Days
  <2>2. d = daysFromCivil(t.year, t.month, t.day) /\ s = SecondOfDay(t)
    BY <2>1, DateIsWritten
  <2>3. o \in Int /\ d * 86400 + s = i.day * 86400 + i.sec + (IF Early(i) THEN 1 ELSE 0) + o
    BY <2>1, LocalIs
  <2> QED
    BY <2>1, <2>2, <2>3
<1>2. PICK pd \in Int, ps \in Nat, fs \in Int :
        pd = Parsed(t).day /\ ps = Parsed(t).sec /\ fs = offsetSeconds(t)
  BY ParsedIs
<1>3. pd * 86400 + ps = d * 86400 + s - fs /\ ps < 86400 /\ Parsed(t).ns = nanoseconds(t)
  BY <1>1, <1>2, ParsedIs
<1>4. PICK a \in Int, b \in Nat, n \in {0, 1} :
        a = i.day /\ b = i.sec /\ n = IF Early(i) THEN 1 ELSE 0
  BY InstantsAssumption
<1>5. pd * 86400 + ps = a * 86400 + b + n + o - fs
  <2>1. d * 86400 + s = a * 86400 + b + n + o
    BY <1>1, <1>4
  <2> QED
    BY <2>1, <1>1, <1>3, SMT
<1> QED
  BY <1>1, <1>2, <1>3, <1>4, <1>5

\* A time that is cut to a number of digits is still in the 64 bits.
LEMMA CutFits ==
    ASSUME NEW i \in Instants, ~Early(i), NEW p,
           p.day = i.day, p.sec = i.sec, p.ns \in Int, 0 <= p.ns, p.ns <= i.ns
    PROVE  Fits(p)
<1>1. PICK d \in Int, s \in Nat, n \in Nat : d = i.day /\ s = i.sec /\ n = i.ns
  BY InstantsAssumption
<1>2. NotAfter(Least, i) /\ NotAfter(i, Last)
  BY InstantsAssumption
<1>3. NotAfter(First, p)
  <2>1. d < 0 => n = 0
    BY <1>1 DEF Early
  <2>2. -106752 < d \/ (-106752 = d /\ (763 < s \/ (763 = s /\ 145224192 <= n)))
    BY <1>1, <1>2, SMT DEF NotAfter, Least
  <2>3. -106752 < d \/ (-106752 = d /\ (764 < s \/ 764 = s))
    BY <2>1, <2>2, SMT
  <2> QED
    BY <1>1, <2>3, SMT DEF NotAfter, First
<1>4. NotAfter(p, Last)
  <2>1. PICK m \in Int : m = p.ns /\ m <= n
    BY <1>1
  <2>2. d < Last.day \/ (d = Last.day /\ (s < Last.sec \/ (s = Last.sec /\ n <= Last.ns)))
    BY <1>1, <1>2 DEF NotAfter
  <2>3. Last.ns \in Int
    BY SMT DEF Last
  <2>4. n <= Last.ns => m <= Last.ns
    BY <2>1, <2>3
  <2> QED
    BY <1>1, <2>1, <2>2, <2>4 DEF NotAfter
<1> QED
  BY <1>3, <1>4 DEF Fits

\* One step of the reader is what ReadsBack says.
LEMMA ReadBackStep ==
    ASSUME TypeOK, Ours, Foreign, Read, msg.of # NoInstant, Plain
    PROVE  /\ ret' = OK
           /\ dest'.day = msg.of.day /\ dest'.sec = msg.of.sec
           /\ dest'.ns = msg.of.ns - (msg.of.ns % 10^(Nano - msg.width))
<1> DEFINE i == msg.of
           w == msg.width
           t == msg.text
           exact == msg.width \in {3, 6}
<1>1. zone \in Zones /\ msg # NoMessage
  BY DEF TypeOK, Read
<1>2. i \in Instants /\ w \in {0, 3, 6, Nano} /\ t = formatInternal(i, msg.off, w)
  BY <1>1 DEF Ours
<1>3. PICK off \in Int : /\ off = msg.off /\ off = Offset(zone, to_time_t(i))
                         /\ 0 <= off /\ off < 86400 /\ off % 3600 = 0
  BY <1>1, <1>2, LocalIs DEF Plain
<1>4. ~Early(i) /\ (w \in 1..8 => i.ns = 0 \/ i.ns >= Billion \div 10)
  BY DEF Plain
<1>5. DateIsValid(t) /\ TimeIsValid(t)
  BY <1>1, <1>2, DateIsWritten
<1>6. /\ t.frac.len \in {0, w} /\ t.frac.len \in 0..Nano /\ t.frac.frac # Junk
      /\ nanoseconds(t) = i.ns - (i.ns % 10^(Nano - w))
  BY <1>2, <1>4, FractionIsWritten
<1>7. OffIsValid(t) /\ offsetSeconds(t) = off
  <2>1. t.off = formatTimeOff(off)
    BY <1>2, <1>3 DEF formatInternal
  <2> QED
    BY <1>3, <2>1, HoursAreWritten
<1>8. FracIsValid(t, w, exact)
  BY <1>6 DEF FracIsValid, Nano
<1>9. IsValid(t, w, exact)
  BY <1>5, <1>7, <1>8 DEF IsValid
<1>10. HasFields(t)
  BY <1>1, MessageHasFields
<1>11. Parsed(t).day = i.day /\ Parsed(t).sec = i.sec /\ Parsed(t).ns = nanoseconds(t)
  <2> HIDE DEF i, w, t, exact
  <2>1. PICK d \in Int, s \in Nat : d = i.day /\ s = i.sec /\ s < 86400
    BY <1>2, InstantsAssumption
  <2>2. PICK e \in Int, u \in Nat :
           /\ e = Parsed(t).day /\ u = Parsed(t).sec /\ u < 86400
           /\ Parsed(t).ns = nanoseconds(t)
           /\ e * 86400 + u = d * 86400 + s + 0 + off - off
    BY <1>1, <1>2, <1>3, <1>4, <1>7, <1>9, <1>10, <2>1, ReadOfWritten
  <2>3. e * 86400 + u = d * 86400 + s
    BY <2>2, <1>3, SMT
  <2>4. d = e /\ s = u
    <3>1. s < 86400 /\ u < 86400 /\ e * 86400 + u = d * 86400 + s
      BY <2>1, <2>2, <2>3
    <3> QED
      BY ONLY <3>1, SMT
  <2> QED
    BY <2>1, <2>2, <2>4
<1>12. Fits(Parsed(t)) /\ \E n \in Nat, m \in Int : n = i.ns /\ m = Parsed(t).ns /\ m <= n
  <2>1. PICK p \in Nat \ {0} : p = 10^(Nano - w)
    <3>1. w \in 0..Nano
      BY <1>2, SMT DEF Nano
    <3> QED
      BY <3>1, PowersOfNano
  <2>2. PICK n \in Nat : n = i.ns
    BY <1>2, InstantsAssumption
  <2>3. n - (n % p) \in Int /\ 0 <= n - (n % p) /\ n - (n % p) <= n
    <3>1. PICK q \in Nat : q = n \div p
      BY SMT
    <3>2. n % p \in 0..(p - 1) /\ n = q * p + (n % p)
      BY <3>1, SMT
    <3>3. q * p \in Nat
      BY SMT
    <3> QED
      BY <3>2, <3>3, SMT
  <2>4. Parsed(t).ns = n - (n % p)
    BY <1>6, <1>11, <2>1, <2>2
  <2> HIDE DEF i, t
  <2> QED
    BY <1>2, <1>4, <1>11, <2>2, <2>3, <2>4, CutFits
<1>13. ret' = OK /\ dest' = timepointToTimespec(Parsed(t))
  BY <1>9, <1>12 DEF Read
<1>14. ~Early(Parsed(t))
  <2>1. PICK n \in Nat, m \in Int : n = i.ns /\ m = Parsed(t).ns /\ m <= n
    BY <1>12
  <2>2. i.day \in Int
    BY <1>2, InstantsAssumption
  <2> QED
    BY <1>4, <1>11, <2>1, <2>2 DEF Early
<1>15. dest'.day = i.day /\ dest'.sec = i.sec /\ dest'.ns = nanoseconds(t)
  <2>1. /\ Parsed(t).day \in Int /\ Parsed(t).sec \in Nat /\ Parsed(t).sec < 86400
        /\ Parsed(t).ns \in 0..(Billion - 1)
    BY <1>9, <1>10, ParsedIs
  <2> HIDE DEF i, t, exact
  <2> QED
    BY <1>11, <1>13, <1>14, <2>1, TimespecIs
<1> QED
  BY <1>6, <1>13, <1>15

\* For all zones, threads and times: a time that is written as the code means it is
\* read back as it was (formatInternal, parseInternal, timeOper).
THEOREM ReadsItBack == Spec => ReadsBack
<1>1. IInv /\ Foreign /\ [Next]_vars => IInv'
  BY StepIsTyped
<1>2. IInv /\ Foreign /\ [Next]_vars =>
        [Read /\ msg.of # NoInstant /\ Plain =>
            /\ ret' = OK
            /\ dest'.day = msg.of.day /\ dest'.sec = msg.of.sec
            /\ dest'.ns = msg.of.ns - (msg.of.ns % 10^(Nano - msg.width))]_vars
  BY ReadBackStep DEF IInv
<1> QED
  BY <1>1, <1>2, InitIsTyped, ForeignTexts, PTL DEF Spec, ReadsBack

\* The zones that there are have offsets of whole quarters of an hour.
QuarterHours == \A z \in Zones : z.std % 900 = 0 /\ z.dst % 900 = 0

\* One step of the reader is what NeverFarOff says.
LEMMA NearStep ==
    ASSUME QuarterHours, TypeOK, Ours, Foreign, Read,
           msg.of # NoInstant, msg.width = Nano, ret' = OK, Fits(Parsed(msg.text))
    PROVE  LET got   == timespecToTimePoint(dest')
               stale == Offset(zone, to_time_t(msg.of)) - msg.off
               by    == (got.day - msg.of.day) * 86400 + got.sec - msg.of.sec
               slack == 1080 + (IF Early(msg.of) THEN 1 ELSE 0)
           IN  /\ by - stale \in 0..slack
               /\ ~Early(msg.of) => got.ns = msg.of.ns
<1> DEFINE i == msg.of
           t == msg.text
           exact == msg.width \in {3, 6}
           got == timespecToTimePoint(dest')
<1>1. zone \in Zones /\ msg # NoMessage
  BY DEF TypeOK, Read
<1>2. /\ i \in Instants /\ Nano \in {0, 3, 6, Nano} /\ t = formatInternal(i, msg.off, Nano)
      /\ msg.off \in {zone.std, zone.dst}
  BY <1>1 DEF Ours
<1>3. IsValid(t, Nano, exact) /\ dest' = timepointToTimespec(Parsed(t))
  BY DEF Read, OK, FORMAT
<1>4. PICK off \in Int : off = msg.off /\ -86400 < off /\ off < 86400 /\ off % 900 = 0
  BY <1>1, <1>2, ZonesAssumption DEF QuarterHours
<1>5. HasFields(t)
  BY <1>1, MessageHasFields
<1>6. got.day = Parsed(t).day /\ got.sec = Parsed(t).sec /\ got.ns = Parsed(t).ns
  <2>1. /\ Parsed(t).day \in Int /\ Parsed(t).sec \in Nat /\ Parsed(t).sec < 86400
        /\ Parsed(t).ns \in 0..(Billion - 1)
    BY <1>3, <1>5, ParsedIs
  <2>2. got = [day |-> Parsed(t).day, sec |-> Parsed(t).sec, ns |-> Parsed(t).ns]
    <3> HIDE DEF t, exact
    <3> QED
      BY <1>3, <2>1, TimespecIs
  <2> QED
    BY <2>2
<1> HIDE DEF got
<1>7. off - offsetSeconds(t) \in 0..1080
  <2>1. t.off = formatTimeOff(off)
    BY <1>2, <1>4 DEF formatInternal
  <2>2. OffIsValid(t)
    BY <1>3 DEF IsValid
  <2> QED
    BY <1>4, <2>1, <2>2, QuartersAreNear
<1>8. ~Early(i) => got.ns = i.ns
  <2>1. ~(Nano \in 1..8)
    BY SMT DEF Nano
  <2>2. ~Early(i) => nanoseconds(t) = i.ns - (i.ns % 10^(Nano - Nano))
    BY <1>2, <2>1, FractionIsWritten
  <2>3. i.ns - (i.ns % 10^(Nano - Nano)) = i.ns
    <3>1. PICK n \in Nat : n = i.ns
      BY <1>2, InstantsAssumption
    <3>2. Nano - Nano = 0
      BY SMT DEF Nano
    <3>3. n - (n % 1) = n
      BY SMT
    <3>4. 10^(Nano - Nano) = 10^0
      BY <3>2, Zenon
    <3>5. 10^0 = 1
      BY Powers, SMT
    <3> QED
      BY <3>1, <3>3, <3>4, <3>5, Zenon
  <2>4. Parsed(t).ns = nanoseconds(t)
    BY <1>3, <1>5, ParsedIs
  <2> QED
    BY <1>6, <2>2, <2>3, <2>4
<1>9. PICK o, fs, e, d \in Int, u, s \in Nat, n \in {0, 1} :
        /\ o = Offset(zone, to_time_t(i)) /\ fs = offsetSeconds(t)
        /\ e = got.day /\ u = got.sec /\ d = i.day /\ s = i.sec
        /\ n = (IF Early(i) THEN 1 ELSE 0)
  <2> HIDE DEF i, t, exact
  <2>1. PICK o : o = Offset(zone, to_time_t(i))
    OBVIOUS
  <2>2. o \in Int /\ offsetSeconds(t) \in Int /\ got.day \in Int /\ got.sec \in Nat
    BY <1>1, <1>2, <1>3, <1>5, <1>6, <2>1, ReadOfWritten
  <2>3. i.day \in Int /\ i.sec \in Nat /\ (IF Early(i) THEN 1 ELSE 0) \in {0, 1}
    BY <1>2, InstantsAssumption
  <2> QED
    BY <2>1, <2>2, <2>3
<1>10. ((e - d) * 86400 + u - s) - (o - off) \in 0..(1080 + n)
  <2>0. e * 86400 + u = d * 86400 + s + n + o - fs
    <3> HIDE DEF i, t, exact
    <3> QED
      BY <1>1, <1>2, <1>3, <1>5, <1>9, <1>6, ReadOfWritten
  <2>1. ((e - d) * 86400 + u - s) - (o - off) = n + (off - fs)
    BY ONLY <2>0, SMT
  <2>2. off - fs \in 0..1080
    BY <1>7, <1>9
  <2>3. n + (off - fs) \in 0..(1080 + n)
    <3>1. 0 <= off - fs /\ off - fs <= 1080
      BY <2>2, SMT
    <3> QED
      BY ONLY <3>1, SMT
  <2> QED
    BY <2>1, <2>3
<1> QED
  BY <1>4, <1>8, <1>9, <1>10 DEF got

\* For all zones of quarter hours, threads and times: what is accepted is off by no
\* more than the season's shift, 18 minutes and a second.
THEOREM NeverFarFromIt ==
    ASSUME QuarterHours
    PROVE  Spec => NeverFarOff
<1>1. IInv /\ Foreign /\ [Next]_vars => IInv'
  BY StepIsTyped
<1>2. IInv /\ Foreign /\ [Next]_vars =>
        [Read /\ msg.of # NoInstant /\ msg.width = Nano /\ ret' = OK /\ Fits(Parsed(msg.text)) =>
            LET got   == timespecToTimePoint(dest')
                stale == Offset(zone, to_time_t(msg.of)) - msg.off
                by    == (got.day - msg.of.day) * 86400 + got.sec - msg.of.sec
                slack == 1080 + (IF Early(msg.of) THEN 1 ELSE 0)
            IN  /\ by - stale \in 0..slack
                /\ ~Early(msg.of) => got.ns = msg.of.ns]_vars
  BY NearStep DEF IInv
<1> QED
  BY <1>1, <1>2, InitIsTyped, ForeignTexts, PTL DEF Spec, NeverFarOff
=============================================================================
