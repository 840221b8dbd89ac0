-------------------------------- MODULE Time --------------------------------
(***************************************************************************)
(* Times in a message (time_rfc3339.h and timeOper of typeinfo.cc): save   *)
(* writes an instant as a string of local time with its offset, dump       *)
(* parses it.  Threads write, each with the offset it cached; one reads.   *)
(*                                                                         *)
(* Time's count, the nanoseconds since the epoch in 64 bits, is a triple   *)
(* here: a day, the second in it, the nanosecond in that.  So is a         *)
(* timespec: its tv_sec is the day and the second, its tv_nsec, which may  *)
(* be negative, the third.  A text is a record of its fields' values; Junk *)
(* is a field with a character that is no digit.                           *)
(***************************************************************************)
EXTENDS Integers

CONSTANTS
    Thread,     \* the threads that write times
    Zones,      \* the rules the writers' zone may have: [std, dst, from, until]
    Instants,   \* the times that are written
    Texts,      \* texts that other programs write
    NoInstant,  \* where a text of theirs came from
    NoMessage   \* an empty Buffer

VARIABLES
    zone,       \* the writers' zone
    t_off,      \* each thread's static offset, or Unset
    msg,        \* the string in the Buffer, and what it was written from
    dest,       \* the timespec it is read into
    ret         \* what the last read returned

vars == <<zone, t_off, msg, dest, ret>>

OK     == "OK"
FORMAT == "ERR_FORMAT_ERROR"
Unset  == -2147483647   \* the least long int of 64 bits
Junk   == -1
Nano   == 9     \* digits of the fraction; 3 and 6 are Milli and Macro
Billion == 1000000000

\* A field of digits is no longer than it says.
ASSUME TimeAssumption ==
    /\ NoInstant \notin Instants
    /\ \A t \in Texts :
          /\ t.year \in Nat \cup {Junk} /\ t.month \in Int /\ t.day \in Int
          /\ t.hour \in Int /\ t.minute \in Int /\ t.second \in Int
          /\ t.off.hour \in Int /\ t.off.minute \in Int
          /\ t.frac.len \in Nat /\ t.frac.frac \in Nat \cup {Junk}
          /\ t.frac.len <= Nano => t.frac.frac < 10^t.frac.len

\* An offset is less than a day.
ASSUME ZonesAssumption ==
    \A z \in Zones :
        /\ z.std \in Int /\ -86400 < z.std /\ z.std < 86400
        /\ z.dst \in Int /\ -86400 < z.dst /\ z.dst < 86400
        /\ z.from \in Int /\ z.until \in Int

\* Seconds are carried into days; ns is the nanosecond in the last of them.
At(day, sec, ns) == [day |-> day + sec \div 86400, sec |-> sec % 86400, ns |-> ns]

----------------------------------------------------------------------------
(* The calendar: localtime_r's, and the class's own *)

\* 1 January of y as a day since the epoch, and the days of its months.
Leaps(y)     == y \div 4 - y \div 100 + y \div 400
YearStart(y) == 365 * (y - 1970) + Leaps(y - 1) - Leaps(1969)
DaysUpTo     == <<0, 31, 59, 90, 120, 151, 181, 212, 243, 273, 304, 334, 365>>
MonthStart(y, mon) ==
    YearStart(y) + DaysUpTo[mon]
    + IF mon > 2 THEN YearStart(y + 1) - YearStart(y) - 365 ELSE 0

Year(day)  == CHOOSE y \in (1969 + day \div 365)..(1971 + day \div 365) :
                  YearStart(y) <= day /\ day < YearStart(y + 1)
Month(day) == CHOOSE mon \in 1..12 :
                  /\ MonthStart(Year(day), mon) <= day
                  /\ day < MonthStart(Year(day), mon + 1)
Day(day)   == day - MonthStart(Year(day), Month(day)) + 1

\* Seconds east of UTC that the zone has at an instant.
Offset(z, i) == IF z.from <= i.day /\ i.day < z.until THEN z.dst ELSE z.std

isLeapYear(year) == year % 4 = 0 /\ (year % 100 # 0 \/ year % 400 = 0)

daysInMonth(year, month) ==
    <<31, 28, 31, 30, 31, 30, 31, 31, 30, 31, 30, 31>>[month]
    + IF month = 2 /\ isLeapYear(year) THEN 1 ELSE 0

\* Mutant of daysFromCivil: the year begins in January.
daysFromCivil_january(year, month, day) ==
    LET era == year \div 400
        yoe == year - era * 400
        doy == (153 * (month + IF month > 2 THEN -3 ELSE 9) + 2) \div 5 + day - 1
    IN  era * 146097 + yoe * 365 + yoe \div 4 - yoe \div 100 + doy - 719468

daysFromCivil(year, month, day) ==
    LET y   == IF month <= 2 THEN year - 1 ELSE year
        era == y \div 400
        yoe == y - era * 400
        doy == (153 * (month + IF month > 2 THEN -3 ELSE 9) + 2) \div 5 + day - 1
    IN  era * 146097 + yoe * 365 + yoe \div 4 - yoe \div 100 + doy - 719468

----------------------------------------------------------------------------
(* Formatting *)

\* to_time_t and count() % 10^9 both round to zero.
Early(i)      == i.day < 0 /\ i.ns > 0
to_time_t(i)  == At(i.day, i.sec + (IF Early(i) THEN 1 ELSE 0), 0)
nanosecond(i) == IF Early(i) THEN i.ns - Billion ELSE i.ns

\* Mutant of timepointToTimespec: the fraction is not of the rounded second.
timepointToTimespec_fraction(i) == [to_time_t(i) EXCEPT !.ns = i.ns]

\* to_timespec: the seconds rounded to zero, and what is left; and back, their sum.
timepointToTimespec(i)  == [to_time_t(i) EXCEPT !.ns = nanosecond(i)]
timespecToTimePoint(ts) ==
    IF ts.ns < 0 THEN At(ts.day, ts.sec - 1, ts.ns + Billion)
    ELSE At(ts.day, ts.sec, ts.ns)

\* What width digits of v read as: the first ones if there are more.  A negative
\* v is one character, which is a digit by accident.
formatUIntWidth(v, width) ==
    IF v < 0 THEN (IF v % 256 < 10 THEN v % 256 ELSE Junk)
    ELSE v \div 10^(CHOOSE k \in 0..Nano :
                        /\ v \div 10^k < 10^width
                        /\ \A j \in 0..(k - 1) : v \div 10^j >= 10^width)

formatSecFrac(i, width) ==
    IF width = 0 \/ nanosecond(i) = 0 THEN [len |-> 0, frac |-> 0]
    ELSE [len |-> width, frac |-> formatUIntWidth(nanosecond(i), width)]

\* timezone(): asked of the first time a thread formats, and kept.
timezone(th, i) == IF t_off[th] # Unset THEN t_off[th] ELSE Offset(zone, to_time_t(i))

\* Mutant of formatTimeOff: the hours are minutes.
formatTimeOff_minutes(off) ==
    [sign |-> IF off = 0 THEN "Z" ELSE IF off < 0 THEN "-" ELSE "+",
     hour |-> formatUIntWidth(off \div 60, 2), minute |-> 0]

\* off / 3600 and off % 3600, which are negative with off.
formatTimeOff(off) ==
    LET hours == IF off < 0 THEN -((-off) \div 3600) ELSE off \div 3600
    IN  [sign   |-> IF off = 0 THEN "Z" ELSE IF off < 0 THEN "-" ELSE "+",
         hour   |-> formatUIntWidth(hours, 2),
         minute |-> formatUIntWidth(off - hours * 3600, 2)]

\* The fields of localtime_r at i, the fraction of i, and the offset off.
formatInternal(i, off, width) ==
    LET c     == to_time_t(i)
        local == At(c.day, c.sec + Offset(zone, c), 0)
    IN  [year   |-> formatUIntWidth(Year(local.day), 4),
         month  |-> formatUIntWidth(Month(local.day), 2),
         day    |-> formatUIntWidth(Day(local.day), 2),
         hour   |-> formatUIntWidth(local.sec \div 3600, 2),
         minute |-> formatUIntWidth((local.sec \div 60) % 60, 2),
         second |-> formatUIntWidth(local.sec % 60, 2),
         frac   |-> formatSecFrac(i, width),
         off    |-> formatTimeOff(off)]

----------------------------------------------------------------------------
(* Parsing *)

\* readDigits and the ranges of the fields.
DateIsValid(t) ==
    /\ t.year # Junk /\ t.month \in 1..12
    /\ t.day \in 1..31 /\ t.day <= daysInMonth(t.year, t.month)
TimeIsValid(t) == t.hour \in 0..23 /\ t.minute \in 0..59 /\ t.second \in 0..59
FracIsValid(t, width, exact) ==
    /\ t.frac.frac # Junk /\ t.frac.len <= Nano
    /\ exact /\ t.frac.len > 0 => t.frac.len = width
OffIsValid(t) ==
    t.off.sign = "Z" \/ (t.off.hour \in 0..23 /\ t.off.minute \in 0..59)

SecondOfDay(t) == t.hour * 3600 + t.minute * 60 + t.second
offsetSeconds(t) ==
    IF t.off.sign = "Z" THEN 0
    ELSE (t.off.hour * 3600 + t.off.minute * 60) * (IF t.off.sign = "-" THEN -1 ELSE 1)
nanoseconds(t) == t.frac.frac * 10^(Nano - t.frac.len)

\* Mutant of Parsed: the offset is added.
Parsed_added(t) ==
    At(daysFromCivil(t.year, t.month, t.day),
       SecondOfDay(t) + offsetSeconds(t), nanoseconds(t))

\* The seconds and nanoseconds of a valid text.
Parsed(t) ==
    At(daysFromCivil(t.year, t.month, t.day),
       SecondOfDay(t) - offsetSeconds(t), nanoseconds(t))

\* Whether 64 bits of nanoseconds hold it: 292 years about the epoch.
NotAfter(i, j) ==
    \/ i.day < j.day
    \/ i.day = j.day /\ (i.sec < j.sec \/ (i.sec = j.sec /\ i.ns <= j.ns))
First == [day |-> -106752, sec |-> 764, ns |-> 0]
Last  == [day |-> 106751, sec |-> 85636, ns |-> 854775807]
Fits(i) == NotAfter(First, i) /\ NotAfter(i, Last)

\* The least instant that a time_point holds: First is that in whole seconds.
Least == [day |-> -106752, sec |-> 763, ns |-> 145224192]
ASSUME InstantsAssumption ==
    \A i \in Instants :
        /\ i.day \in Int /\ i.sec \in Nat /\ i.sec < 86400 /\ i.ns \in 0..(Billion - 1)
        /\ NotAfter(Least, i) /\ NotAfter(i, Last)

IsValid(t, width, exact) ==
    DateIsValid(t) /\ TimeIsValid(t) /\ FracIsValid(t, width, exact) /\ OffIsValid(t)

----------------------------------------------------------------------------
(* The writers and the reader *)

\* A timespec of zeros.
Epoch == At(0, 0, 0)

Init ==
    /\ zone \in Zones
    /\ t_off = [th \in Thread |-> Unset]
    /\ msg = NoMessage
    /\ dest = Epoch /\ ret = OK

\* timeOper::save with Nano, and formatMilli, formatMacro and format; i is the sum
\* that Time makes of a timespec (timespecToTimePoint), or a time_point.
Save(th, i, width) ==
    /\ msg = NoMessage
    /\ t_off' = [t_off EXCEPT ![th] = timezone(th, i)]
    /\ msg' = [text |-> formatInternal(i, timezone(th, i), width),
               width |-> width, of |-> i, off |-> timezone(th, i)]
    /\ UNCHANGED <<zone, dest, ret>>

\* Another program wrote the text.
Receive(t) ==
    /\ msg = NoMessage
    /\ msg' = [text |-> t, width |-> Nano, of |-> NoInstant, off |-> 0]
    /\ UNCHANGED <<zone, t_off, dest, ret>>

\* timeOper::dump with parseNano, and parseMilli and parseMacro, to_timespec last:
\* what is thrown is ERR_FORMAT_ERROR.  A signed overflow may leave any count.
Read ==
    /\ msg # NoMessage
    /\ IF IsValid(msg.text, msg.width, msg.width \in {3, 6})
       THEN /\ ret' = OK
            /\ \E i \in IF Fits(Parsed(msg.text)) THEN {Parsed(msg.text)} ELSE Instants :
                   dest' = timepointToTimespec(i)
       ELSE ret' = FORMAT /\ UNCHANGED dest
    /\ UNCHANGED <<zone, t_off, msg>>

\* Buffer::Clear, and a new object to read into.
Clear ==
    /\ msg # NoMessage
    /\ msg' = NoMessage /\ dest' = Epoch /\ ret' = OK
    /\ UNCHANGED <<zone, t_off>>

Next ==
    \/ \E th \in Thread, i \in Instants, width \in {0, 3, 6, Nano} : Save(th, i, width)
    \/ \E t \in Texts : Receive(t)
    \/ Read
    \/ Clear

Spec == Init /\ [][Next]_vars

----------------------------------------------------------------------------
(* Properties *)

\* A timespec whose parts agree in sign, as rounding to zero leaves them.
IsTimespec(ts) ==
    /\ ts.day \in Int /\ ts.sec \in Nat /\ ts.sec < 86400
    /\ ts.ns \in Int /\ -Billion < ts.ns /\ ts.ns < Billion
    /\ ts.ns < 0 => ts.day < 0 \/ (ts.day = 0 /\ ts.sec = 0)
    /\ ts.ns > 0 => ts.day >= 0

\* The types of the state: the offsets are the zone's, and whatever was read left a
\* timespec whose parts do not contradict each other (timezone, timeOper::dump).
TypeOK ==
    /\ zone \in Zones /\ ret \in {OK, FORMAT}
    /\ \A th \in Thread : t_off[th] \in {Unset, zone.std, zone.dst}
    /\ IsTimespec(dest)
    /\ msg # NoMessage => msg.of \in Instants \cup {NoInstant}

\* A time is written as the code means it: the thread's offset is not the one of
\* another season, is not west of UTC and has no minutes, nor is the time a
\* fraction before 1970, or one whose short fraction lost its zeros.
Plain ==
    /\ msg.off = Offset(zone, to_time_t(msg.of))
    /\ msg.off >= 0 /\ msg.off % 3600 = 0
    /\ ~Early(msg.of)
    /\ msg.width \in 1..8 => msg.of.ns = 0 \/ msg.of.ns >= Billion \div 10

\* Such a time is read back as it was, up to the digits that were asked for,
\* across midnights, leap days and centuries (formatInternal, parseInternal), and
\* its timespec with it.
ReadsBack ==
    [][ Read /\ msg.of # NoInstant /\ Plain =>
            /\ ret' = OK
            /\ dest'.day = msg.of.day /\ dest'.sec = msg.of.sec
            /\ dest'.ns = msg.of.ns - (msg.of.ns % 10^(Nano - msg.width)) ]_vars

\* Whatever the zone and whichever offset the thread cached, a time that is
\* accepted is off by the season's shift, by the minutes of the offset that were
\* written as seconds (at most 18 minutes for the zones there are) and by the
\* second that rounding before 1970 may cost; it is never another day's or hour's.
NeverFarOff ==
    [][ Read /\ msg.of # NoInstant /\ msg.width = Nano /\ ret' = OK /\ Fits(Parsed(msg.text)) =>
            LET got   == timespecToTimePoint(dest')
                stale == Offset(zone, to_time_t(msg.of)) - msg.off
                by    == (got.day - msg.of.day) * 86400 + got.sec - msg.of.sec
                slack == 1080 + (IF Early(msg.of) THEN 1 ELSE 0)
            IN  /\ by - stale \in 0..slack
                /\ ~Early(msg.of) => got.ns = msg.of.ns ]_vars

\* The second of the calendar that a text names, and the fraction of it.
InCalendar(t) ==
    /\ t.year # Junk /\ t.month \in 1..12
    /\ t.day \in 1..(MonthStart(t.year, t.month + 1) - MonthStart(t.year, t.month))
NamesTime(t) ==
    InCalendar(t) /\ TimeIsValid(t) /\ OffIsValid(t) /\ FracIsValid(t, Nano, FALSE)
CalendarTime(t) ==
    At(MonthStart(t.year, t.month) + t.day - 1, SecondOfDay(t) - offsetSeconds(t),
       nanoseconds(t))

\* A text of another program that names a time within 292 years of 1970 is
\* accepted, and what is left in the object is a timespec of that time, before 1970
\* too; one that names none is refused and leaves the object as it was
\* (parseInternal, daysFromCivil, timepointToTimespec).  A time further away is
\* excepted: time_rfc3339.h:187 says that what is out of range throws, but it is
\* accepted, and the overflow may leave anything.
ReadIsCalendar ==
    [][ Read /\ msg.of = NoInstant =>
            /\ NamesTime(msg.text) /\ Fits(CalendarTime(msg.text)) =>
                  ret' = OK /\ timespecToTimePoint(dest') = CalendarTime(msg.text)
            /\ ~NamesTime(msg.text) => ret' = FORMAT /\ dest' = dest ]_vars

\* typeinfo_test.cc:363-383 saves the current time and expects the object that is
\* read to be equal.
TimesReadBack ==
    [][ Read /\ msg.of # NoInstant /\ msg.width = Nano =>
            ret' = OK /\ timespecToTimePoint(dest') = msg.of ]_vars
=============================================================================
