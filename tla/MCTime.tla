------------------------------- MODULE MCTime -------------------------------
(***************************************************************************)
(* Zones, instants and texts for Time: on both sides of UTC, with half     *)
(* hours and summer time; leap days, midnights, the epoch and the ends of  *)
(* the 64-bit range.                                                       *)
(***************************************************************************)
EXTENDS Time

CONSTANTS t1, t2

DayOf(y, mon, day) == MonthStart(y, mon) + day - 1

\* Summer time from 28 March to 31 October 2021.
ZoneOf(std, dst) == [std |-> std, dst |-> dst,
                     from |-> DayOf(2021, 3, 28), until |-> DayOf(2021, 10, 31)]
MCZones == { ZoneOf(0, 0), ZoneOf(3600, 7200), ZoneOf(28800, 28800),
             ZoneOf(19800, 19800), ZoneOf(20700, 20700),
             ZoneOf(-18000, -14400), ZoneOf(-12600, -9000) }

MCInstants == {
    At(DayOf(2021, 1, 15), 43200, 0),
    At(DayOf(2021, 7, 15), 86399, 123456789),
    At(DayOf(2021, 10, 30), 84600, 1000000),
    At(DayOf(2020, 2, 29), 66600, 1),
    At(DayOf(1999, 12, 31), 86399, 999999999),
    At(DayOf(2100, 2, 28), 84000, 100000000),
    At(DayOf(1969, 7, 20), 73060, 0),
    At(-1, 86399, 500000000), At(-1, 86399, 999999999), At(-1, 80000, 261),
    At(0, 0, 1), Last }

\* Other programs' texts: the ends of every field, in several years.
Text(y, mon, day, sec, frac, off) ==
    [year |-> y, month |-> mon, day |-> day,
     hour |-> sec[1], minute |-> sec[2], second |-> sec[3],
     frac |-> [len |-> frac[1], frac |-> frac[2]],
     off  |-> [sign |-> off[1], hour |-> off[2], minute |-> off[3]]]

Noon == <<12, 0, 0>>
UTC  == <<"Z", 0, 0>>
MCTexts ==
    { Text(y, mon, day, Noon, <<0, 0>>, UTC) :
        y \in {1700, 1900, 2000, 2023, 2024, 2100}, mon \in 0..13, day \in {0, 1, 28, 29, 30, 31, 32} }
    \cup { Text(2024, 2, 29, sec, <<0, 0>>, off) :
        sec \in {<<0, 0, 0>>, <<23, 59, 59>>, <<24, 0, 0>>, <<23, 60, 0>>, <<23, 59, 60>>},
        off \in {UTC, <<"+", 0, 0>>, <<"+", 23, 59>>, <<"-", 23, 59>>, <<"-", 5, 30>>,
                 <<"+", 24, 0>>, <<"-", 0, 60>>, <<"+", Junk, 0>>} }
    \cup { Text(2024, 12, 31, Noon, frac, UTC) :
        frac \in {<<1, 9>>, <<3, 7>>, <<9, 999999999>>, <<10, 0>>, <<2, Junk>>} }
    \cup { Text(day[1], day[2], day[3], sec, frac, off) :
        day \in {<<1969, 12, 31>>, <<1970, 1, 1>>}, sec \in {<<0, 0, 0>>, <<23, 59, 59>>},
        frac \in {<<0, 0>>, <<1, 5>>, <<9, 1>>}, off \in {UTC, <<"+", 1, 0>>, <<"-", 1, 0>>} }
    \cup { Text(y, 1, 1, Noon, <<0, 0>>, UTC) : y \in {Junk, 0, 1677, 1678, 2262, 2263, 9999} }
=============================================================================
