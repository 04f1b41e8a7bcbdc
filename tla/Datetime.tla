-------------------------------- MODULE Datetime --------------------------------
(***************************************************************************)
(* The conversions between seconds since the epoch and dates               *)
(* (src/datetime.c).  A time is a day since 1970-01-01 and a second of it, *)
(* so that it needs no 64-bit number; LastDay is the last day such a       *)
(* number of seconds reaches, and MaxYear and MinYear are the bounds on    *)
(* tm_year that the code derives from it.                                  *)
(***************************************************************************)
EXTENDS CString, FiniteSets

CONSTANTS LastDay, MaxYear, MinYear, INT_MAX

\* Division and remainder of C, towards zero.
Quot(a, b) == IF a >= 0 THEN a \div b ELSE -((-a) \div b)
Rem(a, b) == a - b * Quot(a, b)

DAYS_IN_MONTH == <<31, 28, 31, 30, 31, 30, 31, 31, 30, 31, 30, 31>>
DAYS_BEFORE_MONTH == <<0, 31, 59, 90, 120, 151, 181, 212, 243, 273, 304, 334>>
DAYS_PER_ERA == 146097
EPOCH_ADJUSTMENT_DAYS == 719468

ISLEAP(y) == y % 4 = 0 /\ (y % 100 # 0 \/ (y + 1900) % 400 = 0)
\* A mutant: the macro for years since 1900.
ISLEAP2_since1900(y) == ISLEAP(y)

ISLEAP2(y) == y % 4 = 0 /\ (y % 100 # 0 \/ y % 400 = 0)
DAYS_IN_YEAR(y) == IF ISLEAP(y) THEN 366 ELSE 365

khttp_validate_time(tm) ==
  /\ tm.sec \in 0..59
  /\ tm.min \in 0..59
  /\ tm.hour \in 0..23
  /\ tm.mon \in 0..11
  /\ tm.year \in MinYear..MaxYear
  /\ tm.mday \in 1..IF tm.mon = 1 /\ ISLEAP(tm.year) THEN 29 ELSE DAYS_IN_MONTH[tm.mon + 1]

\* The loops over years, which add up the days of those from a up to the one
\* before b.
\* A mutant has those from the one after a up to b.
YearLoop_OffByOne(a, b) ==
  IF b > a THEN 365 * (b - a) + Cardinality({year \in (a + 1)..b : ISLEAP(year)}) ELSE 0

YearLoop(a, b) ==
  IF b > a THEN 365 * (b - a) + Cardinality({year \in a..(b - 1) : ISLEAP(year)}) ELSE 0

\* The days from 1970 to the first of a year, eras of 400 years at a stride.
DaysToYear(year) ==
  IF year > 70
  THEN LET stop == IF year > 400 THEN 400 ELSE year
           era == Quot(year - stop, 400)
       IN YearLoop(70, stop) + era * DAYS_PER_ERA + YearLoop(stop + 400 * era, year)
  ELSE IF year < 70
  THEN LET stop == IF year < -400 THEN -400 ELSE year
           era == Quot(year - stop, 400)
       IN era * DAYS_PER_ERA - YearLoop(stop + 1, 70) - YearLoop(year, stop + 400 * era + 1)
  ELSE 0

\* A number of seconds that does not fit: the build's integers wrap around.
Wrapped(day) == ((day + LastDay + 1) % (2 * LastDay + 2)) - LastDay - 1

Refused == [ok |-> FALSE, day |-> 0, sec |-> 0]

khttp_mktime(tm) ==
  LET yday == tm.mday - 1 + DAYS_BEFORE_MONTH[tm.mon + 1]
              + (IF tm.mon > 1 /\ ISLEAP(tm.year) THEN 1 ELSE 0)
  IN IF ~khttp_validate_time(tm) THEN Refused
     ELSE [ok |-> TRUE, day |-> Wrapped(yday + DaysToYear(tm.year)),
           sec |-> tm.sec + 60 * tm.min + 3600 * tm.hour]

\* The algorithm counts from the first of March of the year 0, in eras.  These
\* are the last of its steps first: each names what the one before computed.
InMonth(rem, days, year, erayear, yearday, march, mon) ==
  [hour |-> rem \div 3600, min |-> (rem % 3600) \div 60, sec |-> rem % 60,
   wday |-> IF Rem(3 + days, 7) < 0 THEN Rem(3 + days, 7) + 7 ELSE Rem(3 + days, 7),
   yday |-> IF yearday >= 306 THEN yearday - 306
            ELSE yearday + 59 + (IF ISLEAP2(erayear) THEN 1 ELSE 0),
   year |-> year + (IF mon <= 1 THEN 1 ELSE 0) - 1900,
   mon |-> mon,
   mday |-> yearday - (153 * march + 2) \div 5 + 1]

InYear(rem, days, year, erayear, yearday) ==
  LET march == (5 * yearday + 2) \div 153
  IN InMonth(rem, days, year, erayear, yearday, march, IF march < 10 THEN march + 2 ELSE march - 10)

InEra(rem, days, era, eraday, erayear) ==
  InYear(rem, days, erayear + era * 400, erayear,
         eraday - (365 * erayear + erayear \div 4 - erayear \div 100))

ErasDay(rem, days, era, eraday) ==
  InEra(rem, days, era, eraday,
        (eraday - eraday \div 1460 + eraday \div 36524 - eraday \div 146096) \div 365)

CivilTime(rem, days) ==
  LET era == Quot(IF days >= 0 THEN days ELSE days - (DAYS_PER_ERA - 1), DAYS_PER_ERA)
  IN ErasDay(rem, days, era, days - era * DAYS_PER_ERA)

khttp_gmtime_r(time) ==
  LET early == time.day < 0 /\ time.sec > 0   \* what C rounds up to the next day
      rest == IF early THEN time.sec - 86400 ELSE time.sec
      days == (IF early THEN time.day + 1 ELSE time.day) + EPOCH_ADJUSTMENT_DAYS
  IN IF rest < 0 THEN CivilTime(rest + 86400, days - 1) ELSE CivilTime(rest, days)

khttp_epoch2datetime(time) ==
  LET tm == khttp_gmtime_r(time) IN [tm EXCEPT !.mon = @ + 1, !.year = @ + 1900]

\* Like struct tm, in ints: years that do not fit are refused.
khttp_epoch2tms(time) ==
  LET tm == khttp_gmtime_r(time) IN [ok |-> tm.year \in (-INT_MAX)..INT_MAX, tm |-> tm]

khttp_datetime2epoch(day, mon, year, hour, min, sec) ==
  khttp_mktime([sec |-> sec, min |-> min, hour |-> hour,
                mday |-> day, mon |-> mon - 1, year |-> year - 1900])

khttp_date2epoch(day, mon, year) == khttp_datetime2epoch(day, mon, year, 0, 0, 0)

\* The interfaces of before, which know no times before the epoch and answer
\* -1, the second before it, for a date they refuse.
FromEpoch(time) == IF time.day < 0 THEN [day |-> 0, sec |-> 0] ELSE time
kutil_epoch2tmvals(time) == khttp_epoch2tms(FromEpoch(time)).tm
kutil_datetime2epoch(day, mon, year, hour, min, sec) ==
  LET r == khttp_datetime2epoch(day, mon, year, hour, min, sec)
  IN IF r.ok THEN [day |-> r.day, sec |-> r.sec] ELSE [day |-> -1, sec |-> 86399]

-----------------------------------------------------------------------------
(* Dates as text.                                                          *)

\* "%.nd": at least n digits, after the sign.
Padded(value, n) ==
  LET digits == Digits[IF value < 0 THEN -value ELSE value]
      zeros == [i \in 1..IF n > Len(digits) THEN n - Len(digits) ELSE 0 |-> 48]
  IN (IF value < 0 THEN <<Minus>> ELSE <<>>) \o zeros \o digits

DayNames == << <<83,117,110>>, <<77,111,110>>, <<84,117,101>>, <<87,101,100>>,
               <<84,104,117>>, <<70,114,105>>, <<83,97,116>> >>
MonthNames == << <<74,97,110>>, <<70,101,98>>, <<77,97,114>>, <<65,112,114>>,
                 <<77,97,121>>, <<74,117,110>>, <<74,117,108>>, <<65,117,103>>,
                 <<83,101,112>>, <<79,99,116>>, <<78,111,118>>, <<68,101,99>> >>

Clock(tm) == Padded(tm.hour, 2) \o <<Colon>> \o Padded(tm.min, 2) \o <<Colon>> \o Padded(tm.sec, 2)

\* strlcpy into the application's buffer of size sz, which must not be 0.
Copied(text, sz) == SubSeq(text, 1, IF Len(text) < sz THEN Len(text) ELSE sz - 1)

khttp_epoch2str(time, sz) ==
  LET tm == khttp_gmtime_r(time)
  IN Copied(DayNames[tm.wday + 1] \o <<Comma, SP>> \o Padded(tm.mday, 2) \o <<SP>>
            \o MonthNames[tm.mon + 1] \o <<SP>> \o Padded(tm.year + 1900, 4) \o <<SP>>
            \o Clock(tm) \o <<SP, 71, 77, 84>>, sz)

khttp_epoch2ustr(time, sz) ==
  LET tm == khttp_gmtime_r(time)
  IN Copied(Padded(tm.year + 1900, 4) \o <<Minus>> \o Padded(tm.mon + 1, 2) \o <<Minus>>
            \o Padded(tm.mday, 2) \o <<84>> \o Clock(tm) \o <<90>>, sz)

kutil_epoch2str(time, sz) == khttp_epoch2str(FromEpoch(time), sz)
kutil_epoch2utcstr(time, sz) == khttp_epoch2ustr(FromEpoch(time), sz)

=============================================================================
