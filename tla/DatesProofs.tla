------------------------------- MODULE DatesProofs -------------------------------
(***************************************************************************)
(* The conversion of a time to a date (khttp_epoch2datetime, Datetime)     *)
(* gives the dates of the civil calendar (Calendar), for every day there   *)
(* is.  The conversion finds the era of 400 years, the year of the era and *)
(* the day of the year, years beginning with March; the proof shows that   *)
(* what it finds is the only such place of the day (Located, OnePlace),    *)
(* what the place of the next day is, and that the date of a place then    *)
(* goes on as the calendar does, month by month.                           *)
(***************************************************************************)
EXTENDS Dates, TLAPS, FiniteSetTheorems, WellFoundedInduction

-----------------------------------------------------------------------------
(* Years that begin with March.                                            *)

IsYear(y) == y \in Int /\ 0 <= y /\ y < 400

\* The days of an era before its year y, and of that year.
Before(y) == 365 * y + y \div 4 - y \div 100
YearLen(y) == IF y = 399 THEN 366 ELSE Before(y + 1) - Before(y)

\* The year of an era that the conversion gives for a day of it.
YearOf(e) == (e - e \div 1460 + e \div 36524 - e \div 146096) \div 365

\* A day by its century, its four years in that and its day of those.
Parts(e, c, p, s) ==
  /\ c \in 0..3 /\ p \in 0..24 /\ s \in Nat /\ s <= 1460
  /\ 1461 * p + s < 36524 /\ e = 36524 * c + 1461 * p + s

LEMMA YearOfParts ==
  ASSUME NEW e \in Int, NEW c, NEW p, NEW s, Parts(e, c, p, s)
  PROVE  /\ IsYear(YearOf(e)) /\ Before(YearOf(e)) <= e
         /\ YearOf(e) < 399 => e < Before(YearOf(e) + 1)
<1> DEFINE q == IF s < 1095 THEN s \div 365 ELSE 3
           y == 100 * c + 4 * p + q
<1> USE DEF Parts
<1>1. e \div 36524 = c /\ e \div 146096 = 0
  OBVIOUS
<1>2. e \div 1460 = 25 * c + p + (IF 24 * c + p + s < 1460 THEN 0 ELSE 1)
  OBVIOUS
<1>3. q \in 0..3 /\ 365 * q <= s /\ (s < 365 * q + 365 \/ q = 3)
  OBVIOUS
<1> HIDE DEF q
<1>4. YearOf(e) = y
  BY <1>1, <1>2, <1>3 DEF YearOf
<1>5. IsYear(y)
  BY <1>3 DEF IsYear
<1>6. Before(y) = 36524 * c + 1461 * p + 365 * q
  BY <1>3 DEF Before
<1>7. Before(y) <= e
  BY <1>3, <1>6
<1>8. y < 399 => Before(y + 1) >= 36524 * c + 1461 * p + (IF q = 3 /\ 4 * p + q # 99 THEN 1461 ELSE 365 * q + 365)
  BY <1>3 DEF Before
<1>9. y < 399 => e < Before(y + 1)
  BY <1>3, <1>8 DEF Before
<1> HIDE DEF y
<1> QED
  BY <1>4, <1>5, <1>7, <1>9

\* The year the conversion finds is the one the day is in.
LEMMA YearOfDay ==
  ASSUME NEW e \in Int, 0 <= e, e <= 146096
  PROVE  /\ IsYear(YearOf(e))
         /\ Before(YearOf(e)) <= e /\ e < Before(YearOf(e)) + YearLen(YearOf(e))
<1>1. CASE e = 146096
  <2>1. YearOf(e) = 399
    BY <1>1 DEF YearOf
  <2> QED
    BY <1>1, <2>1 DEF Before, YearLen, IsYear
<1>2. CASE e < 146096
  <2>1. PICK c, p, s : Parts(e, c, p, s)
    <3> DEFINE century == e \div 36524
               rest == e - 36524 * century
               four == rest \div 1461
    <3>1. century \in 0..3 /\ rest \in Nat /\ rest < 36524 /\ e = 36524 * century + rest
      BY <1>2
    <3> HIDE DEF rest
    <3>2. four \in 0..24 /\ rest - 1461 * four \in Nat /\ rest - 1461 * four <= 1460
      BY <3>1
    <3> HIDE DEF century, four
    <3>3. Parts(e, century, four, rest - 1461 * four)
      BY <3>1, <3>2 DEF Parts
    <3> QED
      BY <3>3
  <2>2. /\ IsYear(YearOf(e)) /\ Before(YearOf(e)) <= e
        /\ YearOf(e) < 399 => e < Before(YearOf(e) + 1)
    BY <2>1, YearOfParts
  <2>3. CASE YearOf(e) = 399
    <3>1. e < Before(399) + 366
      BY <1>2 DEF Before
    <3> QED
      BY <2>2, <2>3, <3>1 DEF YearLen, IsYear
  <2>4. CASE YearOf(e) # 399
    <3>1. Before(YearOf(e)) \in Int /\ Before(YearOf(e) + 1) \in Int
      BY <2>2 DEF Before, IsYear
    <3> QED
      BY <2>2, <2>4, <3>1 DEF YearLen, IsYear
  <2> QED
    BY <2>2, <2>3, <2>4
<1> QED
  BY <1>1, <1>2

LEMMA BeforeGrows ==
  ASSUME NEW y, NEW z, IsYear(y), IsYear(z), y < z
  PROVE  Before(y) \in Int /\ Before(y) + YearLen(y) <= Before(z)
BY DEF Before, YearLen, IsYear

\* A day is in one year of an era only.
LEMMA OneYear ==
  ASSUME NEW e \in Int, NEW y, NEW z, IsYear(y), IsYear(z),
         Before(y) <= e, e < Before(y) + YearLen(y), Before(z) <= e, e < Before(z) + YearLen(z)
  PROVE  y = z
<1>0. Before(y) \in Int /\ Before(z) \in Int /\ YearLen(y) \in Int /\ YearLen(z) \in Int
  BY DEF Before, YearLen, IsYear
<1>1. ~(y < z)
  BY <1>0, BeforeGrows DEF IsYear
<1>2. ~(z < y)
  BY <1>0, BeforeGrows DEF IsYear
<1> QED
  BY <1>1, <1>2 DEF IsYear

\* The year that begins with March has the leap day of the next civil year.
LEMMA YearLenIs ==
  ASSUME NEW y, IsYear(y), NEW era \in Int
  PROVE  /\ YearLen(y) = IF Civil!Leap(y + era * 400 + 1) THEN 366 ELSE 365
         /\ y < 399 => YearLen(y) = IF ISLEAP2(y + 1) THEN 366 ELSE 365
         /\ ISLEAP2(0)
<1>1. YearLen(y) = IF ((y + 1) % 4 = 0 /\ (y + 1) % 100 # 0) \/ (y + 1) % 400 = 0 THEN 366 ELSE 365
  BY DEF YearLen, Before, IsYear
<1>2. /\ (y + era * 400 + 1) % 4 = (y + 1) % 4
      /\ (y + era * 400 + 1) % 100 = (y + 1) % 100
      /\ (y + era * 400 + 1) % 400 = (y + 1) % 400
  BY DEF IsYear
<1>3. Civil!Leap(y + era * 400 + 1) <=> ((y + 1) % 4 = 0 /\ (y + 1) % 100 # 0) \/ (y + 1) % 400 = 0
  BY <1>2 DEF Civil!Leap
<1>4. y < 399 => (ISLEAP2(y + 1) <=> ((y + 1) % 4 = 0 /\ (y + 1) % 100 # 0) \/ (y + 1) % 400 = 0)
  BY DEF ISLEAP2, IsYear
<1>5. ISLEAP2(0)
  BY DEF ISLEAP2
<1> QED
  BY <1>1, <1>3, <1>4, <1>5

-----------------------------------------------------------------------------
(* The place of a day: its era, its year of that and its day of the year.  *)

Place(days, era, y, yd) ==
  /\ era \in Int /\ IsYear(y) /\ yd \in Int /\ 0 <= yd /\ yd < YearLen(y)
  /\ days = 146097 * era + Before(y) + yd

\* An era has the days of its years.
LEMMA InItsEra ==
  ASSUME NEW days, NEW era, NEW y, NEW yd, Place(days, era, y, yd)
  PROVE  /\ days \in Int /\ era \in Int /\ IsYear(y) /\ yd \in Int
         /\ Before(y) \in Int /\ YearLen(y) \in Int /\ YearLen(y) <= 366
         /\ 146097 * era <= days /\ days < 146097 * era + 146097
         /\ 0 <= yd /\ yd < YearLen(y)
BY SMT DEF Place, IsYear, Before, YearLen

\* A day has one place.
LEMMA OnePlace ==
  ASSUME NEW days, NEW era, NEW y, NEW yd, NEW erab, NEW z, NEW zd,
         Place(days, era, y, yd), Place(days, erab, z, zd)
  PROVE  era = erab /\ y = z /\ yd = zd
<1>1. /\ era \in Int /\ erab \in Int /\ days \in Int
      /\ 146097 * era <= days /\ days < 146097 * era + 146097
      /\ 146097 * erab <= days /\ days < 146097 * erab + 146097
  BY InItsEra, SMT
<1>2. era = erab
  BY <1>1, SMT
<1>3. /\ IsYear(y) /\ IsYear(z) /\ yd \in Int /\ zd \in Int
      /\ Before(y) \in Int /\ Before(z) \in Int /\ YearLen(y) \in Int /\ YearLen(z) \in Int
      /\ 0 <= yd /\ yd < YearLen(y) /\ 0 <= zd /\ zd < YearLen(z)
  BY InItsEra, SMT
<1>4. Before(y) + yd = Before(z) + zd
  <2>1. 146097 * era + Before(y) + yd = 146097 * era + Before(z) + zd
    BY <1>2, SMT DEF Place
  <2> QED
    BY <2>1, <1>1, <1>3, SMT
<1>5. y = z
  <2> DEFINE e == Before(y) + yd
  <2>1. e \in Int /\ Before(y) <= e /\ e < Before(y) + YearLen(y)
    BY <1>3
  <2>2. Before(z) <= e /\ e < Before(z) + YearLen(z)
    BY <1>3, <1>4
  <2> QED
    BY <1>3, <2>1, <2>2, OneYear
<1> QED
  BY <1>2, <1>3, <1>4, <1>5

\* The date of a place, and the one that the conversion gives.
Month(yd) == (5 * yd + 2) \div 153
MonthStart(m) == (153 * m + 2) \div 5

DateAt(days, era, y, yd) ==
  [day |-> yd - MonthStart(Month(yd)) + 1,
   month |-> IF Month(yd) < 10 THEN Month(yd) + 3 ELSE Month(yd) - 9,
   year |-> y + era * 400 + (IF Month(yd) < 10 THEN 0 ELSE 1),
   wday |-> (days + 3) % 7,
   yday |-> IF yd >= 306 THEN yd - 306 ELSE yd + 59 + (IF ISLEAP2(y) THEN 1 ELSE 0)]

IsTime(t) == t.day \in Int /\ t.sec \in Nat /\ t.sec < 86400

\* The division by eras rounds towards zero, and is corrected for that.
LEMMA EraIs ==
  ASSUME NEW days \in Int
  PROVE  /\ Quot(IF days >= 0 THEN days ELSE days - (DAYS_PER_ERA - 1), DAYS_PER_ERA) = days \div 146097
         /\ days \div 146097 \in Int
         /\ days - (days \div 146097) * DAYS_PER_ERA \in Int
         /\ 0 <= days - (days \div 146097) * DAYS_PER_ERA
         /\ days - (days \div 146097) * DAYS_PER_ERA <= 146096
BY SMT DEF Quot, DAYS_PER_ERA

LEMMA WeekdayIs ==
  ASSUME NEW days \in Int
  PROVE  (IF Rem(3 + days, 7) < 0 THEN Rem(3 + days, 7) + 7 ELSE Rem(3 + days, 7)) = (days + 3) % 7
BY DEF Rem, Quot

LEMMA MonthRange ==
  ASSUME NEW yd \in Int, 0 <= yd, yd < 366
  PROVE  /\ Month(yd) \in 0..11 /\ MonthStart(Month(yd)) \in Int
         /\ MonthStart(Month(yd)) <= yd /\ yd < MonthStart(Month(yd) + 1)
BY DEF Month, MonthStart

\* Every day has a place, and what CivilTime gives for it is its date.
Located(rem, days, era, y, yd) ==
  LET tms == CivilTime(rem, days)
  IN /\ Place(days, era, y, yd)
     /\ DateAt(days, era, y, yd)
          = [day |-> tms.mday, month |-> tms.mon + 1, year |-> tms.year + 1900,
             wday |-> tms.wday, yday |-> tms.yday]
     /\ tms.mon \in Int /\ tms.year \in Int /\ tms.sec = rem % 60
     /\ tms.min = (rem % 3600) \div 60 /\ tms.hour = rem \div 3600

LEMMA CivilTimeLocates ==
  ASSUME NEW rem, NEW days \in Int
  PROVE  \E era, y, yd : Located(rem, days, era, y, yd)
<1> DEFINE era == days \div 146097
           e == days - era * DAYS_PER_ERA
           y == YearOf(e)
           yd == e - Before(y)
           m == Month(yd)
<1>1. /\ Quot(IF days >= 0 THEN days ELSE days - (DAYS_PER_ERA - 1), DAYS_PER_ERA) = era
      /\ era \in Int /\ e \in Int /\ 0 <= e /\ e <= 146096
  BY EraIs
<1>2. CivilTime(rem, days) =
        InMonth(rem, days, y + era * 400, y, yd, m, IF m < 10 THEN m + 2 ELSE m - 10)
  BY <1>1, SMT DEF CivilTime, ErasDay, InEra, InYear, YearOf, Before, Month
<1> HIDE DEF era, m
<1>3. days = 146097 * era + e
  BY <1>1, SMT DEF DAYS_PER_ERA
<1> HIDE DEF e
<1>4. IsYear(y) /\ Before(y) <= e /\ e < Before(y) + YearLen(y)
  BY <1>1, YearOfDay, SMT
<1> HIDE DEF y
<1>5. Before(y) \in Int /\ YearLen(y) \in Int /\ YearLen(y) <= 366
  BY <1>4 DEF Before, YearLen, IsYear
<1>6. Place(days, era, y, yd)
  BY <1>1, <1>3, <1>4, <1>5, SMT DEF Place
<1>7. yd \in Int /\ 0 <= yd /\ yd < 366
  BY <1>1, <1>4, <1>5
<1> HIDE DEF yd
<1>8. m \in 0..11
  BY <1>7, MonthRange DEF m
<1>9. DateAt(days, era, y, yd) =
        [day |-> yd - (153 * m + 2) \div 5 + 1,
         month |-> (IF m < 10 THEN m + 2 ELSE m - 10) + 1,
         year |-> y + era * 400 + (IF (IF m < 10 THEN m + 2 ELSE m - 10) <= 1 THEN 1 ELSE 0) - 1900 + 1900,
         wday |-> IF Rem(3 + days, 7) < 0 THEN Rem(3 + days, 7) + 7 ELSE Rem(3 + days, 7),
         yday |-> IF yd >= 306 THEN yd - 306 ELSE yd + 59 + (IF ISLEAP2(y) THEN 1 ELSE 0)]
  <2>1. (IF m < 10 THEN m + 3 ELSE m - 9) = (IF m < 10 THEN m + 2 ELSE m - 10) + 1
    BY <1>8
  <2>2. y + era * 400 + (IF m < 10 THEN 0 ELSE 1) =
          y + era * 400 + (IF (IF m < 10 THEN m + 2 ELSE m - 10) <= 1 THEN 1 ELSE 0) - 1900 + 1900
    BY <1>1, <1>4, <1>8, SMT DEF IsYear
  <2> QED
    BY <2>1, <2>2, WeekdayIs DEF DateAt, MonthStart, m
<1> DEFINE mon == IF m < 10 THEN m + 2 ELSE m - 10
           tms == InMonth(rem, days, y + era * 400, y, yd, m, mon)
<1>10. mon \in Int /\ y + era * 400 + (IF mon <= 1 THEN 1 ELSE 0) - 1900 \in Int
  BY <1>1, <1>4, <1>8, SMT DEF IsYear
<1>11. /\ tms.mon = mon /\ tms.year = y + era * 400 + (IF mon <= 1 THEN 1 ELSE 0) - 1900
       /\ tms.sec = rem % 60 /\ tms.min = (rem % 3600) \div 60 /\ tms.hour = rem \div 3600
  BY DEF InMonth
<1>12. DateAt(days, era, y, yd) = [day |-> tms.mday, month |-> tms.mon + 1, year |-> tms.year + 1900,
                                   wday |-> tms.wday, yday |-> tms.yday]
  BY <1>9 DEF InMonth
<1> HIDE DEF mon, tms
<1>13. CivilTime(rem, days) = tms
  BY <1>2 DEF tms, mon
<1> QED
  BY <1>6, <1>10, <1>11, <1>12, <1>13 DEF Located

-----------------------------------------------------------------------------
(* The conversion of a time, and what the date of the next day is.         *)

\* A time before the epoch, too, has the date of its day: rounding towards zero
\* is undone by the second of the day that is then negative.
LEMMA GmtimeIs ==
  ASSUME NEW t, IsTime(t)
  PROVE  khttp_gmtime_r(t) = CivilTime(t.sec, t.day + 719468)
<1> USE DEF IsTime
<1>1. CASE t.day < 0 /\ t.sec > 0
  <2>1. t.sec - 86400 < 0 /\ t.sec - 86400 + 86400 = t.sec
    BY SMT
  <2>2. t.day + 1 + 719468 - 1 = t.day + 719468
    BY SMT
  <2> QED
    BY <1>1, <2>1, <2>2, SMT DEF khttp_gmtime_r, EPOCH_ADJUSTMENT_DAYS
<1>2. CASE ~(t.day < 0 /\ t.sec > 0)
  BY <1>2, SMT DEF khttp_gmtime_r, EPOCH_ADJUSTMENT_DAYS
<1> QED
  BY <1>1, <1>2

DateOfTime(t) == DateOf(khttp_epoch2datetime(t))

\* The record of struct tm counts months from 0 and years from 1900.
LEMMA EpochDate ==
  ASSUME NEW t, IsTime(t)
  PROVE  LET tms == CivilTime(t.sec, t.day + 719468)
         IN DateOfTime(t) = [day |-> tms.mday, month |-> tms.mon + 1, year |-> tms.year + 1900,
                             wday |-> tms.wday, yday |-> tms.yday]
<1> DEFINE tms == CivilTime(t.sec, t.day + 719468)
<1>1. \E rem, days, year, erayear, yearday, march, mon :
        tms = InMonth(rem, days, year, erayear, yearday, march, mon)
  BY DEF CivilTime, ErasDay, InEra, InYear
<1>2. /\ [tms EXCEPT !.mon = @ + 1, !.year = @ + 1900].mday = tms.mday
      /\ [tms EXCEPT !.mon = @ + 1, !.year = @ + 1900].mon = tms.mon + 1
      /\ [tms EXCEPT !.mon = @ + 1, !.year = @ + 1900].year = tms.year + 1900
      /\ [tms EXCEPT !.mon = @ + 1, !.year = @ + 1900].wday = tms.wday
      /\ [tms EXCEPT !.mon = @ + 1, !.year = @ + 1900].yday = tms.yday
  <2> HIDE DEF tms
  <2> QED
    BY <1>1 DEF InMonth
<1>3. khttp_epoch2datetime(t) = [tms EXCEPT !.mon = @ + 1, !.year = @ + 1900]
  <2>1. khttp_epoch2datetime(t)
          = [khttp_gmtime_r(t) EXCEPT !.mon = @ + 1, !.year = @ + 1900]
    BY DEF khttp_epoch2datetime
  <2>2. khttp_gmtime_r(t) = tms
    BY GmtimeIs
  <2> HIDE DEF tms
  <2> QED
    BY <2>1, <2>2
<1> HIDE DEF tms
<1>4. DateOfTime(t) = [day |-> tms.mday, month |-> tms.mon + 1, year |-> tms.year + 1900,
                       wday |-> tms.wday, yday |-> tms.yday]
  BY <1>2, <1>3 DEF DateOfTime, DateOf
<1> QED
  BY <1>4 DEF tms

\* The date of a time is that of the place of its day.
LEMMA TimeLocated ==
  ASSUME NEW t, IsTime(t), NEW era, NEW y, NEW yd, Place(t.day + 719468, era, y, yd)
  PROVE  DateOfTime(t) = DateAt(t.day + 719468, era, y, yd)
<1>1. t.day + 719468 \in Int
  BY SMT DEF IsTime
<1>2. PICK erab, z, zd : Located(t.sec, t.day + 719468, erab, z, zd)
  BY <1>1, CivilTimeLocates
<1>3. /\ Place(t.day + 719468, erab, z, zd)
      /\ DateOfTime(t) = DateAt(t.day + 719468, erab, z, zd)
  BY <1>2, EpochDate DEF Located
<1>4. erab = era /\ z = y /\ zd = yd
  BY <1>3, OnePlace
<1> QED
  BY <1>3, <1>4

LEMMA HasPlace ==
  ASSUME NEW t, IsTime(t)
  PROVE  \E era, y, yd : Place(t.day + 719468, era, y, yd)
<1>1. t.day + 719468 \in Int
  BY SMT DEF IsTime
<1>2. PICK era, y, yd : Located(t.sec, t.day + 719468, era, y, yd)
  BY <1>1, CivilTimeLocates
<1>3. Place(t.day + 719468, era, y, yd)
  BY <1>2 DEF Located
<1> QED
  BY <1>3

-----------------------------------------------------------------------------
(* The calendar's steps, from place to place.                              *)

CivilMonth(m) == IF m < 10 THEN m + 3 ELSE m - 9

\* The months from March to January have their lengths in every year.
LEMMA MonthLength ==
  ASSUME NEW m \in 0..10, NEW year
  PROVE  /\ MonthStart(m) \in Int /\ MonthStart(m + 1) \in Int
         /\ Civil!LastOf(CivilMonth(m), year) = MonthStart(m + 1) - MonthStart(m)
BY DEF MonthStart, CivilMonth, Civil!LastOf

\* February takes what is left of the year.
LEMMA FebruaryLength ==
  ASSUME NEW y, IsYear(y), NEW era \in Int
  PROVE  /\ MonthStart(11) = 337
         /\ Civil!LastOf(2, y + era * 400 + 1) = YearLen(y) - 337
<1>1. YearLen(y) = IF Civil!Leap(y + era * 400 + 1) THEN 366 ELSE 365
  BY YearLenIs
<1>2. MonthStart(11) = 337
  BY DEF MonthStart
<1> QED
  BY <1>1, <1>2 DEF Civil!LastOf

\* Where a day is in its month.
InMonthOf(era, y, yd, m, last) ==
  /\ m \in 0..11 /\ m = Month(yd)
  /\ MonthStart(m) \in Int /\ MonthStart(m + 1) \in Int /\ last \in Int
  /\ MonthStart(m) <= yd /\ yd < MonthStart(m + 1)
  /\ last = Civil!LastOf(CivilMonth(m), y + era * 400 + (IF m < 10 THEN 0 ELSE 1))
  /\ m < 11 => last = MonthStart(m + 1) - MonthStart(m)
  /\ m = 11 => MonthStart(m) = 337 /\ last = YearLen(y) - 337
  /\ yd - MonthStart(m) + 1 <= last

LEMMA DayInMonth ==
  ASSUME NEW days, NEW era, NEW y, NEW yd, Place(days, era, y, yd)
  PROVE  \E m, last : InMonthOf(era, y, yd, m, last)
<1>1. /\ era \in Int /\ IsYear(y) /\ yd \in Int /\ YearLen(y) \in Int /\ YearLen(y) <= 366
      /\ 0 <= yd /\ yd < YearLen(y)
  BY InItsEra, SMT
<1> DEFINE m == Month(yd)
           last == Civil!LastOf(CivilMonth(m), y + era * 400 + (IF m < 10 THEN 0 ELSE 1))
<1>2. /\ m \in 0..11 /\ MonthStart(m) \in Int
      /\ MonthStart(m) <= yd /\ yd < MonthStart(m + 1)
  BY <1>1, MonthRange
<1>3. m = Month(yd)
  OBVIOUS
<1> HIDE DEF m
<1>4. MonthStart(m + 1) \in Int
  BY <1>2 DEF MonthStart
<1>5. CASE m = 11
  <2>1. CivilMonth(m) = 2 /\ y + era * 400 + (IF m < 10 THEN 0 ELSE 1) = y + era * 400 + 1
    BY <1>5 DEF CivilMonth
  <2>2. MonthStart(11) = 337 /\ last = YearLen(y) - 337
    BY <1>1, <2>1, FebruaryLength
  <2> HIDE DEF last
  <2>3. last \in Int /\ yd - MonthStart(m) + 1 <= last
    BY <1>1, <1>5, <2>2
  <2>4. last = Civil!LastOf(CivilMonth(m), y + era * 400 + (IF m < 10 THEN 0 ELSE 1))
    BY DEF last
  <2>5. InMonthOf(era, y, yd, m, last)
    BY <1>2, <1>3, <1>4, <1>5, <2>2, <2>3, <2>4 DEF InMonthOf
  <2> QED
    BY <2>5
<1>6. CASE m < 11
  <2>1. m \in 0..10
    BY <1>2, <1>6
  <2>2. last = MonthStart(m + 1) - MonthStart(m)
    BY <2>1, MonthLength
  <2>4. last = Civil!LastOf(CivilMonth(m), y + era * 400 + (IF m < 10 THEN 0 ELSE 1))
    OBVIOUS
  <2> HIDE DEF last
  <2>3. last \in Int /\ yd - MonthStart(m) + 1 <= last
    BY <1>1, <1>2, <1>4, <2>2
  <2>5. InMonthOf(era, y, yd, m, last)
    BY <1>2, <1>3, <1>4, <1>6, <2>2, <2>3, <2>4 DEF InMonthOf
  <2> QED
    BY <2>5
<1> QED
  BY <1>2, <1>5, <1>6

\* The dates that may come after a date (Calendar's steps).
Goes(d, e) ==
  \/ /\ d.day < Civil!LastOf(d.month, d.year)
     /\ e = [day |-> d.day + 1, month |-> d.month, year |-> d.year,
             wday |-> (d.wday + 1) % 7, yday |-> d.yday + 1]
  \/ /\ d.day = Civil!LastOf(d.month, d.year) /\ d.month < 12
     /\ e = [day |-> 1, month |-> d.month + 1, year |-> d.year,
             wday |-> (d.wday + 1) % 7, yday |-> d.yday + 1]
  \/ /\ d.day = 31 /\ d.month = 12
     /\ e = [day |-> 1, month |-> 1, year |-> d.year + 1,
             wday |-> (d.wday + 1) % 7, yday |-> 0]

\* A date as the calendar has them.
IsDate(d) ==
  /\ d.month \in 1..12 /\ d.day \in 1..Civil!LastOf(d.month, d.year)
  /\ d.wday \in 0..6
  /\ (d.day = 1 /\ d.month = 1) <=> d.yday = 0

LEMMA PlaceIsDate ==
  ASSUME NEW days, NEW era, NEW y, NEW yd, Place(days, era, y, yd)
  PROVE  IsDate(DateAt(days, era, y, yd))
<1>1. PICK m, last : InMonthOf(era, y, yd, m, last)
  BY DayInMonth
<1>2. yd \in Int /\ 0 <= yd /\ yd < 366 /\ days \in Int
  BY InItsEra, SMT
<1> DEFINE d == DateAt(days, era, y, yd)
<1>3. /\ d.day = yd - MonthStart(m) + 1 /\ d.month = CivilMonth(m)
      /\ d.year = y + era * 400 + (IF m < 10 THEN 0 ELSE 1)
      /\ d.wday = (days + 3) % 7
      /\ d.yday = IF yd >= 306 THEN yd - 306 ELSE yd + 59 + (IF ISLEAP2(y) THEN 1 ELSE 0)
  BY <1>1 DEF DateAt, InMonthOf, CivilMonth
<1> HIDE DEF d
<1>4. d.month \in 1..12
  BY <1>1, <1>3 DEF InMonthOf, CivilMonth
<1>5. d.day \in 1..Civil!LastOf(d.month, d.year)
  <2>1. Civil!LastOf(d.month, d.year) = last
    BY <1>1, <1>3 DEF InMonthOf
  <2>2. last \in Int /\ 1 <= d.day /\ d.day <= last /\ d.day \in Int
    BY <1>1, <1>2, <1>3 DEF InMonthOf
  <2> QED
    BY <2>1, <2>2
<1>6. d.wday \in 0..6
  BY <1>2, <1>3
<1>7. (d.day = 1 /\ d.month = 1) <=> d.yday = 0
  <2>1. d.yday = 0 <=> yd = 306
    BY <1>2, <1>3
  <2>2. ASSUME yd = 306 PROVE d.day = 1 /\ d.month = 1
    BY <1>1, <1>3, <2>2 DEF InMonthOf, Month, MonthStart, CivilMonth
  <2>3. ASSUME d.day = 1, d.month = 1 PROVE yd = 306
    <3>1. m = 10
      BY <1>1, <1>3, <2>3 DEF InMonthOf, CivilMonth
    <3>2. MonthStart(m) = 306
      BY <3>1 DEF MonthStart
    <3> QED
      BY <1>2, <1>3, <2>3, <3>2
  <2> QED
    BY <2>1, <2>2, <2>3
<1> QED
  BY <1>4, <1>5, <1>6, <1>7 DEF IsDate, d

LEMMA WeekdayGoes ==
  ASSUME NEW days \in Int
  PROVE  (days + 1 + 3) % 7 = (((days + 3) % 7) + 1) % 7
OBVIOUS

\* The day after is of the same year, which begins with March: its date is the
\* next of the month, or the first of the next month.
LEMMA GoesInYear ==
  ASSUME NEW days, NEW era, NEW y, NEW yd,
         Place(days, era, y, yd), Place(days + 1, era, y, yd + 1)
  PROVE  Goes(DateAt(days, era, y, yd), DateAt(days + 1, era, y, yd + 1))
<1>1. PICK m, last : InMonthOf(era, y, yd, m, last)
  BY DayInMonth
<1>2. PICK n, lastn : InMonthOf(era, y, yd + 1, n, lastn)
  BY DayInMonth
<1>3. /\ yd \in Int /\ 0 <= yd /\ yd + 1 < YearLen(y) /\ days \in Int /\ YearLen(y) \in Int
      /\ era \in Int /\ y \in Int /\ (yd + 1 < 366)
  BY InItsEra, SMT DEF IsYear
<1> DEFINE d == DateAt(days, era, y, yd)
           e == DateAt(days + 1, era, y, yd + 1)
           year(k) == y + era * 400 + (IF k < 10 THEN 0 ELSE 1)
           yday(k) == IF k >= 306 THEN k - 306 ELSE k + 59 + (IF ISLEAP2(y) THEN 1 ELSE 0)
<1>4. /\ d.day = yd - MonthStart(m) + 1 /\ d.month = CivilMonth(m) /\ d.year = year(m)
      /\ d.wday = (days + 3) % 7 /\ d.yday = yday(yd)
  BY <1>1 DEF DateAt, InMonthOf, CivilMonth
<1>5. e = [day |-> (yd + 1) - MonthStart(n) + 1, month |-> CivilMonth(n), year |-> year(n),
           wday |-> (days + 1 + 3) % 7, yday |-> yday(yd + 1)]
  BY <1>2 DEF DateAt, InMonthOf, CivilMonth
<1>6. (days + 1 + 3) % 7 = (d.wday + 1) % 7
  BY <1>3, <1>4, WeekdayGoes
<1>7. Civil!LastOf(d.month, d.year) = last
  BY <1>1, <1>4 DEF InMonthOf
<1> HIDE DEF d, e
<1>8. CASE yd + 1 < MonthStart(m + 1)
  <2>1. n = m
    BY <1>1, <1>2, <1>3, <1>8 DEF InMonthOf, Month, MonthStart
  <2>2. d.day < last
    <3>1. CASE m = 11
      BY <3>1, <1>1, <1>3, <1>4 DEF InMonthOf
    <3>2. CASE m # 11
      BY <3>2, <1>1, <1>3, <1>4, <1>8 DEF InMonthOf
    <3> QED
      BY <3>1, <3>2
  <2>3. yday(yd + 1) = yday(yd) + 1
    <3>1. yd # 305
      <4>1. ASSUME yd = 305 PROVE FALSE
        BY <4>1, <1>1, <1>8 DEF InMonthOf, Month, MonthStart
      <4> QED
        BY <4>1
    <3> QED
      BY <3>1, <1>3
  <2>4. (yd + 1) - MonthStart(n) + 1 = d.day + 1
    BY <2>1, <1>1, <1>3, <1>4 DEF InMonthOf
  <2> QED
    BY <1>4, <1>5, <1>6, <1>7, <2>1, <2>2, <2>3, <2>4 DEF Goes, d, e
<1>9. CASE yd + 1 = MonthStart(m + 1)
  <2>1. m # 11
    BY <1>3, <1>9 DEF MonthStart
  <2>2. n = m + 1 /\ m \in 0..10
    BY <2>1, <1>1, <1>2, <1>3, <1>9 DEF InMonthOf, Month, MonthStart
  <2>3. d.day = last
    BY <2>1, <1>1, <1>3, <1>4, <1>9 DEF InMonthOf
  <2>4. (yd + 1) - MonthStart(n) + 1 = 1
    BY <2>2, <1>1, <1>3, <1>9 DEF InMonthOf
  <2>5. CASE m = 9
    <3>1. yd = 305
      BY <2>5, <1>3, <1>9 DEF MonthStart
    <3>2. yday(yd + 1) = 0 /\ d.month = 12 /\ CivilMonth(n) = 1
      BY <3>1, <2>2, <2>5, <1>4 DEF CivilMonth
    <3>3. year(n) = d.year + 1
      BY <2>2, <2>5, <1>3, <1>4
    <3>4. last = 31
      BY <2>1, <2>5, <1>1 DEF InMonthOf, MonthStart
    <3> QED
      BY <1>5, <1>6, <2>3, <2>4, <3>2, <3>3, <3>4 DEF Goes, d, e
  <2>6. CASE m # 9
    <3>1. d.month < 12 /\ CivilMonth(n) = d.month + 1 /\ year(n) = d.year
      BY <2>2, <2>6, <1>4 DEF CivilMonth
    <3>2. yd # 305
      <4>1. ASSUME yd = 305 PROVE FALSE
        BY <4>1, <2>2, <2>6, <1>9 DEF MonthStart
      <4> QED
        BY <4>1
    <3>3. yday(yd + 1) = d.yday + 1
      BY <3>2, <1>3, <1>4
    <3> QED
      BY <1>5, <1>6, <1>7, <2>3, <2>4, <3>1, <3>3 DEF Goes, d, e
  <2> QED
    BY <2>5, <2>6
<1>10. yd + 1 < MonthStart(m + 1) \/ yd + 1 = MonthStart(m + 1)
  BY <1>1, <1>3 DEF InMonthOf
<1> QED
  BY <1>8, <1>9, <1>10

\* After the last day of February, whichever that is, comes the first of March.
LEMMA GoesToMarch ==
  ASSUME NEW days, NEW era, NEW y, NEW yd, NEW erab, NEW z,
         Place(days, era, y, yd), Place(days + 1, erab, z, 0),
         yd + 1 = YearLen(y), z + erab * 400 = y + 1 + era * 400,
         YearLen(y) = 365 + (IF ISLEAP2(z) THEN 1 ELSE 0)
  PROVE  Goes(DateAt(days, era, y, yd), DateAt(days + 1, erab, z, 0))
<1>1. PICK m, last : InMonthOf(era, y, yd, m, last)
  BY DayInMonth
<1>2. /\ yd \in Int /\ 0 <= yd /\ days \in Int /\ YearLen(y) \in Int
      /\ era \in Int /\ y \in Int /\ erab \in Int /\ z \in Int
  BY InItsEra, SMT DEF IsYear
<1>3. yd = 364 + (IF ISLEAP2(z) THEN 1 ELSE 0)
  BY <1>2
<1>4. m = 11
  BY <1>1, <1>3 DEF InMonthOf, Month
<1>5. Month(0) = 0 /\ MonthStart(0) = 0
  BY DEF Month, MonthStart
<1> DEFINE d == DateAt(days, era, y, yd)
           e == DateAt(days + 1, erab, z, 0)
<1>6. /\ d.day = yd - 337 + 1 /\ d.month = 2 /\ d.year = y + era * 400 + 1
      /\ d.wday = (days + 3) % 7 /\ d.yday = yd - 306
  BY <1>1, <1>3, <1>4 DEF DateAt, InMonthOf
<1>7. e = [day |-> 1, month |-> 3, year |-> z + erab * 400,
           wday |-> (days + 1 + 3) % 7, yday |-> 59 + (IF ISLEAP2(z) THEN 1 ELSE 0)]
  BY <1>2, <1>5 DEF DateAt
<1>8. (days + 1 + 3) % 7 = (d.wday + 1) % 7
  BY <1>2, <1>6, WeekdayGoes
<1> HIDE DEF d, e
<1>9. Civil!LastOf(d.month, d.year) = d.day
  <2>1. Civil!LastOf(d.month, d.year) = last
    BY <1>1, <1>4, <1>6 DEF InMonthOf, CivilMonth
  <2>2. last = YearLen(y) - 337
    BY <1>1, <1>4 DEF InMonthOf
  <2> QED
    BY <2>1, <2>2, <1>2, <1>6
<1>10. /\ z + erab * 400 = d.year
       /\ 59 + (IF ISLEAP2(z) THEN 1 ELSE 0) = d.yday + 1
  BY <1>2, <1>3, <1>6
<1> QED
  BY <1>6, <1>7, <1>8, <1>9, <1>10 DEF Goes, d, e

LEMMA PlaceGoes ==
  ASSUME NEW days, NEW era, NEW y, NEW yd, Place(days, era, y, yd)
  PROVE  \E erab, z, zd :
           /\ Place(days + 1, erab, z, zd)
           /\ Goes(DateAt(days, era, y, yd), DateAt(days + 1, erab, z, zd))
<1>1. /\ yd \in Int /\ 0 <= yd /\ yd < YearLen(y) /\ YearLen(y) \in Int /\ days \in Int
      /\ era \in Int /\ IsYear(y) /\ y \in Int /\ Before(y) \in Int
  BY InItsEra, SMT DEF IsYear
<1>2. days + 1 = 146097 * era + Before(y) + (yd + 1)
  BY <1>1, SMT DEF Place
<1>3. /\ y < 399 => YearLen(y) = IF ISLEAP2(y + 1) THEN 366 ELSE 365
      /\ ISLEAP2(0)
  BY <1>1, YearLenIs
<1>4. CASE yd + 1 < YearLen(y)
  <2>1. yd + 1 \in Int /\ 0 <= yd + 1
    BY <1>1
  <2>2. Place(days + 1, era, y, yd + 1)
    BY <1>1, <1>2, <1>4, <2>1 DEF Place
  <2> QED
    BY <2>2, GoesInYear
<1>5. CASE yd + 1 = YearLen(y) /\ y < 399
  <2>1. IsYear(y + 1)
    BY <1>1, <1>5 DEF IsYear
  <2>2. Before(y + 1) = Before(y) + YearLen(y) /\ 0 < YearLen(y + 1) /\ Before(y + 1) \in Int
    BY <1>1, <1>5, SMT DEF YearLen, Before, IsYear
  <2>3. days + 1 = 146097 * era + Before(y + 1) + 0
    BY <1>1, <1>2, <1>5, <2>2, SMT
  <2>4. Place(days + 1, era, y + 1, 0)
    BY <1>1, <2>1, <2>2, <2>3 DEF Place
  <2>5. YearLen(y) = 365 + (IF ISLEAP2(y + 1) THEN 1 ELSE 0)
    BY <1>3, <1>5
  <2>6. (y + 1) + era * 400 = y + 1 + era * 400
    OBVIOUS
  <2> QED
    BY <2>4, <2>5, <2>6, <1>5, GoesToMarch
<1>6. CASE yd + 1 = YearLen(y) /\ ~(y < 399)
  <2>1. y = 399
    BY <1>1, <1>6 DEF IsYear
  <2>2. IsYear(0) /\ Before(0) = 0 /\ 0 < YearLen(0)
    BY DEF IsYear, Before, YearLen
  <2>3. YearLen(y) = 366 /\ Before(y) + YearLen(y) = 146097
    BY <2>1, SMT DEF YearLen, Before
  <2>4. days + 1 = 146097 * (era + 1) + Before(0) + 0
    BY <1>1, <1>2, <1>6, <2>2, <2>3, SMT
  <2>5. Place(days + 1, era + 1, 0, 0)
    BY <1>1, <2>2, <2>4 DEF Place
  <2>6. YearLen(y) = 365 + (IF ISLEAP2(0) THEN 1 ELSE 0)
    BY <1>3, <2>3
  <2>7. 0 + (era + 1) * 400 = y + 1 + era * 400
    BY <1>1, <2>1
  <2> QED
    BY <2>5, <2>6, <2>7, <1>6, GoesToMarch
<1>7. yd + 1 < YearLen(y) \/ (yd + 1 = YearLen(y) /\ y < 399) \/ (yd + 1 = YearLen(y) /\ ~(y < 399))
  BY <1>1
<1> QED
  BY <1>4, <1>5, <1>6, <1>7

\* What the conversion gives for any time is a date of the calendar, and what it
\* gives a day later is the calendar's next.
LEMMA TimeIsDate ==
  ASSUME NEW t, IsTime(t)
  PROVE  IsDate(DateOfTime(t))
BY HasPlace, TimeLocated, PlaceIsDate

LEMMA TimeGoes ==
  ASSUME NEW t, IsTime(t), NEW u, u.day = t.day + 1, u.sec = t.sec
  PROVE  IsTime(u) /\ Goes(DateOfTime(t), DateOfTime(u))
<1>1. IsTime(u) /\ u.day + 719468 = t.day + 719468 + 1
  BY SMT DEF IsTime
<1>2. PICK era, y, yd : Place(t.day + 719468, era, y, yd)
  BY HasPlace
<1>3. PICK erab, z, zd :
        /\ Place(t.day + 719468 + 1, erab, z, zd)
        /\ Goes(DateAt(t.day + 719468, era, y, yd), DateAt(t.day + 719468 + 1, erab, z, zd))
  BY <1>2, PlaceGoes
<1>4. DateOfTime(t) = DateAt(t.day + 719468, era, y, yd)
  BY <1>2, TimeLocated
<1>5. Place(u.day + 719468, erab, z, zd)
  BY <1>1, <1>3
<1>6. DateOfTime(u) = DateAt(u.day + 719468, erab, z, zd)
  BY <1>1, <1>5, TimeLocated
<1> QED
  BY <1>1, <1>3, <1>4, <1>6

-----------------------------------------------------------------------------
\* The clock is a time, at every step.
ClockType == now \in [day : Int, sec : Nat] /\ now.sec < 86400

LEMMA ClockTyped ==
  ASSUME DatesAssumption PROVE ClockSpec => []ClockType
<1>1. ClockInit => ClockType
  <2>1. ASSUME ClockInit PROVE ClockType
    <3>1. PICK day \in Starts, sec \in Seconds : now = [day |-> day, sec |-> sec]
      BY <2>1, Zenon DEF ClockInit
    <3>2. day \in Int /\ sec \in Nat /\ sec < 86400
      BY SMT DEF DatesAssumption
    <3> QED
      BY <3>1, <3>2, SMT DEF ClockType
  <2> QED
    BY <2>1
<1>2. ClockType /\ [Tomorrow]_clockvars => ClockType'
  BY DEF ClockType, Tomorrow, clockvars
<1> QED
  BY <1>1, <1>2, PTL DEF ClockSpec

\* Whatever the day, before and after the epoch, across eras, centuries, leap
\* years and month ends: the dates that khttp_epoch2datetime gives for it and
\* the days that follow are those of the civil calendar, weekday and day of the
\* year included (datetime.c:263-331).
THEOREM CalendarImplemented ==
  ASSUME DatesAssumption PROVE ClockSpec => ImplementsCalendar
<1>1. ClockType => IsTime(now) /\ DateOfTime(now) = DateOf(tm)
  BY DEF ClockType, IsTime, DateOfTime, tm
<1>2. ClockType => Civil!Init
  BY <1>1, TimeIsDate DEF IsDate, Civil!Init
<1>3. ClockType /\ [Tomorrow]_clockvars => [now' # now => Civil!Next]_now
  <2>1. ASSUME ClockType, Tomorrow PROVE Civil!Next
    <3>1. now'.day = now.day + 1 /\ now'.sec = now.sec
      BY <2>1 DEF ClockType, Tomorrow
    <3>2. Goes(DateOfTime(now), DateOfTime(now'))
      BY <2>1, <1>1, <3>1, TimeGoes
    <3>3. DateOfTime(now') = DateOf(tm)'
      BY DEF DateOfTime, tm, DateOf
    <3>4. Goes(DateOf(tm), DateOf(tm)')
      BY <2>1, <1>1, <3>2, <3>3
    <3> QED
      BY <3>4 DEF Goes, Civil!Next, Civil!NextDay, Civil!NextMonth, Civil!NextYear, Civil!Advance
  <2>2. ASSUME UNCHANGED clockvars PROVE now' = now
    BY <2>2 DEF clockvars
  <2> QED
    BY <2>1, <2>2
<1> QED
  BY <1>2, <1>3, ClockTyped, PTL DEF ClockSpec, ImplementsCalendar

\* So the dates implement Calendar: the clock's behaviours, seen as dates, are
\* behaviours of it (datetime.c:263-331).
THEOREM DatesImplementCalendar ==
  ASSUME DatesAssumption PROVE ClockSpec => Civil!Spec
<1>1. [now' # now => Civil!Next]_now => [Civil!Next]_(DateOf(tm))
  <2>1. ASSUME now' = now PROVE UNCHANGED DateOf(tm)
    BY <2>1 DEF DateOf, tm
  <2> QED
    BY <2>1
<1> QED
  BY <1>1, CalendarImplemented, PTL DEF ImplementsCalendar, Civil!Spec

-----------------------------------------------------------------------------
(* The way back, which adds up the days of the years and months before: in *)
(* closed form it is the way there, undone.                                *)

\* The leap years from the year 1 to the year Y.
Leaps(Y) == Y \div 4 - Y \div 100 + Y \div 400

LEMMA IsLeapYear ==
  ASSUME NEW year \in Int
  PROVE  ISLEAP(year) <=> Civil!Leap(year + 1900)
<1>1. /\ (year + 1900) % 4 = year % 4
      /\ (year + 1900) % 100 = year % 100
  OBVIOUS
<1>2. (year + 1900) % 400 = 0 => (year + 1900) % 100 = 0 /\ (year + 1900) % 4 = 0
  OBVIOUS
<1> QED
  BY <1>1, <1>2 DEF ISLEAP, Civil!Leap

LEMMA OneMoreYear ==
  ASSUME NEW Y \in Int
  PROVE  /\ Leaps(Y) \in Int /\ Leaps(Y - 1) \in Int
         /\ Leaps(Y) = Leaps(Y - 1) + (IF Civil!Leap(Y) THEN 1 ELSE 0)
<1>1. /\ Y \div 4 = (Y - 1) \div 4 + (IF Y % 4 = 0 THEN 1 ELSE 0)
      /\ Y \div 100 = (Y - 1) \div 100 + (IF Y % 100 = 0 THEN 1 ELSE 0)
      /\ Y \div 400 = (Y - 1) \div 400 + (IF Y % 400 = 0 THEN 1 ELSE 0)
  BY SMT
<1>2. /\ Y % 400 = 0 => Y % 100 = 0
      /\ Y % 100 = 0 => Y % 4 = 0
  OBVIOUS
<1>3. /\ Leaps(Y) \in Int /\ Leaps(Y - 1) \in Int
      /\ (Y - 1) \div 4 \in Int /\ (Y - 1) \div 100 \in Int /\ (Y - 1) \div 400 \in Int
  BY DEF Leaps
<1> QED
  BY <1>1, <1>2, <1>3, SMT DEF Leaps, Civil!Leap

\* The leap years among the n years from a on.
LeapYears(a, n) == {year \in a..(a + n - 1) : ISLEAP(year)}
Counted(a, n) ==
  /\ IsFiniteSet(LeapYears(a, n))
  /\ Cardinality(LeapYears(a, n)) = Leaps(a + n + 1899) - Leaps(a + 1899)

LEMMA CountsNone ==
  ASSUME NEW a \in Int PROVE Counted(a, 0)
<1>1. LeapYears(a, 0) = {}
  BY DEF LeapYears
<1>2. Leaps(a + 0 + 1899) - Leaps(a + 1899) = 0
  BY DEF Leaps
<1> QED
  BY <1>1, <1>2, FS_EmptySet DEF Counted

LEMMA CountsOneMore ==
  ASSUME NEW a \in Int, NEW n \in Nat, Counted(a, n) PROVE Counted(a, n + 1)
<1>1. PICK last \in Int : last = a + n
  OBVIOUS
<1>2. LeapYears(a, n + 1) = IF ISLEAP(last) THEN LeapYears(a, n) \cup {last} ELSE LeapYears(a, n)
  <2>1. a..(a + (n + 1) - 1) = (a..(a + n - 1)) \cup {last}
    BY <1>1
  <2> QED
    BY <2>1 DEF LeapYears
<1>3. last \notin LeapYears(a, n)
  BY <1>1 DEF LeapYears
<1>4. /\ IsFiniteSet(LeapYears(a, n + 1))
      /\ Cardinality(LeapYears(a, n + 1))
           = Cardinality(LeapYears(a, n)) + (IF ISLEAP(last) THEN 1 ELSE 0)
  <2>1. IsFiniteSet(LeapYears(a, n)) /\ Cardinality(LeapYears(a, n)) \in Nat
    BY FS_CardinalityType DEF Counted
  <2> QED
    BY <1>2, <1>3, <2>1, FS_AddElement
<1>5. PICK Y \in Int : Y = last + 1900
  OBVIOUS
<1>6. /\ Leaps(Y) = Leaps(Y - 1) + (IF ISLEAP(last) THEN 1 ELSE 0)
      /\ Leaps(Y) \in Int /\ Leaps(Y - 1) \in Int
  BY <1>5, OneMoreYear, IsLeapYear
<1>7. a + (n + 1) + 1899 = Y /\ a + n + 1899 = Y - 1
  BY <1>1, <1>5
<1>8. Leaps(a + 1899) \in Int
  BY DEF Leaps
<1>9. Cardinality(LeapYears(a, n)) = Leaps(Y - 1) - Leaps(a + 1899)
  BY <1>7 DEF Counted
<1>10. Cardinality(LeapYears(a, n + 1)) = Leaps(Y) - Leaps(a + 1899)
  BY <1>4, <1>6, <1>8, <1>9, SMT
<1> QED
  BY <1>4, <1>7, <1>10 DEF Counted

\* Numbers have a least one.
LEMMA LeastNumber ==
  ASSUME NEW S \in SUBSET Nat, S # {}
  PROVE  \E m \in S : \A n \in S : m <= n
<1> DEFINE R == OpToRel(<, Nat)
<1>1. IsWellFoundedOn(R, Nat)
  BY NatLessThanWellFounded
<1>2. \A x, y \in Nat : <<y, x>> \in R <=> y < x
  BY DEF OpToRel
<1> HIDE DEF R
<1>3. PICK x \in S : \A y \in S : ~ (<<y, x>> \in R)
  BY <1>1, WFMin
<1>4. \A y \in S : x \in Nat /\ y \in Nat /\ ~(y < x)
  BY <1>2, <1>3
<1>5. \A y \in S : x <= y
  BY <1>4
<1> QED
  BY <1>5

LEMMA LeapsCounted ==
  ASSUME NEW a \in Int
  PROVE  \A n \in Nat : Counted(a, n)
<1> DEFINE S == {n \in Nat : ~Counted(a, n)}
<1> SUFFICES ASSUME S # {} PROVE FALSE
  OBVIOUS
<1>1. PICK m \in S : \A n \in S : m <= n
  BY LeastNumber
<1>2. m \in Nat /\ m # 0 /\ ~Counted(a, m)
  BY CountsNone
<1>3. PICK k \in Nat : m = k + 1
  <2>1. m - 1 \in Nat /\ m = (m - 1) + 1
    BY <1>2
  <2> QED
    BY <2>1
<1>4. Counted(a, k)
  <2>1. ~(m <= k)
    BY <1>2, <1>3
  <2> QED
    BY <1>1, <2>1
<1> QED
  BY <1>2, <1>3, <1>4, CountsOneMore

\* What the loops over years add up.
LEMMA YearLoopIs ==
  ASSUME NEW a \in Int, NEW b \in Int, a <= b
  PROVE  /\ YearLoop(a, b) = 365 * (b - a) + Leaps(b + 1899) - Leaps(a + 1899)
         /\ Leaps(b + 1899) \in Int /\ Leaps(a + 1899) \in Int
<1>1. Leaps(b + 1899) \in Int /\ Leaps(a + 1899) \in Int
  BY DEF Leaps
<1>2. CASE a < b
  <2>1. PICK n \in Nat : b = a + n
    <3>1. b - a \in Nat /\ b = a + (b - a)
      BY <1>2
    <3> QED
      BY <3>1
  <2>2. Counted(a, n)
    BY LeapsCounted
  <2>3. a..(b - 1) = a..(a + n - 1)
    BY <2>1
  <2>4. YearLoop(a, b) = 365 * (b - a) + Cardinality(LeapYears(a, n))
    BY <1>2, <2>3 DEF YearLoop, LeapYears
  <2>5. Cardinality(LeapYears(a, n)) = Leaps(b + 1899) - Leaps(a + 1899)
    BY <2>1, <2>2 DEF Counted
  <2> QED
    BY <1>1, <2>4, <2>5, SMT
<1>3. CASE a = b
  BY <1>1, <1>3 DEF YearLoop
<1> QED
  BY <1>1, <1>2, <1>3

\* The eras have 97 leap years each.
LEMMA LeapsOfEra ==
  ASSUME NEW Y \in Int, NEW era \in Int
  PROVE  Leaps(Y + 400 * era) = Leaps(Y) + 97 * era /\ Leaps(Y) \in Int
<1>1. /\ (Y + 400 * era) \div 4 = Y \div 4 + 100 * era
      /\ (Y + 400 * era) \div 100 = Y \div 100 + 4 * era
      /\ (Y + 400 * era) \div 400 = Y \div 400 + era
  BY SMT
<1>2. Y \div 4 \in Int /\ Y \div 100 \in Int /\ Y \div 400 \in Int
  OBVIOUS
<1> QED
  BY <1>1, <1>2 DEF Leaps

LEMMA DaysToYearIs ==
  ASSUME NEW year \in Int
  PROVE  DaysToYear(year) = 365 * (year - 70) + Leaps(year + 1899) - 477 /\ Leaps(year + 1899) \in Int
<1>1. Leaps(1969) = 477
  BY DEF Leaps
<1>2. Leaps(year + 1899) \in Int
  BY DEF Leaps
<1>3. CASE year > 70
  <2> DEFINE stop == IF year > 400 THEN 400 ELSE year
             era == Quot(year - stop, 400)
  <2>1. /\ stop \in Int /\ era \in Int /\ 70 <= stop
        /\ stop + 400 * era \in Int /\ stop + 400 * era <= year
    BY <1>3, SMT DEF Quot
  <2>2. DaysToYear(year) = YearLoop(70, stop) + era * DAYS_PER_ERA + YearLoop(stop + 400 * era, year)
    BY <1>3 DEF DaysToYear
  <2> HIDE DEF stop, era
  <2>3. /\ YearLoop(70, stop) = 365 * (stop - 70) + Leaps(stop + 1899) - Leaps(70 + 1899)
        /\ Leaps(stop + 1899) \in Int
    <3>1. PICK base \in Int : base = 70 /\ base <= stop
      BY <2>1
    <3>2. YearLoop(base, stop) = 365 * (stop - base) + Leaps(stop + 1899) - Leaps(base + 1899)
      BY <3>1, <2>1, YearLoopIs
    <3>3. Leaps(stop + 1899) \in Int
      BY <2>1 DEF Leaps
    <3> QED
      BY <3>1, <3>2, <3>3
  <2>4. PICK mid \in Int : mid = stop + 400 * era
    BY <2>1
  <2>5. /\ YearLoop(mid, year) = 365 * (year - mid) + Leaps(year + 1899) - Leaps(mid + 1899)
    BY <2>1, <2>4, YearLoopIs
  <2>6. Leaps(mid + 1899) = Leaps(stop + 1899) + 97 * era
    <3>1. PICK Y \in Int : Y = stop + 1899
      BY <2>1
    <3>2. mid + 1899 = Y + 400 * era
      BY <2>1, <2>4, <3>1
    <3> QED
      BY <2>1, <3>1, <3>2, LeapsOfEra
  <2>7. 70 + 1899 = 1969
    OBVIOUS
  <2> QED
    BY <1>1, <1>2, <2>1, <2>2, <2>3, <2>4, <2>5, <2>6, <2>7, SMT DEF DAYS_PER_ERA
<1>4. CASE year < 70
  <2> DEFINE stop == IF year < -400 THEN -400 ELSE year
             era == Quot(year - stop, 400)
  <2>1. /\ stop \in Int /\ era \in Int /\ stop + 1 <= 70
        /\ stop + 400 * era \in Int /\ year <= stop + 400 * era + 1
    BY <1>4, SMT DEF Quot
  <2>2. DaysToYear(year) = era * DAYS_PER_ERA - YearLoop(stop + 1, 70) - YearLoop(year, stop + 400 * era + 1)
    BY <1>4 DEF DaysToYear
  <2> HIDE DEF stop, era
  <2>3. PICK next \in Int : next = stop + 1
    BY <2>1
  <2>4. /\ YearLoop(next, 70) = 365 * (70 - next) + Leaps(70 + 1899) - Leaps(next + 1899)
        /\ Leaps(next + 1899) \in Int
    <3>1. PICK base \in Int : base = 70
      OBVIOUS
    <3>2. next <= base
      BY <2>1, <2>3, <3>1
    <3>3. YearLoop(next, base) = 365 * (base - next) + Leaps(base + 1899) - Leaps(next + 1899)
      BY <3>2, YearLoopIs
    <3>4. Leaps(next + 1899) \in Int
      BY DEF Leaps
    <3> QED
      BY <3>1, <3>3, <3>4
  <2>5. PICK mid \in Int : mid = stop + 400 * era + 1
    BY <2>1
  <2>6. /\ YearLoop(year, mid) = 365 * (mid - year) + Leaps(mid + 1899) - Leaps(year + 1899)
    BY <2>1, <2>5, YearLoopIs
  <2>7. Leaps(mid + 1899) = Leaps(next + 1899) + 97 * era
    <3>1. PICK Y \in Int : Y = next + 1899
      BY <2>1
    <3>2. mid + 1899 = Y + 400 * era
      BY <2>1, <2>3, <2>5, <3>1
    <3> QED
      BY <2>1, <3>1, <3>2, LeapsOfEra
  <2>8. 70 + 1899 = 1969
    OBVIOUS
  <2> QED
    BY <1>1, <1>2, <2>1, <2>2, <2>3, <2>4, <2>5, <2>6, <2>7, <2>8, SMT DEF DAYS_PER_ERA
<1>5. CASE year = 70
  <2>1. DaysToYear(year) = 0
    BY <1>5 DEF DaysToYear
  <2>2. year + 1899 = 1969
    BY <1>5
  <2> QED
    BY <1>1, <1>5, <2>1, <2>2
<1> QED
  BY <1>2, <1>3, <1>4, <1>5

LEMMA LastOfIs ==
  ASSUME NEW month \in 1..12, NEW year \in Int
  PROVE  Civil!LastOf(month, year + 1900)
           = (IF month = 2 /\ ISLEAP(year) THEN 29 ELSE DAYS_IN_MONTH[month])
BY IsLeapYear DEF Civil!LastOf, DAYS_IN_MONTH

\* The days of the months before one, of a year that begins with January.
LEMMA MonthsBefore ==
  ASSUME NEW m \in 0..11
  PROVE  /\ DAYS_BEFORE_MONTH[CivilMonth(m)] = (IF m < 10 THEN MonthStart(m) + 59 ELSE MonthStart(m) - 306)
         /\ CivilMonth(m) \in 1..12 /\ (CivilMonth(m) > 2 <=> m < 10)
         /\ MonthStart(m) \in Int
BY DEF DAYS_BEFORE_MONTH, CivilMonth, MonthStart

\* The days before the March of a year.
LEMMA MarchOf ==
  ASSUME NEW y, IsYear(y), NEW era \in Int
  PROVE  Before(y) \in Int /\ Leaps(y + 400 * era) = 97 * era + Before(y) - 365 * y
<1>1. y \in Int /\ y \div 400 = 0
  BY DEF IsYear
<1>2. Leaps(y + 400 * era) = Leaps(y) + 97 * era
  BY <1>1, LeapsOfEra
<1> QED
  BY <1>1, <1>2 DEF Leaps, Before

\* What mktime computes out of the year, the month and the day.
DayNumber(f) ==
  f.mday - 1 + DAYS_BEFORE_MONTH[f.mon + 1] + (IF f.mon > 1 /\ ISLEAP(f.year) THEN 1 ELSE 0)
    + DaysToYear(f.year)

\* A record of those of a date.
Denotes(f, d) ==
  /\ f.mon \in Int /\ f.year \in Int
  /\ f.mday = d.day /\ f.mon + 1 = d.month /\ f.year + 1900 = d.year

LEMMA DayNumberIs ==
  ASSUME NEW days, NEW era, NEW y, NEW yd, Place(days, era, y, yd),
         NEW f, Denotes(f, DateAt(days, era, y, yd))
  PROVE  DayNumber(f) = days - 719468
<1>1. PICK m, last : InMonthOf(era, y, yd, m, last)
  BY DayInMonth
<1>2. /\ days \in Int /\ era \in Int /\ IsYear(y) /\ y \in Int /\ yd \in Int /\ Before(y) \in Int
  BY InItsEra, SMT DEF IsYear
<1>3. days = 146097 * era + Before(y) + yd
  BY DEF Place
<1>4. /\ f.mon \in Int /\ f.year \in Int
      /\ f.mday = yd - MonthStart(m) + 1 /\ f.mon + 1 = CivilMonth(m)
      /\ f.year + 1900 = y + era * 400 + (IF m < 10 THEN 0 ELSE 1)
  BY <1>1 DEF Denotes, DateAt, InMonthOf, CivilMonth
<1>5. /\ DAYS_BEFORE_MONTH[f.mon + 1] = (IF m < 10 THEN MonthStart(m) + 59 ELSE MonthStart(m) - 306)
      /\ f.mon > 1 <=> m < 10
      /\ m \in 0..11 /\ MonthStart(m) \in Int
  <2>1. m \in 0..11
    BY <1>1 DEF InMonthOf
  <2> QED
    BY <2>1, <1>4, MonthsBefore
<1>6. PICK Z \in Int : Z = y + 400 * era
  BY <1>2
<1>7. Leaps(Z) = 97 * era + Before(y) - 365 * y
  BY <1>2, <1>6, MarchOf
<1>8. /\ DaysToYear(f.year) = 365 * (f.year - 70) + Leaps(f.year + 1899) - 477
  BY SMTT(30), <1>4, DaysToYearIs
<1>9. CASE m < 10
  <2>1. f.year + 1899 = Z - 1 /\ f.year + 1900 = Z
    BY <1>2, <1>4, <1>6, <1>9
  <2>2. Leaps(Z) = Leaps(Z - 1) + (IF ISLEAP(f.year) THEN 1 ELSE 0) /\ Leaps(Z - 1) \in Int
    <3>1. Civil!Leap(Z) <=> ISLEAP(f.year)
      BY <1>4, <2>1, IsLeapYear
    <3> QED
      BY <3>1, OneMoreYear
  <2>3. DayNumber(f) = f.mday - 1 + (MonthStart(m) + 59) + (IF ISLEAP(f.year) THEN 1 ELSE 0)
                       + (365 * (f.year - 70) + Leaps(Z - 1) - 477)
    BY <1>5, <1>8, <1>9, <2>1 DEF DayNumber
  <2>4. f.year = y + 400 * era - 1900
    BY <1>2, <1>4, <1>6, <2>1
  <2> QED
    BY <1>2, <1>3, <1>4, <1>5, <1>7, <2>2, <2>3, <2>4, SMT
<1>10. CASE ~(m < 10)
  <2>1. f.year + 1899 = Z /\ f.year = y + 400 * era - 1899
    BY <1>2, <1>4, <1>6, <1>10
  <2>2. DayNumber(f) = f.mday - 1 + (MonthStart(m) - 306) + 0 + (365 * (f.year - 70) + Leaps(Z) - 477)
    BY <1>5, <1>8, <1>10, <2>1 DEF DayNumber
  <2> QED
    BY <1>2, <1>3, <1>4, <1>5, <1>7, <2>1, <2>2, SMT
<1> QED
  BY <1>9, <1>10

\* A record of those of a time of the day.
Tells(f, sec) == f.sec = sec % 60 /\ f.min = (sec % 3600) \div 60 /\ f.hour = sec \div 3600

LEMMA Told ==
  ASSUME NEW sec \in Nat, sec < 86400, NEW f, Tells(f, sec)
  PROVE  /\ f.sec \in 0..59 /\ f.min \in 0..59 /\ f.hour \in 0..23
         /\ f.sec + 60 * f.min + 3600 * f.hour = sec
<1>1. PICK h \in Int, r \in Int : h = sec \div 3600 /\ r = sec % 3600
  OBVIOUS
<1>2. sec = 3600 * h + r /\ 0 <= r /\ r < 3600 /\ 0 <= h /\ h <= 23
  BY <1>1, SMT
<1>3. r % 60 = sec % 60 /\ r = 60 * (r \div 60) + (r % 60) /\ 0 <= r % 60 /\ r % 60 < 60
      /\ 0 <= r \div 60 /\ r \div 60 < 60 /\ r % 60 \in Int /\ r \div 60 \in Int
  BY <1>2, SMT
<1>4. f.sec = r % 60 /\ f.min = r \div 60 /\ f.hour = h
  BY <1>1, <1>3 DEF Tells
<1> QED
  BY <1>2, <1>3, <1>4, SMT

LEMMA NotWrapped ==
  ASSUME LastDay \in Nat, NEW day \in Int, -LastDay - 1 <= day, day <= LastDay
  PROVE  Wrapped(day) = day
<1>1. PICK n \in Nat, k \in Nat : n = 2 * LastDay + 2 /\ k = day + LastDay + 1
  <2>1. 2 * LastDay + 2 \in Nat /\ day + LastDay + 1 \in Nat
    OBVIOUS
  <2> QED
    BY <2>1
<1>2. k < n
  BY <1>1
<1>3. k % n = k
  BY <1>2, SMT
<1>4. Wrapped(day) = (k % n) - LastDay - 1
  BY <1>1 DEF Wrapped
<1> QED
  BY <1>1, <1>3, <1>4

\* The days whose seconds fit and the years, since 1900, that are accepted.
Fits(day) == -LastDay - 1 <= day /\ day <= LastDay
Accepted(year) == year \in MinYear..MaxYear

\* What mktime answers for a date that is valid.
Assembled(f) ==
  [ok |-> TRUE, day |-> Wrapped(DayNumber(f)), sec |-> f.sec + 60 * f.min + 3600 * f.hour]

LEMMA Assembles ==
  ASSUME NEW f, khttp_validate_time(f)
  PROVE  khttp_mktime(f) = Assembled(f)
<1> DEFINE yday == f.mday - 1 + DAYS_BEFORE_MONTH[f.mon + 1]
                   + (IF f.mon > 1 /\ ISLEAP(f.year) THEN 1 ELSE 0)
<1>1. DayNumber(f) = yday + DaysToYear(f.year)
  BY DEF DayNumber
<1>2. khttp_mktime(f) = IF ~khttp_validate_time(f) THEN Refused
                        ELSE [ok |-> TRUE, day |-> Wrapped(yday + DaysToYear(f.year)),
                              sec |-> f.sec + 60 * f.min + 3600 * f.hour]
  BY DEF khttp_mktime
<1> HIDE DEF yday
<1> QED
  BY <1>1, <1>2 DEF Assembled

\* A record of what a time is.
Recorded(f, t) ==
  \E era, y, yd : /\ Place(t.day + 719468, era, y, yd)
                  /\ Denotes(f, DateAt(t.day + 719468, era, y, yd))
                  /\ Tells(f, t.sec)

\* What a time in the bounds is read back as.
ReadBack(t) == [ok |-> TRUE, day |-> t.day, sec |-> t.sec]

LEMMA MktimeIs ==
  ASSUME BoundsAssumption,
         NEW t, IsTime(t), Fits(t.day), NEW f, Recorded(f, t), Accepted(f.year)
  PROVE  khttp_mktime(f) = ReadBack(t)
<1>1. PICK era, y, yd : /\ Place(t.day + 719468, era, y, yd)
                        /\ Denotes(f, DateAt(t.day + 719468, era, y, yd))
                        /\ Tells(f, t.sec)
  BY DEF Recorded
<1> DEFINE d == DateAt(t.day + 719468, era, y, yd)
<1>2. t.day \in Int /\ t.sec \in Nat /\ t.sec < 86400
  BY DEF IsTime
<1>3. /\ f.sec \in 0..59 /\ f.min \in 0..59 /\ f.hour \in 0..23
      /\ f.sec + 60 * f.min + 3600 * f.hour = t.sec
  BY <1>2, <1>1, Told
<1>4. IsDate(d)
  BY <1>1, PlaceIsDate
<1>5. DayNumber(f) = t.day
  <2>1. PICK days \in Int : days = t.day + 719468
    BY <1>2
  <2>2. Place(days, era, y, yd) /\ Denotes(f, DateAt(days, era, y, yd))
    BY <1>1, <2>1
  <2>3. DayNumber(f) = days - 719468
    BY <2>2, DayNumberIs
  <2> QED
    BY <1>2, <2>1, <2>3
<1>6. Denotes(f, d)
  BY <1>1
<1> HIDE DEF d
<1>7. f.mon \in 0..11 /\ f.mon + 1 \in 1..12 /\ f.year \in Int
  BY <1>4, <1>6 DEF IsDate, Denotes
<1>8. f.mday \in 1..(IF f.mon = 1 /\ ISLEAP(f.year) THEN 29 ELSE DAYS_IN_MONTH[f.mon + 1])
  <2>1. f.mday \in 1..Civil!LastOf(f.mon + 1, f.year + 1900)
    BY <1>4, <1>6 DEF IsDate, Denotes
  <2>2. Civil!LastOf(f.mon + 1, f.year + 1900)
          = (IF f.mon + 1 = 2 /\ ISLEAP(f.year) THEN 29 ELSE DAYS_IN_MONTH[f.mon + 1])
    BY <1>7, LastOfIs
  <2>3. f.mon + 1 = 2 <=> f.mon = 1
    BY <1>7
  <2> QED
    BY <2>1, <2>2, <2>3
<1>9. khttp_validate_time(f)
  BY <1>3, <1>7, <1>8 DEF khttp_validate_time, Accepted
<1>10. Wrapped(t.day) = t.day
  BY <1>2, NotWrapped DEF BoundsAssumption, Fits
<1>11. khttp_mktime(f) = Assembled(f)
  BY <1>9, Assembles
<1>12. PICK s : s = f.sec + 60 * f.min + 3600 * f.hour
  BY SMT
<1>13. Assembled(f) = [ok |-> TRUE, day |-> Wrapped(t.day), sec |-> s]
  BY <1>5, <1>12, SMT DEF Assembled
<1>14. s = t.sec
  BY <1>3, <1>12
<1> QED
  BY <1>10, <1>11, <1>13, <1>14, SMT DEF ReadBack

\* The conversions from a time give the date of its place and tell its second.
LEMMA GmtimeTells ==
  ASSUME NEW t, IsTime(t), NEW era, NEW y, NEW yd, Place(t.day + 719468, era, y, yd)
  PROVE  /\ Denotes(khttp_gmtime_r(t), DateAt(t.day + 719468, era, y, yd))
         /\ Tells(khttp_gmtime_r(t), t.sec)
<1>1. t.day + 719468 \in Int
  BY SMT DEF IsTime
<1>2. PICK erab, z, zd : Located(t.sec, t.day + 719468, erab, z, zd)
  BY <1>1, CivilTimeLocates
<1>3. Place(t.day + 719468, erab, z, zd)
  BY <1>2 DEF Located
<1>4. erab = era /\ z = y /\ zd = yd
  BY <1>3, OnePlace
<1>5. Located(t.sec, t.day + 719468, era, y, yd)
  BY <1>2, <1>4
<1> DEFINE tms == CivilTime(t.sec, t.day + 719468)
           d == DateAt(t.day + 719468, era, y, yd)
<1>6. /\ d = [day |-> tms.mday, month |-> tms.mon + 1, year |-> tms.year + 1900,
              wday |-> tms.wday, yday |-> tms.yday]
      /\ tms.mon \in Int /\ tms.year \in Int
      /\ tms.sec = t.sec % 60 /\ tms.min = (t.sec % 3600) \div 60 /\ tms.hour = t.sec \div 3600
  BY <1>5 DEF Located
<1>7. khttp_gmtime_r(t) = tms
  BY GmtimeIs
<1> HIDE DEF tms, d
<1>8. Denotes(tms, d)
  BY <1>6 DEF Denotes
<1>9. Tells(tms, t.sec)
  BY <1>6 DEF Tells
<1> QED
  BY <1>7, <1>8, <1>9 DEF d

\* The numbers of a date as the application passes them back.
Numbers(dt) == [sec |-> dt.sec, min |-> dt.min, hour |-> dt.hour,
                mday |-> dt.mday, mon |-> dt.mon - 1, year |-> dt.year - 1900]

\* A record of the fields of struct tm, with the month from 1 and the full year.
Shown(f, dt) ==
  /\ dt.mon = f.mon + 1 /\ dt.year = f.year + 1900 /\ dt.mday = f.mday
  /\ dt.sec = f.sec /\ dt.min = f.min /\ dt.hour = f.hour

LEMMA DatetimeShows ==
  ASSUME NEW t, IsTime(t)
  PROVE  Shown(khttp_gmtime_r(t), khttp_epoch2datetime(t))
<1> DEFINE tms == CivilTime(t.sec, t.day + 719468)
<1>1. \E rem, days, year, erayear, yearday, march, mon :
        tms = InMonth(rem, days, year, erayear, yearday, march, mon)
  BY DEF CivilTime, ErasDay, InEra, InYear
<1>2. khttp_gmtime_r(t) = tms
  BY GmtimeIs
<1>3. khttp_epoch2datetime(t) = [khttp_gmtime_r(t) EXCEPT !.mon = @ + 1, !.year = @ + 1900]
  BY DEF khttp_epoch2datetime
<1> HIDE DEF tms
<1>4. khttp_epoch2datetime(t) = [tms EXCEPT !.mon = @ + 1, !.year = @ + 1900]
  BY <1>2, <1>3
<1>5. Shown(tms, [tms EXCEPT !.mon = @ + 1, !.year = @ + 1900])
  BY <1>1 DEF InMonth, Shown
<1> QED
  BY <1>2, <1>4, <1>5

LEMMA NumbersDenote ==
  ASSUME NEW f, NEW d, NEW sec, Denotes(f, d), Tells(f, sec), NEW dt, Shown(f, dt)
  PROVE  Denotes(Numbers(dt), d) /\ Tells(Numbers(dt), sec)
         /\ Numbers(dt).year = dt.year - 1900 /\ Numbers(dt).year = f.year
<1>1. dt.mon - 1 = f.mon /\ dt.year - 1900 = f.year
  BY DEF Denotes, Shown
<1> QED
  BY <1>1 DEF Denotes, Shown, Tells, Numbers

LEMMA MktimeOk ==
  ASSUME NEW f PROVE khttp_mktime(f).ok <=> khttp_validate_time(f)
<1>1. CASE khttp_validate_time(f)
  <2>1. khttp_mktime(f).ok = TRUE
    BY <1>1, Assembles DEF Assembled
  <2> QED
    BY <1>1, <2>1
<1>2. CASE ~khttp_validate_time(f)
  <2>1. khttp_mktime(f) = Refused
    BY <1>2 DEF khttp_mktime
  <2>2. khttp_mktime(f).ok = FALSE
    BY <2>1 DEF Refused
  <2> QED
    BY <1>2, <2>2
<1> QED
  BY <1>1, <1>2

\* The days that are accepted are those of the month.
OnlyItsDays(S, month, year) ==
  \A d \in S : khttp_date2epoch(d, month, year).ok <=> d \in 1..Civil!LastOf(month, year)

LEMMA DaysAccepted ==
  ASSUME BoundsAssumption, NEW month \in 1..12, NEW year \in Int, Accepted(year - 1900)
  PROVE  OnlyItsDays(Int, month, year)
<1> SUFFICES ASSUME NEW d \in Int
             PROVE  khttp_date2epoch(d, month, year).ok <=> d \in 1..Civil!LastOf(month, year)
  BY DEF OnlyItsDays
<1> DEFINE f == [sec |-> 0, min |-> 0, hour |-> 0, mday |-> d, mon |-> month - 1, year |-> year - 1900]
<1>1. khttp_date2epoch(d, month, year) = khttp_mktime(f)
  BY DEF khttp_date2epoch, khttp_datetime2epoch
<1>2. /\ f.sec \in 0..59 /\ f.min \in 0..59 /\ f.hour \in 0..23
      /\ f.mday = d /\ f.mon = month - 1 /\ f.year = year - 1900
  OBVIOUS
<1> HIDE DEF f
<1>3. PICK since \in Int : since = year - 1900 /\ since + 1900 = year
  <2>1. year - 1900 \in Int /\ year - 1900 + 1900 = year
    OBVIOUS
  <2> QED
    BY <2>1
<1>4. Civil!LastOf(month, year) = (IF month = 2 /\ ISLEAP(since) THEN 29 ELSE DAYS_IN_MONTH[month])
  <2>1. Civil!LastOf(month, since + 1900)
          = (IF month = 2 /\ ISLEAP(since) THEN 29 ELSE DAYS_IN_MONTH[month])
    BY LastOfIs
  <2> QED
    BY <1>3, <2>1
<1>5. f.mon \in 0..11 /\ f.mon + 1 = month /\ (f.mon = 1 <=> month = 2)
  BY <1>2
<1>6. f.year = since /\ f.year \in MinYear..MaxYear
  BY <1>2, <1>3 DEF Accepted
<1>7. khttp_validate_time(f)
        <=> f.mday \in 1..IF f.mon = 1 /\ ISLEAP(f.year) THEN 29 ELSE DAYS_IN_MONTH[f.mon + 1]
  BY <1>2, <1>5, <1>6 DEF khttp_validate_time
<1>8. (IF f.mon = 1 /\ ISLEAP(f.year) THEN 29 ELSE DAYS_IN_MONTH[f.mon + 1])
        = Civil!LastOf(month, year)
  BY <1>4, <1>5, <1>6
<1> QED
  BY <1>1, <1>2, <1>7, <1>8, MktimeOk

LEMMA PlaceReadBack ==
  ASSUME BoundsAssumption, NEW t, IsTime(t), Fits(t.day),
         NEW era, NEW y, NEW yd, Place(t.day + 719468, era, y, yd),
         Accepted(khttp_epoch2datetime(t).year - 1900)
  PROVE  /\ khttp_mktime(Numbers(khttp_epoch2datetime(t))) = ReadBack(t)
         /\ khttp_mktime(khttp_gmtime_r(t)) = ReadBack(t)
         /\ OnlyItsDays(Int, khttp_epoch2datetime(t).mon, khttp_epoch2datetime(t).year)
<1> DEFINE f == khttp_gmtime_r(t)
           dt == khttp_epoch2datetime(t)
           d == DateAt(t.day + 719468, era, y, yd)
<1>1. Denotes(f, d) /\ Tells(f, t.sec)
  BY GmtimeTells
<1>2. Shown(f, dt)
  BY DatetimeShows
<1>3. /\ Denotes(Numbers(dt), d) /\ Tells(Numbers(dt), t.sec)
      /\ Numbers(dt).year = dt.year - 1900 /\ Numbers(dt).year = f.year
  <2> HIDE DEF f, dt, d
  <2> QED
    BY <1>1, <1>2, NumbersDenote
<1>4. Recorded(f, t) /\ Recorded(Numbers(dt), t)
  <2> HIDE DEF f, dt
  <2> QED
    BY <1>1, <1>3 DEF Recorded
<1>5. Accepted(f.year) /\ Accepted(Numbers(dt).year)
  <2>1. Accepted(dt.year - 1900)
    OBVIOUS
  <2> HIDE DEF f, dt
  <2> QED
    BY <1>3, <2>1
<1>6. khttp_mktime(Numbers(dt)) = ReadBack(t)
  <2> DEFINE g == Numbers(dt)
  <2>1. Recorded(g, t) /\ Accepted(g.year)
    BY <1>4, <1>5
  <2> HIDE DEF g
  <2>2. khttp_mktime(g) = ReadBack(t)
    BY <2>1, MktimeIs
  <2> QED
    BY <2>2 DEF g
<1>7. khttp_mktime(f) = ReadBack(t)
  <2> HIDE DEF f
  <2> QED
    BY <1>4, <1>5, MktimeIs
<1>8. dt.mon \in 1..12 /\ dt.year \in Int
  <2>1. IsDate(d)
    BY PlaceIsDate
  <2> HIDE DEF f, dt, d
  <2> QED
    BY <1>1, <1>2, <2>1 DEF IsDate, Denotes, Shown
<1>9. OnlyItsDays(Int, dt.mon, dt.year)
  <2>1. Accepted(dt.year - 1900)
    OBVIOUS
  <2> HIDE DEF dt
  <2> QED
    BY <1>8, <2>1, DaysAccepted
<1> QED
  BY <1>6, <1>7, <1>9

\* The interfaces of before have 1970 for a time before the epoch.
LEMMA YearBeforeEpoch ==
  ASSUME NEW t, t.day < 0
  PROVE  kutil_epoch2tmvals(t).year = 70
<1> DEFINE epoch == [day |-> 0, sec |-> 0]
<1>1. kutil_epoch2tmvals(t) = khttp_gmtime_r(epoch)
  BY DEF kutil_epoch2tmvals, FromEpoch, khttp_epoch2tms
<1>2. IsTime(epoch) /\ epoch.day + 719468 = 719468
  BY DEF IsTime
<1>3. Place(719468, 4, 369, 306)
  BY SMT DEF Place, IsYear, Before, YearLen
<1> HIDE DEF epoch
<1>4. Place(epoch.day + 719468, 4, 369, 306)
  BY <1>2, <1>3
<1>5. Denotes(khttp_gmtime_r(epoch), DateAt(epoch.day + 719468, 4, 369, 306))
  BY <1>2, <1>4, GmtimeTells
<1>6. DateAt(epoch.day + 719468, 4, 369, 306).year = 1970
  BY SMT DEF DateAt, Month
<1>7. khttp_gmtime_r(epoch).year \in Int /\ khttp_gmtime_r(epoch).year + 1900 = 1970
  BY <1>5, <1>6 DEF Denotes
<1> QED
  BY <1>1, <1>7

\* Every time whose seconds fit and whose year is accepted.
ReadBackInBounds == Fits(now.day) /\ Accepted(tm.year - 1900) => NumbersReadBack(Int)

LEMMA TimeReadBack ==
  ASSUME BoundsAssumption, now \in [day : Int, sec : Nat], now.sec < 86400
  PROVE  ReadBackInBounds
<1> SUFFICES ASSUME Fits(now.day), Accepted(tm.year - 1900) PROVE NumbersReadBack(Int)
  BY DEF ReadBackInBounds
<1>1. IsTime(now)
  BY DEF IsTime
<1>2. PICK era, y, yd : Place(now.day + 719468, era, y, yd)
  BY <1>1, HasPlace
<1>3. tm = khttp_epoch2datetime(now)
  BY DEF tm
<1>4. /\ khttp_mktime(Numbers(tm)) = ReadBack(now)
      /\ khttp_mktime(khttp_gmtime_r(now)) = ReadBack(now)
      /\ OnlyItsDays(Int, tm.mon, tm.year)
  BY <1>1, <1>2, <1>3, PlaceReadBack
<1>5. ReadBack(now) = Same
  BY DEF ReadBack, Same
<1>6. khttp_datetime2epoch(tm.mday, tm.mon, tm.year, tm.hour, tm.min, tm.sec) = Same
  <2>1. khttp_datetime2epoch(tm.mday, tm.mon, tm.year, tm.hour, tm.min, tm.sec)
          = khttp_mktime(Numbers(tm))
    BY DEF khttp_datetime2epoch, Numbers
  <2> QED
    BY <1>4, <1>5, <2>1
<1>7. SameInt(khttp_epoch2tms(now))
  <2>1. khttp_epoch2tms(now).tm = khttp_gmtime_r(now)
    BY DEF khttp_epoch2tms
  <2> QED
    BY <1>4, <1>5, <2>1 DEF SameInt
<1>8. now.day >= 0
        => kutil_datetime2epoch(tm.mday, tm.mon, tm.year, tm.hour, tm.min, tm.sec) = now
  <2>1. kutil_datetime2epoch(tm.mday, tm.mon, tm.year, tm.hour, tm.min, tm.sec)
          = IF Same.ok THEN [day |-> Same.day, sec |-> Same.sec] ELSE [day |-> -1, sec |-> 86399]
    BY <1>6 DEF kutil_datetime2epoch
  <2>2. Same.ok /\ Same.day = now.day /\ Same.sec = now.sec
    BY DEF Same
  <2>3. [day |-> now.day, sec |-> now.sec] = now
    OBVIOUS
  <2> QED
    BY <2>1, <2>2, <2>3
<1>9. now.day >= 0 \/ kutil_epoch2tmvals(now).year = 70
  BY <1>1, YearBeforeEpoch DEF IsTime
<1>10. \A d \in Int :
         khttp_date2epoch(d, tm.mon, tm.year).ok <=> d \in 1..Civil!LastOf(tm.mon, tm.year)
  BY <1>4 DEF OnlyItsDays
<1> QED
  BY <1>6, <1>7, <1>8, <1>9, <1>10 DEF NumbersReadBack

\* Whatever the day and its second, as long as the seconds fit and the year is
\* one that is accepted: the numbers of its date, passed back, are that very
\* time, in the interfaces with 64-bit numbers and ints and in those of before,
\* and no day that the month has not is accepted (datetime.c:98-203, 475-579).
THEOREM NumbersAreReadBack ==
  ASSUME DatesAssumption, BoundsAssumption PROVE ClockSpec => []ReadBackInBounds
<1>1. ClockType => ReadBackInBounds
  BY TimeReadBack DEF ClockType
<1> QED
  BY <1>1, ClockTyped, PTL

=============================================================================
