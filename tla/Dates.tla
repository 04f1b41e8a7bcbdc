---------------------------------- MODULE Dates ----------------------------------
(***************************************************************************)
(* An application that keeps a time in seconds and shows and reads it as a *)
(* date, day after day: the conversions of src/datetime.c and the          *)
(* validator of dates of src/kcgi.c against the calendar.                  *)
(***************************************************************************)
EXTENDS Valid

CONSTANTS Starts, Seconds, Span

DatesAssumption ==
  Starts \subseteq Int /\ Seconds \subseteq Nat /\ (\A s \in Seconds : s < 86400) /\ Span \in Nat

\* The bounds on days and years are numbers, whatever the width of the integers.
BoundsAssumption == LastDay \in Nat /\ MinYear \in Int /\ MaxYear \in Int

VARIABLES now,     \* the time, day and second
          left     \* how many days the clock still runs

clockvars == <<now, left>>

tm == khttp_epoch2datetime(now)
DateOf(t) == [day |-> t.mday, month |-> t.mon, year |-> t.year, wday |-> t.wday, yday |-> t.yday]

Civil == INSTANCE Calendar WITH date <- DateOf(tm)

ClockInit == now \in [day : Starts, sec : Seconds] /\ left = Span

Tomorrow ==
  /\ left > 0
  /\ now' = [now EXCEPT !.day = @ + 1]
  /\ left' = left - 1

ClockSpec == ClockInit /\ [][Tomorrow]_clockvars

-----------------------------------------------------------------------------
\* Seen through khttp_epoch2datetime the days follow one another as in the
\* calendar: through month and year ends, leap days, centuries, the eras of
\* 400 years, the epoch and times before it (datetime.c:263-331): whenever the
\* time changes the date makes a step of Calendar.
ImplementsCalendar == Civil!Init /\ [][now' # now => Civil!Next]_now

Same == [ok |-> TRUE, day |-> now.day, sec |-> now.sec]
SameInt(tms) == tms.ok => khttp_mktime(tms.tm) = Same
SameDay(result) == result.ok /\ result.parsed = <<now.day>>

\* Through the numbers of a date, in each interface, and only the days that the
\* month has are accepted.
NumbersReadBack(days) ==
  /\ khttp_datetime2epoch(tm.mday, tm.mon, tm.year, tm.hour, tm.min, tm.sec) = Same
  /\ SameInt(khttp_epoch2tms(now))
  /\ now.day >= 0 => kutil_datetime2epoch(tm.mday, tm.mon, tm.year, tm.hour, tm.min, tm.sec) = now
  /\ now.day >= 0 \/ kutil_epoch2tmvals(now).year = 70
  /\ \A d \in days :
       khttp_date2epoch(d, tm.mon, tm.year).ok <=> d \in 1..Civil!LastOf(tm.mon, tm.year)

TextReadBack ==
  tm.year \in 0..9999 => SameDay(kvalid_date(SubSeq(khttp_epoch2ustr(now, 64), 1, 10)))

\* A date read back is the time it was made from, in every interface, as text
\* too, and only the days that the month has are accepted, so that what a
\* validator lets through is the day the user meant (datetime.c:98-203,
\* 475-579, kcgi.c:1242-1279).
DatesInverse == NumbersReadBack({0, 28, 29, 30, 31, 32}) /\ TextReadBack

=============================================================================
