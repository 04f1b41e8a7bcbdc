-------------------------------- MODULE Calendar --------------------------------
(***************************************************************************)
(* The civil calendar, as everyone knows it: what src/datetime.c promises. *)
(* It counts days one after another and knows no epoch.                    *)
(***************************************************************************)
EXTENDS Integers

VARIABLE date    \* day, month, year, wday since Sunday, yday since the first

Leap(year) == (year % 4 = 0 /\ year % 100 # 0) \/ year % 400 = 0

LastOf(month, year) ==
  CASE month = 2 -> IF Leap(year) THEN 29 ELSE 28
    [] month \in {4, 6, 9, 11} -> 30
    [] OTHER -> 31

Init ==
  /\ date.month \in 1..12 /\ date.day \in 1..LastOf(date.month, date.year)
  /\ date.wday \in 0..6
  /\ (date.day = 1 /\ date.month = 1) <=> date.yday = 0

Advance(day, month, year, yday) ==
  date' = [day |-> day, month |-> month, year |-> year,
           wday |-> (date.wday + 1) % 7, yday |-> yday]

NextDay ==
  /\ date.day < LastOf(date.month, date.year)
  /\ Advance(date.day + 1, date.month, date.year, date.yday + 1)

NextMonth ==
  /\ date.day = LastOf(date.month, date.year) /\ date.month < 12
  /\ Advance(1, date.month + 1, date.year, date.yday + 1)

NextYear ==
  /\ date.day = 31 /\ date.month = 12
  /\ Advance(1, 1, date.year + 1, 0)

Next == NextDay \/ NextMonth \/ NextYear
Spec == Init /\ [][Next]_date

=============================================================================
