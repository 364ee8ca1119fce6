------------------------------ MODULE Calendar ------------------------------
(***************************************************************************)
(* UTC time as the strategies read it from a candle's ts (_utc in each of  *)
(* their files).  A ts counts hours from the midnight that begins day 0.   *)
(***************************************************************************)
EXTENDS Integers

CONSTANTS
  FirstWeekday,  \* of day 0; Monday is 0
  FirstMonthDay  \* of day 0, in a month that does not end

ASSUME CalendarConstants == FirstWeekday \in 0..6 /\ FirstMonthDay \in Nat \ {0}

Hour(ts) == ts % 24
Day(ts) == ts \div 24
Weekday(ts) == (FirstWeekday + Day(ts)) % 7
FirstFriday(ts) == Weekday(ts) = 4 /\ FirstMonthDay + Day(ts) <= 7
=============================================================================
