------------------------------ MODULE Calendar ------------------------------
(***************************************************************************)
(* user/time/time.cc, with the conversions of utils/math.h: a time that is *)
(* kept in fields and moved by seconds, forwards by the clock's ticks and  *)
(* in both directions by the timezone.  The code moves a minute in each    *)
(* round of a loop and carries from field to field; the amount that is     *)
(* left may fall below zero on the way, so that the seconds come right.    *)
(***************************************************************************)
EXTENDS Integers, Sequences

CONSTANTS Start,    \* the dates to start from, as <<century, year, month, day>>
          Amount,   \* seconds to move by
          Zone,     \* timezones, in hours
          AmountWord,     \* number of values of the amount, 2^32 in the code
          MaxMoves  \* bound: moves in one behaviour

\* get_days_per_month, for a year that is kept as century and year
DaysPerMonth == <<31, 28, 31, 30, 31, 30, 31, 31, 30, 31, 30, 31>>
Days(month, year, century) ==
  IF month = 2 /\ year % 4 = 0 /\ (year # 0 \/ century % 4 = 0)
  THEN 29 ELSE DaysPerMonth[month]

ASSUME CalendarAssumption ==
  /\ \A s \in Start : /\ s[1] \in 0 .. 99 /\ s[2] \in 0 .. 99 /\ s[3] \in 1 .. 12
                        /\ s[4] \in 1 .. Days(s[3], s[2], s[1])
  /\ Amount \subseteq Nat /\ Zone \subseteq Int

VARIABLES date,   \* the fields of Time
          origin, \* auxiliary: the first day
          moved,  \* auxiliary: where the time goes, in seconds since the start of that day
          going,  \* the loop that is running, if any: "up", "down"
          left,   \* amount: seconds still to move by
          moves,  \* auxiliary: moves so far
          halted  \* an assertion has stopped the CPU

cvars == <<date, origin, moved, going, left, moves, halted>>

-----------------------------------------------------------------------------
(* A minute forwards, a minute back: each field carries into the next one. *)

DayAfter(d) ==
  LET weekday == (d.weekday % 7) + 1
      last == d.day = Days(d.month, d.year, d.century)
      year == IF last /\ d.month = 12 THEN (d.year + 1) % 100 ELSE d.year
  IN  [d EXCEPT !.weekday = weekday,
                !.day = IF last THEN 1 ELSE @ + 1,
                !.month = IF last THEN (@ % 12) + 1 ELSE @,
                !.year = year,
                !.century = IF last /\ d.month = 12 /\ year = 0 THEN (@ + 1) % 100 ELSE @]

MinuteAfter(d) ==
  LET minute == (d.minute + 1) % 60
      hour == IF minute = 0 THEN (d.hour + 1) % 24 ELSE d.hour
      next == [d EXCEPT !.minute = minute, !.hour = hour]
  IN  IF minute = 0 /\ hour = 0 THEN DayAfter(next) ELSE next

\* A faulty form of DayBefore: the days of the month that has passed.
DayBeforeLate(d) ==
  LET month == IF d.month = 1 THEN 12 ELSE d.month - 1
      year == IF d.year = 0 THEN 99 ELSE d.year - 1
      back == [d EXCEPT !.weekday = IF @ = 1 THEN 7 ELSE @ - 1]
      before == [back EXCEPT !.month = month, !.day = Days(d.month, d.year, d.century)]
  IN  IF d.day # 1 THEN [back EXCEPT !.day = @ - 1]
      ELSE IF month # 12 THEN before
      ELSE [before EXCEPT !.year = year, !.century = IF year = 99 THEN (@ - 1) % 65536 ELSE @]

\* The month goes first, as its days are asked for; the year may go after it.
DayBefore(d) ==
  LET month == IF d.month = 1 THEN 12 ELSE d.month - 1
      year == IF d.year = 0 THEN 99 ELSE d.year - 1
      back == [d EXCEPT !.weekday = IF @ = 1 THEN 7 ELSE @ - 1]
      before == [back EXCEPT !.month = month, !.day = Days(month, d.year, d.century)]
  IN  IF d.day # 1 THEN [back EXCEPT !.day = @ - 1]
      ELSE IF month # 12 THEN before
      ELSE [before EXCEPT !.year = year, !.century = IF year = 99 THEN (@ - 1) % 65536 ELSE @]

MinuteBefore(d) ==
  LET minute == IF d.minute = 0 THEN 59 ELSE d.minute - 1
      hour == IF minute # 59 THEN d.hour ELSE IF d.hour = 0 THEN 23 ELSE d.hour - 1
      back == [d EXCEPT !.minute = minute, !.hour = hour]
  IN  IF minute = 59 /\ hour = 23 /\ d.hour = 0 THEN DayBefore(back) ELSE back

-----------------------------------------------------------------------------
(* A plain count, against which the fields are held: days since the first  *)
(* of March of year 0, a year that ends with its leap day.                 *)

DayNumber(d) ==
  LET y == 100 * d.century + d.year - (IF d.month <= 2 THEN 1 ELSE 0)
      m == (d.month + 9) % 12
  IN  365 * y + y \div 4 - y \div 100 + y \div 400 + (153 * m + 2) \div 5 + d.day - 1

\* Seconds from a day on
SecondsSince(day, d) == 86400 * (DayNumber(d) - day) + 3600 * d.hour + 60 * d.minute + d.second

\* The first of March 2000 was a Wednesday; weeks start on Sunday.
WeekdayOf(d) == ((DayNumber(d) + 3) % 7) + 1

Fields(s) ==
  LET d == [century |-> s[1], year |-> s[2], month |-> s[3], day |-> s[4],
            hour |-> 23, minute |-> 59, second |-> 58, weekday |-> 1]
  IN  [d EXCEPT !.weekday = WeekdayOf(d)]

-----------------------------------------------------------------------------
CalendarInit ==
  /\ date \in {Fields(s) : s \in Start}
  /\ origin = DayNumber(date) /\ moved = SecondsSince(origin, date)
  /\ going = "none" /\ left = 0 /\ moves = 0 /\ halted = FALSE

BeginMove(way, amount) ==
  /\ going = "none" /\ ~ halted /\ moves < MaxMoves
  /\ going' = way /\ left' = amount
  /\ moved' = IF way = "up" THEN moved + amount ELSE moved - amount
  /\ moves' = moves + 1
  /\ UNCHANGED <<date, origin, halted>>

\* increment_seconds, also as operator++ and operator+=: an amount that makes
\* the sum wrap is refused.
Increment(amount) == date.second + amount < AmountWord /\ BeginMove("up", amount)

\* decrement_seconds, also as operator-- and operator-=
Decrement(amount) == amount > 0 /\ BeginMove("down", amount)

\* ... with an amount of 0, which the assertion does not allow: it is what
\* apply_timezone has for timezone 0.
DecrementByNothing ==
  /\ going = "none" /\ ~ halted /\ moves < MaxMoves /\ 0 \in Zone
  /\ halted' = TRUE
  /\ UNCHANGED <<date, origin, moved, going, left, moves>>

\* set_timezone, apply_timezone
ApplyTimezone(zone) ==
  IF zone > 0 THEN Increment(3600 * zone) ELSE Decrement(3600 * (-zone))

\* A round of a loop: a minute for each full one in second + amount ...
RoundUp ==
  /\ going = "up" /\ date.second + left >= 60
  /\ date' = MinuteAfter(date) /\ left' = left - 60
  /\ UNCHANGED <<origin, moved, going, moves, halted>>

\* ... or until second - amount is not negative.
RoundDown ==
  /\ going = "down" /\ date.second - left < 0
  /\ date' = MinuteBefore(date) /\ left' = left - 60
  /\ UNCHANGED <<origin, moved, going, moves, halted>>

\* After the loop: second += amount, second -= amount
Finish ==
  /\ \/ going = "up" /\ date.second + left < 60
        /\ date' = [date EXCEPT !.second = @ + left]
     \/ going = "down" /\ date.second - left >= 0
        /\ date' = [date EXCEPT !.second = @ - left]
  /\ going' = "none" /\ left' = 0
  /\ UNCHANGED <<origin, moved, moves, halted>>

CalendarNext ==
  \/ \E amount \in Amount : Increment(amount) \/ Decrement(amount)
  \/ \E zone \in Zone : ApplyTimezone(zone)
  \/ DecrementByNothing \/ RoundUp \/ RoundDown \/ Finish

CalendarSpec == CalendarInit /\ [][CalendarNext]_cvars
-----------------------------------------------------------------------------
\* However the time is moved, forwards over the end of a month or back over it,
\* across leap days, centuries and the turn of a week, its fields are legal in
\* every round, they are the asked-for number of seconds away in the end, and
\* the weekday is the one of the date.
TimeIsCount ==
  /\ date.second \in 0 .. 59 /\ date.minute \in 0 .. 59 /\ date.hour \in 0 .. 23
  /\ date.day \in 1 .. Days(date.month, date.year, date.century)
  /\ SecondsSince(origin, date)
       + (IF going = "up" THEN left ELSE IF going = "down" THEN -left ELSE 0) = moved
  /\ date.weekday = WeekdayOf(date)
=============================================================================
