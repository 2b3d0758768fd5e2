------------------------------- MODULE Timer --------------------------------
(***************************************************************************)
(* device/watch.cc on machine/lapic.cc: the count and the divisor of the   *)
(* timer are worked out once, from microseconds and the measured frequency,*)
(* and each CPU's timer is programmed with them; the idle loop masks it and*)
(* unmasks it.  The count register is narrow, and the divisor is a code.   *)
(***************************************************************************)
EXTENDS Integers

CONSTANTS CPU,
          Micros,  \* intervals that are asked for
          Ticks,   \* frequencies, in ticks per millisecond
          Word     \* number of values of a count register, 2^32 in the code

\* Intervals, in microseconds, and frequencies are unsigned.
TimerAssumption == Micros \subseteq Nat /\ Ticks \subseteq Nat /\ Word \in Nat \ {0}

MaxShift == 7      \* the timer divides by 128 at most

VARIABLES ticks,   \* what timer_ticks() has measured
          watch,   \* irq_interval, initial_count and divide of the watch
          lapic    \* the timer registers of each CPU

timer == <<ticks, watch, lapic>>

\* div64: bit by bit in the code
Div64(num, den) == num \div den

\* timer_div: the code of a divisor, 0xff for what is none
Masks == <<11, 0, 1, 2, 3, 8, 9, 10>>
TimerDiv(div) ==
  IF \E trail \in 0 .. 7 : div = 2 ^ trail
  THEN Masks[1 + CHOOSE trail \in 0 .. 7 : div = 2 ^ trail] ELSE 255

\* What the hardware makes of a code: its bits 0, 1 and 3.
Divides(code) ==
  LET n == (code % 4) + 4 * ((code \div 8) % 2) IN IF n = 7 THEN 1 ELSE 2 ^ (n + 1)

\* A faulty form of Shift: the shift is not bounded by the word but by one more.
ShiftLate(tmp) ==
  IF tmp \div (2 * Word * 2 ^ MaxShift) # 0 THEN -1
  ELSE CHOOSE s \in 0 .. MaxShift : tmp \div (2 * Word * 2 ^ s) = 0
         /\ \A r \in 0 .. s - 1 : tmp \div (2 * Word * 2 ^ r) # 0

\* The smallest shift that makes the count fit, -1 if none does.
Shift(tmp) ==
  IF tmp \div (Word * 2 ^ MaxShift) # 0 THEN -1
  ELSE CHOOSE s \in 0 .. MaxShift : tmp \div (Word * 2 ^ s) = 0
         /\ \A r \in 0 .. s - 1 : tmp \div (Word * 2 ^ r) # 0

Interval(us) == Div64(us * ticks, 1000)

TimerInit ==
  /\ ticks \in Ticks
  /\ watch = [interval |-> 0, count |-> 0, divide |-> 0]
  /\ lapic = [c \in CPU |-> [count |-> 0, code |-> 11, masked |-> TRUE, periodic |-> FALSE]]

\* windup(); an interval that is too long is refused.
Windup(us) ==
  LET tmp == Interval(us)  shift == Shift(tmp) IN
  /\ watch' = IF shift < 0 THEN watch
              ELSE [interval |-> us, count |-> (tmp \div 2 ^ shift) % Word, divide |-> 2 ^ shift]
  /\ UNCHANGED <<ticks, lapic>>

\* setTimer: the count comes last, and starts the timer.
SetTimer(c, count, divide, periodic, masked) ==
  lapic' = [lapic EXCEPT ![c] = [count |-> count, code |-> TimerDiv(divide),
                                 masked |-> masked, periodic |-> periodic]]

\* timer_ticks() leaves the timer of the boot CPU stopped.
Measure(c) ==
  /\ watch.interval = 0
  /\ SetTimer(c, 0, 1, FALSE, TRUE) /\ UNCHANGED <<ticks, watch>>

Activate(c) ==
  /\ watch.interval # 0
  /\ SetTimer(c, watch.count, watch.divide, TRUE, FALSE)
  /\ UNCHANGED <<ticks, watch>>

\* block(), unblock(): setTimerMasked
SetTimerMasked(c, masked) ==
  /\ lapic[c].periodic
  /\ lapic' = [lapic EXCEPT ![c].masked = masked]
  /\ UNCHANGED <<ticks, watch>>

TimerNext ==
  \/ \E us \in Micros : Windup(us)
  \/ \E c \in CPU : Measure(c) \/ Activate(c) \/ \E masked \in BOOLEAN : SetTimerMasked(c, masked)

TimerSpec == TimerInit /\ [][TimerNext]_timer
-----------------------------------------------------------------------------
\* A timer that runs was asked for: its count fits the register, count times
\* divisor miss the ticks of the interval by less than one divisor, and no
\* smaller divisor would have done; masking changes none of that.
TimerKeepsInterval ==
  \A c \in CPU : lapic[c].periodic =>
    \E us \in Micros :
      LET period == lapic[c].count * Divides(lapic[c].code) IN
      /\ lapic[c].count < Word
      /\ Interval(us) - period \in 0 .. Divides(lapic[c].code) - 1
      /\ Divides(lapic[c].code) > 1 => 2 * lapic[c].count >= Word - 1
=============================================================================
