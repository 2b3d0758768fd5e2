-------------------------- MODULE SequentialProofs --------------------------
(***************************************************************************)
(* Proofs about calls that are made one after the other.  The timer, for   *)
(* any intervals, frequency and width of the count register.  The shell,   *)
(* for any characters and lengths of a jump.  The heap, for any size, any  *)
(* requests and any number of allocations: inside a call, Good says of the *)
(* memory that a set of blocks tiles it, and Holds relates the blocks to   *)
(* the free list, to the allocations and to the blocks in hand; a lemma    *)
(* for each step of a call says what becomes of the set.  The queue, for   *)
(* any finite set of items: it implements the lists of Lists, since its    *)
(* links are always those of a sequence, which Chain relates to them.  The *)
(* key decoder, for any sequence of keys: the codes that wait are read from*)
(* a chain of prefixes and modifiers.  The time, for any dates and amounts:*)
(* a step of the fields is a minute of a plain count of seconds.  A window *)
(* of the screen, of any size and place: what would be seen if the buffer  *)
(* was printed is always the end of the text.  The string, for any         *)
(* characters and lengths: its calls are composed as in the code, and the  *)
(* words of a text are a function of the place they are counted up to,     *)
(* which the save index of strtok() is compared with.                      *)
(***************************************************************************)
EXTENDS Timer, Shell, Heap, Queue, Decoder, Calendar, Screen, Text, ListProofs

-----------------------------------------------------------------------------
(* The timer                                                               *)

Powers == <<1, 2, 4, 8, 16, 32, 64, 128>>

LEMMA PowersAre ==
  /\ \A s \in 0 .. 7 : 2 ^ s = Powers[s + 1]
  /\ \A s \in 0 .. 7 : s = 0 \/ s = 1 \/ s = 2 \/ s = 3 \/ s = 4 \/ s = 5 \/ s = 6 \/ s = 7
  /\ Powers[1] = 1 /\ Powers[2] = 2 /\ Powers[3] = 4 /\ Powers[4] = 8
  /\ Powers[5] = 16 /\ Powers[6] = 32 /\ Powers[7] = 64 /\ Powers[8] = 128
<1>1. /\ 2 ^ 0 = 1 /\ 2 ^ 1 = 2 /\ 2 ^ 2 = 4 /\ 2 ^ 3 = 8
      /\ 2 ^ 4 = 16 /\ 2 ^ 5 = 32 /\ 2 ^ 6 = 64 /\ 2 ^ 7 = 128
  OBVIOUS
<1>2. \A s \in 0 .. 7 : s = 0 \/ s = 1 \/ s = 2 \/ s = 3 \/ s = 4 \/ s = 5 \/ s = 6 \/ s = 7
  OBVIOUS
<1>3. /\ Powers[1] = 1 /\ Powers[2] = 2 /\ Powers[3] = 4 /\ Powers[4] = 8
      /\ Powers[5] = 16 /\ Powers[6] = 32 /\ Powers[7] = 64 /\ Powers[8] = 128
  BY DEF Powers
<1>4. ASSUME NEW s \in 0 .. 7 PROVE 2 ^ s = Powers[s + 1]
  <2>1. CASE s = 0
    BY <1>1, <1>3, <2>1
  <2>2. CASE s = 1
    BY <1>1, <1>3, <2>2
  <2>3. CASE s = 2
    BY <1>1, <1>3, <2>3
  <2>4. CASE s = 3
    BY <1>1, <1>3, <2>4
  <2>5. CASE s = 4
    BY <1>1, <1>3, <2>5
  <2>6. CASE s = 5
    BY <1>1, <1>3, <2>6
  <2>7. CASE s = 6
    BY <1>1, <1>3, <2>7
  <2>8. CASE s = 7
    BY <1>1, <1>3, <2>8
  <2>. QED  BY <1>2, <2>1, <2>2, <2>3, <2>4, <2>5, <2>6, <2>7, <2>8
<1>. QED  BY <1>2, <1>3, <1>4

\* A quotient is zero where the divisor is too big.
LEMMA Quotient == \A t \in Nat, m \in Nat \ {0} : t \div m = 0 <=> t < m
  OBVIOUS

Log(p) == CASE p = 1 -> 0 [] p = 2 -> 1 [] p = 4 -> 2 [] p = 8 -> 3
            [] p = 16 -> 4 [] p = 32 -> 5 [] p = 64 -> 6 [] p = 128 -> 7

LEMMA PowersDiffer == \A r, s \in 0 .. 7 : 2 ^ s = 2 ^ r <=> r = s
<1>1. \A s \in 0 .. 7 : Log(2 ^ s) = s
  <2>. SUFFICES ASSUME NEW s \in 0 .. 7 PROVE Log(2 ^ s) = s
    OBVIOUS
  <2>1. CASE s = 0
    <3>1. 2 ^ s = 1
      BY <2>1, PowersAre
    <3>. QED  BY <2>1, <3>1 DEF Log
  <2>2. CASE s = 1
    <3>1. 2 ^ s = 2
      BY <2>2, PowersAre
    <3>. QED  BY <2>2, <3>1 DEF Log
  <2>3. CASE s = 2
    <3>1. 2 ^ s = 4
      BY <2>3, PowersAre
    <3>. QED  BY <2>3, <3>1 DEF Log
  <2>4. CASE s = 3
    <3>1. 2 ^ s = 8
      BY <2>4, PowersAre
    <3>. QED  BY <2>4, <3>1 DEF Log
  <2>5. CASE s = 4
    <3>1. 2 ^ s = 16
      BY <2>5, PowersAre
    <3>. QED  BY <2>5, <3>1 DEF Log
  <2>6. CASE s = 5
    <3>1. 2 ^ s = 32
      BY <2>6, PowersAre
    <3>. QED  BY <2>6, <3>1 DEF Log
  <2>7. CASE s = 6
    <3>1. 2 ^ s = 64
      BY <2>7, PowersAre
    <3>. QED  BY <2>7, <3>1 DEF Log
  <2>8. CASE s = 7
    <3>1. 2 ^ s = 128
      BY <2>8, PowersAre
    <3>. QED  BY <2>8, <3>1 DEF Log
  <2>. QED  BY PowersAre, <2>1, <2>2, <2>3, <2>4, <2>5, <2>6, <2>7, <2>8
<1>. QED  BY <1>1

\* The hardware divides by what the divisor's code was made from.
LEMMA CodeIsDivisor == \A s \in 0 .. 7 : Divides(TimerDiv(2 ^ s)) = 2 ^ s
<1>. SUFFICES ASSUME NEW s \in 0 .. 7 PROVE Divides(TimerDiv(2 ^ s)) = 2 ^ s
  OBVIOUS
<1>1. \A r \in 0 .. 7 : 2 ^ s = 2 ^ r <=> r = s
  BY PowersDiffer
<1>2. TimerDiv(2 ^ s) = Masks[1 + s]
  BY <1>1 DEF TimerDiv
<1>3. Divides(Masks[1 + s]) = 2 ^ s
  <2>1. CASE s = 0
    BY PowersAre, <2>1 DEF Divides, Masks
  <2>2. CASE s = 1
    BY PowersAre, <2>2 DEF Divides, Masks
  <2>3. CASE s = 2
    BY PowersAre, <2>3 DEF Divides, Masks
  <2>4. CASE s = 3
    BY PowersAre, <2>4 DEF Divides, Masks
  <2>5. CASE s = 4
    BY PowersAre, <2>5 DEF Divides, Masks
  <2>6. CASE s = 5
    BY PowersAre, <2>6 DEF Divides, Masks
  <2>7. CASE s = 6
    BY PowersAre, <2>7 DEF Divides, Masks
  <2>8. CASE s = 7
    BY PowersAre, <2>8 DEF Divides, Masks
  <2>. QED  BY PowersAre, <2>1, <2>2, <2>3, <2>4, <2>5, <2>6, <2>7, <2>8
<1>. QED  BY <1>2, <1>3

LEMMA ShiftIs ==
  ASSUME TimerAssumption, NEW whole \in Nat, ~ Shift(whole) < 0
  PROVE  LET s == Shift(whole) IN
         /\ s \in 0 .. 7 /\ whole < Word * 2 ^ s
         /\ s # 0 => whole >= Word * 2 ^ (s - 1)
<1>1. Word \in Nat \ {0} /\ MaxShift = 7
  BY DEF TimerAssumption, MaxShift
<1>2. PICK room : room = [s \in 0 .. 7 |-> Word * 2 ^ s]
  OBVIOUS
<1>3. \A s \in 0 .. 7 : room[s] = Word * 2 ^ s /\ room[s] \in Nat \ {0}
  <2>. SUFFICES ASSUME NEW s \in 0 .. 7 PROVE Word * 2 ^ s \in Nat \ {0}
    BY <1>2
  <2>1. CASE s = 0
    <3>1. 2 ^ s = 1
      BY <2>1, PowersAre
    <3>. QED  BY <1>1, <3>1
  <2>2. CASE s = 1
    <3>1. 2 ^ s = 2
      BY <2>2, PowersAre
    <3>. QED  BY <1>1, <3>1
  <2>3. CASE s = 2
    <3>1. 2 ^ s = 4
      BY <2>3, PowersAre
    <3>. QED  BY <1>1, <3>1
  <2>4. CASE s = 3
    <3>1. 2 ^ s = 8
      BY <2>4, PowersAre
    <3>. QED  BY <1>1, <3>1
  <2>5. CASE s = 4
    <3>1. 2 ^ s = 16
      BY <2>5, PowersAre
    <3>. QED  BY <1>1, <3>1
  <2>6. CASE s = 5
    <3>1. 2 ^ s = 32
      BY <2>6, PowersAre
    <3>. QED  BY <1>1, <3>1
  <2>7. CASE s = 6
    <3>1. 2 ^ s = 64
      BY <2>7, PowersAre
    <3>. QED  BY <1>1, <3>1
  <2>8. CASE s = 7
    <3>1. 2 ^ s = 128
      BY <2>8, PowersAre
    <3>. QED  BY <1>1, <3>1
  <2>. QED  BY PowersAre, <2>1, <2>2, <2>3, <2>4, <2>5, <2>6, <2>7, <2>8
<1>4. \A s \in 0 .. 7 : whole \div room[s] = 0 <=> whole < room[s]
  BY <1>3, Quotient
<1>5. whole \div room[7] = 0
  <2>1. whole \div (Word * 2 ^ 7) = 0
    BY <1>1 DEF Shift
  <2>2. room[7] = Word * 2 ^ 7
    BY <1>3
  <2>. QED  BY <2>1, <2>2
<1>6. PICK x \in 0 .. 7 : whole < room[x] /\ \A r \in 0 .. x - 1 : ~ whole < room[r]
  <2>. DEFINE T == {s \in 0 .. 7 : whole < room[s]}
  <2>1. T \in SUBSET Nat /\ 7 \in T
    BY <1>4, <1>5
  <2>2. PICK x \in T : \A y \in T : x <= y
    <3>. HIDE DEF T
    <3>. QED  BY <2>1, Least
  <2>3. x \in 0 .. 7 /\ \A r \in 0 .. x - 1 : r \in 0 .. 7 /\ ~ x <= r
    BY <2>2
  <2>. QED  BY <2>2, <2>3
<1>7. /\ whole \div (Word * 2 ^ x) = 0
      /\ \A r \in 0 .. x - 1 : whole \div (Word * 2 ^ r) # 0
  <2>1. \A r \in 0 .. x - 1 : r \in 0 .. 7
    BY <1>6
  <2>. QED  BY <1>3, <1>4, <1>6, <2>1
<1>8. /\ Shift(whole) \in 0 .. 7 /\ whole \div (Word * 2 ^ Shift(whole)) = 0
      /\ \A r \in 0 .. Shift(whole) - 1 : whole \div (Word * 2 ^ r) # 0
  <2>. DEFINE Smallest(s) == /\ whole \div (Word * 2 ^ s) = 0
                             /\ \A r \in 0 .. s - 1 : whole \div (Word * 2 ^ r) # 0
  <2>1. Shift(whole) = CHOOSE s \in 0 .. 7 : Smallest(s)
    <3>1. whole \div (Word * 2 ^ 7) = 0
      BY <1>3, <1>5
    <3>. QED  BY <3>1 DEF Shift, MaxShift
  <2>2. \E s \in 0 .. 7 : Smallest(s)
    BY <1>6, <1>7
  <2>3. Shift(whole) \in 0 .. 7 /\ Smallest(Shift(whole))
    <3>. HIDE DEF Smallest
    <3>. QED  BY <2>1, <2>2
  <2>. QED  BY <2>3
<1>9. PICK s \in 0 .. 7 : /\ s = Shift(whole) /\ whole \div room[s] = 0
                          /\ \A r \in 0 .. s - 1 : whole \div room[r] # 0
  <2>1. \A r \in 0 .. Shift(whole) - 1 : r \in 0 .. 7
    BY <1>8
  <2>. QED  BY <1>3, <1>8, <2>1
<1>10. s # 0 => s - 1 \in 0 .. 7 /\ whole >= room[s - 1]
  <2>1. s # 0 => s - 1 \in 0 .. 7 /\ s - 1 \in 0 .. s - 1
    OBVIOUS
  <2>2. \A r \in 0 .. 7 : ~ whole < room[r] => whole >= room[r]
    BY <1>3
  <2>. QED  BY <1>4, <1>9, <2>1, <2>2
<1>. QED  BY <1>3, <1>4, <1>9, <1>10

\* Count and divisor 2 ^ s are as near to the interval as the register allows.
Fits(us, s, count) ==
  /\ us \in Micros /\ s \in 0 .. 7 /\ count \in 0 .. Word - 1
  /\ Interval(us) - count * 2 ^ s \in 0 .. 2 ^ s - 1
  /\ s # 0 => 2 * count >= Word - 1

LEMMA ShiftFits ==
  ASSUME TimerAssumption, ticks \in Ticks, NEW us \in Micros, NEW s,
         s = Shift(Interval(us)), ~ s < 0
  PROVE  Fits(us, s, (Interval(us) \div 2 ^ s) % Word)
<1>. DEFINE whole == Interval(us)
<1>1. whole \in Nat /\ Word \in Nat \ {0}
  <2>1. us \in Nat /\ ticks \in Nat
    BY DEF TimerAssumption
  <2>2. us * ticks \in Nat
    BY <2>1
  <2>3. \A n \in Nat : n \div 1000 \in Nat
    OBVIOUS
  <2>. QED  BY <2>2, <2>3 DEF TimerAssumption, Interval, Div64
<1>2. s \in 0 .. 7 /\ whole < Word * 2 ^ s /\ (s # 0 => whole >= Word * 2 ^ (s - 1))
  BY <1>1, ShiftIs
<1>. HIDE DEF whole
<1>3. /\ whole \div 2 ^ s \in 0 .. Word - 1 /\ whole - (whole \div 2 ^ s) * 2 ^ s \in 0 .. 2 ^ s - 1
      /\ s # 0 => 2 * (whole \div 2 ^ s) >= Word - 1
  <2>1. CASE s = 0
    <3>1. 2 ^ s = 1
      BY <2>1, PowersAre
    <3>. QED  BY <1>1, <1>2, <2>1, <3>1
  <2>2. CASE s = 1
    <3>1. 2 ^ s = 2 /\ 2 ^ (s - 1) = 1
      BY <2>2, PowersAre
    <3>. QED  BY <1>1, <1>2, <2>2, <3>1
  <2>3. CASE s = 2
    <3>1. 2 ^ s = 4 /\ 2 ^ (s - 1) = 2
      BY <2>3, PowersAre
    <3>. QED  BY <1>1, <1>2, <2>3, <3>1
  <2>4. CASE s = 3
    <3>1. 2 ^ s = 8 /\ 2 ^ (s - 1) = 4
      BY <2>4, PowersAre
    <3>. QED  BY <1>1, <1>2, <2>4, <3>1
  <2>5. CASE s = 4
    <3>1. 2 ^ s = 16 /\ 2 ^ (s - 1) = 8
      BY <2>5, PowersAre
    <3>. QED  BY <1>1, <1>2, <2>5, <3>1
  <2>6. CASE s = 5
    <3>1. 2 ^ s = 32 /\ 2 ^ (s - 1) = 16
      BY <2>6, PowersAre
    <3>. QED  BY <1>1, <1>2, <2>6, <3>1
  <2>7. CASE s = 6
    <3>1. 2 ^ s = 64 /\ 2 ^ (s - 1) = 32
      BY <2>7, PowersAre
    <3>. QED  BY <1>1, <1>2, <2>7, <3>1
  <2>8. CASE s = 7
    <3>1. 2 ^ s = 128 /\ 2 ^ (s - 1) = 64
      BY <2>8, PowersAre
    <3>. QED  BY <1>1, <1>2, <2>8, <3>1
  <2>. QED  BY <1>2, PowersAre, <2>1, <2>2, <2>3, <2>4, <2>5, <2>6, <2>7, <2>8
<1>4. (whole \div 2 ^ s) % Word = whole \div 2 ^ s
  <2>1. \A n \in 0 .. Word - 1 : n % Word = n
    BY <1>1
  <2>. QED  BY <1>3, <2>1
<1>. QED  BY <1>2, <1>3, <1>4 DEF Fits, whole

\* What the watch has worked out fits, and a timer that runs has such a count and divisor.
TimerInv ==
  /\ ticks \in Ticks /\ lapic = [c \in CPU |-> lapic[c]]
  /\ watch.interval # 0 => \E us, s : Fits(us, s, watch.count) /\ watch.divide = 2 ^ s
  /\ \A c \in CPU : lapic[c].periodic =>
       \E us, s : Fits(us, s, lapic[c].count) /\ lapic[c].code = TimerDiv(2 ^ s)

LEMMA TimerKeeps ==
  ASSUME TimerAssumption, TimerInv, [TimerNext]_timer
  PROVE  TimerInv'
<1>1. \A us, s, count : Fits(us, s, count)' <=> Fits(us, s, count)
  <2>1. ticks' = ticks
    BY DEF TimerNext, timer, Windup, Measure, Activate, SetTimerMasked
  <2>. QED  BY <2>1 DEF Fits, Interval
<1>2. ticks' = ticks /\ ticks \in Ticks /\ lapic = [c \in CPU |-> lapic[c]]
  BY DEF TimerInv, TimerNext, timer, Windup, Measure, Activate,
         SetTimerMasked
<1>3. ASSUME NEW us \in Micros, Windup(us) PROVE TimerInv'
  <2>1. lapic' = lapic
    BY <1>3 DEF Windup
  <2>2. CASE Shift(Interval(us)) < 0
    <3>1. watch' = watch
      BY <1>3, <2>2 DEF Windup
    <3>. QED  BY <1>1, <1>2, <2>1, <3>1 DEF TimerInv
  <2>3. CASE ~ Shift(Interval(us)) < 0
    <3>1. PICK s : s = Shift(Interval(us))
      OBVIOUS
    <3>2. Fits(us, s, (Interval(us) \div 2 ^ s) % Word)
      BY <1>2, <2>3, <3>1, ShiftFits
    <3>3. watch'.count = (Interval(us) \div 2 ^ s) % Word /\ watch'.divide = 2 ^ s
      BY <1>3, <2>3, <3>1 DEF Windup
    <3>. QED  BY <1>1, <1>2, <2>1, <3>2, <3>3 DEF TimerInv
  <2>. QED  BY <2>2, <2>3
<1>4. ASSUME NEW c \in CPU, Measure(c) PROVE TimerInv'
  <2>1. /\ watch' = watch /\ lapic' = [b \in CPU |-> lapic'[b]] /\ ~ lapic'[c].periodic
        /\ \A b \in CPU \ {c} : lapic'[b] = lapic[b]
    BY <1>2, <1>4 DEF Measure, SetTimer
  <2>. QED  BY <1>1, <1>2, <2>1 DEF TimerInv
<1>5. ASSUME NEW c \in CPU, Activate(c) PROVE TimerInv'
  <2>1. /\ watch' = watch /\ lapic' = [b \in CPU |-> lapic'[b]] /\ watch.interval # 0
        /\ lapic'[c].count = watch.count /\ lapic'[c].code = TimerDiv(watch.divide)
        /\ \A b \in CPU \ {c} : lapic'[b] = lapic[b]
    BY <1>2, <1>5 DEF Activate, SetTimer
  <2>. QED  BY <1>1, <1>2, <2>1 DEF TimerInv
<1>6. ASSUME NEW c \in CPU, NEW masked \in BOOLEAN, SetTimerMasked(c, masked)
      PROVE  TimerInv'
  <2>1. watch' = watch /\ lapic' = [lapic EXCEPT ![c].masked = masked]
    BY <1>6 DEF SetTimerMasked
  <2>2. lapic' = [b \in CPU |-> IF b = c THEN [lapic[c] EXCEPT !.masked = masked] ELSE lapic[b]]
    BY <1>2, <2>1
  <2>3. \A b \in CPU : /\ lapic'[b].count = lapic[b].count /\ lapic'[b].code = lapic[b].code
                             /\ lapic'[b].periodic = lapic[b].periodic
    BY <2>2
  <2>4. lapic' = [b \in CPU |-> lapic'[b]]
    BY <2>2
  <2>5. ASSUME watch'.interval # 0
        PROVE  \E us, s : Fits(us, s, watch.count)' /\ watch'.divide = 2 ^ s
    <3>1. PICK us, s : Fits(us, s, watch.count) /\ watch.divide = 2 ^ s
      BY <2>1, <2>5 DEF TimerInv
    <3>2. Fits(us, s, watch.count)'
      BY <1>2, <2>1, <3>1 DEF Fits, Interval
    <3>. QED  BY <2>1, <3>1, <3>2
  <2>6. ASSUME NEW b \in CPU, lapic'[b].periodic
        PROVE  \E us, s : Fits(us, s, lapic[b].count)' /\ lapic'[b].code = TimerDiv(2 ^ s)
    <3>1. lapic[b].periodic /\ lapic'[b].count = lapic[b].count /\ lapic'[b].code = lapic[b].code
      BY <2>3, <2>6
    <3>2. PICK us, s : Fits(us, s, lapic[b].count) /\ lapic[b].code = TimerDiv(2 ^ s)
      BY <3>1 DEF TimerInv
    <3>3. Fits(us, s, lapic[b].count)'
      BY <1>2, <3>1, <3>2 DEF Fits, Interval
    <3>. QED  BY <3>1, <3>2, <3>3
  <2>. QED  BY <1>2, <2>4, <2>5, <2>6 DEF TimerInv
<1>7. CASE UNCHANGED timer
  BY <1>1, <1>2, <1>7 DEF timer, TimerInv
<1>. QED  BY <1>3, <1>4, <1>5, <1>6, <1>7 DEF TimerNext

\* device/watch.cc: windup()'s count and divisor give the interval to within one divisor, with
\* the smallest divisor that makes the count fit, and each CPU's timer that runs has them:
\* for any intervals, any frequency and any width of the count register.
THEOREM IntervalIsKept ==
  ASSUME TimerAssumption
  PROVE  TimerSpec => []TimerKeepsInterval
<1>1. TimerInit => TimerInv
  BY DEF TimerInit, TimerInv
<1>2. TimerInv => TimerKeepsInterval
  <2>. SUFFICES ASSUME TimerInv, NEW c \in CPU, lapic[c].periodic
                PROVE  \E us \in Micros :
                         LET period == lapic[c].count * Divides(lapic[c].code) IN
                         /\ lapic[c].count < Word
                         /\ Interval(us) - period \in 0 .. Divides(lapic[c].code) - 1
                         /\ Divides(lapic[c].code) > 1 => 2 * lapic[c].count >= Word - 1
    BY DEF TimerKeepsInterval
  <2>1. PICK us, s : Fits(us, s, lapic[c].count) /\ lapic[c].code = TimerDiv(2 ^ s)
    BY DEF TimerInv
  <2>2. s \in 0 .. 7 /\ Divides(lapic[c].code) = 2 ^ s /\ (s = 0 => ~ 2 ^ s > 1)
    <3>1. s \in 0 .. 7
      BY <2>1 DEF Fits
    <3>2. Divides(lapic[c].code) = 2 ^ s
      BY <2>1, <3>1, CodeIsDivisor
    <3>3. s = 0 => ~ 2 ^ s > 1
      <4>. SUFFICES ASSUME s = 0 PROVE ~ 2 ^ s > 1
        OBVIOUS
      <4>1. 2 ^ s = 1
        BY PowersAre
      <4>. QED  BY <4>1
    <3>. QED  BY <3>1, <3>2, <3>3
  <2>3. lapic[c].count < Word
    BY <2>1 DEF Fits, TimerAssumption
  <2>. QED  BY <2>1, <2>2, <2>3 DEF Fits
<1>. QED  BY <1>1, <1>2, TimerKeeps, PTL DEF TimerSpec

-----------------------------------------------------------------------------
(* The shell                                                               *)

\* The least of two is what one takes it for.
LEMMA LeastOfTwo ==
  ASSUME NEW a \in Nat, NEW b \in Nat
  PROVE  Min({a, b}) = IF a <= b THEN a ELSE b
<1>1. \A x \in {a, b} : x = a \/ x = b
  OBVIOUS
<1>. QED  BY <1>1 DEF Min

LEMMA Longer ==
  ASSUME NEW q \in Seq(Char), NEW p \in 0 .. Len(q), NEW c \in Char
  PROVE  InsertAt(q, p + 1, c) \in Seq(Char) /\ Len(InsertAt(q, p + 1, c)) = Len(q) + 1
<1>1. p + 1 \in 1 .. Len(q) + 1
  OBVIOUS
<1>2. \A j \in 1 .. Len(q) + 1 :
        InsertAt(q, j, c) \in Seq(Char) /\ Len(InsertAt(q, j, c)) = Len(q) + 1
  BY InsertAtIs
<1>. QED  BY <1>1, <1>2

\* What is kept while the history is browsed is the line as it was typed, and nothing
\* is kept or shown of the history outside of read().
LineInv ==
  /\ str \in Seq(Char) /\ own \in Seq(Char) /\ entries \in Seq(Seq(Char)) /\ reading \in BOOLEAN
  /\ cursor \in 0 .. Len(str) /\ cur \in 0 .. Len(entries)
  /\ tmp = IF cur = NoEntry THEN NoLine ELSE <<own>>
  /\ reading /\ cur = NoEntry => own = str
  /\ ~ reading => cur = NoEntry
  /\ \A i \in 2 .. Len(entries) : entries[i] # entries[i - 1]

LEMMA LineInit == ShellInit => LineInv
<1>. SUFFICES ASSUME ShellInit PROVE LineInv
  OBVIOUS
<1>1. /\ str = <<>> /\ cursor = 0 /\ entries = <<>> /\ cur = 0 /\ tmp = <<>> /\ reading = FALSE /\ own = <<>>
      /\ NoEntry = 0 /\ NoLine = <<>>
  BY DEF ShellInit, NoEntry, NoLine
<1>2. <<>> \in Seq(Char) /\ <<>> \in Seq(Seq(Char)) /\ Len(<<>>) = 0 /\ 2 .. 0 = {} /\ 0 \in 0 .. 0
  OBVIOUS
<1>. QED  BY <1>1, <1>2 DEF LineInv

\* A key that changes the line, or moves in it.
LEMMA EditKeeps ==
  ASSUME LineInv, NEW line \in Seq(Char), Active, Edited(line), cursor' \in 0 .. Len(line)
  PROVE  LineInv'
  BY DEF LineInv, Active, Edited, NoEntry, NoLine

LEMMA KeyKeeps ==
  ASSUME LineInv, ShellAssumption,
         \/ Backspace \/ \E c \in Char : InsertChar(c)
         \/ \E n \in {1, Jump} : Left(n) \/ Right(n)
  PROVE  LineInv'
<1>1. str \in Seq(Char) /\ Len(str) \in Nat /\ cursor \in 0 .. Len(str) /\ {1, Jump} \subseteq Nat
  BY DEF LineInv, ShellAssumption
<1>2. ASSUME NEW char \in Char, InsertChar(char) PROVE LineInv'
  <2>1. cursor + 1 \in 1 .. Len(str) + 1 /\ ~ cursor > Len(str)
    BY <1>1
  <2>2. InsertAt(str, cursor + 1, char) \in Seq(Char) /\ Len(InsertAt(str, cursor + 1, char)) = Len(str) + 1
    BY <1>1, Longer
  <2>3. Active /\ cursor' = cursor + 1 /\ Edited(InsertAt(str, cursor + 1, char))
    BY <1>2, <2>1 DEF InsertChar, InsertAt
  <2>4. cursor' \in 0 .. Len(InsertAt(str, cursor + 1, char))
    BY <1>1, <2>2, <2>3
  <2>. QED  BY <2>2, <2>3, <2>4, EditKeeps
<1>3. ASSUME Backspace PROVE LineInv'
  <2>1. CASE cursor # 0
    <3>1. cursor \in 1 .. Len(str) /\ cursor - 1 \in 0 .. Len(str) - 1
      BY <1>1, <2>1
    <3>2. RemoveAt(str, cursor) \in Seq(Char) /\ Len(RemoveAt(str, cursor)) = Len(str) - 1
      BY <1>1, <3>1, RemoveAtIs
    <3>3. Active /\ cursor' = cursor - 1 /\ Edited(RemoveAt(str, cursor))
      BY <1>3, <2>1 DEF Backspace, RemoveAt, RemoveAt
    <3>. QED  BY <3>1, <3>2, <3>3, EditKeeps
  <2>2. CASE cursor = 0
    BY <1>3, <2>2 DEF Backspace, shell, LineInv
  <2>. QED  BY <2>1, <2>2
<1>4. ASSUME NEW n \in {1, Jump}, Left(n) PROVE LineInv'
  <2>1. Active /\ Edited(str) /\ cursor' = IF cursor < n THEN 0 ELSE cursor - n
    BY <1>4 DEF Left
  <2>2. cursor' \in 0 .. Len(str)
    BY <1>1, <2>1
  <2>. QED  BY <1>1, <2>1, <2>2, EditKeeps
<1>5. ASSUME NEW n \in {1, Jump}, Right(n) PROVE LineInv'
  <2>1. Active /\ Edited(str) /\ cursor' = Min({cursor + n, Len(str)})
    BY <1>5 DEF Right, Min
  <2>2. cursor' = IF cursor + n <= Len(str) THEN cursor + n ELSE Len(str)
    <3>1. cursor + n \in Nat
      BY <1>1
    <3>. QED  BY <1>1, <2>1, <3>1, LeastOfTwo
  <2>3. cursor' \in 0 .. Len(str)
    BY <1>1, <2>2
  <2>. QED  BY <1>1, <2>1, <2>3, EditKeeps
<1>. QED  BY <1>2, <1>3, <1>4, <1>5

\* Up and down.
LEMMA BrowseKeeps ==
  ASSUME LineInv, Up \/ Down
  PROVE  LineInv'
<1>1. /\ entries \in Seq(Seq(Char)) /\ Len(entries) \in Nat /\ own \in Seq(Char) /\ reading
      /\ \A i \in 1 .. Len(entries) : entries[i] \in Seq(Char) /\ Len(entries[i]) \in Nat
      /\ cur \in 0 .. Len(entries) /\ UNCHANGED <<entries, reading, own>>
      /\ tmp = IF cur = 0 THEN <<>> ELSE <<own>>
  <2>1. /\ entries \in Seq(Seq(Char)) /\ own \in Seq(Char) /\ cur \in 0 .. Len(entries)
        /\ tmp = IF cur = 0 THEN <<>> ELSE <<own>>
    BY DEF LineInv, NoEntry, NoLine
  <2>2. reading /\ UNCHANGED <<entries, reading, own>>
    BY DEF Up, Down, Active, Shows
  <2>3. Len(entries) \in Nat /\ \A i \in 1 .. Len(entries) : entries[i] \in Seq(Char) /\ Len(entries[i]) \in Nat
    BY ONLY <2>1
  <2>. QED BY ONLY <2>1, <2>2, <2>3
<1>2. CASE Up
  <2>1. CASE cur = 0
    <3>1. /\ tmp' = <<own>> /\ cur' = Len(entries) /\ entries # <<>>
          /\ str' = entries[Len(entries)] /\ cursor' = Len(entries[Len(entries)])
      BY <1>2, <2>1 DEF Up, Shows, LineInv, NoEntry, Active
    <3>2. Len(entries) \in 1 .. Len(entries)
      BY <1>1, <3>1
    <3>. QED  BY <1>1, <3>1, <3>2 DEF LineInv, NoEntry, NoLine
  <2>2. CASE cur # 0
    <3>1. /\ tmp' = tmp /\ cur' = cur - 1 /\ cur > 1
          /\ str' = entries[cur - 1] /\ cursor' = Len(entries[cur - 1])
      BY <1>2, <2>2 DEF Up, Shows, NoEntry
    <3>2. cur - 1 \in 1 .. Len(entries)
      BY <1>1, <3>1
    <3>. QED  BY <1>1, <3>1, <3>2 DEF LineInv, NoEntry, NoLine
  <2>. QED  BY <2>1, <2>2
<1>3. CASE Down
  <2>1. CASE cur < Len(entries)
    <3>1. /\ tmp' = tmp /\ cur' = cur + 1 /\ cur # 0
          /\ str' = entries[cur + 1] /\ cursor' = Len(entries[cur + 1])
      BY <1>3, <2>1 DEF Down, Shows, NoEntry
    <3>2. cur + 1 \in 1 .. Len(entries)
      BY <1>1, <2>1
    <3>. QED  BY <1>1, <3>1, <3>2 DEF LineInv, NoEntry, NoLine
  <2>2. CASE ~ cur < Len(entries)
    <3>1. tmp' = <<>> /\ cur' = 0 /\ cur # 0 /\ str' = tmp[1] /\ cursor' = Len(tmp[1])
      BY <1>3, <2>2 DEF Down, Shows, NoEntry, NoLine
    <3>2. str' = own /\ cursor' = Len(own) /\ Len(own) \in Nat
      BY <1>1, <3>1
    <3>. QED  BY <1>1, <3>1, <3>2 DEF LineInv, NoEntry, NoLine
  <2>. QED  BY <2>1, <2>2
<1>. QED  BY <1>2, <1>3

LEMMA AddedIs ==
  ASSUME LineInv, Added(str)
  PROVE  /\ entries' \in Seq(Seq(Char))
         /\ \A i \in 2 .. Len(entries') : entries'[i] # entries'[i - 1]
<1>1. /\ entries \in Seq(Seq(Char)) /\ Len(entries) \in Nat /\ str \in Seq(Char)
      /\ \A i \in 2 .. Len(entries) : entries[i] # entries[i - 1]
  BY DEF LineInv
<1>2. CASE entries' = entries
  BY <1>1, <1>2
<1>3. CASE entries = <<>> /\ entries' = <<str>>
  BY <1>1, <1>3
<1>4. CASE entries # <<>> /\ Last(entries) # str /\ entries' = Append(entries, str)
  <2>1. /\ entries' \in Seq(Seq(Char)) /\ Len(entries') = Len(entries) + 1
        /\ \A i \in 1 .. Len(entries) + 1 : entries'[i] = IF i = Len(entries) + 1 THEN str ELSE entries[i]
    BY <1>1, <1>4
  <2>2. ASSUME NEW i \in 2 .. Len(entries) + 1 PROVE entries'[i] # entries'[i - 1]
    <3>1. i \in 1 .. Len(entries) + 1 /\ i - 1 \in 1 .. Len(entries) + 1 /\ i - 1 # Len(entries) + 1
      BY <1>1
    <3>2. entries'[i - 1] = entries[i - 1]
      BY <2>1, <3>1
    <3>3. CASE i = Len(entries) + 1
      <4>1. i - 1 = Len(entries)
        BY <1>1, <3>3
      <4>2. entries'[i - 1] = Last(entries) /\ entries'[i] = str
        BY <2>1, <3>1, <3>2, <3>3, <4>1 DEF Last
      <4>. QED  BY <1>4, <4>2
    <3>4. CASE i # Len(entries) + 1
      <4>1. i \in 2 .. Len(entries) /\ entries'[i] = entries[i]
        BY <1>1, <2>1, <3>1, <3>4
      <4>. QED  BY <1>1, <3>2, <4>1
    <3>. QED  BY <3>3, <3>4
  <2>. QED  BY <2>1, <2>2
<1>. QED  BY <1>2, <1>3, <1>4 DEF Added, Last, Last

\* A line is read and entered.
LEMMA EndsKeep ==
  ASSUME LineInv, Enter \/ Leave
  PROVE  LineInv'
<1>1. /\ reading' = FALSE /\ tmp' = <<>> /\ cur' = 0 /\ cursor' = 0 /\ own' = own /\ str' = str
      /\ entries' = entries \/ entries' = <<>> \/ Added(str)
  BY DEF Enter, Leave, Finished, NoEntry, NoLine
<1>2. /\ entries' \in Seq(Seq(Char)) /\ Len(entries') \in Nat
      /\ \A i \in 2 .. Len(entries') : entries'[i] # entries'[i - 1]
  <2>1. CASE entries' = entries
    BY <2>1 DEF LineInv
  <2>2. CASE entries' = <<>>
    BY <2>2
  <2>3. CASE Added(str)
    BY <2>3, AddedIs
  <2>. QED  BY <1>1, <2>1, <2>2, <2>3
<1>3. str' \in Seq(Char) /\ own' \in Seq(Char) /\ cursor' \in 0 .. Len(str') /\ cur' \in 0 .. Len(entries')
  <2>1. str \in Seq(Char) /\ own \in Seq(Char) /\ Len(str) \in Nat
    BY DEF LineInv
  <2>. QED  BY <1>1, <1>2, <2>1
<1>4. cur' = NoEntry /\ tmp' = NoLine
  BY <1>1 DEF NoEntry, NoLine
<1>. QED  BY <1>1, <1>2, <1>3, <1>4 DEF LineInv

\* user/shell/shell.cc: browsing loses nothing of the line that was being typed, the
\* cursor stays in the line and the history has nothing twice in a row, for any
\* characters, any limit and a history of any length.
THEOREM TypedLineIsKept == ASSUME ShellAssumption PROVE ShellSpec => []LineIsKept
<1>1. LineInv /\ [ShellNext]_shell => LineInv'
  <2>. SUFFICES ASSUME LineInv, [ShellNext]_shell PROVE LineInv'
    OBVIOUS
  <2>1. CASE UNCHANGED shell
    BY <2>1 DEF shell, LineInv
  <2>2. CASE Read
    <3>1. /\ reading' = TRUE /\ str' = <<>> /\ cursor' = 0 /\ own' = <<>> /\ UNCHANGED <<entries, cur, tmp>>
          /\ cur = NoEntry
      BY <2>2 DEF Read, LineInv
    <3>2. <<>> \in Seq(Char) /\ Len(<<>>) = 0 /\ 0 \in 0 .. 0
      OBVIOUS
    <3>. QED  BY <3>1, <3>2 DEF LineInv
  <2>. QED  BY <2>1, <2>2, KeyKeeps, BrowseKeeps, EndsKeep DEF ShellNext
<1>2. LineInv => LineIsKept
  <2>. SUFFICES ASSUME LineInv PROVE LineIsKept
    OBVIOUS
  <2>1. cur # 0 => tmp # <<>> /\ tmp[1] = own /\ cur \in 1 .. Len(entries)
    BY DEF LineInv, NoEntry
  <2>. QED  BY <2>1 DEF LineInv, LineIsKept, NoEntry, NoLine
<1>. QED  BY LineInit, <1>1, <1>2, PTL DEF ShellSpec

-----------------------------------------------------------------------------
(* The heap                                                                *)

USE DEF Overhead, MinBlockSize, None

\* The word behind a block.
End(m, b) == b + Overhead + SizeOf(m, b)

\* B are blocks that tile the memory m.
Good(m, B) ==
  /\ m \in [Address -> Int] /\ B \subseteq Address /\ 0 \in B
  /\ \A b \in B : /\ SizeOf(m, b) >= MinBlockSize
                  /\ m[b + 1 + SizeOf(m, b)] = SizeOf(m, b)
                  /\ End(m, b) \in B \cup {HeapSize}
  /\ \A b, c \in B : b < c => End(m, b) <= c

Used(m, B) == {b \in B : ~ IsFree(m, b)}

\* A size field holds a size and a flag.
LEMMA FieldIs ==
  ASSUME NEW m, NEW b, NEW s \in Int, NEW f \in {0, 1}, m[b] = Field(s, f)
  PROVE  /\ Field(s, f) \in Int /\ SizeOf(m, b) = s /\ FlagOf(m, b) = f
         /\ IsFree(m, b) <=> f = 0
<1>1. (2 * s + f) \div 2 = s /\ (2 * s + f) % 2 = f /\ 2 * s + f \in Int
  OBVIOUS
<1>. QED  BY <1>1 DEF Field, SizeOf, FlagOf, IsFree

LEMMA FreeFieldIs ==
  ASSUME NEW m, NEW b, NEW s \in Int, m[b] = Field(s, 0)
  PROVE  SizeOf(m, b) = s /\ IsFree(m, b)
<1>1. (2 * s + 0) \div 2 = s /\ (2 * s + 0) % 2 = 0
  OBVIOUS
<1>. QED  BY <1>1 DEF Field, SizeOf, FlagOf, IsFree

LEMMA UsedFieldIs ==
  ASSUME NEW m, NEW b, NEW s \in Int, m[b] = Field(s, 1)
  PROVE  SizeOf(m, b) = s /\ ~ IsFree(m, b)
<1>1. (2 * s + 1) \div 2 = s /\ (2 * s + 1) % 2 = 1
  OBVIOUS
<1>. QED  BY <1>1 DEF Field, SizeOf, FlagOf, IsFree

\* What a word says of a block.
LEMMA WordIs ==
  ASSUME NEW m \in [Address -> Int], NEW b \in Address
  PROVE  SizeOf(m, b) \in Int /\ FlagOf(m, b) \in {0, 1} /\ m[b] = Field(SizeOf(m, b), FlagOf(m, b))
<1>1. m[b] \in Int
  OBVIOUS
<1>2. \A v \in Int : v \div 2 \in Int /\ v % 2 \in {0, 1} /\ v = 2 * (v \div 2) + (v % 2)
  OBVIOUS
<1>. QED  BY <1>1, <1>2 DEF SizeOf, FlagOf, Field

\* The size and the flag of a block are in one word.
LEMMA SameWord ==
  ASSUME NEW m, NEW n, NEW b, n[b] = m[b]
  PROVE  /\ SizeOf(n, b) = SizeOf(m, b) /\ FlagOf(n, b) = FlagOf(m, b) /\ End(n, b) = End(m, b)
         /\ IsFree(n, b) <=> IsFree(m, b)
  BY DEF SizeOf, FlagOf, IsFree, End

\* Where a block can lie.
LEMMA BlockIs ==
  ASSUME HeapAssumption, NEW m, NEW B, Good(m, B), NEW b \in B
  PROVE  /\ b \in 0 .. MaxBlock /\ b \in Address /\ SizeOf(m, b) \in MinBlockSize .. HeapSize - Overhead
         /\ End(m, b) = b + 2 + SizeOf(m, b) /\ End(m, b) \in b + 4 .. HeapSize
         /\ b + 1 + SizeOf(m, b) \in Address /\ m[b + 1 + SizeOf(m, b)] = SizeOf(m, b)
<1>1. b \in Address /\ SizeOf(m, b) \in Int
  BY WordIs DEF Good
<1>2. End(m, b) \in Int /\ End(m, b) <= HeapSize
  BY <1>1 DEF Good, Address, HeapAssumption, End
<1>3. /\ HeapSize \in Nat /\ b \in Int /\ 0 <= b /\ SizeOf(m, b) >= 2 /\ End(m, b) <= HeapSize
      /\ End(m, b) = b + 2 + SizeOf(m, b) /\ m[b + 1 + SizeOf(m, b)] = SizeOf(m, b)
  BY <1>1, <1>2 DEF Good, End, Overhead, MinBlockSize, HeapAssumption, Address
<1>. QED  BY ONLY <1>1, <1>3 DEF MaxBlock, Overhead, MinBlockSize, Address

\* The block behind a block.
LEMMA NextIs ==
  ASSUME HeapAssumption, NEW m, NEW B, Good(m, B), NEW b \in B
  PROVE  /\ End(m, b) \in B => NextOf(m, b) = End(m, b) /\ NextOf(m, b) # None
         /\ End(m, b) \notin B => NextOf(m, b) = None /\ End(m, b) = HeapSize
<1>1. /\ b \in Address /\ SizeOf(m, b) \in Int
      /\ End(m, b) = b + 2 + SizeOf(m, b) /\ m[b + 1 + SizeOf(m, b)] = SizeOf(m, b)
  BY BlockIs DEF Address
<1>2. End(m, b) \in B => End(m, b) \in 0 .. MaxBlock
  BY BlockIs
<1>3. End(m, b) \notin B => End(m, b) = HeapSize
  BY DEF Good
<1>. QED  BY <1>1, <1>2, <1>3 DEF NextOf, MaxBlock, HeapAssumption, Address

\* Each block but the first lies behind another one.
LEMMA Behind ==
  ASSUME HeapAssumption, NEW m, NEW B, Good(m, B), NEW b \in B, b # 0
  PROVE  \E p \in B : End(m, p) = b
<1>. DEFINE T == {b - p : p \in {q \in B : q < b}}
<1>1. T \in SUBSET Nat /\ b - 0 \in T
  BY BlockIs DEF Good, Address
<1>2. PICK x \in T : \A y \in T : x <= y
  <2>. HIDE DEF T
  <2>. QED  BY <1>1, Least
<1>3. PICK p \in B : p < b /\ x = b - p
  OBVIOUS
<1>4. /\ b \in Int /\ b < HeapSize /\ End(m, p) <= b
      /\ p \in Int /\ End(m, p) \in Int /\ p < End(m, p) /\ End(m, p) \in B \cup {HeapSize}
  <2>1. b \in 0 .. MaxBlock /\ p \in 0 .. MaxBlock /\ End(m, p) \in p + 4 .. HeapSize
    BY BlockIs
  <2>2. End(m, p) <= b /\ End(m, p) \in B \cup {HeapSize}
    BY <1>3 DEF Good
  <2>. QED  BY <2>1, <2>2 DEF MaxBlock, HeapAssumption
<1>5. CASE End(m, p) # b
  <2>1. End(m, p) \in B /\ End(m, p) < b
    BY <1>4, <1>5
  <2>2. b - End(m, p) \in T
    BY <2>1
  <2>3. b - p <= b - End(m, p)
    BY <1>2, <1>3, <2>2
  <2>. QED  BY <1>4, <2>3
<1>. QED  BY <1>3, <1>5

\* The block in front of a block.
LEMMA PreviousIs ==
  ASSUME HeapAssumption, NEW m, NEW B, Good(m, B), NEW b \in B
  PROVE  /\ b = 0 => PreviousOf(m, b) = None
         /\ b # 0 => PreviousOf(m, b) \in B /\ End(m, PreviousOf(m, b)) = b /\ PreviousOf(m, b) # None
<1>1. CASE b # 0
  <2>1. PICK p \in B : End(m, p) = b
    BY <1>1, Behind
  <2>2. /\ p \in Address /\ SizeOf(m, p) \in Int /\ b = p + 2 + SizeOf(m, p)
        /\ m[p + 1 + SizeOf(m, p)] = SizeOf(m, p)
    BY <2>1, BlockIs
  <2>3. m[b - 1] = SizeOf(m, p) /\ b - Overhead - SizeOf(m, p) = p
    <3>1. b - 1 = p + 1 + SizeOf(m, p) /\ b - Overhead - SizeOf(m, p) = p
      BY <2>2 DEF Address
    <3>. QED  BY <2>2, <3>1
  <2>4. PreviousOf(m, b) = p
    BY <1>1, <2>2, <2>3 DEF PreviousOf
  <2>. QED  BY <1>1, <2>1, <2>2, <2>4 DEF Address
<1>2. CASE b = 0
  BY <1>2 DEF PreviousOf
<1>. QED  BY <1>1, <1>2

\* There is a block at the end of the heap.
LEMMA LastIs ==
  ASSUME HeapAssumption, NEW m, NEW B, Good(m, B)
  PROVE  \E b \in B : End(m, b) = HeapSize
<1>. DEFINE T == {HeapSize - b : b \in B}
<1>1. T \in SUBSET Nat /\ T # {}
  <2>1. \A b \in B : b \in 0 .. MaxBlock
    BY BlockIs
  <2>. QED  BY <2>1 DEF Good, MaxBlock, HeapAssumption
<1>2. PICK x \in T : \A y \in T : x <= y
  <2>. HIDE DEF T
  <2>. QED  BY <1>1, Least
<1>3. PICK b \in B : x = HeapSize - b
  OBVIOUS
<1>4. b \in 0 .. MaxBlock /\ End(m, b) \in b + 4 .. HeapSize
  BY BlockIs
<1>5. CASE End(m, b) \in B
  <2>1. HeapSize - b <= HeapSize - End(m, b)
    BY <1>2, <1>3, <1>5
  <2>. QED  BY <1>4, <2>1 DEF MaxBlock, HeapAssumption
<1>. QED  BY <1>5 DEF Good

\* What get_next finds from a block on.
Reaches(m, S) == \A x \in S : NextOf(m, x) \in Address => NextOf(m, x) \in S
Reached(m, b) == {x \in Address : \A S \in SUBSET Address : b \in S /\ Reaches(m, S) => x \in S}

LEMMA ReachedIs ==
  ASSUME NEW m
  PROVE  \E F : F = [b \in Address |->
           {b} \cup (IF NextOf(m, b) \in Address THEN F[NextOf(m, b)] ELSE {})]
<1>. DEFINE F == [b \in Address |-> Reached(m, b)]
<1>1. ASSUME NEW b \in Address
      PROVE  Reached(m, b) = {b} \cup (IF NextOf(m, b) \in Address THEN Reached(m, NextOf(m, b)) ELSE {})
  <2>. PICK n : n = NextOf(m, b)
    OBVIOUS
  <2>. DEFINE R == {b} \cup (IF n \in Address THEN Reached(m, n) ELSE {})
  <2>1. ASSUME NEW c \in Address
        PROVE  c \in Reached(m, c) /\ Reaches(m, Reached(m, c)) /\ Reached(m, c) \in SUBSET Address
    BY DEF Reached, Reaches
  <2>2. b \in R /\ R \in SUBSET Address /\ Reaches(m, R)
    BY <2>1 DEF Reaches
  <2>3. Reached(m, b) \subseteq R
    BY <2>2 DEF Reached
  <2>4. ASSUME n \in Address, NEW x \in Reached(m, n) PROVE x \in Reached(m, b)
    <3>1. n \in Reached(m, b)
      BY <2>1, <2>4 DEF Reaches
    <3>. QED  BY <2>1, <2>4, <3>1 DEF Reached
  <2>. QED  BY <2>1, <2>3, <2>4
<1>2. F = [b \in Address |->
           {b} \cup (IF NextOf(m, b) \in Address THEN F[NextOf(m, b)] ELSE {})]
  <2>. HIDE DEF Address, Reached
  <2>1. \A n \in Address : F[n] = Reached(m, n)
    OBVIOUS
  <2>. QED  BY <1>1, <2>1, Zenon
<1>. QED  BY <1>2

\* get_next goes through the blocks.
LEMMA BlocksAre == ASSUME HeapAssumption, NEW m, NEW B, Good(m, B) PROVE BlocksIn(m) = B
<1>. DEFINE from == CHOOSE from : from = [b \in Address |->
                {b} \cup (IF NextOf(m, b) \in Address THEN from[NextOf(m, b)] ELSE {})]
<1>1. BlocksIn(m) = from[0]
  BY DEF BlocksIn
<1>2. from = [b \in Address |->
                {b} \cup (IF NextOf(m, b) \in Address THEN from[NextOf(m, b)] ELSE {})]
  BY ReachedIs
<1>. HIDE DEF from
<1>3. ASSUME NEW b \in B
      PROVE  from[b] = {b} \cup (IF End(m, b) \in B THEN from[End(m, b)] ELSE {})
  <2>1. b \in Address /\ (End(m, b) \in B => End(m, b) \in Address)
    BY DEF Good
  <2>0. None \notin Address
    BY DEF Address
  <2>2. from[b] = {b} \cup (IF NextOf(m, b) \in Address THEN from[NextOf(m, b)] ELSE {})
    BY <1>2, <2>1
  <2>. QED  BY <2>0, <2>1, <2>2, NextIs
<1>4. \A b \in B : from[b] = {c \in B : b <= c}
  <2>. DEFINE T == {HeapSize - b : b \in {c \in B : from[c] # {x \in B : c <= x}}}
  <2>0. \A b \in B : b \in 0 .. MaxBlock /\ HeapSize - b \in Nat
    BY BlockIs DEF MaxBlock, HeapAssumption
  <2>. SUFFICES ASSUME T # {} PROVE FALSE
    OBVIOUS
  <2>1. PICK x \in T : \A y \in T : x <= y
    <3>1. T \in SUBSET Nat
      BY <2>0
    <3>. HIDE DEF T
    <3>. QED  BY <3>1, Least
  <2>2. PICK b \in B : x = HeapSize - b /\ from[b] # {c \in B : b <= c}
    OBVIOUS
  <2>3. b \in 0 .. MaxBlock /\ End(m, b) \in b + 4 .. HeapSize
    BY BlockIs
  <2>4. CASE End(m, b) \in B
    <3>1. ~ HeapSize - b <= HeapSize - End(m, b)
      BY <2>3 DEF MaxBlock, HeapAssumption
    <3>2. HeapSize - End(m, b) \notin T
      BY <2>1, <2>2, <3>1
    <3>3. from[End(m, b)] = {c \in B : End(m, b) <= c}
      BY <2>4, <3>2
    <3>4. \A c \in B : End(m, b) <= c <=> b < c
      BY <2>0, <2>3 DEF Good
    <3>5. from[b] = {b} \cup {c \in B : b < c}
      BY <1>3, <2>4, <3>3, <3>4
    <3>6. \A c \in B : b <= c <=> b < c \/ c = b
      BY <2>0, <2>3
    <3>. QED  BY <2>2, <3>5, <3>6
  <2>5. CASE End(m, b) \notin B
    <3>1. End(m, b) = HeapSize
      BY <2>5 DEF Good
    <3>2. \A c \in B : b <= c <=> c = b
      <4>1. \A c \in B : b < c => HeapSize <= c
        BY <3>1 DEF Good
      <4>. QED  BY <2>0, <2>3, <4>1 DEF MaxBlock, HeapAssumption
    <3>3. from[b] = {b}
      BY <1>3, <2>5
    <3>. QED  BY <2>2, <3>2, <3>3
  <2>. QED  BY <2>4, <2>5
<1>5. 0 \in B /\ \A c \in B : 0 <= c
  BY BlockIs DEF Good
<1>. QED  BY <1>1, <1>4, <1>5

\* The blocks outside a part of the heap.
Outside(B, p, e) == {b \in B : b < p \/ b >= e}

\* These blocks have in n the words that they have in m.
Alike(m, n, O) == \A b \in O : n[b] = m[b] /\ \A i \in 1 .. SizeOf(m, b) + 1 : n[b + i] = m[b + i]

\* Laying new blocks over some that lie side by side leaves the others alone.
LEMMA Retile ==
  ASSUME HeapAssumption, NEW m, NEW B, Good(m, B), NEW p \in B, NEW e \in B \cup {HeapSize}, p < e,
         NEW n \in [Address -> Int], \A a \in Address : a \notin p .. e - 1 => n[a] = m[a],
         NEW N, N \subseteq p .. e - 1, p \in N,
         \A b \in N : /\ SizeOf(n, b) >= MinBlockSize
                      /\ n[b + 1 + SizeOf(n, b)] = SizeOf(n, b)
                      /\ End(n, b) \in N \cup {e},
         \A b, c \in N : b < c => End(n, b) <= c
  PROVE  /\ Good(n, Outside(B, p, e) \cup N)
         /\ Alike(m, n, Outside(B, p, e))
<1>. DEFINE O == Outside(B, p, e)
<1>1. /\ p \in 0 .. MaxBlock /\ e \in 0 .. HeapSize /\ e \in Int /\ HeapSize \in Nat
      /\ MaxBlock = HeapSize - 4 /\ N \subseteq Address
  <2>1. p \in 0 .. MaxBlock /\ \A b \in B : b \in 0 .. MaxBlock
    BY BlockIs
  <2>. QED  BY <2>1 DEF MaxBlock, HeapAssumption, Address
<1>2. ASSUME NEW b \in O
      PROVE  /\ b \in 0 .. MaxBlock /\ b \in Address /\ SizeOf(m, b) \in Nat
             /\ End(m, b) = b + 2 + SizeOf(m, b) /\ End(m, b) <= HeapSize
             /\ b < p => End(m, b) <= p
             /\ SizeOf(m, b) >= MinBlockSize /\ m[b + 1 + SizeOf(m, b)] = SizeOf(m, b)
  <2>1. b \in B
    BY DEF Outside
  <2>2. /\ b \in 0 .. MaxBlock /\ b \in Address /\ SizeOf(m, b) \in MinBlockSize .. HeapSize - Overhead
        /\ End(m, b) = b + 2 + SizeOf(m, b) /\ End(m, b) \in b + 4 .. HeapSize
        /\ m[b + 1 + SizeOf(m, b)] = SizeOf(m, b)
    BY <2>1, BlockIs
  <2>3. b < p => End(m, b) <= p
    BY <2>1 DEF Good
  <2>. QED  BY <1>1, <2>2, <2>3
<1>3. ASSUME NEW b \in O, NEW i \in 0 .. SizeOf(m, b) + 1 PROVE n[b + i] = m[b + i]
  <2>1. b + i \in Address /\ b + i \notin p .. e - 1
    <3>. PICK s : s = SizeOf(m, b)
      OBVIOUS
    <3>0. /\ b \in Nat /\ s \in Nat /\ b + 2 + s <= HeapSize /\ (b < p => b + 2 + s <= p)
          /\ i \in Int /\ 0 <= i /\ i <= s + 1 /\ p \in Int /\ e \in Int /\ HeapSize \in Int
      BY <1>1, <1>2
    <3>1. b < p \/ b >= e
      BY DEF Outside
    <3>2. b + i \in Int /\ 0 <= b + i /\ b + i < HeapSize
      BY <3>0
    <3>3. b + i \notin p .. e - 1
      BY <3>0, <3>1
    <3>. QED  BY <3>0, <3>2, <3>3 DEF Address
  <2>. QED  BY <2>1
<1>4. ASSUME NEW b \in O
      PROVE  n[b] = m[b] /\ SizeOf(n, b) = SizeOf(m, b) /\ End(n, b) = End(m, b)
  <2>1. 0 \in 0 .. SizeOf(m, b) + 1 /\ b + 0 = b
    BY <1>2
  <2>2. n[b] = m[b]
    BY <1>3, <2>1
  <2>. QED  BY <2>2, SameWord
<1>5. Alike(m, n, O)
  <2>1. \A b \in O : \A i \in 1 .. SizeOf(m, b) + 1 : i \in 0 .. SizeOf(m, b) + 1
    BY <1>2
  <2>. QED  BY <1>3, <1>4, <2>1 DEF Alike
<1>6. ASSUME NEW b \in O
      PROVE  /\ SizeOf(n, b) >= MinBlockSize /\ n[b + 1 + SizeOf(n, b)] = SizeOf(n, b)
             /\ End(n, b) \in O \cup N \cup {HeapSize}
  <2>1. n[b + 1 + SizeOf(m, b)] = m[b + 1 + SizeOf(m, b)]
    <3>1. SizeOf(m, b) + 1 \in 0 .. SizeOf(m, b) + 1 /\ b + (SizeOf(m, b) + 1) = b + 1 + SizeOf(m, b)
      BY <1>2
    <3>. QED  BY <1>3, <3>1
  <2>2. End(m, b) \in O \cup N \cup {HeapSize}
    <3>1. End(m, b) \in B \cup {HeapSize} /\ b \in B /\ End(m, b) \in Int
      BY <1>2 DEF Good, Outside
    <3>2. CASE b < p
      BY <1>1, <1>2, <3>1, <3>2 DEF Outside
    <3>3. CASE b >= e
      BY <1>1, <1>2, <3>1, <3>3 DEF Outside
    <3>. QED  BY <3>2, <3>3 DEF Outside
  <2>. QED  BY <1>2, <1>4, <2>1, <2>2
<1>7. 0 \in O \cup N /\ O \cup N \subseteq Address
  <2>1. 0 \in B
    BY DEF Good
  <2>2. p # 0 => 0 < p
    BY <1>1
  <2>3. 0 \in O \cup N
    BY <2>1, <2>2 DEF Outside
  <2>4. O \subseteq Address
    BY <1>2
  <2>. QED  BY <1>1, <2>3, <2>4
<1>8. ASSUME NEW b \in N PROVE End(n, b) \in O \cup N \cup {HeapSize}
  <2>1. e \in O \cup {HeapSize}
    BY <1>1 DEF Outside
  <2>. QED  BY <2>1
<1>9. ASSUME NEW b \in O \cup N, NEW c \in O \cup N, b < c PROVE End(n, b) <= c
  <2>1. CASE b \in O /\ c \in O
    BY <1>4, <1>9, <2>1 DEF Good, Outside
  <2>2. CASE b \in O /\ c \in N
    <3>1. c \in p .. e - 1 /\ b \in Int /\ (b < p \/ b >= e)
      BY <1>2, <2>2 DEF Outside
    <3>2. b < p
      BY <1>1, <1>9, <3>1
    <3>. QED  BY <1>1, <1>2, <1>4, <2>2, <3>1, <3>2
  <2>3. CASE b \in N /\ c \in O
    <3>1. b \in p .. e - 1 /\ c \in Int /\ (c < p \/ c >= e)
      BY <1>2, <2>3 DEF Outside
    <3>2. c >= e
      BY <1>1, <1>9, <3>1
    <3>3. End(n, b) \in p .. e
      <4>1. \A x \in p .. e - 1 : x \in p .. e
        BY <1>1
      <4>2. e \in p .. e
        BY <1>1
      <4>. QED  BY <2>3, <4>1, <4>2
    <3>. QED  BY <1>1, <3>1, <3>2, <3>3
  <2>4. CASE b \in N /\ c \in N
    BY <1>9, <2>4
  <2>. QED  BY <2>1, <2>2, <2>3, <2>4
<1>. QED  BY <1>5, <1>6, <1>7, <1>8, <1>9 DEF Good

\* n is m with one block of size s and flag f in the place of those from p to e.
One(m, B, n, p, e, s, f) ==
  /\ Good(m, B) /\ p \in B /\ e \in B \cup {HeapSize}
  /\ n \in [Address -> Int] /\ \A a \in Address : a \notin p .. e - 1 => n[a] = m[a]
  /\ s \in Int /\ s >= 2 /\ e = p + s + 2 /\ f \in {0, 1}
  /\ n[p] = Field(s, f) /\ n[p + 1 + s] = s

LEMMA OneIs ==
  ASSUME HeapAssumption, NEW m, NEW B, NEW n, NEW p, NEW e, NEW s, NEW f, One(m, B, n, p, e, s, f)
  PROVE  /\ Good(n, Outside(B, p, e) \cup {p}) /\ Alike(m, n, Outside(B, p, e))
         /\ SizeOf(n, p) = s /\ End(n, p) = e /\ FlagOf(n, p) = f /\ (IsFree(n, p) <=> f = 0)
<1>0. /\ Good(m, B) /\ p \in B /\ e \in B \cup {HeapSize} /\ p \in Int
      /\ n \in [Address -> Int] /\ \A a \in Address : a \notin p .. e - 1 => n[a] = m[a]
      /\ s \in Int /\ s >= 2 /\ e = p + s + 2 /\ f \in {0, 1}
      /\ n[p] = Field(s, f) /\ n[p + 1 + s] = s
  <2>1. Good(m, B) /\ p \in B
    BY DEF One
  <2>2. p \in 0 .. MaxBlock
    BY <2>1, BlockIs
  <2>. QED  BY <2>2 DEF One
<1>1. SizeOf(n, p) = s /\ FlagOf(n, p) = f /\ (IsFree(n, p) <=> f = 0)
  BY <1>0, FieldIs
<1>2. p \in Int /\ p < e /\ {p} \subseteq p .. e - 1
  BY <1>0
<1>3. End(n, p) = e
  BY <1>0, <1>1, <1>2 DEF End
<1>4. \A b, c \in {p} : ~ b < c
  BY <1>2
<1>. DEFINE N == {p}
<1>5. /\ N \subseteq p .. e - 1 /\ p \in N
      /\ \A b \in N : /\ SizeOf(n, b) >= MinBlockSize
                      /\ n[b + 1 + SizeOf(n, b)] = SizeOf(n, b)
                      /\ End(n, b) \in N \cup {e}
      /\ \A b, c \in N : b < c => End(n, b) <= c
  BY <1>0, <1>1, <1>2, <1>3, <1>4
<1>6. Good(n, Outside(B, p, e) \cup N) /\ Alike(m, n, Outside(B, p, e))
  <2>. HIDE DEF N
  <2>. QED  BY <1>0, <1>2, <1>5, Retile
<1>. QED  BY <1>1, <1>3, <1>6

\* n is m with a free block of size s and a used one of size t, at q, in their place.
Two(m, B, n, p, e, s, q, t) ==
  /\ Good(m, B) /\ p \in B /\ e \in B \cup {HeapSize}
  /\ n \in [Address -> Int] /\ \A a \in Address : a \notin p .. e - 1 => n[a] = m[a]
  /\ s \in Int /\ s >= 2 /\ q = p + s + 2
  /\ t \in Int /\ t >= 2 /\ e = q + t + 2
  /\ n[p] = Field(s, 0) /\ n[p + 1 + s] = s
  /\ n[q] = Field(t, 1) /\ n[q + 1 + t] = t

LEMMA TwoIs ==
  ASSUME HeapAssumption, NEW m, NEW B, NEW n, NEW p, NEW e, NEW s, NEW q, NEW t,
         Two(m, B, n, p, e, s, q, t)
  PROVE  /\ Good(n, Outside(B, p, e) \cup {p, q}) /\ Alike(m, n, Outside(B, p, e))
         /\ SizeOf(n, p) = s /\ End(n, p) = q /\ IsFree(n, p)
         /\ SizeOf(n, q) = t /\ End(n, q) = e /\ ~ IsFree(n, q)
<1>0. /\ Good(m, B) /\ p \in B /\ e \in B \cup {HeapSize} /\ p \in Int
      /\ n \in [Address -> Int] /\ \A a \in Address : a \notin p .. e - 1 => n[a] = m[a]
      /\ s \in Int /\ s >= 2 /\ q = p + s + 2 /\ t \in Int /\ t >= 2 /\ e = q + t + 2
      /\ n[p] = Field(s, 0) /\ n[p + 1 + s] = s /\ n[q] = Field(t, 1) /\ n[q + 1 + t] = t
  <2>1. Good(m, B) /\ p \in B
    BY DEF Two
  <2>2. p \in 0 .. MaxBlock
    BY <2>1, BlockIs
  <2>. QED  BY <2>2 DEF Two
<1>1. SizeOf(n, p) = s /\ IsFree(n, p)
  BY <1>0, FreeFieldIs
<1>2. SizeOf(n, q) = t /\ ~ IsFree(n, q)
  BY <1>0, UsedFieldIs
<1>3. p \in Int /\ p < q /\ q < e /\ q \in Int /\ e \in Int
  BY <1>0
<1>4. End(n, p) = q /\ End(n, q) = e
  BY <1>0, <1>1, <1>2, <1>3 DEF End
<1>. DEFINE N == {p, q}
<1>5. /\ N \subseteq p .. e - 1 /\ p \in N /\ p < e
      /\ \A b \in N : /\ SizeOf(n, b) >= MinBlockSize
                      /\ n[b + 1 + SizeOf(n, b)] = SizeOf(n, b)
                      /\ End(n, b) \in N \cup {e}
      /\ \A b, c \in N : b < c => End(n, b) <= c
  <2>1. N \subseteq p .. e - 1 /\ p < e
    BY <1>3
  <2>2. \A b, c \in N : b < c => b = p /\ c = q
    BY <1>3
  <2>3. q <= q
    BY <1>3
  <2>. QED  BY <1>0, <1>1, <1>2, <1>4, <2>1, <2>2, <2>3
<1>6. Good(n, Outside(B, p, e) \cup N) /\ Alike(m, n, Outside(B, p, e))
  <2>. HIDE DEF N
  <2>. QED  BY <1>0, <1>5, Retile
<1>. QED  BY <1>1, <1>2, <1>4, <1>6


\* The list holds the free blocks, each once.
Listed(m, B, list) ==
  /\ list \in Seq(Address) /\ IsInjective(list)
  /\ \A b : Contains(list, b) <=> b \in B /\ IsFree(m, b)

\* No free block lies behind a free one.
Merged(m, B) == \A b \in B : IsFree(m, b) /\ End(m, b) \in B => ~ IsFree(m, End(m, b))

\* The neighbours of a block are in use.
Alone(m, B, b) ==
  /\ \A c \in B : End(m, c) = b => ~ IsFree(m, c)
  /\ End(m, b) \in B => ~ IsFree(m, End(m, b))

\* The blocks in use are those of the allocations L and the others in X.
Owned(m, B, L, X) ==
  /\ {b \in B : ~ IsFree(m, b)} = Blocks(L) \cup X /\ Blocks(L) \cap X = {}
  /\ \A x, y \in L : x.block = y.block => x = y

\* What the owners of the allocations L wrote is there.
Intact(m, L) ==
  /\ L \subseteq [block : Address, words : 1 .. MaxRequest]
  /\ \A x \in L : /\ x.words <= SizeOf(m, x.block)
                  /\ \A i \in 1 .. x.words : m[x.block + i] = Data(i)

\* What is true of the heap inside a call, and of L and X.
Holds(m, B, list, L, X) ==
  Good(m, B) /\ Listed(m, B, list) /\ Merged(m, B) /\ Owned(m, B, L, X) /\ Intact(m, L)

\* Contents stay where blocks do.
LEMMA StaysIntact ==
  ASSUME HeapAssumption, NEW m, NEW B, Good(m, B), NEW n, NEW O, O \subseteq B, Alike(m, n, O),
         NEW L, Intact(m, L), Blocks(L) \subseteq O
  PROVE  Intact(n, L)
<1>1. ASSUME NEW x \in L
      PROVE  /\ x.words <= SizeOf(n, x.block)
             /\ \A i \in 1 .. x.words : n[x.block + i] = Data(i)
  <2>1. x.block \in O /\ x.words \in 1 .. MaxRequest /\ MaxRequest \in Nat
    BY DEF Blocks, Intact, HeapAssumption
  <2>2. SizeOf(m, x.block) \in Int
    BY <2>1, BlockIs
  <2>3. n[x.block] = m[x.block]
    BY <2>1 DEF Alike
  <2>4. SizeOf(n, x.block) = SizeOf(m, x.block) /\ x.words <= SizeOf(m, x.block)
    BY <2>3, SameWord DEF Intact
  <2>5. \A i \in 1 .. x.words : i \in 1 .. SizeOf(m, x.block) + 1
    BY <2>1, <2>2, <2>4
  <2>6. \A i \in 1 .. x.words : n[x.block + i] = m[x.block + i]
    BY <2>1, <2>5 DEF Alike
  <2>. QED  BY <2>4, <2>6 DEF Intact
<1>. QED  BY <1>1 DEF Intact

\* All that matters of the memory are the size fields, and what owners wrote.
LEMMA FieldsMatter ==
  ASSUME HeapAssumption, NEW m, NEW B, NEW list, NEW L, NEW X, Holds(m, B, list, L, X),
         NEW n \in [Address -> Int],
         \A b \in B : n[b] = m[b] /\ n[b + 1 + SizeOf(m, b)] = m[b + 1 + SizeOf(m, b)],
         \A x \in L : \A i \in 1 .. x.words : n[x.block + i] = m[x.block + i]
  PROVE  /\ Holds(n, B, list, L, X)
         /\ \A b \in B : SizeOf(n, b) = SizeOf(m, b) /\ End(n, b) = End(m, b)
         /\ \A b \in B : Alone(m, B, b) => Alone(n, B, b)
<1>1. \A b \in B : SizeOf(n, b) = SizeOf(m, b) /\ End(n, b) = End(m, b) /\ (IsFree(n, b) <=> IsFree(m, b))
  BY SameWord
<1>2. Good(n, B)
  BY <1>1 DEF Holds, Good
<1>3. Listed(n, B, list)
  BY <1>1 DEF Holds, Listed
<1>4. Merged(n, B)
  BY <1>1 DEF Holds, Merged
<1>5. Owned(n, B, L, X)
  BY <1>1 DEF Holds, Owned
<1>6. Intact(n, L)
  <2>1. \A x \in L : x.block \in B
    BY DEF Holds, Owned, Blocks
  <2>. QED  BY <1>1, <2>1 DEF Holds, Intact
<1>7. \A b \in B : Alone(m, B, b) => Alone(n, B, b)
  BY <1>1 DEF Alone
<1>. QED  BY <1>1, <1>2, <1>3, <1>4, <1>5, <1>6, <1>7 DEF Holds

\* The words inside a block that no allocation of L has do not matter.
LEMMA InsideIs ==
  ASSUME HeapAssumption, NEW m, NEW B, NEW list, NEW L, NEW X, Holds(m, B, list, L, X),
         NEW b \in B, b \notin Blocks(L), NEW n \in [Address -> Int],
         \A a \in Address : a \notin b + 1 .. b + SizeOf(m, b) => n[a] = m[a]
  PROVE  /\ Holds(n, B, list, L, X)
         /\ \A c \in B : SizeOf(n, c) = SizeOf(m, c) /\ End(n, c) = End(m, c)
         /\ \A c \in B : Alone(m, B, c) => Alone(n, B, c)
<1>1. ASSUME NEW c \in B
      PROVE  /\ n[c] = m[c] /\ n[c + 1 + SizeOf(m, c)] = m[c + 1 + SizeOf(m, c)]
             /\ c # b => \A i \in 1 .. SizeOf(m, c) : n[c + i] = m[c + i]
  <2>. PICK s, r : s = SizeOf(m, b) /\ r = SizeOf(m, c)
    OBVIOUS
  <2>1. /\ b \in Nat /\ s \in Nat /\ c \in Nat /\ r \in Nat /\ End(m, b) = b + 2 + s /\ End(m, c) = c + 2 + r
        /\ c + 2 + r <= HeapSize /\ HeapSize \in Nat
    <3>1. /\ b \in 0 .. MaxBlock /\ SizeOf(m, b) \in MinBlockSize .. HeapSize - Overhead
          /\ End(m, b) = b + 2 + SizeOf(m, b)
      BY BlockIs DEF Holds
    <3>2. /\ c \in 0 .. MaxBlock /\ SizeOf(m, c) \in MinBlockSize .. HeapSize - Overhead
          /\ End(m, c) = c + 2 + SizeOf(m, c) /\ End(m, c) \in c + 4 .. HeapSize
      BY BlockIs DEF Holds
    <3>. QED  BY <3>1, <3>2 DEF HeapAssumption
  <2>2. c = b \/ b + 2 + s <= c \/ c + 2 + r <= b
    <3>1. \A x, y \in B : x < y => End(m, x) <= y
      BY DEF Holds, Good
    <3>2. c = b \/ b < c \/ c < b
      BY <2>1
    <3>. QED  BY <2>1, <3>1, <3>2
  <2>3. \A i \in 0 .. r + 1 : c + i \in Address
    BY <2>1 DEF Address
  <2>4. 0 \in 0 .. r + 1 /\ c + 0 = c /\ r + 1 \in 0 .. r + 1 /\ c + (r + 1) = c + 1 + r
    BY <2>1
  <2>5. n[c] = m[c]
    <3>1. c \notin b + 1 .. b + s /\ c \in Address
      BY <2>1, <2>2, <2>3, <2>4
    <3>. QED  BY <3>1
  <2>6. n[c + 1 + r] = m[c + 1 + r]
    <3>1. c + 1 + r \notin b + 1 .. b + s
      BY <2>1, <2>2
    <3>2. c + 1 + r \in Address
      BY <2>3, <2>4
    <3>. QED  BY <3>1, <3>2
  <2>7. ASSUME c # b, NEW i \in 1 .. r PROVE n[c + i] = m[c + i]
    <3>1. c + i \notin b + 1 .. b + s /\ i \in 0 .. r + 1
      BY <2>1, <2>2, <2>7
    <3>. QED  BY <2>3, <3>1
  <2>. QED  BY <2>5, <2>6, <2>7
<1>2. ASSUME NEW x \in L, NEW i \in 1 .. x.words PROVE n[x.block + i] = m[x.block + i]
  <2>1. x.block \in B /\ x.block # b
    BY DEF Holds, Owned, Blocks
  <2>2. x.words \in Nat /\ x.words <= SizeOf(m, x.block) /\ SizeOf(m, x.block) \in Int
    <3>1. SizeOf(m, x.block) \in MinBlockSize .. HeapSize - Overhead
      BY <2>1, BlockIs DEF Holds
    <3>2. x.words \in 1 .. MaxRequest
      BY DEF Holds, Intact
    <3>. QED  BY <3>1, <3>2 DEF Holds, Intact, HeapAssumption
  <2>3. i \in 1 .. SizeOf(m, x.block)
    BY <2>2
  <2>. QED  BY <1>1, <2>1, <2>3
<1>. QED  BY <1>1, <1>2, FieldsMatter


\* A block leaves the free list.
LEMMA WithoutIs ==
  ASSUME NEW list \in Seq(Address), IsInjective(list), NEW b
  PROVE  /\ Without(list, b) \in Seq(Address) /\ IsInjective(Without(list, b))
         /\ \A c : Contains(Without(list, b), c) <=> Contains(list, c) /\ c # b
  BY InRemoveFirst DEF Without

\* A block is put in front of the free list.
LEMMA InFront ==
  ASSUME NEW list \in Seq(Address), IsInjective(list), NEW b \in Address, ~ Contains(list, b)
  PROVE  /\ <<b>> \o list \in Seq(Address) /\ IsInjective(<<b>> \o list)
         /\ \A c : Contains(<<b>> \o list, c) <=> Contains(list, c) \/ c = b
<1>. PICK r : r = <<b>> \o list
  OBVIOUS
<1>1. /\ r \in Seq(Address) /\ Len(list) \in Nat /\ Len(r) = Len(list) + 1 /\ r[1] = b
      /\ \A i \in 2 .. Len(list) + 1 : r[i] = list[i - 1]
  OBVIOUS
<1>2. \A c : Contains(r, c) <=> Contains(list, c) \/ c = b
  <2>1. \A i \in 1 .. Len(list) : i + 1 \in 2 .. Len(list) + 1 /\ (i + 1) - 1 = i
    BY <1>1
  <2>2. \A i \in 1 .. Len(list) : r[i + 1] = list[i]
    BY <1>1, <2>1
  <2>3. ASSUME NEW c, Contains(r, c) PROVE Contains(list, c) \/ c = b
    <3>1. PICK i \in 1 .. Len(r) : r[i] = c
      BY <2>3 DEF Contains
    <3>2. CASE i # 1
      <4>1. i \in 2 .. Len(list) + 1 /\ i - 1 \in 1 .. Len(list)
        BY <1>1, <3>2
      <4>. QED  BY <1>1, <3>1, <4>1 DEF Contains
    <3>. QED  BY <1>1, <3>1, <3>2
  <2>4. ASSUME NEW c, Contains(list, c) \/ c = b PROVE Contains(r, c)
    <3>1. CASE c = b
      BY <1>1, <3>1 DEF Contains
    <3>2. CASE Contains(list, c)
      <4>1. PICK i \in 1 .. Len(list) : list[i] = c
        BY <3>2 DEF Contains
      <4>2. i + 1 \in 1 .. Len(r) /\ r[i + 1] = c
        BY <1>1, <2>2, <4>1
      <4>. QED  BY <4>2 DEF Contains
    <3>. QED  BY <2>4, <3>1, <3>2
  <2>. QED  BY <2>3, <2>4
<1>3. IsInjective(r)
  <2>1. ASSUME NEW i \in 1 .. Len(r), NEW j \in 1 .. Len(r), r[i] = r[j] PROVE i = j
    <3>1. i = 1 \/ i \in 2 .. Len(list) + 1
      BY <1>1
    <3>2. j = 1 \/ j \in 2 .. Len(list) + 1
      BY <1>1
    <3>3. \A k \in 2 .. Len(list) + 1 : k - 1 \in 1 .. Len(list) /\ r[k] = list[k - 1] /\ r[k] # b
      <4>1. \A k \in 2 .. Len(list) + 1 : k - 1 \in 1 .. Len(list)
        BY <1>1
      <4>. QED  BY <1>1, <4>1 DEF Contains
    <3>4. CASE i # 1 /\ j # 1
      <4>1. i - 1 \in 1 .. Len(list) /\ j - 1 \in 1 .. Len(list) /\ list[i - 1] = list[j - 1]
        BY <2>1, <3>1, <3>2, <3>3, <3>4
      <4>2. i - 1 = j - 1
        BY <4>1 DEF IsInjective
      <4>. QED  BY <4>1, <4>2
    <3>. QED  BY <1>1, <2>1, <3>1, <3>2, <3>3, <3>4
  <2>. QED  BY <1>1, <2>1 DEF IsInjective
<1>. QED  BY <1>1, <1>2, <1>3

\* Two blocks do not end at one place, and a block's neighbour lies next to it.
LEMMA Side ==
  ASSUME HeapAssumption, NEW m, NEW B, Good(m, B), NEW b \in B, NEW c \in B
  PROVE  /\ End(m, b) = End(m, c) => b = c
         /\ b < End(m, b) /\ End(m, b) # 0
         /\ b <= c /\ c < End(m, b) => c = b
<1>1. /\ b \in Int /\ 0 <= b /\ b < End(m, b) /\ End(m, b) \in Int
      /\ c \in Int /\ c < End(m, c) /\ End(m, c) \in Int
  <2>1. b \in 0 .. MaxBlock /\ End(m, b) \in b + 4 .. HeapSize
    BY BlockIs
  <2>2. c \in 0 .. MaxBlock /\ End(m, c) \in c + 4 .. HeapSize
    BY BlockIs
  <2>. QED  BY <2>1, <2>2
<1>2. (b < c => End(m, b) <= c) /\ (c < b => End(m, c) <= b)
  BY DEF Good
<1>. QED  BY <1>1, <1>2

\* The neighbours of a block, as try_merge() asks for them.
LEMMA NeighboursAre ==
  ASSUME HeapAssumption, NEW m, NEW B, Good(m, B), NEW b \in B,
         NEW prev, prev = PreviousOf(m, b), NEW next, next = NextOf(m, b)
  PROVE  /\ IF prev # None /\ IsFree(m, prev)
            THEN prev \in B /\ End(m, prev) = b
            ELSE \A c \in B : End(m, c) = b => ~ IsFree(m, c)
         /\ IF next # None /\ IsFree(m, next)
            THEN next \in B /\ End(m, b) = next
            ELSE End(m, b) \in B => ~ IsFree(m, End(m, b))
<1>1. prev # None => prev \in B /\ End(m, prev) = b
  BY PreviousIs
<1>2. ASSUME NEW c \in B, End(m, c) = b PROVE prev = c /\ prev # None
  <2>1. b # 0
    BY <1>2, Side
  <2>2. prev \in B /\ End(m, prev) = b /\ prev # None
    BY <2>1, PreviousIs
  <2>. QED  BY <1>2, <2>2, Side
<1>3. /\ End(m, b) \in B => next = End(m, b) /\ next # None
      /\ End(m, b) \notin B => next = None
  BY NextIs
<1>. QED  BY <1>1, <1>2, <1>3

\* try_merge() makes one block of a block in use and its free neighbours; the
\* blocks that are next to it then are in use.
LEMMA TryMergeIs ==
  ASSUME HeapAssumption, NEW m, NEW B, NEW list, NEW L, NEW b, Holds(m, B, list, L, {b}),
         NEW h, h = TryMerge(Heap(m, list, b))
  PROVE  \E C : /\ Holds(h.mem, C, h.free, L, {h.block}) /\ h.block \in C
                /\ Alone(h.mem, C, h.block)
<1>1. Good(m, B) /\ b \in B /\ ~ IsFree(m, b) /\ b \notin Blocks(L)
  BY DEF Holds, Owned
<1>2. FlagOf(m, b) = 1
  <2>1. m \in [Address -> Int] /\ b \in Address
    BY <1>1 DEF Good
  <2>2. FlagOf(m, b) \in {0, 1}
    BY <2>1, WordIs
  <2>. QED  BY <1>1, <2>2 DEF IsFree
<1>. PICK prev, next, before, behind :
       /\ prev = PreviousOf(m, b) /\ next = NextOf(m, b)
       /\ before = (prev # None /\ IsFree(m, prev)) /\ before \in BOOLEAN
       /\ behind = (next # None /\ IsFree(m, next)) /\ behind \in BOOLEAN
  OBVIOUS
<1>3. /\ before => prev \in B /\ End(m, prev) = b /\ IsFree(m, prev)
      /\ ~ before => \A c \in B : End(m, c) = b => ~ IsFree(m, c)
      /\ behind => next \in B /\ End(m, b) = next /\ IsFree(m, next)
      /\ ~ behind => (End(m, b) \in B => ~ IsFree(m, End(m, b)))
  BY <1>1, NeighboursAre
<1>. PICK p, e, size, free :
       /\ p = IF before THEN prev ELSE b
       /\ e = IF behind THEN End(m, next) ELSE End(m, b)
       /\ size = SizeOf(m, b) + (IF before THEN SizeOf(m, prev) + Overhead ELSE 0)
                              + (IF behind THEN SizeOf(m, next) + Overhead ELSE 0)
       /\ free = LET l == IF before THEN Without(list, prev) ELSE list
                 IN  IF behind THEN Without(l, next) ELSE l
  OBVIOUS
<1>4. CASE ~ before /\ ~ behind
  <2>1. h = Heap(m, list, b)
    BY <1>4 DEF TryMerge, Heap
  <2>2. h.mem = m /\ h.free = list /\ h.block = b
    BY <2>1 DEF Heap
  <2>3. Alone(m, B, b)
    BY <1>3, <1>4 DEF Alone
  <2>. QED  BY <1>1, <2>2, <2>3
<1>5. CASE before \/ behind
  <2>. PICK n : n = WriteSizeFields(m, p, size, 1)
    OBVIOUS
  <2>1. h.mem = n /\ h.free = free /\ h.block = p
    BY <1>2, <1>5 DEF TryMerge, Heap
  <2>2. /\ p \in B /\ e \in B \cup {HeapSize} /\ p <= b /\ b < e /\ p < e
        /\ size \in Int /\ size >= 2 /\ e = p + size + 2 /\ e \in Int /\ p \in Nat
        /\ \A c \in B : c < p \/ c >= e <=> c # b /\ (before => c # prev) /\ (behind => c # next)
    <3>1. \A c \in B : /\ c \in Nat /\ SizeOf(m, c) \in Nat /\ SizeOf(m, c) >= 2
                       /\ End(m, c) = c + 2 + SizeOf(m, c) /\ End(m, c) \in B \cup {HeapSize}
      <4>1. ASSUME NEW c \in B
            PROVE  /\ c \in Nat /\ SizeOf(m, c) \in Nat /\ SizeOf(m, c) >= 2
                   /\ End(m, c) = c + 2 + SizeOf(m, c)
        <5>1. /\ c \in 0 .. MaxBlock /\ SizeOf(m, c) \in MinBlockSize .. HeapSize - Overhead
              /\ End(m, c) = c + 2 + SizeOf(m, c)
          BY <1>1, BlockIs
        <5>. QED  BY <5>1
      <4>2. \A c \in B : End(m, c) \in B \cup {HeapSize}
        BY <1>1 DEF Good
      <4>. QED  BY <4>1, <4>2
    <3>2. p \in B /\ e \in B \cup {HeapSize}
      BY <1>1, <1>3, <3>1
    <3>3. p <= b /\ b < e /\ size \in Int /\ size >= 2 /\ e = p + size + 2 /\ e \in Int /\ p \in Nat
      <4>1. CASE before /\ behind
        BY <1>1, <1>3, <3>1, <4>1
      <4>2. CASE before /\ ~ behind
        BY <1>1, <1>3, <3>1, <4>2
      <4>3. CASE ~ before /\ behind
        BY <1>1, <1>3, <3>1, <4>3
      <4>. QED  BY <1>5, <4>1, <4>2, <4>3
    <3>4. ASSUME NEW c \in B
          PROVE  c < p \/ c >= e <=> c # b /\ (before => c # prev) /\ (behind => c # next)
      <4>1. /\ b <= c /\ c < End(m, b) => c = b
            /\ before => (prev <= c /\ c < b => c = prev)
            /\ behind => (next <= c /\ c < End(m, next) => c = next)
        BY <1>1, <1>3, Side
      <4>2. /\ before => prev < b
            /\ behind => b < next /\ next < End(m, next)
        BY <1>1, <1>3, Side
      <4>3. /\ c \in Nat /\ b \in Nat /\ End(m, b) \in Int
            /\ (before => prev \in Nat) /\ (behind => next \in Nat /\ End(m, next) \in Int)
        BY <1>1, <1>3, <3>1
      <4>4. CASE before /\ behind
        BY <1>1, <1>3, <3>3, <4>1, <4>2, <4>3, <4>4
      <4>5. CASE before /\ ~ behind
        BY <1>1, <1>3, <3>3, <4>1, <4>2, <4>3, <4>5
      <4>6. CASE ~ before /\ behind
        BY <1>1, <1>3, <3>3, <4>1, <4>2, <4>3, <4>6
      <4>. QED  BY <1>5, <4>4, <4>5, <4>6
    <3>. QED  BY <3>2, <3>3, <3>4
  <2>. DEFINE O == Outside(B, p, e)
              C == O \cup {p}
  <2>3. /\ O = {c \in B : c # b /\ (before => c # prev) /\ (behind => c # next)}
        /\ O \subseteq B /\ p \notin O
    BY <2>2 DEF Outside
  <2>4. /\ n \in [Address -> Int] /\ n[p] = Field(size, 1) /\ n[p + 1 + size] = size
        /\ \A a \in Address : a \notin p .. e - 1 => n[a] = m[a]
    <3>1. m \in [Address -> Int] /\ p \in Address /\ p + 1 + size \in Address /\ p # p + 1 + size
      <4>1. e <= HeapSize
        <5>1. CASE e \in B
          <6>1. e \in 0 .. MaxBlock
            BY <1>1, <5>1, BlockIs
          <6>. QED  BY <6>1 DEF MaxBlock, HeapAssumption
        <5>2. CASE e = HeapSize
          BY <5>2 DEF HeapAssumption
        <5>. QED  BY <2>2, <5>1, <5>2
      <4>2. \A x \in Nat, s \in Int, z \in Int : s >= 2 /\ z = x + s + 2 =>
              x + 1 + s \in Nat /\ x + 1 + s < z /\ x # x + 1 + s
        OBVIOUS
      <4>3. p + 1 + size \in Nat /\ p + 1 + size < e /\ p # p + 1 + size
        BY <2>2, <4>2
      <4>4. p + 1 + size \in Address
        BY <2>2, <4>1, <4>3 DEF Address, HeapAssumption
      <4>. QED  BY <1>1, <2>2, <4>3, <4>4 DEF Good
    <3>2. Field(size, 1) \in Int
      BY <2>2 DEF Field
    <3>3. p \in p .. e - 1 /\ p + 1 + size \in p .. e - 1
      BY <2>2
    <3>. QED  BY <2>2, <3>1, <3>2, <3>3 DEF WriteSizeFields
  <2>5. /\ Good(n, C) /\ Alike(m, n, O)
        /\ SizeOf(n, p) = size /\ End(n, p) = e /\ ~ IsFree(n, p)
    <3>1. PICK f : f = 1
      OBVIOUS
    <3>2. One(m, B, n, p, e, size, f) /\ f # 0
      BY <1>1, <2>2, <2>4, <3>1 DEF One
    <3>3. /\ Good(n, Outside(B, p, e) \cup {p}) /\ Alike(m, n, Outside(B, p, e))
          /\ SizeOf(n, p) = size /\ End(n, p) = e /\ (IsFree(n, p) <=> f = 0)
      BY ONLY HeapAssumption, <3>2, OneIs
    <3>. QED  BY <3>2, <3>3
  <2>6. \A c \in O : End(n, c) = End(m, c) /\ (IsFree(n, c) <=> IsFree(m, c))
    BY <2>5, SameWord DEF Alike
  <2>7. Listed(n, C, free)
    <3>1. list \in Seq(Address) /\ IsInjective(list) /\ \A c : Contains(list, c) <=> c \in B /\ IsFree(m, c)
      BY DEF Holds, Listed
    <3>2. /\ free \in Seq(Address) /\ IsInjective(free)
          /\ \A c : Contains(free, c) <=> Contains(list, c) /\ (before => c # prev) /\ (behind => c # next)
      <4>. PICK l : l = IF before THEN Without(list, prev) ELSE list
        OBVIOUS
      <4>1. /\ l \in Seq(Address) /\ IsInjective(l)
            /\ \A c : Contains(l, c) <=> Contains(list, c) /\ (before => c # prev)
        BY <3>1, WithoutIs
      <4>2. free = IF behind THEN Without(l, next) ELSE l
        OBVIOUS
      <4>. QED  BY <4>1, <4>2, WithoutIs
    <3>3. ASSUME NEW c PROVE Contains(free, c) <=> c \in C /\ IsFree(n, c)
      BY <1>1, <2>3, <2>5, <2>6, <3>1, <3>2
    <3>. QED  BY <3>2, <3>3 DEF Listed
  <2>8. Merged(n, C)
    <3>1. ASSUME NEW c \in C, IsFree(n, c), End(n, c) \in C PROVE ~ IsFree(n, End(n, c))
      <4>1. c \in O /\ c \in B /\ IsFree(m, c) /\ End(n, c) = End(m, c)
        BY <2>3, <2>5, <2>6, <3>1
      <4>2. CASE End(m, c) = p
        BY <2>5, <4>1, <4>2
      <4>3. CASE End(m, c) # p
        <5>1. End(m, c) \in O /\ End(m, c) \in B
          BY <2>3, <3>1, <4>1, <4>3
        <5>. QED  BY <2>6, <4>1, <5>1 DEF Holds, Merged
      <4>. QED  BY <4>2, <4>3
    <3>. QED  BY <3>1 DEF Merged
  <2>9. Owned(n, C, L, {p})
    <3>1. {c \in B : ~ IsFree(m, c)} = Blocks(L) \cup {b}
      BY DEF Holds, Owned
    <3>2. {c \in C : ~ IsFree(n, c)} = Blocks(L) \cup {p}
      BY <1>1, <1>3, <2>3, <2>5, <2>6, <3>1
    <3>3. p \notin Blocks(L)
      BY <1>1, <1>3, <3>1
    <3>. QED  BY <3>2, <3>3 DEF Owned, Holds
  <2>10. Intact(n, L)
    <3>1. Blocks(L) \subseteq O
      BY <1>1, <1>3, <2>3 DEF Holds, Owned
    <3>. QED  BY <1>1, <2>3, <2>5, <3>1, StaysIntact DEF Holds
  <2>11. Alone(n, C, p)
    <3>1. Merged(m, B)
      BY DEF Holds
    <3>2. ASSUME NEW c \in C, End(n, c) = p PROVE ~ IsFree(n, c)
      <4>1. c \in O /\ c \in B /\ End(m, c) = p
        BY <2>2, <2>3, <2>5, <2>6, <3>2
      <4>2. ~ IsFree(m, c)
        BY <1>3, <2>2, <3>1, <4>1 DEF Merged
      <4>. QED  BY <2>6, <4>1, <4>2
    <3>3. ASSUME e \in C PROVE ~ IsFree(n, e)
      <4>1. e \in O /\ e \in B
        BY <2>2, <2>3, <3>3
      <4>2. ~ IsFree(m, e)
        BY <1>3, <3>1, <4>1 DEF Merged
      <4>. QED  BY <2>6, <4>1, <4>2
    <3>. QED  BY <2>5, <3>2, <3>3 DEF Alone
  <2>. QED  BY <2>1, <2>5, <2>7, <2>8, <2>9, <2>10, <2>11 DEF Holds
<1>. QED  BY <1>4, <1>5


\* n is m with another flag in a block.
Mark(m, b, f) == [m EXCEPT ![b] = Field(SizeOf(m, b), f)]
Marked(m, B, n, b, f) == Good(m, B) /\ b \in B /\ f \in {0, 1} /\ n = Mark(m, b, f)

LEMMA MarkIs ==
  ASSUME HeapAssumption, NEW m, NEW B, NEW n, NEW b, NEW f, Marked(m, B, n, b, f)
  PROVE  /\ Good(n, B) /\ Alike(m, n, B \ {b}) /\ (IsFree(n, b) <=> f = 0)
         /\ \A c \in B : SizeOf(n, c) = SizeOf(m, c) /\ End(n, c) = End(m, c)
         /\ \A c \in B : c # b => (IsFree(n, c) <=> IsFree(m, c))
         /\ n \in [Address -> Int] /\ \A a \in Address : a # b => n[a] = m[a]
<1>0. Good(m, B) /\ b \in B /\ f \in {0, 1} /\ n = Mark(m, b, f)
  BY DEF Marked
<1>. PICK e, s : e = End(m, b) /\ s = SizeOf(m, b)
  OBVIOUS
<1>1. /\ b \in Address /\ b \in Nat /\ s \in Int /\ s >= 2 /\ e = b + s + 2 /\ e \in Int
      /\ m[b + 1 + s] = s /\ b + 1 + s \in Address
  <2>1. /\ b \in 0 .. MaxBlock /\ b \in Address /\ s \in MinBlockSize .. HeapSize - Overhead
        /\ e = b + 2 + s /\ b + 1 + s \in Address /\ m[b + 1 + s] = s
    BY <1>0, BlockIs
  <2>. QED  BY <2>1
<1>2. e \in B \cup {HeapSize} /\ m \in [Address -> Int]
  BY <1>0 DEF Good
<1>3. /\ n \in [Address -> Int] /\ n[b] = Field(s, f)
      /\ \A a \in Address : a # b => n[a] = m[a]
  <2>1. Field(s, f) \in Int
    BY <1>0, <1>1 DEF Field
  <2>. QED  BY <1>0, <1>1, <1>2, <2>1 DEF Mark
<1>4. /\ n[b + 1 + s] = s /\ \A a \in Address : a \notin b .. e - 1 => n[a] = m[a]
  <2>1. b \in b .. e - 1 /\ b + 1 + s # b
    BY <1>1
  <2>. QED  BY <1>1, <1>3, <2>1
<1>5. /\ Good(n, Outside(B, b, e) \cup {b}) /\ Alike(m, n, Outside(B, b, e))
      /\ SizeOf(n, b) = s /\ End(n, b) = e /\ (IsFree(n, b) <=> f = 0)
  <2>1. One(m, B, n, b, e, s, f)
    BY <1>0, <1>1, <1>2, <1>3, <1>4 DEF One
  <2>. QED  BY <2>1, OneIs
<1>6. Outside(B, b, e) = B \ {b}
  <2>1. ASSUME NEW c \in B PROVE c < b \/ c >= e <=> c # b
    <3>1. (b <= c /\ c < e => c = b) /\ b < e
      BY <1>0, Side
    <3>2. c \in 0 .. MaxBlock
      BY <1>0, BlockIs
    <3>. QED  BY <1>1, <3>1, <3>2
  <2>. QED  BY <2>1 DEF Outside
<1>7. (B \ {b}) \cup {b} = B
  BY <1>0
<1>8. \A c \in B \ {b} : SizeOf(n, c) = SizeOf(m, c) /\ End(n, c) = End(m, c) /\ (IsFree(n, c) <=> IsFree(m, c))
  BY <1>5, <1>6, SameWord DEF Alike
<1>. QED  BY <1>3, <1>5, <1>6, <1>7, <1>8

\* __malloc() takes a block out of the free list and marks it.
LEMMA TakeIs ==
  ASSUME HeapAssumption, NEW m, NEW B, NEW list, NEW L, NEW X, Holds(m, B, list, L, X),
         NEW b \in B, IsFree(m, b), NEW n, n = Mark(m, b, 1)
  PROVE  /\ Holds(n, B, Without(list, b), L, X \cup {b}) /\ b \notin X /\ b \notin Blocks(L)
         /\ \A c \in B : SizeOf(n, c) = SizeOf(m, c)
         /\ \A c \in B : End(n, c) = b => ~ IsFree(n, c)
         /\ \A x \in X : Alone(m, B, x) => Alone(n, B, x) /\ End(n, x) # b
<1>1. /\ Good(m, B) /\ b \notin X /\ b \notin Blocks(L) /\ X \subseteq B
  BY DEF Holds, Owned
<1>2. /\ Good(n, B) /\ Alike(m, n, B \ {b}) /\ ~ IsFree(n, b)
      /\ \A c \in B : SizeOf(n, c) = SizeOf(m, c) /\ End(n, c) = End(m, c)
      /\ \A c \in B : c # b => (IsFree(n, c) <=> IsFree(m, c))
  <2>1. PICK f : f = 1
    OBVIOUS
  <2>2. Marked(m, B, n, b, f)
    BY <1>1, <2>1 DEF Marked
  <2>3. /\ Good(n, B) /\ Alike(m, n, B \ {b}) /\ (IsFree(n, b) <=> f = 0)
        /\ \A c \in B : SizeOf(n, c) = SizeOf(m, c) /\ End(n, c) = End(m, c)
        /\ \A c \in B : c # b => (IsFree(n, c) <=> IsFree(m, c))
    BY ONLY HeapAssumption, <2>2, MarkIs
  <2>. QED  BY <2>1, <2>3
<1>3. Listed(n, B, Without(list, b))
  BY <1>2, WithoutIs DEF Holds, Listed
<1>4. Merged(n, B)
  BY <1>2 DEF Holds, Merged
<1>5. Owned(n, B, L, X \cup {b})
  <2>1. {c \in B : ~ IsFree(n, c)} = {c \in B : ~ IsFree(m, c)} \cup {b}
    BY <1>2
  <2>. QED  BY <1>1, <2>1 DEF Holds, Owned
<1>6. Intact(n, L)
  <2>1. Blocks(L) \subseteq B \ {b} /\ B \ {b} \subseteq B
    BY <1>1 DEF Holds, Owned
  <2>2. Intact(m, L)
    BY DEF Holds
  <2>. QED  BY <1>1, <1>2, <2>1, <2>2, StaysIntact
<1>7. \A c \in B : End(n, c) = b => ~ IsFree(n, c)
  BY <1>2 DEF Holds, Merged
<1>8. ASSUME NEW x \in X, Alone(m, B, x) PROVE Alone(n, B, x) /\ End(n, x) # b
  BY <1>1, <1>2, <1>8 DEF Alone
<1>. QED  BY <1>1, <1>2, <1>3, <1>4, <1>5, <1>6, <1>7, <1>8 DEF Holds

\* free_list_insert() puts a block that is in use and stands alone into the list.
LEMMA InsertIs ==
  ASSUME HeapAssumption, NEW m, NEW B, NEW list, NEW L, NEW X, NEW b \in B,
         Holds(m, B, list, L, X \cup {b}), b \notin X, Alone(m, B, b),
         NEW h, h = Insert(Heap(m, list, b))
  PROVE  Holds(h.mem, B, h.free, L, X) /\ \A c \in B : SizeOf(h.mem, c) = SizeOf(m, c)
<1>1. /\ Good(m, B) /\ ~ IsFree(m, b) /\ b \notin Blocks(L) /\ b \in Address
  BY DEF Holds, Owned, Good
<1>. PICK n : n = Mark(m, b, 0)
  OBVIOUS
<1>. PICK free : free = <<b>> \o list
  OBVIOUS
<1>2. /\ Good(n, B) /\ Alike(m, n, B \ {b}) /\ IsFree(n, b)
      /\ \A c \in B : SizeOf(n, c) = SizeOf(m, c) /\ End(n, c) = End(m, c)
      /\ \A c \in B : c # b => (IsFree(n, c) <=> IsFree(m, c))
  <2>1. PICK f : f = 0
    OBVIOUS
  <2>2. Marked(m, B, n, b, f)
    BY <1>1, <2>1 DEF Marked
  <2>3. /\ Good(n, B) /\ Alike(m, n, B \ {b}) /\ (IsFree(n, b) <=> f = 0)
        /\ \A c \in B : SizeOf(n, c) = SizeOf(m, c) /\ End(n, c) = End(m, c)
        /\ \A c \in B : c # b => (IsFree(n, c) <=> IsFree(m, c))
    BY ONLY HeapAssumption, <2>2, MarkIs
  <2>. QED  BY <2>1, <2>3
<1>3. Listed(n, B, free)
  <2>1. /\ list \in Seq(Address) /\ IsInjective(list)
        /\ \A c : Contains(list, c) <=> c \in B /\ IsFree(m, c)
    BY DEF Holds, Listed
  <2>2. /\ free \in Seq(Address) /\ IsInjective(free)
        /\ \A c : Contains(free, c) <=> Contains(list, c) \/ c = b
    BY <1>1, <2>1, InFront
  <2>. QED  BY <1>2, <2>1, <2>2 DEF Listed
<1>4. Merged(n, B)
  <2>1. ASSUME NEW c \in B, IsFree(n, c), End(n, c) \in B PROVE ~ IsFree(n, End(n, c))
    <3>1. End(n, c) = End(m, c)
      BY <1>2
    <3>2. CASE c = b
      <4>1. End(m, b) # b /\ End(m, b) \in B
        <5>1. b \in 0 .. MaxBlock /\ End(m, b) \in b + 4 .. HeapSize
          BY <1>1, BlockIs
        <5>. QED  BY <2>1, <3>1, <3>2, <5>1
      <4>. QED  BY <1>2, <3>1, <3>2, <4>1 DEF Alone
    <3>3. CASE c # b
      <4>1. IsFree(m, c)
        BY <1>2, <2>1, <3>3
      <4>2. End(m, c) # b
        BY <4>1 DEF Alone
      <4>. QED  BY <1>2, <2>1, <3>1, <4>1, <4>2 DEF Holds, Merged
    <3>. QED  BY <3>2, <3>3
  <2>. QED  BY <2>1 DEF Merged
<1>5. Owned(n, B, L, X)
  <2>1. {c \in B : ~ IsFree(n, c)} = {c \in B : ~ IsFree(m, c)} \ {b}
    BY <1>2
  <2>. QED  BY <1>1, <2>1 DEF Holds, Owned
<1>6. Intact(n, L)
  <2>1. Blocks(L) \subseteq B \ {b} /\ B \ {b} \subseteq B
    BY <1>1 DEF Holds, Owned
  <2>2. Intact(m, L)
    BY DEF Holds
  <2>. QED  BY <1>1, <1>2, <2>1, <2>2, StaysIntact
<1>7. Holds(n, B, free, L, X)
  BY <1>2, <1>3, <1>4, <1>5, <1>6 DEF Holds
<1>8. h.mem = WriteLinks(n, b) /\ h.free = free
  BY DEF Insert, Heap, Mark
<1>9. /\ h.mem \in [Address -> Int]
      /\ \A a \in Address : a \notin b + 1 .. b + SizeOf(n, b) => h.mem[a] = n[a]
  <2>1. b \in Nat /\ SizeOf(n, b) \in Int /\ SizeOf(n, b) >= 2
    <3>1. b \in 0 .. MaxBlock /\ SizeOf(n, b) \in MinBlockSize .. HeapSize - Overhead
      BY <1>2, BlockIs
    <3>. QED  BY <3>1
  <2>2. b + 1 \in b + 1 .. b + SizeOf(n, b) /\ b + 2 \in b + 1 .. b + SizeOf(n, b)
    BY <2>1
  <2>3. n \in [Address -> Int] /\ Link \in Int
    BY <1>2 DEF Good, Link
  <2>. QED  BY <1>8, <2>2, <2>3 DEF WriteLinks
<1>. PICK r : r = h.mem
  OBVIOUS
<1>10. Holds(r, B, free, L, X) /\ \A c \in B : SizeOf(r, c) = SizeOf(n, c)
  <2>1. /\ r \in [Address -> Int] /\ b \in B /\ b \notin Blocks(L)
        /\ \A a \in Address : a \notin b + 1 .. b + SizeOf(n, b) => r[a] = n[a]
    BY <1>1, <1>9
  <2>. QED  BY ONLY HeapAssumption, <1>7, <2>1, InsideIs
<1>. QED  BY <1>2, <1>8, <1>10

\* The block in hand is in use, is none of L and X, and has room for the words.
HasRoom(h, B, L, X, words) ==
  /\ Holds(h.mem, B, h.free, L, X \cup {h.block})
  /\ h.block \in B /\ h.block \notin X /\ words <= SizeOf(h.mem, h.block)

\* The block in front of the block in hand is in use.
Fronted(h, B) == \A c \in B : End(h.mem, c) = h.block => ~ IsFree(h.mem, c)

\* maybe_split_block() cuts a free block off the front of such a block.
LEMMA SplitIs ==
  ASSUME HeapAssumption, NEW m, NEW list, NEW b, NEW B, NEW L, NEW X, NEW words \in Nat,
         HasRoom(Heap(m, list, b), B, L, X, words), Fronted(Heap(m, list, b), B)
  PROVE  \E C : /\ HasRoom(MaybeSplitBlock(Heap(m, list, b), words), C, L, X, words)
                /\ \A x \in X : Alone(m, B, x) /\ End(m, x) # b =>
                     x \in C /\ Alone(MaybeSplitBlock(Heap(m, list, b), words).mem, C, x)
<1>. PICK h : h = MaybeSplitBlock(Heap(m, list, b), words)
  OBVIOUS
<1>0. /\ b \in B /\ Holds(m, B, list, L, X \cup {b}) /\ b \notin X /\ words <= SizeOf(m, b)
      /\ \A c \in B : End(m, c) = b => ~ IsFree(m, c)
  BY DEF HasRoom, Fronted, Heap
<1>. SUFFICES \E C : /\ Holds(h.mem, C, h.free, L, X \cup {h.block})
                     /\ h.block \in C /\ h.block \notin X /\ words <= SizeOf(h.mem, h.block)
                     /\ \A x \in X : Alone(m, B, x) /\ End(m, x) # b => x \in C /\ Alone(h.mem, C, x)
  BY DEF HasRoom
<1>1. /\ Good(m, B) /\ ~ IsFree(m, b) /\ b \notin Blocks(L) /\ X \subseteq B
  BY <1>0 DEF Holds, Owned
<1>. PICK s, size, rest, e : /\ s = SizeOf(m, b) /\ size = Max({words, MinBlockSize})
                             /\ rest = s - size - Overhead /\ e = End(m, b)
  OBVIOUS
<1>2. size \in Nat /\ size >= 2 /\ size >= words
  <2>1. \A x, y \in Nat : \E z \in {x, y} : \A w \in {x, y} : z >= w
    OBVIOUS
  <2>2. \E z \in {words, MinBlockSize} : \A w \in {words, MinBlockSize} : z >= w
    BY <2>1
  <2>3. size \in {words, MinBlockSize} /\ \A w \in {words, MinBlockSize} : size >= w
    BY <2>2 DEF Max
  <2>. QED  BY <2>3
<1>3. /\ b \in Nat /\ b \in Address /\ s \in Nat /\ s >= 2 /\ e = b + 2 + s /\ e <= HeapSize /\ HeapSize \in Nat
      /\ e \in B \cup {HeapSize} /\ m \in [Address -> Int] /\ MaxBlock = HeapSize - 4
  <2>1. /\ b \in 0 .. MaxBlock /\ b \in Address /\ s \in MinBlockSize .. HeapSize - Overhead
        /\ e = b + 2 + s /\ e \in b + 4 .. HeapSize
    BY <1>0, <1>1, BlockIs
  <2>2. HeapSize \in Nat /\ MaxBlock = HeapSize - 4
    BY DEF HeapAssumption, MaxBlock
  <2>3. e \in B \cup {HeapSize} /\ m \in [Address -> Int]
    BY <1>0, <1>1 DEF Good
  <2>. QED  BY <2>1, <2>2, <2>3
<1>4. FlagOf(m, b) = 1
  <2>1. FlagOf(m, b) \in {0, 1}
    BY <1>3, WordIs
  <2>. QED  BY <1>1, <2>1 DEF IsFree
<1>5. CASE rest < MinBlockSize
  <2>1. h.mem = m /\ h.free = list /\ h.block = b
    BY <1>5 DEF MaybeSplitBlock, Heap
  <2>. QED  BY <1>0, <1>1, <2>1
<1>6. CASE ~ rest < MinBlockSize
  <2>. PICK q, front, n, free :
         /\ q = b + rest + 2 /\ front = WriteLinks(WriteSizeFields(m, b, rest, 0), b)
         /\ n = WriteSizeFields(front, q, size, 1) /\ free = <<b>> \o list
    OBVIOUS
  <2>1. /\ rest \in Int /\ rest >= 2 /\ q \in Int /\ b < q /\ q < e /\ e = q + size + 2
        /\ q <= MaxBlock /\ b + 1 + rest = q - 1 /\ q + 1 + size = e - 1
    <3>1. rest = s - size - 2 /\ rest >= 2 /\ q = b + rest + 2
      <4>1. rest = s - size - 2 /\ q = b + rest + 2 /\ ~ rest < 2
        BY <1>6
      <4>. QED  BY ONLY <1>2, <1>3, <4>1
    <3>. QED  BY ONLY <1>2, <1>3, <3>1
  <2>2. /\ front \in [Address -> Int] /\ front[b] = Field(rest, 0) /\ front[b + 1 + rest] = rest
        /\ \A a \in Address : a \notin b .. q - 1 => front[a] = m[a]
    <3>1. /\ b + 1 + rest \in Address /\ b + 1 \in Address /\ b + 2 \in Address
          /\ b + 1 + rest # b /\ b + 1 + rest # b + 1 /\ b + 1 + rest # b + 2
          /\ b # b + 1 /\ b # b + 2
      BY ONLY <1>3, <2>1 DEF Address
    <3>2. /\ b \in b .. q - 1 /\ b + 1 + rest \in b .. q - 1 /\ b + 1 \in b .. q - 1 /\ b + 2 \in b .. q - 1
      BY ONLY <1>3, <2>1
    <3>3. Field(rest, 0) \in Int /\ Link \in Int
      BY <2>1 DEF Field, Link
    <3>4. PICK w : w = WriteSizeFields(m, b, rest, 0)
      OBVIOUS
    <3>5. /\ w \in [Address -> Int] /\ w[b] = Field(rest, 0) /\ w[b + 1 + rest] = rest
          /\ \A a \in Address : a \notin b .. q - 1 => w[a] = m[a]
      BY <1>3, <2>1, <3>1, <3>2, <3>3, <3>4 DEF WriteSizeFields
    <3>6. front = WriteLinks(w, b)
      BY <3>4
    <3>. QED  BY ONLY <1>3, <3>1, <3>2, <3>3, <3>5, <3>6 DEF WriteLinks
  <2>3. SizeOf(front, b) = rest
    <3>. PICK f : f = 0
      OBVIOUS
    <3>1. f \in {0, 1} /\ front[b] = Field(rest, f) /\ rest \in Int
      BY <2>1, <2>2
    <3>. QED  BY ONLY <3>1, FieldIs
  <2>4. NextOf(front, b) = q
    <3>1. b + 1 + rest + 1 = q
      BY <1>3, <2>1
    <3>. QED  BY <2>1, <2>2, <2>3, <3>1 DEF NextOf
  <2>5. h.mem = n /\ h.free = free /\ h.block = q
    BY <1>4, <1>6, <2>4 DEF MaybeSplitBlock, Heap
  <2>6. /\ n \in [Address -> Int] /\ n[b] = Field(rest, 0) /\ n[b + 1 + rest] = rest
        /\ n[q] = Field(size, 1) /\ n[q + 1 + size] = size
        /\ \A a \in Address : a \notin b .. e - 1 => n[a] = m[a]
    <3>1. /\ q \in Address /\ q + 1 + size \in Address /\ b + 1 + rest \in Address
          /\ q # q + 1 + size /\ b # q /\ b # q + 1 + size
          /\ b + 1 + rest # q /\ b + 1 + rest # q + 1 + size
      BY ONLY <1>2, <1>3, <2>1 DEF Address
    <3>2. /\ q \in b .. e - 1 /\ q + 1 + size \in b .. e - 1
          /\ \A a \in Address : a \notin b .. e - 1 => a \notin b .. q - 1
      BY ONLY <1>2, <1>3, <2>1 DEF Address
    <3>3. Field(size, 1) \in Int /\ size \in Int
      BY <1>2 DEF Field
    <3>4. n = [front EXCEPT ![q] = Field(size, 1), ![q + 1 + size] = size]
      BY DEF WriteSizeFields
    <3>5. \A a \in Address : a # q /\ a # q + 1 + size => n[a] = front[a]
      BY ONLY <2>2, <3>4
    <3>6. n \in [Address -> Int] /\ n[q] = Field(size, 1) /\ n[q + 1 + size] = size
      BY ONLY <2>2, <3>1, <3>3, <3>4
    <3>7. n[b] = Field(rest, 0) /\ n[b + 1 + rest] = rest
      BY <1>3, <2>2, <3>1, <3>5
    <3>. QED  BY ONLY <2>2, <3>2, <3>5, <3>6, <3>7
  <2>. DEFINE O == B \ {b}
              C == O \cup {b, q}
  <2>7. \A c \in B : c \in Int /\ (c < b \/ c >= e <=> c # b)
    <3>1. ASSUME NEW c \in B PROVE c \in Int /\ (c < b \/ c >= e <=> c # b)
      <4>1. (b <= c /\ c < e => c = b) /\ b < e
        BY <1>0, <1>1, Side
      <4>2. c \in 0 .. MaxBlock
        BY <1>1, BlockIs
      <4>3. b \in Int /\ e \in Int /\ c \in Int
        BY <1>3, <4>2
      <4>. QED  BY ONLY <4>1, <4>3
    <3>. QED  BY <3>1
  <2>8. q \notin B /\ q # HeapSize /\ b # q
    BY ONLY <1>3, <2>1, <2>7
  <2>9. /\ Good(n, C) /\ Alike(m, n, O)
        /\ SizeOf(n, b) = rest /\ End(n, b) = q /\ IsFree(n, b)
        /\ SizeOf(n, q) = size /\ End(n, q) = e /\ ~ IsFree(n, q)
    <3>1. Outside(B, b, e) = O
      BY <2>7 DEF Outside
    <3>2. Two(m, B, n, b, e, rest, q, size)
      <4>1. /\ Good(m, B) /\ b \in B /\ e \in B \cup {HeapSize} /\ size \in Int /\ size >= 2
            /\ q = b + rest + 2 /\ rest \in Int /\ rest >= 2 /\ e = q + size + 2
        BY <1>0, <1>1, <1>2, <1>3, <2>1
      <4>. QED  BY ONLY <4>1, <2>6 DEF Two
    <3>3. /\ Good(n, Outside(B, b, e) \cup {b, q}) /\ Alike(m, n, Outside(B, b, e))
          /\ SizeOf(n, b) = rest /\ End(n, b) = q /\ IsFree(n, b)
          /\ SizeOf(n, q) = size /\ End(n, q) = e /\ ~ IsFree(n, q)
      BY ONLY HeapAssumption, <3>2, TwoIs
    <3>. QED  BY <3>1, <3>3
  <2>10. \A c \in O : /\ End(n, c) = End(m, c) /\ (IsFree(n, c) <=> IsFree(m, c))
                      /\ End(m, c) # q
    <3>1. \A c \in O : End(m, c) # q
      BY <1>1, <2>8 DEF Good
    <3>2. \A c \in O : n[c] = m[c]
      BY <2>9 DEF Alike
    <3>3. \A c \in O : End(n, c) = End(m, c) /\ (IsFree(n, c) <=> IsFree(m, c))
      BY <3>2, SameWord
    <3>. QED  BY <3>1, <3>3
  <2>11. Listed(n, C, free)
    <3>1. /\ list \in Seq(Address) /\ IsInjective(list)
          /\ \A c : Contains(list, c) <=> c \in B /\ IsFree(m, c)
      BY <1>0 DEF Holds, Listed
    <3>2. /\ free \in Seq(Address) /\ IsInjective(free)
          /\ \A c : Contains(free, c) <=> Contains(list, c) \/ c = b
      BY <1>0, <1>1, <1>3, <3>1, InFront
    <3>. QED  BY <1>1, <2>8, <2>9, <2>10, <3>1, <3>2 DEF Listed
  <2>12. Merged(n, C)
    <3>1. ASSUME NEW c \in C, IsFree(n, c), End(n, c) \in C PROVE ~ IsFree(n, End(n, c))
      <4>1. CASE c = b
        BY <2>9, <4>1
      <4>2. CASE c # b
        <5>1. c \in O /\ IsFree(m, c) /\ End(n, c) = End(m, c) /\ End(m, c) # q
          BY <2>9, <2>10, <3>1, <4>2
        <5>2. End(m, c) \in O
          <6>1. End(m, c) \in C /\ End(m, c) # q /\ End(m, c) # b
            BY <1>0, <3>1, <5>1
          <6>. QED  BY <6>1
        <5>3. Merged(m, B) /\ c \in B /\ End(m, c) \in B
          BY <1>0, <5>1, <5>2 DEF Holds
        <5>4. ~ IsFree(m, End(m, c))
          BY <5>1, <5>3 DEF Merged
        <5>. QED  BY <2>10, <5>1, <5>2, <5>4
      <4>. QED  BY <4>1, <4>2
    <3>. HIDE DEF C
    <3>. QED  BY ONLY <3>1 DEF Merged
  <2>13. Owned(n, C, L, X \cup {q})
    <3>1. {c \in B : ~ IsFree(m, c)} = Blocks(L) \cup X \cup {b} /\ Blocks(L) \cap X = {}
      BY <1>0 DEF Holds, Owned
    <3>2. ASSUME NEW c PROVE c \in C /\ ~ IsFree(n, c) <=> c \in Blocks(L) \cup X \cup {q}
      <4>1. CASE c = q
        BY <2>9, <4>1
      <4>2. CASE c = b
        BY <1>0, <1>1, <2>8, <2>9, <4>2
      <4>3. CASE c # q /\ c # b
        <5>1. c \in C <=> c \in B
          BY <1>0, <4>3
        <5>2. c \in B => (IsFree(n, c) <=> IsFree(m, c))
          BY <2>10, <4>3
        <5>3. c \in B /\ ~ IsFree(m, c) <=> c \in Blocks(L) \cup X \cup {b}
          BY <3>1
        <5>. HIDE DEF C, O
        <5>. QED  BY ONLY <4>3, <5>1, <5>2, <5>3
      <4>. QED  BY <4>1, <4>2, <4>3
    <3>3. q \notin Blocks(L)
      BY <2>8, <3>1
    <3>4. \A x, y \in L : x.block = y.block => x = y
      BY <1>0 DEF Holds, Owned
    <3>5. {c \in C : ~ IsFree(n, c)} = Blocks(L) \cup (X \cup {q})
      BY <3>2
    <3>6. Blocks(L) \cap (X \cup {q}) = {}
      BY <3>1, <3>3
    <3>. QED  BY <3>4, <3>5, <3>6 DEF Owned
  <2>14. Intact(n, L)
    <3>1. Blocks(L) \subseteq O
      BY <1>0, <1>1 DEF Holds, Owned
    <3>. QED  BY <1>1, <2>9, <3>1, <1>0, StaysIntact DEF Holds
  <2>15. ASSUME NEW x \in X, Alone(m, B, x), End(m, x) # b PROVE x \in C /\ Alone(n, C, x)
    <3>1. x \in O /\ x # q /\ x \in B
      BY <1>0, <1>1, <2>8
    <3>2. ASSUME NEW c \in C, End(n, c) = x PROVE ~ IsFree(n, c)
      BY <2>9, <2>10, <2>15, <3>1, <3>2 DEF Alone
    <3>3. ASSUME End(n, x) \in C PROVE ~ IsFree(n, End(n, x))
      BY <2>10, <2>15, <3>1, <3>3 DEF Alone
    <3>. QED  BY <3>1, <3>2, <3>3 DEF Alone
  <2>16. q \in C /\ q \notin X /\ words <= SizeOf(n, q)
    BY <1>1, <1>2, <2>8, <2>9
  <2>. QED  BY <2>5, <2>9, <2>11, <2>12, <2>13, <2>14, <2>15, <2>16 DEF Holds
<1>. QED  BY <1>5, <1>6


\* find_free_block() finds a block of the list that is big enough.
LEMMA FittingIs ==
  ASSUME NEW m, NEW list \in Seq(Address), NEW words, Fitting(m, list, words) > 0
  PROVE  /\ Fitting(m, list, words) \in 1 .. Len(list)
         /\ SizeOf(m, list[Fitting(m, list, words)]) >= words
<1>. DEFINE I == {i \in 1 .. Len(list) : SizeOf(m, list[i]) >= words}
<1>1. Fitting(m, list, words) = IF I # {} THEN Min(I) ELSE 0
  BY DEF Fitting, SelectInSeq
<1>2. I # {} /\ Fitting(m, list, words) = Min(I)
  BY <1>1
<1>3. \E x \in I : \A y \in I : x <= y
  <2>1. I \in SUBSET Nat
    OBVIOUS
  <2>. HIDE DEF I
  <2>. QED  BY <1>2, <2>1, Least
<1>4. Min(I) \in I
  <2>. HIDE DEF I
  <2>. QED  BY <1>3 DEF Min
<1>. QED  BY <1>2, <1>4

\* __malloc() takes a free block and keeps as much of it as was asked for; the
\* neighbours of a block that stands alone stay in use.
LEMMA AllocateIs ==
  ASSUME HeapAssumption, NEW m, NEW B, NEW list, NEW L, NEW X, Holds(m, B, list, L, X),
         NEW words \in Nat, Fitting(m, list, words) > 0
  PROVE  \E C : /\ HasRoom(Allocate(m, list, words), C, L, X, words)
                /\ \A x \in X : Alone(m, B, x) =>
                     x \in C /\ Alone(Allocate(m, list, words).mem, C, x)
<1>. PICK b, n, free : /\ b = list[Fitting(m, list, words)]
                       /\ n = Mark(m, b, 1) /\ free = Without(list, b)
  OBVIOUS
<1>. PICK h : h = Allocate(m, list, words)
  OBVIOUS
<1>1. h = MaybeSplitBlock(Heap(n, free, b), words)
  BY DEF Allocate, Mark
<1>2. b \in B /\ IsFree(m, b) /\ SizeOf(m, b) >= words
  <2>1. list \in Seq(Address) /\ \A c : Contains(list, c) <=> c \in B /\ IsFree(m, c)
    BY DEF Holds, Listed
  <2>2. Fitting(m, list, words) \in 1 .. Len(list) /\ SizeOf(m, b) >= words
    BY <2>1, FittingIs
  <2>3. Contains(list, b)
    BY <2>2 DEF Contains
  <2>. QED  BY <2>1, <2>2, <2>3
<1>3. /\ Holds(n, B, free, L, X \cup {b}) /\ b \notin X /\ b \notin Blocks(L)
      /\ \A c \in B : SizeOf(n, c) = SizeOf(m, c)
      /\ \A c \in B : End(n, c) = b => ~ IsFree(n, c)
      /\ \A x \in X : Alone(m, B, x) => Alone(n, B, x) /\ End(n, x) # b
  <2>1. Holds(m, B, list, L, X) /\ b \in B /\ IsFree(m, b) /\ n = Mark(m, b, 1)
    BY <1>2
  <2>2. /\ Holds(n, B, Without(list, b), L, X \cup {b}) /\ b \notin X /\ b \notin Blocks(L)
        /\ \A c \in B : SizeOf(n, c) = SizeOf(m, c)
        /\ \A c \in B : End(n, c) = b => ~ IsFree(n, c)
        /\ \A x \in X : Alone(m, B, x) => Alone(n, B, x) /\ End(n, x) # b
    BY ONLY HeapAssumption, <2>1, TakeIs
  <2>. QED  BY <2>2
<1>4. words <= SizeOf(n, b)
  <2>1. SizeOf(m, b) \in Int
    <3>1. SizeOf(m, b) \in MinBlockSize .. HeapSize - Overhead
      BY <1>2, BlockIs DEF Holds
    <3>. QED  BY <3>1
  <2>. QED  BY <1>2, <1>3, <2>1
<1>5. PICK C : /\ HasRoom(h, C, L, X, words)
               /\ \A x \in X : Alone(n, B, x) /\ End(n, x) # b => x \in C /\ Alone(h.mem, C, x)
  <2>1. HasRoom(Heap(n, free, b), B, L, X, words) /\ Fronted(Heap(n, free, b), B)
    BY <1>2, <1>3, <1>4 DEF HasRoom, Fronted, Heap
  <2>. QED  BY <1>1, <2>1, SplitIs
<1>. QED  BY <1>3, <1>5

\* Copying into a block that no allocation of L has.
LEMMA CopyIs ==
  ASSUME HeapAssumption, NEW m, NEW B, NEW list, NEW L, NEW X, Holds(m, B, list, L, X),
         NEW to \in B, to \notin Blocks(L), NEW words \in Nat, words <= SizeOf(m, to),
         NEW from, NEW n, n = Copy(m, from, to, words)
  PROVE  /\ Holds(n, B, list, L, X)
         /\ \A c \in B : SizeOf(n, c) = SizeOf(m, c)
         /\ \A c \in B : Alone(m, B, c) => Alone(n, B, c)
<1>1. m \in [Address -> Int] /\ to \in Int /\ SizeOf(m, to) \in Int
  <2>1. to \in 0 .. MaxBlock /\ SizeOf(m, to) \in MinBlockSize .. HeapSize - Overhead
    BY BlockIs DEF Holds
  <2>. QED  BY <2>1 DEF Holds, Good
<1>2. n \in [Address -> Int]
  <2>1. ASSUME NEW a \in Address
        PROVE  (IF a \in to + 1 .. to + words
                THEN LET source == a - to + from IN IF source \in Address THEN m[source] ELSE Link
                ELSE m[a]) \in Int
    BY <1>1 DEF Link
  <2>. QED  BY <2>1 DEF Copy
<1>3. ASSUME NEW a \in Address, a \notin to + 1 .. to + SizeOf(m, to) PROVE n[a] = m[a]
  <2>1. a \notin to + 1 .. to + words
    <3>1. a \in Int
      BY DEF Address, HeapAssumption
    <3>. QED  BY <1>1, <1>3, <3>1
  <2>. QED  BY <2>1 DEF Copy
<1>. QED  BY <1>2, <1>3, InsideIs

Allocation(b, words) == [block |-> b, words |-> words]

\* Its new owner writes to a block.
LEMMA FillIs ==
  ASSUME HeapAssumption, NEW m, NEW B, NEW list, NEW L, NEW b, Holds(m, B, list, L, {b}),
         NEW words \in 1 .. MaxRequest, words <= SizeOf(m, b), NEW n, n = Fill(m, b, words)
  PROVE  Holds(n, B, list, L \cup {Allocation(b, words)}, {})
<1>1. b \in B /\ b \notin Blocks(L) /\ Good(m, B)
  BY DEF Holds, Owned
<1>2. /\ m \in [Address -> Int] /\ b \in Nat /\ SizeOf(m, b) \in Int /\ words \in Nat /\ b \in Address
      /\ b + 2 + SizeOf(m, b) <= HeapSize /\ HeapSize \in Nat
  <2>1. /\ b \in 0 .. MaxBlock /\ SizeOf(m, b) \in MinBlockSize .. HeapSize - Overhead /\ b \in Address
        /\ End(m, b) = b + 2 + SizeOf(m, b) /\ End(m, b) \in b + 4 .. HeapSize
    BY <1>1, BlockIs
  <2>. QED  BY <1>1, <2>1 DEF Good, HeapAssumption
<1>3. n \in [Address -> Int]
  <2>1. ASSUME NEW a \in Address
        PROVE  (IF a \in b + 1 .. b + words THEN Data(a - b) ELSE m[a]) \in Int
    BY <1>2 DEF Data
  <2>. QED  BY <2>1 DEF Fill
<1>4. ASSUME NEW a \in Address, a \notin b + 1 .. b + SizeOf(m, b) PROVE n[a] = m[a]
  <2>1. a \notin b + 1 .. b + words
    <3>1. a \in Int
      BY DEF Address, HeapAssumption
    <3>. QED  BY <1>2, <1>4, <3>1
  <2>. QED  BY <2>1 DEF Fill
<1>5. Holds(n, B, list, L, {b}) /\ SizeOf(n, b) = SizeOf(m, b)
  BY <1>1, <1>3, <1>4, InsideIs
<1>6. ASSUME NEW i \in 1 .. words PROVE n[b + i] = Data(i)
  <2>1. b + i \in Address /\ b + i \in b + 1 .. b + words /\ (b + i) - b = i
    BY <1>2 DEF Address
  <2>. QED  BY <2>1 DEF Fill
<1>. PICK x : x = Allocation(b, words)
  OBVIOUS
<1>7. x.block = b /\ x.words = words /\ x \in [block : Address, words : 1 .. MaxRequest]
  BY <1>2 DEF Allocation
<1>8. Owned(n, B, L \cup {x}, {})
  <2>1. Blocks(L \cup {x}) = Blocks(L) \cup {b}
    BY <1>7 DEF Blocks
  <2>2. \A y \in L : y.block # b
    BY <1>1 DEF Blocks
  <2>3. {c \in B : ~ IsFree(n, c)} = Blocks(L) \cup {b} /\ \A y, z \in L : y.block = z.block => y = z
    BY <1>5 DEF Holds, Owned
  <2>. QED  BY <1>7, <2>1, <2>2, <2>3 DEF Owned
<1>9. Intact(n, L \cup {x})
  <2>1. L \subseteq [block : Address, words : 1 .. MaxRequest]
    BY <1>5 DEF Holds, Intact
  <2>2. \A y \in L : y.words <= SizeOf(n, y.block) /\ \A i \in 1 .. y.words : n[y.block + i] = Data(i)
    BY <1>5 DEF Holds, Intact
  <2>3. x.words <= SizeOf(n, x.block) /\ \A i \in 1 .. x.words : n[x.block + i] = Data(i)
    BY <1>5, <1>6, <1>7
  <2>. QED  BY <1>7, <2>1, <2>2, <2>3 DEF Intact
<1>. QED  BY <1>5, <1>8, <1>9 DEF Holds

\* The owner of an allocation gives its block up.
LEMMA GivenUp ==
  ASSUME NEW m, NEW B, NEW list, NEW L, Holds(m, B, list, L, {}), NEW x \in L
  PROVE  Holds(m, B, list, L \ {x}, {x.block}) /\ x.block \in B
<1>1. Blocks(L) = Blocks(L \ {x}) \cup {x.block}
  BY DEF Blocks
<1>2. x.block \notin Blocks(L \ {x})
  BY DEF Holds, Owned, Blocks
<1>3. Owned(m, B, L \ {x}, {x.block}) /\ x.block \in B
  BY <1>1, <1>2 DEF Holds, Owned
<1>4. Intact(m, L \ {x})
  BY DEF Holds, Intact
<1>. QED  BY <1>3, <1>4 DEF Holds

\* The steps of a call are records of memory, free list and block.
Shaped(h) == h = Heap(h.mem, h.free, h.block)

LEMMA ShapesAre ==
  ASSUME NEW h, Shaped(h), NEW words
  PROVE  /\ Shaped(TryMerge(h)) /\ Shaped(MaybeSplitBlock(h, words)) /\ Shaped(Insert(h))
         /\ \A m : [h EXCEPT !.mem = m] = Heap(m, h.free, h.block)
         /\ \A b : [h EXCEPT !.block = b] = Heap(h.mem, h.free, b)
<1>1. \A m, list, b : Shaped(Heap(m, list, b))
  BY DEF Shaped, Heap
<1>2. Shaped(TryMerge(h))
  BY <1>1 DEF TryMerge
<1>3. Shaped(MaybeSplitBlock(h, words))
  BY <1>1 DEF MaybeSplitBlock
<1>4. Shaped(Insert(h))
  BY <1>1 DEF Insert
<1>. QED  BY <1>2, <1>3, <1>4 DEF Shaped, Heap

LEMMA HeapIs == \A m, list, b : /\ Shaped(Heap(m, list, b)) /\ Heap(m, list, b).mem = m
                                /\ Heap(m, list, b).free = list /\ Heap(m, list, b).block = b
  BY DEF Shaped, Heap

\* The words of the memory that somebody relies on.
Relied(m, L) == (UNION {{b, b + 1 + SizeOf(m, b)} : b \in BlocksIn(m)})
                \cup (UNION {x.block + 1 .. x.block + x.words : x \in L})

\* The memory that a call leaves behind.
LEMMA BecomesIs ==
  ASSUME HeapAssumption, NEW m, NEW B, NEW list, NEW L, Holds(m, B, list, L, {}),
         NEW n, n = [a \in Address |-> IF a \in Relied(m, L) THEN m[a] ELSE Link]
  PROVE  /\ Holds(n, BlocksIn(n), list, L, {})
         /\ n \in [Address -> -MaxRequest .. Field(HeapSize - Overhead, 1)]
<1>1. Good(m, B) /\ BlocksIn(m) = B /\ Intact(m, L) /\ m \in [Address -> Int]
  BY BlocksAre DEF Holds, Good
<1>2. HeapSize \in Nat /\ HeapSize >= 4 /\ MaxRequest \in Nat
  BY DEF HeapAssumption
<1>. PICK R : R = Relied(m, L)
  OBVIOUS
<1>3. n = [a \in Address |-> IF a \in R THEN m[a] ELSE Link]
  OBVIOUS
<1>4. \A b \in B : b \in R /\ b + 1 + SizeOf(m, b) \in R
  BY <1>1 DEF Relied
<1>5. \A x \in L : \A i \in 1 .. x.words : x.block + i \in R /\ x.block + i \in Address
  <2>1. ASSUME NEW x \in L, NEW i \in 1 .. x.words PROVE x.block + i \in R /\ x.block + i \in Address
    <3>1. x.block \in B /\ x.words <= SizeOf(m, x.block) /\ x.words \in Nat
      <4>1. x.block \in B
        BY DEF Holds, Owned, Blocks
      <4>. QED  BY <1>1, <1>2, <4>1 DEF Intact
    <3>2. /\ x.block \in Nat /\ SizeOf(m, x.block) \in Int
          /\ x.block + 2 + SizeOf(m, x.block) <= HeapSize
      <4>1. /\ x.block \in 0 .. MaxBlock /\ SizeOf(m, x.block) \in MinBlockSize .. HeapSize - Overhead
            /\ End(m, x.block) = x.block + 2 + SizeOf(m, x.block) /\ End(m, x.block) \in x.block + 4 .. HeapSize
        BY <1>1, <3>1, BlockIs
      <4>. QED  BY <1>2, <4>1
    <3>3. x.block + i \in x.block + 1 .. x.block + x.words /\ x.block + i \in Address
      BY <1>2, <3>1, <3>2 DEF Address
    <3>. QED  BY <3>3 DEF Relied
  <2>. QED  BY <2>1
<1>6. \A a \in Address \cap R : m[a] \in -MaxRequest .. Field(HeapSize - Overhead, 1)
  <2>1. ASSUME NEW b \in B
        PROVE  /\ m[b] \in -MaxRequest .. Field(HeapSize - Overhead, 1)
               /\ m[b + 1 + SizeOf(m, b)] \in -MaxRequest .. Field(HeapSize - Overhead, 1)
    <3>1. /\ SizeOf(m, b) \in MinBlockSize .. HeapSize - Overhead /\ b \in Address
          /\ m[b + 1 + SizeOf(m, b)] = SizeOf(m, b)
      BY <1>1, BlockIs
    <3>2. FlagOf(m, b) \in {0, 1} /\ m[b] = 2 * SizeOf(m, b) + FlagOf(m, b)
      BY <1>1, <3>1, WordIs DEF Field
    <3>. QED  BY <1>2, <3>1, <3>2 DEF Field
  <2>2. ASSUME NEW x \in L, NEW a \in x.block + 1 .. x.block + x.words
        PROVE  m[a] \in -MaxRequest .. Field(HeapSize - Overhead, 1)
    <3>1. x.block \in Int /\ x.words \in 1 .. MaxRequest
      BY <1>1, <1>2 DEF Intact, Address
    <3>. PICK i : i = a - x.block
      OBVIOUS
    <3>2. i \in 1 .. x.words /\ a = x.block + i /\ i <= MaxRequest /\ i \in Nat
      BY <1>2, <3>1
    <3>3. m[a] = -i
      BY <1>1, <3>2 DEF Intact, Data
    <3>4. -i \in -MaxRequest .. 0
      BY ONLY <1>2, <3>2
    <3>. PICK top : top = Field(HeapSize - Overhead, 1)
      OBVIOUS
    <3>5. top \in Nat
      BY <1>2 DEF Field
    <3>6. \A v \in -MaxRequest .. 0 : v \in -MaxRequest .. top
      BY ONLY <1>2, <3>5
    <3>. QED  BY <3>3, <3>4, <3>6
  <2>3. ASSUME NEW a \in R
        PROVE  \/ \E b \in B : a = b \/ a = b + 1 + SizeOf(m, b)
               \/ \E x \in L : a \in x.block + 1 .. x.block + x.words
    BY <1>1, <2>3 DEF Relied
  <2>. QED  BY <2>1, <2>2, <2>3
<1>7. n \in [Address -> -MaxRequest .. Field(HeapSize - Overhead, 1)]
  <2>1. Link \in -MaxRequest .. Field(HeapSize - Overhead, 1)
    BY <1>2 DEF Link, Field
  <2>. QED  BY <1>3, <1>6, <2>1
<1>8. n \in [Address -> Int]
  <2>1. \A v \in -MaxRequest .. Field(HeapSize - Overhead, 1) : v \in Int
    BY <1>2
  <2>. QED  BY <1>7, <2>1
<1>9. \A b \in B : n[b] = m[b] /\ n[b + 1 + SizeOf(m, b)] = m[b + 1 + SizeOf(m, b)]
  <2>1. \A b \in B : b \in Address /\ b + 1 + SizeOf(m, b) \in Address
    BY <1>1, BlockIs
  <2>. QED  BY <1>3, <1>4, <2>1
<1>10. \A x \in L : \A i \in 1 .. x.words : n[x.block + i] = m[x.block + i]
  BY <1>3, <1>5
<1>11. Holds(n, B, list, L, {})
  BY <1>8, <1>9, <1>10, FieldsMatter
<1>12. BlocksIn(n) = B
  BY <1>11, BlocksAre DEF Holds
<1>. QED  BY <1>7, <1>11, <1>12

-----------------------------------------------------------------------------

\* The inductive invariant: between two calls no block is in hand.
HeapInv ==
  /\ Holds(mem, All, freelist, live, {})
  /\ mem \in [Address -> -MaxRequest .. Field(HeapSize - Overhead, 1)]
  /\ kept \in BOOLEAN /\ stopped \in BOOLEAN

\* A call that ends with such a record keeps it.
LEMMA CallEnds ==
  ASSUME HeapAssumption, NEW h, NEW B, Holds(h.mem, B, h.free, live', {}), Becomes(h)
  PROVE  /\ Holds(mem', All', freelist', live', {})
         /\ mem' \in [Address -> -MaxRequest .. Field(HeapSize - Overhead, 1)]
<1>1. /\ freelist' = h.free
      /\ mem' = [a \in Address |-> IF a \in Relied(h.mem, live') THEN h.mem[a] ELSE Link]
  BY DEF Becomes, Relied
<1>2. /\ Holds(mem', BlocksIn(mem'), h.free, live', {})
      /\ mem' \in [Address -> -MaxRequest .. Field(HeapSize - Overhead, 1)]
  BY <1>1, BecomesIs
<1>. QED  BY <1>1, <1>2 DEF All

LEMMA HeapStarts == ASSUME HeapAssumption, HeapInit PROVE HeapInv
<1>1. HeapSize \in Nat /\ HeapSize >= 4 /\ MaxRequest \in Nat
  BY DEF HeapAssumption
<1>. PICK s, f : s = HeapSize - Overhead /\ f = 0
  OBVIOUS
<1>2. s \in Int /\ s >= 2 /\ s <= HeapSize - 2 /\ 0 + 2 + s = HeapSize /\ 0 + 1 + s = HeapSize - 1
  BY <1>1
<1>3. /\ mem \in [Address -> Int] /\ mem[0] = Field(s, f) /\ mem[0 + 1 + s] = s
      /\ \A a \in Address : mem[a] \in {Field(s, f), s, 0}
  <2>1. /\ 0 \in Address /\ 0 + 1 \in Address /\ 0 + 2 \in Address /\ 0 + 1 + s \in Address
        /\ 0 + 1 + s # 0 /\ 0 + 1 + s # 0 + 1 /\ 0 # 0 + 1 /\ 0 # 0 + 2
    BY <1>1, <1>2 DEF Address
  <2>2. Field(s, f) \in Int
    BY <1>2 DEF Field
  <2>3. PICK w : w = WriteSizeFields([a \in Address |-> 0], 0, s, f)
    OBVIOUS
  <2>4. /\ w \in [Address -> Int] /\ w[0] = Field(s, f) /\ w[0 + 1 + s] = s
        /\ \A a \in Address : w[a] \in {Field(s, f), s, 0}
    BY <1>2, <2>1, <2>2, <2>3 DEF WriteSizeFields
  <2>5. mem = WriteLinks(w, 0)
    BY <2>3 DEF HeapInit
  <2>6. 0 + 1 + s # 0 + 2
    BY <1>2
  <2>. QED  BY <1>2, <2>1, <2>2, <2>4, <2>5, <2>6 DEF WriteLinks, Link
<1>4. SizeOf(mem, 0) = s /\ IsFree(mem, 0) /\ End(mem, 0) = HeapSize
  <2>1. SizeOf(mem, 0) = s /\ FlagOf(mem, 0) = f /\ (IsFree(mem, 0) <=> f = 0)
    <3>1. f \in {0, 1} /\ s \in Int /\ mem[0] = Field(s, f)
      BY <1>2, <1>3
    <3>. QED  BY ONLY <3>1, FieldIs
  <2>. QED  BY <1>2, <2>1 DEF End
<1>5. Good(mem, {0})
  BY <1>1, <1>2, <1>3, <1>4 DEF Good, Address
<1>6. Listed(mem, {0}, freelist)
  <2>1. freelist = <<0>> /\ 0 \in Address
    BY <1>1 DEF HeapInit, Address
  <2>2. freelist \in Seq(Address) /\ Len(freelist) = 1 /\ freelist[1] = 0
    BY <2>1
  <2>3. IsInjective(freelist)
    BY <2>2 DEF IsInjective
  <2>4. \A b : Contains(freelist, b) <=> b = 0
    BY <2>2 DEF Contains
  <2>. QED  BY <1>4, <2>2, <2>3, <2>4 DEF Listed
<1>7. Merged(mem, {0})
  BY <1>1, <1>4 DEF Merged
<1>8. Owned(mem, {0}, live, {}) /\ Intact(mem, live)
  BY <1>4 DEF HeapInit, Owned, Intact, Blocks
<1>9. All = {0}
  BY <1>5, BlocksAre DEF All
<1>10. mem \in [Address -> -MaxRequest .. Field(HeapSize - Overhead, 1)]
  <2>. PICK top : top = Field(HeapSize - Overhead, 1)
    OBVIOUS
  <2>1. top = 2 * s + 1 /\ Field(s, f) = 2 * s
    BY <1>2 DEF Field
  <2>2. Field(s, f) \in -MaxRequest .. top /\ s \in -MaxRequest .. top /\ 0 \in -MaxRequest .. top
    BY <1>1, <1>2, <2>1
  <2>. QED  BY <1>3, <2>2
<1>. QED  BY <1>5, <1>6, <1>7, <1>8, <1>9, <1>10 DEF HeapInv, HeapInit, Holds

LEMMA MallocKeeps ==
  ASSUME HeapAssumption, HeapInv, NEW words \in 1 .. MaxRequest, Malloc(words)
  PROVE  HeapInv'
<1>. PICK h : h = Allocate(mem, freelist, words)
  OBVIOUS
<1>1. words \in Nat
  BY DEF HeapAssumption
<1>2. PICK C : HasRoom(h, C, live, {}, words)
  BY <1>1, AllocateIs DEF HeapInv, Malloc
<1>3. /\ Holds(h.mem, C, h.free, live, {h.block}) /\ words <= SizeOf(h.mem, h.block)
  <2>1. {} \cup {h.block} = {h.block}
    OBVIOUS
  <2>. QED  BY <1>2, <2>1 DEF HasRoom
<1>. PICK m : m = Fill(h.mem, h.block, words)
  OBVIOUS
<1>4. Holds(m, C, h.free, live \cup {Allocation(h.block, words)}, {})
  BY <1>3, FillIs
<1>5. live' = live \cup {Allocation(h.block, words)} /\ Becomes(Heap(m, h.free, h.block))
  <2>1. Shaped(h)
    BY ShapesAre, HeapIs DEF Allocate
  <2>. QED  BY <2>1, ShapesAre DEF Malloc, Allocation
<1>6. Holds(mem', All', freelist', live', {}) /\ mem' \in [Address -> -MaxRequest .. Field(HeapSize - Overhead, 1)]
  <2>. PICK g : g = Heap(m, h.free, h.block)
    OBVIOUS
  <2>1. Holds(g.mem, C, g.free, live', {}) /\ Becomes(g)
    BY <1>4, <1>5, HeapIs
  <2>. QED  BY <2>1, CallEnds
<1>. QED  BY <1>6 DEF HeapInv, Malloc

\* What free() and realloc() begin with: the block, as big as its neighbours let
\* it be.
LEMMA MergedIs ==
  ASSUME HeapAssumption, HeapInv, NEW a \in live,
         NEW t, t = TryMerge(Heap(mem, freelist, a.block))
  PROVE  /\ Shaped(t)
         /\ \E C : /\ Holds(t.mem, C, t.free, live \ {a}, {t.block}) /\ t.block \in C
                   /\ Alone(t.mem, C, t.block)
<1>1. Holds(mem, All, freelist, live \ {a}, {a.block})
  BY GivenUp DEF HeapInv
<1>2. \E C : /\ Holds(t.mem, C, t.free, live \ {a}, {t.block}) /\ t.block \in C
             /\ Alone(t.mem, C, t.block)
  BY <1>1, TryMergeIs
<1>3. Shaped(t)
  BY ShapesAre, HeapIs
<1>. QED  BY <1>2, <1>3

LEMMA FreeKeeps == ASSUME HeapAssumption, HeapInv, NEW a \in live, Free(a) PROVE HeapInv'
<1>. PICK t : t = TryMerge(Heap(mem, freelist, a.block))
  OBVIOUS
<1>1. PICK C : /\ Holds(t.mem, C, t.free, live \ {a}, {t.block}) /\ t.block \in C
               /\ Alone(t.mem, C, t.block)
  BY MergedIs
<1>2. t = Heap(t.mem, t.free, t.block)
  BY MergedIs DEF Shaped
<1>. PICK h : h = Insert(t)
  OBVIOUS
<1>3. Holds(h.mem, C, h.free, live \ {a}, {})
  <2>1. {t.block} = {} \cup {t.block} /\ h = Insert(Heap(t.mem, t.free, t.block))
    BY <1>2
  <2>. QED  BY <1>1, <2>1, InsertIs
<1>4. live' = live \ {a} /\ Becomes(h)
  BY DEF Free
<1>5. Holds(mem', All', freelist', live', {}) /\ mem' \in [Address -> -MaxRequest .. Field(HeapSize - Overhead, 1)]
  BY <1>3, <1>4, CallEnds
<1>. QED  BY <1>5 DEF HeapInv, Free

\* What realloc() ends with: its owner writes to all of the block.
LEMMA MovesEnd ==
  ASSUME HeapAssumption, HeapInv, NEW a \in live, NEW words \in 1 .. MaxRequest,
         NEW h, Shaped(h), NEW D, Holds(h.mem, D, h.free, live \ {a}, {h.block}),
         words <= SizeOf(h.mem, h.block), Moves(a, h, words),
         Becomes([h EXCEPT !.mem = Fill(@, h.block, words)])
  PROVE  HeapInv'
<1>. PICK m : m = Fill(h.mem, h.block, words)
  OBVIOUS
<1>1. Holds(m, D, h.free, (live \ {a}) \cup {Allocation(h.block, words)}, {})
  BY FillIs
<1>2. Becomes(Heap(m, h.free, h.block))
  BY ShapesAre
<1>3. Holds(mem', All', freelist', live', {}) /\ mem' \in [Address -> -MaxRequest .. Field(HeapSize - Overhead, 1)]
  <2>. PICK g : g = Heap(m, h.free, h.block)
    OBVIOUS
  <2>1. live' = (live \ {a}) \cup {Allocation(h.block, words)}
    BY DEF Moves, Allocation
  <2>2. Holds(g.mem, D, g.free, live', {}) /\ Becomes(g)
    BY <1>1, <1>2, <2>1, HeapIs
  <2>. QED  BY <2>2, CallEnds
<1>. QED  BY <1>3 DEF HeapInv, Moves

LEMMA InPlaceKeeps ==
  ASSUME HeapAssumption, HeapInv, NEW a \in live, NEW words \in 1 .. MaxRequest,
         ReallocInPlace(a, words)
  PROVE  HeapInv'
<1>. PICK t : t = TryMerge(Heap(mem, freelist, a.block))
  OBVIOUS
<1>. PICK split : split = MaybeSplitBlock(t, words)
  OBVIOUS
<1>. PICK h : h = IF split.block = a.block THEN split
                  ELSE [split EXCEPT !.mem = Copy(@, a.block, split.block, words)]
  OBVIOUS
<1>1. /\ words <= SizeOf(t.mem, t.block) /\ Moves(a, h, words)
      /\ Becomes([h EXCEPT !.mem = Fill(@, h.block, words)])
  <2>1. SizeOf(t.mem, t.block) >= words /\ Moves(a, h, words)
        /\ Becomes([h EXCEPT !.mem = Fill(@, h.block, words)])
    BY DEF ReallocInPlace
  <2>. QED  BY <2>1
<1>2. words \in Nat
  BY DEF HeapAssumption
<1>3. PICK C : /\ Holds(t.mem, C, t.free, live \ {a}, {t.block}) /\ t.block \in C
               /\ Alone(t.mem, C, t.block)
  BY MergedIs
<1>4. Shaped(t) /\ t = Heap(t.mem, t.free, t.block)
  BY MergedIs DEF Shaped
<1>5. PICK D : HasRoom(split, D, live \ {a}, {}, words)
  <2>1. {t.block} = {} \cup {t.block}
    OBVIOUS
  <2>2. HasRoom(t, C, live \ {a}, {}, words) /\ Fronted(t, C)
    BY <1>1, <1>3, <2>1 DEF HasRoom, Fronted, Alone
  <2>3. /\ HasRoom(Heap(t.mem, t.free, t.block), C, live \ {a}, {}, words)
        /\ Fronted(Heap(t.mem, t.free, t.block), C)
        /\ split = MaybeSplitBlock(Heap(t.mem, t.free, t.block), words)
    BY <1>4, <2>2
  <2>. QED  BY ONLY HeapAssumption, <1>2, <2>3, SplitIs
<1>6. /\ Holds(split.mem, D, split.free, live \ {a}, {split.block}) /\ split.block \in D
      /\ words <= SizeOf(split.mem, split.block) /\ Shaped(split)
  <2>1. {split.block} = {} \cup {split.block}
    OBVIOUS
  <2>. QED  BY <1>4, <1>5, <2>1, ShapesAre DEF HasRoom
<1>7. /\ Holds(h.mem, D, h.free, live \ {a}, {h.block})
      /\ words <= SizeOf(h.mem, h.block) /\ Shaped(h)
  <2>1. CASE split.block = a.block
    BY <1>6, <2>1
  <2>2. CASE split.block # a.block
    <3>. PICK m : m = Copy(split.mem, a.block, split.block, words)
      OBVIOUS
    <3>1. split.block \notin Blocks(live \ {a})
      BY <1>6 DEF Holds, Owned
    <3>2. /\ Holds(m, D, split.free, live \ {a}, {split.block})
          /\ SizeOf(m, split.block) = SizeOf(split.mem, split.block)
      BY <1>2, <1>6, <3>1, CopyIs
    <3>3. h = Heap(m, split.free, split.block)
      BY <1>6, <2>2, ShapesAre
    <3>. QED  BY <1>6, <3>2, <3>3, HeapIs
  <2>. QED  BY <2>1, <2>2
<1>. QED  BY <1>1, <1>7, MovesEnd

LEMMA ElsewhereKeeps ==
  ASSUME HeapAssumption, HeapInv, NEW a \in live, NEW words \in 1 .. MaxRequest,
         ReallocElsewhere(a, words)
  PROVE  HeapInv'
<1>. PICK t : t = TryMerge(Heap(mem, freelist, a.block))
  OBVIOUS
<1>. PICK other : other = Allocate(t.mem, t.free, words)
  OBVIOUS
<1>. PICK copied : copied = Copy(other.mem, a.block, other.block, words)
  OBVIOUS
<1>. PICK result : result = Insert(Heap(copied, other.free, t.block))
  OBVIOUS
<1>. PICK h : h = [result EXCEPT !.block = other.block]
  OBVIOUS
<1>1. /\ Fitting(t.mem, t.free, words) > 0 /\ Moves(a, h, words)
      /\ Becomes([result EXCEPT !.mem = Fill(@, other.block, words)])
  BY DEF ReallocElsewhere
<1>2. words \in Nat
  BY ONLY words \in 1 .. MaxRequest, HeapAssumption DEF HeapAssumption
<1>3. PICK C : /\ Holds(t.mem, C, t.free, live \ {a}, {t.block}) /\ t.block \in C
               /\ Alone(t.mem, C, t.block)
  BY MergedIs
<1>4. PICK D : HasRoom(other, D, live \ {a}, {t.block}, words) /\ t.block \in D /\ Alone(other.mem, D, t.block)
  <2>1. \E D : /\ HasRoom(Allocate(t.mem, t.free, words), D, live \ {a}, {t.block}, words)
               /\ \A x \in {t.block} : Alone(t.mem, C, x) =>
                    x \in D /\ Alone(Allocate(t.mem, t.free, words).mem, D, x)
    BY ONLY HeapAssumption, <1>1, <1>2, <1>3, AllocateIs
  <2>. QED  BY <1>3, <2>1
<1>5. /\ Holds(other.mem, D, other.free, live \ {a}, {t.block, other.block})
      /\ other.block \in D /\ other.block # t.block /\ words <= SizeOf(other.mem, other.block)
  <2>1. {t.block} \cup {other.block} = {t.block, other.block}
    OBVIOUS
  <2>. QED  BY <1>4, <2>1 DEF HasRoom
<1>6. /\ Holds(copied, D, other.free, live \ {a}, {t.block, other.block})
      /\ SizeOf(copied, other.block) = SizeOf(other.mem, other.block)
      /\ Alone(copied, D, t.block)
  <2>1. other.block \notin Blocks(live \ {a})
    BY <1>5 DEF Holds, Owned
  <2>2. /\ Holds(copied, D, other.free, live \ {a}, {t.block, other.block})
        /\ \A c \in D : SizeOf(copied, c) = SizeOf(other.mem, c)
        /\ \A c \in D : Alone(other.mem, D, c) => Alone(copied, D, c)
    BY ONLY HeapAssumption, <1>2, <1>5, <2>1, CopyIs, copied = Copy(other.mem, a.block, other.block, words)
  <2>. QED  BY <1>4, <1>5, <2>2
<1>7. /\ Holds(result.mem, D, result.free, live \ {a}, {other.block})
      /\ SizeOf(result.mem, other.block) = SizeOf(copied, other.block)
  <2>. PICK X, b : X = {other.block} /\ b = t.block
    OBVIOUS
  <2>1. {t.block, other.block} = X \cup {b} /\ b \notin X
    BY <1>5
  <2>2. /\ Holds(copied, D, other.free, live \ {a}, X \cup {b})
        /\ b \in D /\ b \notin X /\ Alone(copied, D, b)
        /\ result = Insert(Heap(copied, other.free, b))
    BY <1>4, <1>6, <2>1
  <2>3. /\ Holds(result.mem, D, result.free, live \ {a}, X)
        /\ \A c \in D : SizeOf(result.mem, c) = SizeOf(copied, c)
    BY ONLY HeapAssumption, <2>2, InsertIs
  <2>. QED  BY <1>5, <2>3
<1>8. Shaped(result)
  BY HeapIs, ShapesAre
<1>9. h = Heap(result.mem, result.free, other.block)
  BY ONLY <1>8, ShapesAre, h = [result EXCEPT !.block = other.block]
<1>10. /\ Shaped(h) /\ h.mem = result.mem /\ h.free = result.free /\ h.block = other.block
  BY ONLY <1>9, HeapIs
<1>11. Holds(h.mem, D, h.free, live \ {a}, {h.block}) /\ words <= SizeOf(h.mem, h.block)
  BY <1>5, <1>6, <1>7, <1>10
<1>. PICK m : m = Fill(h.mem, h.block, words)
  OBVIOUS
<1>12. Holds(m, D, h.free, (live \ {a}) \cup {Allocation(h.block, words)}, {})
  BY <1>11, FillIs
<1>13. Becomes(Heap(m, result.free, result.block))
  <2>1. [result EXCEPT !.mem = Fill(@, other.block, words)] = Heap(m, result.free, result.block)
    <3>1. [result EXCEPT !.mem = m] = Heap(m, result.free, result.block)
      BY ONLY <1>8, ShapesAre
    <3>2. m = Fill(result.mem, other.block, words)
      BY <1>10
    <3>. QED  BY ONLY <3>1, <3>2
  <2>. QED  BY <1>1, <2>1
<1>14. Holds(mem', All', freelist', live', {}) /\ mem' \in [Address -> -MaxRequest .. Field(HeapSize - Overhead, 1)]
  <2>. PICK g : g = Heap(m, result.free, result.block)
    OBVIOUS
  <2>1. live' = (live \ {a}) \cup {Allocation(h.block, words)}
    BY <1>1 DEF Moves, Allocation
  <2>2. g.mem = m /\ g.free = h.free
    BY ONLY <1>10, HeapIs, g = Heap(m, result.free, result.block)
  <2>3. Holds(g.mem, D, g.free, live', {}) /\ Becomes(g)
    BY <1>12, <1>13, <2>1, <2>2
  <2>. QED  BY <2>3, CallEnds
<1>. QED  BY <1>1, <1>14 DEF HeapInv, Moves

LEMMA HeapKeeps == ASSUME HeapAssumption, HeapInv, [HeapNext]_heap PROVE HeapInv'
<1>1. ASSUME UNCHANGED <<mem, freelist, live>>, kept' \in BOOLEAN, stopped' \in BOOLEAN PROVE HeapInv'
  BY <1>1 DEF HeapInv, All
<1>2. CASE \E words \in 1 .. MaxRequest : Malloc(words) \/ OutOfMemory(words)
  <2>1. PICK words \in 1 .. MaxRequest : Malloc(words) \/ OutOfMemory(words)
    BY <1>2
  <2>2. CASE OutOfMemory(words)
    BY <1>1, <2>2 DEF OutOfMemory, HeapInv
  <2>. QED  BY <2>1, <2>2, MallocKeeps
<1>3. CASE \E a \in live : Free(a)
  BY <1>3, FreeKeeps
<1>4. CASE \E a \in live, words \in 1 .. MaxRequest : Realloc(a, words)
  <2>1. PICK a \in live, words \in 1 .. MaxRequest : Realloc(a, words)
    BY <1>4
  <2>2. CASE ReallocFails(a, words)
    BY <1>1, <2>2 DEF ReallocFails, HeapInv
  <2>. QED  BY <2>1, <2>2, InPlaceKeeps, ElsewhereKeeps DEF Realloc
<1>5. CASE UNCHANGED heap
  BY <1>1, <1>5 DEF heap, HeapInv
<1>. QED  BY <1>2, <1>3, <1>4, <1>5 DEF HeapNext

LEMMA HeapShows == ASSUME HeapAssumption, HeapInv PROVE HeapConsistent /\ OthersUntouched
<1>1. Holds(mem, All, freelist, live, {}) /\ Good(mem, All)
  BY DEF HeapInv, Holds
<1>2. HeapTypeOK
  <2>1. freelist \in SeqOf(0 .. MaxBlock, Len(freelist))
    <3>1. freelist \in Seq(Address) /\ \A i \in 1 .. Len(freelist) : freelist[i] \in All
      BY <1>1 DEF Holds, Listed, Contains
    <3>2. \A b \in All : b \in 0 .. MaxBlock
      BY <1>1, BlockIs
    <3>3. freelist \in [1 .. Len(freelist) -> 0 .. MaxBlock] /\ Len(freelist) \in 0 .. Len(freelist)
      BY <3>1, <3>2
    <3>. QED  BY <3>3 DEF SeqOf
  <2>2. live \subseteq [block : 0 .. MaxBlock, words : 1 .. MaxRequest]
    <3>1. live \subseteq [block : Address, words : 1 .. MaxRequest]
      BY <1>1 DEF Holds, Intact
    <3>2. \A x \in live : x.block \in All
      BY <1>1 DEF Holds, Owned, Blocks
    <3>3. \A b \in All : b \in 0 .. MaxBlock
      BY <1>1, BlockIs
    <3>. QED  BY <3>1, <3>2, <3>3
  <2>. QED  BY <2>1, <2>2 DEF HeapTypeOK, HeapInv
<1>3. Tiled
  <2>1. PICK b \in All : End(mem, b) = HeapSize
    BY <1>1, LastIs
  <2>. QED  BY <1>1, <2>1 DEF Tiled, Good, End
<1>4. FreeListExact
  <2>1. Range(freelist) = {freelist[i] : i \in 1 .. Len(freelist)}
    BY <1>1 DEF Range, Holds, Listed
  <2>. QED  BY <1>1, <2>1 DEF FreeListExact, Holds, Listed, Contains
<1>5. Coalesced
  <2>1. ASSUME NEW b \in All, IsFree(mem, b), NextOf(mem, b) # None PROVE ~ IsFree(mem, NextOf(mem, b))
    <3>1. NextOf(mem, b) = End(mem, b) /\ End(mem, b) \in All
      BY <1>1, <2>1, NextIs
    <3>. QED  BY <1>1, <2>1, <3>1 DEF Holds, Merged
  <2>. QED  BY <2>1 DEF Coalesced
<1>6. UsedIsLive
  <2>1. \A x \in live : SizeOf(mem, x.block) >= x.words
    <3>1. ASSUME NEW x \in live PROVE SizeOf(mem, x.block) >= x.words
      <4>1. x.words <= SizeOf(mem, x.block)
        BY <1>1 DEF Holds, Intact
      <4>. QED  BY <4>1
    <3>. QED  BY <3>1
  <2>2. Blocks(live) \cup {} = Blocks(live)
    OBVIOUS
  <2>. QED  BY <1>1, <2>1, <2>2 DEF UsedIsLive, Holds, Owned
<1>7. OthersUntouched
  BY <1>1 DEF OthersUntouched, Holds, Intact
<1>. QED  BY <1>2, <1>3, <1>4, <1>5, <1>6, <1>7 DEF HeapConsistent

LEMMA HeapInvAlways == ASSUME HeapAssumption PROVE HeapSpec => []HeapInv
<1>1. HeapInit => HeapInv
  BY HeapStarts
<1>2. HeapInv /\ [HeapNext]_heap => HeapInv'
  BY HeapKeeps
<1>. QED  BY <1>1, <1>2, PTL DEF HeapSpec

\* utils/heap.cc: in whatever order malloc(), realloc() and free() split, merge,
\* move and give back blocks, the blocks that get_next() finds tile the heap to its last word
\* with both size fields of each the same, the free list holds the free ones
\* once each, no two free ones lie side by side, and those in use are the
\* callers', big enough for each.
THEOREM HeapStaysConsistent == ASSUME HeapAssumption PROVE HeapSpec => []HeapConsistent
<1>1. HeapInv => HeapConsistent
  BY HeapShows
<1>. QED  BY <1>1, HeapInvAlways, PTL

\* utils/heap.cc: no size field, link or copy of try_merge(),
\* maybe_split_block(), free_list_insert() or realloc() reaches into the memory
\* of another caller.
THEOREM AllocationsStayIntact == ASSUME HeapAssumption PROVE HeapSpec => []OthersUntouched
<1>1. HeapInv => OthersUntouched
  BY HeapShows
<1>. QED  BY <1>1, HeapInvAlways, PTL

-----------------------------------------------------------------------------
(* The queue                                                               *)

\* The j-th item; Nil before the first and behind the last one.
At(s, j) == IF j \in 1 .. Len(s) THEN s[j] ELSE Nil

\* The links l and the last one of them, t, are those of the list s.
Chain(l, t, s) ==
  /\ s \in Seq(Item) /\ IsInjective(s)
  /\ l \in [Item \cup {Nil} -> Item \cup {Nil}]
  /\ t = At(s, Len(s))
  /\ \A j \in 0 .. Len(s) : l[At(s, j)] = At(s, j + 1)

\* ItemsFrom, along any links
Follow(l, first) ==
  LET Steps == 0 .. Cardinality(Item)
      chain[i \in Steps] == IF i = 0 THEN first
                            ELSE IF chain[i - 1] = Nil THEN Nil ELSE l[chain[i - 1]]
      end == CHOOSE n \in Steps : chain[n] = Nil /\ \A i \in Steps : i < n => chain[i] # Nil
  IN  [i \in 1 .. end |-> chain[i - 1]]

LEMMA NoMoreThanItems ==
  ASSUME QueueAssumption, NEW s \in Seq(Item), IsInjective(s)
  PROVE  Len(s) \in Nat /\ Cardinality(Item) \in Nat /\ Len(s) <= Cardinality(Item)
<1>1. Len(s) \in Nat /\ s \in [1 .. Len(s) -> Item] /\ DOMAIN s = 1 .. Len(s)
  OBVIOUS
<1>2. s \in Injection(1 .. Len(s), Item)
  BY <1>1 DEF Injection, IsInjective
<1>3. Cardinality(1 .. Len(s)) = Len(s)
  BY <1>1, FS_Interval
<1>4. IsFiniteSet(Item) /\ Cardinality(Item) \in Nat
  BY FS_CardinalityType DEF QueueAssumption
<1>. QED  BY <1>1, <1>2, <1>3, <1>4, FS_Injection

LEMMA AtIs ==
  ASSUME QueueAssumption, NEW s \in Seq(Item)
  PROVE  \A j : /\ j \in 1 .. Len(s) => At(s, j) = s[j] /\ At(s, j) \in Item /\ At(s, j) # Nil
                /\ j \notin 1 .. Len(s) => At(s, j) = Nil
  BY DEF At, QueueAssumption

\* Following the links from an item on gives the rest of the list.
LEMMA FollowIs ==
  ASSUME QueueAssumption, NEW l, NEW t, NEW s, Chain(l, t, s), NEW j \in 1 .. Len(s) + 1
  PROVE  Follow(l, At(s, j)) = SubSeq(s, j, Len(s))
<1>1. /\ s \in Seq(Item) /\ Len(s) \in Nat /\ Cardinality(Item) \in Nat
      /\ Len(s) <= Cardinality(Item) /\ j \in Nat \ {0} /\ j <= Len(s) + 1
  BY NoMoreThanItems DEF Chain
<1>. PICK first : first = At(s, j)
  OBVIOUS
<1>. DEFINE Steps == 0 .. Cardinality(Item)
            Is(f) == f = [i \in Steps |-> IF i = 0 THEN first
                                          ELSE IF f[i - 1] = Nil THEN Nil ELSE l[f[i - 1]]]
            g == [i \in Steps |-> At(s, j + i)]
            n == Len(s) - j + 1
<1>2. ASSUME NEW i \in Steps, i # 0
      PROVE  i - 1 \in Steps /\ At(s, j + i) = IF g[i - 1] = Nil THEN Nil ELSE l[g[i - 1]]
  <2>1. i - 1 \in Steps /\ g[i - 1] = At(s, j + (i - 1)) /\ j + (i - 1) + 1 = j + i
    BY <1>1, <1>2
  <2>. PICK k : k = j + (i - 1)
    OBVIOUS
  <2>2. k \in Nat \ {0} /\ k + 1 = j + i
    BY <1>1, <1>2
  <2>3. CASE k \in 1 .. Len(s)
    <3>1. At(s, k) # Nil /\ k \in 0 .. Len(s)
      BY <1>1, <2>3, AtIs
    <3>2. l[At(s, k)] = At(s, k + 1)
      BY <3>1 DEF Chain
    <3>. QED  BY <2>1, <2>2, <3>1, <3>2
  <2>4. CASE k \notin 1 .. Len(s)
    <3>1. k + 1 \notin 1 .. Len(s)
      BY <1>1, <2>2, <2>4
    <3>2. At(s, k) = Nil /\ At(s, k + 1) = Nil
      BY <1>1, <2>4, <3>1, AtIs
    <3>. QED  BY <2>1, <2>2, <3>2
  <2>. QED  BY <2>3, <2>4
<1>3. Is(g)
  <2>1. \A i \in Steps : g[i] = IF i = 0 THEN first
                                ELSE IF g[i - 1] = Nil THEN Nil ELSE l[g[i - 1]]
    <3>1. ASSUME NEW i \in Steps, i = 0 PROVE g[i] = first
      BY <1>1, <3>1
    <3>. QED  BY <1>2, <3>1
  <2>2. g = [i \in Steps |-> g[i]]
    OBVIOUS
  <2>. HIDE DEF g
  <2>. QED  BY <2>1, <2>2
<1>4. ASSUME NEW f, Is(f) PROVE f = g
  <2>. DEFINE T == {i \in Steps : f[i] # g[i]}
  <2>1. \A h : Is(h) => \A i \in Steps : h[i] = IF i = 0 THEN first
                                 ELSE IF h[i - 1] = Nil THEN Nil ELSE l[h[i - 1]]
    OBVIOUS
  <2>2. \A h : Is(h) => h = [i \in Steps |-> h[i]]
    OBVIOUS
  <2>3. T = {}
    <3>. SUFFICES ASSUME T # {} PROVE FALSE
      OBVIOUS
    <3>1. PICK i \in T : \A k \in T : i <= k
      <4>. HIDE DEF T
      <4>1. T \in SUBSET Nat
        BY <1>1 DEF T
      <4>. QED  BY <4>1, Least
    <3>2. CASE i = 0
      BY <1>3, <1>4, <2>1, <3>1, <3>2
    <3>3. CASE i # 0
      <4>1. i - 1 \in Steps /\ i - 1 \notin T
        BY <1>1, <3>1, <3>3
      <4>2. f[i - 1] = g[i - 1]
        BY <4>1
      <4>. HIDE DEF g, Is, Steps
      <4>3. i \in Steps /\ f[i] # g[i]
        BY <3>1
      <4>. QED  BY <1>3, <1>4, <2>1, <3>3, <4>2, <4>3
    <3>. QED  BY <3>2, <3>3
  <2>. HIDE DEF g, Is
  <2>. QED  BY <1>3, <1>4, <2>2, <2>3
<1>5. (CHOOSE f : Is(f)) = g
  <2>. HIDE DEF g, Is
  <2>. QED  BY <1>3, <1>4
<1>6. n \in Steps /\ n \in Nat /\ g[n] = Nil /\ \A i \in Steps : i < n => g[i] # Nil
  <2>1. n \in Steps /\ n \in Nat /\ j + n = Len(s) + 1
    BY <1>1
  <2>2. g[n] = Nil
    <3>1. Len(s) + 1 \notin 1 .. Len(s)
      BY <1>1
    <3>. QED  BY <1>1, <2>1, <3>1, AtIs
  <2>3. ASSUME NEW i \in Steps, i < n PROVE g[i] # Nil
    <3>1. j + i \in 1 .. Len(s)
      BY <1>1, <2>3
    <3>. QED  BY <1>1, <3>1, AtIs
  <2>. QED  BY <2>1, <2>2, <2>3
<1>7. (CHOOSE m \in Steps : g[m] = Nil /\ \A i \in Steps : i < m => g[i] # Nil) = n
  <2>. DEFINE E(m) == g[m] = Nil /\ \A i \in Steps : i < m => g[i] # Nil
  <2>1. \A m, k \in Steps : m < k \/ k < m \/ m = k
    BY <1>1
  <2>. HIDE DEF g, n, Steps
  <2>2. \A m \in Steps : E(m) => m = n
    BY <1>6, <2>1
  <2>. QED  BY <1>6, <2>2
<1>8. Follow(l, first) = [i \in 1 .. n |-> g[i - 1]]
  <2>. DEFINE Ends(c) == CHOOSE m \in Steps : c[m] = Nil /\ \A i \in Steps : i < m => c[i] # Nil
              Items(c) == [i \in 1 .. Ends(c) |-> c[i - 1]]
  <2>1. Follow(l, first) = Items(CHOOSE f : Is(f))
    BY DEF Follow
  <2>2. Ends(g) = n
    <3>. HIDE DEF g, n
    <3>. QED  BY <1>7
  <2>3. Items(g) = [i \in 1 .. n |-> g[i - 1]]
    <3>. HIDE DEF Ends, g, n
    <3>. QED  BY <2>2
  <2>. HIDE DEF Items, Is, g, n
  <2>. QED  BY <1>5, <2>1, <2>3
<1>9. \A i \in 1 .. n : g[i - 1] = s[j + i - 1]
  <2>1. ASSUME NEW i \in 1 .. n PROVE g[i - 1] = s[j + i - 1]
    <3>1. i - 1 \in Steps /\ j + (i - 1) \in 1 .. Len(s) /\ j + (i - 1) = j + i - 1
      BY <1>1
    <3>. QED  BY <1>1, <3>1, AtIs
  <2>. QED  BY <2>1
<1>10. SubSeq(s, j, Len(s)) = [i \in 1 .. n |-> s[j + i - 1]]
  BY <1>1
<1>. QED  BY <1>8, <1>9, <1>10

\* The links of a list lead from the head through all of it.
LEMMA FollowAll ==
  ASSUME QueueAssumption, NEW l, NEW t, NEW s, Chain(l, t, s)
  PROVE  Follow(l, l[Nil]) = s
<1>1. s \in Seq(Item) /\ Len(s) \in Nat
  BY DEF Chain
<1>2. 0 \in 0 .. Len(s) /\ 0 \notin 1 .. Len(s) /\ 0 + 1 = 1 /\ 1 \in 1 .. Len(s) + 1
  BY <1>1
<1>3. l[Nil] = At(s, 1)
  BY <1>1, <1>2, AtIs DEF Chain
<1>4. SubSeq(s, 1, Len(s)) = s
  BY <1>1
<1>. QED  BY <1>2, <1>3, <1>4, FollowIs

\* What a queue with such links is for its users
LEMMA Looks ==
  ASSUME QueueAssumption, NEW s, Chain(link, tail, s)
  PROVE  /\ Elements = s /\ \A x : Queued(x) <=> Contains(s, x)
         /\ \A j \in 1 .. Len(s) + 1 : walk = At(s, j) => ItemsFrom(walk) = SubSeq(s, j, Len(s))
<1>1. Elements = s
  <2>1. Elements = Follow(link, link[Nil])
    BY DEF Elements, ItemsFrom, Follow
  <2>. QED  BY <2>1, FollowAll
<1>2. s \in Seq(Item) /\ \A x : Queued(x) <=> Contains(s, x)
  BY <1>1 DEF Queued, Contains, Chain
<1>3. ItemsFrom(walk) = Follow(link, walk)
  BY DEF ItemsFrom, Follow
<1>. QED  BY <1>1, <1>2, <1>3, FollowIs

LEMMA LooksNext ==
  ASSUME QueueAssumption, NEW s, Chain(link', tail', s)
  PROVE  /\ Elements' = s
         /\ \A j \in 1 .. Len(s) + 1 : walk' = At(s, j) => ItemsFrom(walk)' = SubSeq(s, j, Len(s))
<1>1. Elements' = s
  <2>1. Elements' = Follow(link', link'[Nil])
    BY DEF Elements, ItemsFrom, Follow
  <2>. QED  BY <2>1, FollowAll
<1>2. ItemsFrom(walk)' = Follow(link', walk')
  BY DEF ItemsFrom, Follow
<1>. QED  BY <1>1, <1>2, FollowIs

LEMMA Different ==
  ASSUME QueueAssumption, NEW s \in Seq(Item), IsInjective(s), NEW i \in 0 .. Len(s), NEW j \in 0 .. Len(s),
         At(s, i) = At(s, j)
  PROVE  i = j
<1>1. Len(s) \in Nat /\ (i = 0 \/ i \in 1 .. Len(s)) /\ (j = 0 \/ j \in 1 .. Len(s))
  OBVIOUS
<1>2. 0 \notin 1 .. Len(s) /\ At(s, 0) = Nil
  BY <1>1, AtIs
<1>. QED  BY <1>1, <1>2, AtIs DEF IsInjective

\* The new item's link is the old one of the item in front, which now leads to it.
LEMMA InsertChain ==
  ASSUME QueueAssumption, NEW l, NEW t, NEW s, Chain(l, t, s), NEW x \in Item, ~ Contains(s, x),
         NEW k \in 1 .. Len(s) + 1, NEW p, p = At(s, k - 1), NEW m, m = [l EXCEPT ![x] = l[p], ![p] = x],
         NEW u, u = IF k = Len(s) + 1 THEN x ELSE t
  PROVE  Chain(m, u, InsertAt(s, k, x))
<1>. PICK q : q = InsertAt(s, k, x)
  OBVIOUS
<1>1. /\ s \in Seq(Item) /\ Len(s) \in Nat /\ IsInjective(s) /\ l \in [Item \cup {Nil} -> Item \cup {Nil}]
      /\ t = At(s, Len(s)) /\ \A j \in 0 .. Len(s) : l[At(s, j)] = At(s, j + 1)
  BY DEF Chain
<1>2. /\ q \in Seq(Item) /\ Len(q) = Len(s) + 1 /\ IsInjective(q)
      /\ \A i \in 1 .. Len(s) + 1 : q[i] = IF i < k THEN s[i] ELSE IF i = k THEN x ELSE s[i - 1]
  <2>1. q \in Seq(Item) /\ Len(q) = Len(s) + 1
    BY <1>1, InsertAtIs
  <2>2. \A i \in 1 .. Len(s) + 1 : q[i] = IF i < k THEN s[i] ELSE IF i = k THEN x ELSE s[i - 1]
    BY <1>1, InsertAtIs
  <2>3. IsInjective(q)
    BY <1>1, InInsertAt
  <2>. QED  BY <2>1, <2>2, <2>3
<1>3. \A j \in Nat : At(q, j) = IF j < k THEN At(s, j) ELSE IF j = k THEN x ELSE At(s, j - 1)
  <2>1. ASSUME NEW j \in Nat
        PROVE At(q, j) = IF j < k THEN At(s, j) ELSE IF j = k THEN x ELSE At(s, j - 1)
    <3>1. /\ j < k /\ j \in 1 .. Len(q) => j \in 1 .. Len(s)
          /\ j < k /\ j \notin 1 .. Len(q) => j \notin 1 .. Len(s)
          /\ j > k /\ j \in 1 .. Len(q) => j - 1 \in 1 .. Len(s)
          /\ j > k /\ j \notin 1 .. Len(q) => j - 1 \notin 1 .. Len(s)
          /\ j = k => j \in 1 .. Len(q)
          /\ j < k \/ j = k \/ j > k
          /\ k \in Nat
      BY <1>1, <1>2
    <3>. QED  BY <1>1, <1>2, <3>1 DEF At
  <2>. QED  BY <2>1
<1>4. /\ p \in Item \cup {Nil} /\ x # p /\ x # Nil
      /\ \A j \in 0 .. Len(s) : /\ At(s, j) # x /\ At(s, j) \in Item \cup {Nil}
                                /\ (At(s, j) = p <=> j = k - 1)
  <2>1. k - 1 \in 0 .. Len(s)
    BY <1>1
  <2>2. ASSUME NEW j \in 0 .. Len(s) PROVE At(s, j) # x /\ At(s, j) \in Item \cup {Nil}
    BY <1>1, AtIs DEF Contains, QueueAssumption
  <2>3. \A j \in 0 .. Len(s) : At(s, j) = p <=> j = k - 1
    BY <1>1, <2>1, Different
  <2>. QED  BY <2>1, <2>2, <2>3 DEF QueueAssumption
<1>5. /\ m \in [Item \cup {Nil} -> Item \cup {Nil}] /\ m[p] = x /\ m[x] = l[p]
      /\ \A i \in Item \cup {Nil} : i # x /\ i # p => m[i] = l[i]
  BY <1>1, <1>4
<1>6. ASSUME NEW j \in 0 .. Len(q) PROVE m[At(q, j)] = At(q, j + 1)
  <2>1. j \in Nat /\ k \in Nat /\ j <= Len(s) + 1 /\ k <= Len(s) + 1 /\ j + 1 \in Nat
    BY <1>1, <1>2
  <2>2. CASE j < k - 1
    <3>1. j < k /\ j + 1 < k /\ j \in 0 .. Len(s) /\ j # k - 1
      BY <1>1, <2>1, <2>2
    <3>2. At(q, j) = At(s, j) /\ At(q, j + 1) = At(s, j + 1)
      BY <1>3, <2>1, <3>1
    <3>. QED  BY <1>1, <1>4, <1>5, <3>1, <3>2
  <2>3. CASE j = k - 1
    <3>1. j < k /\ j + 1 = k /\ ~ k < k
      BY <2>1, <2>3
    <3>2. At(q, j) = p /\ At(q, j + 1) = x
      BY <1>3, <2>1, <2>3, <3>1
    <3>. QED  BY <1>5, <3>2
  <2>4. CASE j = k
    <3>1. ~ j < k /\ ~ j + 1 < k /\ j + 1 # k /\ j + 1 - 1 = (k - 1) + 1 /\ k - 1 \in 0 .. Len(s)
      BY <1>1, <2>1, <2>4
    <3>2. At(q, j) = x /\ At(q, j + 1) = At(s, (k - 1) + 1)
      BY <1>3, <2>1, <2>4, <3>1
    <3>. QED  BY <1>1, <1>5, <3>1, <3>2
  <2>5. CASE j > k
    <3>1. /\ ~ j < k /\ j # k /\ ~ j + 1 < k /\ j + 1 # k /\ j + 1 - 1 = (j - 1) + 1
          /\ j - 1 \in 0 .. Len(s) /\ j - 1 # k - 1
      BY <1>1, <2>1, <2>5
    <3>2. At(q, j) = At(s, j - 1) /\ At(q, j + 1) = At(s, (j - 1) + 1)
      BY <1>3, <2>1, <3>1
    <3>. QED  BY <1>1, <1>4, <1>5, <3>1, <3>2
  <2>6. j < k - 1 \/ j = k - 1 \/ j = k \/ j > k
    BY <2>1
  <2>. QED  BY <2>2, <2>3, <2>4, <2>5, <2>6
<1>7. u = At(q, Len(q))
  <2>1. Len(s) + 1 \in Nat /\ Len(s) + 1 - 1 = Len(s) /\ ~ Len(s) + 1 < k
    BY <1>1
  <2>. QED  BY <1>1, <1>2, <1>3, <2>1
<1>. QED  BY <1>2, <1>5, <1>6, <1>7 DEF Chain

\* The item in front gets the link of the item that leaves.
LEMMA RemoveChain ==
  ASSUME QueueAssumption, NEW l, NEW t, NEW s, Chain(l, t, s), NEW k \in 1 .. Len(s),
         NEW p, p = At(s, k - 1), NEW m, m = [l EXCEPT ![p] = l[s[k]]],
         NEW u, u = IF t = s[k] THEN p ELSE t
  PROVE  Chain(m, u, RemoveAt(s, k))
<1>. PICK q : q = RemoveAt(s, k)
  OBVIOUS
<1>1. /\ s \in Seq(Item) /\ Len(s) \in Nat /\ IsInjective(s) /\ l \in [Item \cup {Nil} -> Item \cup {Nil}]
      /\ t = At(s, Len(s)) /\ \A j \in 0 .. Len(s) : l[At(s, j)] = At(s, j + 1)
  BY DEF Chain
<1>2. /\ q \in Seq(Item) /\ Len(q) = Len(s) - 1 /\ IsInjective(q)
      /\ \A i \in 1 .. Len(s) - 1 : q[i] = IF i < k THEN s[i] ELSE s[i + 1]
  <2>1. q \in Seq(Item) /\ Len(q) = Len(s) - 1
    BY <1>1, RemoveAtIs
  <2>2. \A i \in 1 .. Len(s) - 1 : q[i] = IF i < k THEN s[i] ELSE s[i + 1]
    BY <1>1, RemoveAtIs
  <2>3. IsInjective(q)
    BY <1>1, RemoveFirstIs, InRemoveFirst
  <2>. QED  BY <2>1, <2>2, <2>3
<1>3. \A j \in Nat : At(q, j) = IF j < k THEN At(s, j) ELSE At(s, j + 1)
  <2>1. ASSUME NEW j \in Nat PROVE At(q, j) = IF j < k THEN At(s, j) ELSE At(s, j + 1)
    <3>1. /\ j < k /\ j \in 1 .. Len(q) => j \in 1 .. Len(s)
          /\ j < k /\ j \notin 1 .. Len(q) => j \notin 1 .. Len(s)
          /\ ~ j < k /\ j \in 1 .. Len(q) => j + 1 \in 1 .. Len(s)
          /\ ~ j < k /\ j \notin 1 .. Len(q) => j + 1 \notin 1 .. Len(s)
      BY <1>1, <1>2
    <3>. QED  BY <1>1, <1>2, <3>1 DEF At
  <2>. QED  BY <2>1
<1>4. /\ p \in Item \cup {Nil} /\ k - 1 \in 0 .. Len(s) /\ s[k] = At(s, k) /\ l[s[k]] = At(s, k + 1)
      /\ \A j \in 0 .. Len(s) : At(s, j) \in Item \cup {Nil} /\ (At(s, j) = p <=> j = k - 1)
  <2>1. k - 1 \in 0 .. Len(s) /\ k \in 0 .. Len(s)
    BY <1>1
  <2>2. \A j \in 0 .. Len(s) : At(s, j) \in Item \cup {Nil}
    BY <1>1, AtIs
  <2>3. \A j \in 0 .. Len(s) : At(s, j) = p <=> j = k - 1
    BY <1>1, <2>1, Different
  <2>4. s[k] = At(s, k)
    BY <1>1, AtIs
  <2>. QED  BY <1>1, <2>1, <2>2, <2>3, <2>4
<1>5. /\ l[s[k]] \in Item \cup {Nil} /\ m \in [Item \cup {Nil} -> Item \cup {Nil}] /\ m[p] = At(s, k + 1)
      /\ \A i \in Item \cup {Nil} : i # p => m[i] = l[i]
  BY <1>1, <1>4
<1>6. ASSUME NEW j \in 0 .. Len(q) PROVE m[At(q, j)] = At(q, j + 1)
  <2>1. j \in Nat /\ k \in Nat /\ j <= Len(s) - 1 /\ k <= Len(s) /\ j + 1 \in Nat
    BY <1>1, <1>2
  <2>2. CASE j < k - 1
    <3>1. j < k /\ j + 1 < k /\ j \in 0 .. Len(s) /\ j # k - 1
      BY <1>1, <2>1, <2>2
    <3>2. At(q, j) = At(s, j) /\ At(q, j + 1) = At(s, j + 1)
      BY <1>3, <2>1, <3>1
    <3>. QED  BY <1>1, <1>4, <1>5, <3>1, <3>2
  <2>3. CASE j = k - 1
    <3>1. j < k /\ j + 1 = k /\ ~ k < k
      BY <2>1, <2>3
    <3>2. At(q, j) = p /\ At(q, j + 1) = At(s, k + 1)
      BY <1>3, <2>1, <2>3, <3>1
    <3>. QED  BY <1>5, <3>2
  <2>4. CASE j >= k
    <3>1. ~ j < k /\ ~ j + 1 < k /\ j + 1 \in 0 .. Len(s) /\ j + 1 # k - 1
      BY <1>1, <2>1, <2>4
    <3>2. At(q, j) = At(s, j + 1) /\ At(q, j + 1) = At(s, (j + 1) + 1)
      BY <1>3, <2>1, <3>1
    <3>. QED  BY <1>1, <1>4, <1>5, <3>1, <3>2
  <2>. QED  BY <2>1, <2>2, <2>3, <2>4
<1>7. u = At(q, Len(q))
  <2>1. Len(s) - 1 \in Nat /\ (Len(s) - 1) + 1 = Len(s) /\ Len(s) \in 0 .. Len(s) /\ k \in 0 .. Len(s)
    BY <1>1
  <2>2. t = s[k] <=> Len(s) = k
    BY <1>1, <1>4, <2>1, Different
  <2>3. CASE Len(s) = k
    <3>1. Len(s) - 1 < k /\ At(s, Len(s) - 1) = p
      BY <1>1, <2>3
    <3>. QED  BY <1>2, <1>3, <2>1, <2>2, <2>3, <3>1
  <2>4. CASE Len(s) # k
    <3>1. ~ Len(s) - 1 < k
      BY <1>1, <2>4
    <3>. QED  BY <1>1, <1>2, <1>3, <2>1, <2>2, <2>4, <3>1
  <2>. QED  BY <2>3, <2>4
<1>. QED  BY <1>2, <1>5, <1>6, <1>7 DEF Chain

\* What is taken out has its link cleared: nothing leads to it.
LEMMA Unlisted ==
  ASSUME QueueAssumption, NEW l, NEW t, NEW s, Chain(l, t, s), NEW x \in Item, ~ Contains(s, x)
  PROVE  Chain([l EXCEPT ![x] = Nil], t, s)
<1>1. \A j \in 0 .. Len(s) : At(s, j) # x
  BY AtIs DEF Chain, Contains, QueueAssumption
<1>. QED  BY <1>1 DEF Chain

\* The ends of a list as places in it
LEMMA Ends ==
  ASSUME NEW s \in Seq(Item), NEW x \in Item
  PROVE  /\ Append(s, x) = InsertAt(s, Len(s) + 1, x) /\ <<x>> \o s = InsertAt(s, 1, x)
         /\ s # <<>> => 1 \in 1 .. Len(s) /\ Tail(s) = RemoveAt(s, 1)
<1>. PICK one : one = 1
  OBVIOUS
<1>1. Len(s) \in Nat
  OBVIOUS
<1>2. ASSUME NEW n, n = Len(s) + 1 PROVE Append(s, x) = InsertAt(s, n, x)
  <2>0. n \in 1 .. Len(s) + 1
    BY <1>2
  <2>. PICK q : q = InsertAt(s, n, x)
    OBVIOUS
  <2>1. /\ q \in Seq(Item) /\ Len(q) = Len(s) + 1
        /\ \A i \in 1 .. Len(s) + 1 : q[i] = IF i < n THEN s[i] ELSE IF i = n THEN x ELSE s[i - 1]
    <3>1. InsertAt(s, n, x) \in Seq(Item) /\ Len(InsertAt(s, n, x)) = Len(s) + 1
      BY ONLY s \in Seq(Item), x \in Item, <2>0, InsertAtIs
    <3>2. \A i \in 1 .. Len(s) + 1 : InsertAt(s, n, x)[i] =
            IF i < n THEN s[i] ELSE IF i = n THEN x ELSE s[i - 1]
      BY ONLY s \in Seq(Item), x \in Item, <2>0, InsertAtIs
    <3>. QED  BY ONLY <3>1, <3>2, q = InsertAt(s, n, x)
  <2>. QED  BY <1>2, <2>1
<1>3. <<x>> \o s = InsertAt(s, one, x)
  <2>0. one \in 1 .. Len(s) + 1
    OBVIOUS
  <2>. PICK q : q = InsertAt(s, one, x)
    OBVIOUS
  <2>1. /\ q \in Seq(Item) /\ Len(q) = Len(s) + 1
        /\ \A i \in 1 .. Len(s) + 1 : q[i] = IF i < one THEN s[i] ELSE IF i = one THEN x ELSE s[i - 1]
    <3>1. InsertAt(s, one, x) \in Seq(Item) /\ Len(InsertAt(s, one, x)) = Len(s) + 1
      BY ONLY s \in Seq(Item), x \in Item, <2>0, InsertAtIs
    <3>2. \A i \in 1 .. Len(s) + 1 : InsertAt(s, one, x)[i] =
            IF i < one THEN s[i] ELSE IF i = one THEN x ELSE s[i - 1]
      BY ONLY s \in Seq(Item), x \in Item, <2>0, InsertAtIs
    <3>. QED  BY ONLY <3>1, <3>2, q = InsertAt(s, one, x)
  <2>2. \A i \in 1 .. Len(s) + 1 : (<<x>> \o s)[i] = q[i]
    BY <2>1
  <2>3. <<x>> \o s \in Seq(Item) /\ Len(<<x>> \o s) = Len(s) + 1
    OBVIOUS
  <2>4. <<x>> \o s = q
    <3>1. PICK p, n : p = <<x>> \o s /\ n = Len(s) + 1
      OBVIOUS
    <3>2. p \in Seq(Item) /\ q \in Seq(Item) /\ Len(p) = n /\ Len(q) = n
      BY ONLY <2>1, <2>3, <3>1
    <3>3. \A i \in 1 .. n : p[i] = q[i]
      BY ONLY <2>2, <3>1
    <3>4. p = q
      BY ONLY <3>2, <3>3
    <3>. QED BY ONLY <3>1, <3>4
  <2>. QED  BY ONLY <2>4, q = InsertAt(s, one, x)
<1>4. ASSUME s # <<>> PROVE one \in 1 .. Len(s) /\ Tail(s) = RemoveAt(s, one)
  <2>. PICK q : q = RemoveAt(s, one)
    OBVIOUS
  <2>0. one \in 1 .. Len(s)
    BY <1>4
  <2>1. q \in Seq(Item) /\ Len(q) = Len(s) - 1
    BY <2>0, RemoveAtIs
  <2>2. \A i \in 1 .. Len(s) - 1 : q[i] = IF i < one THEN s[i] ELSE s[i + 1]
    BY <2>0, RemoveAtIs
  <2>3. Tail(s) \in Seq(Item) /\ Len(Tail(s)) = Len(s) - 1 /\ \A i \in 1 .. Len(s) - 1 : Tail(s)[i] = s[i + 1]
    BY <1>4
  <2>4. \A i \in 1 .. Len(s) - 1 : q[i] = Tail(s)[i]
    BY <2>2, <2>3
  <2>. QED  BY <2>0, <2>1, <2>3, <2>4
<1>. QED  BY <1>2, <1>3, <1>4

\* remove() finds the item in front, or the head.
LEMMA BeforeIs ==
  ASSUME QueueAssumption, NEW s, Chain(link, tail, s), NEW k \in 1 .. Len(s)
  PROVE  Previous(s[k]) = At(s, k - 1)
<1>1. s \in Seq(Item) /\ Len(s) \in Nat /\ IsInjective(s) /\ \A j \in 0 .. Len(s) : link[At(s, j)] = At(s, j + 1)
  BY DEF Chain
<1>. DEFINE P == {Nil} \cup {i \in Item : Queued(i)}
<1>2. At(s, k - 1) \in P /\ link[At(s, k - 1)] = s[k]
  <2>1. k - 1 \in 0 .. Len(s) /\ (k - 1) + 1 = k
    BY <1>1
  <2>2. link[At(s, k - 1)] = s[k]
    BY <1>1, <2>1, AtIs
  <2>3. At(s, k - 1) # Nil => Contains(s, At(s, k - 1)) /\ At(s, k - 1) \in Item
    BY <1>1, <2>1, AtIs DEF Contains
  <2>. QED  BY <2>2, <2>3, Looks
<1>3. ASSUME NEW p \in P, link[p] = s[k] PROVE p = At(s, k - 1)
  <2>1. PICK j \in 0 .. Len(s) : p = At(s, j)
    <3>1. CASE p = Nil
      <4>1. 0 \in 0 .. Len(s) /\ 0 \notin 1 .. Len(s)
        BY <1>1
      <4>. QED  BY <1>1, <3>1, <4>1, AtIs
    <3>2. CASE p # Nil
      <4>1. Contains(s, p)
        BY <3>2, Looks
      <4>2. PICK i \in 1 .. Len(s) : s[i] = p
        BY <4>1 DEF Contains
      <4>. QED  BY <1>1, <4>2, AtIs
    <3>. QED  BY <3>1, <3>2
  <2>2. At(s, j + 1) = s[k]
    BY <1>1, <1>3, <2>1
  <2>3. j + 1 \in 1 .. Len(s)
    BY <1>1, <2>2, AtIs
  <2>4. j + 1 = k
    BY <1>1, <2>2, <2>3, AtIs DEF IsInjective
  <2>5. j = k - 1
    BY <1>1, <2>4
  <2>. QED  BY <2>1, <2>5
<1>. QED
  <2>. HIDE DEF P
  <2>1. Previous(s[k]) = CHOOSE p \in P : link[p] = s[k]
    BY DEF Previous, P
  <2>. QED  BY <1>2, <1>3, <2>1

\* The queue is a list, and a walk is at a place in it or behind its end.
Linked(s, j) == Chain(link, tail, s) /\ j \in 1 .. Len(s) + 1 /\ walk = At(s, j)
QueueInv == \E s, j : Linked(s, j)

LEMMA QueueInvInit == ASSUME QueueAssumption, QueueInit PROVE QueueInv /\ AsList!Init
<1>. PICK s : s = <<>>
  OBVIOUS
<1>1. s \in Seq(Item) /\ Len(s) = 0 /\ IsInjective(s) /\ \A j : At(s, j) = Nil
  BY InEmpty DEF At
<1>2. Linked(s, Len(s) + 1)
  BY <1>1 DEF QueueInit, Linked, Chain
<1>3. Elements = s /\ ItemsFrom(walk) = SubSeq(s, Len(s) + 1, Len(s))
  BY <1>2, Looks DEF Linked
<1>. QED  BY <1>1, <1>2, <1>3 DEF QueueInv, AsList!Init

\* What a change to the list s2 has to show when no walk is under way
LEMMA Changes ==
  ASSUME QueueAssumption, NEW s, NEW j, Linked(s, j), walk = Nil, UNCHANGED walk,
         NEW s2, Chain(link', tail', s2)
  PROVE  /\ QueueInv' /\ AsList!Change(s2) /\ Elements = s
         /\ \A x : (AsList!Holds(x) <=> Contains(s, x)) /\ (Queued(x) <=> Contains(s, x))
<1>1. s \in Seq(Item) /\ s2 \in Seq(Item) /\ Len(s) \in Nat /\ Len(s2) \in Nat
  BY DEF Linked, Chain
<1>2. /\ Len(s) + 1 \in 1 .. Len(s) + 1 /\ Len(s) + 1 \notin 1 .. Len(s) /\ SubSeq(s, Len(s) + 1, Len(s)) = <<>>
      /\ Len(s2) + 1 \in 1 .. Len(s2) + 1 /\ Len(s2) + 1 \notin 1 .. Len(s2) /\ SubSeq(s2, Len(s2) + 1, Len(s2)) = <<>>
  BY <1>1
<1>3. At(s, Len(s) + 1) = Nil /\ At(s2, Len(s2) + 1) = Nil
  BY <1>1, <1>2, AtIs
<1>4. Elements = s /\ ItemsFrom(walk) = <<>>
  BY <1>2, <1>3, Looks DEF Linked
<1>5. Elements' = s2 /\ ItemsFrom(walk)' = <<>>
  BY <1>2, <1>3, LooksNext
<1>6. QueueInv'
  BY <1>2, <1>3 DEF QueueInv, Linked
<1>7. \A x : (AsList!Holds(x) <=> Contains(s, x)) /\ (Queued(x) <=> Contains(s, x))
  BY <1>4, Looks DEF AsList!Holds, Contains, Linked
<1>. QED  BY <1>4, <1>5, <1>6, <1>7 DEF AsList!Change

LEMMA EnqueueStep ==
  ASSUME QueueAssumption, NEW s, NEW j, Linked(s, j), NEW item \in Item, Enqueue(item)
  PROVE  QueueInv' /\ AsList!Enqueue(item)
<1>1. /\ s \in Seq(Item) /\ Len(s) \in Nat /\ ~ Contains(s, item) /\ Chain(link, tail, s)
      /\ link' = [link EXCEPT ![item] = Nil, ![tail] = item] /\ tail' = item
  BY Looks DEF Linked, Chain, Enqueue
<1>. PICK k : k = Len(s) + 1
  OBVIOUS
<1>2. k \in 1 .. Len(s) + 1 /\ tail = At(s, k - 1) /\ link[tail] = Nil
  <2>1. Len(s) \in 0 .. Len(s) /\ Len(s) + 1 \notin 1 .. Len(s) /\ k - 1 = Len(s)
    BY <1>1
  <2>. QED  BY <1>1, <2>1, AtIs DEF Chain
<1>3. Chain(link', tail', InsertAt(s, k, item))
  BY <1>1, <1>2, InsertChain
<1>4. AsList!Change(InsertAt(s, k, item)) /\ QueueInv' /\ Elements = s /\ ~ AsList!Holds(item)
  BY <1>1, <1>3, Changes DEF Enqueue
<1>. QED  BY <1>1, <1>4, Ends DEF AsList!Enqueue

LEMMA DequeueStep ==
  ASSUME QueueAssumption, NEW s, NEW j, Linked(s, j), Dequeue
  PROVE  QueueInv' /\ AsList!Dequeue
<1>1. s \in Seq(Item) /\ Len(s) \in Nat /\ Chain(link, tail, s) /\ IsInjective(s)
  BY DEF Linked, Chain
<1>2. /\ 0 \in 0 .. Len(s) /\ 0 \notin 1 .. Len(s) /\ 0 + 1 = 1 /\ 1 - 1 = 0
      /\ 1 \in 1 .. Len(s) => 1 \in 0 .. Len(s)
  BY <1>1
<1>3. At(s, 0) = Nil /\ link[Nil] = At(s, 1)
  BY <1>1, <1>2, AtIs DEF Chain
<1>. PICK one : one = 1
  OBVIOUS
<1>4. one \in 1 .. Len(s) /\ link[Nil] = s[one] /\ s # <<>>
  BY <1>1, <1>3, AtIs DEF Dequeue
<1>. PICK p : p = Nil
  OBVIOUS
<1>. PICK m : m = [link EXCEPT ![p] = link[s[one]]]
  OBVIOUS
<1>. PICK u : u = IF tail = s[one] THEN p ELSE tail
  OBVIOUS
<1>5. Chain(m, u, RemoveAt(s, one))
  <2>1. p = At(s, one - 1)
    BY <1>2, <1>3
  <2>. QED  BY <1>1, <1>4, <2>1, RemoveChain
<1>6. s[one] \in Item /\ ~ Contains(RemoveAt(s, one), s[one])
  BY <1>1, <1>4, RemoveFirstIs, InRemoveFirst
<1>7. Chain([m EXCEPT ![s[one]] = Nil], u, RemoveAt(s, one))
  BY <1>5, <1>6, Unlisted
<1>8. link' = [m EXCEPT ![s[one]] = Nil]
  BY <1>4 DEF Dequeue
<1>9. tail' = u
  <2>1. link[s[one]] = At(s, 2)
    <3>1. s[one] = At(s, 1) /\ 1 \in 0 .. Len(s) /\ 1 + 1 = 2
      BY <1>1, <1>4, AtIs
    <3>. QED  BY <1>1, <3>1 DEF Chain
  <2>2. tail = At(s, Len(s)) /\ tail = s[Len(s)] /\ Len(s) \in 1 .. Len(s)
    BY <1>1, <1>4, AtIs DEF Chain
  <2>3. tail = s[one] <=> Len(s) = one
    <3>1. \A a, b \in 1 .. Len(s) : s[a] = s[b] => a = b
      BY <1>1 DEF IsInjective
    <3>. QED  BY ONLY <1>4, <2>2, <3>1
  <2>4. link[s[one]] = Nil <=> Len(s) = 1
    <3>0. Len(s) \in Nat /\ Len(s) >= 1
      BY <1>1, <1>4
    <3>1. 2 \in 1 .. Len(s) <=> Len(s) # 1
      BY ONLY <3>0
    <3>. QED  BY <1>1, <2>1, <3>1, AtIs
  <2>. QED  BY <1>4, <2>3, <2>4 DEF Dequeue
<1>10. Chain(link', tail', RemoveAt(s, one))
  BY <1>7, <1>8, <1>9
<1>11. AsList!Change(RemoveAt(s, one)) /\ QueueInv' /\ Elements = s
  BY <1>10, Changes DEF Dequeue
<1>12. Tail(s) = RemoveAt(s, one)
  BY <1>1, <1>4, <1>6, Ends
<1>. QED  BY <1>4, <1>11, <1>12 DEF AsList!Dequeue

\* The library's operators, as Lists has them
LEMMA Same ==
  /\ \A q, k, x : AsList!InsertAt(q, k, x) = InsertAt(q, k, x)
  /\ \A q, x : AsList!RemoveFirst(q, x) = RemoveFirst(q, x)
  BY DEF AsList!InsertAt, InsertAt, AsList!RemoveFirst, RemoveFirst, AsList!RemoveAt, RemoveAt,
         AsList!SelectInSeq, SelectInSeq, AsList!Min, Min

\* remove() of an item of the list takes out that one.
LEMMA UnlinkStep ==
  ASSUME QueueAssumption, NEW s, Chain(link, tail, s), NEW k \in 1 .. Len(s), Unlink(s[k])
  PROVE  Chain(link', tail', RemoveAt(s, k)) /\ RemoveFirst(s, s[k]) = RemoveAt(s, k)
<1>. PICK p : p = At(s, k - 1)
  OBVIOUS
<1>1. link' = [link EXCEPT ![p] = link[s[k]]] /\ tail' = IF tail = s[k] THEN p ELSE tail
  BY BeforeIs DEF Unlink
<1>2. Chain(link', tail', RemoveAt(s, k))
  BY <1>1, RemoveChain
<1>. QED  BY <1>2, RemoveFirstIs DEF Chain

LEMMA RemoveItemStep ==
  ASSUME QueueAssumption, NEW s, NEW j, Linked(s, j), NEW item \in Item, RemoveItem(item)
  PROVE  QueueInv' /\ AsList!RemoveItem(item)
<1>1. Contains(s, item) /\ Chain(link, tail, s)
  BY Looks DEF Linked, RemoveItem
<1>2. PICK k \in 1 .. Len(s) : s[k] = item
  BY <1>1 DEF Contains
<1>3. Chain(link', tail', RemoveAt(s, k)) /\ RemoveFirst(s, item) = RemoveAt(s, k)
  BY <1>1, <1>2, UnlinkStep DEF RemoveItem
<1>4. AsList!Change(RemoveAt(s, k)) /\ QueueInv' /\ Elements = s
  BY <1>3, Changes DEF RemoveItem
<1>. QED  BY <1>3, <1>4, Same DEF AsList!RemoveItem

LEMMA InsertFirstStep ==
  ASSUME QueueAssumption, NEW s, NEW j, Linked(s, j), NEW item \in Item, InsertFirst(item)
  PROVE  QueueInv' /\ AsList!InsertFirst(item)
<1>1. s \in Seq(Item) /\ Len(s) \in Nat /\ ~ Contains(s, item) /\ Chain(link, tail, s)
  BY Looks DEF Linked, Chain, InsertFirst
<1>. PICK k, p : k = 1 /\ p = Nil
  OBVIOUS
<1>2. k \in 1 .. Len(s) + 1 /\ p = At(s, k - 1)
  <2>1. 1 - 1 = 0 /\ 0 \notin 1 .. Len(s)
    BY <1>1
  <2>. QED  BY <1>1, <2>1, AtIs
<1>3. tail = Nil <=> k = Len(s) + 1
  <2>1. Len(s) \in 1 .. Len(s) <=> k # Len(s) + 1
    BY <1>1
  <2>2. tail = At(s, Len(s))
    BY <1>1 DEF Chain
  <2>. QED  BY <1>1, <2>1, <2>2, AtIs
<1>4. Chain(link', tail', InsertAt(s, k, item))
  <2>1. link' = [link EXCEPT ![item] = link[p], ![p] = item]
    BY DEF InsertFirst
  <2>2. tail' = IF k = Len(s) + 1 THEN item ELSE tail
    BY <1>3 DEF InsertFirst
  <2>. QED  BY <1>1, <1>2, <2>1, <2>2, InsertChain
<1>5. AsList!Change(InsertAt(s, k, item)) /\ QueueInv' /\ Elements = s /\ ~ AsList!Holds(item)
  BY <1>1, <1>4, Changes DEF InsertFirst
<1>6. <<item>> \o s = InsertAt(s, k, item)
  BY <1>1, Ends
<1>. QED  BY <1>5, <1>6 DEF AsList!InsertFirst

LEMMA InsertAfterStep ==
  ASSUME QueueAssumption, NEW s, NEW j, Linked(s, j), NEW old \in Item, NEW item \in Item, InsertAfter(old, item)
  PROVE  QueueInv' /\ AsList!InsertAfter(old, item)
<1>1. /\ s \in Seq(Item) /\ Len(s) \in Nat /\ IsInjective(s) /\ Chain(link, tail, s)
      /\ Contains(s, old) /\ ~ Contains(s, item)
  BY Looks DEF Linked, Chain, InsertAfter
<1>2. PICK i \in 1 .. Len(s) : s[i] = old
  BY <1>1 DEF Contains
<1>. PICK k : k = i + 1
  OBVIOUS
<1>3. k \in 1 .. Len(s) + 1 /\ k - 1 = i /\ old = At(s, k - 1)
  BY <1>1, <1>2, AtIs
<1>4. link' = [link EXCEPT ![item] = link[old], ![old] = item]
  BY DEF InsertAfter
<1>5. Len(s) \in 1 .. Len(s) /\ tail = s[Len(s)] /\ tail \in Item
  BY <1>1, <1>2, AtIs DEF Chain
<1>6. link'[tail] = item <=> k = Len(s) + 1
  <2>1. tail = old <=> k = Len(s) + 1
    BY <1>1, <1>2, <1>3, <1>5 DEF IsInjective
  <2>2. tail # item /\ old # item
    BY <1>1, <1>2, <1>5 DEF Contains
  <2>3. link[tail] = Nil /\ link \in [Item \cup {Nil} -> Item \cup {Nil}]
    <3>1. Len(s) \in 0 .. Len(s) /\ Len(s) + 1 \notin 1 .. Len(s) /\ tail = At(s, Len(s))
      BY <1>1, <1>5, AtIs
    <3>. QED  BY <1>1, <3>1, AtIs DEF Chain
  <2>. QED  BY <1>4, <1>5, <2>1, <2>2, <2>3 DEF QueueAssumption
<1>7. tail' = IF k = Len(s) + 1 THEN item ELSE tail
  BY <1>6 DEF InsertAfter
<1>8. Chain(link', tail', InsertAt(s, k, item))
  BY <1>1, <1>3, <1>4, <1>7, InsertChain
<1>9. AsList!Change(InsertAt(s, k, item)) /\ QueueInv' /\ Elements = s /\ ~ AsList!Holds(item)
  BY <1>1, <1>8, Changes DEF InsertAfter
<1>. QED  BY <1>2, <1>9, Same DEF AsList!InsertAfter

LEMMA BeginStep ==
  ASSUME QueueAssumption, NEW s, NEW j, Linked(s, j), Begin
  PROVE  QueueInv' /\ AsList!Walk
<1>1. s \in Seq(Item) /\ Len(s) \in Nat /\ Chain(link, tail, s)
  BY DEF Linked, Chain
<1>2. Chain(link', tail', s) /\ walk = Nil /\ walk' = link[Nil]
  BY <1>1 DEF Begin
<1>3. walk' = At(s, 1)
  <2>1. 0 \in 0 .. Len(s) /\ 0 \notin 1 .. Len(s) /\ 0 + 1 = 1
    BY <1>1
  <2>. QED  BY <1>1, <1>2, <2>1, AtIs DEF Chain
<1>. PICK one : one = 1
  OBVIOUS
<1>4. one \in 1 .. Len(s) + 1 /\ walk' = At(s, one) /\ SubSeq(s, one, Len(s)) = s
  BY <1>1, <1>3
<1>5. Elements' = s /\ ItemsFrom(walk)' = s
  BY <1>2, <1>4, LooksNext
<1>6. Elements = s /\ ItemsFrom(walk) = <<>>
  <2>1. Len(s) + 1 \in 1 .. Len(s) + 1 /\ Len(s) + 1 \notin 1 .. Len(s) /\ SubSeq(s, Len(s) + 1, Len(s)) = <<>>
    BY <1>1
  <2>2. walk = At(s, Len(s) + 1)
    BY <1>1, <1>2, <2>1, AtIs
  <2>. QED  BY <1>1, <2>1, <2>2, Looks
<1>7. QueueInv'
  BY <1>2, <1>4 DEF QueueInv, Linked
<1>. QED  BY <1>5, <1>6, <1>7 DEF AsList!Walk

\* What is behind the j-th item
LEMMA RestIs ==
  ASSUME NEW s \in Seq(Item), NEW j \in 1 .. Len(s)
  PROVE  /\ SubSeq(s, j, Len(s)) # <<>> /\ Head(SubSeq(s, j, Len(s))) = s[j]
         /\ Tail(SubSeq(s, j, Len(s))) = SubSeq(s, j + 1, Len(s))
         /\ \A q : q = RemoveAt(s, j) => SubSeq(q, j, Len(q)) = SubSeq(s, j + 1, Len(s))
<1>. PICK n, r, t : n = Len(s) /\ r = SubSeq(s, j, Len(s)) /\ t = SubSeq(s, j + 1, Len(s))
  OBVIOUS
<1>1. n \in Nat /\ j \in 1 .. n /\ s \in [1 .. n -> Item]
  OBVIOUS
<1>2. r \in Seq(Item) /\ Len(r) = n - j + 1 /\ \A i \in 1 .. n - j + 1 : r[i] = s[j + i - 1]
  BY <1>1
<1>3. t \in Seq(Item) /\ Len(t) = n - j /\ \A i \in 1 .. n - j : t[i] = s[j + i]
  BY <1>1
<1>4. r # <<>> /\ Head(r) = s[j]
  <2>1. 1 \in 1 .. n - j + 1 /\ j + 1 - 1 = j
    BY ONLY <1>1
  <2>2. r[1] = s[j] /\ Len(r) # 0
    BY ONLY <1>1, <1>2, <2>1
  <2>. QED  BY ONLY <1>2, <2>2
<1>5. Tail(r) = t
  <2>1. Tail(r) \in Seq(Item) /\ Len(Tail(r)) = n - j /\ \A i \in 1 .. n - j : Tail(r)[i] = r[i + 1]
    BY <1>1, <1>2, <1>4
  <2>2. \A i \in 1 .. n - j : Tail(r)[i] = t[i]
    BY <1>1, <1>2, <1>3, <2>1
  <2>. QED  BY <1>3, <2>1, <2>2
<1>6. ASSUME NEW q, q = RemoveAt(s, j) PROVE SubSeq(q, j, Len(q)) = t
  <2>1. /\ q \in Seq(Item) /\ Len(q) = n - 1
        /\ \A i \in 1 .. n - 1 : q[i] = IF i < j THEN s[i] ELSE s[i + 1]
    BY <1>6, RemoveAtIs
  <2>. PICK w : w = SubSeq(q, j, Len(q))
    OBVIOUS
  <2>2. w \in Seq(Item) /\ Len(w) = n - j /\ \A i \in 1 .. n - j : w[i] = q[j + i - 1]
    BY <1>1, <2>1
  <2>3. \A i \in 1 .. n - j : w[i] = t[i]
    BY <1>1, <1>3, <2>1, <2>2
  <2>4. w = t
    BY ONLY <1>3, <2>2, <2>3
  <2>. QED  BY ONLY <2>4, w = SubSeq(q, j, Len(q))
<1>. QED  BY <1>4, <1>5, <1>6

LEMMA VisitStep ==
  ASSUME QueueAssumption, NEW s, NEW j, Linked(s, j), Visit
  PROVE  QueueInv' /\ AsList!Visit
<1>1. /\ s \in Seq(Item) /\ Len(s) \in Nat /\ Chain(link, tail, s) /\ j \in 1 .. Len(s) + 1 /\ walk = At(s, j)
      /\ walk # Nil /\ walk' = link[walk]
  BY DEF Linked, Chain, Visit
<1>2. j \in 1 .. Len(s) /\ walk = s[j] /\ j + 1 \in 1 .. Len(s) + 1
  BY <1>1, AtIs
<1>3. walk' = At(s, j + 1)
  <2>1. j \in 0 .. Len(s)
    BY <1>1, <1>2
  <2>. QED  BY <1>1, <2>1 DEF Chain
<1>4. /\ Elements = s /\ ItemsFrom(walk) = SubSeq(s, j, Len(s))
      /\ ItemsFrom(walk) # <<>> /\ Head(ItemsFrom(walk)) = s[j]
      /\ Tail(ItemsFrom(walk)) = SubSeq(s, j + 1, Len(s))
  <2>. PICK r : r = SubSeq(s, j, Len(s))
    OBVIOUS
  <2>1. Elements = s /\ ItemsFrom(walk) = r
    BY <1>1, Looks
  <2>2. r # <<>> /\ Head(r) = s[j] /\ Tail(r) = SubSeq(s, j + 1, Len(s))
    BY <1>1, <1>2, RestIs
  <2>. QED  BY <2>1, <2>2
<1>5. CASE Unlink(walk)
  <2>. PICK q : q = RemoveAt(s, j)
    OBVIOUS
  <2>1. Chain(link', tail', q) /\ RemoveFirst(s, s[j]) = q
    BY <1>1, <1>2, <1>5, UnlinkStep
  <2>2. /\ q \in Seq(Item) /\ Len(q) = Len(s) - 1
        /\ \A i \in 1 .. Len(s) - 1 : q[i] = IF i < j THEN s[i] ELSE s[i + 1]
    BY <1>1, <1>2, RemoveAtIs
  <2>3. j \in 1 .. Len(q) + 1 /\ walk' = At(q, j)
    <3>1. j \in 1 .. Len(q) <=> j + 1 \in 1 .. Len(s)
      BY <1>1, <1>2, <2>2
    <3>. QED  BY <1>1, <1>2, <1>3, <2>2, <3>1 DEF At
  <2>4. SubSeq(q, j, Len(q)) = SubSeq(s, j + 1, Len(s))
    BY <1>1, <1>2, RestIs
  <2>5. Elements' = q /\ ItemsFrom(walk)' = SubSeq(s, j + 1, Len(s))
    BY <2>1, <2>3, <2>4, LooksNext
  <2>6. QueueInv'
    BY <2>1, <2>3 DEF QueueInv, Linked
  <2>. QED  BY <1>4, <2>1, <2>5, <2>6, Same DEF AsList!Visit
<1>6. CASE UNCHANGED <<link, tail>>
  <2>1. Chain(link', tail', s)
    BY <1>1, <1>6
  <2>2. Elements' = s /\ ItemsFrom(walk)' = SubSeq(s, j + 1, Len(s))
    BY <1>2, <1>3, <2>1, LooksNext
  <2>3. QueueInv'
    BY <1>2, <1>3, <2>1 DEF QueueInv, Linked
  <2>. QED  BY <1>4, <2>2, <2>3 DEF AsList!Visit
<1>. QED  BY <1>5, <1>6 DEF Visit

\* object/queue.h implements the lists of Lists for any finite set of items: whatever
\* enqueue(), dequeue(), remove(), insert_first() and insert_after() do to head, tail and
\* the links, users see a sequence of different items, and the iterator, though the item
\* it is at may be removed under it, leads once through all that were behind that item.
THEOREM QueueIsTheList == ASSUME QueueAssumption PROVE QueueSpec => QueueIsList
<1>1. QueueInit => QueueInv /\ AsList!Init
  BY QueueInvInit
<1>2. QueueInv /\ [QueueNext]_queue => QueueInv' /\ [AsList!Next]_<<Elements, ItemsFrom(walk)>>
  <2>. SUFFICES ASSUME QueueInv, [QueueNext]_queue
                PROVE  QueueInv' /\ [AsList!Next]_<<Elements, ItemsFrom(walk)>>
    OBVIOUS
  <2>0. PICK s, j : Linked(s, j)
    BY DEF QueueInv
  <2>1. CASE Dequeue
    BY <2>0, <2>1, DequeueStep DEF AsList!Next
  <2>2. CASE Begin
    BY <2>0, <2>2, BeginStep DEF AsList!Next
  <2>3. CASE Visit
    BY <2>0, <2>3, VisitStep DEF AsList!Next
  <2>4. ASSUME NEW item \in Item, Enqueue(item)
        PROVE  QueueInv' /\ AsList!Next
    BY <2>0, <2>4, EnqueueStep DEF AsList!Next
  <2>5. ASSUME NEW item \in Item, RemoveItem(item)
        PROVE  QueueInv' /\ AsList!Next
    BY <2>0, <2>5, RemoveItemStep DEF AsList!Next
  <2>6. ASSUME NEW item \in Item, InsertFirst(item)
        PROVE  QueueInv' /\ AsList!Next
    BY <2>0, <2>6, InsertFirstStep DEF AsList!Next
  <2>7. ASSUME NEW old \in Item, NEW item \in Item, InsertAfter(old, item)
        PROVE  QueueInv' /\ AsList!Next
    BY <2>0, <2>7, InsertAfterStep DEF AsList!Next
  <2>8. CASE UNCHANGED queue
    <3>1. link' = link /\ tail' = tail /\ walk' = walk
      BY <2>8 DEF queue
    <3>2. Linked(s, j)'
      BY <2>0, <3>1 DEF Linked, At, Chain
    <3>3. Elements' = Elements /\ ItemsFrom(walk)' = ItemsFrom(walk)
      BY <3>1 DEF Elements, ItemsFrom
    <3>. QED  BY <3>2, <3>3 DEF QueueInv
  <2>. QED  BY <2>1, <2>2, <2>3, <2>4, <2>5, <2>6, <2>7, <2>8 DEF QueueNext
<1>. QED  BY <1>1, <1>2, PTL DEF QueueSpec, QueueIsList, AsList!Spec

-----------------------------------------------------------------------------
(* The key decoder                                                         *)

\* What the decoder makes of a code: the prefix and the modifiers after it, and
\* the key that it completes.
PrefixCodes == {Prefix1, Prefix2}
Hit(code, pre) == ModifierOf(IF code < BreakBit THEN code ELSE code - BreakBit, pre)
HitLock(code, mods) == IF code < BreakBit THEN LockOf(code, mods) ELSE {}
PrefixAfter(code) == IF code \in PrefixCodes THEN code ELSE 0
ModiAfter(code, pre, mods) ==
  IF code \in PrefixCodes THEN mods
  ELSE IF code < BreakBit THEN Toggle(mods \cup Hit(code, pre), HitLock(code, mods))
  ELSE mods \ Hit(code, pre)
KeyAt(code, pre, mods) ==
  IF code < BreakBit /\ Hit(code, pre) = {} /\ HitLock(code, mods) = {}
  THEN AsciiCode(code, pre, mods) ELSE NoKey
Completes(e, pre, mods) == e[1] \notin PrefixCodes => e[2] = KeyAt(e[1], pre, mods)

\* The states P and M of prefix and modifiers, one before each code that waits,
\* and one behind the last: each code completes the key it was sent for.
Reading(seq, P, M) ==
  \A i \in 1 .. Len(seq) :
    /\ Completes(seq[i], P[i - 1], M[i - 1])
    /\ P[i] = PrefixAfter(seq[i][1])
    /\ M[i] = ModiAfter(seq[i][1], P[i - 1], M[i - 1])

Reads(seq, pre, mods, pre2, mods2) ==
  \E P, M : /\ P[0] = pre /\ M[0] = mods /\ P[Len(seq)] = pre2 /\ M[Len(seq)] = mods2
            /\ Reading(seq, P, M)

\* A code of an answer, or one that a key sends and is not its last.
KeySet == [asc : {NoAscii, "a", "A", "1", "!", "7", "/"}, scan : Nat]
CodeSet == Nat \X KeySet

AllLocks == {"caps_lock", "num_lock"}

\* When no command was sent between the bytes of another, the keyboard awaits the
\* byte that comes next.
Bytes ==
  /\ sending \in {<<>>, <<"set_led", "leds">>, <<"leds">>}
  /\ setting \in {<<>>, <<"set_speed", "rate">>, <<"rate">>}
  /\ mixed \in BOOLEAN

InStep ==
  /\ ~ (sending = <<"leds">> /\ setting = <<"rate">>)
  /\ command = IF sending = <<"leds">> THEN "set_led"
               ELSE IF setting = <<"rate">> THEN "set_speed" ELSE "none"
  /\ sending = <<>> => lamps = leds

DecoderInv ==
  /\ codes \in Seq(CodeSet)
  /\ down \subseteq Modifier /\ locked \subseteq Lock
  /\ ~ wrong
  /\ Reads(codes, prefix, modi, 0, down \cup locked)
  /\ leds = modi \cap AllLocks
  /\ Bytes
  /\ ~ mixed => InStep

-----------------------------------------------------------------------------
\* A code that arrives is read in the state behind those that wait.
LEMMA ReadsMore ==
  ASSUME NEW seq \in Seq(CodeSet), NEW p, NEW m, NEW p1, NEW m1, Reads(seq, p, m, p1, m1),
         NEW e \in CodeSet, Completes(e, p1, m1)
  PROVE  /\ Append(seq, e) \in Seq(CodeSet)
         /\ Reads(Append(seq, e), p, m, PrefixAfter(e[1]), ModiAfter(e[1], p1, m1))
<1>1. PICK P, M : /\ P[0] = p /\ M[0] = m /\ P[Len(seq)] = p1 /\ M[Len(seq)] = m1
                  /\ Reading(seq, P, M)
  BY DEF Reads
<1>2. /\ Append(seq, e) \in Seq(CodeSet) /\ Len(seq) \in Nat
      /\ Len(Append(seq, e)) = Len(seq) + 1 /\ Append(seq, e)[Len(seq) + 1] = e
      /\ \A i \in 1 .. Len(seq) : Append(seq, e)[i] = seq[i]
  OBVIOUS
<1>3. PICK n, long : n = Len(seq) /\ long = Append(seq, e)
  OBVIOUS
<1>4. PICK P2 : P2 = [i \in 0 .. n + 1 |-> IF i = n + 1 THEN PrefixAfter(e[1]) ELSE P[i]]
  OBVIOUS
<1>5. PICK M2 : M2 = [i \in 0 .. n + 1 |-> IF i = n + 1 THEN ModiAfter(e[1], p1, m1) ELSE M[i]]
  OBVIOUS
<1>6. /\ n \in Nat /\ n + 1 # 0 /\ P2[0] = p /\ M2[0] = m
      /\ P2[n + 1] = PrefixAfter(e[1]) /\ M2[n + 1] = ModiAfter(e[1], p1, m1)
      /\ P2[n] = p1 /\ M2[n] = m1
      /\ \A i \in 1 .. n : P2[i] = P[i] /\ M2[i] = M[i] /\ P2[i - 1] = P[i - 1] /\ M2[i - 1] = M[i - 1]
  BY ONLY <1>1, <1>2, <1>3, <1>4, <1>5
<1>7. Reading(long, P2, M2)
  <2>. SUFFICES ASSUME NEW i \in 1 .. Len(long)
                PROVE  /\ Completes(long[i], P2[i - 1], M2[i - 1])
                       /\ P2[i] = PrefixAfter(long[i][1])
                       /\ M2[i] = ModiAfter(long[i][1], P2[i - 1], M2[i - 1])
    BY DEF Reading
  <2>1. CASE i = n + 1
    <3>1. long[i] = e /\ i - 1 = n
      BY ONLY <1>2, <1>3, <1>6, <2>1
    <3>. QED BY ONLY <1>6, <2>1, <3>1, Completes(e, p1, m1)
  <2>2. CASE i # n + 1
    <3>1. i \in 1 .. n /\ long[i] = seq[i]
      BY ONLY <1>2, <1>3, <1>6, <2>2, i \in 1 .. Len(long)
    <3>2. /\ Completes(seq[i], P[i - 1], M[i - 1]) /\ P[i] = PrefixAfter(seq[i][1])
          /\ M[i] = ModiAfter(seq[i][1], P[i - 1], M[i - 1])
      BY ONLY <1>1, <1>3, <3>1 DEF Reading
    <3>. QED BY ONLY <1>6, <3>1, <3>2
  <2>. QED BY <2>1, <2>2
<1>8. Len(long) = n + 1
  BY ONLY <1>2, <1>3
<1>9. Reads(long, p, m, PrefixAfter(e[1]), ModiAfter(e[1], p1, m1))
  BY ONLY <1>6, <1>7, <1>8 DEF Reads
<1>. QED BY ONLY <1>2, <1>3, <1>9

\* When the first code has been read, the others are read from where it leads.
LEMMA ReadsOne ==
  ASSUME NEW seq \in Seq(CodeSet), seq # <<>>, NEW p, NEW m, NEW p1, NEW m1,
         Reads(seq, p, m, p1, m1)
  PROVE  /\ Tail(seq) \in Seq(CodeSet) /\ Head(seq) \in CodeSet
         /\ Completes(Head(seq), p, m)
         /\ Reads(Tail(seq), PrefixAfter(Head(seq)[1]), ModiAfter(Head(seq)[1], p, m), p1, m1)
<1>1. PICK P, M : /\ P[0] = p /\ M[0] = m /\ P[Len(seq)] = p1 /\ M[Len(seq)] = m1
                  /\ Reading(seq, P, M)
  BY DEF Reads
<1>2. /\ Tail(seq) \in Seq(CodeSet) /\ Len(seq) \in Nat /\ Len(seq) >= 1
      /\ Head(seq) = seq[1] /\ Head(seq) \in CodeSet /\ Len(Tail(seq)) = Len(seq) - 1
      /\ \A i \in 1 .. Len(seq) - 1 : Tail(seq)[i] = seq[i + 1]
  OBVIOUS
<1>3. PICK n, e, rest : n = Len(seq) /\ e = seq[1] /\ rest = Tail(seq)
  OBVIOUS
<1>4. /\ Completes(e, p, m) /\ P[1] = PrefixAfter(e[1]) /\ M[1] = ModiAfter(e[1], p, m)
  BY ONLY <1>1, <1>2, <1>3 DEF Reading
<1>5. PICK P2, M2 : P2 = [i \in 0 .. n - 1 |-> P[i + 1]] /\ M2 = [i \in 0 .. n - 1 |-> M[i + 1]]
  OBVIOUS
<1>6. /\ n \in Nat /\ n >= 1 /\ P2[0] = P[1] /\ M2[0] = M[1]
      /\ P2[n - 1] = p1 /\ M2[n - 1] = m1
      /\ \A i \in 1 .. n - 1 : /\ P2[i] = P[i + 1] /\ M2[i] = M[i + 1]
                               /\ P2[i - 1] = P[i] /\ M2[i - 1] = M[i]
  BY ONLY <1>1, <1>2, <1>3, <1>5
<1>7. Reading(rest, P2, M2)
  <2>. SUFFICES ASSUME NEW i \in 1 .. Len(rest)
                PROVE  /\ Completes(rest[i], P2[i - 1], M2[i - 1])
                       /\ P2[i] = PrefixAfter(rest[i][1])
                       /\ M2[i] = ModiAfter(rest[i][1], P2[i - 1], M2[i - 1])
    BY DEF Reading
  <2>1. i \in 1 .. n - 1 /\ i + 1 \in 1 .. Len(seq) /\ rest[i] = seq[i + 1] /\ (i + 1) - 1 = i
    BY ONLY <1>2, <1>3, i \in 1 .. Len(rest)
  <2>2. PICK j : j = i + 1
    OBVIOUS
  <2>3. /\ Completes(seq[j], P[j - 1], M[j - 1]) /\ P[j] = PrefixAfter(seq[j][1])
        /\ M[j] = ModiAfter(seq[j][1], P[j - 1], M[j - 1])
    BY ONLY <1>1, <2>1, <2>2 DEF Reading
  <2>. QED BY ONLY <1>6, <2>1, <2>2, <2>3
<1>8. Len(rest) = n - 1
  BY ONLY <1>2, <1>3
<1>9. Reads(rest, PrefixAfter(e[1]), ModiAfter(e[1], p, m), p1, m1)
  BY ONLY <1>4, <1>6, <1>7, <1>8 DEF Reads
<1>. QED BY ONLY <1>2, <1>3, <1>4, <1>9

\* When none waits, the decoder is where the codes have led it.
LEMMA ReadsNone ==
  ASSUME NEW p, NEW m, NEW p1, NEW m1, Reads(<<>>, p, m, p1, m1)
  PROVE  p = p1 /\ m = m1
  BY DEF Reads

LEMMA ReadsNoneYet ==
  ASSUME NEW p, NEW m
  PROVE  Reads(<<>>, p, m, p, m)
<1>1. PICK P, M : P = [i \in {0} |-> p] /\ M = [i \in {0} |-> m]
  OBVIOUS
<1>2. P[0] = p /\ M[0] = m /\ Reading(<<>>, P, M)
  BY <1>1 DEF Reading
<1>. QED BY <1>2 DEF Reads

-----------------------------------------------------------------------------
\* Toggling nothing changes nothing.
LEMMA ToggleNone ==
  ASSUME NEW m PROVE Toggle(m, {}) = m
  BY DEF Toggle

\* A prefix only prepares for the next code, whatever that one should complete.
LEMMA PrefixCode ==
  ASSUME NEW pre \in PrefixCodes, NEW key, NEW p, NEW m
  PROVE  /\ PrefixAfter(pre) = pre /\ ModiAfter(pre, p, m) = m
         /\ Completes(<<pre, key>>, p, m) /\ pre \in Nat
  BY DEF PrefixAfter, ModiAfter, Completes, PrefixCodes, Prefix1, Prefix2

\* Behind any other code there is no prefix.
LEMMA NoPrefix ==
  ASSUME NEW code \in 1 .. 90
  PROVE  /\ code \in Nat /\ PrefixAfter(code) = 0
         /\ code + BreakBit \in Nat /\ PrefixAfter(code + BreakBit) = 0
  BY DEF PrefixAfter, PrefixCodes, Prefix1, Prefix2, BreakBit

\* What other codes than prefixes do, by their tables' columns: the modifier and
\* the lock that they stand for.
LEMMA MakeModifiers ==
  ASSUME NEW code \in 1 .. 90, NEW p, NEW m
  PROVE  ModiAfter(code, p, m) = Toggle(m \cup ModifierOf(code, p), LockOf(code, m))
<1>1. code \in Nat /\ code < 128 /\ code # 224 /\ code # 225
  OBVIOUS
<1>2. Hit(code, p) = ModifierOf(code, p) /\ HitLock(code, m) = LockOf(code, m)
  BY <1>1 DEF Hit, HitLock, BreakBit
<1>. QED BY <1>1, <1>2 DEF ModiAfter, PrefixCodes, Prefix1, Prefix2, BreakBit

LEMMA MakeCode ==
  ASSUME NEW code \in 1 .. 90, NEW p, NEW m
  PROVE  /\ ModiAfter(code, p, m) = Toggle(m \cup ModifierOf(code, p), LockOf(code, m))
         /\ (ModifierOf(code, p) # {} \/ LockOf(code, m) # {}) => Completes(<<code, NoKey>>, p, m)
         /\ (ModifierOf(code, p) = {} /\ LockOf(code, m) = {}) =>
               /\ ModiAfter(code, p, m) = m
               /\ Completes(<<code, AsciiCode(code, p, m)>>, p, m)
<1>1. code \in Nat /\ code < 128 /\ code # 224 /\ code # 225
  OBVIOUS
<1>2. PrefixAfter(code) = 0 /\ Hit(code, p) = ModifierOf(code, p) /\ HitLock(code, m) = LockOf(code, m)
  BY <1>1 DEF PrefixAfter, PrefixCodes, Prefix1, Prefix2, Hit, HitLock, BreakBit
<1>3. ModiAfter(code, p, m) = Toggle(m \cup ModifierOf(code, p), LockOf(code, m))
  BY MakeModifiers
<1>4. KeyAt(code, p, m) = IF ModifierOf(code, p) = {} /\ LockOf(code, m) = {}
                          THEN AsciiCode(code, p, m) ELSE NoKey
  BY <1>1, <1>2 DEF KeyAt, BreakBit
<1>5. (ModifierOf(code, p) = {} /\ LockOf(code, m) = {}) => ModiAfter(code, p, m) = m
  <2>1. m \cup {} = m
    OBVIOUS
  <2>. QED BY <1>3, <2>1, ToggleNone
<1>. QED BY ONLY <1>1, <1>2, <1>3, <1>4, <1>5 DEF Completes

LEMMA BreakCode ==
  ASSUME NEW code \in 1 .. 90, NEW p, NEW m
  PROVE  /\ ModiAfter(code + BreakBit, p, m) = m \ ModifierOf(code, p)
         /\ Completes(<<code + BreakBit, NoKey>>, p, m)
<1>1. PICK c : c = code + 128
  OBVIOUS
<1>2. c \in Nat /\ ~ (c < 128) /\ c - 128 = code /\ c # 224 /\ c # 225
  BY <1>1
<1>3. PrefixAfter(c) = 0 /\ Hit(c, p) = ModifierOf(code, p)
  BY <1>2 DEF PrefixAfter, PrefixCodes, Prefix1, Prefix2, Hit, BreakBit
<1>4. ModiAfter(c, p, m) = m \ ModifierOf(code, p)
  BY <1>2, <1>3 DEF ModiAfter, PrefixCodes, Prefix1, Prefix2, BreakBit
<1>5. KeyAt(c, p, m) = NoKey
  BY <1>2 DEF KeyAt, BreakBit
<1>. QED BY ONLY <1>1, <1>2, <1>3, <1>4, <1>5 DEF Completes, BreakBit

\* What a key sends, code by code.
LEMMA Coded1 ==
  ASSUME NEW a, NEW key
  PROVE  Coded(<<a>>, key) = << <<a, key>> >>
  BY DEF Coded

LEMMA Coded2 ==
  ASSUME NEW a, NEW b, NEW key
  PROVE  Coded(<<a, b>>, key) = << <<a, NoKey>>, <<b, key>> >>
  BY DEF Coded

LEMMA Coded3 ==
  ASSUME NEW a, NEW b, NEW c, NEW key
  PROVE  Coded(<<a, b, c>>, key) = << <<a, NoKey>>, <<b, NoKey>>, <<c, key>> >>
  BY DEF Coded

LEMMA Released1 ==
  ASSUME NEW a \in 1 .. 90
  PROVE  Released(<<a>>) = <<a + BreakBit>>
  BY DEF Released, BreakBit, Prefix1

LEMMA Released2 ==
  ASSUME NEW pre \in PrefixCodes, NEW a \in 1 .. 90
  PROVE  Released(<<pre, a>>) = <<pre, a + BreakBit>>
  BY DEF Released, BreakBit, Prefix1, Prefix2, PrefixCodes

LEMMA Released3 ==
  ASSUME NEW pre \in PrefixCodes, NEW a \in 1 .. 90, NEW b \in 1 .. 90
  PROVE  Released(<<pre, a, b>>) = <<pre, a + BreakBit, b + BreakBit>>
  BY DEF Released, BreakBit, Prefix1, Prefix2, PrefixCodes

LEMMA NoKeyIsKey == NoKey \in KeySet
  BY DEF NoKey, KeySet

\* A code and its key are appended.
LEMMA Append1 ==
  ASSUME NEW seq \in Seq(CodeSet), NEW a \in Nat, NEW key \in KeySet
  PROVE  seq \o Coded(<<a>>, key) = Append(seq, <<a, key>>)
<1>1. PICK e : e = <<a, key>>
  OBVIOUS
<1>2. e \in CodeSet
  BY <1>1 DEF CodeSet
<1>3. Coded(<<a>>, key) = <<e>>
  BY <1>1, Coded1
<1>4. seq \o <<e>> = Append(seq, e)
  BY <1>2
<1>. QED BY ONLY <1>1, <1>3, <1>4

LEMMA Append2 ==
  ASSUME NEW seq \in Seq(CodeSet), NEW a \in Nat, NEW b \in Nat, NEW key \in KeySet
  PROVE  seq \o Coded(<<a, b>>, key) = Append(Append(seq, <<a, NoKey>>), <<b, key>>)
<1>1. PICK e, f : e = <<a, NoKey>> /\ f = <<b, key>>
  OBVIOUS
<1>2. e \in CodeSet /\ f \in CodeSet
  BY <1>1, NoKeyIsKey DEF CodeSet
<1>3. Coded(<<a, b>>, key) = <<e, f>>
  BY <1>1, Coded2
<1>4. seq \o <<e, f>> = Append(Append(seq, e), f)
  BY <1>2
<1>. QED BY ONLY <1>1, <1>3, <1>4

LEMMA Append3 ==
  ASSUME NEW seq \in Seq(CodeSet), NEW a \in Nat, NEW b \in Nat, NEW c \in Nat, NEW key \in KeySet
  PROVE  seq \o Coded(<<a, b, c>>, key)
           = Append(Append(Append(seq, <<a, NoKey>>), <<b, NoKey>>), <<c, key>>)
<1>1. PICK e, f, g : e = <<a, NoKey>> /\ f = <<b, NoKey>> /\ g = <<c, key>>
  OBVIOUS
<1>2. e \in CodeSet /\ f \in CodeSet /\ g \in CodeSet
  BY <1>1, NoKeyIsKey DEF CodeSet
<1>3. Coded(<<a, b, c>>, key) = <<e, f, g>>
  BY <1>1, Coded3
<1>4. seq \o <<e, f, g>> = Append(Append(Append(seq, e), f), g)
  BY <1>2
<1>. QED BY ONLY <1>1, <1>3, <1>4

\* A code that waits behind the others, when its key is the one it completes.
LEMMA ReadsCode ==
  ASSUME NEW seq \in Seq(CodeSet), NEW p, NEW m, NEW q, NEW d, Reads(seq, p, m, q, d),
         NEW code \in Nat, NEW key \in KeySet, Completes(<<code, key>>, q, d)
  PROVE  /\ Append(seq, <<code, key>>) \in Seq(CodeSet)
         /\ Reads(Append(seq, <<code, key>>), p, m, PrefixAfter(code), ModiAfter(code, q, d))
<1>1. PICK e : e = <<code, key>>
  OBVIOUS
<1>2. e \in CodeSet /\ e[1] = code /\ Completes(e, q, d)
  BY <1>1 DEF CodeSet
<1>3. /\ Append(seq, e) \in Seq(CodeSet)
      /\ Reads(Append(seq, e), p, m, PrefixAfter(e[1]), ModiAfter(e[1], q, d))
  BY <1>2, ReadsMore
<1>. QED BY ONLY <1>1, <1>2, <1>3

\* A key of one code is pressed, or released.
LEMMA TypeCode ==
  ASSUME NEW seq \in Seq(CodeSet), NEW p, NEW m, NEW none, none = 0, NEW d, Reads(seq, p, m, none, d),
         NEW code \in 1 .. 90, NEW key \in KeySet
  PROVE  /\ Completes(<<code, key>>, none, d) =>
               /\ seq \o Coded(<<code>>, key) \in Seq(CodeSet)
               /\ Reads(seq \o Coded(<<code>>, key), p, m, none, ModiAfter(code, none, d))
         /\ seq \o Coded(Released(<<code>>), NoKey) \in Seq(CodeSet)
         /\ Reads(seq \o Coded(Released(<<code>>), NoKey), p, m, none, d \ ModifierOf(code, none))
<1>1. PICK up : up = code + BreakBit
  OBVIOUS
<1>2. code \in Nat /\ up \in Nat /\ PrefixAfter(code) = none /\ PrefixAfter(up) = none
  BY <1>1, NoPrefix
<1>3. seq \o Coded(<<code>>, key) = Append(seq, <<code, key>>)
  BY <1>2, Append1
<1>4. seq \o Coded(Released(<<code>>), NoKey) = Append(seq, <<up, NoKey>>)
  <2>1. Released(<<code>>) = <<up>>
    BY <1>1, Released1
  <2>. QED BY <1>2, <2>1, Append1, NoKeyIsKey
<1>5. ASSUME Completes(<<code, key>>, none, d)
      PROVE  /\ Append(seq, <<code, key>>) \in Seq(CodeSet)
             /\ Reads(Append(seq, <<code, key>>), p, m, none, ModiAfter(code, none, d))
  BY <1>2, <1>5, ReadsCode
<1>6. /\ ModiAfter(up, none, d) = d \ ModifierOf(code, none)
      /\ Completes(<<up, NoKey>>, none, d)
  BY <1>1, BreakCode
<1>7. /\ Append(seq, <<up, NoKey>>) \in Seq(CodeSet)
      /\ Reads(Append(seq, <<up, NoKey>>), p, m, none, d \ ModifierOf(code, none))
  <2>1. PICK key0 : key0 = NoKey /\ key0 \in KeySet
    BY NoKeyIsKey
  <2>2. /\ Append(seq, <<up, key0>>) \in Seq(CodeSet)
        /\ Reads(Append(seq, <<up, key0>>), p, m, PrefixAfter(up), ModiAfter(up, none, d))
    BY <1>2, <1>6, <2>1, ReadsCode
  <2>. QED BY ONLY <1>2, <1>6, <2>1, <2>2
<1>. QED BY ONLY <1>3, <1>4, <1>5, <1>7

\* ... or one whose code comes behind a prefix.
LEMMA TypeBehind ==
  ASSUME NEW seq \in Seq(CodeSet), NEW p, NEW m, NEW none, none = 0, NEW d, Reads(seq, p, m, none, d),
         NEW pre \in PrefixCodes, NEW code \in 1 .. 90, NEW key \in KeySet
  PROVE  /\ Completes(<<code, key>>, pre, d) =>
               /\ seq \o Coded(<<pre, code>>, key) \in Seq(CodeSet)
               /\ Reads(seq \o Coded(<<pre, code>>, key), p, m, none, ModiAfter(code, pre, d))
         /\ seq \o Coded(Released(<<pre, code>>), NoKey) \in Seq(CodeSet)
         /\ Reads(seq \o Coded(Released(<<pre, code>>), NoKey), p, m, none, d \ ModifierOf(code, pre))
<1>1. PICK up : up = code + BreakBit
  OBVIOUS
<1>2. code \in Nat /\ up \in Nat /\ PrefixAfter(code) = none /\ PrefixAfter(up) = none
  BY <1>1, NoPrefix
<1>3. pre \in Nat /\ PrefixAfter(pre) = pre /\ ModiAfter(pre, none, d) = d
      /\ Completes(<<pre, NoKey>>, none, d)
  BY PrefixCode
<1>4. PICK first : first = Append(seq, <<pre, NoKey>>)
  OBVIOUS
<1>5. first \in Seq(CodeSet) /\ Reads(first, p, m, pre, d)
  BY <1>3, <1>4, ReadsCode, NoKeyIsKey
<1>6. seq \o Coded(<<pre, code>>, key) = Append(first, <<code, key>>)
  BY <1>2, <1>3, <1>4, Append2
<1>7. seq \o Coded(Released(<<pre, code>>), NoKey) = Append(first, <<up, NoKey>>)
  <2>1. Released(<<pre, code>>) = <<pre, up>>
    BY <1>1, Released2
  <2>2. \A key0 \in KeySet : seq \o Coded(<<pre, up>>, key0) = Append(first, <<up, key0>>)
    BY <1>2, <1>3, <1>4, Append2
  <2>. QED BY ONLY <2>1, <2>2, NoKeyIsKey
<1>8. ASSUME Completes(<<code, key>>, pre, d)
      PROVE  /\ Append(first, <<code, key>>) \in Seq(CodeSet)
             /\ Reads(Append(first, <<code, key>>), p, m, none, ModiAfter(code, pre, d))
  BY <1>2, <1>5, <1>8, ReadsCode
<1>9. /\ ModiAfter(up, pre, d) = d \ ModifierOf(code, pre)
      /\ Completes(<<up, NoKey>>, pre, d)
  BY <1>1, BreakCode
<1>10. /\ Append(first, <<up, NoKey>>) \in Seq(CodeSet)
       /\ Reads(Append(first, <<up, NoKey>>), p, m, none, d \ ModifierOf(code, pre))
  <2>1. PICK key0 : key0 = NoKey /\ key0 \in KeySet
    BY NoKeyIsKey
  <2>2. /\ Append(first, <<up, key0>>) \in Seq(CodeSet)
        /\ Reads(Append(first, <<up, key0>>), p, m, PrefixAfter(up), ModiAfter(up, pre, d))
    BY <1>2, <1>5, <1>9, <2>1, ReadsCode
  <2>. QED BY ONLY <1>2, <1>9, <2>1, <2>2
<1>. QED BY ONLY <1>6, <1>7, <1>8, <1>10

-----------------------------------------------------------------------------
\* A modifier key: what it sends, and the modifier that its code stands for.
LEMMA ModifierKey ==
  ASSUME NEW key \in {"SHIFT", "ctrl_left", "ctrl_right", "alt_left", "alt_right"}
  PROVE  \E code \in 1 .. 90 :
           /\ \A mods : LockOf(code, mods) = {}
           /\ \/ Make(key) = <<code>> /\ ModifierOf(code, 0) = {key}
              \/ Make(key) = <<Prefix1, code>> /\ ModifierOf(code, Prefix1) = {key}
<1>1. CASE key = "SHIFT"
  BY <1>1, 42 \in 1 .. 90 DEF Make, ModifierOf, LockOf
<1>2. CASE key = "ctrl_left"
  BY <1>2, 29 \in 1 .. 90 DEF Make, ModifierOf, LockOf, Prefix1
<1>3. CASE key = "ctrl_right"
  BY <1>3, 29 \in 1 .. 90 DEF Make, ModifierOf, LockOf, Prefix1
<1>4. CASE key = "alt_left"
  BY <1>4, 56 \in 1 .. 90 DEF Make, ModifierOf, LockOf, Prefix1
<1>5. CASE key = "alt_right"
  BY <1>5, 56 \in 1 .. 90 DEF Make, ModifierOf, LockOf, Prefix1
<1>. QED BY <1>1, <1>2, <1>3, <1>4, <1>5

LEMMA TypeModifier ==
  ASSUME NEW seq \in Seq(CodeSet), NEW p, NEW m, NEW none, none = 0, NEW d,
         Reads(seq, p, m, none, d),
         NEW key \in {"SHIFT", "ctrl_left", "ctrl_right", "alt_left", "alt_right"}
  PROVE  /\ seq \o Coded(Make(key), NoKey) \in Seq(CodeSet)
         /\ Reads(seq \o Coded(Make(key), NoKey), p, m, none, d \cup {key})
         /\ seq \o Coded(Released(Make(key)), NoKey) \in Seq(CodeSet)
         /\ Reads(seq \o Coded(Released(Make(key)), NoKey), p, m, none, d \ {key})
<1>1. PICK code \in 1 .. 90 :
        /\ \A mods : LockOf(code, mods) = {}
        /\ \/ Make(key) = <<code>> /\ ModifierOf(code, 0) = {key}
           \/ Make(key) = <<Prefix1, code>> /\ ModifierOf(code, Prefix1) = {key}
  BY ModifierKey
<1>2. {key} # {} /\ Prefix1 \in PrefixCodes
  BY DEF PrefixCodes
<1>3. ASSUME NEW pre, ModifierOf(code, pre) = {key}
      PROVE  Completes(<<code, NoKey>>, pre, d) /\ ModiAfter(code, pre, d) = d \cup {key}
  <2>1. /\ ModiAfter(code, pre, d) = Toggle(d \cup ModifierOf(code, pre), LockOf(code, d))
        /\ ModifierOf(code, pre) # {} => Completes(<<code, NoKey>>, pre, d)
    BY ONLY MakeCode, code \in 1 .. 90
  <2>2. LockOf(code, d) = {}
    BY <1>1
  <2>3. Toggle(d \cup {key}, {}) = d \cup {key}
    BY ToggleNone
  <2>. QED BY ONLY <1>2, <1>3, <2>1, <2>2, <2>3
<1>4. PICK key0 : key0 = NoKey /\ key0 \in KeySet
  BY NoKeyIsKey
<1>5. CASE Make(key) = <<code>> /\ ModifierOf(code, none) = {key}
  <2>1. Completes(<<code, key0>>, none, d) /\ ModiAfter(code, none, d) = d \cup {key}
    BY ONLY <1>3, <1>4, <1>5
  <2>2. /\ seq \o Coded(<<code>>, key0) \in Seq(CodeSet)
        /\ Reads(seq \o Coded(<<code>>, key0), p, m, none, ModiAfter(code, none, d))
    BY <1>4, <2>1, TypeCode
  <2>3. /\ seq \o Coded(Released(<<code>>), NoKey) \in Seq(CodeSet)
        /\ Reads(seq \o Coded(Released(<<code>>), NoKey), p, m, none, d \ ModifierOf(code, none))
    BY <1>4, TypeCode
  <2>. QED BY ONLY <1>4, <1>5, <2>1, <2>2, <2>3
<1>6. CASE Make(key) = <<Prefix1, code>> /\ ModifierOf(code, Prefix1) = {key}
  <2>1. Completes(<<code, key0>>, Prefix1, d) /\ ModiAfter(code, Prefix1, d) = d \cup {key}
    BY ONLY <1>3, <1>4, <1>6
  <2>2. /\ seq \o Coded(<<Prefix1, code>>, key0) \in Seq(CodeSet)
        /\ Reads(seq \o Coded(<<Prefix1, code>>, key0), p, m, none, ModiAfter(code, Prefix1, d))
    BY <1>2, <1>4, <2>1, TypeBehind
  <2>3. /\ seq \o Coded(Released(<<Prefix1, code>>), NoKey) \in Seq(CodeSet)
        /\ Reads(seq \o Coded(Released(<<Prefix1, code>>), NoKey), p, m, none,
                 d \ ModifierOf(code, Prefix1))
    BY <1>2, <1>4, TypeBehind
  <2>. QED BY ONLY <1>4, <1>6, <2>1, <2>2, <2>3
<1>. QED BY ONLY none = 0, <1>1, <1>5, <1>6

\* Three codes, of which the last completes a key.
LEMMA TypeThree ==
  ASSUME NEW seq \in Seq(CodeSet), NEW p, NEW m, NEW q, NEW d, Reads(seq, p, m, q, d),
         NEW a \in Nat, NEW b \in Nat, NEW c \in Nat, NEW key \in KeySet, NEW d1, NEW d2, NEW d3,
         Completes(<<a, NoKey>>, q, d), ModiAfter(a, q, d) = d1,
         Completes(<<b, NoKey>>, PrefixAfter(a), d1), ModiAfter(b, PrefixAfter(a), d1) = d2,
         Completes(<<c, key>>, PrefixAfter(b), d2), ModiAfter(c, PrefixAfter(b), d2) = d3
  PROVE  /\ seq \o Coded(<<a, b, c>>, key) \in Seq(CodeSet)
         /\ Reads(seq \o Coded(<<a, b, c>>, key), p, m, PrefixAfter(c), d3)
<1>1. PICK none : none = NoKey /\ none \in KeySet
  BY NoKeyIsKey
<1>2. PICK s1 : s1 = Append(seq, <<a, none>>)
  OBVIOUS
<1>3. s1 \in Seq(CodeSet) /\ Reads(s1, p, m, PrefixAfter(a), d1)
  BY <1>1, <1>2, ReadsCode
<1>4. PICK s2 : s2 = Append(s1, <<b, none>>)
  OBVIOUS
<1>5. s2 \in Seq(CodeSet) /\ Reads(s2, p, m, PrefixAfter(b), d2)
  BY <1>1, <1>3, <1>4, ReadsCode
<1>6. PICK s3 : s3 = Append(s2, <<c, key>>)
  OBVIOUS
<1>7. s3 \in Seq(CodeSet) /\ Reads(s3, p, m, PrefixAfter(c), d3)
  BY <1>5, <1>6, ReadsCode
<1>8. seq \o Coded(<<a, b, c>>, key) = s3
  <2>1. seq \o Coded(<<a, b, c>>, key)
          = Append(Append(Append(seq, <<a, NoKey>>), <<b, NoKey>>), <<c, key>>)
    BY ONLY Append3, seq \in Seq(CodeSet), a \in Nat, b \in Nat, c \in Nat, key \in KeySet
  <2>. QED BY ONLY <1>1, <1>2, <1>4, <1>6, <2>1
<1>. QED BY ONLY <1>7, <1>8

\* A stroke of a key that is no modifier: it is pressed and released.
LEMMA StrokeCode ==
  ASSUME NEW seq \in Seq(CodeSet), NEW p, NEW m, NEW none, none = 0, NEW d, Reads(seq, p, m, none, d),
         NEW code \in 1 .. 90, NEW key \in KeySet, \A pre : ModifierOf(code, pre) = {},
         Completes(<<code, key>>, none, d)
  PROVE  /\ seq \o Coded(<<code>>, key) \o Coded(Released(<<code>>), NoKey) \in Seq(CodeSet)
         /\ Reads(seq \o Coded(<<code>>, key) \o Coded(Released(<<code>>), NoKey), p, m, none,
                  ModiAfter(code, none, d))
<1>1. PICK mid, d2 : mid = seq \o Coded(<<code>>, key) /\ d2 = ModiAfter(code, none, d)
  OBVIOUS
<1>2. mid \in Seq(CodeSet) /\ Reads(mid, p, m, none, d2)
  BY <1>1, TypeCode
<1>3. /\ mid \o Coded(Released(<<code>>), NoKey) \in Seq(CodeSet)
      /\ Reads(mid \o Coded(Released(<<code>>), NoKey), p, m, none, d2 \ ModifierOf(code, none))
  BY <1>2, TypeCode
<1>4. d2 \ {} = d2
  <2>1. ModiAfter(code, none, d) = Toggle(d \cup ModifierOf(code, none), LockOf(code, d))
    BY ONLY MakeModifiers, code \in 1 .. 90
  <2>. QED BY ONLY <1>1, <2>1 DEF Toggle
<1>. QED BY ONLY <1>1, <1>3, <1>4, \A pre : ModifierOf(code, pre) = {}

LEMMA StrokeBehind ==
  ASSUME NEW seq \in Seq(CodeSet), NEW p, NEW m, NEW none, none = 0, NEW d, Reads(seq, p, m, none, d),
         NEW pre \in PrefixCodes, NEW code \in 1 .. 90, NEW key \in KeySet,
         \A q : ModifierOf(code, q) = {}, Completes(<<code, key>>, pre, d)
  PROVE  /\ seq \o Coded(<<pre, code>>, key) \o Coded(Released(<<pre, code>>), NoKey) \in Seq(CodeSet)
         /\ Reads(seq \o Coded(<<pre, code>>, key) \o Coded(Released(<<pre, code>>), NoKey), p, m,
                  none, ModiAfter(code, pre, d))
<1>1. PICK mid, d2 : mid = seq \o Coded(<<pre, code>>, key) /\ d2 = ModiAfter(code, pre, d)
  OBVIOUS
<1>2. mid \in Seq(CodeSet) /\ Reads(mid, p, m, none, d2)
  BY <1>1, TypeBehind
<1>3. /\ mid \o Coded(Released(<<pre, code>>), NoKey) \in Seq(CodeSet)
      /\ Reads(mid \o Coded(Released(<<pre, code>>), NoKey), p, m, none, d2 \ ModifierOf(code, pre))
  BY <1>2, TypeBehind
<1>4. d2 \ {} = d2
  <2>1. ModiAfter(code, pre, d) = Toggle(d \cup ModifierOf(code, pre), LockOf(code, d))
    BY ONLY MakeModifiers, code \in 1 .. 90
  <2>. QED BY ONLY <1>1, <2>1 DEF Toggle
<1>. QED BY ONLY <1>1, <1>3, <1>4, \A q : ModifierOf(code, q) = {}

\* The codes of the Pause key are those of the left Ctrl and of num lock, and come to
\* neither, as long as Ctrl is not held.
LEMMA StrokePause ==
  ASSUME NEW seq \in Seq(CodeSet), NEW p, NEW m, NEW none, none = 0, NEW d, Reads(seq, p, m, none, d),
         "ctrl_left" \notin d
  PROVE  LET up == Released(<<Prefix2, 29, 69>>)
             all == seq \o Coded(<<Prefix2, 29, 69>>, Key(NoAscii, 69)) \o Coded(up, NoKey)
         IN  all \in Seq(CodeSet) /\ Reads(all, p, m, none, d)
<1>1. PICK pre, ctrl, num, ctrl2, num2, none2, key :
        /\ pre = Prefix2 /\ ctrl = 29 /\ num = 69 /\ ctrl2 = ctrl + BreakBit /\ num2 = num + BreakBit
        /\ none2 = NoKey /\ key = Key(NoAscii, 69)
  OBVIOUS
<1>2. /\ pre \in PrefixCodes /\ pre \in Nat /\ PrefixAfter(pre) = pre
      /\ ctrl \in 1 .. 90 /\ num \in 1 .. 90
  <2>1. pre \in PrefixCodes /\ ctrl \in 1 .. 90 /\ num \in 1 .. 90
    BY ONLY <1>1 DEF PrefixCodes
  <2>. QED BY ONLY <2>1, PrefixCode
<1>3. /\ ctrl \in Nat /\ num \in Nat /\ ctrl2 \in Nat /\ num2 \in Nat
      /\ PrefixAfter(ctrl) = none /\ PrefixAfter(num) = none
      /\ PrefixAfter(ctrl2) = none /\ PrefixAfter(num2) = none
  BY <1>1, <1>2, NoPrefix
<1>4. none2 \in KeySet /\ key \in KeySet
  BY <1>1, NoKeyIsKey DEF KeySet, Key
<1>5. /\ \A q : ModifierOf(num, q) = {} /\ ModifierOf(ctrl, pre) = {"ctrl_left"}
      /\ \A mods : LockOf(ctrl, mods) = {} /\ ("ctrl_left" \in mods => LockOf(num, mods) = {})
      /\ \A mods : AsciiCode(num, none, mods) = key
  <2>1. \A q : ModifierOf(num, q) = {} /\ ModifierOf(ctrl, pre) = {"ctrl_left"}
    BY <1>1 DEF ModifierOf, Prefix1, Prefix2
  <2>2. \A mods : LockOf(ctrl, mods) = {} /\ ("ctrl_left" \in mods => LockOf(num, mods) = {})
    BY <1>1 DEF LockOf
  <2>3. \A mods : AsciiCode(num, none, mods) = key
    <3>1. Alternate(num) = NoAscii /\ Normal(num) = NoAscii /\ Shifted(num) = NoAscii
      BY ONLY <1>1 DEF Normal, Shifted, Alternate
    <3>. QED BY ONLY <1>1, <3>1, none = 0 DEF AsciiCode, Prefix1, Letters, Key
  <2>. QED BY <2>1, <2>2, <2>3
<1>6. PICK d2 : d2 = d \cup {"ctrl_left"}
  OBVIOUS
<1>7. /\ Completes(<<pre, none2>>, none, d) /\ ModiAfter(pre, none, d) = d
      /\ Completes(<<pre, none2>>, none, d2) /\ ModiAfter(pre, none, d2) = d2
  BY <1>2, PrefixCode
<1>8. Completes(<<ctrl, none2>>, pre, d) /\ ModiAfter(ctrl, pre, d) = d2
  <2>a. ctrl \in 1 .. 90
    BY ONLY <1>2
  <2>1. ModiAfter(ctrl, pre, d) = Toggle(d \cup ModifierOf(ctrl, pre), LockOf(ctrl, d))
    BY ONLY <2>a, MakeCode
  <2>2. ModifierOf(ctrl, pre) # {} => Completes(<<ctrl, NoKey>>, pre, d)
    BY ONLY <2>a, MakeCode
  <2>. QED BY ONLY <1>1, <1>5, <1>6, <2>1, <2>2, ToggleNone
<1>9. Completes(<<num, key>>, none, d2) /\ ModiAfter(num, none, d2) = d2
  <2>1. (ModifierOf(num, none) = {} /\ LockOf(num, d2) = {}) =>
          /\ ModiAfter(num, none, d2) = d2
          /\ Completes(<<num, AsciiCode(num, none, d2)>>, none, d2)
    BY <1>2, MakeCode
  <2>. QED BY ONLY <1>5, <1>6, <2>1
<1>10. Completes(<<ctrl2, none2>>, pre, d2) /\ ModiAfter(ctrl2, pre, d2) = d
  <2>1. /\ ModiAfter(ctrl2, pre, d2) = d2 \ ModifierOf(ctrl, pre)
        /\ Completes(<<ctrl2, none2>>, pre, d2)
    BY <1>1, <1>2, BreakCode
  <2>2. d2 \ {"ctrl_left"} = d
    BY <1>6
  <2>. QED BY ONLY <1>5, <2>1, <2>2
<1>11. Completes(<<num2, none2>>, none, d) /\ ModiAfter(num2, none, d) = d
  <2>1. /\ ModiAfter(num2, none, d) = d \ ModifierOf(num, none)
        /\ Completes(<<num2, none2>>, none, d)
    BY <1>1, <1>2, BreakCode
  <2>2. d \ {} = d
    OBVIOUS
  <2>. QED BY ONLY <1>5, <2>1, <2>2
<1>12. PICK mid : mid = seq \o Coded(<<pre, ctrl, num>>, key)
  OBVIOUS
<1>13. mid \in Seq(CodeSet) /\ Reads(mid, p, m, none, d2)
  BY <1>1, <1>2, <1>3, <1>4, <1>7, <1>8, <1>9, <1>12, TypeThree
<1>14. Released(<<pre, ctrl, num>>) = <<pre, ctrl2, num2>>
  BY <1>1, <1>2, Released3
<1>15. /\ mid \o Coded(<<pre, ctrl2, num2>>, none2) \in Seq(CodeSet)
       /\ Reads(mid \o Coded(<<pre, ctrl2, num2>>, none2), p, m, none, d)
  BY <1>1, <1>2, <1>3, <1>4, <1>7, <1>10, <1>11, <1>13, TypeThree
<1>. QED BY ONLY <1>1, <1>12, <1>14, <1>15

-----------------------------------------------------------------------------
\* What a key stands for is what its code gives with the modifiers that are held
\* and the locks that are on.
LEMMA HeldAndLocked ==
  ASSUME down \subseteq Modifier, locked \subseteq Lock, NEW d, d = down \cup locked
  PROVE  /\ \A key \in {"SHIFT", "ctrl_left", "alt_right"} : key \in d <=> key \in down
         /\ \A key \in AllLocks : key \in d <=> key \in locked
         /\ Modifier \cap AllLocks = {} /\ d \cap AllLocks = locked
         /\ \A key \in Modifier : key \notin locked
  BY DecoderAssumption DEF AllLocks

\* The state after a stroke of a key.
Stroked(key, seq) == seq \o Coded(Make(key), Meant(key)) \o Coded(Released(Make(key)), NoKey)
LockedBy(key) == IF key \in Lock /\ Meant(key) = NoKey THEN Toggle(locked, {key}) ELSE locked
StrokeReads(key, seq) ==
  \A p, m : Reads(seq, p, m, 0, down \cup locked) =>
    /\ Stroked(key, seq) \in Seq(CodeSet)
    /\ Reads(Stroked(key, seq), p, m, 0, down \cup LockedBy(key))

\* A key that is no lock, of one code
LEMMA PlainKey ==
  ASSUME NEW seq \in Seq(CodeSet), NEW key \in Plain, NEW code \in 1 .. 90,
         Make(key) = <<code>>, \A q : ModifierOf(code, q) = {}, \A q : LockOf(code, q) = {},
         Meant(key) \in KeySet, Meant(key) = AsciiCode(code, 0, down \cup locked)
  PROVE  StrokeReads(key, seq)
<1>1. PICK none, d : none = 0 /\ d = down \cup locked
  OBVIOUS
<1>2. LockedBy(key) = locked
  BY DecoderAssumption DEF LockedBy
<1>3. Completes(<<code, Meant(key)>>, none, d) /\ ModiAfter(code, none, d) = d
  <2>1. (ModifierOf(code, none) = {} /\ LockOf(code, d) = {}) =>
          /\ ModiAfter(code, none, d) = d
          /\ Completes(<<code, AsciiCode(code, none, d)>>, none, d)
    BY MakeCode
  <2>. QED BY <1>1, <2>1
<1>4. PICK k : k = Meant(key) /\ k \in KeySet /\ Completes(<<code, k>>, none, d)
  BY <1>3
<1>5. ASSUME NEW p, NEW m, Reads(seq, p, m, none, d)
      PROVE  /\ seq \o Coded(<<code>>, k) \o Coded(Released(<<code>>), NoKey) \in Seq(CodeSet)
             /\ Reads(seq \o Coded(<<code>>, k) \o Coded(Released(<<code>>), NoKey), p, m, none, d)
  <2>1. /\ seq \o Coded(<<code>>, k) \o Coded(Released(<<code>>), NoKey) \in Seq(CodeSet)
        /\ Reads(seq \o Coded(<<code>>, k) \o Coded(Released(<<code>>), NoKey), p, m, none,
                 ModiAfter(code, none, d))
    BY <1>1, <1>4, <1>5, StrokeCode
  <2>. QED BY ONLY <1>3, <2>1
<1>. QED BY ONLY <1>1, <1>2, <1>4, <1>5, Make(key) = <<code>> DEF StrokeReads, Stroked

\* ... or of one behind a prefix
LEMMA PrefixedKey ==
  ASSUME NEW seq \in Seq(CodeSet), NEW key \in Plain, NEW code \in 1 .. 90,
         Make(key) = <<Prefix1, code>>, \A q : ModifierOf(code, q) = {}, \A q : LockOf(code, q) = {},
         Meant(key) \in KeySet, Meant(key) = AsciiCode(code, Prefix1, down \cup locked)
  PROVE  StrokeReads(key, seq)
<1>1. PICK none, d, pre : none = 0 /\ d = down \cup locked /\ pre = Prefix1
  OBVIOUS
<1>2. LockedBy(key) = locked /\ pre \in PrefixCodes
  BY <1>1, DecoderAssumption DEF LockedBy, PrefixCodes
<1>3. Completes(<<code, Meant(key)>>, pre, d) /\ ModiAfter(code, pre, d) = d
  <2>1. (ModifierOf(code, pre) = {} /\ LockOf(code, d) = {}) =>
          /\ ModiAfter(code, pre, d) = d
          /\ Completes(<<code, AsciiCode(code, pre, d)>>, pre, d)
    BY MakeCode
  <2>. QED BY <1>1, <2>1
<1>4. PICK k : k = Meant(key) /\ k \in KeySet /\ Completes(<<code, k>>, pre, d)
  BY <1>3
<1>5. ASSUME NEW p, NEW m, Reads(seq, p, m, none, d)
      PROVE  /\ seq \o Coded(<<pre, code>>, k) \o Coded(Released(<<pre, code>>), NoKey) \in Seq(CodeSet)
             /\ Reads(seq \o Coded(<<pre, code>>, k) \o Coded(Released(<<pre, code>>), NoKey), p, m,
                      none, d)
  <2>1. /\ seq \o Coded(<<pre, code>>, k) \o Coded(Released(<<pre, code>>), NoKey) \in Seq(CodeSet)
        /\ Reads(seq \o Coded(<<pre, code>>, k) \o Coded(Released(<<pre, code>>), NoKey), p, m, none,
                 ModiAfter(code, pre, d))
    BY <1>1, <1>2, <1>4, <1>5, StrokeBehind
  <2>. QED BY ONLY <1>3, <2>1
<1>. QED BY ONLY <1>1, <1>2, <1>4, <1>5, Make(key) = <<Prefix1, code>> DEF StrokeReads, Stroked

LEMMA StrokePlain ==
  ASSUME NEW seq \in Seq(CodeSet), NEW key \in Plain, key # "pause",
         down \subseteq Modifier, locked \subseteq Lock
  PROVE  StrokeReads(key, seq)
<1>1. PICK d : d = down \cup locked
  OBVIOUS
<1>2. /\ \A k \in {"SHIFT", "ctrl_left", "alt_right"} : k \in d <=> k \in down
      /\ \A k \in AllLocks : k \in d <=> k \in locked
  BY <1>1, HeldAndLocked
<1>3. CASE key = "a"
  <2>1. PICK code \in 1 .. 90 : code = 30
    OBVIOUS
  <2>2. Make(key) = <<code>> /\ (\A q : ModifierOf(code, q) = {}) /\ (\A q : LockOf(code, q) = {})
    BY <1>3, <2>1 DEF Make, ModifierOf, LockOf
  <2>3. Meant(key) = AsciiCode(code, 0, d)
    BY ONLY <1>2, <1>3, <2>1 DEF Meant, AsciiCode, Key, Prefix1, Alternate, Letters, Shifted, Normal,
       AllLocks
  <2>4. Meant(key) \in KeySet
    BY ONLY <1>3 DEF Meant, Key, KeySet
  <2>. QED BY <1>1, <2>2, <2>3, <2>4, PlainKey
<1>4. CASE key = "one"
  <2>1. PICK code \in 1 .. 90 : code = 2
    OBVIOUS
  <2>2. Make(key) = <<code>> /\ (\A q : ModifierOf(code, q) = {}) /\ (\A q : LockOf(code, q) = {})
    BY <1>4, <2>1 DEF Make, ModifierOf, LockOf
  <2>3. Meant(key) = AsciiCode(code, 0, d)
    BY ONLY <1>2, <1>4, <2>1 DEF Meant, AsciiCode, Key, Prefix1, Alternate, Letters, Shifted, Normal,
       AllLocks
  <2>4. Meant(key) \in KeySet
    BY ONLY <1>4 DEF Meant, Key, KeySet
  <2>. QED BY <1>1, <2>2, <2>3, <2>4, PlainKey
<1>5. CASE key = "seven"
  <2>1. PICK code \in 1 .. 90 : code = 71
    OBVIOUS
  <2>2. Make(key) = <<code>> /\ (\A q : ModifierOf(code, q) = {}) /\ (\A q : LockOf(code, q) = {})
    BY <1>5, <2>1 DEF Make, ModifierOf, LockOf
  <2>3. Meant(key) = AsciiCode(code, 0, d)
    BY ONLY <1>2, <1>5, <2>1 DEF Meant, AsciiCode, Key, Prefix1, Alternate, Letters, Shifted, Normal,
       AllLocks, Digit
  <2>4. Meant(key) \in KeySet
    BY ONLY <1>5 DEF Meant, Key, KeySet
  <2>. QED BY <1>1, <2>2, <2>3, <2>4, PlainKey
<1>6. CASE key = "home"
  <2>1. PICK code \in 1 .. 90 : code = 71
    OBVIOUS
  <2>2. /\ Make(key) = <<Prefix1, code>> /\ (\A q : ModifierOf(code, q) = {})
        /\ (\A q : LockOf(code, q) = {})
    BY <1>6, <2>1 DEF Make, ModifierOf, LockOf
  <2>3. Meant(key) = AsciiCode(code, Prefix1, d)
    BY ONLY <1>2, <1>6, <2>1 DEF Meant, AsciiCode, Key, Prefix1, Alternate, Letters, Shifted, Normal,
       AllLocks, Digit
  <2>4. Meant(key) \in KeySet
    BY ONLY <1>6 DEF Meant, Key, KeySet
  <2>. QED BY <1>1, <2>2, <2>3, <2>4, PrefixedKey
<1>7. CASE key = "divide"
  <2>1. PICK code \in 1 .. 90 : code = 53
    OBVIOUS
  <2>2. /\ Make(key) = <<Prefix1, code>> /\ (\A q : ModifierOf(code, q) = {})
        /\ (\A q : LockOf(code, q) = {})
    BY <1>7, <2>1 DEF Make, ModifierOf, LockOf
  <2>3. Meant(key) = AsciiCode(code, Prefix1, d)
    BY ONLY <1>2, <1>7, <2>1 DEF Meant, AsciiCode, Key
  <2>4. Meant(key) \in KeySet
    BY ONLY <1>7 DEF Meant, Key, KeySet
  <2>. QED BY <1>1, <2>2, <2>3, <2>4, PrefixedKey
<1>. QED BY <1>3, <1>4, <1>5, <1>6, <1>7, DecoderAssumption

LEMMA StrokePauseKey ==
  ASSUME NEW seq \in Seq(CodeSet), NEW key, key = "pause", "ctrl_left" \notin down,
         down \subseteq Modifier, locked \subseteq Lock
  PROVE  StrokeReads(key, seq)
<1>1. PICK none, d : none = 0 /\ d = down \cup locked
  OBVIOUS
<1>2. "ctrl_left" \notin d
  BY <1>1, HeldAndLocked
<1>3. Make(key) = <<Prefix2, 29, 69>> /\ Meant(key) = Key(NoAscii, 69) /\ LockedBy(key) = locked
  BY DecoderAssumption DEF Make, Meant, LockedBy
<1>4. ASSUME NEW p, NEW m, Reads(seq, p, m, none, d)
      PROVE  LET up == Released(<<Prefix2, 29, 69>>)
                 all == seq \o Coded(<<Prefix2, 29, 69>>, Key(NoAscii, 69)) \o Coded(up, NoKey)
             IN  all \in Seq(CodeSet) /\ Reads(all, p, m, none, d)
  BY ONLY <1>1, <1>2, <1>4, StrokePause, seq \in Seq(CodeSet)
<1>. QED BY ONLY <1>1, <1>3, <1>4 DEF StrokeReads, Stroked

\* A lock key turns its lock over; num lock does not while the left Ctrl is held.
LEMMA StrokeLock ==
  ASSUME NEW seq \in Seq(CodeSet), NEW key \in Lock, down \subseteq Modifier, locked \subseteq Lock
  PROVE  StrokeReads(key, seq)
<1>1. PICK none, d : none = 0 /\ d = down \cup locked
  OBVIOUS
<1>2. /\ "ctrl_left" \in d <=> "ctrl_left" \in down
      /\ key \in AllLocks /\ key \notin down
  BY <1>1, HeldAndLocked, DecoderAssumption DEF AllLocks
<1>3. \E code \in 1 .. 90 :
        /\ Make(key) = <<code>> /\ \A q : ModifierOf(code, q) = {}
        /\ \/ Meant(key) = NoKey /\ LockOf(code, d) = {key}
           \/ /\ LockOf(code, d) = {} /\ Meant(key) \in KeySet /\ Meant(key) # NoKey
              /\ Meant(key) = AsciiCode(code, none, d)
  <2>1. CASE key = "caps_lock"
    <3>1. PICK code \in 1 .. 90 : code = 58
      OBVIOUS
    <3>2. Make(key) = <<code>> /\ (\A q : ModifierOf(code, q) = {}) /\ LockOf(code, d) = {key}
      BY <2>1, <3>1 DEF Make, ModifierOf, LockOf
    <3>3. Meant(key) = NoKey
      BY <2>1 DEF Meant
    <3>. QED BY <3>2, <3>3
  <2>2. CASE key = "num_lock"
    <3>1. PICK code \in 1 .. 90 : code = 69
      OBVIOUS
    <3>2. Make(key) = <<code>> /\ (\A q : ModifierOf(code, q) = {})
      BY <2>2, <3>1 DEF Make, ModifierOf
    <3>3. LockOf(code, d) = IF "ctrl_left" \in down THEN {} ELSE {key}
      BY <1>2, <2>2, <3>1 DEF LockOf
    <3>4. Meant(key) = IF "ctrl_left" \in down THEN Key(NoAscii, 69) ELSE NoKey
      BY <2>2 DEF Meant
    <3>5. AsciiCode(code, none, d) = Key(NoAscii, 69)
      BY ONLY <1>1, <3>1 DEF AsciiCode, Prefix1, Normal, Shifted, Alternate, Letters, Key
    <3>6. Key(NoAscii, 69) # NoKey /\ Key(NoAscii, 69) \in KeySet
      BY DEF Key, NoKey, KeySet
    <3>. QED BY ONLY <3>2, <3>3, <3>4, <3>5, <3>6
  <2>. QED BY <1>2, <2>1, <2>2 DEF AllLocks
<1>4. PICK code \in 1 .. 90 :
        /\ Make(key) = <<code>> /\ \A q : ModifierOf(code, q) = {}
        /\ \/ Meant(key) = NoKey /\ LockOf(code, d) = {key}
           \/ /\ LockOf(code, d) = {} /\ Meant(key) \in KeySet /\ Meant(key) # NoKey
              /\ Meant(key) = AsciiCode(code, none, d)
  BY <1>3
<1>5. PICK k : k = Meant(key)
  OBVIOUS
<1>6. k \in KeySet /\ Completes(<<code, k>>, none, d) /\ ModiAfter(code, none, d) = down \cup LockedBy(key)
  <2>1. /\ ModiAfter(code, none, d) = Toggle(d \cup ModifierOf(code, none), LockOf(code, d))
        /\ (ModifierOf(code, none) # {} \/ LockOf(code, d) # {}) => Completes(<<code, NoKey>>, none, d)
        /\ (ModifierOf(code, none) = {} /\ LockOf(code, d) = {}) =>
               /\ ModiAfter(code, none, d) = d
               /\ Completes(<<code, AsciiCode(code, none, d)>>, none, d)
    BY MakeCode
  <2>2. CASE Meant(key) = NoKey /\ LockOf(code, d) = {key}
    <3>1. LockedBy(key) = Toggle(locked, {key})
      BY <2>2 DEF LockedBy
    <3>2. Toggle(d \cup {}, {key}) = down \cup Toggle(locked, {key})
      BY ONLY <1>1, <1>2 DEF Toggle
    <3>3. {key} # {}
      OBVIOUS
    <3>. QED BY ONLY <1>4, <1>5, <2>1, <2>2, <3>1, <3>2, <3>3, NoKeyIsKey
  <2>3. CASE /\ LockOf(code, d) = {} /\ Meant(key) \in KeySet /\ Meant(key) # NoKey
             /\ Meant(key) = AsciiCode(code, none, d)
    <3>1. LockedBy(key) = locked
      BY <2>3 DEF LockedBy
    <3>. QED BY ONLY <1>1, <1>4, <1>5, <2>1, <2>3, <3>1
  <2>. QED BY ONLY <1>4, <2>2, <2>3
<1>7. ASSUME NEW p, NEW m, Reads(seq, p, m, none, d)
      PROVE  /\ seq \o Coded(<<code>>, k) \o Coded(Released(<<code>>), NoKey) \in Seq(CodeSet)
             /\ Reads(seq \o Coded(<<code>>, k) \o Coded(Released(<<code>>), NoKey), p, m, none,
                      ModiAfter(code, none, d))
  BY <1>1, <1>4, <1>6, <1>7, StrokeCode
<1>. QED BY ONLY <1>1, <1>4, <1>5, <1>6, <1>7 DEF StrokeReads, Stroked

-----------------------------------------------------------------------------
\* A byte for the keyboard: its answer is no key, and it leaves the modifiers.
LEMMA AnswerRead ==
  ASSUME NEW seq \in Seq(CodeSet), NEW p, NEW m, NEW d, Reads(seq, p, m, 0, d),
         NEW answer \in {Ack, Resend}
  PROVE  /\ Append(seq, <<answer, NoKey>>) \in Seq(CodeSet)
         /\ Reads(Append(seq, <<answer, NoKey>>), p, m, 0, d)
<1>1. answer \in {250, 254}
  BY DEF Ack, Resend
<1>2. /\ answer \in Nat /\ ~ (answer < 128) /\ answer \notin {224, 225}
      /\ answer - 128 \notin {42, 56, 29}
  BY <1>1
<1>3. PrefixAfter(answer) = 0
  BY <1>2 DEF PrefixAfter, PrefixCodes, Prefix1, Prefix2
<1>4. ModiAfter(answer, 0, d) = d
  BY <1>2 DEF ModiAfter, PrefixCodes, Prefix1, Prefix2, BreakBit, Hit, ModifierOf
<1>5. Completes(<<answer, NoKey>>, 0, d)
  BY <1>2 DEF Completes, KeyAt, BreakBit
<1>6. PICK none, k : none = 0 /\ k = NoKey /\ k \in KeySet
  BY NoKeyIsKey
<1>7. /\ Append(seq, <<answer, k>>) \in Seq(CodeSet)
      /\ Reads(Append(seq, <<answer, k>>), p, m, PrefixAfter(answer), ModiAfter(answer, none, d))
  <2>1. Reads(seq, p, m, none, d) /\ Completes(<<answer, k>>, none, d)
    BY ONLY <1>5, <1>6, Reads(seq, p, m, 0, d)
  <2>. QED BY <1>2, <1>6, <2>1, ReadsCode
<1>. QED BY ONLY <1>3, <1>4, <1>6, <1>7

LEMMA DecoderInitInv == DecoderInit => DecoderInv
<1>. SUFFICES ASSUME DecoderInit PROVE DecoderInv
  OBVIOUS
<1>. USE DEF DecoderInit
<1>1. codes \in Seq(CodeSet) /\ down \subseteq Modifier /\ locked \subseteq Lock /\ ~ wrong
  OBVIOUS
<1>2. Reads(codes, prefix, modi, 0, down \cup locked)
  <2>1. down \cup locked = {}
    OBVIOUS
  <2>. QED BY <2>1, ReadsNoneYet
<1>3. leds = modi \cap AllLocks /\ Bytes /\ InStep
  BY DEF AllLocks, Bytes, InStep
<1>. QED BY <1>1, <1>2, <1>3 DEF DecoderInv

\* Typing leaves the decoder and the bytes of commands alone.
LEMMA TypingStep ==
  ASSUME DecoderInv, Quiet, down' \subseteq Modifier, locked' \subseteq Lock,
         codes' \in Seq(CodeSet), Reads(codes', prefix, modi, 0, down' \cup locked')
  PROVE  DecoderInv'
<1>1. UNCHANGED <<prefix, modi, leds, sending, setting, wrong, lamps, command, mixed>>
  BY DEF Quiet
<1>2. Bytes' /\ (leds = modi \cap AllLocks)' /\ (~ wrong)'
  BY <1>1 DEF DecoderInv, Bytes
<1>3. (~ mixed => InStep)'
  BY <1>1 DEF DecoderInv, InStep
<1>4. Reads(codes, prefix, modi, 0, down \cup locked)'
  BY <1>1
<1>. QED BY <1>2, <1>3, <1>4 DEF DecoderInv

LEMMA ModifierSteps ==
  ASSUME DecoderInv, NEW key \in Modifier
  PROVE  PressModifier(key) \/ ReleaseModifier(key) => DecoderInv'
<1>1. PICK none, d : none = 0 /\ d = down \cup locked
  OBVIOUS
<1>2. codes \in Seq(CodeSet) /\ Reads(codes, prefix, modi, none, d)
  BY <1>1 DEF DecoderInv
<1>3. key \in {"SHIFT", "ctrl_left", "ctrl_right", "alt_left", "alt_right"}
  BY DecoderAssumption
<1>4. /\ codes \o Coded(Make(key), NoKey) \in Seq(CodeSet)
      /\ Reads(codes \o Coded(Make(key), NoKey), prefix, modi, none, d \cup {key})
      /\ codes \o Coded(Released(Make(key)), NoKey) \in Seq(CodeSet)
      /\ Reads(codes \o Coded(Released(Make(key)), NoKey), prefix, modi, none, d \ {key})
  BY <1>1, <1>2, <1>3, TypeModifier
<1>5. ASSUME PressModifier(key) PROVE DecoderInv'
  <2>1. /\ Quiet /\ down' = down \cup {key} /\ locked' = locked
        /\ codes' = codes \o Coded(Make(key), NoKey)
    BY <1>5 DEF PressModifier, Type
  <2>2. down' \cup locked' = d \cup {key}
    BY ONLY <1>1, <2>1
  <2>3. down' \subseteq Modifier /\ locked' \subseteq Lock
    BY <2>1 DEF DecoderInv
  <2>4. codes' \in Seq(CodeSet) /\ Reads(codes', prefix, modi, 0, down' \cup locked')
    BY ONLY <1>1, <1>4, <2>1, <2>2
  <2>. QED BY <2>1, <2>3, <2>4, TypingStep
<1>6. ASSUME ReleaseModifier(key) PROVE DecoderInv'
  <2>1. /\ Quiet /\ down' = down \ {key} /\ locked' = locked
        /\ codes' = codes \o Coded(Released(Make(key)), NoKey)
    BY <1>6 DEF ReleaseModifier, Type
  <2>2. key \notin locked
    BY HeldAndLocked DEF DecoderInv
  <2>3. down' \cup locked' = d \ {key}
    BY ONLY <1>1, <2>1, <2>2
  <2>4. down' \subseteq Modifier /\ locked' \subseteq Lock
    BY <2>1 DEF DecoderInv
  <2>5. codes' \in Seq(CodeSet) /\ Reads(codes', prefix, modi, 0, down' \cup locked')
    BY ONLY <1>1, <1>4, <2>1, <2>3
  <2>. QED BY <2>1, <2>4, <2>5, TypingStep
<1>. QED BY <1>5, <1>6

LEMMA StrokeStep ==
  ASSUME DecoderInv, NEW key \in Lock \cup Plain, Stroke(key)
  PROVE  DecoderInv'
<1>1. /\ Quiet /\ (key = "pause" => "ctrl_left" \notin down) /\ down' = down
      /\ codes' = Stroked(key, codes) /\ locked' = LockedBy(key)
  BY DEF Stroke, Stroked, LockedBy
<1>2. codes \in Seq(CodeSet) /\ down \subseteq Modifier /\ locked \subseteq Lock
  BY DEF DecoderInv
<1>3. StrokeReads(key, codes)
  BY <1>1, <1>2, StrokeLock, StrokePlain, StrokePauseKey
<1>4. codes' \in Seq(CodeSet) /\ Reads(codes', prefix, modi, 0, down' \cup locked')
  <2>1. Reads(codes, prefix, modi, 0, down \cup locked)
    BY DEF DecoderInv
  <2>. QED BY ONLY <1>1, <1>3, <2>1 DEF StrokeReads
<1>5. down' \subseteq Modifier /\ locked' \subseteq Lock
  BY <1>1, <1>2 DEF LockedBy, Toggle
<1>. QED BY <1>1, <1>4, <1>5, TypingStep

\* The modifiers and locks that codes stand for, and how the locks are taken over.
LEMMA HitIs ==
  ASSUME NEW code, NEW pre, NEW mods
  PROVE  /\ ModifierOf(code, pre) \cap AllLocks = {}
         /\ LockOf(code, mods) \subseteq AllLocks
<1>1. ModifierOf(code, pre) \cap AllLocks = {}
  <2>1. ModifierOf(code, pre) \in {{"SHIFT"}, {"alt_right"}, {"alt_left"}, {"ctrl_right"}, {"ctrl_left"}, {}}
    BY DEF ModifierOf
  <2>. QED BY <2>1 DEF AllLocks
<1>2. LockOf(code, mods) \in {{"caps_lock"}, {"num_lock"}, {}}
  BY DEF LockOf
<1>. QED BY <1>1, <1>2 DEF AllLocks

\* What one code does: the decoder's state is the one of Reads, and leds has the locks.
LEMMA DecodeIs ==
  ASSUME Decode, NEW e, e = Head(codes), e[1] \in Nat, Completes(e, prefix, modi),
         ~ wrong, leds = modi \cap AllLocks
  PROVE  /\ codes' = Tail(codes) /\ UNCHANGED <<setting, keyboard, mixed>>
         /\ prefix' = PrefixAfter(e[1]) /\ modi' = ModiAfter(e[1], prefix, modi) /\ ~ wrong'
         /\ leds' = modi' \cap AllLocks
         /\ UNCHANGED <<leds, sending>> \/ sending' = <<"set_led", "leds">>
<1>1. PICK code, make, lock, mod, key :
        /\ code = e[1] /\ make = (code < BreakBit) /\ lock = HitLock(code, modi) /\ mod = Hit(code, prefix)
        /\ key = IF make /\ mod = {} /\ lock = {} THEN AsciiCode(code, prefix, modi) ELSE NoKey
  OBVIOUS
<1>2. /\ codes' = Tail(codes) /\ UNCHANGED <<setting, keyboard, mixed>>
      /\ \/ /\ code \in PrefixCodes /\ prefix' = code
            /\ UNCHANGED <<modi, leds, sending, wrong>>
         \/ /\ code \notin PrefixCodes /\ prefix' = 0
            /\ modi' = IF make THEN Toggle(modi \cup mod, lock) ELSE modi \ mod
            /\ IF lock = {} THEN UNCHANGED <<leds, sending>>
               ELSE /\ leds' = (leds \ lock) \cup (modi' \cap lock)
                    /\ sending' = <<"set_led", "leds">>
            /\ wrong' = (wrong \/ key # e[2])
  BY <1>1 DEF Decode, AfterCode, PrefixCodes, HitLock, Hit
<1>3. mod \cap AllLocks = {} /\ lock \subseteq AllLocks /\ (~ make => lock = {})
  BY <1>1, HitIs DEF HitLock, Hit
<1>4. CASE code \in PrefixCodes
  BY ONLY <1>1, <1>2, <1>4, ~ wrong, leds = modi \cap AllLocks DEF PrefixAfter, ModiAfter
<1>5. CASE code \notin PrefixCodes
  <2>1. key = e[2]
    BY ONLY <1>1, <1>5, Completes(e, prefix, modi) DEF Completes, KeyAt
  <2>2. /\ prefix' = PrefixAfter(code) /\ modi' = ModiAfter(code, prefix, modi) /\ ~ wrong'
    BY ONLY <1>1, <1>2, <1>5, <2>1, ~ wrong DEF PrefixAfter, ModiAfter
  <2>3. leds' = modi' \cap AllLocks
    <3>1. CASE lock = {}
      <4>1. Toggle(modi \cup mod, {}) = modi \cup mod
        BY ToggleNone
      <4>2. modi' \in {modi \cup mod, modi \ mod} /\ leds' = leds
        BY ONLY <1>2, <1>5, <3>1, <4>1
      <4>. QED BY ONLY <1>3, <4>2, leds = modi \cap AllLocks
    <3>2. CASE lock # {}
      <4>1. modi' = Toggle(modi \cup mod, lock) /\ leds' = (leds \ lock) \cup (modi' \cap lock)
        BY ONLY <1>2, <1>3, <1>5, <3>2
      <4>. QED BY ONLY <1>3, <4>1, leds = modi \cap AllLocks DEF Toggle
    <3>. QED BY <3>1, <3>2
  <2>. QED BY ONLY <1>1, <1>2, <1>5, <2>2, <2>3
<1>. QED BY <1>4, <1>5

LEMMA DecodeStep ==
  ASSUME DecoderInv, Decode
  PROVE  DecoderInv'
<1>1. PICK e, d : e = Head(codes) /\ d = down \cup locked
  OBVIOUS
<1>2. codes \in Seq(CodeSet) /\ codes # <<>> /\ Reads(codes, prefix, modi, 0, d) /\ sending = <<>>
  BY <1>1 DEF DecoderInv, Decode
<1>3. /\ Tail(codes) \in Seq(CodeSet) /\ e \in CodeSet /\ Completes(e, prefix, modi)
      /\ Reads(Tail(codes), PrefixAfter(e[1]), ModiAfter(e[1], prefix, modi), 0, d)
  BY <1>1, <1>2, ReadsOne
<1>4. e[1] \in Nat /\ ~ wrong /\ leds = modi \cap AllLocks
  BY <1>3 DEF DecoderInv, CodeSet
<1>5. /\ codes' = Tail(codes) /\ UNCHANGED <<setting, keyboard, mixed>>
      /\ prefix' = PrefixAfter(e[1]) /\ modi' = ModiAfter(e[1], prefix, modi) /\ ~ wrong'
      /\ leds' = modi' \cap AllLocks
      /\ UNCHANGED <<leds, sending>> \/ sending' = <<"set_led", "leds">>
  BY <1>1, <1>3, <1>4, DecodeIs
<1>6. codes' \in Seq(CodeSet) /\ Reads(codes', prefix', modi', 0, d)
  BY ONLY <1>3, <1>5
<1>7. UNCHANGED <<down, locked, lamps, command, setting, mixed>>
  BY <1>5 DEF keyboard
<1>8. Bytes' /\ (~ mixed => InStep)'
  <2>1. Bytes /\ (~ mixed => InStep)
    BY DEF DecoderInv
  <2>2. Bytes'
    BY ONLY <1>2, <1>5, <1>7, <2>1 DEF Bytes
  <2>3. CASE UNCHANGED <<leds, sending>>
    BY ONLY <1>7, <2>1, <2>2, <2>3 DEF InStep
  <2>4. CASE sending' = <<"set_led", "leds">>
    <3>1. sending' # <<"leds">> /\ sending' # <<>> /\ sending # <<"leds">>
      BY ONLY <1>2, <2>4
    <3>. QED BY ONLY <1>7, <2>1, <2>2, <2>4, <3>1 DEF InStep
  <2>. QED BY ONLY <1>5, <2>2, <2>3, <2>4
<1>. QED BY <1>1, <1>4, <1>5, <1>6, <1>7, <1>8 DEF DecoderInv

\* A byte that is received: the lamps follow leds when they are set in step.
LEMMA ReceiveStep ==
  ASSUME DecoderInv, NEW byte, Receive(byte), UNCHANGED <<prefix, modi, leds, wrong>>, Bytes',
         (~ mixed => InStep)'
  PROVE  DecoderInv'
<1>1. PICK answer \in {Ack, Resend} : codes' = Append(codes, <<answer, NoKey>>)
  BY DEF Receive
<1>2. UNCHANGED <<down, locked>>
  BY DEF Receive
<1>3. codes \in Seq(CodeSet) /\ Reads(codes, prefix, modi, 0, down \cup locked)
  BY DEF DecoderInv
<1>4. codes' \in Seq(CodeSet) /\ Reads(codes', prefix, modi, 0, down \cup locked)
  BY <1>1, <1>3, AnswerRead
<1>5. Reads(codes, prefix, modi, 0, down \cup locked)'
  BY ONLY <1>2, <1>4, UNCHANGED <<prefix, modi, leds, wrong>>
<1>. QED BY <1>2, <1>4, <1>5 DEF DecoderInv

LEMMA SendLedStep ==
  ASSUME DecoderInv, SendLed
  PROVE  DecoderInv'
<1>1. PICK byte : byte = Head(sending)
  OBVIOUS
<1>2. /\ sending # <<>> /\ Receive(byte) /\ sending' = Tail(sending)
      /\ mixed' = (mixed \/ Len(setting) = 1)
      /\ UNCHANGED <<prefix, modi, leds, setting, wrong>>
  BY <1>1 DEF SendLed
<1>3. Bytes /\ (~ mixed => InStep)
  BY DEF DecoderInv
<1>4. CASE sending = <<"set_led", "leds">>
  <2>1. byte = "set_led" /\ sending' = <<"leds">> /\ sending' # <<>>
    BY <1>1, <1>2, <1>4
  <2>2. Bytes'
    BY <1>2, <1>3, <2>1 DEF Bytes
  <2>3. command' = "set_led"
    BY <1>2, <2>1 DEF Receive, DataByte
  <2>4. (~ mixed => InStep)'
    <3>1. setting = <<"rate">> => Len(setting) = 1
      OBVIOUS
    <3>. QED BY ONLY <1>2, <2>1, <2>3, <3>1 DEF InStep
  <2>. QED BY <1>2, <2>2, <2>4, ReceiveStep
<1>5. CASE sending = <<"leds">>
  <2>1. byte = "leds" /\ sending' = <<>>
    BY <1>1, <1>2, <1>5
  <2>2. Bytes'
    BY <1>2, <1>3, <2>1 DEF Bytes
  <2>3. ~ mixed' => setting' # <<"rate">> /\ ~ mixed /\ command = "set_led"
    <3>1. setting = <<"rate">> => Len(setting) = 1
      OBVIOUS
    <3>. QED BY ONLY <1>2, <1>3, <1>5, <3>1 DEF InStep
  <2>4. command' = "none" /\ (command = "set_led" => lamps' = leds)
    BY <1>2, <2>1 DEF Receive, DataByte
  <2>5. (~ mixed => InStep)'
    <3>1. sending' # <<"leds">>
      BY ONLY <2>1
    <3>. QED BY ONLY <1>2, <2>3, <2>4, <3>1 DEF InStep
  <2>. QED BY <1>2, <2>2, <2>5, ReceiveStep
<1>. QED BY <1>2, <1>3, <1>4, <1>5 DEF Bytes

LEMMA SendRateStep ==
  ASSUME DecoderInv, SendRate
  PROVE  DecoderInv'
<1>1. PICK byte : byte = Head(setting)
  OBVIOUS
<1>2. /\ setting # <<>> /\ Receive(byte) /\ setting' = Tail(setting)
      /\ mixed' = (mixed \/ Len(sending) = 1)
      /\ UNCHANGED <<prefix, modi, leds, sending, wrong>>
  BY <1>1 DEF SendRate
<1>3. Bytes /\ (~ mixed => InStep)
  BY DEF DecoderInv
<1>4. CASE setting = <<"set_speed", "rate">>
  <2>1. byte = "set_speed" /\ setting' = <<"rate">>
    BY <1>1, <1>2, <1>4
  <2>2. Bytes'
    BY <1>2, <1>3, <2>1 DEF Bytes
  <2>3. command' = "set_speed" /\ lamps' = lamps
    BY <1>2, <2>1 DEF Receive, DataByte
  <2>4. ~ mixed' => sending' # <<"leds">> /\ ~ mixed
    <3>1. sending = <<"leds">> => Len(sending) = 1
      OBVIOUS
    <3>. QED BY ONLY <1>2, <3>1
  <2>5. (~ mixed => InStep)'
    <3>1. sending = <<>> => lamps = leds \/ mixed
      BY ONLY <1>3 DEF InStep
    <3>. QED BY ONLY <1>2, <2>1, <2>3, <2>4, <3>1 DEF InStep
  <2>. QED BY <1>2, <2>2, <2>5, ReceiveStep
<1>5. CASE setting = <<"rate">>
  <2>1. byte = "rate" /\ setting' = <<>>
    BY <1>1, <1>2, <1>5
  <2>2. Bytes'
    BY <1>2, <1>3, <2>1 DEF Bytes
  <2>3. ~ mixed' => sending' # <<"leds">> /\ ~ mixed /\ command = "set_speed"
    <3>1. sending = <<"leds">> => Len(sending) = 1
      OBVIOUS
    <3>. QED BY ONLY <1>2, <1>3, <1>5, <3>1 DEF InStep
  <2>4. command' = "none" /\ (command = "set_speed" => lamps' = lamps)
    BY <1>2, <2>1 DEF Receive, DataByte
  <2>5. (~ mixed => InStep)'
    BY <1>2, <1>3, <2>1, <2>3, <2>4 DEF InStep
  <2>. QED BY <1>2, <2>2, <2>5, ReceiveStep
<1>. QED BY <1>2, <1>3, <1>4, <1>5 DEF Bytes

LEMMA SetRateStep ==
  ASSUME DecoderInv, SetRate
  PROVE  DecoderInv'
<1>1. UNCHANGED <<codes, prefix, modi, leds, sending, wrong, down, locked, lamps, command, mixed>>
  BY DEF SetRate, keyboard
<1>2. Bytes' /\ (~ mixed => InStep)'
  BY <1>1 DEF DecoderInv, Bytes, InStep, SetRate
<1>. QED BY <1>1, <1>2 DEF DecoderInv

LEMMA DecoderNextInv == DecoderInv /\ [DecoderNext]_dvars => DecoderInv'
<1>. SUFFICES ASSUME DecoderInv, [DecoderNext]_dvars PROVE DecoderInv'
  OBVIOUS
<1>1. ASSUME NEW key \in Modifier, PressModifier(key) \/ ReleaseModifier(key) PROVE DecoderInv'
  BY <1>1, ModifierSteps
<1>2. ASSUME NEW key \in Lock \cup Plain, Stroke(key) PROVE DecoderInv'
  BY <1>2, StrokeStep
<1>3. CASE Decode
  BY <1>3, DecodeStep
<1>4. CASE SendLed
  BY <1>4, SendLedStep
<1>5. CASE SetRate
  BY <1>5, SetRateStep
<1>6. CASE SendRate
  BY <1>6, SendRateStep
<1>7. CASE UNCHANGED dvars
  BY <1>7 DEF dvars, DecoderInv, Bytes, InStep
<1>. QED BY <1>1, <1>2, <1>3, <1>4, <1>5, <1>6, <1>7 DEF DecoderNext

LEMMA DecoderInvIsMeant ==
  ASSUME DecoderInv
  PROVE  KeysAreMeant
<1>1. ~ wrong
  BY DEF DecoderInv
<1>2. ASSUME codes = <<>>
      PROVE  /\ modi = down \cup locked /\ prefix = 0
             /\ (sending = <<>> /\ setting = <<>> /\ ~ mixed) => lamps = locked
  <2>1. prefix = 0 /\ modi = down \cup locked
    BY <1>2, ReadsNone DEF DecoderInv
  <2>2. leds = locked
    BY <2>1, HeldAndLocked DEF DecoderInv
  <2>3. (sending = <<>> /\ setting = <<>> /\ ~ mixed) => lamps = leds
    BY DEF DecoderInv, InStep
  <2>. QED BY <2>1, <2>2, <2>3
<1>. QED BY <1>1, <1>2 DEF KeysAreMeant

\* Whatever keys are used, held and locked in any number and order, answers of the
\* keyboard in between: every stroke is decoded as the key that it is, and when all
\* codes have been read the decoder agrees with what is held, and the lamps with
\* the locks (decode(), set_led(), set_repeat_rate()).
THEOREM KeysAreMeantAlways == DecoderSpec => []KeysAreMeant
<1>1. DecoderInit => DecoderInv
  BY DecoderInitInv
<1>2. DecoderInv /\ [DecoderNext]_dvars => DecoderInv'
  BY DecoderNextInv
<1>3. DecoderInv => KeysAreMeant
  BY DecoderInvIsMeant
<1>. QED BY <1>1, <1>2, <1>3, PTL DEF DecoderSpec

-----------------------------------------------------------------------------
(* The time                                                                *)

DateSet == [century : 0 .. 99, year : 0 .. 99, month : 1 .. 12, day : 1 .. 31, hour : 0 .. 23,
            minute : 0 .. 59, second : 0 .. 59, weekday : 1 .. 7]
Legal(d) == d \in DateSet /\ d.day \in 1 .. Days(d.month, d.year, d.century)

\* Days before a year, and before a month of a year that starts with March
YearDays(y) == 365 * y + y \div 4 - y \div 100 + y \div 400
MonthDays(month) == (153 * ((month + 9) % 12) + 2) \div 5
YearOf(d) == 100 * d.century + d.year - (IF d.month <= 2 THEN 1 ELSE 0)
Leap(year, century) == year % 4 = 0 /\ (year # 0 \/ century % 4 = 0)

-----------------------------------------------------------------------------
LEMMA DayNumberIs ==
  ASSUME NEW d
  PROVE  DayNumber(d) = YearDays(YearOf(d)) + MonthDays(d.month) + d.day - 1
  BY DEF DayNumber, YearDays, YearOf, MonthDays

LEMMA QuotientStep ==
  ASSUME NEW y \in Int
  PROVE  /\ y \div 4 - (y - 1) \div 4 = IF y % 4 = 0 THEN 1 ELSE 0
         /\ y \div 100 - (y - 1) \div 100 = IF y % 100 = 0 THEN 1 ELSE 0
         /\ y \div 400 - (y - 1) \div 400 = IF y % 400 = 0 THEN 1 ELSE 0
  OBVIOUS

YearIs(y, year, century) == year \in 0 .. 99 /\ century \in Nat /\ y = 100 * century + year

LEMMA YearRests ==
  ASSUME NEW year, NEW century, NEW y, YearIs(y, year, century)
  PROVE  /\ y % 4 = year % 4 /\ (y % 100 = 0 <=> year = 0)
         /\ (y % 400 = 0 <=> year = 0 /\ century % 4 = 0)
<1>. year \in 0 .. 99 /\ century \in Nat /\ y = 100 * century + year
  BY DEF YearIs
<1>1. y % 4 = year % 4
  OBVIOUS
<1>2. y % 100 = 0 <=> year = 0
  OBVIOUS
<1>3. PICK q \in Nat, r \in 0 .. 3 : century = 4 * q + r /\ r = (century % 4)
  <2>1. century \div 4 \in Nat /\ century % 4 \in 0 .. 3
        /\ century = 4 * (century \div 4) + (century % 4)
    OBVIOUS
  <2>. QED BY ONLY <2>1
<1>4. y = 400 * q + (100 * r + year) /\ 100 * r + year \in 0 .. 399
  <2>1. century = 4 * q + r /\ q \in Int /\ r \in Int /\ year \in Int
    BY ONLY <1>3, q \in Nat, r \in 0 .. 3, year \in 0 .. 99
  <2>2. y = 100 * (4 * q + r) + year
    BY ONLY <2>1, y = 100 * century + year
  <2>3. y = 400 * q + (100 * r + year)
    BY ONLY <2>1, <2>2
  <2>4. 100 * r + year \in 0 .. 399
    BY ONLY r \in 0 .. 3, year \in 0 .. 99
  <2>. QED BY ONLY <2>3, <2>4
<1>5. PICK z : z = 100 * r + year
  OBVIOUS
<1>6. y % 400 = z
  BY ONLY <1>4, <1>5, q \in Nat
<1>7. z = 0 <=> year = 0 /\ r = 0
  BY ONLY <1>5, r \in 0 .. 3, year \in 0 .. 99
<1>. QED BY ONLY <1>1, <1>2, <1>3, <1>6, <1>7

\* A year has 366 days, from March to the end of February, when it ends with a leap day.
LEMMA YearStep ==
  ASSUME NEW year, NEW century, NEW y, YearIs(y, year, century)
  PROVE  /\ YearDays(y) = YearDays(y - 1) + 365 + IF Leap(year, century) THEN 1 ELSE 0
         /\ YearDays(y) \in Int /\ YearDays(y - 1) \in Int
<1>1. y \in Int /\ y - 1 \in Int
  BY DEF YearIs
<1>2. /\ y % 4 = year % 4 /\ (y % 100 = 0 <=> year = 0)
      /\ (y % 400 = 0 <=> year = 0 /\ century % 4 = 0)
  BY ONLY YearRests, YearIs(y, year, century)
<1>3. PICK a, b, c, a1, b1, c1 :
        /\ a = y \div 4 /\ b = y \div 100 /\ c = y \div 400
        /\ a1 = (y - 1) \div 4 /\ b1 = (y - 1) \div 100 /\ c1 = (y - 1) \div 400
  OBVIOUS
<1>4. a \in Int /\ b \in Int /\ c \in Int /\ a1 \in Int /\ b1 \in Int /\ c1 \in Int
  BY <1>1, <1>3
<1>5. /\ a - a1 = IF y % 4 = 0 THEN 1 ELSE 0
      /\ b - b1 = IF y % 100 = 0 THEN 1 ELSE 0
      /\ c - c1 = IF y % 400 = 0 THEN 1 ELSE 0
  BY ONLY <1>1, <1>3, QuotientStep
<1>6. YearDays(y) = 365 * y + a - b + c /\ YearDays(y - 1) = 365 * (y - 1) + a1 - b1 + c1
  BY <1>3 DEF YearDays
<1>7. /\ a - a1 = IF year % 4 = 0 THEN 1 ELSE 0
      /\ b - b1 = IF year = 0 THEN 1 ELSE 0
      /\ c - c1 = IF year = 0 /\ century % 4 = 0 THEN 1 ELSE 0
      /\ year = 0 => year % 4 = 0
  BY <1>2, <1>5
<1>. QED BY ONLY <1>1, <1>4, <1>6, <1>7 DEF Leap

LEMMA MonthIs ==
  ASSUME NEW month \in 1 .. 12
  PROVE  MonthDays(month) =
           CASE month = 1 -> 306 [] month = 2 -> 337 [] month = 3 -> 0 [] month = 4 -> 31
             [] month = 5 -> 61 [] month = 6 -> 92 [] month = 7 -> 122 [] month = 8 -> 153
             [] month = 9 -> 184 [] month = 10 -> 214 [] month = 11 -> 245 [] month = 12 -> 275
<1>1. CASE month = 1
  BY <1>1 DEF MonthDays
<1>2. CASE month = 2
  BY <1>2 DEF MonthDays
<1>3. CASE month = 3
  BY <1>3 DEF MonthDays
<1>4. CASE month = 4
  BY <1>4 DEF MonthDays
<1>5. CASE month = 5
  BY <1>5 DEF MonthDays
<1>6. CASE month = 6
  BY <1>6 DEF MonthDays
<1>7. CASE month = 7
  BY <1>7 DEF MonthDays
<1>8. CASE month = 8
  BY <1>8 DEF MonthDays
<1>9. CASE month = 9
  BY <1>9 DEF MonthDays
<1>10. CASE month = 10
  BY <1>10 DEF MonthDays
<1>11. CASE month = 11
  BY <1>11 DEF MonthDays
<1>12. CASE month = 12
  BY <1>12 DEF MonthDays
<1>. QED BY <1>1, <1>2, <1>3, <1>4, <1>5, <1>6, <1>7, <1>8, <1>9, <1>10, <1>11, <1>12

\* The days of a month, and how far it is to the next one's.
LEMMA DaysIs ==
  ASSUME NEW month \in 1 .. 12, NEW year \in 0 .. 99, NEW century \in Nat
  PROVE  /\ Days(month, year, century) \in 28 .. 31
         /\ month = 2 => Days(month, year, century) = 28 + IF Leap(year, century) THEN 1 ELSE 0
         /\ month = 12 => Days(month, year, century) = 31
         /\ month # 2 => Days(month, year, century) = DaysPerMonth[month]
<1>1. PICK D : D = Days(month, year, century)
  OBVIOUS
<1>2. D = IF month = 2 THEN 28 + (IF Leap(year, century) THEN 1 ELSE 0) ELSE DaysPerMonth[month]
  BY <1>1 DEF Days, Leap, DaysPerMonth
<1>3. month # 2 => DaysPerMonth[month] = IF month \in {4, 6, 9, 11} THEN 30 ELSE 31
  BY DEF DaysPerMonth
<1>. QED BY ONLY <1>1, <1>2, <1>3

LEMMA DaysBound ==
  ASSUME NEW month \in 1 .. 12, NEW year \in 0 .. 99, NEW century \in Nat
  PROVE  Days(month, year, century) \in 28 .. 31
  BY ONLY DaysIs, month \in 1 .. 12, year \in 0 .. 99, century \in Nat

LEMMA DaysOfFebruary ==
  ASSUME NEW month \in 1 .. 12, NEW year \in 0 .. 99, NEW century \in Nat
  PROVE  month = 2 => Days(month, year, century) = 28 + IF Leap(year, century) THEN 1 ELSE 0
  BY ONLY DaysIs, month \in 1 .. 12, year \in 0 .. 99, century \in Nat

LEMMA DaysOfOthers ==
  ASSUME NEW month \in 1 .. 12, NEW year \in 0 .. 99, NEW century \in Nat
  PROVE  month # 2 => Days(month, year, century) = DaysPerMonth[month]
  BY DEF Days

LEMMA DaysOfDecember ==
  ASSUME NEW month \in 1 .. 12, NEW year \in 0 .. 99, NEW century \in Nat
  PROVE  month = 12 => Days(month, year, century) = 31
<1>1. month # 2 => Days(month, year, century) = DaysPerMonth[month]
  BY DEF Days
<1>2. month = 12 => DaysPerMonth[month] = 31
  BY DEF DaysPerMonth
<1>. QED BY ONLY <1>1, <1>2

LEMMA MonthStep ==
  ASSUME NEW month \in 1 .. 12, month \notin {2, 12}
  PROVE  MonthDays(month + 1) = MonthDays(month) + DaysPerMonth[month]
<1>1. PICK next \in 1 .. 12 : next = month + 1
  OBVIOUS
<1>2. DaysPerMonth[month] = IF month \in {4, 6, 9, 11} THEN 30 ELSE 31
  BY DEF DaysPerMonth
<1>3. MonthDays(next) = MonthDays(month) + DaysPerMonth[month]
  BY <1>1, <1>2, MonthIs
<1>. QED BY <1>1, <1>3

LEMMA MonthEnds ==
  /\ MonthDays(2) = 337 /\ MonthDays(3) = 0 /\ MonthDays(1) = MonthDays(12) + 31
  /\ \A month \in 1 .. 12 : MonthDays(month) \in Int
<1>1. \A month \in 1 .. 12 : MonthDays(month) \in Int
  BY DEF MonthDays
<1>. QED BY <1>1, MonthIs

\* What the next day's date is
LEMMA DayAfterFields ==
  ASSUME NEW d, Legal(d), NEW r, r = DayAfter(d)
  PROVE  /\ r \in DateSet /\ r.weekday = (d.weekday % 7) + 1
         /\ r.hour = d.hour /\ r.minute = d.minute /\ r.second = d.second
         /\ LET last == d.day = Days(d.month, d.year, d.century) IN
            /\ ~ last => /\ r.day = d.day + 1 /\ r.month = d.month /\ r.year = d.year
                         /\ r.century = d.century
            /\ last /\ d.month # 12 => /\ r.day = 1 /\ r.month = d.month + 1 /\ r.year = d.year
                                      /\ r.century = d.century
            /\ last /\ d.month = 12 =>
                 /\ r.day = 1 /\ r.month = 1
                 /\ IF d.year = 99 THEN r.year = 0 /\ r.century = (d.century + 1) % 100
                    ELSE r.year = d.year + 1 /\ r.century = d.century
<1>1. PICK last, year :
        /\ last = (d.day = Days(d.month, d.year, d.century))
        /\ year = IF last /\ d.month = 12 THEN (d.year + 1) % 100 ELSE d.year
  OBVIOUS
<1>2. r = [d EXCEPT !.weekday = (d.weekday % 7) + 1,
                    !.day = IF last THEN 1 ELSE @ + 1,
                    !.month = IF last THEN (@ % 12) + 1 ELSE @,
                    !.year = year,
                    !.century = IF last /\ d.month = 12 /\ year = 0 THEN (@ + 1) % 100 ELSE @]
  BY <1>1 DEF DayAfter
<1>3. /\ d.century \in 0 .. 99 /\ d.year \in 0 .. 99 /\ d.month \in 1 .. 12 /\ d.day \in 1 .. 31
      /\ d.hour \in 0 .. 23 /\ d.minute \in 0 .. 59 /\ d.second \in 0 .. 59 /\ d.weekday \in 1 .. 7
      /\ d \in DateSet /\ d.day <= Days(d.month, d.year, d.century)
      /\ Days(d.month, d.year, d.century) \in 28 .. 31
  <2>1. /\ d.century \in 0 .. 99 /\ d.year \in 0 .. 99 /\ d.month \in 1 .. 12 /\ d.day \in 1 .. 31
        /\ d.hour \in 0 .. 23 /\ d.minute \in 0 .. 59 /\ d.second \in 0 .. 59 /\ d.weekday \in 1 .. 7
        /\ d \in DateSet
    BY DEF Legal, DateSet
  <2>2. Days(d.month, d.year, d.century) \in 28 .. 31
    <3>1. d.century \in Nat /\ d.year \in 0 .. 99 /\ d.month \in 1 .. 12
      BY ONLY <2>1
    <3>. QED BY ONLY <3>1, DaysBound
  <2>. QED BY ONLY <2>1, <2>2, Legal(d) DEF Legal
<1>4. /\ r.weekday = (d.weekday % 7) + 1 /\ r.day = (IF last THEN 1 ELSE d.day + 1)
      /\ r.month = (IF last THEN (d.month % 12) + 1 ELSE d.month) /\ r.year = year
      /\ r.century = IF last /\ d.month = 12 /\ year = 0 THEN (d.century + 1) % 100 ELSE d.century
      /\ r.hour = d.hour /\ r.minute = d.minute /\ r.second = d.second
  BY ONLY <1>2, <1>3 DEF DateSet
<1>5. /\ r.weekday \in 1 .. 7 /\ r.day \in 1 .. 31 /\ r.month \in 1 .. 12 /\ r.year \in 0 .. 99
      /\ r.century \in 0 .. 99
  <2>1. last => d.day = Days(d.month, d.year, d.century)
    BY <1>1
  <2>2. ~ last => d.day < 31
    <3>1. PICK D : D = Days(d.month, d.year, d.century)
      OBVIOUS
    <3>2. D \in 28 .. 31 /\ d.day <= D /\ (~ last => d.day # D)
      BY ONLY <1>1, <1>3, <3>1
    <3>. QED BY ONLY <1>3, <3>2
  <2>3. r.weekday \in 1 .. 7 /\ r.day \in 1 .. 31
    BY ONLY <1>3, <1>4, <2>2
  <2>4. r.month \in 1 .. 12 /\ r.year \in 0 .. 99
    BY ONLY <1>1, <1>3, <1>4
  <2>5. r.century \in 0 .. 99
    BY ONLY <1>3, <1>4
  <2>. QED BY ONLY <2>3, <2>4, <2>5
<1>6. r \in DateSet
  <2>1. r = [century |-> r.century, year |-> r.year, month |-> r.month, day |-> r.day,
             hour |-> r.hour, minute |-> r.minute, second |-> r.second, weekday |-> r.weekday]
    BY ONLY <1>2, <1>3 DEF DateSet
  <2>. QED BY ONLY <1>3, <1>4, <1>5, <2>1 DEF DateSet
<1>7. /\ ~ last => r.day = d.day + 1 /\ r.month = d.month /\ r.year = d.year /\ r.century = d.century
      /\ last /\ d.month # 12 => /\ r.day = 1 /\ r.month = d.month + 1 /\ r.year = d.year
                                /\ r.century = d.century
  BY ONLY <1>1, <1>3, <1>4
<1>8. last /\ d.month = 12 =>
         /\ r.day = 1 /\ r.month = 1
         /\ IF d.year = 99 THEN r.year = 0 /\ r.century = (d.century + 1) % 100
            ELSE r.year = d.year + 1 /\ r.century = d.century
  BY ONLY <1>1, <1>3, <1>4
<1>. QED BY ONLY <1>1, <1>4, <1>6, <1>7, <1>8

\* The next day has the next number, and is legal.
LEMMA DayAfterIs ==
  ASSUME NEW d, Legal(d), NEW r, r = DayAfter(d), r.century \in {d.century, d.century + 1}
  PROVE  /\ Legal(r) /\ DayNumber(r) = DayNumber(d) + 1
         /\ r.weekday = (d.weekday % 7) + 1
         /\ r.hour = d.hour /\ r.minute = d.minute /\ r.second = d.second
<1>1. PICK D : D = Days(d.month, d.year, d.century)
  OBVIOUS
<1>2. /\ r \in DateSet /\ r.weekday = (d.weekday % 7) + 1
      /\ r.hour = d.hour /\ r.minute = d.minute /\ r.second = d.second
      /\ d.day # D => /\ r.day = d.day + 1 /\ r.month = d.month /\ r.year = d.year
                      /\ r.century = d.century
      /\ d.day = D /\ d.month # 12 => /\ r.day = 1 /\ r.month = d.month + 1 /\ r.year = d.year
                                     /\ r.century = d.century
      /\ d.day = D /\ d.month = 12 =>
           /\ r.day = 1 /\ r.month = 1
           /\ IF d.year = 99 THEN r.year = 0 /\ r.century = (d.century + 1) % 100
              ELSE r.year = d.year + 1 /\ r.century = d.century
  BY <1>1, DayAfterFields
<1>3. /\ d.century \in Nat /\ d.year \in 0 .. 99 /\ d.month \in 1 .. 12 /\ d.day \in 1 .. D
      /\ r.century \in Nat /\ r.year \in 0 .. 99 /\ r.month \in 1 .. 12
  BY <1>1, <1>2 DEF Legal, DateSet
<1>4. D \in 28 .. 31 /\ Days(r.month, r.year, r.century) \in 28 .. 31
  BY ONLY <1>1, <1>3, DaysBound
<1>5. r.day \in 1 .. Days(r.month, r.year, r.century)
  BY ONLY <1>1, <1>2, <1>3, <1>4
<1>6. PICK y, y2, m, m2, Y, Y2 :
        /\ y = YearOf(d) /\ y2 = YearOf(r) /\ m = MonthDays(d.month) /\ m2 = MonthDays(r.month)
        /\ Y = YearDays(y) /\ Y2 = YearDays(y2)
  OBVIOUS
<1>7. DayNumber(d) = Y + m + d.day - 1 /\ DayNumber(r) = Y2 + m2 + r.day - 1
  BY ONLY <1>6, DayNumberIs
<1>8. Y \in Int /\ Y2 \in Int /\ m \in Int /\ m2 \in Int
  <2>1. m \in Int /\ m2 \in Int
    BY ONLY <1>3, <1>6, MonthEnds
  <2>2. y \in Int /\ y2 \in Int
    BY ONLY <1>3, <1>6 DEF YearOf
  <2>. QED BY ONLY <1>6, <2>1, <2>2 DEF YearDays
<1>9. CASE d.day # D
  <2>1. y2 = y /\ m2 = m /\ r.day = d.day + 1
    BY ONLY <1>2, <1>6, <1>9 DEF YearOf
  <2>2. DayNumber(r) = DayNumber(d) + 1
    BY ONLY <1>3, <1>4, <1>6, <1>7, <1>8, <2>1
  <2>. QED BY ONLY <1>2, <1>5, <2>2 DEF Legal
<1>10. CASE d.day = D /\ d.month \notin {2, 12}
  <2>1. m2 = m + D
    <3>1. D = DaysPerMonth[d.month]
      BY ONLY <1>1, <1>3, <1>10, DaysOfOthers
    <3>2. r.month = d.month + 1
      BY ONLY <1>2, <1>10
    <3>. QED BY ONLY <1>3, <1>6, <1>10, <3>1, <3>2, MonthStep
  <2>2. y2 = y /\ r.day = 1
    BY ONLY <1>2, <1>3, <1>6, <1>10 DEF YearOf
  <2>3. DayNumber(r) = DayNumber(d) + 1
    BY ONLY <1>4, <1>6, <1>7, <1>8, <1>10, <2>1, <2>2
  <2>. QED BY ONLY <1>2, <1>5, <2>3 DEF Legal
<1>11. CASE d.day = D /\ d.month = 2
  <2>1. m = 337 /\ m2 = 0 /\ D = 28 + IF Leap(d.year, d.century) THEN 1 ELSE 0
    <3>1. D = 28 + IF Leap(d.year, d.century) THEN 1 ELSE 0
      BY ONLY <1>1, <1>3, <1>11, DaysOfFebruary
    <3>2. r.month = 3
      BY ONLY <1>2, <1>11
    <3>. QED BY ONLY <1>6, <1>11, <3>1, <3>2, MonthEnds
  <2>2. y2 = 100 * d.century + d.year /\ y = y2 - 1 /\ r.day = 1
    BY ONLY <1>2, <1>3, <1>6, <1>11 DEF YearOf
  <2>3. Y2 = Y + 365 + IF Leap(d.year, d.century) THEN 1 ELSE 0
    <3>1. YearIs(y2, d.year, d.century)
      BY ONLY <1>3, <2>2 DEF YearIs
    <3>2. YearDays(y2) = YearDays(y2 - 1) + 365 + IF Leap(d.year, d.century) THEN 1 ELSE 0
      BY ONLY <3>1, YearStep
    <3>. QED BY ONLY <1>6, <2>2, <3>2
  <2>4. DayNumber(r) = DayNumber(d) + 1
    BY ONLY <1>4, <1>7, <1>8, <1>11, <2>1, <2>2, <2>3
  <2>. QED BY ONLY <1>2, <1>5, <2>4 DEF Legal
<1>12. CASE d.day = D /\ d.month = 12
  <2>1. m2 = m + 31 /\ D = 31
    <3>1. D = 31
      BY ONLY <1>1, <1>3, <1>12, DaysOfDecember
    <3>. QED BY ONLY <1>2, <1>6, <1>12, <3>1, MonthEnds
  <2>2. y2 = y /\ r.day = 1
    <3>1. 100 * r.century + r.year = 100 * d.century + d.year + 1
      BY ONLY <1>2, <1>3, <1>12, r.century \in {d.century, d.century + 1}
    <3>. QED BY ONLY <1>2, <1>3, <1>6, <1>12, <3>1 DEF YearOf
  <2>3. DayNumber(r) = DayNumber(d) + 1
    BY ONLY <1>6, <1>7, <1>8, <1>12, <2>1, <2>2
  <2>. QED BY ONLY <1>2, <1>5, <2>3 DEF Legal
<1>. QED BY <1>9, <1>10, <1>11, <1>12

-----------------------------------------------------------------------------
\* The day before has the number before, and is legal.
LEMMA DayBeforeFields ==
  ASSUME NEW d, Legal(d), NEW r, r = DayBefore(d), r.century \in {d.century, d.century - 1}
  PROVE  /\ r \in DateSet /\ r.weekday = (IF d.weekday = 1 THEN 7 ELSE d.weekday - 1)
         /\ r.hour = d.hour /\ r.minute = d.minute /\ r.second = d.second
         /\ d.day # 1 => /\ r.day = d.day - 1 /\ r.month = d.month /\ r.year = d.year
                         /\ r.century = d.century
         /\ d.day = 1 /\ d.month # 1 =>
              /\ r.month = d.month - 1 /\ r.year = d.year /\ r.century = d.century
              /\ r.day = Days(r.month, r.year, r.century)
         /\ d.day = 1 /\ d.month = 1 =>
              /\ r.month = 12 /\ r.day = 31
              /\ IF d.year = 0 THEN r.year = 99 /\ r.century = (d.century - 1) % 65536
                 ELSE r.year = d.year - 1 /\ r.century = d.century
<1>1. PICK month, year, weekday, days :
        /\ month = IF d.month = 1 THEN 12 ELSE d.month - 1
        /\ year = IF d.year = 0 THEN 99 ELSE d.year - 1
        /\ weekday = IF d.weekday = 1 THEN 7 ELSE d.weekday - 1
        /\ days = Days(month, d.year, d.century)
  OBVIOUS
<1>2. r = IF d.day # 1 THEN [d EXCEPT !.weekday = weekday, !.day = @ - 1]
          ELSE IF month # 12 THEN [d EXCEPT !.weekday = weekday, !.month = month, !.day = days]
          ELSE [d EXCEPT !.weekday = weekday, !.month = month, !.day = days, !.year = year,
                         !.century = IF year = 99 THEN (@ - 1) % 65536 ELSE @]
  BY <1>1 DEF DayBefore
<1>3. /\ d.century \in 0 .. 99 /\ d.year \in 0 .. 99 /\ d.month \in 1 .. 12 /\ d.day \in 1 .. 31
      /\ d.hour \in 0 .. 23 /\ d.minute \in 0 .. 59 /\ d.second \in 0 .. 59 /\ d.weekday \in 1 .. 7
      /\ d \in DateSet
  BY DEF Legal, DateSet
<1>4. /\ month \in 1 .. 12 /\ year \in 0 .. 99 /\ weekday \in 1 .. 7 
      /\ (month = 12 <=> d.month = 1)
  BY ONLY <1>1, <1>3
<1>5. days \in 28 .. 31 /\ (month = 12 => days = 31)
  <2>1. /\ Days(month, d.year, d.century) \in 28 .. 31
        /\ month = 12 => Days(month, d.year, d.century) = 31
    <3>1. PICK y, c : y = d.year /\ c = d.century
      OBVIOUS
    <3>2. month \in 1 .. 12 /\ y \in 0 .. 99 /\ c \in Nat
      BY ONLY <1>3, <1>4, <3>1
    <3>3. Days(month, y, c) \in 28 .. 31
      BY ONLY <3>2, DaysBound
    <3>4. month = 12 => Days(month, y, c) = 31
      BY ONLY <3>2, DaysOfDecember
    <3>. QED BY ONLY <3>1, <3>3, <3>4
  <2>2. days = Days(month, d.year, d.century)
    BY <1>1
  <2>. QED BY ONLY <2>1, <2>2
<1>6. CASE d.day # 1
  <2>1. r = [d EXCEPT !.weekday = weekday, !.day = @ - 1]
    BY ONLY <1>2, <1>6
  <2>2. d.day - 1 \in 1 .. 31
    BY ONLY <1>3, <1>6
  <2>3. r \in DateSet
    <3>1. r = [century |-> d.century, year |-> d.year, month |-> d.month, day |-> d.day - 1,
               hour |-> d.hour, minute |-> d.minute, second |-> d.second, weekday |-> weekday]
      BY ONLY <1>3, <2>1 DEF DateSet
    <3>. QED BY ONLY <1>3, <1>4, <2>2, <3>1 DEF DateSet
  <2>4. /\ r.weekday = weekday /\ r.day = d.day - 1 /\ r.month = d.month /\ r.year = d.year
        /\ r.century = d.century /\ r.hour = d.hour /\ r.minute = d.minute /\ r.second = d.second
    BY ONLY <1>3, <2>1 DEF DateSet
  <2>. QED BY ONLY <1>1, <1>6, <2>3, <2>4
<1>7. CASE d.day = 1 /\ month # 12
  <2>1. r = [d EXCEPT !.weekday = weekday, !.month = month, !.day = days]
    BY ONLY <1>2, <1>7
  <2>2. days \in 1 .. 31
    BY ONLY <1>5
  <2>3. r \in DateSet
    <3>1. r = [century |-> d.century, year |-> d.year, month |-> month, day |-> days,
               hour |-> d.hour, minute |-> d.minute, second |-> d.second, weekday |-> weekday]
      BY ONLY <1>3, <2>1 DEF DateSet
    <3>. QED BY ONLY <1>3, <1>4, <2>2, <3>1 DEF DateSet
  <2>4. /\ r.weekday = weekday /\ r.day = days /\ r.month = month /\ r.year = d.year
        /\ r.century = d.century /\ r.hour = d.hour /\ r.minute = d.minute /\ r.second = d.second
    BY ONLY <1>3, <2>1 DEF DateSet
  <2>. QED BY ONLY <1>1, <1>4, <1>7, <2>3, <2>4
<1>8. CASE d.day = 1 /\ month = 12
  <2>1. PICK century : century = IF year = 99 THEN (d.century - 1) % 65536 ELSE d.century
    OBVIOUS
  <2>2. r = [d EXCEPT !.weekday = weekday, !.month = month, !.day = days, !.year = year,
                      !.century = century]
    BY ONLY <1>2, <1>8, <2>1
  <2>3. days \in 1 .. 31 /\ century \in 0 .. 99
    <3>1. r.century = century
      BY ONLY <1>3, <2>2 DEF DateSet
    <3>. QED BY ONLY <1>3, <1>4, <1>5, <2>1, <3>1, r.century \in {d.century, d.century - 1}
  <2>4. r \in DateSet
    <3>1. r = [century |-> century, year |-> year, month |-> month, day |-> days,
               hour |-> d.hour, minute |-> d.minute, second |-> d.second, weekday |-> weekday]
      BY ONLY <1>3, <2>2 DEF DateSet
    <3>. QED BY ONLY <1>3, <1>4, <2>3, <3>1 DEF DateSet
  <2>5. /\ r.weekday = weekday /\ r.day = days /\ r.month = month /\ r.year = year
        /\ r.century = century /\ r.hour = d.hour /\ r.minute = d.minute /\ r.second = d.second
    BY ONLY <1>3, <2>2 DEF DateSet
  <2>6. year = 99 <=> d.year = 0
    BY ONLY <1>1, <1>3
  <2>. QED BY ONLY <1>1, <1>4, <1>5, <1>8, <2>1, <2>4, <2>5, <2>6
<1>. QED BY ONLY <1>6, <1>7, <1>8

LEMMA DayBeforeIs ==
  ASSUME NEW d, Legal(d), NEW r, r = DayBefore(d), r.century \in {d.century, d.century - 1}
  PROVE  /\ Legal(r) /\ DayNumber(r) = DayNumber(d) - 1
         /\ r.weekday = (IF d.weekday = 1 THEN 7 ELSE d.weekday - 1)
         /\ r.hour = d.hour /\ r.minute = d.minute /\ r.second = d.second
<1>1. PICK D, E : D = Days(d.month, d.year, d.century) /\ E = Days(r.month, r.year, r.century)
  OBVIOUS
<1>2. /\ r \in DateSet /\ r.weekday = (IF d.weekday = 1 THEN 7 ELSE d.weekday - 1)
      /\ r.hour = d.hour /\ r.minute = d.minute /\ r.second = d.second
      /\ d.day # 1 => /\ r.day = d.day - 1 /\ r.month = d.month /\ r.year = d.year
                      /\ r.century = d.century
      /\ d.day = 1 /\ d.month # 1 =>
           /\ r.month = d.month - 1 /\ r.year = d.year /\ r.century = d.century /\ r.day = E
      /\ d.day = 1 /\ d.month = 1 =>
           /\ r.month = 12 /\ r.day = 31
           /\ IF d.year = 0 THEN r.year = 99 /\ r.century = (d.century - 1) % 65536
              ELSE r.year = d.year - 1 /\ r.century = d.century
  BY <1>1, DayBeforeFields
<1>3. /\ d.century \in Nat /\ d.year \in 0 .. 99 /\ d.month \in 1 .. 12 /\ d.day \in 1 .. D
      /\ r.century \in Nat /\ r.year \in 0 .. 99 /\ r.month \in 1 .. 12
  BY <1>1, <1>2 DEF Legal, DateSet
<1>4. D \in 28 .. 31 /\ E \in 28 .. 31 /\ (r.month = 12 => E = 31)
  <2>1. D \in 28 .. 31
    BY ONLY <1>1, <1>3, DaysBound
  <2>2. E \in 28 .. 31
    BY ONLY <1>1, <1>3, DaysBound
  <2>3. r.month = 12 => E = 31
    BY ONLY <1>1, <1>3, DaysOfDecember
  <2>. QED BY ONLY <2>1, <2>2, <2>3
<1>5. r.day \in 1 .. E
  <2>1. CASE d.day # 1
    <3>1. E = D
      BY ONLY <1>1, <1>2, <2>1
    <3>. QED BY ONLY <1>2, <1>3, <1>4, <2>1, <3>1
  <2>2. CASE d.day = 1
    BY ONLY <1>2, <1>4, <2>2
  <2>. QED BY ONLY <2>1, <2>2
<1>6. PICK y, y2, m, m2, Y, Y2 :
        /\ y = YearOf(d) /\ y2 = YearOf(r) /\ m = MonthDays(d.month) /\ m2 = MonthDays(r.month)
        /\ Y = YearDays(y) /\ Y2 = YearDays(y2)
  OBVIOUS
<1>7. DayNumber(d) = Y + m + d.day - 1 /\ DayNumber(r) = Y2 + m2 + r.day - 1
  BY ONLY <1>6, DayNumberIs
<1>8. Y \in Int /\ Y2 \in Int /\ m \in Int /\ m2 \in Int
  <2>1. m \in Int /\ m2 \in Int
    BY ONLY <1>3, <1>6, MonthEnds
  <2>2. y \in Int /\ y2 \in Int
    BY ONLY <1>3, <1>6 DEF YearOf
  <2>. QED BY ONLY <1>6, <2>1, <2>2 DEF YearDays
<1>9. Legal(r)
  BY ONLY <1>1, <1>2, <1>5 DEF Legal
<1>10. CASE d.day # 1
  <2>1. y2 = y /\ m2 = m /\ r.day = d.day - 1
    BY ONLY <1>2, <1>6, <1>10 DEF YearOf
  <2>2. DayNumber(r) = DayNumber(d) - 1
    BY ONLY <1>3, <1>4, <1>6, <1>7, <1>8, <2>1
  <2>. QED BY ONLY <1>2, <1>9, <2>2
<1>11. CASE d.day = 1 /\ d.month \notin {1, 3}
  <2>1. PICK month : month = r.month
    OBVIOUS
  <2>2. month \in 1 .. 12 /\ month \notin {2, 12} /\ d.month = month + 1 /\ r.day = E
    BY ONLY <1>2, <1>3, <1>11, <2>1
  <2>3. MonthDays(month + 1) = MonthDays(month) + DaysPerMonth[month]
    BY ONLY <2>2, MonthStep
  <2>4. E = DaysPerMonth[month]
    BY ONLY <1>1, <1>3, <2>1, <2>2, DaysOfOthers
  <2>5. m = m2 + E
    BY ONLY <1>6, <2>1, <2>2, <2>3, <2>4
  <2>6. y2 = y
    BY ONLY <1>2, <1>3, <1>6, <1>11 DEF YearOf
  <2>7. DayNumber(r) = DayNumber(d) - 1
    BY ONLY <1>4, <1>6, <1>7, <1>8, <1>11, <2>2, <2>5, <2>6
  <2>. QED BY ONLY <1>2, <1>9, <2>7
<1>12. CASE d.day = 1 /\ d.month = 3
  <2>1. r.month = 2 /\ r.year = d.year /\ r.century = d.century /\ r.day = E
    BY ONLY <1>2, <1>12
  <2>2. E = 28 + IF Leap(d.year, d.century) THEN 1 ELSE 0
    BY ONLY <1>1, <1>3, <2>1, DaysOfFebruary
  <2>3. m = 0 /\ m2 = 337
    BY ONLY <1>6, <1>12, <2>1, MonthEnds
  <2>4. y = 100 * d.century + d.year /\ y2 = y - 1
    BY ONLY <1>3, <1>6, <1>12, <2>1 DEF YearOf
  <2>5. Y = Y2 + 365 + IF Leap(d.year, d.century) THEN 1 ELSE 0
    <3>1. YearIs(y, d.year, d.century)
      BY ONLY <1>3, <2>4 DEF YearIs
    <3>2. YearDays(y) = YearDays(y - 1) + 365 + IF Leap(d.year, d.century) THEN 1 ELSE 0
      BY ONLY <3>1, YearStep
    <3>. QED BY ONLY <1>6, <2>4, <3>2
  <2>6. DayNumber(r) = DayNumber(d) - 1
    BY ONLY <1>4, <1>7, <1>8, <1>12, <2>1, <2>2, <2>3, <2>5
  <2>. QED BY ONLY <1>2, <1>9, <2>6
<1>13. CASE d.day = 1 /\ d.month = 1
  <2>1. m = m2 + 31 /\ r.day = 31
    BY ONLY <1>2, <1>6, <1>13, MonthEnds
  <2>2. y2 = y
    <3>1. 100 * r.century + r.year = 100 * d.century + d.year - 1
      <4>1. PICK c, c2 : c = d.century /\ c2 = r.century
        OBVIOUS
      <4>2. c \in 0 .. 99 /\ c2 \in 0 .. 99 /\ c2 \in {c, c - 1}
        <5>1. c \in 0 .. 99
          BY <4>1 DEF Legal, DateSet
        <5>2. c2 \in 0 .. 99
          BY ONLY <1>2, <4>1 DEF DateSet
        <5>. QED BY ONLY <4>1, <5>1, <5>2, r.century \in {d.century, d.century - 1}
      <4>3. c2 = (c - 1) % 65536 => c2 = c - 1
        <5>1. CASE c = 0
          BY ONLY <4>2, <5>1
        <5>2. CASE c \in 1 .. 99
          <6>1. (c - 1) % 65536 = c - 1
            BY ONLY <5>2
          <6>. QED BY ONLY <6>1
        <5>. QED BY ONLY <4>2, <5>1, <5>2
      <4>4. IF d.year = 0 THEN r.year = 99 /\ c2 = c - 1 ELSE r.year = d.year - 1 /\ c2 = c
        BY ONLY <1>2, <1>13, <4>1, <4>3
      <4>5. PICK y0, y1 : y0 = d.year /\ y1 = r.year
        OBVIOUS
      <4>6. 100 * c2 + y1 = 100 * c + y0 - 1
        <5>1. y0 \in 0 .. 99 /\ y1 \in 0 .. 99
          BY ONLY <1>3, <4>5
        <5>. QED BY ONLY <4>2, <4>4, <4>5, <5>1
      <4>. QED BY ONLY <4>1, <4>5, <4>6
    <3>. QED BY ONLY <1>2, <1>3, <1>6, <1>13, <3>1 DEF YearOf
  <2>3. DayNumber(r) = DayNumber(d) - 1
    BY ONLY <1>6, <1>7, <1>8, <1>13, <2>1, <2>2
  <2>. QED BY ONLY <1>2, <1>9, <2>3
<1>. QED BY ONLY <1>10, <1>11, <1>12, <1>13

-----------------------------------------------------------------------------
\* The days of a date do not depend on its time of day.
LEMMA SameDay ==
  ASSUME NEW d, NEW r, r.century = d.century, r.year = d.year, r.month = d.month, r.day = d.day
  PROVE  /\ DayNumber(r) = DayNumber(d) /\ YearOf(r) = YearOf(d)
         /\ Days(r.month, r.year, r.century) = Days(d.month, d.year, d.century)
<1>1. YearOf(r) = YearOf(d)
  BY DEF YearOf
<1>2. DayNumber(r) = DayNumber(d)
  BY ONLY <1>1, DayNumberIs, r.month = d.month, r.day = d.day
<1>. QED BY <1>1, <1>2

LEMMA DayNumberInt ==
  ASSUME NEW d, Legal(d)
  PROVE  DayNumber(d) \in Int
<1>1. d.century \in 0 .. 99 /\ d.year \in 0 .. 99 /\ d.month \in 1 .. 12 /\ d.day \in 1 .. 31
  BY DEF Legal, DateSet
<1>2. YearOf(d) \in Int /\ MonthDays(d.month) \in Int
  <2>1. MonthDays(d.month) \in Int
    BY ONLY <1>1, MonthEnds
  <2>2. PICK c, y : c = d.century /\ y = d.year
    OBVIOUS
  <2>3. c \in Int /\ y \in Int
    BY ONLY <1>1, <2>2
  <2>4. YearOf(d) = 100 * c + y - (IF d.month <= 2 THEN 1 ELSE 0)
    BY <2>2 DEF YearOf
  <2>5. YearOf(d) \in Int
    BY ONLY <2>3, <2>4
  <2>. QED BY ONLY <2>1, <2>5
<1>3. YearDays(YearOf(d)) \in Int
  BY ONLY <1>2 DEF YearDays
<1>. QED BY ONLY <1>1, <1>2, <1>3, DayNumberIs

AtTime(r, d, hour, minute) ==
  hour \in 0 .. 23 /\ minute \in 0 .. 59 /\ r = [d EXCEPT !.minute = minute, !.hour = hour]

\* The time of day moves, the date stays.
LEMMA TimeOfDay ==
  ASSUME NEW d, Legal(d), NEW hour, NEW minute, NEW r, AtTime(r, d, hour, minute)
  PROVE  /\ Legal(r) /\ DayNumber(r) = DayNumber(d)
         /\ r.weekday = d.weekday /\ r.hour = hour /\ r.minute = minute /\ r.second = d.second
         /\ r.century = d.century
<1>. hour \in 0 .. 23 /\ minute \in 0 .. 59 /\ r = [d EXCEPT !.minute = minute, !.hour = hour]
  BY DEF AtTime
<1>1. /\ d.century \in 0 .. 99 /\ d.year \in 0 .. 99 /\ d.month \in 1 .. 12 /\ d.day \in 1 .. 31
      /\ d.second \in 0 .. 59 /\ d.weekday \in 1 .. 7 /\ d \in DateSet
      /\ d.day \in 1 .. Days(d.month, d.year, d.century)
  BY DEF Legal, DateSet
<1>2. /\ r.century = d.century /\ r.year = d.year /\ r.month = d.month /\ r.day = d.day
      /\ r.weekday = d.weekday /\ r.hour = hour /\ r.minute = minute /\ r.second = d.second
  BY <1>1 DEF DateSet
<1>3. r = [century |-> d.century, year |-> d.year, month |-> d.month, day |-> d.day,
           hour |-> hour, minute |-> minute, second |-> d.second, weekday |-> d.weekday]
  BY <1>1 DEF DateSet
<1>4. r \in DateSet
  BY ONLY <1>1, <1>3, hour \in 0 .. 23, minute \in 0 .. 59 DEF DateSet
<1>5. DayNumber(r) = DayNumber(d)
  BY ONLY <1>2, SameDay
<1>6. Legal(r)
  BY ONLY <1>1, <1>2, <1>4 DEF Legal
<1>. QED BY ONLY <1>2, <1>5, <1>6

\* Seconds of the day
DaySeconds(d) == 3600 * d.hour + 60 * d.minute + d.second
Counted(d) == 86400 * DayNumber(d) + DaySeconds(d)

LEMMA SecondsSinceIs ==
  ASSUME NEW d, Legal(d), NEW day \in Int
  PROVE  /\ SecondsSince(day, d) = Counted(d) - 86400 * day
         /\ Counted(d) \in Int /\ DaySeconds(d) \in Int
<1>1. DayNumber(d) \in Int
  BY DayNumberInt
<1>2. d.hour \in 0 .. 23 /\ d.minute \in 0 .. 59 /\ d.second \in 0 .. 59
  BY DEF Legal, DateSet
<1>3. PICK n, h, m, s : n = DayNumber(d) /\ h = d.hour /\ m = d.minute /\ s = d.second
  OBVIOUS
<1>4. n \in Int /\ h \in Int /\ m \in Int /\ s \in Int
  BY ONLY <1>1, <1>2, <1>3
<1>5. /\ SecondsSince(day, d) = 86400 * (n - day) + 3600 * h + 60 * m + s
      /\ DaySeconds(d) = 3600 * h + 60 * m + s /\ Counted(d) = 86400 * n + DaySeconds(d)
  BY <1>3 DEF SecondsSince, Counted, DaySeconds
<1>. QED BY ONLY <1>4, <1>5, day \in Int

LEMMA WeekStep ==
  ASSUME NEW n \in Int, NEW m, NEW w, NEW v, w = ((n + 3) % 7) + 1
  PROVE  /\ m = n + 1 /\ v = (w % 7) + 1 => v = ((m + 3) % 7) + 1
         /\ m = n - 1 /\ v = (IF w = 1 THEN 7 ELSE w - 1) => v = ((m + 3) % 7) + 1
  OBVIOUS

\* A minute forwards
LEMMA MinuteAfterIs ==
  ASSUME NEW d, Legal(d), d.weekday = WeekdayOf(d), NEW r, r = MinuteAfter(d),
         r.century \in {d.century, d.century + 1}
  PROVE  /\ Legal(r) /\ r.weekday = WeekdayOf(r) /\ r.second = d.second
         /\ Counted(r) = Counted(d) + 60
<1>a. PICK minute : minute = (d.minute + 1) % 60
  OBVIOUS
<1>b. PICK hour : hour = IF minute = 0 THEN (d.hour + 1) % 24 ELSE d.hour
  OBVIOUS
<1>c. PICK next : next = [d EXCEPT !.minute = minute, !.hour = hour]
  OBVIOUS
<1>1. /\ minute = (d.minute + 1) % 60
      /\ hour = IF minute = 0 THEN (d.hour + 1) % 24 ELSE d.hour
      /\ next = [d EXCEPT !.minute = minute, !.hour = hour]
  BY ONLY <1>a, <1>b, <1>c
<1>2. r = IF minute = 0 /\ hour = 0 THEN DayAfter(next) ELSE next
  BY <1>1 DEF MinuteAfter
<1>3. d.hour \in 0 .. 23 /\ d.minute \in 0 .. 59 /\ d.second \in 0 .. 59
  BY DEF Legal, DateSet
<1>4. hour \in 0 .. 23 /\ minute \in 0 .. 59
  BY ONLY <1>1, <1>3
<1>5. /\ Legal(next) /\ DayNumber(next) = DayNumber(d) /\ next.weekday = d.weekday
      /\ next.hour = hour /\ next.minute = minute /\ next.second = d.second
      /\ next.century = d.century
  <2>1. AtTime(next, d, hour, minute)
    BY ONLY <1>1, <1>4 DEF AtTime
  <2>. QED BY ONLY <2>1, TimeOfDay, Legal(d)
<1>6. PICK n : n = DayNumber(d) /\ n \in Int
  BY ONLY DayNumberInt, Legal(d)
<1>7. CASE minute = 0 /\ hour = 0
  <2>1. r = DayAfter(next)
    BY ONLY <1>2, <1>7
  <2>2. /\ Legal(r) /\ DayNumber(r) = n + 1 /\ r.weekday = (d.weekday % 7) + 1
        /\ r.hour = hour /\ r.minute = minute /\ r.second = d.second
    BY ONLY <1>5, <1>6, <2>1, DayAfterIs, r.century \in {d.century, d.century + 1}
  <2>3. d.hour = 23 /\ d.minute = 59
    BY ONLY <1>1, <1>3, <1>7
  <2>4. Counted(r) = Counted(d) + 60
    BY ONLY <1>3, <1>6, <1>7, <2>2, <2>3 DEF Counted, DaySeconds
  <2>5. r.weekday = WeekdayOf(r)
    BY ONLY <1>6, <2>2, d.weekday = WeekdayOf(d), WeekStep DEF WeekdayOf
  <2>. QED BY ONLY <2>2, <2>4, <2>5
<1>8. CASE ~ (minute = 0 /\ hour = 0)
  <2>1. r = next
    BY ONLY <1>2, <1>8
  <2>2. 3600 * hour + 60 * minute = 3600 * d.hour + 60 * d.minute + 60
    BY ONLY <1>1, <1>3, <1>8
  <2>3. Counted(r) = Counted(d) + 60
    <3>1. PICK h, m, s : h = d.hour /\ m = d.minute /\ s = d.second
      OBVIOUS
    <3>2. h \in Int /\ m \in Int /\ s \in Int /\ hour \in Int /\ minute \in Int /\ n \in Int
      BY ONLY <1>3, <1>4, <1>6, <3>1
    <3>3. /\ DayNumber(r) = n /\ r.hour = hour /\ r.minute = minute /\ r.second = s
      BY ONLY <1>5, <1>6, <2>1, <3>1
    <3>4. Counted(r) = 86400 * n + (3600 * hour + 60 * minute + s)
      BY ONLY <3>3 DEF Counted, DaySeconds
    <3>5. Counted(d) = 86400 * n + (3600 * h + 60 * m + s)
      BY ONLY <1>6, <3>1 DEF Counted, DaySeconds
    <3>6. 3600 * hour + 60 * minute = 3600 * h + 60 * m + 60
      BY ONLY <2>2, <3>1
    <3>. QED BY ONLY <3>2, <3>4, <3>5, <3>6
  <2>4. r.weekday = WeekdayOf(r)
    BY ONLY <1>5, <2>1, d.weekday = WeekdayOf(d) DEF WeekdayOf
  <2>. QED BY ONLY <1>5, <2>1, <2>3, <2>4
<1>. QED BY <1>7, <1>8

\* A minute back
LEMMA MinuteBeforeIs ==
  ASSUME NEW d, Legal(d), d.weekday = WeekdayOf(d), NEW r, r = MinuteBefore(d),
         r.century \in {d.century, d.century - 1}
  PROVE  /\ Legal(r) /\ r.weekday = WeekdayOf(r) /\ r.second = d.second
         /\ Counted(r) = Counted(d) - 60
<1>a. PICK minute : minute = IF d.minute = 0 THEN 59 ELSE d.minute - 1
  OBVIOUS
<1>b. PICK hour : hour = IF minute # 59 THEN d.hour ELSE IF d.hour = 0 THEN 23 ELSE d.hour - 1
  OBVIOUS
<1>c. PICK next : next = [d EXCEPT !.minute = minute, !.hour = hour]
  OBVIOUS
<1>1. /\ minute = IF d.minute = 0 THEN 59 ELSE d.minute - 1
      /\ hour = IF minute # 59 THEN d.hour ELSE IF d.hour = 0 THEN 23 ELSE d.hour - 1
      /\ next = [d EXCEPT !.minute = minute, !.hour = hour]
  BY ONLY <1>a, <1>b, <1>c
<1>2. r = IF minute = 59 /\ hour = 23 /\ d.hour = 0 THEN DayBefore(next) ELSE next
  BY <1>1 DEF MinuteBefore
<1>3. d.hour \in 0 .. 23 /\ d.minute \in 0 .. 59 /\ d.second \in 0 .. 59
  BY DEF Legal, DateSet
<1>4. hour \in 0 .. 23 /\ minute \in 0 .. 59
  BY ONLY <1>1, <1>3
<1>5. /\ Legal(next) /\ DayNumber(next) = DayNumber(d) /\ next.weekday = d.weekday
      /\ next.hour = hour /\ next.minute = minute /\ next.second = d.second
      /\ next.century = d.century
  <2>1. AtTime(next, d, hour, minute)
    BY ONLY <1>1, <1>4 DEF AtTime
  <2>. QED BY ONLY <2>1, TimeOfDay, Legal(d)
<1>6. PICK n : n = DayNumber(d) /\ n \in Int
  BY ONLY DayNumberInt, Legal(d)
<1>7. CASE minute = 59 /\ hour = 23 /\ d.hour = 0
  <2>1. r = DayBefore(next)
    BY ONLY <1>2, <1>7
  <2>2. /\ Legal(r) /\ DayNumber(r) = n - 1
        /\ r.weekday = (IF d.weekday = 1 THEN 7 ELSE d.weekday - 1)
        /\ r.hour = hour /\ r.minute = minute /\ r.second = d.second
    BY ONLY <1>5, <1>6, <2>1, DayBeforeIs, r.century \in {d.century, d.century - 1}
  <2>3. d.minute = 0
    BY ONLY <1>1, <1>3, <1>7
  <2>4. Counted(r) = Counted(d) - 60
    BY ONLY <1>3, <1>6, <1>7, <2>2, <2>3 DEF Counted, DaySeconds
  <2>5. r.weekday = WeekdayOf(r)
    BY ONLY <1>6, <2>2, d.weekday = WeekdayOf(d), WeekStep DEF WeekdayOf
  <2>. QED BY ONLY <2>2, <2>4, <2>5
<1>8. CASE ~ (minute = 59 /\ hour = 23 /\ d.hour = 0)
  <2>1. r = next
    BY ONLY <1>2, <1>8
  <2>2. 3600 * hour + 60 * minute = 3600 * d.hour + 60 * d.minute - 60
    BY ONLY <1>1, <1>3, <1>8
  <2>3. Counted(r) = Counted(d) - 60
    <3>1. PICK h, m, s : h = d.hour /\ m = d.minute /\ s = d.second
      OBVIOUS
    <3>2. h \in Int /\ m \in Int /\ s \in Int /\ hour \in Int /\ minute \in Int /\ n \in Int
      BY ONLY <1>3, <1>4, <1>6, <3>1
    <3>3. /\ DayNumber(r) = n /\ r.hour = hour /\ r.minute = minute /\ r.second = s
      BY ONLY <1>5, <1>6, <2>1, <3>1
    <3>4. Counted(r) = 86400 * n + (3600 * hour + 60 * minute + s)
      BY ONLY <3>3 DEF Counted, DaySeconds
    <3>5. Counted(d) = 86400 * n + (3600 * h + 60 * m + s)
      BY ONLY <1>6, <3>1 DEF Counted, DaySeconds
    <3>6. 3600 * hour + 60 * minute = 3600 * h + 60 * m - 60
      BY ONLY <2>2, <3>1
    <3>. QED BY ONLY <3>2, <3>4, <3>5, <3>6
  <2>4. r.weekday = WeekdayOf(r)
    BY ONLY <1>5, <2>1, d.weekday = WeekdayOf(d) DEF WeekdayOf
  <2>. QED BY ONLY <1>5, <2>1, <2>3, <2>4
<1>. QED BY <1>7, <1>8

\* The century of the next minute, and of the one before
LEMMA CenturyAfter ==
  ASSUME NEW d, Legal(d), NEW r, r = MinuteAfter(d),
         r.century \in d.century - 1 .. d.century + 1
  PROVE  r.century \in {d.century, d.century + 1}
<1>a. PICK minute : minute = (d.minute + 1) % 60
  OBVIOUS
<1>b. PICK hour : hour = IF minute = 0 THEN (d.hour + 1) % 24 ELSE d.hour
  OBVIOUS
<1>c. PICK next : next = [d EXCEPT !.minute = minute, !.hour = hour]
  OBVIOUS
<1>1. /\ minute = (d.minute + 1) % 60
      /\ hour = IF minute = 0 THEN (d.hour + 1) % 24 ELSE d.hour
      /\ next = [d EXCEPT !.minute = minute, !.hour = hour]
  BY ONLY <1>a, <1>b, <1>c
<1>2. r = IF minute = 0 /\ hour = 0 THEN DayAfter(next) ELSE next
  BY <1>1 DEF MinuteAfter
<1>3. d \in DateSet /\ d.century \in 0 .. 99 /\ d.hour \in 0 .. 23 /\ d.minute \in 0 .. 59
  BY DEF Legal, DateSet
<1>4. Legal(next) /\ next.century = d.century
  <2>1. hour \in 0 .. 23 /\ minute \in 0 .. 59
    BY ONLY <1>1, <1>3
  <2>2. AtTime(next, d, hour, minute)
    BY ONLY <1>1, <2>1 DEF AtTime
  <2>. QED BY ONLY <2>2, TimeOfDay, Legal(d)
<1>5. next \in DateSet
  BY ONLY <1>4 DEF Legal
<1>6. PICK a : a = DayAfter(next)
  OBVIOUS
<1>7. a.century \in {next.century, (next.century + 1) % 100}
  <2>1. PICK last : last = (next.day = Days(next.month, next.year, next.century))
    OBVIOUS
  <2>2. PICK year : year = IF last /\ next.month = 12 THEN (next.year + 1) % 100 ELSE next.year
    OBVIOUS
  <2>3. a = [next EXCEPT !.weekday = (next.weekday % 7) + 1,
                         !.day = IF last THEN 1 ELSE @ + 1,
                         !.month = IF last THEN (@ % 12) + 1 ELSE @,
                         !.year = year,
                         !.century = IF last /\ next.month = 12 /\ year = 0 THEN (@ + 1) % 100 ELSE @]
    BY <1>6, <2>1, <2>2 DEF DayAfter
  <2>. QED BY ONLY <1>5, <2>3 DEF DateSet
<1>8. r.century \in {d.century, (d.century + 1) % 100}
  BY ONLY <1>2, <1>4, <1>6, <1>7
<1>. QED BY ONLY <1>3, <1>8, r.century \in d.century - 1 .. d.century + 1

LEMMA CenturyBefore ==
  ASSUME NEW d, Legal(d), NEW r, r = MinuteBefore(d),
         r.century \in d.century - 1 .. d.century + 1
  PROVE  r.century \in {d.century, d.century - 1}
<1>a. PICK minute : minute = IF d.minute = 0 THEN 59 ELSE d.minute - 1
  OBVIOUS
<1>b. PICK hour : hour = IF minute # 59 THEN d.hour ELSE IF d.hour = 0 THEN 23 ELSE d.hour - 1
  OBVIOUS
<1>c. PICK next : next = [d EXCEPT !.minute = minute, !.hour = hour]
  OBVIOUS
<1>1. /\ minute = IF d.minute = 0 THEN 59 ELSE d.minute - 1
      /\ hour = IF minute # 59 THEN d.hour ELSE IF d.hour = 0 THEN 23 ELSE d.hour - 1
      /\ next = [d EXCEPT !.minute = minute, !.hour = hour]
  BY ONLY <1>a, <1>b, <1>c
<1>2. r = IF minute = 59 /\ hour = 23 /\ d.hour = 0 THEN DayBefore(next) ELSE next
  BY <1>1 DEF MinuteBefore
<1>3. d \in DateSet /\ d.century \in 0 .. 99 /\ d.hour \in 0 .. 23 /\ d.minute \in 0 .. 59
  BY DEF Legal, DateSet
<1>4. Legal(next) /\ next.century = d.century
  <2>1. hour \in 0 .. 23 /\ minute \in 0 .. 59
    BY ONLY <1>1, <1>3
  <2>2. AtTime(next, d, hour, minute)
    BY ONLY <1>1, <2>1 DEF AtTime
  <2>. QED BY ONLY <2>2, TimeOfDay, Legal(d)
<1>5. next \in DateSet
  BY ONLY <1>4 DEF Legal
<1>6. PICK b : b = DayBefore(next)
  OBVIOUS
<1>7. b.century \in {next.century, (next.century - 1) % 65536}
  <2>1. PICK month, year, weekday, days :
          /\ month = IF next.month = 1 THEN 12 ELSE next.month - 1
          /\ year = IF next.year = 0 THEN 99 ELSE next.year - 1
          /\ weekday = IF next.weekday = 1 THEN 7 ELSE next.weekday - 1
          /\ days = Days(month, next.year, next.century)
    OBVIOUS
  <2>2. b = IF next.day # 1 THEN [next EXCEPT !.weekday = weekday, !.day = @ - 1]
            ELSE IF month # 12 THEN [next EXCEPT !.weekday = weekday, !.month = month, !.day = days]
            ELSE [next EXCEPT !.weekday = weekday, !.month = month, !.day = days, !.year = year,
                              !.century = IF year = 99 THEN (@ - 1) % 65536 ELSE @]
    BY <1>6, <2>1 DEF DayBefore
  <2>. QED BY ONLY <1>5, <2>2 DEF DateSet
<1>8. r.century \in {d.century, (d.century - 1) % 65536}
  BY ONLY <1>2, <1>4, <1>6, <1>7
<1>9. PICK c, e : c = d.century /\ e = r.century
  OBVIOUS
<1>10. c \in 0 .. 99 /\ e \in {c, (c - 1) % 65536} /\ e \in c - 1 .. c + 1
  BY ONLY <1>3, <1>8, <1>9, r.century \in d.century - 1 .. d.century + 1
<1>11. CASE c = 0
  BY ONLY <1>9, <1>10, <1>11
<1>12. CASE c \in 1 .. 99
  <2>1. (c - 1) % 65536 = c - 1
    BY ONLY <1>12
  <2>. QED BY ONLY <1>9, <1>10, <2>1
<1>. QED BY ONLY <1>10, <1>11, <1>12

-----------------------------------------------------------------------------
\* How far the loop still has to go
Rest == IF going = "up" THEN left ELSE IF going = "down" THEN -left ELSE 0

CalendarInv ==
  /\ Legal(date) /\ date.weekday = WeekdayOf(date)
  /\ origin \in Int /\ moved \in Int /\ left \in Int /\ going \in {"none", "up", "down"}
  /\ going = "up" => date.second + left >= 0
  /\ going = "down" => date.second - left < 60
  /\ Counted(date) + Rest = moved + 86400 * origin

\* The years stay between 0 and 9999, where the fields have a carry.
NoWrap == date'.century \in date.century - 1 .. date.century + 1

LEMMA FieldsAreLegal ==
  ASSUME NEW s \in Start, NEW d, d = Fields(s)
  PROVE  Legal(d) /\ d.weekday = WeekdayOf(d)
<1>1. /\ s[1] \in 0 .. 99 /\ s[2] \in 0 .. 99 /\ s[3] \in 1 .. 12
      /\ s[4] \in 1 .. Days(s[3], s[2], s[1])
  BY CalendarAssumption
<1>2. PICK c, y, m, n : c = s[1] /\ y = s[2] /\ m = s[3] /\ n = s[4]
  OBVIOUS
<1>3. /\ c \in 0 .. 99 /\ y \in 0 .. 99 /\ m \in 1 .. 12 /\ n \in 1 .. Days(m, y, c)
  BY ONLY <1>1, <1>2
<1>4. Days(m, y, c) \in 28 .. 31
  <2>1. c \in Nat
    BY ONLY <1>3
  <2>. QED BY ONLY <1>3, <2>1, DaysBound
<1>5. PICK e : e = [century |-> c, year |-> y, month |-> m, day |-> n,
                    hour |-> 23, minute |-> 59, second |-> 58, weekday |-> 1]
  OBVIOUS
<1>6. PICK w : w = WeekdayOf(e)
  OBVIOUS
<1>7. d = [e EXCEPT !.weekday = w]
  BY <1>2, <1>5, <1>6 DEF Fields
<1>8. d = [century |-> c, year |-> y, month |-> m, day |-> n,
           hour |-> 23, minute |-> 59, second |-> 58, weekday |-> w]
  BY ONLY <1>5, <1>7
<1>9. /\ d.century = c /\ d.year = y /\ d.month = m /\ d.day = n /\ d.weekday = w
      /\ e.century = c /\ e.year = y /\ e.month = m /\ e.day = n
  BY ONLY <1>5, <1>8
<1>10. e \in DateSet /\ e.day \in 1 .. Days(e.month, e.year, e.century)
  <2>1. n \in 1 .. 31
    BY ONLY <1>3, <1>4
  <2>2. e \in DateSet
    BY ONLY <1>3, <1>5, <2>1 DEF DateSet
  <2>. QED BY ONLY <1>3, <1>9, <2>2
<1>11. DayNumber(e) \in Int
  BY ONLY <1>10, DayNumberInt DEF Legal
<1>12. w \in 1 .. 7
  BY ONLY <1>6, <1>11 DEF WeekdayOf
<1>13. d \in DateSet
  <2>1. n \in 1 .. 31
    BY ONLY <1>3, <1>4
  <2>. QED BY ONLY <1>3, <1>8, <1>12, <2>1 DEF DateSet
<1>14. Legal(d)
  BY ONLY <1>3, <1>9, <1>13 DEF Legal
<1>15. DayNumber(d) = DayNumber(e)
  BY ONLY <1>9, SameDay
<1>. QED BY ONLY <1>6, <1>9, <1>14, <1>15 DEF WeekdayOf

LEMMA CalendarStarts == CalendarInit => CalendarInv
<1>. SUFFICES ASSUME CalendarInit PROVE CalendarInv
  OBVIOUS
<1>1. PICK s \in Start : date = Fields(s)
  BY DEF CalendarInit
<1>2. Legal(date) /\ date.weekday = WeekdayOf(date)
  BY <1>1, FieldsAreLegal
<1>3. origin \in Int
  BY <1>2, DayNumberInt DEF CalendarInit
<1>4. moved = Counted(date) - 86400 * origin /\ Counted(date) \in Int
  BY <1>2, <1>3, SecondsSinceIs DEF CalendarInit
<1>5. going = "none" /\ left = 0
  BY DEF CalendarInit
<1>6. moved \in Int /\ Counted(date) + Rest = moved + 86400 * origin
  BY ONLY <1>3, <1>4, <1>5 DEF Rest
<1>. QED BY ONLY <1>2, <1>3, <1>5, <1>6 DEF CalendarInv

LEMMA Begins ==
  ASSUME CalendarInv, NEW way \in {"up", "down"}, NEW amount \in Nat, BeginMove(way, amount)
  PROVE  CalendarInv'
<1>1. /\ going = "none" /\ going' = way /\ left' = amount /\ date' = date /\ origin' = origin
      /\ moved' = IF way = "up" THEN moved + amount ELSE moved - amount
  BY DEF BeginMove
<1>2. /\ Legal(date) /\ date.weekday = WeekdayOf(date) /\ origin \in Int /\ moved \in Int
      /\ Counted(date) + 0 = moved + 86400 * origin
  BY <1>1 DEF CalendarInv, Rest
<1>3. date.second \in 0 .. 59
  BY <1>2 DEF Legal, DateSet
<1>4. Counted(date) \in Int
  BY ONLY <1>2, SecondsSinceIs
<1>5. Rest' = IF way = "up" THEN amount ELSE -amount
  BY ONLY <1>1, way \in {"up", "down"} DEF Rest
<1>6. Counted(date)' = Counted(date)
  BY ONLY <1>1 DEF Counted, DaySeconds, DayNumber
<1>7. Legal(date)' /\ (date.weekday = WeekdayOf(date))'
  BY ONLY <1>1, <1>2 DEF Legal, WeekdayOf, DayNumber, DateSet, Days, DaysPerMonth
<1>8. (origin \in Int /\ moved \in Int /\ left \in Int /\ going \in {"none", "up", "down"})'
  BY ONLY <1>1, <1>2, way \in {"up", "down"}, amount \in Nat
<1>9. (going = "up" => date.second + left >= 0)' /\ (going = "down" => date.second - left < 60)'
  BY ONLY <1>1, <1>3, amount \in Nat
<1>10. (Counted(date) + Rest = moved + 86400 * origin)'
  BY ONLY <1>1, <1>2, <1>4, <1>5, <1>6, amount \in Nat
<1>. QED BY ONLY <1>7, <1>8, <1>9, <1>10 DEF CalendarInv

\* What a round, or the end of a loop, does with a date that is legal again
LEMMA MovesOn ==
  ASSUME CalendarInv, NEW r, date' = r, Legal(r), r.weekday = WeekdayOf(r),
         origin' = origin, moved' = moved, left' \in Int, going' \in {"none", "up", "down"},
         going' = "up" => r.second + left' >= 0,
         going' = "down" => r.second - left' < 60,
         Counted(r) + Rest' = Counted(date) + Rest
  PROVE  CalendarInv'
<1>1. origin' \in Int /\ moved' \in Int
  BY DEF CalendarInv
<1>2. Counted(date)' = Counted(r) /\ Legal(date)' /\ (date.weekday = WeekdayOf(date))'
  BY DEF Legal, WeekdayOf, DayNumber, DateSet, Days, DaysPerMonth, Counted, DaySeconds
<1>3. Counted(r) + Rest' = moved' + 86400 * origin'
  BY DEF CalendarInv
<1>. QED BY <1>1, <1>2, <1>3 DEF CalendarInv

LEMMA RoundsUp ==
  ASSUME CalendarInv, RoundUp, NoWrap
  PROVE  CalendarInv'
<1>1. PICK r : r = MinuteAfter(date)
  OBVIOUS
<1>2. /\ going = "up" /\ date.second + left >= 60 /\ date' = r /\ left' = left - 60
      /\ origin' = origin /\ moved' = moved /\ going' = "up"
  BY <1>1 DEF RoundUp
<1>3. Legal(date) /\ date.weekday = WeekdayOf(date) /\ left \in Int /\ origin \in Int
  BY DEF CalendarInv
<1>4. r.century \in date.century - 1 .. date.century + 1
  BY ONLY <1>2, NoWrap DEF NoWrap
<1>5. r.century \in {date.century, date.century + 1}
  BY ONLY <1>1, <1>3, <1>4, CenturyAfter
<1>6. /\ Legal(r) /\ r.weekday = WeekdayOf(r) /\ r.second = date.second
      /\ Counted(r) = Counted(date) + 60
  BY ONLY <1>1, <1>3, <1>5, MinuteAfterIs
<1>7. Counted(date) \in Int /\ date.second \in Int
  BY ONLY <1>3, SecondsSinceIs DEF Legal, DateSet
<1>8. Rest = left /\ Rest' = left - 60
  BY ONLY <1>2 DEF Rest
<1>9. Counted(r) + Rest' = Counted(date) + Rest
  BY ONLY <1>3, <1>6, <1>7, <1>8
<1>10. left' \in Int /\ r.second + left' >= 0
  BY ONLY <1>2, <1>3, <1>6, <1>7
<1>. QED BY <1>2, <1>6, <1>9, <1>10, MovesOn

LEMMA RoundsDown ==
  ASSUME CalendarInv, RoundDown, NoWrap
  PROVE  CalendarInv'
<1>1. PICK r : r = MinuteBefore(date)
  OBVIOUS
<1>2. /\ going = "down" /\ date.second - left < 0 /\ date' = r /\ left' = left - 60
      /\ origin' = origin /\ moved' = moved /\ going' = "down"
  BY <1>1 DEF RoundDown
<1>3. Legal(date) /\ date.weekday = WeekdayOf(date) /\ left \in Int /\ origin \in Int
  BY DEF CalendarInv
<1>4. r.century \in date.century - 1 .. date.century + 1
  BY ONLY <1>2, NoWrap DEF NoWrap
<1>5. r.century \in {date.century, date.century - 1}
  BY ONLY <1>1, <1>3, <1>4, CenturyBefore
<1>6. /\ Legal(r) /\ r.weekday = WeekdayOf(r) /\ r.second = date.second
      /\ Counted(r) = Counted(date) - 60
  BY ONLY <1>1, <1>3, <1>5, MinuteBeforeIs
<1>7. Counted(date) \in Int /\ date.second \in Int
  BY ONLY <1>3, SecondsSinceIs DEF Legal, DateSet
<1>8. Rest = -left /\ Rest' = -(left - 60)
  BY ONLY <1>2 DEF Rest
<1>9. Counted(r) + Rest' = Counted(date) + Rest
  BY ONLY <1>3, <1>6, <1>7, <1>8
<1>10. left' \in Int /\ r.second - left' < 60
  BY ONLY <1>2, <1>3, <1>6, <1>7
<1>. QED BY <1>2, <1>6, <1>9, <1>10, MovesOn

AtSecond(r, d, s) == s \in 0 .. 59 /\ r = [d EXCEPT !.second = s]

LEMMA NewSecond ==
  ASSUME NEW d, Legal(d), d.weekday = WeekdayOf(d), NEW s, NEW r, AtSecond(r, d, s)
  PROVE  /\ Legal(r) /\ r.weekday = WeekdayOf(r) /\ r.second = s
         /\ Counted(r) = Counted(d) - d.second + s
<1>. s \in 0 .. 59 /\ r = [d EXCEPT !.second = s]
  BY DEF AtSecond
<1>1. /\ d.century \in 0 .. 99 /\ d.year \in 0 .. 99 /\ d.month \in 1 .. 12 /\ d.day \in 1 .. 31
      /\ d.hour \in 0 .. 23 /\ d.minute \in 0 .. 59 /\ d.second \in 0 .. 59
      /\ d.weekday \in 1 .. 7 /\ d \in DateSet /\ d.day \in 1 .. Days(d.month, d.year, d.century)
  BY DEF Legal, DateSet
<1>2. /\ r.century = d.century /\ r.year = d.year /\ r.month = d.month /\ r.day = d.day
      /\ r.weekday = d.weekday /\ r.hour = d.hour /\ r.minute = d.minute /\ r.second = s
  BY <1>1 DEF DateSet
<1>3. r = [century |-> d.century, year |-> d.year, month |-> d.month, day |-> d.day,
           hour |-> d.hour, minute |-> d.minute, second |-> s, weekday |-> d.weekday]
  BY <1>1 DEF DateSet
<1>4. r \in DateSet
  BY ONLY <1>1, <1>3, s \in 0 .. 59 DEF DateSet
<1>5. Legal(r)
  BY ONLY <1>1, <1>2, <1>4 DEF Legal
<1>6. DayNumber(r) = DayNumber(d)
  BY ONLY <1>2, SameDay
<1>7. r.weekday = WeekdayOf(r)
  BY ONLY <1>2, <1>6, d.weekday = WeekdayOf(d) DEF WeekdayOf
<1>8. PICK n, h, m, t : n = DayNumber(d) /\ h = d.hour /\ m = d.minute /\ t = d.second
  OBVIOUS
<1>9. n \in Int /\ h \in Int /\ m \in Int /\ t \in Int /\ s \in Int
  BY ONLY <1>1, <1>8, DayNumberInt, Legal(d), s \in 0 .. 59
<1>10. /\ Counted(d) = 86400 * n + (3600 * h + 60 * m + t)
       /\ Counted(r) = 86400 * n + (3600 * h + 60 * m + s)
  BY ONLY <1>2, <1>6, <1>8 DEF Counted, DaySeconds
<1>11. Counted(r) = Counted(d) - t + s
  BY ONLY <1>9, <1>10
<1>. QED BY ONLY <1>2, <1>5, <1>7, <1>8, <1>11

LEMMA Finishes ==
  ASSUME CalendarInv, Finish
  PROVE  CalendarInv'
<1>1. PICK s : s = date.second + Rest
  OBVIOUS
<1>2. /\ Legal(date) /\ date.weekday = WeekdayOf(date) /\ left \in Int /\ origin \in Int
      /\ going = "up" => date.second + left >= 0
      /\ going = "down" => date.second - left < 60
  BY DEF CalendarInv
<1>3. date.second \in 0 .. 59 /\ Counted(date) \in Int
  BY ONLY <1>2, SecondsSinceIs DEF Legal, DateSet
<1>4. \/ /\ going = "up" /\ date.second + left < 60 /\ date' = [date EXCEPT !.second = @ + left]
      \/ /\ going = "down" /\ date.second - left >= 0 /\ date' = [date EXCEPT !.second = @ - left]
  BY DEF Finish
<1>5. going' = "none" /\ left' = 0 /\ origin' = origin /\ moved' = moved
  BY DEF Finish
<1>6. s \in 0 .. 59 /\ Rest \in Int /\ Rest' = 0
  <2>1. CASE going = "up"
    <3>1. Rest = left /\ date.second + left < 60
      BY ONLY <1>4, <2>1 DEF Rest
    <3>2. s \in 0 .. 59 /\ Rest \in Int
      BY ONLY <1>1, <1>2, <1>3, <2>1, <3>1
    <3>. QED BY ONLY <1>5, <3>2 DEF Rest
  <2>2. CASE going = "down"
    <3>1. Rest = -left /\ date.second - left >= 0
      BY ONLY <1>4, <2>2 DEF Rest
    <3>2. s \in 0 .. 59 /\ Rest \in Int
      BY ONLY <1>1, <1>2, <1>3, <2>2, <3>1
    <3>. QED BY ONLY <1>5, <3>2 DEF Rest
  <2>. QED BY ONLY <1>4, <2>1, <2>2
<1>7. PICK r : r = [date EXCEPT !.second = s]
  OBVIOUS
<1>8. date' = r
  <2>1. CASE going = "up"
    <3>1. Rest = left
      BY ONLY <2>1 DEF Rest
    <3>2. date' = [date EXCEPT !.second = date.second + left]
      BY ONLY <1>4, <2>1
    <3>. QED BY ONLY <1>1, <1>7, <3>1, <3>2
  <2>2. CASE going = "down"
    <3>1. Rest = -left
      BY ONLY <2>2 DEF Rest
    <3>2. date' = [date EXCEPT !.second = date.second - left]
      BY ONLY <1>4, <2>2
    <3>3. s = date.second - left
      BY ONLY <1>1, <1>2, <1>3, <3>1
    <3>. QED BY ONLY <1>7, <3>2, <3>3
  <2>. QED BY ONLY <1>4, <2>1, <2>2
<1>9. /\ Legal(r) /\ r.weekday = WeekdayOf(r)
      /\ Counted(r) = Counted(date) - date.second + s
  <2>1. AtSecond(r, date, s)
    BY ONLY <1>6, <1>7 DEF AtSecond
  <2>. QED BY ONLY <1>2, <2>1, NewSecond
<1>10. Counted(r) + Rest' = Counted(date) + Rest
  BY ONLY <1>1, <1>3, <1>6, <1>9
<1>. QED BY <1>5, <1>8, <1>9, <1>10, MovesOn

LEMMA CalendarSteps ==
  ASSUME CalendarInv, [CalendarNext]_cvars, [NoWrap]_cvars
  PROVE  CalendarInv'
<1>1. CASE UNCHANGED cvars
  BY <1>1 DEF CalendarInv, cvars, Rest, Legal, WeekdayOf, DayNumber, DateSet, Days,
              DaysPerMonth, Counted, DaySeconds
<1>2. \A amount \in Nat, way \in {"up", "down"} : BeginMove(way, amount) => CalendarInv'
  BY Begins
<1>3. ASSUME NEW amount \in Amount, Increment(amount) \/ Decrement(amount)
      PROVE  CalendarInv'
  <2>1. amount \in Nat
    BY CalendarAssumption
  <2>. QED BY ONLY <1>2, <1>3, <2>1 DEF Increment, Decrement
<1>4. ASSUME NEW zone \in Zone, ApplyTimezone(zone)
      PROVE  CalendarInv'
  <2>1. zone \in Int
    BY CalendarAssumption
  <2>2. CASE zone > 0
    <3>1. 3600 * zone \in Nat /\ Increment(3600 * zone)
      BY ONLY <1>4, <2>1, <2>2 DEF ApplyTimezone
    <3>. QED BY ONLY <1>2, <3>1 DEF Increment
  <2>3. CASE ~ (zone > 0)
    <3>1. 3600 * (-zone) \in Nat /\ Decrement(3600 * (-zone))
      BY ONLY <1>4, <2>1, <2>3 DEF ApplyTimezone
    <3>. QED BY ONLY <1>2, <3>1 DEF Decrement
  <2>. QED BY ONLY <2>2, <2>3
<1>5. CASE DecrementByNothing
  <2>1. UNCHANGED <<date, origin, moved, going, left, moves>>
    BY ONLY <1>5 DEF DecrementByNothing
  <2>. QED BY <2>1 DEF CalendarInv, Rest, Legal, WeekdayOf, DayNumber, DateSet, Days,
                        DaysPerMonth, Counted, DaySeconds
<1>6. CASE (RoundUp \/ RoundDown) /\ ~ UNCHANGED cvars
  <2>1. NoWrap
    BY <1>6
  <2>. QED BY <1>6, <2>1, RoundsUp, RoundsDown
<1>7. CASE Finish
  BY <1>7, Finishes
<1>. QED BY ONLY <1>1, <1>3, <1>4, <1>5, <1>6, <1>7, [CalendarNext]_cvars DEF CalendarNext

LEMMA InvIsCount == CalendarInv => TimeIsCount
<1>. SUFFICES ASSUME CalendarInv PROVE TimeIsCount
  OBVIOUS
<1>1. /\ Legal(date) /\ date.weekday = WeekdayOf(date) /\ origin \in Int /\ moved \in Int
      /\ left \in Int /\ Counted(date) + Rest = moved + 86400 * origin
  BY DEF CalendarInv
<1>2. /\ SecondsSince(origin, date) = Counted(date) - 86400 * origin /\ Counted(date) \in Int
  BY ONLY <1>1, SecondsSinceIs
<1>3. Rest \in Int
  BY ONLY <1>1 DEF Rest
<1>4. SecondsSince(origin, date) + Rest = moved
  BY ONLY <1>1, <1>2, <1>3
<1>5. /\ date.second \in 0 .. 59 /\ date.minute \in 0 .. 59 /\ date.hour \in 0 .. 23
      /\ date.day \in 1 .. Days(date.month, date.year, date.century)
  BY ONLY <1>1 DEF Legal, DateSet
<1>. QED BY ONLY <1>1, <1>4, <1>5 DEF TimeIsCount, Rest

\* However a time of legal fields is moved by seconds (increment_seconds,
\* decrement_seconds, apply_timezone), by any amounts and from any date, its
\* fields stay legal in every round of the loops, they are as many seconds away
\* from the first day as was asked for, and the weekday is that of the date, as
\* long as no carry leaves the years 0 to 9999, where the code lets the century
\* start again at 0, or wrap below it.
THEOREM TimeIsCountAlways == CalendarSpec /\ [][NoWrap]_cvars => []TimeIsCount
<1>1. CalendarInit => CalendarInv
  BY CalendarStarts
<1>2. CalendarInv /\ [CalendarNext]_cvars /\ [NoWrap]_cvars => CalendarInv'
  BY CalendarSteps
<1>3. CalendarInv => TimeIsCount
  BY InvIsCount
<1>. QED BY <1>1, <1>2, <1>3, PTL DEF CalendarSpec

-----------------------------------------------------------------------------
(* The screen                                                              *)

\* Rows of the text, and windows with their position
Chars == Glyph \cup {Newline}
Colours == Colour \cup {Standard}
Pixels == [char : Chars \cup {" "}, attrib : Colours]
Rows == [0 .. Width - 1 -> Pixels]
IsView(w) == /\ w = [x |-> w.x, y |-> w.y, pixels |-> w.pixels]
             /\ w.pixels = [k \in Cell |-> w.pixels[k]] /\ InWindow(w.x, w.y)

\* Where the window has a place of the text
Spot(x, y) == <<from_col + x, from_row + y>>

\* The window shows the rows of the text from the top_row on, and others are untouched.
ShowsRows(P, p, t) ==
  /\ P = [k \in Cell |-> P[k]]
  /\ \A k \in Cell : ~ InWindow(k[1], k[2]) => P[k] = OtherWindow
  /\ \A x \in 0 .. Width - 1, y \in 0 .. Height - 1 : P[Spot(x, y)] = p[t + y + 1][x]

IsText(p, t) == t \in Nat /\ p \in Seq(Rows) /\ Len(p) = t + Height
IsPlace(pl, t) == /\ pl = <<pl[1], pl[2]>> /\ pl[1] \in 0 .. Width - 1
                  /\ pl[2] \in Nat /\ pl[2] \in t .. t + Height - 1
Displays(w, p, pl, t) ==
  /\ w.x = from_col + pl[1] /\ w.y = from_row + pl[2] - t
  /\ ShowsRows(w.pixels, p, t)

-----------------------------------------------------------------------------
LEMMA SizesAre ==
  /\ COLUMNS \in Nat /\ ROWS \in Nat /\ from_col \in Nat /\ to_col \in Nat /\ from_row \in Nat
  /\ to_row \in Nat /\ from_col <= to_col /\ to_col < COLUMNS /\ from_row <= to_row
  /\ to_row < ROWS /\ Width = to_col - from_col + 1 /\ Height = to_row - from_row + 1
  /\ Width \in Nat /\ Height \in Nat /\ Width > 0 /\ Height > 0
<1>1. /\ COLUMNS \in Nat /\ ROWS \in Nat /\ from_col \in Nat /\ to_col \in Nat /\ from_row \in Nat
      /\ to_row \in Nat /\ from_col <= to_col /\ to_col < COLUMNS /\ from_row <= to_row
      /\ to_row < ROWS
  BY ScreenAssumption
<1>2. Width = to_col - from_col + 1 /\ Height = to_row - from_row + 1
  BY DEF Width, Height
<1>. QED BY ONLY <1>1, <1>2

LEMMA SpotIs ==
  ASSUME NEW x \in 0 .. Width - 1, NEW y \in 0 .. Height - 1
  PROVE  /\ Spot(x, y) \in Cell /\ Spot(x, y)[1] = from_col + x /\ Spot(x, y)[2] = from_row + y
         /\ InWindow(from_col + x, from_row + y)
<1>1. from_col + x \in from_col .. to_col /\ from_row + y \in from_row .. to_row
  BY ONLY SizesAre, x \in 0 .. Width - 1, y \in 0 .. Height - 1
<1>2. from_col + x \in 0 .. COLUMNS - 1 /\ from_row + y \in 0 .. ROWS - 1
  BY ONLY SizesAre, <1>1
<1>. QED BY ONLY <1>1, <1>2 DEF Spot, Cell, InWindow

\* Every cell of the window is a spot.
LEMMA SpotOf ==
  ASSUME NEW k \in Cell, InWindow(k[1], k[2])
  PROVE  /\ k[1] - from_col \in 0 .. Width - 1 /\ k[2] - from_row \in 0 .. Height - 1
         /\ k = Spot(k[1] - from_col, k[2] - from_row)
<1>1. k[1] \in Int /\ k[2] \in Int /\ k = <<k[1], k[2]>>
  BY DEF Cell
<1>2. k[1] \in from_col .. to_col /\ k[2] \in from_row .. to_row
  BY DEF InWindow
<1>3. k[1] - from_col \in 0 .. Width - 1 /\ k[2] - from_row \in 0 .. Height - 1
  BY ONLY SizesAre, <1>1, <1>2
<1>4. from_col + (k[1] - from_col) = k[1] /\ from_row + (k[2] - from_row) = k[2]
  BY ONLY SizesAre, <1>1
<1>. QED BY ONLY <1>1, <1>3, <1>4 DEF Spot

\* A pixel that is written in both
Writes(P1, p1, P, p, t, x0, y0, pixel) ==
  /\ x0 \in 0 .. Width - 1 /\ y0 \in 0 .. Height - 1 /\ pixel \in Pixels
  /\ P1 = [P EXCEPT ![Spot(x0, y0)] = pixel] /\ p1 = [p EXCEPT ![t + y0 + 1][x0] = pixel]

LEMMA WriteShows ==
  ASSUME NEW P, NEW p, NEW t, IsText(p, t), ShowsRows(P, p, t), NEW x0, NEW y0, NEW pixel,
         NEW P1, NEW p1, Writes(P1, p1, P, p, t, x0, y0, pixel)
  PROVE  IsText(p1, t) /\ ShowsRows(P1, p1, t)
<1>. /\ x0 \in 0 .. Width - 1 /\ y0 \in 0 .. Height - 1 /\ pixel \in Pixels
     /\ P1 = [P EXCEPT ![Spot(x0, y0)] = pixel] /\ p1 = [p EXCEPT ![t + y0 + 1][x0] = pixel]
  BY DEF Writes
<1>1. PICK k0, n : k0 = Spot(x0, y0) /\ n = t + y0 + 1
  OBVIOUS
<1>2. k0 \in Cell /\ k0[1] = from_col + x0 /\ k0[2] = from_row + y0 /\ InWindow(k0[1], k0[2])
  BY ONLY <1>1, SpotIs, x0 \in 0 .. Width - 1, y0 \in 0 .. Height - 1
<1>3. t \in Nat /\ p \in Seq(Rows) /\ Len(p) = t + Height /\ n \in 1 .. Len(p) /\ n \in Nat
  BY ONLY <1>1, SizesAre, IsText(p, t), y0 \in 0 .. Height - 1 DEF IsText
<1>4. p[n] \in Rows
  BY ONLY <1>3
<1>5. PICK row : row = [p[n] EXCEPT ![x0] = pixel]
  OBVIOUS
<1>6. /\ row \in Rows /\ row[x0] = pixel
      /\ \A x \in 0 .. Width - 1 : x # x0 => row[x] = p[n][x]
  BY ONLY <1>4, <1>5, x0 \in 0 .. Width - 1, pixel \in Pixels DEF Rows
<1>7. p1 = [p EXCEPT ![n] = row]
  BY ONLY <1>1, <1>5, p1 = [p EXCEPT ![t + y0 + 1][x0] = pixel]
<1>8. /\ p1 \in Seq(Rows) /\ Len(p1) = Len(p) /\ p1[n] = row
      /\ \A i \in 1 .. Len(p) : i # n => p1[i] = p[i]
  BY ONLY <1>3, <1>6, <1>7
<1>9. IsText(p1, t)
  BY ONLY <1>3, <1>8 DEF IsText
<1>10. P = [k \in Cell |-> P[k]] /\ P1 = [P EXCEPT ![k0] = pixel]
  BY <1>1 DEF ShowsRows
<1>11. /\ P1 = [k \in Cell |-> P1[k]] /\ P1[k0] = pixel
       /\ \A k \in Cell : k # k0 => P1[k] = P[k]
  BY ONLY <1>2, <1>10
<1>12. ASSUME NEW k \in Cell, ~ InWindow(k[1], k[2])
       PROVE  P1[k] = OtherWindow
  BY <1>2, <1>11, <1>12 DEF ShowsRows
<1>13. ASSUME NEW x \in 0 .. Width - 1, NEW y \in 0 .. Height - 1
       PROVE  P1[Spot(x, y)] = p1[t + y + 1][x]
  <2>1. /\ Spot(x, y) \in Cell /\ Spot(x, y)[1] = from_col + x /\ Spot(x, y)[2] = from_row + y
    BY ONLY <1>13, SpotIs
  <2>2. P[Spot(x, y)] = p[t + y + 1][x]
    BY <1>13 DEF ShowsRows
  <2>3. t + y + 1 \in 1 .. Len(p)
    BY ONLY <1>3, <1>13, SizesAre
  <2>4. CASE x = x0 /\ y = y0
    BY ONLY <1>1, <1>6, <1>8, <1>11, <2>4
  <2>5. CASE y = y0 /\ x # x0
    <3>1. Spot(x, y) # k0
      BY ONLY <1>2, <1>13, <2>1, <2>5, SizesAre, x0 \in 0 .. Width - 1
    <3>. QED BY ONLY <1>1, <1>6, <1>8, <1>11, <1>13, <2>1, <2>2, <2>5, <3>1
  <2>6. CASE y # y0
    <3>1. Spot(x, y) # k0 /\ t + y + 1 # n
      BY ONLY <1>1, <1>2, <1>3, <1>13, <2>1, <2>6, SizesAre, y0 \in 0 .. Height - 1
    <3>. QED BY ONLY <1>8, <1>11, <2>1, <2>2, <2>3, <3>1
  <2>. QED BY ONLY <2>4, <2>5, <2>6
<1>. QED BY <1>9, <1>11, <1>12, <1>13 DEF ShowsRows

\* The window moves up by a row, and the text gets one.
Scrolled(P, a) ==
  [k \in Cell |-> IF ~ InWindow(k[1], k[2]) THEN P[k]
                  ELSE IF k[2] = to_row THEN BlankPixel(a) ELSE P[<<k[1], k[2] + 1>>]]

LEMMA ScrollShows ==
  ASSUME NEW P, NEW p, NEW t, IsText(p, t), ShowsRows(P, p, t), NEW a \in Colours,
         NEW p1, p1 = Append(p, BlankRow(a))
  PROVE  IsText(p1, t + 1) /\ ShowsRows(Scrolled(P, a), p1, t + 1)
<1>1. t \in Nat /\ p \in Seq(Rows) /\ Len(p) = t + Height
  BY DEF IsText
<1>2. BlankRow(a) \in Rows /\ \A x \in 0 .. Width - 1 : BlankRow(a)[x] = BlankPixel(a)
  BY DEF BlankRow, Rows, BlankPixel, Pixel, Pixels
<1>3. /\ p1 \in Seq(Rows) /\ Len(p1) = Len(p) + 1 /\ p1[Len(p) + 1] = BlankRow(a)
      /\ \A i \in 1 .. Len(p) : p1[i] = p[i]
  BY ONLY <1>1, <1>2, p1 = Append(p, BlankRow(a))
<1>4. IsText(p1, t + 1)
  <2>1. Height \in Nat
    BY SizesAre
  <2>2. t + 1 \in Nat /\ Len(p1) = t + 1 + Height
    BY ONLY <1>1, <1>3, <2>1
  <2>. QED BY ONLY <1>3, <2>2 DEF IsText
<1>5. PICK P1 : P1 = Scrolled(P, a)
  OBVIOUS
<1>6. /\ P1 = [k \in Cell |-> P1[k]]
      /\ \A k \in Cell : P1[k] = IF ~ InWindow(k[1], k[2]) THEN P[k]
                                  ELSE IF k[2] = to_row THEN BlankPixel(a) ELSE P[<<k[1], k[2] + 1>>]
  BY ONLY <1>5 DEF Scrolled
<1>7. ASSUME NEW k \in Cell, ~ InWindow(k[1], k[2])
      PROVE  P1[k] = OtherWindow
  BY <1>6, <1>7 DEF ShowsRows
<1>8. ASSUME NEW x \in 0 .. Width - 1, NEW y \in 0 .. Height - 1
      PROVE  P1[Spot(x, y)] = p1[t + 1 + y + 1][x]
  <2>1. /\ Spot(x, y) \in Cell /\ Spot(x, y)[1] = from_col + x /\ Spot(x, y)[2] = from_row + y
        /\ InWindow(from_col + x, from_row + y)
    BY ONLY <1>8, SpotIs
  <2>2. CASE y = Height - 1
    <3>1. from_row + y = to_row /\ t + 1 + y + 1 = Len(p) + 1
      BY ONLY <1>1, <1>8, <2>2, SizesAre
    <3>2. P1[Spot(x, y)] = BlankPixel(a)
      BY ONLY <1>6, <2>1, <3>1
    <3>. QED BY ONLY <1>2, <1>3, <1>8, <3>1, <3>2
  <2>3. CASE y # Height - 1
    <3>1. from_row + y # to_row /\ y + 1 \in 0 .. Height - 1
      BY ONLY <1>8, <2>3, SizesAre
    <3>2. PICK y2 : y2 = y + 1
      OBVIOUS
    <3>3. P[Spot(x, y2)] = p[t + y2 + 1][x]
      BY <1>8, <3>1, <3>2 DEF ShowsRows
    <3>4. <<from_col + x, (from_row + y) + 1>> = Spot(x, y2)
      BY ONLY <1>8, <3>2, SizesAre DEF Spot
    <3>5. P1[Spot(x, y)] = P[Spot(x, y2)]
      BY ONLY <1>6, <2>1, <3>1, <3>4
    <3>6. t + y2 + 1 \in 1 .. Len(p) /\ t + 1 + y + 1 = t + y2 + 1
      BY ONLY <1>1, <1>8, <3>1, <3>2, SizesAre
    <3>. QED BY ONLY <1>3, <3>3, <3>5, <3>6
  <2>. QED BY ONLY <2>2, <2>3
<1>. QED BY <1>4, <1>5, <1>6, <1>7, <1>8 DEF ShowsRows

-----------------------------------------------------------------------------
\* A character on a window, field by field
Wrote(w, c, a) ==
  IF c = Newline THEN w.pixels ELSE [w.pixels EXCEPT ![<<w.x, w.y>>] = Pixel(c, a)]
Breaks(w, c) == c = Newline \/ w.x = to_col
After(w, c, a) ==
  [x |-> IF Breaks(w, c) THEN from_col ELSE w.x + 1,
   y |-> IF Breaks(w, c) /\ w.y # to_row THEN w.y + 1 ELSE w.y,
   pixels |-> IF Breaks(w, c) /\ w.y = to_row THEN Scrolled(Wrote(w, c, a), a) ELSE Wrote(w, c, a)]

LEMMA AfterIsView ==
  ASSUME NEW w, IsView(w), NEW c, NEW a
  PROVE  IsView(After(w, c, a))
<1>1. /\ w.pixels = [k \in Cell |-> w.pixels[k]]
      /\ w.x \in from_col .. to_col /\ w.y \in from_row .. to_row
  BY DEF IsView, InWindow
<1>2. PICK P, P1 : P = w.pixels /\ P1 = Wrote(w, c, a)
  OBVIOUS
<1>3. P1 = [k \in Cell |-> P1[k]]
  BY ONLY <1>1, <1>2 DEF Wrote
<1>4. Scrolled(P1, a) = [k \in Cell |-> Scrolled(P1, a)[k]]
  BY DEF Scrolled
<1>5. PICK r : r = After(w, c, a)
  OBVIOUS
<1>6. /\ r = [x |-> r.x, y |-> r.y, pixels |-> r.pixels]
      /\ r.x = IF Breaks(w, c) THEN from_col ELSE w.x + 1
      /\ r.y = IF Breaks(w, c) /\ w.y # to_row THEN w.y + 1 ELSE w.y
      /\ r.pixels = IF Breaks(w, c) /\ w.y = to_row THEN Scrolled(P1, a) ELSE P1
  BY ONLY <1>2, <1>5 DEF After
<1>7. r.pixels = [k \in Cell |-> r.pixels[k]]
  BY ONLY <1>3, <1>4, <1>6
<1>8. r.x \in from_col .. to_col /\ r.y \in from_row .. to_row
  BY ONLY <1>1, <1>6, SizesAre DEF Breaks
<1>. QED BY ONLY <1>5, <1>6, <1>7, <1>8 DEF IsView, InWindow

LEMMA LineFeedIs ==
  ASSUME NEW w, NEW x, NEW y, NEW P, w = [x |-> x, y |-> y, pixels |-> P], y \in from_row .. to_row
  PROVE  LineFeed(w) = [x |-> from_col, y |-> IF y # to_row THEN y + 1 ELSE y,
                        pixels |-> IF y = to_row THEN Scrolled(P, attrib) ELSE P]
<1>1. w.x = x /\ w.y = y /\ w.pixels = P
  OBVIOUS
<1>2. CASE y = to_row
  <2>1. w.y + 1 > to_row
    BY ONLY <1>1, <1>2, SizesAre
  <2>2. LineFeed(w) = [MoveUp(w) EXCEPT !.x = from_col]
    BY ONLY <2>1 DEF LineFeed
  <2>3. MoveUp(w) = [w EXCEPT !.pixels = Scrolled(P, attrib)]
    BY ONLY <1>1 DEF MoveUp, Scrolled
  <2>4. MoveUp(w) = [x |-> x, y |-> y, pixels |-> Scrolled(P, attrib)]
    BY ONLY <2>3, w = [x |-> x, y |-> y, pixels |-> P]
  <2>5. LineFeed(w) = [x |-> from_col, y |-> y, pixels |-> Scrolled(P, attrib)]
    BY ONLY <2>2, <2>4
  <2>. QED BY ONLY <1>2, <2>5
<1>3. CASE y # to_row
  <2>1. ~ (w.y + 1 > to_row)
    BY ONLY <1>1, <1>3, SizesAre, y \in from_row .. to_row
  <2>2. LineFeed(w) = [w EXCEPT !.x = from_col, !.y = @ + 1]
    BY ONLY <2>1 DEF LineFeed
  <2>3. LineFeed(w) = [x |-> from_col, y |-> y + 1, pixels |-> P]
    BY ONLY <2>2, w = [x |-> x, y |-> y, pixels |-> P]
  <2>. QED BY ONLY <1>3, <2>3
<1>. QED BY <1>2, <1>3

LEMMA PrintCharIs ==
  ASSUME NEW w, IsView(w), NEW c
  PROVE  PrintChar(w, c) = After(w, c, attrib)
<1>1. /\ w = [x |-> w.x, y |-> w.y, pixels |-> w.pixels]
      /\ w.x \in from_col .. to_col /\ w.y \in from_row .. to_row
  BY DEF IsView, InWindow
<1>2. PICK x, y, P, Q : /\ x = w.x /\ y = w.y /\ P = w.pixels
                        /\ Q = [P EXCEPT ![<<x, y>>] = Pixel(c, attrib)]
  OBVIOUS
<1>3. w = [x |-> x, y |-> y, pixels |-> P] /\ x \in from_col .. to_col /\ y \in from_row .. to_row
  BY ONLY <1>1, <1>2
<1>4. PICK shown : shown = [Show(w, w.x, w.y, Pixel(c, attrib)) EXCEPT !.x = @ + 1]
  OBVIOUS
<1>5. shown = [x |-> x + 1, y |-> y, pixels |-> Q]
  <2>1. Show(w, w.x, w.y, Pixel(c, attrib)) = [x |-> x, y |-> y, pixels |-> Q]
    BY ONLY <1>2, <1>3 DEF Show
  <2>. QED BY ONLY <1>4, <2>1
<1>6. PrintChar(w, c) = IF c = Newline THEN LineFeed(w)
                        ELSE IF shown.x > to_col THEN LineFeed(shown) ELSE shown
  BY <1>4 DEF PrintChar
<1>7. CASE c = Newline
  <2>1. Breaks(w, c) /\ Wrote(w, c, attrib) = P
    BY ONLY <1>2, <1>7 DEF Breaks, Wrote
  <2>2. After(w, c, attrib) = [x |-> from_col, y |-> IF y # to_row THEN y + 1 ELSE y,
                               pixels |-> IF y = to_row THEN Scrolled(P, attrib) ELSE P]
    BY ONLY <1>2, <2>1 DEF After
  <2>. QED BY ONLY <1>3, <1>6, <1>7, <2>2, LineFeedIs
<1>8. CASE c # Newline /\ x = to_col
  <2>1. Breaks(w, c) /\ Wrote(w, c, attrib) = Q
    BY ONLY <1>2, <1>8 DEF Breaks, Wrote
  <2>2. After(w, c, attrib) = [x |-> from_col, y |-> IF y # to_row THEN y + 1 ELSE y,
                               pixels |-> IF y = to_row THEN Scrolled(Q, attrib) ELSE Q]
    BY ONLY <1>2, <2>1 DEF After
  <2>3. shown.x > to_col
    BY ONLY <1>5, <1>8, SizesAre
  <2>4. PICK z : z = x + 1
    OBVIOUS
  <2>5. shown = [x |-> z, y |-> y, pixels |-> Q]
    BY ONLY <1>5, <2>4
  <2>. QED BY ONLY <1>3, <1>6, <1>8, <2>2, <2>3, <2>5, LineFeedIs
<1>9. CASE c # Newline /\ x # to_col
  <2>1. ~ Breaks(w, c) /\ Wrote(w, c, attrib) = Q
    BY ONLY <1>2, <1>9 DEF Breaks, Wrote
  <2>2. After(w, c, attrib) = [x |-> x + 1, y |-> y, pixels |-> Q]
    BY ONLY <1>2, <2>1 DEF After
  <2>3. ~ (shown.x > to_col)
    BY ONLY <1>3, <1>5, <1>9, SizesAre
  <2>. QED BY ONLY <1>5, <1>6, <1>9, <2>2, <2>3
<1>. QED BY <1>7, <1>8, <1>9

-----------------------------------------------------------------------------
\* A character that is typed and printed: the window goes on to show the text.
LEMMA TypeShows ==
  ASSUME NEW w, IsView(w), NEW c \in Chars, attrib \in Colours,
         IsText(page, top_row), IsPlace(place, top_row), Displays(w, page, place, top_row), TypeOn(c)
  PROVE  /\ IsText(page', top_row') /\ IsPlace(place', top_row')
         /\ Displays(After(w, c, attrib), page', place', top_row')
<1>1. PICK P, p, t, a, x, y :
        /\ P = w.pixels /\ p = page /\ t = top_row /\ a = attrib /\ x = place[1] /\ y = place[2] - top_row
  OBVIOUS
<1>2. /\ t \in Nat /\ p \in Seq(Rows) /\ Len(p) = t + Height /\ a \in Colours
      /\ IsText(p, t) /\ ShowsRows(P, p, t)
  BY <1>1 DEF IsText, Displays
<1>3. /\ x \in 0 .. Width - 1 /\ y \in 0 .. Height - 1 /\ place = <<x, t + y>>
      /\ place[1] = x /\ place[2] = t + y
  <2>1. /\ place = <<place[1], place[2]>> /\ place[1] \in 0 .. Width - 1 /\ place[2] \in Nat
        /\ place[2] \in top_row .. top_row + Height - 1
    BY DEF IsPlace
  <2>2. y \in 0 .. Height - 1 /\ place[2] = t + y
    <3>1. PICK q : q = place[2]
      OBVIOUS
    <3>2. q \in Nat /\ q \in t .. t + Height - 1 /\ y = q - t
      BY ONLY <1>1, <2>1, <3>1
    <3>. QED BY ONLY <1>2, <3>1, <3>2, SizesAre
  <2>. QED BY ONLY <1>1, <2>1, <2>2
<1>4. w.x = from_col + x /\ w.y = from_row + y
  <2>1. w.x = from_col + place[1] /\ w.y = from_row + place[2] - top_row
    BY DEF Displays
  <2>. QED BY ONLY <1>1, <1>2, <1>3, <2>1, SizesAre
<1>5. (w.x = to_col <=> x + 1 = Width) /\ (w.y = to_row <=> y + 1 = Height)
  BY ONLY <1>3, <1>4, SizesAre
<1>6. PICK p1, break : /\ p1 = IF c = Newline THEN p ELSE [p EXCEPT ![t + y + 1][x] = Pixel(c, a)]
                       /\ break = (c = Newline \/ x + 1 = Width)
  OBVIOUS
<1>7. /\ page' = IF break THEN NextRow(p1, t + y) ELSE p1
      /\ place' = IF break THEN <<0, (t + y) + 1>> ELSE <<x + 1, t + y>>
      /\ top_row' = Len(page') - Height
  BY ONLY TypeOn(c), <1>1, <1>3, <1>6 DEF TypeOn
<1>8. PICK P1 : P1 = Wrote(w, c, a)
  OBVIOUS
<1>9. IsText(p1, t) /\ ShowsRows(P1, p1, t)
  <2>1. CASE c = Newline
    BY ONLY <1>1, <1>2, <1>6, <1>8, <2>1 DEF Wrote
  <2>2. CASE c # Newline
    <3>1. P1 = [P EXCEPT ![Spot(x, y)] = Pixel(c, a)] /\ p1 = [p EXCEPT ![t + y + 1][x] = Pixel(c, a)]
      BY ONLY <1>1, <1>4, <1>6, <1>8, <2>2 DEF Wrote, Spot
    <3>2. PICK pixel : pixel = Pixel(c, a)
      OBVIOUS
    <3>3. pixel \in Pixels
      BY ONLY <1>2, <3>2, c \in Chars DEF Pixel, Pixels
    <3>4. Writes(P1, p1, P, p, t, x, y, pixel)
      BY ONLY <1>3, <3>1, <3>2, <3>3 DEF Writes
    <3>. QED BY ONLY <1>2, <3>4, WriteShows
  <2>. QED BY <2>1, <2>2
<1>10. Len(p1) = t + Height
  BY ONLY <1>9 DEF IsText
<1>11. Breaks(w, c) <=> break
  BY ONLY <1>5, <1>6 DEF Breaks
<1>12. PICK r : r = After(w, c, attrib)
  OBVIOUS
<1>13. /\ r.x = IF break THEN from_col ELSE w.x + 1
       /\ r.y = IF break /\ w.y # to_row THEN w.y + 1 ELSE w.y
       /\ r.pixels = IF break /\ w.y = to_row THEN Scrolled(P1, a) ELSE P1
  BY ONLY <1>1, <1>8, <1>11, <1>12 DEF After
<1>14. CASE ~ break
  <2>1. page' = p1 /\ place' = <<x + 1, t + y>> /\ top_row' = t
    BY ONLY <1>2, <1>7, <1>10, <1>14, SizesAre
  <2>2. IsText(page', top_row') /\ ShowsRows(r.pixels, page', top_row')
    BY ONLY <1>9, <1>13, <1>14, <2>1
  <2>3. IsPlace(place', top_row')
    <3>1. PICK q, z : q = t + y /\ z = x + 1
      OBVIOUS
    <3>2. q \in Nat /\ q \in t .. t + Height - 1 /\ z \in 0 .. Width - 1
      <4>1. x + 1 # Width
        BY ONLY <1>6, <1>14
      <4>2. t \in Nat /\ x \in 0 .. Width - 1 /\ y \in 0 .. Height - 1
        BY ONLY <1>2, <1>3
      <4>. QED BY ONLY <3>1, <4>1, <4>2, SizesAre
    <3>3. place' = <<z, q>> /\ top_row' = t
      BY ONLY <2>1, <3>1
    <3>. QED BY ONLY <3>2, <3>3 DEF IsPlace
  <2>4. r.x = from_col + place'[1] /\ r.y = from_row + place'[2] - top_row'
    BY ONLY <1>2, <1>3, <1>4, <1>13, <1>14, <2>1, SizesAre
  <2>. QED BY ONLY <1>12, <2>2, <2>3, <2>4 DEF Displays
<1>15. CASE break /\ w.y # to_row
  <2>1. page' = p1 /\ place' = <<0, t + y + 1>> /\ top_row' = t
    BY ONLY <1>2, <1>3, <1>5, <1>7, <1>10, <1>15, SizesAre DEF NextRow
  <2>2. IsText(page', top_row') /\ ShowsRows(r.pixels, page', top_row')
    BY ONLY <1>9, <1>13, <1>15, <2>1
  <2>3. IsPlace(place', top_row')
    <3>1. PICK q, o : q = t + y + 1 /\ o = 0
      OBVIOUS
    <3>2. q \in Nat /\ q \in t .. t + Height - 1 /\ o \in 0 .. Width - 1
      BY ONLY <1>2, <1>3, <1>5, <1>15, <3>1, SizesAre
    <3>3. place' = <<o, q>> /\ top_row' = t
      BY ONLY <2>1, <3>1
    <3>. QED BY ONLY <3>2, <3>3 DEF IsPlace
  <2>4. r.x = from_col + place'[1] /\ r.y = from_row + place'[2] - top_row'
    BY ONLY <1>2, <1>3, <1>4, <1>13, <1>15, <2>1, SizesAre
  <2>. QED BY ONLY <1>12, <2>2, <2>3, <2>4 DEF Displays
<1>16. CASE break /\ w.y = to_row
  <2>1. page' = Append(p1, BlankRow(a)) /\ place' = <<0, t + y + 1>>
    <3>1. ~ (t + y + 1 < Len(p1))
      BY ONLY <1>2, <1>3, <1>5, <1>10, <1>16, SizesAre
    <3>2. NextRow(p1, t + y) = Append(p1, BlankRow(a))
      BY ONLY <1>1, <3>1 DEF NextRow
    <3>. QED BY ONLY <1>7, <1>16, <3>2
  <2>2. IsText(page', t + 1) /\ ShowsRows(Scrolled(P1, a), page', t + 1)
    BY ONLY <1>2, <1>9, <2>1, ScrollShows
  <2>3. top_row' = t + 1
    <3>1. Len(page') = t + 1 + Height
      BY ONLY <2>2 DEF IsText
    <3>. QED BY ONLY <1>2, <1>7, <3>1, SizesAre
  <2>4. IsPlace(place', top_row')
    <3>1. PICK q, o : q = t + y + 1 /\ o = 0
      OBVIOUS
    <3>2. q \in Nat /\ q \in t + 1 .. t + 1 + Height - 1 /\ o \in 0 .. Width - 1
      BY ONLY <1>2, <1>3, <1>5, <1>16, <3>1, SizesAre
    <3>3. place' = <<o, q>>
      BY ONLY <2>1, <3>1
    <3>. QED BY ONLY <2>3, <3>2, <3>3 DEF IsPlace
  <2>5. r.x = from_col + place'[1] /\ r.y = from_row + place'[2] - top_row'
    BY ONLY <1>2, <1>3, <1>4, <1>13, <1>16, <2>1, <2>3, SizesAre
  <2>. QED BY ONLY <1>12, <1>13, <1>16, <2>2, <2>3, <2>4, <2>5 DEF Displays
<1>. QED BY ONLY <1>14, <1>15, <1>16

-----------------------------------------------------------------------------
\* The windows F between the characters that are printed
Prints(F, chars, w, a) ==
  /\ F = [i \in 0 .. Len(chars) |-> F[i]] /\ F[0] = w
  /\ \A i \in 1 .. Len(chars) : F[i] = After(F[i - 1], chars[i], a)

LEMMA PrintsViews ==
  ASSUME NEW chars \in Seq(Chars), NEW w, IsView(w), NEW a, NEW F, Prints(F, chars, w, a)
  PROVE  \A i \in 0 .. Len(chars) : IsView(F[i])
<1>1. PICK n \in Nat : n = Len(chars)
  OBVIOUS
<1>2. PICK bad : bad = {i \in 0 .. n : ~ IsView(F[i])}
  OBVIOUS
<1>. SUFFICES ASSUME bad # {} PROVE FALSE
  BY <1>1, <1>2
<1>3. bad \subseteq Nat
  BY ONLY <1>2
<1>4. PICK i \in bad : \A j \in bad : i <= j
  BY ONLY <1>3, bad # {}, Least
<1>5. i \in 0 .. n /\ ~ IsView(F[i])
  BY ONLY <1>2, <1>4
<1>6. F[0] = w /\ \A j \in 1 .. n : F[j] = After(F[j - 1], chars[j], a)
  BY ONLY <1>1, Prints(F, chars, w, a) DEF Prints
<1>7. i # 0
  BY ONLY <1>5, <1>6, IsView(w)
<1>8. i - 1 \in 0 .. n /\ i - 1 < i /\ i \in 1 .. n
  BY ONLY <1>5, <1>7, n \in Nat
<1>9. i - 1 \notin bad
  BY ONLY <1>3, <1>4, <1>5, <1>8
<1>10. IsView(F[i - 1])
  BY ONLY <1>2, <1>8, <1>9
<1>11. IsView(F[i])
  BY ONLY <1>6, <1>8, <1>10, AfterIsView
<1>. QED BY ONLY <1>5, <1>11

LEMMA PrintedIs ==
  ASSUME NEW chars \in Seq(Chars), IsView(Now), NEW F, Prints(F, chars, Now, attrib)
  PROVE  Printed(chars) = F[Len(chars)]
<1>1. PICK n \in Nat : n = Len(chars)
  OBVIOUS
<1>2. PICK G : G = CHOOSE g : g = [i \in 0 .. n |-> IF i = 0 THEN Now ELSE PrintChar(g[i - 1], chars[i])]
  OBVIOUS
<1>3. Printed(chars) = G[n]
  BY <1>1, <1>2 DEF Printed
<1>4. /\ F = [i \in 0 .. n |-> F[i]] /\ F[0] = Now
      /\ \A i \in 1 .. n : F[i] = After(F[i - 1], chars[i], attrib)
  BY ONLY <1>1, Prints(F, chars, Now, attrib) DEF Prints
<1>5. \A i \in 0 .. n : IsView(F[i])
  BY <1>1, PrintsViews
<1>6. \A i \in 1 .. n : F[i] = PrintChar(F[i - 1], chars[i])
  <2>. SUFFICES ASSUME NEW i \in 1 .. n PROVE F[i] = PrintChar(F[i - 1], chars[i])
    OBVIOUS
  <2>1. i - 1 \in 0 .. n
    BY ONLY i \in 1 .. n, n \in Nat
  <2>2. IsView(F[i - 1])
    BY ONLY <1>5, <2>1
  <2>. QED BY ONLY <1>4, <2>2, PrintCharIs, i \in 1 .. n
<1>7. F = [i \in 0 .. n |-> IF i = 0 THEN Now ELSE PrintChar(F[i - 1], chars[i])]
  <2>. SUFFICES ASSUME NEW i \in 0 .. n
                PROVE  F[i] = IF i = 0 THEN Now ELSE PrintChar(F[i - 1], chars[i])
    BY ONLY <1>4
  <2>1. i # 0 => i \in 1 .. n
    BY ONLY i \in 0 .. n, n \in Nat
  <2>. QED BY ONLY <1>4, <1>6, <2>1
<1>8. G = [i \in 0 .. n |-> IF i = 0 THEN Now ELSE PrintChar(G[i - 1], chars[i])]
  BY ONLY <1>2, <1>7
<1>9. PICK bad : bad = {i \in 0 .. n : G[i] # F[i]}
  OBVIOUS
<1>10. bad = {}
  <2>. SUFFICES ASSUME bad # {} PROVE FALSE
    OBVIOUS
  <2>1. bad \subseteq Nat
    BY ONLY <1>9
  <2>2. PICK i \in bad : \A j \in bad : i <= j
    BY ONLY <2>1, bad # {}, Least
  <2>3. i \in 0 .. n /\ G[i] # F[i]
    BY ONLY <1>9, <2>2
  <2>4. G[i] = IF i = 0 THEN Now ELSE PrintChar(G[i - 1], chars[i])
    BY ONLY <1>8, <2>3
  <2>5. i # 0
    BY ONLY <1>4, <2>3, <2>4
  <2>6. i - 1 \in 0 .. n /\ i - 1 < i /\ i \in 1 .. n
    BY ONLY <2>3, <2>5, n \in Nat
  <2>7. i - 1 \notin bad
    BY ONLY <2>1, <2>2, <2>3, <2>6
  <2>8. G[i - 1] = F[i - 1]
    BY ONLY <1>9, <2>6, <2>7
  <2>. QED BY ONLY <1>6, <2>3, <2>4, <2>5, <2>6, <2>8
<1>11. G[n] = F[n]
  BY ONLY <1>9, <1>10, n \in Nat
<1>. QED BY ONLY <1>1, <1>3, <1>11

\* One character more
LEMMA PrintsMore ==
  ASSUME NEW chars \in Seq(Chars), NEW w, NEW a, NEW F, Prints(F, chars, w, a), NEW c \in Chars
  PROVE  \E G : /\ Prints(G, Append(chars, c), w, a)
                /\ G[Len(chars) + 1] = After(F[Len(chars)], c, a)
<1>1. PICK n \in Nat : n = Len(chars)
  OBVIOUS
<1>2. PICK long : long = Append(chars, c)
  OBVIOUS
<1>3. Len(long) = n + 1 /\ long[n + 1] = c /\ \A i \in 1 .. n : long[i] = chars[i]
  BY ONLY <1>1, <1>2, chars \in Seq(Chars), c \in Chars
<1>4. PICK G : G = [i \in 0 .. n + 1 |-> IF i = n + 1 THEN After(F[n], c, a) ELSE F[i]]
  OBVIOUS
<1>5. /\ G[n + 1] = After(F[n], c, a) /\ G = [i \in 0 .. n + 1 |-> G[i]]
      /\ \A i \in 0 .. n : G[i] = F[i]
  BY ONLY <1>4, n \in Nat
<1>6. F[0] = w /\ \A i \in 1 .. n : F[i] = After(F[i - 1], chars[i], a)
  BY ONLY <1>1, Prints(F, chars, w, a) DEF Prints
<1>7. ASSUME NEW i \in 1 .. n + 1
      PROVE  G[i] = After(G[i - 1], long[i], a)
  <2>1. i - 1 \in 0 .. n
    BY ONLY <1>7, n \in Nat
  <2>2. CASE i = n + 1
    <3>1. i - 1 = n /\ n \in 0 .. n
      BY ONLY <2>2, n \in Nat
    <3>2. G[i - 1] = F[n]
      BY ONLY <1>5, <3>1
    <3>3. long[i] = c /\ G[i] = After(F[n], c, a)
      BY ONLY <1>3, <1>5, <2>2
    <3>. QED BY ONLY <3>2, <3>3
  <2>3. CASE i # n + 1
    <3>1. i \in 1 .. n /\ i \in 0 .. n
      BY ONLY <1>7, <2>3, n \in Nat
    <3>. QED BY ONLY <1>3, <1>5, <1>6, <2>1, <3>1
  <2>. QED BY <2>2, <2>3
<1>8. G[0] = w
  BY ONLY <1>5, <1>6, n \in Nat
<1>9. Prints(G, long, w, a)
  BY ONLY <1>3, <1>5, <1>7, <1>8 DEF Prints
<1>. QED BY ONLY <1>1, <1>2, <1>5, <1>9

LEMMA PrintsNothing ==
  ASSUME NEW w, NEW a
  PROVE  \E F : Prints(F, <<>>, w, a) /\ F[0] = w
<1>1. PICK F : F = [i \in 0 .. 0 |-> w]
  OBVIOUS
<1>2. Len(<<>>) = 0 /\ 0 \in 0 .. 0 /\ 1 .. 0 = {}
  OBVIOUS
<1>3. F[0] = w /\ F = [i \in 0 .. 0 |-> F[i]]
  BY ONLY <1>1, <1>2
<1>4. Prints(F, <<>>, w, a)
  BY ONLY <1>2, <1>3 DEF Prints
<1>. QED BY ONLY <1>3, <1>4

-----------------------------------------------------------------------------
\* The cursor register holds a position.
LEMMA Multiples ==
  ASSUME NEW C \in Nat, NEW p \in Int, NEW q \in Int, p < q
  PROVE  C * p + C <= C * q
<1>1. PICK d \in Nat : q = p + 1 + d
  <2>1. q - p - 1 \in Nat /\ q = p + 1 + (q - p - 1)
    OBVIOUS
  <2>. QED BY ONLY <2>1
<1>2. C * q = C * p + C + C * d
  BY <1>1
<1>3. C * d >= 0
  OBVIOUS
<1>. QED BY <1>2, <1>3

LEMMA RegisterIs ==
  ASSUME NEW C \in Nat, NEW x \in Nat, NEW y \in Nat, x < C, NEW r, r = y * C + x
  PROVE  r % C = x /\ r \div C = y
<1>1. r \in Nat /\ C > 0
  OBVIOUS
<1>2. PICK q, s : q = r \div C /\ s = r % C
  OBVIOUS
<1>3. q \in Int /\ s \in 0 .. C - 1 /\ r = C * q + s
  BY ONLY <1>1, <1>2, C \in Nat
<1>4. C * y \in Int /\ C * q \in Int /\ y * C = C * y
  BY ONLY <1>3, C \in Nat, y \in Nat
<1>5. ~ (q < y)
  <2>. SUFFICES ASSUME q < y PROVE FALSE
    OBVIOUS
  <2>1. C * q + C <= C * y
    BY ONLY <1>3, q < y, Multiples, C \in Nat, y \in Nat
  <2>. QED BY ONLY <1>1, <1>3, <1>4, <2>1, r = y * C + x, C \in Nat, x \in Nat
<1>6. ~ (y < q)
  <2>. SUFFICES ASSUME y < q PROVE FALSE
    OBVIOUS
  <2>1. C * y + C <= C * q
    BY ONLY <1>3, y < q, Multiples, C \in Nat, y \in Nat
  <2>. QED BY ONLY <1>1, <1>3, <1>4, <2>1, r = y * C + x, C \in Nat, x \in Nat, x < C
<1>7. q = y
  BY ONLY <1>3, <1>5, <1>6, y \in Nat
<1>8. s = x
  BY ONLY <1>1, <1>3, <1>4, <1>7, r = y * C + x, x \in Nat
<1>. QED BY ONLY <1>2, <1>7, <1>8

LEMMA SetPosIs ==
  ASSUME NEW x \in Nat, NEW y \in Nat, InWindow(x, y), SetPos(x, y), use_cursor \in BOOLEAN,
         use_cursor' = use_cursor
  PROVE  Now' = Window(x, y, pixels')
<1>1. /\ x \in from_col .. to_col /\ y \in from_row .. to_row /\ x < COLUMNS /\ ~ (x < 0) /\ ~ (y < 0)
  BY SizesAre DEF InWindow
<1>2. IF use_cursor THEN crt' = y * COLUMNS + x ELSE cur_xy' = <<x, y>>
  BY ONLY <1>1, InWindow(x, y), SetPos(x, y) DEF SetPos
<1>3. CASE use_cursor
  <2>1. crt' % COLUMNS = x /\ crt' \div COLUMNS = y
    <3>1. PICK r, C : r = crt' /\ C = COLUMNS
      OBVIOUS
    <3>2. C \in Nat /\ x < C /\ r = y * C + x
      BY ONLY <1>1, <1>2, <1>3, <3>1, SizesAre
    <3>3. r % C = x /\ r \div C = y
      BY ONLY <3>2, RegisterIs, x \in Nat, y \in Nat
    <3>. QED BY ONLY <3>1, <3>3
  <2>2. InWindow(x, y)'
    BY ONLY InWindow(x, y) DEF InWindow
  <2>. QED BY ONLY <1>3, <2>1, <2>2, use_cursor' = use_cursor, InWindow(x, y) DEF Now, Window, InWindow
<1>4. CASE ~ use_cursor
  <2>1. cur_xy'[1] = x /\ cur_xy'[2] = y /\ ~ use_cursor'
    BY ONLY <1>2, <1>4, use_cursor' = use_cursor
  <2>. QED BY ONLY <2>1 DEF Now, Window
<1>. QED BY ONLY <1>3, <1>4, use_cursor \in BOOLEAN

\* print() leaves the last of the windows.
LEMMA DisplayIs ==
  ASSUME NEW chars \in Seq(Chars), IsView(Now), NEW F, Prints(F, chars, Now, attrib),
         Display(chars), use_cursor \in BOOLEAN, use_cursor' = use_cursor
  PROVE  Now' = F[Len(chars)] /\ IsView(Now')
<1>1. PICK w : w = F[Len(chars)]
  OBVIOUS
<1>2. Len(chars) \in Nat /\ Len(chars) \in 0 .. Len(chars)
  BY ONLY chars \in Seq(Chars)
<1>3. IsView(w)
  BY ONLY <1>1, <1>2, PrintsViews, chars \in Seq(Chars), IsView(Now), Prints(F, chars, Now, attrib)
<1>4. Printed(chars) = w
  BY ONLY <1>1, PrintedIs, chars \in Seq(Chars), IsView(Now), Prints(F, chars, Now, attrib)
<1>5. InWindow(Now.x, Now.y)
  BY DEF IsView
<1>6. pixels' = w.pixels /\ SetPos(w.x, w.y)
  BY ONLY <1>4, <1>5, Display(chars) DEF Display
<1>7. PICK x, y : x = w.x /\ y = w.y
  OBVIOUS
<1>8. w = [x |-> x, y |-> y, pixels |-> pixels'] /\ InWindow(x, y) /\ SetPos(x, y)
  BY ONLY <1>3, <1>6, <1>7 DEF IsView
<1>9. x \in Nat /\ y \in Nat
  BY ONLY <1>8, SizesAre DEF InWindow
<1>10. Now' = Window(x, y, pixels')
  BY ONLY <1>8, <1>9, SetPosIs, use_cursor \in BOOLEAN, use_cursor' = use_cursor
<1>11. Now' = w
  BY ONLY <1>8, <1>10 DEF Window
<1>. QED BY ONLY <1>1, <1>3, <1>11

-----------------------------------------------------------------------------
\* A window that was reset
LEMMA BlankText ==
  ASSUME NEW a \in Colours, NEW p, p = [r \in 1 .. Height |-> BlankRow(a)]
  PROVE  IsText(p, 0) /\ \A r \in 1 .. Height : p[r] = BlankRow(a)
<1>1. BlankRow(a) \in Rows
  BY DEF BlankRow, Rows, BlankPixel, Pixel, Pixels
<1>2. PICK H \in Nat : H = Height /\ H > 0
  BY ONLY SizesAre
<1>3. p \in Seq(Rows) /\ Len(p) = H /\ 0 + H = H
  BY ONLY <1>1, <1>2, p = [r \in 1 .. Height |-> BlankRow(a)]
<1>. QED BY ONLY <1>2, <1>3, p = [r \in 1 .. Height |-> BlankRow(a)] DEF IsText

LEMMA TopPlace == ASSUME NEW pl, pl = <<0, 0>> PROVE IsPlace(pl, 0)
<1>1. PICK o : o = 0
  OBVIOUS
<1>2. o \in Nat /\ o \in 0 .. Width - 1 /\ o \in o .. o + Height - 1
  BY ONLY <1>1, SizesAre
<1>3. pl = <<o, o>>
  BY ONLY <1>1, pl = <<0, 0>>
<1>. QED BY ONLY <1>1, <1>2, <1>3 DEF IsPlace

LEMMA BlankShows ==
  ASSUME NEW P, NEW p, NEW a \in Colours, P = [k \in Cell |-> P[k]],
         \A k \in Cell : InWindow(k[1], k[2]) => P[k] = BlankPixel(a),
         \A k \in Cell : ~ InWindow(k[1], k[2]) => P[k] = OtherWindow,
         \A r \in 1 .. Height : p[r] = BlankRow(a)
  PROVE  ShowsRows(P, p, 0)
<1>1. \A x \in 0 .. Width - 1 : BlankRow(a)[x] = BlankPixel(a)
  BY DEF BlankRow
<1>2. ASSUME NEW x \in 0 .. Width - 1, NEW y \in 0 .. Height - 1
      PROVE  P[Spot(x, y)] = p[0 + y + 1][x]
  <2>1. /\ Spot(x, y) \in Cell /\ InWindow(Spot(x, y)[1], Spot(x, y)[2])
    BY ONLY <1>2, SpotIs
  <2>2. 0 + y + 1 \in 1 .. Height
    BY ONLY <1>2, SizesAre
  <2>. QED BY ONLY <1>1, <1>2, <2>1, <2>2,
         \A k \in Cell : InWindow(k[1], k[2]) => P[k] = BlankPixel(a),
         \A r \in 1 .. Height : p[r] = BlankRow(a)
<1>. QED BY <1>2 DEF ShowsRows

-----------------------------------------------------------------------------
\* The inductive invariant: printing what is collected would show the text.
ScreenKept ==
  /\ use_cursor \in BOOLEAN /\ attrib \in Colours /\ collected \in Seq(Chars)
  /\ IsText(page, top_row) /\ IsPlace(place, top_row)
  /\ \A k \in Cell : ~ InWindow(k[1], k[2]) => pixels[k] = OtherWindow
Waiting(chars, w) ==
  \E F : Prints(F, chars, w, attrib) /\ Displays(F[Len(chars)], page, place, top_row)
ScreenInv == ScreenKept /\ IsView(Now) /\ Waiting(collected, Now)

\* An empty buffer, and a window that shows the text
LEMMA EmptyInv ==
  ASSUME use_cursor \in BOOLEAN, attrib \in Colours, collected = <<>>,
         IsText(page, top_row), IsPlace(place, top_row), IsView(Now), Displays(Now, page, place, top_row)
  PROVE  ScreenInv
<1>1. PICK F : Prints(F, <<>>, Now, attrib) /\ F[0] = Now
  BY ONLY PrintsNothing
<1>2. Len(<<>>) = 0 /\ <<>> \in Seq(Chars)
  OBVIOUS
<1>3. Waiting(collected, Now)
  BY ONLY <1>1, <1>2, collected = <<>>, Displays(Now, page, place, top_row) DEF Waiting
<1>4. Now.pixels = pixels
  BY ONLY DEF Now, Window
<1>5. \A k \in Cell : ~ InWindow(k[1], k[2]) => pixels[k] = OtherWindow
  BY ONLY <1>4, Displays(Now, page, place, top_row) DEF Displays, ShowsRows
<1>. QED BY ONLY <1>2, <1>3, <1>5, use_cursor \in BOOLEAN, attrib \in Colours, collected = <<>>,
            IsText(page, top_row), IsPlace(place, top_row), IsView(Now) DEF ScreenInv, ScreenKept

LEMMA WindowIsSeen == ScreenInv => WindowShowsPage
<1>. SUFFICES ASSUME ScreenInv PROVE WindowShowsPage
  OBVIOUS
<1>1. \A k \in Cell : ~ InWindow(k[1], k[2]) => pixels[k] = OtherWindow
  BY DEF ScreenInv, ScreenKept
<1>2. ASSUME collected = <<>>
      PROVE  /\ <<Now.x, Now.y>> = <<from_col + place[1], from_row + place[2] - top_row>>
             /\ \A x \in 0 .. Width - 1, y \in 0 .. Height - 1 :
                  pixels[<<from_col + x, from_row + y>>] = page[top_row + y + 1][x]
  <2>1. PICK F : Prints(F, <<>>, Now, attrib) /\ Displays(F[Len(<<>>)], page, place, top_row)
    BY <1>2 DEF ScreenInv, Waiting
  <2>2. F[Len(<<>>)] = Now
    <3>1. Len(<<>>) = 0
      OBVIOUS
    <3>. QED BY ONLY <2>1, <3>1 DEF Prints
  <2>3. Now.pixels = pixels
    BY ONLY DEF Now, Window
  <2>. QED BY ONLY <2>1, <2>2, <2>3 DEF Displays, ShowsRows, Spot
<1>. QED BY ONLY <1>1, <1>2 DEF WindowShowsPage

-----------------------------------------------------------------------------
LEMMA InitShows == ScreenInit => ScreenInv
<1>. SUFFICES ASSUME ScreenInit PROVE ScreenInv
  OBVIOUS
<1>1. /\ use_cursor \in BOOLEAN /\ attrib = Standard /\ collected = <<>>
      /\ pixels = [c \in Cell |-> IF InWindow(c[1], c[2]) THEN BlankPixel(Standard) ELSE OtherWindow]
      /\ crt = from_row * COLUMNS + from_col /\ cur_xy = <<from_col, from_row>>
      /\ page = [r \in 1 .. Height |-> BlankRow(Standard)] /\ place = <<0, 0>> /\ top_row = 0
  BY DEF ScreenInit
<1>2. attrib \in Colours
  BY ONLY <1>1 DEF Colours
<1>3. InWindow(from_col, from_row) /\ from_col \in Nat /\ from_row \in Nat /\ from_col < COLUMNS
  BY ONLY SizesAre DEF InWindow
<1>4. Now = Window(from_col, from_row, pixels)
  <2>1. CASE use_cursor
    <3>1. PICK r, C : r = crt /\ C = COLUMNS
      OBVIOUS
    <3>2. C \in Nat /\ from_col < C /\ r = from_row * C + from_col
      BY ONLY <1>1, <1>3, <3>1, SizesAre
    <3>3. r % C = from_col /\ r \div C = from_row
      BY ONLY <3>2, RegisterIs, <1>3
    <3>4. crt % COLUMNS = from_col /\ crt \div COLUMNS = from_row
      BY ONLY <3>1, <3>3
    <3>. QED BY ONLY <1>3, <2>1, <3>4 DEF Now
  <2>2. CASE ~ use_cursor
    <3>1. cur_xy[1] = from_col /\ cur_xy[2] = from_row
      BY ONLY <1>1
    <3>. QED BY ONLY <2>2, <3>1 DEF Now
  <2>. QED BY ONLY <1>1, <2>1, <2>2
<1>5. Now = [x |-> from_col, y |-> from_row, pixels |-> pixels]
  BY ONLY <1>4 DEF Window
<1>6. Now.x = from_col /\ Now.y = from_row /\ Now.pixels = pixels
  BY ONLY <1>5
<1>7. /\ pixels = [k \in Cell |-> pixels[k]]
      /\ \A k \in Cell : pixels[k] = IF InWindow(k[1], k[2]) THEN BlankPixel(Standard) ELSE OtherWindow
  BY ONLY <1>1
<1>8. IsView(Now)
  BY ONLY <1>3, <1>5, <1>6, <1>7 DEF IsView
<1>9. IsText(page, top_row) /\ \A r \in 1 .. Height : page[r] = BlankRow(Standard)
  BY ONLY <1>1, <1>2, BlankText
<1>10. IsPlace(place, top_row)
  BY ONLY <1>1, TopPlace
<1>11. ShowsRows(pixels, page, top_row)
  BY ONLY <1>1, <1>2, <1>7, <1>9, BlankShows
<1>12. Displays(Now, page, place, top_row)
  <2>1. place[1] = 0 /\ place[2] = 0
    BY ONLY <1>1
  <2>2. from_col = from_col + 0 /\ from_row = from_row + 0 - 0
    BY ONLY SizesAre
  <2>. QED BY ONLY <1>1, <1>6, <1>11, <2>1, <2>2 DEF Displays
<1>. QED BY ONLY <1>1, <1>2, <1>8, <1>9, <1>10, <1>12, EmptyInv

\* An empty buffer, and a window that shows the text, after a step
LEMMA EmptyNext ==
  ASSUME use_cursor' \in BOOLEAN, attrib' \in Colours, collected' = <<>>,
         IsText(page', top_row'), IsPlace(place', top_row'), IsView(Now'), Displays(Now', page', place', top_row')
  PROVE  ScreenInv'
<1>1. PICK F : Prints(F, <<>>, Now', attrib') /\ F[0] = Now'
  BY ONLY PrintsNothing
<1>2. Len(<<>>) = 0 /\ <<>> \in Seq(Chars)
  OBVIOUS
<1>3. Waiting(collected, Now)'
  BY ONLY <1>1, <1>2, collected' = <<>>, Displays(Now', page', place', top_row') DEF Waiting
<1>4. Now'.pixels = pixels'
  BY ONLY DEF Now, Window
<1>5. \A k \in Cell : ~ InWindow(k[1], k[2]) => pixels'[k] = OtherWindow
  BY ONLY <1>4, Displays(Now', page', place', top_row') DEF Displays, ShowsRows
<1>6. ScreenKept'
  BY ONLY <1>2, <1>5, use_cursor' \in BOOLEAN, attrib' \in Colours, collected' = <<>>,
     IsText(page', top_row'), IsPlace(place', top_row') DEF ScreenKept
<1>. QED BY ONLY <1>3, <1>6, IsView(Now') DEF ScreenInv

LEMMA EmptyShows == ASSUME ScreenInv, collected = <<>> PROVE Displays(Now, page, place, top_row)
<1>1. PICK F : Prints(F, <<>>, Now, attrib) /\ Displays(F[Len(<<>>)], page, place, top_row)
  BY DEF ScreenInv, Waiting
<1>2. F[Len(<<>>)] = Now
  <2>1. Len(<<>>) = 0
    OBVIOUS
  <2>. QED BY ONLY <1>1, <2>1 DEF Prints
<1>. QED BY ONLY <1>1, <1>2

\* Collecting a character, and printing when the buffer is full
LEMMA PutShows ==
  ASSUME ScreenInv, NEW c \in Chars, Put(c)
  PROVE  ScreenInv'
<1>1. /\ use_cursor \in BOOLEAN /\ attrib \in Colours /\ collected \in Seq(Chars)
      /\ IsText(page, top_row) /\ IsPlace(place, top_row) /\ IsView(Now)
      /\ \A k \in Cell : ~ InWindow(k[1], k[2]) => pixels[k] = OtherWindow
  BY DEF ScreenInv, ScreenKept
<1>2. PICK F : Prints(F, collected, Now, attrib) /\ Displays(F[Len(collected)], page, place, top_row)
  BY DEF ScreenInv, Waiting
<1>3. PICK n, long, w : n = Len(collected) /\ long = Append(collected, c) /\ w = F[n]
  OBVIOUS
<1>4. long \in Seq(Chars) /\ Len(long) = n + 1 /\ n \in Nat /\ n \in 0 .. n
  BY ONLY <1>1, <1>3, c \in Chars
<1>5. PICK G : Prints(G, long, Now, attrib) /\ G[n + 1] = After(w, c, attrib)
  BY ONLY <1>1, <1>2, <1>3, PrintsMore, c \in Chars
<1>6. IsView(w)
  BY ONLY <1>1, <1>2, <1>3, <1>4, PrintsViews
<1>7. /\ IF n + 1 = BufferSize THEN collected' = <<>> /\ Display(long)
         ELSE collected' = long /\ UNCHANGED <<pixels, crt, cur_xy>>
      /\ TypeOn(c) /\ use_cursor' = use_cursor /\ attrib' = attrib
  BY ONLY <1>3, Put(c) DEF Put
<1>8. /\ IsText(page', top_row') /\ IsPlace(place', top_row')
      /\ Displays(G[n + 1], page', place', top_row')
  BY ONLY <1>1, <1>2, <1>3, <1>5, <1>6, <1>7, TypeShows, c \in Chars
<1>9. CASE n + 1 = BufferSize
  <2>1. Now' = G[n + 1] /\ IsView(Now')
    BY ONLY <1>1, <1>4, <1>5, <1>7, <1>9, DisplayIs
  <2>. QED BY ONLY <1>1, <1>7, <1>8, <1>9, <2>1, EmptyNext
<1>10. CASE n + 1 # BufferSize
  <2>1. collected' = long /\ UNCHANGED <<pixels, crt, cur_xy>>
    BY ONLY <1>7, <1>10
  <2>2. Now' = Now
    BY ONLY <1>7, <2>1 DEF Now, Window, InWindow
  <2>3. Waiting(collected, Now)'
    BY ONLY <1>4, <1>5, <1>7, <1>8, <2>1, <2>2 DEF Waiting
  <2>4. ScreenKept'
    BY ONLY <1>1, <1>4, <1>7, <1>8, <2>1 DEF ScreenKept
  <2>. QED BY ONLY <1>1, <2>2, <2>3, <2>4 DEF ScreenInv
<1>. QED BY ONLY <1>9, <1>10

\* FlushBuffer, SetColour
LEMMA DisplayShows ==
  ASSUME ScreenInv, Display(collected), collected' = <<>>, use_cursor' = use_cursor,
         attrib' \in Colours, UNCHANGED <<page, place, top_row>>
  PROVE  ScreenInv'
<1>1. /\ use_cursor \in BOOLEAN /\ attrib \in Colours /\ collected \in Seq(Chars)
      /\ IsText(page, top_row) /\ IsPlace(place, top_row) /\ IsView(Now)
  BY DEF ScreenInv, ScreenKept
<1>2. PICK F : Prints(F, collected, Now, attrib) /\ Displays(F[Len(collected)], page, place, top_row)
  BY DEF ScreenInv, Waiting
<1>3. Now' = F[Len(collected)] /\ IsView(Now')
  BY ONLY <1>1, <1>2, DisplayIs, Display(collected), use_cursor' = use_cursor
<1>4. IsText(page', top_row') /\ IsPlace(place', top_row') /\ Displays(Now', page', place', top_row')
  BY ONLY <1>1, <1>2, <1>3, UNCHANGED <<page, place, top_row>>
<1>. QED BY ONLY <1>1, <1>3, <1>4, EmptyNext, collected' = <<>>, use_cursor' = use_cursor,
            attrib' \in Colours

LEMMA ResetShows ==
  ASSUME ScreenInv, Reset
  PROVE  ScreenInv'
<1>1. /\ use_cursor \in BOOLEAN /\ attrib \in Colours /\ IsView(Now)
      /\ \A k \in Cell : ~ InWindow(k[1], k[2]) => pixels[k] = OtherWindow
  BY DEF ScreenInv, ScreenKept
<1>2. /\ collected' = <<>> /\ SetPos(from_col, from_row)
      /\ pixels' = [c \in Cell |-> IF InWindow(c[1], c[2]) THEN BlankPixel(attrib) ELSE pixels[c]]
      /\ page' = [r \in 1 .. Height |-> BlankRow(attrib)] /\ place' = <<0, 0>> /\ top_row' = 0
      /\ use_cursor' = use_cursor /\ attrib' = attrib
  BY ONLY Reset DEF Reset
<1>3. InWindow(from_col, from_row) /\ from_col \in Nat /\ from_row \in Nat
  BY ONLY SizesAre DEF InWindow
<1>4. Now' = [x |-> from_col, y |-> from_row, pixels |-> pixels']
  <2>1. Now' = Window(from_col, from_row, pixels')
    BY ONLY <1>1, <1>2, <1>3, SetPosIs
  <2>. QED BY ONLY <2>1 DEF Window
<1>5. Now'.x = from_col /\ Now'.y = from_row /\ Now'.pixels = pixels'
  BY ONLY <1>4
<1>6. /\ pixels' = [k \in Cell |-> pixels'[k]]
      /\ \A k \in Cell : InWindow(k[1], k[2]) => pixels'[k] = BlankPixel(attrib)
      /\ \A k \in Cell : ~ InWindow(k[1], k[2]) => pixels'[k] = OtherWindow
  BY ONLY <1>1, <1>2
<1>7. IsView(Now')
  BY ONLY <1>3, <1>4, <1>5, <1>6 DEF IsView
<1>8. IsText(page', top_row') /\ \A r \in 1 .. Height : page'[r] = BlankRow(attrib)
  BY ONLY <1>1, <1>2, BlankText
<1>9. IsPlace(place', top_row')
  BY ONLY <1>2, TopPlace
<1>10. ShowsRows(pixels', page', top_row')
  BY ONLY <1>1, <1>2, <1>6, <1>8, BlankShows
<1>11. Displays(Now', page', place', top_row')
  <2>1. place'[1] = 0 /\ place'[2] = 0
    BY ONLY <1>2
  <2>2. from_col = from_col + 0 /\ from_row = from_row + 0 - 0
    BY ONLY SizesAre
  <2>. QED BY ONLY <1>2, <1>5, <1>10, <2>1, <2>2 DEF Displays
<1>. QED BY ONLY <1>1, <1>2, <1>7, <1>8, <1>9, <1>11, EmptyNext

\* Back by one in the window is back by one in the text.
LEMMA BackspaceShows ==
  ASSUME ScreenInv, BackspaceKey
  PROVE  ScreenInv'
<1>1. PICK x, y, col, row :
        /\ x = IF Now.x = from_col THEN to_col ELSE Now.x - 1
        /\ y = IF Now.x = from_col /\ Now.y # from_row THEN Now.y - 1 ELSE Now.y
        /\ col = IF place[1] = 0 THEN Width - 1 ELSE place[1] - 1
        /\ row = IF place[1] = 0 /\ place[2] # top_row THEN place[2] - 1 ELSE place[2]
  OBVIOUS
<1>2. PICK pixel : pixel = BlankPixel(Standard)
  OBVIOUS
<1>3. /\ collected = <<>> /\ pixels' = Show(Now, x, y, pixel).pixels /\ SetPos(x, y)
      /\ page' = [page EXCEPT ![row + 1][col] = pixel] /\ place' = <<col, row>>
      /\ use_cursor' = use_cursor /\ collected' = collected /\ attrib' = attrib /\ top_row' = top_row
  BY ONLY BackspaceKey, <1>1, <1>2 DEF BackspaceKey
<1>4. /\ use_cursor \in BOOLEAN /\ attrib \in Colours /\ IsText(page, top_row) /\ IsPlace(place, top_row)
      /\ IsView(Now)
  BY DEF ScreenInv, ScreenKept
<1>5. Displays(Now, page, place, top_row)
  BY ONLY <1>3, EmptyShows, ScreenInv
<1>6. pixels' = [pixels EXCEPT ![<<x, y>>] = pixel]
  <2>1. PICK u, v : Now = [x |-> u, y |-> v, pixels |-> pixels]
    BY ONLY DEF Now, Window
  <2>2. Show(Now, x, y, pixel) = [x |-> u, y |-> v, pixels |-> [pixels EXCEPT ![<<x, y>>] = pixel]]
    BY ONLY <2>1 DEF Show
  <2>. QED BY ONLY <1>3, <2>2
<1>7. Now.pixels = pixels
  BY ONLY DEF Now, Window
<1>8. PICK t, u, v, x0, y0 : /\ t = top_row /\ u = place[1] /\ v = place[2] /\ x0 = col /\ y0 = row - t
  OBVIOUS
<1>9. /\ t \in Nat /\ u \in 0 .. Width - 1 /\ v \in Nat /\ v \in t .. t + Height - 1
      /\ Now.x = from_col + u /\ Now.y = from_row + v - t
  BY ONLY <1>4, <1>5, <1>8 DEF IsText, IsPlace, Displays
<1>10. /\ (Now.x = from_col <=> u = 0) /\ (Now.y = from_row <=> v = t)
  BY ONLY <1>9, SizesAre
<1>11. /\ x0 = IF u = 0 THEN Width - 1 ELSE u - 1
       /\ row = IF u = 0 /\ v # t THEN v - 1 ELSE v
       /\ x = IF u = 0 THEN to_col ELSE Now.x - 1
       /\ y = IF u = 0 /\ v # t THEN Now.y - 1 ELSE Now.y
  BY ONLY <1>1, <1>8, <1>10
<1>12. /\ x0 \in 0 .. Width - 1 /\ x = from_col + x0
  BY ONLY <1>9, <1>11, SizesAre
<1>13. /\ row \in Nat /\ row \in t .. t + Height - 1 /\ row = t + y0 /\ y0 \in 0 .. Height - 1
       /\ y = from_row + y0 /\ y = from_row + row - t
  <2>1. PICK Y : Y = Now.y
    OBVIOUS
  <2>2. Y = from_row + v - t /\ y0 = row - t
    BY ONLY <1>8, <1>9, <2>1
  <2>3. t \in Nat /\ v \in Nat /\ v \in t .. t + Height - 1
    BY ONLY <1>9
  <2>4. CASE u = 0 /\ v # t
    <3>1. row = v - 1 /\ y = Y - 1
      BY ONLY <1>11, <2>1, <2>4
    <3>. QED BY ONLY <2>2, <2>3, <2>4, <3>1, SizesAre
  <2>5. CASE ~ (u = 0 /\ v # t)
    <3>1. row = v /\ y = Y
      BY ONLY <1>11, <2>1, <2>5
    <3>. QED BY ONLY <2>2, <2>3, <3>1, SizesAre
  <2>. QED BY ONLY <2>4, <2>5
<1>14. Spot(x0, y0) = <<x, y>>
  BY ONLY <1>12, <1>13 DEF Spot
<1>15. pixel \in Pixels
  BY ONLY <1>2 DEF BlankPixel, Pixel, Pixels, Colours
<1>16. Writes(pixels', page', pixels, page, t, x0, y0, pixel)
  <2>1. page' = [page EXCEPT ![t + y0 + 1][x0] = pixel]
    BY ONLY <1>3, <1>8, <1>13
  <2>2. pixels' = [pixels EXCEPT ![Spot(x0, y0)] = pixel]
    BY ONLY <1>6, <1>14
  <2>. QED BY ONLY <1>12, <1>13, <1>15, <2>1, <2>2 DEF Writes
<1>17. IsText(page, t) /\ ShowsRows(pixels, page, t)
  BY ONLY <1>4, <1>5, <1>7, <1>8 DEF Displays
<1>18. IsText(page', t) /\ ShowsRows(pixels', page', t)
  BY ONLY <1>16, <1>17, WriteShows
<1>19. InWindow(x, y) /\ x \in Nat /\ y \in Nat
  BY ONLY <1>12, <1>13, SizesAre DEF InWindow
<1>20. Now' = [x |-> x, y |-> y, pixels |-> pixels']
  <2>1. Now' = Window(x, y, pixels')
    BY ONLY <1>3, <1>4, <1>19, SetPosIs
  <2>. QED BY ONLY <2>1 DEF Window
<1>21. Now'.x = x /\ Now'.y = y /\ Now'.pixels = pixels'
  BY ONLY <1>20
<1>22. pixels' = [k \in Cell |-> pixels'[k]]
  BY ONLY <1>18 DEF ShowsRows
<1>23. IsView(Now')
  BY ONLY <1>19, <1>20, <1>21, <1>22 DEF IsView
<1>24. IsPlace(place', t)
  <2>1. place' = <<x0, row>>
    BY ONLY <1>3, <1>8
  <2>. QED BY ONLY <1>12, <1>13, <2>1 DEF IsPlace
<1>25. Displays(Now', page', place', t)
  <2>1. place'[1] = x0 /\ place'[2] = row
    BY ONLY <1>3, <1>8
  <2>. QED BY ONLY <1>12, <1>13, <1>18, <1>21, <2>1 DEF Displays
<1>26. top_row' = t
  BY ONLY <1>3, <1>8
<1>. QED BY ONLY <1>3, <1>4, <1>18, <1>23, <1>24, <1>25, <1>26, EmptyNext

-----------------------------------------------------------------------------
LEMMA NextShows == ScreenInv /\ [ScreenNext]_svars => ScreenInv'
<1>. SUFFICES ASSUME ScreenInv, [ScreenNext]_svars PROVE ScreenInv'
  OBVIOUS
<1>1. ASSUME NEW c \in Glyph \cup {Newline}, Put(c) PROVE ScreenInv'
  BY ONLY ScreenInv, <1>1, PutShows DEF Chars
<1>2. ASSUME NEW a \in Colour, SetColour(a) PROVE ScreenInv'
  <2>1. /\ Display(collected) /\ collected' = <<>> /\ use_cursor' = use_cursor
        /\ attrib' \in Colours /\ UNCHANGED <<page, place, top_row>>
    BY ONLY <1>2 DEF SetColour, Colours
  <2>. QED BY ONLY ScreenInv, <2>1, DisplayShows
<1>3. CASE FlushBuffer
  <2>1. /\ Display(collected) /\ collected' = <<>> /\ use_cursor' = use_cursor
        /\ attrib' \in Colours /\ UNCHANGED <<page, place, top_row>>
    BY ONLY ScreenInv, <1>3 DEF FlushBuffer, ScreenInv, ScreenKept
  <2>. QED BY ONLY ScreenInv, <2>1, DisplayShows
<1>4. CASE Reset
  BY ONLY ScreenInv, <1>4, ResetShows
<1>5. CASE BackspaceKey
  BY ONLY ScreenInv, <1>5, BackspaceShows
<1>6. CASE UNCHANGED svars
  <2>1. UNCHANGED <<use_cursor, pixels, crt, cur_xy, collected, attrib, page, place, top_row>>
    BY ONLY <1>6 DEF svars
  <2>2. Now' = Now
    BY ONLY <2>1 DEF Now, Window, InWindow
  <2>3. Waiting(collected, Now)'
    BY ONLY ScreenInv, <2>1, <2>2 DEF ScreenInv, Waiting
  <2>4. ScreenKept'
    BY ONLY ScreenInv, <2>1 DEF ScreenInv, ScreenKept
  <2>. QED BY ONLY ScreenInv, <2>2, <2>3, <2>4 DEF ScreenInv
<1>. QED BY ONLY [ScreenNext]_svars, <1>1, <1>2, <1>3, <1>4, <1>5, <1>6 DEF ScreenNext

\* Whatever is written to a window, in whatever colours, with line breaks, full
\* rows, moves of the window, resets and backspaces, and whichever of the two
\* keeps the position: when the buffer of the stream is empty, the window shows
\* the last rows of the text and the place where it ends, and other windows are
\* untouched (cgascr.cc, cgastr.cc, strbuf.cc).
THEOREM WindowIsPage == ScreenSpec => []WindowShowsPage
<1>1. ScreenInit => ScreenInv
  BY InitShows
<1>2. ScreenInv /\ [ScreenNext]_svars => ScreenInv'
  BY NextShows
<1>3. ScreenInv => WindowShowsPage
  BY WindowIsSeen
<1>. QED BY <1>1, <1>2, <1>3, PTL DEF ScreenSpec

-----------------------------------------------------------------------------
(* The string                                                              *)

\* A function that is defined along the numbers up to n exists.
Steps(n, a, R, g) == g = [i \in 0 .. n |-> IF i = 0 THEN a ELSE R[i][g[i - 1]]]

LEMMA StepsExist ==
  ASSUME NEW m \in Nat, NEW a, NEW R
  PROVE  \E g : Steps(m, a, R, g)
<1>. DEFINE T == {n \in Nat : ~ \E g : Steps(n, a, R, g)}
<1>. SUFFICES ASSUME T # {} PROVE FALSE
  OBVIOUS
<1>1. PICK n \in T : \A k \in T : n <= k
  <2>. HIDE DEF T
  <2>1. T \in SUBSET Nat
    BY DEF T
  <2>. QED BY <2>1, Least
<1>2. n \in Nat /\ ~ \E g : Steps(n, a, R, g)
  BY <1>1
<1>3. CASE n = 0
  <2>1. PICK g : g = [i \in 0 .. 0 |-> a]
    OBVIOUS
  <2>2. g = [i \in 0 .. 0 |-> IF i = 0 THEN a ELSE R[i][g[i - 1]]]
    BY ONLY <2>1
  <2>3. Steps(n, a, R, g)
    BY ONLY <1>3, <2>2 DEF Steps
  <2>. QED BY ONLY <1>2, <2>3
<1>4. CASE n # 0
  <2>1. n - 1 \in Nat /\ n - 1 \notin T
    BY <1>1, <1>4
  <2>2. PICK g : Steps(n - 1, a, R, g)
    BY <2>1
  <2>3. PICK h : h = [i \in 0 .. n |-> IF i = n THEN R[n][g[n - 1]] ELSE g[i]]
    OBVIOUS
  <2>4. ASSUME NEW i \in 0 .. n
        PROVE  h[i] = IF i = 0 THEN a ELSE R[i][h[i - 1]]
    <3>1. h[i] = (IF i = n THEN R[n][g[n - 1]] ELSE g[i])
      BY ONLY <2>3, <2>4
    <3>2. g = [j \in 0 .. n - 1 |-> IF j = 0 THEN a ELSE R[j][g[j - 1]]]
      BY ONLY <2>2 DEF Steps
    <3>3. CASE i = n
      <4>1. h[n - 1] = g[n - 1]
        BY ONLY <1>2, <1>4, <2>3
      <4>. QED BY ONLY <1>4, <3>1, <3>3, <4>1
    <3>4. CASE i # n
      <4>1. i \in 0 .. n - 1
        BY ONLY <1>2, <2>4, <3>4
      <4>2. g[i] = IF i = 0 THEN a ELSE R[i][g[i - 1]]
        BY ONLY <3>2, <4>1
      <4>3. i # 0 => h[i - 1] = g[i - 1]
        BY ONLY <1>2, <2>3, <4>1
      <4>. QED BY ONLY <3>1, <3>4, <4>2, <4>3
    <3>. QED BY <3>3, <3>4
  <2>5. Steps(n, a, R, h)
    BY ONLY <2>3, <2>4 DEF Steps
  <2>. QED BY ONLY <1>2, <2>5
<1>. QED BY <1>3, <1>4

LEMMA FirstOfIs ==
  ASSUME NEW S \in SUBSET Nat, S # {}, NEW o
  PROVE  FirstOf(S, o) \in S /\ \A j \in S : FirstOf(S, o) <= j
<1>1. \E i \in S : \A j \in S : i <= j
  BY ONLY S \in SUBSET Nat, S # {}, Least
<1>. QED BY <1>1 DEF FirstOf

\* reserve() finds room.
LEMMA DoubledIs ==
  ASSUME NEW cap \in Nat, cap > 0, NEW n \in Nat
  PROVE  Doubled(cap, n) \in Nat /\ Doubled(cap, n) >= n /\ Doubled(cap, n) > 0
<1>1. PICK R : R = [e \in 1 .. n |-> [x \in Nat |-> 2 * x]]
  OBVIOUS
<1>2. PICK g : Steps(n, cap, R, g)
  BY StepsExist
<1>3. g = [e \in 0 .. n |-> IF e = 0 THEN cap ELSE R[e][g[e - 1]]]
  BY ONLY <1>2 DEF Steps
<1>4. PICK bad : bad = {e \in 0 .. n : ~ (g[e] \in Nat /\ g[e] > e)}
  OBVIOUS
<1>5. bad = {}
  <2>. SUFFICES ASSUME bad # {} PROVE FALSE
    OBVIOUS
  <2>1. bad \in SUBSET Nat
    BY ONLY <1>4
  <2>2. PICK e \in bad : \A k \in bad : e <= k
    BY ONLY <2>1, bad # {}, Least
  <2>3. e \in 0 .. n /\ ~ (g[e] \in Nat /\ g[e] > e)
    BY ONLY <1>4, <2>2
  <2>4. e # 0
    BY ONLY <1>3, <2>3, cap \in Nat, cap > 0
  <2>5. e - 1 \in 0 .. n /\ e - 1 < e /\ e \in 1 .. n
    BY ONLY <2>3, <2>4, n \in Nat
  <2>6. e - 1 \notin bad
    BY ONLY <2>1, <2>2, <2>3, <2>5
  <2>7. g[e - 1] \in Nat /\ g[e - 1] > e - 1
    BY ONLY <1>4, <2>5, <2>6
  <2>8. g[e] = 2 * g[e - 1]
    <3>1. g[e] = R[e][g[e - 1]]
      BY ONLY <1>3, <2>3, <2>4
    <3>2. R[e] = [x \in Nat |-> 2 * x]
      BY ONLY <1>1, <2>5
    <3>. QED BY ONLY <2>7, <3>1, <3>2
  <2>. QED BY ONLY <2>3, <2>5, <2>7, <2>8
<1>6. \A e \in 0 .. n : g[e] \in Nat /\ g[e] > e
  BY ONLY <1>4, <1>5
<1>7. g = [e \in 0 .. n |-> IF e = 0 THEN cap ELSE 2 * g[e - 1]]
  <2>1. PICK h : h = [e \in 0 .. n |-> IF e = 0 THEN cap ELSE 2 * g[e - 1]]
    OBVIOUS
  <2>2. ASSUME NEW e \in 0 .. n PROVE g[e] = h[e]
    <3>1. CASE e = 0
      BY ONLY <1>3, <2>1, <2>2, <3>1
    <3>2. CASE e # 0
      <4>1. e - 1 \in 0 .. n /\ e \in 1 .. n
        BY ONLY <2>2, <3>2, n \in Nat
      <4>2. g[e - 1] \in Nat /\ R[e] = [x \in Nat |-> 2 * x] /\ g[e] = R[e][g[e - 1]]
        BY ONLY <1>1, <1>3, <1>6, <2>2, <3>2, <4>1
      <4>3. h[e] = 2 * g[e - 1]
        BY ONLY <2>1, <2>2, <3>2
      <4>. QED BY ONLY <4>2, <4>3
    <3>. QED BY ONLY <3>1, <3>2
  <2>3. g = [e \in 0 .. n |-> g[e]] /\ h = [e \in 0 .. n |-> h[e]]
    BY ONLY <1>3, <2>1
  <2>4. g = h
    BY ONLY <2>2, <2>3
  <2>. QED BY ONLY <2>1, <2>4
<1>8. PICK G : G = CHOOSE f : f = [e \in 0 .. n |-> IF e = 0 THEN cap ELSE 2 * f[e - 1]]
  OBVIOUS
<1>9. G = [e \in 0 .. n |-> IF e = 0 THEN cap ELSE 2 * G[e - 1]]
  BY ONLY <1>7, <1>8
<1>10. \A e \in 0 .. n : G[e] = g[e]
  <2>1. PICK off : off = {e \in 0 .. n : G[e] # g[e]}
    OBVIOUS
  <2>2. off = {}
    <3>. SUFFICES ASSUME off # {} PROVE FALSE
      OBVIOUS
    <3>1. off \in SUBSET Nat
      BY ONLY <2>1
    <3>2. PICK e \in off : \A k \in off : e <= k
      BY ONLY <3>1, off # {}, Least
    <3>3. e \in 0 .. n /\ G[e] # g[e]
      BY ONLY <2>1, <3>2
    <3>4. e # 0
      BY ONLY <1>7, <1>9, <3>3
    <3>5. e - 1 \in 0 .. n /\ e - 1 < e
      BY ONLY <3>3, <3>4, n \in Nat
    <3>6. e - 1 \notin off
      BY ONLY <3>1, <3>2, <3>3, <3>5
    <3>7. G[e - 1] = g[e - 1]
      BY ONLY <2>1, <3>5, <3>6
    <3>. QED BY ONLY <1>7, <1>9, <3>3, <3>4, <3>7
  <2>. QED BY ONLY <2>1, <2>2
<1>11. PICK E : E = {e \in 0 .. n : G[e] >= n}
  OBVIOUS
<1>12. n \in E /\ E \in SUBSET Nat
  <2>1. n \in 0 .. n
    BY ONLY n \in Nat
  <2>2. G[n] \in Nat /\ G[n] > n
    BY ONLY <1>6, <1>10, <2>1
  <2>3. G[n] >= n
    BY ONLY <2>2, n \in Nat
  <2>. QED BY ONLY <1>11, <2>1, <2>3
<1>13. FirstOf(E, n) \in E
  BY ONLY <1>12, FirstOfIs
<1>14. Doubled(cap, n) = G[FirstOf(E, n)]
  BY ONLY <1>8, <1>11 DEF Doubled
<1>15. PICK e : e = FirstOf(E, n)
  OBVIOUS
<1>16. e \in 0 .. n /\ G[e] >= n /\ G[e] \in Nat /\ G[e] > e
  BY ONLY <1>6, <1>10, <1>11, <1>13, <1>15
<1>. QED BY ONLY <1>14, <1>15, <1>16

-----------------------------------------------------------------------------
\* A string has room for its characters.
IsString(s) ==
  /\ s = [heap |-> s.heap, cap |-> s.cap, chars |-> s.chars, save |-> s.save]
  /\ s.cap \in Nat /\ s.cap > 0 /\ s.chars \in Seq(Sign) /\ Len(s.chars) <= s.cap /\ s.save \in Nat

LEMMA ReserveIs ==
  ASSUME NEW s, IsString(s), NEW n \in Nat
  PROVE  /\ IsString(Reserve(s, n)) /\ n <= Reserve(s, n).cap
         /\ Reserve(s, n).chars = s.chars /\ Reserve(s, n).save = s.save
<1>1. /\ s = [heap |-> s.heap, cap |-> s.cap, chars |-> s.chars, save |-> s.save]
      /\ s.cap \in Nat /\ s.cap > 0 /\ s.chars \in Seq(Sign) /\ Len(s.chars) <= s.cap /\ s.save \in Nat
  BY DEF IsString
<1>2. CASE n <= s.cap
  <2>1. Reserve(s, n) = s
    BY ONLY <1>2 DEF Reserve
  <2>. QED BY ONLY <1>2, <2>1, IsString(s)
<1>3. CASE ~ n <= s.cap
  <2>1. PICK cap : cap = IF s.heap THEN s.cap ELSE 2 * Short
    OBVIOUS
  <2>2. cap \in Nat /\ cap > 0
    <3>1. Short \in Nat /\ Short > 0
      BY TextAssumption
    <3>2. 2 * Short \in Nat /\ 2 * Short > 0
      BY ONLY <3>1
    <3>. QED BY ONLY <1>1, <2>1, <3>2
  <2>3. PICK room : room = Doubled(cap, n)
    OBVIOUS
  <2>4. room \in Nat /\ room >= n /\ room > 0
    BY ONLY <2>2, <2>3, DoubledIs, n \in Nat
  <2>5. Reserve(s, n) = [s EXCEPT !.heap = TRUE, !.cap = room]
    BY ONLY <1>3, <2>1, <2>3 DEF Reserve
  <2>6. Reserve(s, n) = [heap |-> TRUE, cap |-> room, chars |-> s.chars, save |-> s.save]
    BY ONLY <1>1, <2>5
  <2>7. PICK r : r = Reserve(s, n)
    OBVIOUS
  <2>8. /\ r = [heap |-> r.heap, cap |-> r.cap, chars |-> r.chars, save |-> r.save]
        /\ r.cap = room /\ r.chars = s.chars /\ r.save = s.save
    BY ONLY <2>6, <2>7
  <2>9. Len(s.chars) \in Nat /\ Len(s.chars) <= room
    BY ONLY <1>1, <1>3, <2>4, n \in Nat
  <2>10. IsString(r)
    BY ONLY <1>1, <2>4, <2>8, <2>9 DEF IsString
  <2>. QED BY ONLY <2>4, <2>7, <2>8, <2>10, n \in Nat
<1>. QED BY ONLY <1>2, <1>3

LEMMA AppendToIs ==
  ASSUME NEW s, IsString(s), NEW chars \in Seq(Sign)
  PROVE  /\ IsString(AppendTo(s, chars)) /\ AppendTo(s, chars).chars = s.chars \o chars
         /\ AppendTo(s, chars).save = s.save
<1>1. s.chars \in Seq(Sign)
  BY DEF IsString
<1>2. PICK n : n = Length(s) + Len(chars)
  OBVIOUS
<1>3. /\ s.chars \o chars \in Seq(Sign) /\ Len(s.chars \o chars) = n /\ n \in Nat
  <2>1. Len(s.chars) \in Nat /\ Len(chars) \in Nat
    BY ONLY <1>1, chars \in Seq(Sign)
  <2>2. s.chars \o chars \in Seq(Sign) /\ Len(s.chars \o chars) = Len(s.chars) + Len(chars)
    BY ONLY <1>1, chars \in Seq(Sign), ConcatProperties
  <2>. QED BY ONLY <1>2, <2>1, <2>2 DEF Length
<1>4. PICK r : r = Reserve(s, n)
  OBVIOUS
<1>5. IsString(r) /\ n <= r.cap /\ r.chars = s.chars /\ r.save = s.save
  BY ONLY <1>3, <1>4, ReserveIs, IsString(s)
<1>6. /\ r = [heap |-> r.heap, cap |-> r.cap, chars |-> r.chars, save |-> r.save]
      /\ r.cap \in Nat /\ r.cap > 0 /\ r.save \in Nat
  BY ONLY <1>5 DEF IsString
<1>7. PICK t, both : t = AppendTo(s, chars) /\ both = s.chars \o chars
  OBVIOUS
<1>8. t = [r EXCEPT !.chars = both]
  BY ONLY <1>2, <1>4, <1>5, <1>7 DEF AppendTo
<1>9. t = [heap |-> r.heap, cap |-> r.cap, chars |-> both, save |-> r.save]
  BY ONLY <1>6, <1>8
<1>10. /\ t = [heap |-> t.heap, cap |-> t.cap, chars |-> t.chars, save |-> t.save]
       /\ t.cap = r.cap /\ t.chars = both /\ t.save = r.save
  BY ONLY <1>9
<1>11. IsString(t)
  BY ONLY <1>3, <1>5, <1>6, <1>7, <1>10 DEF IsString
<1>. QED BY ONLY <1>5, <1>7, <1>10, <1>11

\* A piece of a sequence
LEMMA PieceIs ==
  ASSUME NEW q \in Seq(Sign), NEW m \in Nat, NEW n \in Nat, n <= Len(q), m > 0
  PROVE  /\ SubSeq(q, m, n) \in Seq(Sign)
         /\ Len(SubSeq(q, m, n)) = IF m <= n THEN n - m + 1 ELSE 0
         /\ \A i \in 1 .. n - m + 1 : SubSeq(q, m, n)[i] = q[m + i - 1]
<1>1. \A i \in m .. n : q[i] \in Sign
  BY ONLY q \in Seq(Sign), n <= Len(q), m \in Nat, n \in Nat, m > 0
<1>. QED BY ONLY <1>1, SubSeqProperties, m \in Nat, n \in Nat

\* Other characters in the same string, not more of them
Shortened(t, s, chars, save) ==
  /\ t = [s EXCEPT !.chars = chars, !.save = save]
  /\ chars \in Seq(Sign) /\ Len(chars) <= Len(s.chars) /\ save \in Nat

LEMMA ShorterIs ==
  ASSUME NEW s, IsString(s), NEW t, NEW chars, NEW save, Shortened(t, s, chars, save)
  PROVE  IsString(t) /\ t.chars = chars /\ t.save = save
<1>. /\ t = [s EXCEPT !.chars = chars, !.save = save]
     /\ chars \in Seq(Sign) /\ Len(chars) <= Len(s.chars) /\ save \in Nat
  BY DEF Shortened
<1>1. /\ s = [heap |-> s.heap, cap |-> s.cap, chars |-> s.chars, save |-> s.save]
      /\ s.cap \in Nat /\ s.cap > 0 /\ s.chars \in Seq(Sign) /\ Len(s.chars) <= s.cap
  BY DEF IsString
<1>2. t = [heap |-> s.heap, cap |-> s.cap, chars |-> chars, save |-> save]
  BY ONLY <1>1, t = [s EXCEPT !.chars = chars, !.save = save]
<1>3. /\ t = [heap |-> t.heap, cap |-> t.cap, chars |-> t.chars, save |-> t.save]
      /\ t.cap = s.cap /\ t.chars = chars /\ t.save = save
  BY ONLY <1>2
<1>4. Len(chars) \in Nat /\ Len(s.chars) \in Nat
  BY ONLY <1>1, chars \in Seq(Sign)
<1>5. Len(chars) <= s.cap
  BY ONLY <1>1, <1>4, Len(chars) <= Len(s.chars)
<1>. QED BY ONLY <1>1, <1>3, <1>5, chars \in Seq(Sign), save \in Nat DEF IsString

LEMMA AssignedIs ==
  ASSUME NEW s, IsString(s), NEW chars \in Seq(Sign)
  PROVE  IsString(Assigned(s, chars)) /\ Assigned(s, chars).chars = chars /\ Assigned(s, chars).save = 0
<1>1. PICK none, o : none = <<>> /\ o = 0
  OBVIOUS
<1>2. none \in Seq(Sign) /\ o \in Nat /\ Len(none) <= Len(s.chars)
  <2>1. Len(s.chars) \in Nat
    BY DEF IsString
  <2>. QED BY ONLY <1>1, <2>1
<1>3. PICK t : t = [s EXCEPT !.chars = none, !.save = o]
  OBVIOUS
<1>4. IsString(t) /\ t.chars = none /\ t.save = o
  <2>1. Shortened(t, s, none, o)
    BY ONLY <1>2, <1>3 DEF Shortened
  <2>. QED BY ONLY <2>1, ShorterIs, IsString(s)
<1>5. Assigned(s, chars) = AppendTo(t, chars)
  BY ONLY <1>1, <1>3 DEF Assigned
<1>6. /\ IsString(AppendTo(t, chars)) /\ AppendTo(t, chars).chars = none \o chars
      /\ AppendTo(t, chars).save = o
  BY ONLY <1>4, AppendToIs, chars \in Seq(Sign)
<1>7. none \o chars = chars
  BY ONLY <1>1, ConcatEmptySeq, chars \in Seq(Sign)
<1>. QED BY ONLY <1>1, <1>5, <1>6, <1>7

\* resize() to a smaller length cuts the end off.
LEMMA CutShort ==
  ASSUME NEW s, IsString(s), NEW n \in Nat, n <= Len(s.chars), NEW c
  PROVE  /\ IsString(Resized(s, n, c)) /\ Resized(s, n, c).chars = SubSeq(s.chars, 1, n)
         /\ Resized(s, n, c).save = s.save
<1>1. /\ s = [heap |-> s.heap, cap |-> s.cap, chars |-> s.chars, save |-> s.save]
      /\ s.chars \in Seq(Sign) /\ s.save \in Nat
  BY DEF IsString
<1>2. PICK q : q = SubSeq(s.chars, 1, n)
  OBVIOUS
<1>3. q \in Seq(Sign) /\ Len(q) = n
  BY ONLY <1>1, <1>2, PieceIs, n \in Nat, n <= Len(s.chars)
<1>4. Resized(s, n, c) = [s EXCEPT !.chars = q]
  BY ONLY <1>2, n <= Len(s.chars) DEF Resized, Length
<1>5. PICK save : save = s.save
  OBVIOUS
<1>6. Shortened(Resized(s, n, c), s, q, save)
  <2>1. [s EXCEPT !.chars = q] = [s EXCEPT !.chars = q, !.save = save]
    BY ONLY <1>1, <1>5
  <2>. QED BY ONLY <1>1, <1>3, <1>4, <1>5, <2>1, n <= Len(s.chars) DEF Shortened
<1>7. /\ IsString(Resized(s, n, c)) /\ Resized(s, n, c).chars = q
      /\ Resized(s, n, c).save = save
  BY ONLY <1>6, ShorterIs, IsString(s)
<1>. QED BY ONLY <1>2, <1>5, <1>7

\* substr() to the end
LEMMA EndIs ==
  ASSUME NEW s, IsString(s), NEW q, q = s.chars, Len(q) <= MaxLen, NEW pos \in Nat
  PROVE  /\ Substr(s, pos, Npos) = SubSeq(q, pos + 1, Len(q))
         /\ Substr(s, pos, Npos) \in Seq(Sign)
<1>1. q \in Seq(Sign) /\ Len(q) \in Nat
  <2>1. q \in Seq(Sign)
    BY DEF IsString
  <2>. QED BY ONLY <2>1
<1>2. Npos \in Nat /\ Npos > Len(q)
  <2>1. MaxLen \in Nat /\ Npos = MaxLen + 1
    BY TextAssumption DEF Npos
  <2>. QED BY ONLY <1>1, <2>1, Len(q) <= MaxLen
<1>3. PICK n, m : n = Len(q) /\ m = pos + 1
  OBVIOUS
<1>4. n \in Nat /\ m \in Nat /\ m > 0 /\ n <= Len(q)
  BY ONLY <1>1, <1>3, pos \in Nat
<1>5. Substr(s, pos, Npos) = IF pos >= n THEN <<>> ELSE SubSeq(q, m, n)
  <2>1. ~ (pos + Npos < n)
    BY ONLY <1>1, <1>2, <1>3, pos \in Nat
  <2>2. Substr(s, pos, Npos) = IF pos >= n THEN <<>>
                               ELSE SubSeq(q, m, IF pos + Npos < n THEN pos + Npos ELSE n)
    BY ONLY <1>3, q = s.chars DEF Substr, Length
  <2>. QED BY ONLY <2>1, <2>2
<1>6. CASE pos >= n
  <2>1. n < m /\ m \in Int /\ n \in Int
    BY ONLY <1>3, <1>4, <1>6, pos \in Nat
  <2>2. SubSeq(q, m, n) = <<>>
    BY ONLY <2>1, SubSeqEmpty
  <2>3. <<>> \in Seq(Sign)
    OBVIOUS
  <2>. QED BY ONLY <1>3, <1>5, <1>6, <2>2, <2>3
<1>7. CASE ~ (pos >= n)
  <2>1. SubSeq(q, m, n) \in Seq(Sign)
    BY ONLY <1>1, <1>4, PieceIs
  <2>. QED BY ONLY <1>3, <1>5, <1>7, <2>1
<1>. QED BY ONLY <1>6, <1>7

Keeps(s, q) == IsString(s) /\ q = s.chars /\ Len(q) <= MaxLen

LEMMA InsertedIs ==
  ASSUME NEW s, NEW q, Keeps(s, q), NEW pos \in Nat, pos <= Len(q), NEW chars \in Seq(Sign)
  PROVE  /\ IsString(Inserted(s, pos, chars))
         /\ Inserted(s, pos, chars).chars = SubSeq(q, 1, pos) \o chars \o SubSeq(q, pos + 1, Len(q))
<1>. IsString(s) /\ q = s.chars /\ Len(q) <= MaxLen
  BY DEF Keeps
<1>1. PICK front, last, r1, r2 :
        /\ front = SubSeq(q, 1, pos) /\ last = Substr(s, pos, Npos)
        /\ r1 = Resized(s, pos, Space) /\ r2 = AppendTo(r1, chars)
  OBVIOUS
<1>2. last = SubSeq(q, pos + 1, Len(q)) /\ last \in Seq(Sign)
  BY ONLY <1>1, EndIs, IsString(s), q = s.chars, Len(q) <= MaxLen, pos \in Nat
<1>3. IsString(r1) /\ r1.chars = front
  BY ONLY <1>1, CutShort, IsString(s), q = s.chars, pos \in Nat, pos <= Len(q)
<1>4. IsString(r2) /\ r2.chars = front \o chars
  BY ONLY <1>1, <1>3, AppendToIs, chars \in Seq(Sign)
<1>5. IsString(AppendTo(r2, last)) /\ AppendTo(r2, last).chars = front \o chars \o last
  BY ONLY <1>2, <1>4, AppendToIs
<1>6. ~ (pos > Len(q))
  <2>1. Len(q) \in Nat
    BY DEF IsString
  <2>. QED BY ONLY <2>1, pos \in Nat, pos <= Len(q)
<1>7. Inserted(s, pos, chars) = AppendTo(r2, last)
  BY ONLY <1>1, <1>6, q = s.chars DEF Inserted, Length
<1>. QED BY ONLY <1>1, <1>2, <1>5, <1>7

LEMMA ErasedIs ==
  ASSUME NEW s, NEW q, Keeps(s, q), NEW pos \in Nat, pos <= Len(q), NEW len \in Nat
  PROVE  IsString(Erased(s, pos, len)) /\ Erased(s, pos, len).chars = Cut(q, pos, len)
<1>. IsString(s) /\ q = s.chars /\ Len(q) <= MaxLen
  BY DEF Keeps
<1>1. q \in Seq(Sign) /\ Len(q) \in Nat
  <2>1. q \in Seq(Sign)
    BY DEF IsString
  <2>. QED BY ONLY <2>1
<1>2. Npos \in Nat /\ Npos > Len(q)
  <2>1. MaxLen \in Nat /\ Npos = MaxLen + 1
    BY TextAssumption DEF Npos
  <2>. QED BY ONLY <1>1, <2>1, Len(q) <= MaxLen
<1>3. PICK n, k, front, last : /\ n = Len(q) /\ k = pos + len
                               /\ front = SubSeq(q, 1, pos) /\ last = SubSeq(q, k + 1, n)
  OBVIOUS
<1>4. front \in Seq(Sign) /\ Len(front) = pos
  BY ONLY <1>1, <1>3, PieceIs, pos \in Nat, pos <= Len(q)
<1>5. last \in Seq(Sign) /\ (k >= n => last = <<>>)
  <2>1. k + 1 \in Nat /\ k + 1 > 0 /\ n \in Nat /\ n <= Len(q) /\ k + 1 \in Int /\ n \in Int /\ k >= pos
    BY ONLY <1>1, <1>3, pos \in Nat, len \in Nat
  <2>2. PICK m : m = k + 1
    OBVIOUS
  <2>3. last \in Seq(Sign)
    BY ONLY <1>1, <1>3, <2>1, <2>2, PieceIs
  <2>4. k >= n => n < m
    BY ONLY <1>3, <2>1, <2>2, pos \in Nat, len \in Nat
  <2>5. k >= n => last = <<>>
    BY ONLY <1>3, <2>1, <2>2, <2>4, SubSeqEmpty
  <2>. QED BY ONLY <2>3, <2>5
<1>6. Cut(q, pos, len) = front \o last
  BY ONLY <1>3 DEF Cut
<1>7. front \o last \in Seq(Sign)
  BY ONLY <1>4, <1>5, ConcatProperties
<1>8. CASE pos >= n
  <2>1. k >= n /\ pos = n
    BY ONLY <1>1, <1>3, <1>8, pos \in Nat, pos <= Len(q), len \in Nat
  <2>2. front = q
    BY ONLY <1>1, <1>3, <2>1, SubSeqFull
  <2>3. front \o last = q
    BY ONLY <1>1, <1>5, <2>1, <2>2, ConcatEmptySeq
  <2>4. Erased(s, pos, len) = s
    BY ONLY <1>3, <1>8, q = s.chars DEF Erased, Length
  <2>. QED BY ONLY <1>6, <1>7, <2>3, <2>4, IsString(s), q = s.chars
<1>9. CASE ~ (pos >= n)
  <2>1. PICK p, e : /\ p = Substr(s, 0, pos)
                    /\ e = IF len = Npos THEN <<>> ELSE Substr(s, k, Npos)
    OBVIOUS
  <2>2. p = front
    <3>1. ~ (0 >= n) /\ 0 + pos < n /\ 0 + 1 = 1 /\ 0 + pos = pos
      BY ONLY <1>1, <1>3, <1>9, pos \in Nat
    <3>2. p = SubSeq(q, 0 + 1, 0 + pos)
      BY ONLY <1>3, <2>1, <3>1, q = s.chars DEF Substr, Length
    <3>. QED BY ONLY <1>3, <3>1, <3>2
  <2>3. e = last
    <3>1. CASE len = Npos
      <4>1. k >= n
        BY ONLY <1>1, <1>2, <1>3, <3>1, pos \in Nat
      <4>. QED BY ONLY <1>5, <2>1, <3>1, <4>1
    <3>2. CASE len # Npos
      <4>1. k \in Nat
        BY ONLY <1>3, pos \in Nat, len \in Nat
      <4>2. Substr(s, k, Npos) = SubSeq(q, k + 1, Len(q))
        BY ONLY <4>1, EndIs, IsString(s), q = s.chars, Len(q) <= MaxLen
      <4>. QED BY ONLY <1>3, <2>1, <3>2, <4>2
    <3>. QED BY ONLY <3>1, <3>2
  <2>4. Erased(s, pos, len) = Assigned(s, p \o e)
    BY ONLY <1>3, <1>9, <2>1, q = s.chars DEF Erased, Length
  <2>5. IsString(Assigned(s, front \o last)) /\ Assigned(s, front \o last).chars = front \o last
    BY ONLY <1>7, AssignedIs, IsString(s)
  <2>. QED BY ONLY <1>6, <1>7, <2>2, <2>3, <2>4, <2>5
<1>. QED BY ONLY <1>8, <1>9

LEMMA ResizedIs ==
  ASSUME NEW s, IsString(s), NEW q, q = s.chars, NEW n \in Nat
  PROVE  /\ IsString(Resized(s, n, Space))
         /\ Resized(s, n, Space).chars = [i \in 1 .. n |-> IF i <= Len(q) THEN q[i] ELSE Space]
<1>1. q \in Seq(Sign) /\ Len(q) \in Nat
  <2>1. q \in Seq(Sign)
    BY DEF IsString
  <2>. QED BY ONLY <2>1
<1>2. PICK want : want = [i \in 1 .. n |-> IF i <= Len(q) THEN q[i] ELSE Space]
  OBVIOUS
<1>3. want \in Seq(Sign) /\ Len(want) = n
  <2>1. Space \in Sign
    BY TextAssumption
  <2>2. \A i \in 1 .. n : (IF i <= Len(q) THEN q[i] ELSE Space) \in Sign
    BY ONLY <1>1, <2>1, n \in Nat
  <2>. QED BY ONLY <1>2, <2>2, n \in Nat
<1>4. CASE n <= Len(q)
  <2>1. PICK got : got = SubSeq(q, 1, n)
    OBVIOUS
  <2>2. /\ got \in Seq(Sign) /\ Len(got) = n /\ \A i \in 1 .. n - 1 + 1 : got[i] = q[1 + i - 1]
    BY ONLY <1>1, <1>4, <2>1, PieceIs, n \in Nat
  <2>3. \A i \in 1 .. n : got[i] = want[i]
    BY ONLY <1>1, <1>2, <1>4, <2>2, n \in Nat
  <2>4. got = want
    BY ONLY <1>3, <2>2, <2>3, SeqEqual
  <2>5. IsString(Resized(s, n, Space)) /\ Resized(s, n, Space).chars = SubSeq(q, 1, n)
    BY ONLY <1>4, CutShort, IsString(s), q = s.chars, n \in Nat
  <2>. QED BY ONLY <1>2, <2>1, <2>4, <2>5
<1>5. CASE ~ (n <= Len(q))
  <2>1. PICK more, m : m = n - Len(q) /\ more = [i \in 1 .. m |-> Space]
    OBVIOUS
  <2>2. m \in Nat /\ m + Len(q) = n
    BY ONLY <1>1, <1>5, <2>1, n \in Nat
  <2>3. more \in Seq(Sign) /\ Len(more) = m /\ \A i \in 1 .. m : more[i] = Space
    <3>1. Space \in Sign
      BY TextAssumption
    <3>. QED BY ONLY <2>1, <2>2, <3>1
  <2>4. PICK got : got = q \o more
    OBVIOUS
  <2>5. /\ got \in Seq(Sign) /\ Len(got) = Len(q) + m
        /\ \A i \in 1 .. Len(q) + m : got[i] = IF i <= Len(q) THEN q[i] ELSE more[i - Len(q)]
    BY ONLY <1>1, <2>3, <2>4, ConcatProperties
  <2>6. \A i \in 1 .. n : got[i] = want[i]
    <3>. SUFFICES ASSUME NEW i \in 1 .. n PROVE got[i] = want[i]
      OBVIOUS
    <3>1. ~ (i <= Len(q)) => i - Len(q) \in 1 .. m
      BY ONLY <1>1, <2>2, i \in 1 .. n, n \in Nat
    <3>2. i \in 1 .. Len(q) + m
      BY ONLY <1>1, <2>2, i \in 1 .. n, n \in Nat
    <3>. QED BY ONLY <1>2, <2>3, <2>5, <3>1, <3>2
  <2>7. got = want
    <3>1. Len(got) = n
      BY ONLY <1>1, <2>2, <2>5
    <3>. QED BY ONLY <1>3, <2>5, <2>6, <3>1, SeqEqual
  <2>8. Resized(s, n, Space) = AppendTo(s, more)
    BY ONLY <1>5, <2>1, q = s.chars DEF Resized, Length
  <2>9. IsString(AppendTo(s, more)) /\ AppendTo(s, more).chars = q \o more
    BY ONLY <2>3, AppendToIs, IsString(s), q = s.chars
  <2>. QED BY ONLY <1>2, <2>4, <2>7, <2>8, <2>9
<1>. QED BY ONLY <1>4, <1>5

-----------------------------------------------------------------------------
\* The words of a text, up to each of its places
Delims == {Space, Feed}
WordEnds(c, i) == c[i] \notin Delims /\ (i = Len(c) \/ c[i + 1] \in Delims)
WordAt(c, e) == SubSeq(c, FirstOf({b \in 1 .. e : \A j \in b .. e : c[j] \notin Delims}, e), e)
Words(w, c) ==
  w = [i \in 0 .. Len(c) |-> IF i = 0 THEN <<>>
                              ELSE IF WordEnds(c, i) THEN Append(w[i - 1], WordAt(c, i)) ELSE w[i - 1]]

LEMMA WordAtIs ==
  ASSUME NEW c \in Seq(Sign), NEW i \in 1 .. Len(c)
  PROVE  WordAt(c, i) \in Seq(Sign)
<1>1. PICK B : B = {b \in 1 .. i : \A j \in b .. i : c[j] \notin Delims}
  OBVIOUS
<1>2. PICK b : b = FirstOf(B, i)
  OBVIOUS
<1>3. i \in Nat /\ i > 0 /\ i <= Len(c)
  BY ONLY c \in Seq(Sign), i \in 1 .. Len(c)
<1>4. b \in 1 .. i
  <2>1. CASE B = {}
    BY ONLY <1>2, <1>3, <2>1 DEF FirstOf
  <2>2. CASE B # {}
    <3>1. B \in SUBSET Nat /\ B \subseteq 1 .. i
      BY ONLY <1>1, <1>3
    <3>2. b \in B
      BY ONLY <1>2, <2>2, <3>1, FirstOfIs
    <3>. QED BY ONLY <3>1, <3>2
  <2>. QED BY ONLY <2>1, <2>2
<1>5. b \in Nat /\ b > 0
  BY ONLY <1>3, <1>4
<1>6. SubSeq(c, b, i) \in Seq(Sign)
  BY ONLY <1>3, <1>5, PieceIs, c \in Seq(Sign)
<1>. QED BY ONLY <1>1, <1>2, <1>6 DEF WordAt

LEMMA WordsStep ==
  ASSUME NEW c \in Seq(Sign), NEW w, Words(w, c)
  PROVE  /\ w[0] = <<>>
         /\ \A i \in 1 .. Len(c) : i - 1 \in 0 .. Len(c) /\
              w[i] = IF WordEnds(c, i) THEN Append(w[i - 1], WordAt(c, i)) ELSE w[i - 1]
<1>1. PICK n : n = Len(c)
  OBVIOUS
<1>2. n \in Nat
  BY ONLY <1>1, c \in Seq(Sign)
<1>3. w = [i \in 0 .. n |-> IF i = 0 THEN <<>>
                             ELSE IF WordEnds(c, i) THEN Append(w[i - 1], WordAt(c, i)) ELSE w[i - 1]]
  BY ONLY <1>1, Words(w, c) DEF Words
<1>4. 0 \in 0 .. n /\ \A i \in 1 .. n : i \in 0 .. n /\ i # 0 /\ i - 1 \in 0 .. n
  BY ONLY <1>2
<1>. QED BY ONLY <1>1, <1>3, <1>4

LEMMA WordsAre ==
  ASSUME NEW c \in Seq(Sign), NEW w, Words(w, c)
  PROVE  \A i \in 0 .. Len(c) : w[i] \in Seq(Seq(Sign))
<1>1. PICK n : n = Len(c)
  OBVIOUS
<1>2. n \in Nat
  BY ONLY <1>1, c \in Seq(Sign)
<1>3. PICK bad : bad = {i \in 0 .. n : w[i] \notin Seq(Seq(Sign))}
  OBVIOUS
<1>4. bad = {}
  <2>. SUFFICES ASSUME bad # {} PROVE FALSE
    OBVIOUS
  <2>4. bad \in SUBSET Nat
    BY ONLY <1>2, <1>3
  <2>5. PICK i \in bad : \A j \in bad : i <= j
    BY ONLY <2>4, bad # {}, Least
  <2>6. i \in 0 .. n /\ w[i] \notin Seq(Seq(Sign))
    BY ONLY <1>3, <2>5
  <2>7. i # 0
    <3>1. <<>> \in Seq(Seq(Sign))
      OBVIOUS
    <3>. QED BY ONLY <2>6, <3>1, WordsStep, c \in Seq(Sign), Words(w, c)
  <2>8. i - 1 \in 0 .. n /\ i - 1 < i /\ i \in 1 .. n
    BY ONLY <1>2, <2>6, <2>7
  <2>9. i - 1 \notin bad
    BY ONLY <2>4, <2>5, <2>6, <2>8
  <2>10. PICK x, word : x = w[i - 1] /\ word = WordAt(c, i)
    OBVIOUS
  <2>11. x \in Seq(Seq(Sign)) /\ word \in Seq(Sign)
    BY ONLY <1>1, <1>3, <2>8, <2>9, <2>10, WordAtIs, c \in Seq(Sign)
  <2>12. w[i] = x \/ w[i] = Append(x, word)
    BY ONLY <1>1, <2>8, <2>10, WordsStep, c \in Seq(Sign), Words(w, c)
  <2>13. Append(x, word) \in Seq(Seq(Sign))
    BY ONLY <2>11, AppendProperties
  <2>. QED BY ONLY <2>6, <2>11, <2>12, <2>13
<1>. QED BY ONLY <1>1, <1>3, <1>4

\* The words are what Split gives.
WordsOf(c) == CHOOSE w : Words(w, c)

LEMMA WordsAreSplit ==
  ASSUME NEW c \in Seq(Sign)
  PROVE  Words(WordsOf(c), c) /\ Split(c, Delims) = WordsOf(c)[Len(c)]
<1>1. PICK n : n = Len(c)
  OBVIOUS
<1>2. n \in Nat
  BY ONLY <1>1, c \in Seq(Sign)
<1>3. PICK Q : Q = Seq(Seq(Sign))
  OBVIOUS
<1>4. PICK R : R = [i \in 1 .. n |-> [x \in Q |-> IF WordEnds(c, i) THEN Append(x, WordAt(c, i)) ELSE x]]
  OBVIOUS
<1>5. PICK none : none = <<>>
  OBVIOUS
<1>6. PICK g : Steps(n, none, R, g)
  BY ONLY <1>2, StepsExist
<1>7. g = [i \in 0 .. n |-> IF i = 0 THEN none ELSE R[i][g[i - 1]]]
  BY ONLY <1>6 DEF Steps
<1>8. \A i \in 1 .. n : g[i - 1] \in Q =>
        g[i] = IF WordEnds(c, i) THEN Append(g[i - 1], WordAt(c, i)) ELSE g[i - 1]
  <2>. SUFFICES ASSUME NEW i \in 1 .. n, g[i - 1] \in Q
                PROVE  g[i] = IF WordEnds(c, i) THEN Append(g[i - 1], WordAt(c, i)) ELSE g[i - 1]
    OBVIOUS
  <2>1. i \in 0 .. n /\ i # 0
    BY ONLY <1>2, i \in 1 .. n
  <2>2. g[i] = R[i][g[i - 1]]
    BY ONLY <1>7, <2>1
  <2>3. R[i] = [x \in Q |-> IF WordEnds(c, i) THEN Append(x, WordAt(c, i)) ELSE x]
    BY ONLY <1>4, i \in 1 .. n
  <2>. QED BY ONLY <2>2, <2>3, g[i - 1] \in Q
<1>9. \A i \in 0 .. n : g[i] \in Q
  <2>1. PICK bad : bad = {i \in 0 .. n : g[i] \notin Q}
    OBVIOUS
  <2>2. bad = {}
    <3>. SUFFICES ASSUME bad # {} PROVE FALSE
      OBVIOUS
    <3>2. bad \in SUBSET Nat
      BY ONLY <1>2, <2>1
    <3>3. PICK i \in bad : \A j \in bad : i <= j
      BY ONLY <3>2, bad # {}, Least
    <3>4. i \in 0 .. n /\ g[i] \notin Q
      BY ONLY <2>1, <3>3
    <3>5. i # 0
      <4>1. none \in Q
        BY ONLY <1>3, <1>5
      <4>2. 0 \in 0 .. n
        BY ONLY <1>2
      <4>. QED BY ONLY <1>7, <3>4, <4>1, <4>2
    <3>6. i - 1 \in 0 .. n /\ i - 1 < i /\ i \in 1 .. n
      BY ONLY <1>2, <3>4, <3>5
    <3>7. i - 1 \notin bad
      BY ONLY <3>2, <3>3, <3>4, <3>6
    <3>8. PICK x, word : x = g[i - 1] /\ word = WordAt(c, i)
      OBVIOUS
    <3>9. x \in Seq(Seq(Sign)) /\ word \in Seq(Sign)
      BY ONLY <1>1, <1>3, <2>1, <3>6, <3>7, <3>8, WordAtIs, c \in Seq(Sign)
    <3>10. g[i] = x \/ g[i] = Append(x, word)
      BY ONLY <1>3, <1>8, <3>6, <3>8, <3>9
    <3>11. Append(x, word) \in Seq(Seq(Sign))
      BY ONLY <3>9, AppendProperties
    <3>. QED BY ONLY <1>3, <3>4, <3>9, <3>10, <3>11
  <2>. QED BY ONLY <2>1, <2>2
<1>10. g = [i \in 0 .. n |-> IF i = 0 THEN <<>>
                              ELSE IF WordEnds(c, i) THEN Append(g[i - 1], WordAt(c, i)) ELSE g[i - 1]]
  <2>1. PICK h : h = [i \in 0 .. n |-> IF i = 0 THEN <<>>
                        ELSE IF WordEnds(c, i) THEN Append(g[i - 1], WordAt(c, i)) ELSE g[i - 1]]
    OBVIOUS
  <2>2. ASSUME NEW i \in 0 .. n PROVE g[i] = h[i]
    <3>1. CASE i = 0
      BY ONLY <1>5, <1>7, <2>1, <2>2, <3>1
    <3>2. CASE i # 0
      <4>1. i - 1 \in 0 .. n /\ i \in 1 .. n
        BY ONLY <1>2, <2>2, <3>2
      <4>2. h[i] = IF WordEnds(c, i) THEN Append(g[i - 1], WordAt(c, i)) ELSE g[i - 1]
        BY ONLY <2>1, <2>2, <3>2
      <4>. QED BY ONLY <1>8, <1>9, <4>1, <4>2
    <3>. QED BY ONLY <3>1, <3>2
  <2>3. g = [i \in 0 .. n |-> g[i]] /\ h = [i \in 0 .. n |-> h[i]]
    BY ONLY <1>7, <2>1
  <2>4. g = h
    BY ONLY <2>2, <2>3
  <2>. QED BY ONLY <2>1, <2>4
<1>11. Words(g, c)
  BY ONLY <1>1, <1>10 DEF Words
<1>12. Words(WordsOf(c), c)
  BY ONLY <1>11 DEF WordsOf
<1>13. Split(c, Delims) = WordsOf(c)[Len(c)]
  BY ONLY DEF Split, WordsOf, Words, WordEnds, WordAt
<1>. QED BY ONLY <1>12, <1>13

-----------------------------------------------------------------------------
\* One sequence goes on where the other ends.
Extends(y, x) == Len(x) <= Len(y) /\ \A k \in 1 .. Len(x) : y[k] = x[k]

LEMMA WordsGrow ==
  ASSUME NEW c \in Seq(Sign), NEW w, Words(w, c), NEW i \in 0 .. Len(c), NEW j \in i .. Len(c)
  PROVE  Extends(w[j], w[i])
<1>1. PICK n : n = Len(c)
  OBVIOUS
<1>2. n \in Nat /\ i \in 0 .. n /\ j \in i .. n /\ i \in Nat
  BY ONLY <1>1, c \in Seq(Sign), i \in 0 .. Len(c), j \in i .. Len(c)
<1>3. PICK x : x = w[i]
  OBVIOUS
<1>4. x \in Seq(Seq(Sign)) /\ Len(x) \in Nat
  <2>1. x \in Seq(Seq(Sign))
    BY ONLY <1>1, <1>2, <1>3, WordsAre, c \in Seq(Sign), Words(w, c)
  <2>. QED BY ONLY <2>1
<1>5. PICK bad : bad = {k \in i .. n : ~ Extends(w[k], x)}
  OBVIOUS
<1>6. bad = {}
  <2>. SUFFICES ASSUME bad # {} PROVE FALSE
    OBVIOUS
  <2>1. bad \in SUBSET Nat
    BY ONLY <1>2, <1>5
  <2>2. PICK k \in bad : \A l \in bad : k <= l
    BY ONLY <2>1, bad # {}, Least
  <2>3. k \in i .. n /\ ~ Extends(w[k], x)
    BY ONLY <1>5, <2>2
  <2>4. k # i
    <3>1. Extends(x, x)
      BY ONLY <1>4 DEF Extends
    <3>. QED BY ONLY <1>3, <2>3, <3>1
  <2>5. k - 1 \in i .. n /\ k - 1 < k /\ k \in 1 .. n /\ k - 1 \in 0 .. n
    BY ONLY <1>2, <2>3, <2>4
  <2>6. k - 1 \notin bad
    BY ONLY <2>1, <2>2, <2>3, <2>5
  <2>7. PICK y, word : y = w[k - 1] /\ word = WordAt(c, k)
    OBVIOUS
  <2>8. Extends(y, x)
    BY ONLY <1>5, <2>5, <2>6, <2>7
  <2>9. y \in Seq(Seq(Sign)) /\ word \in Seq(Sign)
    BY ONLY <1>1, <2>5, <2>7, WordsAre, WordAtIs, c \in Seq(Sign), Words(w, c)
  <2>10. w[k] = y \/ w[k] = Append(y, word)
    BY ONLY <1>1, <2>5, <2>7, WordsStep, c \in Seq(Sign), Words(w, c)
  <2>11. Extends(Append(y, word), x)
    <3>1. PICK z : z = Append(y, word)
      OBVIOUS
    <3>2. Len(y) \in Nat /\ Len(z) = Len(y) + 1 /\ \A l \in 1 .. Len(y) : z[l] = y[l]
      BY ONLY <2>9, <3>1, AppendProperties
    <3>3. Len(x) <= Len(y) /\ \A l \in 1 .. Len(x) : y[l] = x[l]
      BY ONLY <2>8 DEF Extends
    <3>4. Len(x) <= Len(z)
      BY ONLY <1>4, <3>2, <3>3
    <3>5. ASSUME NEW l \in 1 .. Len(x) PROVE z[l] = x[l]
      <4>1. l \in 1 .. Len(y)
        BY ONLY <1>4, <3>2, <3>3, <3>5
      <4>. QED BY ONLY <3>2, <3>3, <3>5, <4>1
    <3>. QED BY ONLY <3>1, <3>4, <3>5 DEF Extends
  <2>. QED BY ONLY <2>3, <2>8, <2>10, <2>11
<1>. QED BY ONLY <1>2, <1>3, <1>5, <1>6

\* No word ends between two places.
NoWordEnds(c, i, j) == \A k \in i + 1 .. j : ~ WordEnds(c, k)

LEMMA WordsStay ==
  ASSUME NEW c \in Seq(Sign), NEW w, Words(w, c), NEW i \in 0 .. Len(c), NEW j \in i .. Len(c),
         NoWordEnds(c, i, j)
  PROVE  w[j] = w[i]
<1>1. PICK n : n = Len(c)
  OBVIOUS
<1>2. n \in Nat /\ i \in 0 .. n /\ j \in i .. n /\ i \in Nat /\ j \in Nat
  BY ONLY <1>1, c \in Seq(Sign), i \in 0 .. Len(c), j \in i .. Len(c)
<1>3. PICK bad : bad = {k \in i .. j : w[k] # w[i]}
  OBVIOUS
<1>4. bad = {}
  <2>. SUFFICES ASSUME bad # {} PROVE FALSE
    OBVIOUS
  <2>1. bad \in SUBSET Nat
    BY ONLY <1>2, <1>3
  <2>2. PICK k \in bad : \A l \in bad : k <= l
    BY ONLY <2>1, bad # {}, Least
  <2>3. k \in i .. j /\ w[k] # w[i]
    BY ONLY <1>3, <2>2
  <2>4. k - 1 \in i .. j /\ k - 1 < k /\ k \in 1 .. n /\ k \in i + 1 .. j
    BY ONLY <1>2, <2>3
  <2>5. k - 1 \notin bad
    BY ONLY <2>1, <2>2, <2>3, <2>4
  <2>6. w[k - 1] = w[i]
    BY ONLY <1>3, <2>4, <2>5
  <2>7. ~ WordEnds(c, k)
    BY ONLY <2>4, NoWordEnds(c, i, j) DEF NoWordEnds
  <2>8. w[k] = w[k - 1]
    BY ONLY <1>1, <2>4, <2>7, WordsStep, c \in Seq(Sign), Words(w, c)
  <2>. QED BY ONLY <2>3, <2>6, <2>8
<1>. QED BY ONLY <1>2, <1>3, <1>4

\* What strtok() has returned: the words up to the save index, which is behind
\* a delimiter; or all words, and the empty string after them.
Told(w, c, ts, v) ==
  /\ ts \in Seq(Seq(Sign)) /\ v \in Nat
  /\ v = 0 \/ v > Len(c) \/ c[v] \in Delims
  /\ v <= Len(c) => ts = w[v]
  /\ v > Len(c) =>
       /\ Len(ts) >= Len(w[Len(c)])
       /\ \A i \in 1 .. Len(ts) : ts[i] = IF i <= Len(w[Len(c)]) THEN w[Len(c)][i] ELSE <<>>

\* In both cases these are the tokens that are promised.
LEMMA ToldIs ==
  ASSUME NEW c \in Seq(Sign), NEW w, Words(w, c), NEW ts, NEW v, Told(w, c, ts, v),
         NEW i \in 1 .. Len(ts)
  PROVE  ts[i] = IF i <= Len(w[Len(c)]) THEN w[Len(c)][i] ELSE <<>>
<1>1. PICK n, x : n = Len(c) /\ x = w[n]
  OBVIOUS
<1>2. n \in Nat
  BY ONLY <1>1, c \in Seq(Sign)
<1>3. /\ ts \in Seq(Seq(Sign)) /\ v \in Nat /\ (v <= n => ts = w[v])
      /\ v > n => \A k \in 1 .. Len(ts) : ts[k] = IF k <= Len(x) THEN x[k] ELSE <<>>
  BY ONLY <1>1, Told(w, c, ts, v) DEF Told
<1>4. CASE v > n
  BY ONLY <1>1, <1>3, <1>4, i \in 1 .. Len(ts)
<1>5. CASE ~ (v > n)
  <2>1. v \in 0 .. n /\ n \in v .. n /\ ts = w[v]
    BY ONLY <1>2, <1>3, <1>5
  <2>2. Extends(x, ts)
    BY ONLY <1>1, <2>1, WordsGrow, c \in Seq(Sign), Words(w, c)
  <2>3. Len(ts) <= Len(x) /\ x[i] = ts[i]
    BY ONLY <2>2, i \in 1 .. Len(ts) DEF Extends
  <2>4. x \in Seq(Seq(Sign))
    <3>1. n \in 0 .. n
      BY ONLY <1>2
    <3>. QED BY ONLY <1>1, <3>1, WordsAre, c \in Seq(Sign), Words(w, c)
  <2>5. i <= Len(x)
    BY ONLY <1>3, <2>3, <2>4, i \in 1 .. Len(ts)
  <2>. QED BY ONLY <1>1, <2>3, <2>5
<1>. QED BY ONLY <1>4, <1>5

\* strtok(), when there are only delimiters left
LEMMA TokNone ==
  ASSUME NEW s, IsString(s), NEW c, c = s.chars, Len(c) <= MaxLen, NEW w, Words(w, c),
         NEW ts, Told(w, c, ts, s.save),
         {i \in s.save .. Len(c) - 1 : c[i + 1] \notin Delims} = {}
  PROVE  LET t == Tok(s, Delims) IN Told(w, c, Append(ts, t.token), t.save)
<1>1. PICK n, v, x : n = Len(c) /\ v = s.save /\ x = w[n]
  OBVIOUS
<1>2. c \in Seq(Sign) /\ n \in Nat /\ v \in Nat
  <2>1. c \in Seq(Sign) /\ v \in Nat
    BY <1>1 DEF IsString
  <2>. QED BY ONLY <1>1, <2>1
<1>3. PICK B : B = {i \in v .. n - 1 : c[i + 1] \notin Delims}
  OBVIOUS
<1>4. B = {}
  BY ONLY <1>1, <1>3, {i \in s.save .. Len(c) - 1 : c[i + 1] \notin Delims} = {}
<1>5. PICK begin : begin = FirstOf(B, IF v > n THEN v ELSE n)
  OBVIOUS
<1>6. begin \in Nat /\ begin >= n
  <2>1. begin = IF v > n THEN v ELSE n
    BY ONLY <1>4, <1>5 DEF FirstOf
  <2>. QED BY ONLY <1>2, <2>1
<1>7. FindFirstOf(s, Delims, begin) = Npos
  <2>1. {i \in begin .. n - 1 : c[i + 1] \in Delims} = {}
    BY ONLY <1>2, <1>6
  <2>. QED BY ONLY <1>1, <2>1, c = s.chars DEF FindFirstOf, FirstOf, Length
<1>8. PICK t : t = Tok(s, Delims)
  OBVIOUS
<1>9. t.token = <<>> /\ t.save = n + 1
  <2>1. PICK pos : pos = FirstOf({FindFirstOf(s, Delims, begin)} \ {Npos}, n)
    OBVIOUS
  <2>2. pos = n
    <3>1. {FindFirstOf(s, Delims, begin)} \ {Npos} = {}
      BY ONLY <1>7
    <3>. QED BY ONLY <2>1, <3>1 DEF FirstOf
  <2>3. t = [token |-> IF begin >= n THEN <<>> ELSE Substr(s, begin, pos - begin), save |-> pos + 1]
    BY ONLY <1>1, <1>3, <1>5, <1>8, <2>1, c = s.chars DEF Tok, Length
  <2>. QED BY ONLY <1>6, <2>2, <2>3
<1>10. /\ ts \in Seq(Seq(Sign)) /\ (v <= n => ts = w[v])
       /\ v > n => /\ Len(ts) >= Len(x)
                   /\ \A k \in 1 .. Len(ts) : ts[k] = IF k <= Len(x) THEN x[k] ELSE <<>>
  BY ONLY <1>1, Told(w, c, ts, s.save) DEF Told
<1>11. x \in Seq(Seq(Sign)) /\ Len(x) \in Nat
  <2>1. n \in 0 .. n
    BY ONLY <1>2
  <2>2. x \in Seq(Seq(Sign))
    BY ONLY <1>1, <1>2, <2>1, WordsAre, Words(w, c)
  <2>. QED BY ONLY <2>2
<1>12. Len(ts) >= Len(x) /\ \A k \in 1 .. Len(ts) : ts[k] = IF k <= Len(x) THEN x[k] ELSE <<>>
  <2>1. CASE v > n
    BY ONLY <1>10, <2>1
  <2>2. CASE ~ (v > n)
    <3>1. v \in 0 .. n /\ n \in v .. n /\ ts = w[v]
      BY ONLY <1>2, <1>10, <2>2
    <3>2. NoWordEnds(c, v, n)
      <4>. SUFFICES ASSUME NEW k \in v + 1 .. n PROVE ~ WordEnds(c, k)
        BY DEF NoWordEnds
      <4>1. k - 1 \in v .. n - 1 /\ k - 1 + 1 = k
        BY ONLY <1>2, k \in v + 1 .. n
      <4>2. c[k] \in Delims
        BY ONLY <1>3, <1>4, <4>1
      <4>. QED BY ONLY <4>2 DEF WordEnds
    <3>3. x = ts
      BY ONLY <1>1, <1>2, <3>1, <3>2, WordsStay, Words(w, c)
    <3>. QED BY ONLY <1>11, <3>3
  <2>. QED BY ONLY <2>1, <2>2
<1>13. PICK us, none : us = Append(ts, none) /\ none = <<>>
  OBVIOUS
<1>14. /\ us \in Seq(Seq(Sign)) /\ Len(us) = Len(ts) + 1 /\ us[Len(us)] = none
       /\ \A k \in 1 .. Len(ts) : us[k] = ts[k]
  <2>1. none \in Seq(Sign)
    BY ONLY <1>13
  <2>. QED BY ONLY <1>10, <1>13, <2>1, AppendProperties
<1>15. PICK m : m = n + 1
  OBVIOUS
<1>16. m \in Nat /\ m > n /\ ~ (m <= n)
  BY ONLY <1>2, <1>15
<1>17. Len(us) >= Len(x) /\ \A k \in 1 .. Len(us) : us[k] = IF k <= Len(x) THEN x[k] ELSE <<>>
  <2>1. Len(ts) \in Nat
    BY ONLY <1>10
  <2>2. Len(us) >= Len(x)
    BY ONLY <1>11, <1>12, <1>14, <2>1
  <2>3. ASSUME NEW k \in 1 .. Len(us) PROVE us[k] = IF k <= Len(x) THEN x[k] ELSE <<>>
    <3>1. CASE k = Len(us)
      <4>1. ~ (k <= Len(x))
        BY ONLY <1>11, <1>12, <1>14, <2>1, <3>1
      <4>. QED BY ONLY <1>13, <1>14, <3>1, <4>1
    <3>2. CASE k # Len(us)
      <4>1. k \in 1 .. Len(ts)
        BY ONLY <1>14, <2>1, <2>3, <3>2
      <4>. QED BY ONLY <1>12, <1>14, <4>1
    <3>. QED BY ONLY <3>1, <3>2
  <2>. QED BY ONLY <2>2, <2>3
<1>18. Told(w, c, us, m)
  BY ONLY <1>1, <1>14, <1>16, <1>17 DEF Told
<1>. QED BY ONLY <1>8, <1>9, <1>13, <1>15, <1>18

\* After a place come delimiters, up to b, and then a word, up to p.
NextWord(c, v, b, p) ==
  /\ v = 0 \/ c[v] \in Delims
  /\ v <= b /\ b < p /\ p <= Len(c) /\ (p = Len(c) \/ c[p + 1] \in Delims)
  /\ \A k \in v + 1 .. b : c[k] \in Delims
  /\ \A k \in b + 1 .. p : c[k] \notin Delims

LEMMA NextWordIs ==
  ASSUME NEW c \in Seq(Sign), NEW w, Words(w, c), NEW v \in Nat, NEW b \in Nat, NEW p \in Nat,
         NextWord(c, v, b, p)
  PROVE  w[p] = Append(w[v], SubSeq(c, b + 1, p))
<1>. /\ v = 0 \/ c[v] \in Delims
     /\ v <= b /\ b < p /\ p <= Len(c) /\ (p = Len(c) \/ c[p + 1] \in Delims)
     /\ \A k \in v + 1 .. b : c[k] \in Delims
     /\ \A k \in b + 1 .. p : c[k] \notin Delims
  BY DEF NextWord
<1>1. PICK n : n = Len(c)
  OBVIOUS
<1>2. n \in Nat /\ p <= n /\ p \in 1 .. n /\ p - 1 \in v .. n /\ v \in 0 .. n /\ p - 1 \in 0 .. n
  BY ONLY <1>1, c \in Seq(Sign), v \in Nat, b \in Nat, p \in Nat, v <= b, b < p, p <= Len(c)
<1>3. NoWordEnds(c, v, p - 1)
  <2>. SUFFICES ASSUME NEW k \in v + 1 .. p - 1 PROVE ~ WordEnds(c, k)
    BY DEF NoWordEnds
  <2>1. k \in Nat /\ v + 1 <= k /\ k <= p - 1
    BY ONLY k \in v + 1 .. p - 1, v \in Nat, p \in Nat
  <2>2. CASE k <= b
    <3>1. k \in v + 1 .. b
      BY ONLY <2>1, <2>2, v \in Nat, b \in Nat
    <3>2. c[k] \in Delims
      BY ONLY <3>1, \A l \in v + 1 .. b : c[l] \in Delims
    <3>. QED BY ONLY <3>2 DEF WordEnds
  <2>3. CASE ~ (k <= b)
    <3>1. k + 1 \in b + 1 .. p /\ k # Len(c)
      BY ONLY <1>1, <1>2, <2>1, <2>3, b \in Nat, p \in Nat
    <3>2. c[k + 1] \notin Delims
      BY ONLY <3>1, \A l \in b + 1 .. p : c[l] \notin Delims
    <3>. QED BY ONLY <3>1, <3>2 DEF WordEnds
  <2>. QED BY ONLY <2>2, <2>3
<1>4. w[p - 1] = w[v]
  BY ONLY <1>1, <1>2, <1>3, WordsStay, c \in Seq(Sign), Words(w, c)
<1>5. WordEnds(c, p)
  <2>1. p \in b + 1 .. p
    BY ONLY b \in Nat, p \in Nat, b < p
  <2>2. c[p] \notin Delims
    BY ONLY <2>1, \A k \in b + 1 .. p : c[k] \notin Delims
  <2>. QED BY ONLY <2>2, p = Len(c) \/ c[p + 1] \in Delims DEF WordEnds
<1>6. w[p] = Append(w[p - 1], WordAt(c, p))
  BY ONLY <1>1, <1>2, <1>5, WordsStep, c \in Seq(Sign), Words(w, c)
<1>7. PICK B : B = {a \in 1 .. p : \A j \in a .. p : c[j] \notin Delims}
  OBVIOUS
<1>8. b + 1 \in B
  <2>1. b + 1 \in 1 .. p
    BY ONLY b \in Nat, p \in Nat, b < p
  <2>. QED BY ONLY <1>7, <2>1, \A k \in b + 1 .. p : c[k] \notin Delims
<1>9. \A a \in B : b + 1 <= a
  <2>. SUFFICES ASSUME NEW a \in B, ~ (b + 1 <= a) PROVE FALSE
    OBVIOUS
  <2>1. a \in 1 .. p /\ \A j \in a .. p : c[j] \notin Delims
    BY ONLY <1>7, a \in B
  <2>2. b \in a .. p /\ b > 0
    BY ONLY <2>1, ~ (b + 1 <= a), b \in Nat, p \in Nat, b < p
  <2>3. c[b] \notin Delims
    BY ONLY <2>1, <2>2
  <2>4. CASE v = b
    BY ONLY <2>2, <2>3, <2>4, v = 0 \/ c[v] \in Delims
  <2>5. CASE v # b
    <3>1. b \in v + 1 .. b
      BY ONLY <2>5, v \in Nat, b \in Nat, v <= b
    <3>. QED BY ONLY <2>3, <3>1, \A k \in v + 1 .. b : c[k] \in Delims
  <2>. QED BY ONLY <2>4, <2>5
<1>10. FirstOf(B, p) = b + 1
  <2>1. B \in SUBSET Nat /\ B # {}
    BY ONLY <1>7, <1>8
  <2>2. FirstOf(B, p) \in B /\ FirstOf(B, p) <= b + 1
    BY ONLY <1>8, <2>1, FirstOfIs
  <2>3. b + 1 <= FirstOf(B, p) /\ FirstOf(B, p) \in Nat
    BY ONLY <1>9, <2>1, <2>2
  <2>. QED BY ONLY <2>2, <2>3, b \in Nat
<1>11. WordAt(c, p) = SubSeq(c, b + 1, p)
  BY ONLY <1>7, <1>10 DEF WordAt
<1>. QED BY ONLY <1>4, <1>6, <1>11

\* strtok(), when there is a character left that is none: a word is returned.
LEMMA TokWord ==
  ASSUME NEW s, IsString(s), NEW c, c = s.chars, Len(c) <= MaxLen, NEW w, Words(w, c),
         NEW ts, Told(w, c, ts, s.save),
         {i \in s.save .. Len(c) - 1 : c[i + 1] \notin Delims} # {}
  PROVE  LET t == Tok(s, Delims) IN Told(w, c, Append(ts, t.token), t.save)
<1>1. PICK n, v : n = Len(c) /\ v = s.save
  OBVIOUS
<1>2. c \in Seq(Sign) /\ n \in Nat /\ v \in Nat
  <2>1. c \in Seq(Sign) /\ v \in Nat
    BY <1>1 DEF IsString
  <2>. QED BY ONLY <1>1, <2>1
<1>3. Npos > n /\ Npos \in Nat
  <2>1. MaxLen \in Nat /\ Npos = MaxLen + 1
    BY TextAssumption DEF Npos
  <2>. QED BY ONLY <1>1, <1>2, <2>1, Len(c) <= MaxLen
<1>4. PICK B : B = {i \in v .. n - 1 : c[i + 1] \notin Delims}
  OBVIOUS
<1>5. B # {} /\ B \in SUBSET Nat
  BY ONLY <1>1, <1>2, <1>4, {i \in s.save .. Len(c) - 1 : c[i + 1] \notin Delims} # {}
<1>6. PICK b : b = FirstOf(B, IF v > n THEN v ELSE n)
  OBVIOUS
<1>7. b \in B /\ \A j \in B : b <= j
  BY ONLY <1>5, <1>6, FirstOfIs
<1>8. b \in Nat /\ v <= b /\ b < n /\ c[b + 1] \notin Delims
  BY ONLY <1>2, <1>4, <1>7
<1>9. \A k \in v + 1 .. b : c[k] \in Delims
  <2>. SUFFICES ASSUME NEW k \in v + 1 .. b PROVE c[k] \in Delims
    OBVIOUS
  <2>1. k - 1 \in v .. n - 1 /\ k - 1 + 1 = k /\ k - 1 < b
    BY ONLY <1>2, <1>8, k \in v + 1 .. b
  <2>2. k - 1 \notin B
    BY ONLY <1>2, <1>7, <1>8, <2>1
  <2>. QED BY ONLY <1>4, <2>1, <2>2
<1>10. PICK F : F = {i \in b .. n - 1 : c[i + 1] \in Delims}
  OBVIOUS
<1>11. FindFirstOf(s, Delims, b) = FirstOf(F, Npos)
  BY ONLY <1>1, <1>10, c = s.chars DEF FindFirstOf, Length
<1>12. PICK p : p = FirstOf({FindFirstOf(s, Delims, b)} \ {Npos}, n)
  OBVIOUS
<1>13. /\ p \in Nat /\ b < p /\ p <= n /\ (p = n \/ c[p + 1] \in Delims)
       /\ \A k \in b + 1 .. p : c[k] \notin Delims
  <2>1. CASE F = {}
    <3>1. p = n
      <4>1. FindFirstOf(s, Delims, b) = Npos
        BY ONLY <1>11, <2>1 DEF FirstOf
      <4>2. {FindFirstOf(s, Delims, b)} \ {Npos} = {}
        BY ONLY <4>1
      <4>. QED BY ONLY <1>12, <4>2 DEF FirstOf
    <3>2. ASSUME NEW k \in b + 1 .. p PROVE c[k] \notin Delims
      <4>1. k - 1 \in b .. n - 1 /\ k - 1 + 1 = k
        BY ONLY <1>2, <1>8, <3>1, <3>2
      <4>. QED BY ONLY <1>10, <2>1, <4>1
    <3>. QED BY ONLY <1>2, <1>8, <3>1, <3>2
  <2>2. CASE F # {}
    <3>1. F \in SUBSET Nat
      BY ONLY <1>2, <1>8, <1>10
    <3>2. PICK f : f = FirstOf(F, Npos)
      OBVIOUS
    <3>3. f \in F /\ \A j \in F : f <= j
      BY ONLY <2>2, <3>1, <3>2, FirstOfIs
    <3>4. f \in Nat /\ b <= f /\ f < n /\ c[f + 1] \in Delims
      BY ONLY <1>2, <1>8, <1>10, <3>3
    <3>5. p = f
      <4>1. f # Npos
        BY ONLY <1>2, <1>3, <3>4
      <4>2. {FindFirstOf(s, Delims, b)} \ {Npos} = {f}
        BY ONLY <1>11, <3>2, <4>1
      <4>3. {f} \in SUBSET Nat /\ {f} # {}
        BY ONLY <3>4
      <4>4. FirstOf({f}, n) \in {f}
        BY ONLY <4>3, FirstOfIs
      <4>. QED BY ONLY <1>12, <4>2, <4>4
    <3>6. f # b
      BY ONLY <1>8, <3>4
    <3>7. ASSUME NEW k \in b + 1 .. p PROVE c[k] \notin Delims
      <4>1. k - 1 \in b .. n - 1 /\ k - 1 + 1 = k /\ k - 1 < f
        BY ONLY <1>2, <1>8, <3>4, <3>5, <3>7
      <4>2. k - 1 \notin F
        BY ONLY <1>8, <3>3, <3>4, <4>1
      <4>. QED BY ONLY <1>10, <4>1, <4>2
    <3>. QED BY ONLY <1>2, <1>8, <3>4, <3>5, <3>6, <3>7
  <2>. QED BY ONLY <2>1, <2>2
<1>14. PICK word : word = SubSeq(c, b + 1, p)
  OBVIOUS
<1>15. PICK t : t = Tok(s, Delims)
  OBVIOUS
<1>16. t.token = word /\ t.save = p + 1
  <2>1. t = [token |-> IF b >= n THEN <<>> ELSE Substr(s, b, p - b), save |-> p + 1]
    BY ONLY <1>1, <1>4, <1>6, <1>12, <1>15, c = s.chars DEF Tok, Length
  <2>2. ~ (b >= n)
    BY ONLY <1>2, <1>8
  <2>3. Substr(s, b, p - b) = word
    <3>1. PICK e : e = IF b + (p - b) < n THEN b + (p - b) ELSE n
      OBVIOUS
    <3>2. e = p
      BY ONLY <1>2, <1>8, <1>13, <3>1
    <3>3. Substr(s, b, p - b) = SubSeq(c, b + 1, e)
      BY ONLY <1>1, <2>2, <3>1, c = s.chars DEF Substr, Length
    <3>. QED BY ONLY <1>14, <3>2, <3>3
  <2>. QED BY ONLY <2>1, <2>2, <2>3
<1>17. ts \in Seq(Seq(Sign)) /\ (v <= n => ts = w[v]) /\ (v = 0 \/ v > n \/ c[v] \in Delims)
  BY ONLY <1>1, Told(w, c, ts, s.save) DEF Told
<1>18. ts = w[v] /\ (v = 0 \/ c[v] \in Delims)
  <2>1. v <= n /\ ~ (v > n)
    BY ONLY <1>2, <1>8
  <2>. QED BY ONLY <1>17, <2>1
<1>19. w[p] = Append(ts, word)
  <2>1. NextWord(c, v, b, p)
    BY ONLY <1>1, <1>8, <1>9, <1>13, <1>18 DEF NextWord
  <2>2. w[p] = Append(w[v], SubSeq(c, b + 1, p))
    BY ONLY <1>2, <1>8, <1>13, <2>1, NextWordIs, Words(w, c)
  <2>. QED BY ONLY <1>14, <1>18, <2>2
<1>20. PICK us : us = Append(ts, word)
  OBVIOUS
<1>21. us \in Seq(Seq(Sign)) /\ p \in 0 .. n
  <2>1. p \in 0 .. n
    BY ONLY <1>2, <1>13
  <2>. QED BY ONLY <1>1, <1>2, <1>19, <1>20, <2>1, WordsAre, Words(w, c)
<1>22. PICK m : m = p + 1
  OBVIOUS
<1>23. Told(w, c, us, m)
  <2>1. CASE p = n
    <3>1. m \in Nat /\ m > n /\ ~ (m <= n)
      BY ONLY <1>2, <1>22, <2>1
    <3>2. us = w[Len(c)]
      BY ONLY <1>1, <1>19, <1>20, <2>1
    <3>3. Len(us) \in Nat
      BY ONLY <1>21
    <3>4. Len(us) >= Len(us) /\ \A k \in 1 .. Len(us) : us[k] = IF k <= Len(us) THEN us[k] ELSE <<>>
      BY ONLY <3>3
    <3>. QED BY ONLY <1>1, <1>21, <3>1, <3>2, <3>4 DEF Told
  <2>2. CASE p # n
    <3>1. m \in Nat /\ m <= n /\ ~ (m > n) /\ c[m] \in Delims /\ p \in 0 .. n /\ m \in p .. n
      BY ONLY <1>2, <1>13, <1>22, <2>2
    <3>2. NoWordEnds(c, p, m)
      <4>. SUFFICES ASSUME NEW k \in p + 1 .. m PROVE ~ WordEnds(c, k)
        BY DEF NoWordEnds
      <4>1. k = m
        BY ONLY <1>13, <1>22, k \in p + 1 .. m
      <4>. QED BY ONLY <3>1, <4>1 DEF WordEnds
    <3>3. w[m] = w[p]
      BY ONLY <1>1, <1>2, <3>1, <3>2, WordsStay, Words(w, c)
    <3>. QED BY ONLY <1>1, <1>19, <1>20, <1>21, <3>1, <3>3 DEF Told
  <2>. QED BY ONLY <2>1, <2>2
<1>. QED BY ONLY <1>15, <1>16, <1>20, <1>22, <1>23

-----------------------------------------------------------------------------
TextInv ==
  /\ IsString(string) /\ string.chars = text /\ Len(text) <= MaxLen /\ overrun = FALSE
  /\ tokens = <<>> \/ Told(WordsOf(text), text, tokens, string.save)

LEMMA StoresIs ==
  ASSUME TextInv, NEW s, IsString(s), NEW chars, s.chars = chars,
         NEW written \in Nat, written <= s.cap, Stores(written, s, chars)
  PROVE  TextInv'
<1>1. string' = s /\ text' = chars /\ Len(chars) <= MaxLen /\ tokens' = <<>>
  BY DEF Stores
<1>2. overrun' = FALSE
  <2>1. s.cap \in Nat
    BY DEF IsString
  <2>2. ~ (written > s.cap)
    BY ONLY <2>1, written \in Nat, written <= s.cap
  <2>3. overrun = FALSE /\ overrun' = (overrun \/ written > s.cap)
    BY DEF Stores, TextInv
  <2>. QED BY ONLY <2>2, <2>3
<1>3. IsString(string')
  BY ONLY <1>1, IsString(s)
<1>. QED BY ONLY <1>1, <1>2, <1>3, s.chars = chars DEF TextInv, IsString

LEMMA LeavesIs ==
  ASSUME TextInv, NEW s, IsString(s), NEW chars, s.chars = chars, Leaves(s, chars)
  PROVE  TextInv'
<1>1. Len(s.chars) \in Nat /\ Len(s.chars) <= s.cap
  BY DEF IsString
<1>2. PICK n : n = Len(s.chars)
  OBVIOUS
<1>3. Stores(n, s, chars)
  BY ONLY <1>2, Leaves(s, chars) DEF Leaves, Length
<1>. QED BY ONLY <1>1, <1>2, <1>3, StoresIs, TextInv, IsString(s), s.chars = chars

LEMMA ArgumentIs ==
  ASSUME NEW chars \in Argument
  PROVE  chars \in Seq(Sign)
<1>1. CASE chars = <<>>
  <2>1. <<>> \in Seq(Sign)
    OBVIOUS
  <2>. QED BY ONLY <1>1, <2>1
<1>2. CASE \E c \in Sign : chars = <<c>>
  <2>1. PICK c \in Sign : chars = <<c>>
    BY <1>2
  <2>2. <<c>> \in Seq(Sign)
    BY ONLY c \in Sign
  <2>. QED BY ONLY <2>1, <2>2
<1>3. CASE \E c, d \in Sign \ {Feed} : chars = <<c, d>>
  <2>1. PICK c \in Sign, d \in Sign : chars = <<c, d>>
    BY <1>3
  <2>2. <<c, d>> \in Seq(Sign)
    BY ONLY c \in Sign, d \in Sign
  <2>. QED BY ONLY <2>1, <2>2
<1>. QED BY ONLY <1>1, <1>2, <1>3, chars \in Argument DEF Argument

LEMMA TextIs ==
  ASSUME TextInv
  PROVE  /\ IsString(string) /\ text = string.chars /\ text \in Seq(Sign) /\ Len(text) \in Nat
         /\ Len(text) <= MaxLen
<1>1. IsString(string) /\ text = string.chars /\ Len(text) <= MaxLen
  BY DEF TextInv
<1>2. string.chars \in Seq(Sign)
  BY ONLY <1>1 DEF IsString
<1>. QED BY ONLY <1>1, <1>2

LEMMA AppendStep ==
  ASSUME TextInv, NEW chars \in Argument, DoAppend(chars)
  PROVE  TextInv'
<1>1. PICK s, q : s = AppendTo(string, chars) /\ q = text \o chars
  OBVIOUS
<1>2. IsString(s) /\ s.chars = q
  BY ONLY <1>1, TextIs, TextInv, ArgumentIs, AppendToIs, chars \in Argument
<1>3. Leaves(s, q)
  BY ONLY <1>1, DoAppend(chars) DEF DoAppend
<1>. QED BY ONLY <1>2, <1>3, LeavesIs, TextInv

LEMMA AssignStep ==
  ASSUME TextInv, NEW chars \in Argument, DoAssign(chars)
  PROVE  TextInv'
<1>1. PICK s : s = Assigned(string, chars)
  OBVIOUS
<1>2. IsString(s) /\ s.chars = chars
  BY ONLY <1>1, TextIs, TextInv, ArgumentIs, AssignedIs, chars \in Argument
<1>3. Leaves(s, chars)
  BY ONLY <1>1, DoAssign(chars) DEF DoAssign
<1>. QED BY ONLY <1>2, <1>3, LeavesIs, TextInv

LEMMA InsertStep ==
  ASSUME TextInv, NEW chars \in Argument, NEW pos \in 0 .. Len(text) + 1, DoInsert(pos, chars)
  PROVE  TextInv'
<1>1. PICK s, q : /\ s = Inserted(string, pos, chars)
                  /\ q = IF pos > Len(text) THEN text
                         ELSE SubSeq(text, 1, pos) \o chars \o SubSeq(text, pos + 1, Len(text))
  OBVIOUS
<1>2. IsString(s) /\ s.chars = q
  <2>1. /\ IsString(string) /\ text = string.chars /\ Len(text) \in Nat
        /\ Len(text) <= MaxLen
    BY ONLY TextIs, TextInv
  <2>2. pos \in Nat
    BY ONLY <2>1, pos \in 0 .. Len(text) + 1
  <2>3. CASE pos > Len(text)
    <3>1. s = string
      BY ONLY <1>1, <2>1, <2>3 DEF Inserted, Length
    <3>. QED BY ONLY <1>1, <2>1, <2>3, <3>1
  <2>4. CASE ~ (pos > Len(text))
    <3>1. pos <= Len(text)
      BY ONLY <2>1, <2>2, <2>4
    <3>2. chars \in Seq(Sign)
      BY ONLY ArgumentIs, chars \in Argument
    <3>3. Keeps(string, text)
      BY ONLY <2>1 DEF Keeps
    <3>4. /\ IsString(Inserted(string, pos, chars))
          /\ Inserted(string, pos, chars).chars
               = SubSeq(text, 1, pos) \o chars \o SubSeq(text, pos + 1, Len(text))
      BY ONLY <2>2, <3>1, <3>2, <3>3, InsertedIs
    <3>. QED BY ONLY <1>1, <2>4, <3>4
  <2>. QED BY ONLY <2>3, <2>4
<1>3. Leaves(s, q)
  BY ONLY <1>1, DoInsert(pos, chars) DEF DoInsert
<1>. QED BY ONLY <1>2, <1>3, LeavesIs, TextInv

LEMMA EraseStep ==
  ASSUME TextInv, NEW pos \in 0 .. Len(text), NEW len \in {0, 1, 2, Npos}, DoErase(pos, len)
  PROVE  TextInv'
<1>1. PICK s, q : s = Erased(string, pos, len) /\ q = Cut(text, pos, len)
  OBVIOUS
<1>2. IsString(s) /\ s.chars = q
  <2>1. /\ IsString(string) /\ text = string.chars /\ Len(text) \in Nat
        /\ Len(text) <= MaxLen
    BY ONLY TextIs, TextInv
  <2>2. pos \in Nat /\ pos <= Len(text)
    BY ONLY <2>1, pos \in 0 .. Len(text)
  <2>3. len \in Nat
    BY TextAssumption DEF Npos
  <2>4. IsString(Erased(string, pos, len)) /\ Erased(string, pos, len).chars = Cut(text, pos, len)
    <3>1. Keeps(string, text)
      BY ONLY <2>1 DEF Keeps
    <3>. QED BY ONLY <2>2, <2>3, <3>1, ErasedIs
  <2>. QED BY ONLY <1>1, <2>4
<1>3. Leaves(s, q)
  BY ONLY <1>1, DoErase(pos, len) DEF DoErase
<1>. QED BY ONLY <1>2, <1>3, LeavesIs, TextInv

LEMMA ResizeStep ==
  ASSUME TextInv, NEW n \in 0 .. MaxLen, DoResize(n)
  PROVE  TextInv'
<1>1. PICK s, q : /\ s = Resized(string, n, Space)
                  /\ q = [i \in 1 .. n |-> IF i <= Len(text) THEN text[i] ELSE Space]
  OBVIOUS
<1>2. n \in Nat
  BY TextAssumption
<1>3. IsString(s) /\ s.chars = q
  <2>1. IsString(string) /\ text = string.chars
    BY ONLY TextIs, TextInv
  <2>2. /\ IsString(Resized(string, n, Space))
        /\ Resized(string, n, Space).chars = [i \in 1 .. n |-> IF i <= Len(text) THEN text[i] ELSE Space]
    BY ONLY <1>2, <2>1, ResizedIs
  <2>. QED BY ONLY <1>1, <2>2
<1>4. Leaves(s, q)
  BY ONLY <1>1, DoResize(n) DEF DoResize
<1>. QED BY ONLY <1>3, <1>4, LeavesIs, TextInv

LEMMA PopBackStep ==
  ASSUME TextInv, PopBack
  PROVE  TextInv'
<1>1. IsString(string) /\ text = string.chars /\ Len(text) \in Nat
  BY ONLY TextIs, TextInv
<1>2. CASE Length(string) = 0
  <2>1. Leaves(string, text)
    BY ONLY <1>2, PopBack DEF PopBack
  <2>. QED BY ONLY <1>1, <2>1, LeavesIs, TextInv
<1>3. CASE Length(string) # 0
  <2>1. PICK n : n = Len(text) - 1
    OBVIOUS
  <2>2. n \in Nat /\ n <= Len(text)
    BY ONLY <1>1, <1>3, <2>1 DEF Length
  <2>3. PICK s, q : s = Resized(string, n, Space) /\ q = SubSeq(text, 1, n)
    OBVIOUS
  <2>4. IsString(s) /\ s.chars = q
    BY ONLY <1>1, <2>2, <2>3, CutShort
  <2>5. Leaves(s, q)
    BY ONLY <1>1, <1>3, <2>1, <2>3, PopBack DEF PopBack, Length
  <2>. QED BY ONLY <2>4, <2>5, LeavesIs, TextInv
<1>. QED BY ONLY <1>2, <1>3

LEMMA ClearStep ==
  ASSUME TextInv, Clear
  PROVE  TextInv'
<1>1. PICK s, none, o : s = [string EXCEPT !.chars = none, !.save = o] /\ none = <<>> /\ o = 0
  OBVIOUS
<1>2. IsString(string) /\ text = string.chars /\ Len(text) \in Nat
  BY ONLY TextIs, TextInv
<1>3. Shortened(s, string, none, o)
  BY ONLY <1>1, <1>2 DEF Shortened
<1>4. IsString(s) /\ s.chars = none
  BY ONLY <1>2, <1>3, ShorterIs
<1>5. Leaves(s, none)
  BY ONLY <1>1, Clear DEF Clear
<1>. QED BY ONLY <1>4, <1>5, LeavesIs, TextInv

LEMMA CStringStep ==
  ASSUME TextInv, CString
  PROVE  TextInv'
<1>1. IsString(string) /\ text = string.chars /\ Len(text) \in Nat
  BY ONLY TextIs, TextInv
<1>2. PICK n, s : n = Len(text) + 1 /\ s = Reserve(string, n)
  OBVIOUS
<1>3. n \in Nat
  BY ONLY <1>1, <1>2
<1>4. IsString(s) /\ n <= s.cap /\ s.chars = text
  BY ONLY <1>1, <1>2, <1>3, ReserveIs
<1>5. Stores(n, s, text)
  BY ONLY <1>1, <1>2, CString DEF CString, NullByte, Length
<1>. QED BY ONLY <1>3, <1>4, <1>5, StoresIs, TextInv

LEMMA RemoveLfStep ==
  ASSUME TextInv, RemoveLf
  PROVE  TextInv'
<1>1. PopBack \/ Leaves(string, text)
  BY DEF RemoveLf
<1>2. IsString(string) /\ text = string.chars
  BY ONLY TextIs, TextInv
<1>. QED BY ONLY <1>1, <1>2, PopBackStep, LeavesIs, TextInv

\* strtok() goes on where it was, or begins with a save index of 0.
LEMMA TokStep ==
  ASSUME TextInv, DoTok(Delims)
  PROVE  TextInv'
<1>1. /\ IsString(string) /\ text = string.chars /\ text \in Seq(Sign) /\ Len(text) \in Nat
      /\ Len(text) <= MaxLen
  BY ONLY TextIs, TextInv
<1>2. PICK t, w : t = Tok(string, Delims) /\ w = WordsOf(text)
  OBVIOUS
<1>3. Words(w, text)
  BY ONLY <1>1, <1>2, WordsAreSplit
<1>4. Told(w, text, tokens, string.save)
  <2>1. CASE tokens = <<>>
    <3>1. string.save = 0
      BY ONLY <2>1, DoTok(Delims) DEF DoTok
    <3>2. w[0] = <<>>
      BY ONLY <1>1, <1>3, WordsStep
    <3>3. <<>> \in Seq(Seq(Sign)) /\ 0 \in Nat /\ ~ (0 > Len(text))
      BY ONLY <1>1
    <3>. QED BY ONLY <2>1, <3>1, <3>2, <3>3 DEF Told
  <2>2. CASE tokens # <<>>
    BY ONLY <1>2, <2>2, TextInv DEF TextInv
  <2>. QED BY ONLY <2>1, <2>2
<1>5. PICK us, v : us = Append(tokens, t.token) /\ v = t.save
  OBVIOUS
<1>6. Told(w, text, us, v)
  <2>1. CASE {i \in string.save .. Len(text) - 1 : text[i + 1] \notin Delims} = {}
    BY ONLY <1>1, <1>2, <1>3, <1>4, <1>5, <2>1, TokNone
  <2>2. CASE {i \in string.save .. Len(text) - 1 : text[i + 1] \notin Delims} # {}
    BY ONLY <1>1, <1>2, <1>3, <1>4, <1>5, <2>2, TokWord
  <2>. QED BY ONLY <2>1, <2>2
<1>7. /\ string' = [string EXCEPT !.save = v] /\ tokens' = us
      /\ UNCHANGED <<overrun, text>>
  BY ONLY <1>2, <1>5, DoTok(Delims) DEF DoTok
<1>8. PICK s, q : s = [string EXCEPT !.save = v] /\ q = string.chars
  OBVIOUS
<1>9. IsString(s) /\ s.chars = q /\ s.save = v
  <2>1. string = [heap |-> string.heap, cap |-> string.cap, chars |-> string.chars, save |-> string.save]
    BY ONLY <1>1 DEF IsString
  <2>2. s = [string EXCEPT !.chars = q, !.save = v]
    BY ONLY <1>8, <2>1
  <2>3. v \in Nat
    BY ONLY <1>6 DEF Told
  <2>4. Shortened(s, string, q, v)
    <3>1. q = text /\ q = string.chars /\ Len(q) <= Len(string.chars)
      BY ONLY <1>1, <1>8
    <3>. QED BY ONLY <1>1, <2>2, <2>3, <3>1 DEF Shortened
  <2>. QED BY ONLY <1>1, <2>4, ShorterIs
<1>10. string' = s /\ text' = text /\ overrun' = FALSE
  <2>1. overrun = FALSE
    BY ONLY TextInv DEF TextInv
  <2>. QED BY ONLY <1>7, <1>8, <2>1
<1>11. IsString(string') /\ string'.chars = text' /\ Len(text') <= MaxLen
  BY ONLY <1>1, <1>8, <1>9, <1>10
<1>12. Told(WordsOf(text'), text', tokens', string'.save)
  BY ONLY <1>2, <1>6, <1>7, <1>9, <1>10
<1>. QED BY ONLY <1>10, <1>11, <1>12 DEF TextInv, IsString, Told, WordsOf, Words

\* find() finds the first place.
LEMMA FindIs ==
  ASSUME NEW s, IsString(s), NEW q, q = s.chars,
         NEW pos \in 0 .. Len(q) - 1, NEW len \in 1 .. 2
  PROVE  LET piece == Substr(s, pos, len)
         IN  Find(s, piece, 0) <= pos /\ CompareAt(s, Find(s, piece, 0), piece)
<1>1. q \in Seq(Sign)
  BY DEF IsString
<1>2. PICK n, e, m, piece : /\ n = Len(q) /\ e = (IF pos + len < n THEN pos + len ELSE n)
                            /\ m = pos + 1 /\ piece = Substr(s, pos, len)
  OBVIOUS
<1>3. n \in Nat /\ pos \in Nat /\ len \in Nat /\ pos < n /\ len > 0 /\ pos \in 0 .. n - 1
  BY ONLY <1>1, <1>2, pos \in 0 .. Len(q) - 1, len \in 1 .. 2
<1>4. e \in Nat /\ m \in Nat /\ m > 0 /\ m <= e /\ e <= n
  BY ONLY <1>2, <1>3
<1>5. piece = SubSeq(q, m, e)
  <2>1. ~ (pos >= n)
    BY ONLY <1>3
  <2>. QED BY ONLY <1>2, <2>1, q = s.chars DEF Substr, Length
<1>6. Len(piece) = e - pos /\ \A i \in 1 .. e - pos : piece[i] = q[pos + i]
  <2>1. /\ Len(SubSeq(q, m, e)) = IF m <= e THEN e - m + 1 ELSE 0
        /\ \A i \in 1 .. e - m + 1 : SubSeq(q, m, e)[i] = q[m + i - 1]
    BY ONLY <1>1, <1>2, <1>4, PieceIs
  <2>2. e - m + 1 = e - pos /\ \A i \in 1 .. e - pos : m + i - 1 = pos + i
    BY ONLY <1>2, <1>3, <1>4
  <2>. QED BY ONLY <1>4, <1>5, <2>1, <2>2
<1>7. CompareAt(s, pos, piece)
  <2>1. pos + Len(piece) <= n
    BY ONLY <1>3, <1>4, <1>6
  <2>2. \A i \in 1 .. Len(piece) : q[pos + i] = piece[i]
    BY ONLY <1>6
  <2>. QED BY ONLY <1>2, <2>1, <2>2, q = s.chars DEF CompareAt, Length
<1>8. PICK F : F = {i \in 0 .. n - 1 : CompareAt(s, i, piece)}
  OBVIOUS
<1>9. pos \in F /\ F \in SUBSET Nat
  BY ONLY <1>3, <1>7, <1>8
<1>10. FirstOf(F, Npos) \in F /\ FirstOf(F, Npos) <= pos
  BY ONLY <1>9, FirstOfIs
<1>11. Find(s, piece, 0) = FirstOf(F, Npos)
  BY ONLY <1>2, <1>8, q = s.chars DEF Find, Length
<1>. QED BY ONLY <1>2, <1>8, <1>10, <1>11

LEMMA TextInvImplies ==
  ASSUME TextInv
  PROVE  StringIsText
<1>1. IsString(string) /\ text = string.chars /\ text \in Seq(Sign)
  BY ONLY TextIs, TextInv
<1>2. overrun = FALSE
  BY ONLY TextInv DEF TextInv
<1>3. ASSUME NEW i \in DOMAIN tokens
      PROVE  tokens[i] = IF i <= Len(Split(text, Delims)) THEN Split(text, Delims)[i] ELSE <<>>
  <2>1. PICK w : w = WordsOf(text)
    OBVIOUS
  <2>2. Words(w, text) /\ Split(text, Delims) = w[Len(text)]
    BY ONLY <1>1, <2>1, WordsAreSplit
  <2>3. tokens # <<>>
    <3>1. DOMAIN <<>> = {}
      OBVIOUS
    <3>. QED BY ONLY <1>3, <3>1
  <2>4. Told(w, text, tokens, string.save)
    BY ONLY <2>1, <2>3, TextInv DEF TextInv
  <2>5. i \in 1 .. Len(tokens)
    <3>1. tokens \in Seq(Seq(Sign))
      BY ONLY <2>4 DEF Told
    <3>. QED BY ONLY <1>3, <3>1
  <2>6. tokens[i] = IF i <= Len(w[Len(text)]) THEN w[Len(text)][i] ELSE <<>>
    BY ONLY <1>1, <2>2, <2>4, <2>5, ToldIs
  <2>. QED BY ONLY <2>2, <2>6
<1>4. ASSUME NEW pos \in 0 .. Len(text) - 1, NEW len \in 1 .. 2
      PROVE  LET piece == Substr(string, pos, len)
             IN  Find(string, piece, 0) <= pos /\ CompareAt(string, Find(string, piece, 0), piece)
  BY ONLY <1>1, <1>4, FindIs
<1>5. Delims = {Space, Feed}
  BY DEF Delims
<1>. QED BY ONLY <1>1, <1>2, <1>3, <1>4, <1>5 DEF StringIsText

LEMMA TextInvInit == TextInit => TextInv
<1>. SUFFICES ASSUME TextInit PROVE TextInv
  OBVIOUS
<1>1. PICK none, o : none = <<>> /\ o = 0
  OBVIOUS
<1>2. string = [heap |-> FALSE, cap |-> Short, chars |-> none, save |-> o]
  BY ONLY <1>1, TextInit DEF TextInit, EmptyString, String
<1>3. none \in Seq(Sign) /\ Len(none) = 0
  BY ONLY <1>1
<1>4. string = [heap |-> string.heap, cap |-> string.cap, chars |-> string.chars, save |-> string.save]
  BY ONLY <1>2
<1>5. string.cap = Short /\ string.chars = none /\ string.save = o
  BY ONLY <1>2
<1>6. Short \in Nat /\ Short > 0 /\ 0 <= Short /\ 0 <= MaxLen
  BY TextAssumption
<1>7. IsString(string)
  BY ONLY <1>1, <1>3, <1>4, <1>5, <1>6 DEF IsString
<1>8. text = none /\ overrun = FALSE /\ tokens = <<>>
  BY ONLY <1>1, TextInit DEF TextInit
<1>. QED BY ONLY <1>3, <1>5, <1>6, <1>7, <1>8 DEF TextInv

LEMMA TextStays ==
  ASSUME TextInv, UNCHANGED <<string, overrun, text, tokens>>
  PROVE  TextInv'
<1>1. /\ IsString(string) /\ string.chars = text /\ Len(text) <= MaxLen /\ overrun = FALSE
      /\ tokens = <<>> \/ Told(WordsOf(text), text, tokens, string.save)
  BY ONLY TextInv DEF TextInv
<1>2. string' = string /\ text' = text /\ overrun' = overrun /\ tokens' = tokens
  BY ONLY UNCHANGED <<string, overrun, text, tokens>>
<1>3. IsString(string')
  BY ONLY <1>1, <1>2
<1>4. tokens' = <<>> \/ Told(WordsOf(text'), text', tokens', string'.save)
  BY ONLY <1>1, <1>2
<1>. QED BY ONLY <1>1, <1>2, <1>3, <1>4 DEF TextInv, IsString, Told, WordsOf, Words

LEMMA TextInvNext == TextInv /\ [TextNext]_tvars => TextInv'
<1>. SUFFICES ASSUME TextInv, [TextNext]_tvars PROVE TextInv'
  OBVIOUS
<1>1. ASSUME NEW chars \in Argument, DoAppend(chars) \/ DoAssign(chars) PROVE TextInv'
  BY ONLY <1>1, TextInv, AppendStep, AssignStep
<1>2. ASSUME NEW chars \in Argument, NEW pos \in 0 .. Len(text) + 1, DoInsert(pos, chars)
      PROVE  TextInv'
  BY ONLY <1>2, TextInv, InsertStep
<1>3. ASSUME NEW pos \in 0 .. Len(text), NEW len \in {0, 1, 2, Npos}, DoErase(pos, len)
      PROVE  TextInv'
  BY ONLY <1>3, TextInv, EraseStep
<1>4. ASSUME NEW n \in 0 .. MaxLen, DoResize(n) PROVE TextInv'
  BY ONLY <1>4, TextInv, ResizeStep
<1>5. CASE PopBack
  BY ONLY <1>5, TextInv, PopBackStep
<1>6. CASE Clear
  BY ONLY <1>6, TextInv, ClearStep
<1>7. CASE CString
  BY ONLY <1>7, TextInv, CStringStep
<1>8. CASE RemoveLf
  BY ONLY <1>8, TextInv, RemoveLfStep
<1>9. CASE RemoveLfOfEmpty
  <2>1. UNCHANGED <<string, overrun, text, tokens>>
    BY ONLY <1>9 DEF RemoveLfOfEmpty
  <2>. QED BY ONLY <2>1, TextInv, TextStays
<1>10. CASE DoTok({Space, Feed})
  <2>1. {Space, Feed} = Delims
    BY DEF Delims
  <2>2. DoTok(Delims)
    BY ONLY <1>10, <2>1
  <2>. QED BY ONLY <2>2, TextInv, TokStep
<1>11. CASE UNCHANGED tvars
  <2>1. UNCHANGED <<string, overrun, text, tokens>>
    BY ONLY <1>11 DEF tvars
  <2>. QED BY ONLY <2>1, TextInv, TextStays
<1>. QED BY ONLY <1>1, <1>2, <1>3, <1>4, <1>5, <1>6, <1>7, <1>8, <1>9, <1>10, <1>11, [TextNext]_tvars
         DEF TextNext

\* After any calls of append, insert, erase, resize and the others the string holds
\* what they make of a plain sequence, and nothing was written beyond its room; the
\* tokens that strtok() has returned are the words of the text, and empty ones after
\* them; find() finds the first place of a piece (string.cc).
THEOREM StringIsAlways == TextSpec => []StringIsText
<1>1. TextSpec => []TextInv
  BY TextInvInit, TextInvNext, PTL DEF TextSpec
<1>. QED BY <1>1, TextInvImplies, PTL
=============================================================================
