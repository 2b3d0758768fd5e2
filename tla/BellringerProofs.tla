-------------------------- MODULE BellringerProofs --------------------------
(***************************************************************************)
(* Proofs about what keeps time.  The bell ringer, for any set of threads, *)
(* any longest sleep and any width of a word that holds it: sleepers and   *)
(* bells belong together, no bell falls below zero, and the list of        *)
(* differences wakes each thread at the tick it asked for.  The clock: the *)
(* accesses a section has still to make are numbered, and one that no      *)
(* update and no prologue meets has read what the chip shows.              *)
(***************************************************************************)
EXTENDS Bellringer, Clock, ListProofs


-----------------------------------------------------------------------------
(* The times of the bells                                                  *)

\* Elapsed is what its definition says, now and after a step.
LEMMA ElapsedIs ==
  Elapsed = [i \in Nat |-> IF i = 0 THEN 0 ELSE Elapsed[i - 1] + ms[bell_list[i]]]
<1>. DEFINE a == [i \in Nat |-> ms[bell_list[i]]]
<1>1. \A F : [i \in Nat |-> IF i = 0 THEN 0 ELSE F[i - 1] + a[i]]
           = [i \in Nat |-> IF i = 0 THEN 0 ELSE F[i - 1] + ms[bell_list[i]]]
  OBVIOUS
<1>2. \E F : F = [i \in Nat |-> IF i = 0 THEN 0 ELSE F[i - 1] + a[i]]
  <2>. HIDE DEF a
  <2>. QED BY SumsExist
<1>3. \E F : F = [i \in Nat |-> IF i = 0 THEN 0 ELSE F[i - 1] + ms[bell_list[i]]]
  BY <1>1, <1>2
<1>. QED BY <1>3 DEF Elapsed

LEMMA ElapsedIsNext ==
  Elapsed' = [i \in Nat |-> IF i = 0 THEN 0 ELSE Elapsed'[i - 1] + ms'[bell_list'[i]]]
<1>. DEFINE a == [i \in Nat |-> ms'[bell_list'[i]]]
<1>1. \A F : [i \in Nat |-> IF i = 0 THEN 0 ELSE F[i - 1] + a[i]]
           = [i \in Nat |-> IF i = 0 THEN 0 ELSE F[i - 1] + ms'[bell_list'[i]]]
  OBVIOUS
<1>2. \E F : F = [i \in Nat |-> IF i = 0 THEN 0 ELSE F[i - 1] + a[i]]
  <2>. HIDE DEF a
  <2>. QED BY SumsExist
<1>3. \E F : F = [i \in Nat |-> IF i = 0 THEN 0 ELSE F[i - 1] + ms'[bell_list'[i]]]
  BY <1>1, <1>2
<1>. QED BY <1>3 DEF Elapsed

\* Times are natural numbers and do not fall from one bell to the next.
LEMMA TimesGrow ==
  ASSUME BellTypeOK
  PROVE  /\ Len(bell_list) \in Nat /\ DOMAIN bell_list = 1 .. Len(bell_list)
         /\ Elapsed[0] = 0
         /\ \A i \in 1 .. Len(bell_list) :
              /\ bell_list[i] \in Thread /\ ms[bell_list[i]] \in Nat
              /\ Elapsed[i] = Elapsed[i - 1] + ms[bell_list[i]]
         /\ \A i \in 0 .. Len(bell_list) : Elapsed[i] \in Nat
         /\ \A i, j \in 0 .. Len(bell_list) : i <= j => Elapsed[i] <= Elapsed[j]
<1>. DEFINE n == Len(bell_list)
            a == [i \in 1 .. n |-> ms[bell_list[i]]]
<1>1. n \in Nat /\ DOMAIN bell_list = 1 .. n /\ \A i \in 1 .. n : bell_list[i] \in Thread
  BY DEF BellTypeOK
<1>2. \A i \in 1 .. n : ms[bell_list[i]] \in Nat
  BY <1>1 DEF BellTypeOK
<1>3. Elapsed[0] = 0 /\ \A i \in 1 .. n : Elapsed[i] = Elapsed[i - 1] + ms[bell_list[i]]
  <2>. DEFINE E == Elapsed
  <2>1. E = [i \in Nat |-> IF i = 0 THEN 0 ELSE E[i - 1] + ms[bell_list[i]]]
    BY ElapsedIs
  <2>. HIDE DEF E
  <2>2. \A i \in Nat : E[i] = IF i = 0 THEN 0 ELSE E[i - 1] + ms[bell_list[i]]
    BY <2>1
  <2>. QED  BY <1>1, <2>2 DEF E
<1>4. /\ \A i \in 1 .. n : a[i] \in Nat
      /\ \A i \in 1 .. n : Elapsed[i] = Elapsed[i - 1] + a[i]
  BY <1>2, <1>3
<1>5. /\ \A i \in 0 .. n : Elapsed[i] \in Nat
      /\ \A i, j \in 0 .. n : i <= j => Elapsed[i] <= Elapsed[j]
  <2>. HIDE DEF a
  <2>. QED BY <1>1, <1>3, <1>4, SumsGrow
<1>. QED  BY <1>1, <1>2, <1>3, <1>5

\* job() finds the place behind the last bell that rings no later.
LEMMA BehindIs ==
  ASSUME BellTypeOK, NEW n \in Nat
  PROVE  /\ Behind(n) \in 0 .. Len(bell_list)
         /\ Elapsed[Behind(n)] <= n
         /\ Behind(n) < Len(bell_list) => Elapsed[Behind(n) + 1] > n
<1>. DEFINE S == {i \in DOMAIN bell_list : Elapsed[i] <= n}
            T == {i \in 1 .. Len(bell_list) : Elapsed[i] > n}
<1>1. PICK k \in 0 .. Len(bell_list) :
        /\ \A i \in 1 .. k : Elapsed[i] <= n
        /\ \A i \in k + 1 .. Len(bell_list) : Elapsed[i] > n
  <2>1. CASE T = {}
    <3>1. Len(bell_list) \in Nat /\ \A i \in 1 .. Len(bell_list) : Elapsed[i] \in Int
      BY TimesGrow
    <3>2. \A i \in 1 .. Len(bell_list) : Elapsed[i] <= n
      BY <2>1, <3>1
    <3>3. Len(bell_list) \in 0 .. Len(bell_list) /\ Len(bell_list) + 1 .. Len(bell_list) = {}
      BY <3>1
    <3>. QED  BY ONLY <3>2, <3>3
  <2>2. CASE T # {}
    <3>1. PICK j \in T : \A i \in T : j <= i
      <4>. HIDE DEF T
      <4>1. T \in SUBSET Nat
        BY DEF T
      <4>. QED  BY <2>2, <4>1, Least
    <3>2. j \in 1 .. Len(bell_list) /\ Elapsed[j] > n
      BY <3>1
    <3>3. ASSUME NEW i \in 1 .. j - 1 PROVE Elapsed[i] <= n
      <4>1. i \in 1 .. Len(bell_list) /\ i \notin T
        BY <3>1, <3>2, TimesGrow
      <4>. QED  BY <4>1, TimesGrow
    <3>4. ASSUME NEW i \in j .. Len(bell_list) PROVE Elapsed[i] > n
      BY <3>2, TimesGrow
    <3>5. j - 1 \in 0 .. Len(bell_list)
      BY <3>2, TimesGrow
    <3>. QED  BY <3>3, <3>4, <3>5
  <2>. QED  BY <2>1, <2>2
<1>2. S = 1 .. k
  BY <1>1, TimesGrow
<1>3. Cardinality(1 .. k) = k
  BY <1>1, FS_Interval
<1>4. Behind(n) = k
  BY <1>2, <1>3 DEF Behind
<1>5. Elapsed[k] <= n
  BY <1>1, TimesGrow
<1>6. k < Len(bell_list) => Elapsed[k + 1] > n
  BY <1>1, TimesGrow
<1>. QED  BY <1>1, <1>4, <1>5, <1>6

-----------------------------------------------------------------------------
(* The inductive invariant                                                 *)

\* A bell that rings is in the list.
IInv == BellsConsistent /\ (ringing => bell_list # <<>>)
LEMMA InitHolds == ASSUME BellringerAssumption, BellInit PROVE IInv
<1>1. 0 \in 0 .. Word - 1
  BY DEF BellringerAssumption
<1>2. BellTypeOK
  <2>1. [t \in Thread |-> 0] \in [Thread -> 0 .. Word - 1]
    BY <1>1
  <2>2. <<>> \in Seq(Thread)
    OBVIOUS
  <2>. QED  BY <2>1, <2>2 DEF BellInit, BellTypeOK
<1>3. IsInjective(bell_list) /\ \A t : ~ Contains(bell_list, t)
  BY InEmpty DEF BellInit
<1>. QED  BY <1>2, <1>3 DEF BellInit, IInv, BellsConsistent

\* What a new bell does to the list.
LEMMA JobIs ==
  ASSUME BellringerAssumption, IInv, ~ ringing, NEW t \in stack \ customer, NEW n \in 1 .. MaxMs,
         Job(t, n), NEW k, k = Behind(n)
  PROVE  /\ k \in 0 .. Len(bell_list) /\ Len(bell_list) \in Nat
         /\ ~ Contains(bell_list, t)
         /\ bell_list' \in Seq(Thread) /\ Len(bell_list') = Len(bell_list) + 1
         /\ \A i \in 1 .. Len(bell_list) + 1 : bell_list'[i] =
              IF i <= k THEN bell_list[i] ELSE IF i = k + 1 THEN t ELSE bell_list[i - 1]
         /\ n - Elapsed[k] \in 0 .. n
         /\ ms'[t] = n - Elapsed[k]
         /\ k < Len(bell_list) =>
              /\ ms'[bell_list[k + 1]] = ms[bell_list[k + 1]] - (n - Elapsed[k])
              /\ ms'[bell_list[k + 1]] \in 1 .. Word - 1
         /\ \A i \in 1 .. Len(bell_list) : i # k + 1 => ms'[bell_list[i]] = ms[bell_list[i]]
         /\ ms' \in [Thread -> 0 .. Word - 1]
<1>. USE DEF IInv, BellsConsistent
<1>1. t \in Thread /\ n \in Nat /\ Word \in Nat /\ n < Word
  BY DEF BellTypeOK, BellringerAssumption
<1>2. /\ k \in 0 .. Len(bell_list) /\ Len(bell_list) \in Nat
      /\ Elapsed[k] <= n /\ (k < Len(bell_list) => Elapsed[k + 1] > n)
      /\ Elapsed[k] \in Nat
  BY <1>1, BehindIs, TimesGrow
<1>3. ~ Contains(bell_list, t)
  OBVIOUS
<1>4. n - Elapsed[k] \in 0 .. n
  BY <1>1, <1>2
<1>5. /\ bell_list' \in Seq(Thread) /\ Len(bell_list') = Len(bell_list) + 1
      /\ \A i \in 1 .. Len(bell_list) + 1 : bell_list'[i] =
           IF i <= k THEN bell_list[i] ELSE IF i = k + 1 THEN t ELSE bell_list[i - 1]
  <2>1. bell_list' = InsertAt(bell_list, k + 1, t)
    BY DEF Job
  <2>2. bell_list \in Seq(Thread) /\ k + 1 \in 1 .. Len(bell_list) + 1
    BY <1>2 DEF BellTypeOK
  <2>3. /\ bell_list' \in Seq(Thread) /\ Len(bell_list') = Len(bell_list) + 1
        /\ \A i \in 1 .. Len(bell_list) + 1 : bell_list'[i] =
             IF i < k + 1 THEN bell_list[i] ELSE IF i = k + 1 THEN t ELSE bell_list[i - 1]
    <3>. HIDE DEF IInv, BellsConsistent
    <3>1. PICK q, p : q = bell_list /\ p = k + 1
      OBVIOUS
    <3>2. q \in Seq(Thread) /\ p \in 1 .. Len(q) + 1 /\ t \in Thread
      BY <1>1, <2>2, <3>1
    <3>. DEFINE r == InsertAt(q, p, t)
    <3>3. /\ r \in Seq(Thread) /\ Len(r) = Len(q) + 1
          /\ \A i \in 1 .. Len(q) + 1 : r[i] =
               IF i < p THEN q[i] ELSE IF i = p THEN t ELSE q[i - 1]
      BY ONLY <3>2, InsertAtIs
    <3>4. bell_list' = r
      BY <2>1, <3>1
    <3>. HIDE DEF r
    <3>. QED  BY <3>1, <3>3, <3>4
  <2>4. \A i \in 1 .. Len(bell_list) + 1 : i < k + 1 <=> i <= k
    BY <1>2
  <2>. QED  BY <2>3, <2>4
<1>6. ASSUME NEW i \in 1 .. Len(bell_list)
      PROVE  bell_list[i] \in Thread /\ bell_list[i] # t
  BY <1>3 DEF BellTypeOK, Contains
<1>7. ASSUME k < Len(bell_list)
      PROVE  /\ ms'[bell_list[k + 1]] = ms[bell_list[k + 1]] - (n - Elapsed[k])
             /\ ms'[bell_list[k + 1]] \in 1 .. Word - 1
  <2>1. k + 1 \in 1 .. Len(bell_list)
    BY <1>2, <1>7
  <2>2. ms'[bell_list[k + 1]] = ms[bell_list[k + 1]] - (n - Elapsed[k])
    BY <1>6, <1>7, <2>1 DEF Job
  <2>3. /\ Elapsed[k + 1] = Elapsed[k] + ms[bell_list[k + 1]]
        /\ ms[bell_list[k + 1]] \in 0 .. Word - 1
    BY <1>2, <1>6, <2>1, TimesGrow DEF BellTypeOK
  <2>4. ms[bell_list[k + 1]] - (n - Elapsed[k]) \in 1 .. Word - 1
    BY <1>1, <1>2, <1>4, <1>7, <2>3
  <2>. QED  BY <2>2, <2>4
<1>8. ms'[t] = n - Elapsed[k]
  BY <1>1 DEF Job
<1>9. \A i \in 1 .. Len(bell_list) : i # k + 1 => ms'[bell_list[i]] = ms[bell_list[i]]
  <2>. SUFFICES ASSUME NEW i \in 1 .. Len(bell_list), i # k + 1
                PROVE  ms'[bell_list[i]] = ms[bell_list[i]]
    OBVIOUS
  <2>1. k < Len(bell_list) => bell_list[i] # bell_list[k + 1]
    BY <1>2 DEF BellTypeOK, IsInjective
  <2>. QED  BY <1>6, <2>1 DEF Job
<1>10. ms' \in [Thread -> 0 .. Word - 1]
  <2>1. ms' = [u \in Thread |-> ms'[u]]
    BY DEF Job
  <2>2. ASSUME NEW u \in Thread PROVE ms'[u] \in 0 .. Word - 1
    <3>1. CASE u = t
      BY <1>1, <1>4, <1>8, <3>1
    <3>2. CASE k < Len(bell_list) /\ u = bell_list[k + 1]
      BY <1>1, <1>7, <3>2
    <3>3. CASE u # t /\ ~ (k < Len(bell_list) /\ u = bell_list[k + 1])
      <4>1. ms'[u] = ms[u]
        BY <3>3 DEF Job
      <4>. QED  BY <4>1 DEF BellTypeOK
    <3>. QED  BY <3>1, <3>2, <3>3
  <2>. QED  BY <2>1, <2>2
<1>. QED  BY <1>2, <1>3, <1>4, <1>5, <1>7, <1>8, <1>9, <1>10

LEMMA SleepHolds ==
  ASSUME BellringerAssumption, IInv, NEW t \in Thread, NEW n \in 0 .. MaxMs, Sleep(t, n)
  PROVE  IInv'
<1>1. /\ ~ ringing /\ t \in stack \ customer /\ n \in 1 .. MaxMs /\ Job(t, n)
      /\ customer' = customer \cup {t} /\ UNCHANGED <<stack, ringing>>
  BY DEF Sleep
<1>. DEFINE k == Behind(n)
<1>2. /\ k \in 0 .. Len(bell_list) /\ Len(bell_list) \in Nat
      /\ ~ Contains(bell_list, t)
      /\ bell_list' \in Seq(Thread) /\ Len(bell_list') = Len(bell_list) + 1
      /\ \A i \in 1 .. Len(bell_list) + 1 : bell_list'[i] =
           IF i <= k THEN bell_list[i] ELSE IF i = k + 1 THEN t ELSE bell_list[i - 1]
      /\ ms'[t] = n - Elapsed[k]
      /\ \A i \in 1 .. Len(bell_list) : i # k + 1 => ms'[bell_list[i]] = ms[bell_list[i]]
      /\ ms' \in [Thread -> 0 .. Word - 1]
  BY <1>1, JobIs
<1>. HIDE DEF k
<1>3. IsInjective(bell_list') /\ \A h : Contains(bell_list', h) <=> Contains(bell_list, h) \/ h = t
  <2>1. bell_list' = InsertAt(bell_list, k + 1, t)
    BY <1>1 DEF Job, k
  <2>2. bell_list \in Seq(Thread) /\ k + 1 \in 1 .. Len(bell_list) + 1 /\ IsInjective(bell_list)
        /\ ~ Contains(bell_list, t)
    BY <1>2 DEF IInv, BellsConsistent, BellTypeOK
  <2>3. /\ \A h : Contains(InsertAt(bell_list, k + 1, t), h) <=> Contains(bell_list, h) \/ h = t
        /\ IsInjective(InsertAt(bell_list, k + 1, t))
    BY <2>2, InInsertAt
  <2>. QED  BY <2>1, <2>3
<1>4. BellTypeOK'
  BY <1>1, <1>2 DEF IInv, BellsConsistent, BellTypeOK
<1>5. bell_list' # <<>> /\ Head(bell_list') = bell_list'[1]
  BY <1>2
<1>6. ms'[Head(bell_list')] # 0
  <2>1. CASE k = 0
    <3>1. Head(bell_list') = t /\ Elapsed[0] = 0
      BY <1>2, <1>5, <2>1, TimesGrow DEF IInv, BellsConsistent
    <3>. QED  BY <1>1, <1>2, <2>1, <3>1
  <2>2. CASE k # 0
    <3>1. Head(bell_list') = bell_list[1] /\ 1 \in 1 .. Len(bell_list) /\ 1 # k + 1
      BY <1>2, <1>5, <2>2
    <3>2. bell_list # <<>> /\ Head(bell_list) = bell_list[1]
      BY <3>1 DEF IInv, BellsConsistent, BellTypeOK
    <3>3. ms[bell_list[1]] # 0
      BY <1>1, <3>2 DEF IInv, BellsConsistent
    <3>. QED  BY <1>2, <3>1, <3>3
  <2>. QED  BY <2>1, <2>2
<1>. QED  BY <1>1, <1>3, <1>4, <1>5, <1>6 DEF IInv, BellsConsistent

LEMMA CheckTickHolds == ASSUME BellringerAssumption, IInv, CheckTick PROVE IInv'
<1>1. /\ ~ ringing /\ bell_list # <<>> /\ bell_list' = bell_list
      /\ ms' = [ms EXCEPT ![Head(bell_list)] = (@ - 1) % Word]
      /\ ringing' = (ms'[Head(bell_list)] = 0)
      /\ customer' = customer /\ stack' = stack
  BY DEF CheckTick
<1>2. /\ Head(bell_list) \in Thread /\ ms[Head(bell_list)] \in 1 .. Word - 1
      /\ Word \in Nat
  <2>1. Head(bell_list) \in Thread
    BY <1>1 DEF IInv, BellsConsistent, BellTypeOK
  <2>. QED  BY <1>1, <2>1 DEF IInv, BellsConsistent, BellTypeOK, BellringerAssumption
<1>3. ms' = [ms EXCEPT ![Head(bell_list)] = @ - 1]
  <2>1. (ms[Head(bell_list)] - 1) % Word = ms[Head(bell_list)] - 1
    BY <1>2
  <2>. QED  BY <1>1, <2>1
<1>4. BellTypeOK'
  BY <1>1, <1>2, <1>3 DEF IInv, BellsConsistent, BellTypeOK
<1>. QED  BY <1>1, <1>4 DEF IInv, BellsConsistent

\* The bell that rings has no time left, so cancelling it changes no other.
LEMMA CancelIs ==
  ASSUME BellringerAssumption, IInv, ringing, Cancel
  PROVE  bell_list # <<>> /\ bell_list' = Tail(bell_list) /\ ms' = ms
<1>1. bell_list # <<>> /\ ms[bell_list[1]] = 0 /\ Word \in Nat
  BY DEF IInv, BellsConsistent, BellTypeOK, BellringerAssumption
<1>2. ASSUME Len(bell_list) # 1 PROVE ms' = ms
  <2>1. bell_list[2] \in Thread /\ ms[bell_list[2]] \in 0 .. Word - 1
    <3>1. 2 \in 1 .. Len(bell_list)
      <4>1. bell_list \in Seq(Thread) /\ bell_list # <<>>
        BY <1>1 DEF IInv, BellsConsistent, BellTypeOK
      <4>2. Len(bell_list) \in Nat /\ Len(bell_list) # 0
        BY <4>1
      <4>3. \A m \in Nat : m # 0 /\ m # 1 => 2 \in 1 .. m
        OBVIOUS
      <4>. QED  BY <1>2, <4>2, <4>3
    <3>2. bell_list[2] \in Thread
      BY <3>1 DEF IInv, BellsConsistent, BellTypeOK
    <3>. QED  BY <3>2 DEF IInv, BellsConsistent, BellTypeOK
  <2>2. (ms[bell_list[2]] + ms[bell_list[1]]) % Word = ms[bell_list[2]]
    BY <1>1, <2>1
  <2>3. ms' = [ms EXCEPT ![bell_list[2]] = ms[bell_list[2]]]
    BY <1>2, <2>2 DEF Cancel
  <2>. QED  BY <2>1, <2>3 DEF IInv, BellsConsistent, BellTypeOK
<1>. QED  BY <1>1, <1>2 DEF Cancel

LEMMA CheckRingHolds == ASSUME BellringerAssumption, IInv, CheckRing PROVE IInv'
<1>1. /\ bell_list # <<>> /\ bell_list' = Tail(bell_list) /\ ms' = ms
      /\ customer' = customer \ {Head(bell_list)} /\ stack' = stack
      /\ ringing' = (bell_list' # <<>> /\ ms'[Head(bell_list')] = 0)
  BY CancelIs DEF CheckRing
<1>2. /\ bell_list' \in Seq(Thread) /\ IsInjective(bell_list')
      /\ \A h : Contains(bell_list', h) <=> Contains(bell_list, h) /\ h # Head(bell_list)
  <2>1. bell_list \in Seq(Thread) /\ IsInjective(bell_list)
    BY DEF IInv, BellsConsistent, BellTypeOK
  <2>. QED  BY <1>1, <2>1, InTail
<1>3. BellTypeOK'
  BY <1>1, <1>2 DEF IInv, BellsConsistent, BellTypeOK
<1>. QED  BY <1>1, <1>2, <1>3 DEF IInv, BellsConsistent

LEMMA KillHolds ==
  ASSUME IInv, NEW t \in Thread, KillSleeper(t) PROVE IInv'
  BY DEF KillSleeper, IInv, BellsConsistent, BellTypeOK

LEMMA IInvHolds == ASSUME BellringerAssumption PROVE BellSpec => []IInv
<1>1. BellInit => IInv
  BY InitHolds
<1>2. ASSUME IInv, [BellNext]_bells PROVE IInv'
  <2>1. CASE UNCHANGED bells
    BY <1>2, <2>1 DEF bells, IInv, BellsConsistent, BellTypeOK
  <2>2. CASE BellNext
    BY <1>2, <2>2, SleepHolds, CheckTickHolds, CheckRingHolds, KillHolds DEF BellNext, Check
  <2>. QED  BY <1>2, <2>1, <2>2
<1>. QED  BY <1>1, <1>2, PTL DEF BellSpec

\* A thread sleeps exactly while its bell is in the list, but for the bells of killed
\* threads, and check() never takes a tick from a bell that has none left: for any
\* threads, any longest sleep, and any width of the counter that holds it.
THEOREM BellsBelong == ASSUME BellringerAssumption PROVE BellSpec => []BellsConsistent
  BY IInvHolds, PTL DEF IInv

-----------------------------------------------------------------------------
(* Refinement: the times until the alarms                                  *)

Lefts == [t \in Thread |-> Left(t)]

\* Nothing is twice in the list, so what is found there is where it was put.
LEMMA PlaceIs ==
  ASSUME NEW S, NEW q \in Seq(S), IsInjective(q), NEW i \in 1 .. Len(q)
  PROVE  (CHOOSE j \in DOMAIN q : q[j] = q[i]) = i
<1>1. DOMAIN q = 1 .. Len(q)
  OBVIOUS
<1>2. \A j \in DOMAIN q : q[j] = q[i] <=> j = i
  BY <1>1 DEF IsInjective
<1>. QED  BY <1>1, <1>2

\* The times when a thread does not sleep, and when its bell is the i-th.
LEMMA LeftIs ==
  ASSUME IInv
  PROVE  /\ \A t \in Thread \ customer : Left(t) = -1
         /\ \A i \in 1 .. Len(bell_list) : bell_list[i] \in customer => Left(bell_list[i]) = Elapsed[i]
         /\ \A t \in customer : \E i \in 1 .. Len(bell_list) : bell_list[i] = t
<1>. USE DEF IInv, BellsConsistent
<1>1. bell_list \in Seq(Thread) /\ IsInjective(bell_list)
  BY DEF BellTypeOK
<1>2. ASSUME NEW i \in 1 .. Len(bell_list)
      PROVE  (CHOOSE j \in DOMAIN bell_list : bell_list[j] = bell_list[i]) = i
  BY <1>1, PlaceIs
<1>. QED  BY <1>2 DEF Left, Contains

LEMMA LeftIsNext ==
  ASSUME IInv'
  PROVE  /\ \A t \in Thread \ customer' : Left(t)' = -1
         /\ \A i \in 1 .. Len(bell_list') : bell_list'[i] \in customer' => Left(bell_list[i])' = Elapsed'[i]
         /\ \A t \in customer' : \E i \in 1 .. Len(bell_list') : bell_list'[i] = t
<1>. USE DEF IInv, BellsConsistent
<1>1. bell_list' \in Seq(Thread) /\ IsInjective(bell_list')
  BY DEF BellTypeOK
<1>2. ASSUME NEW i \in 1 .. Len(bell_list')
      PROVE  (CHOOSE j \in DOMAIN bell_list' : bell_list'[j] = bell_list'[i]) = i
  BY <1>1, PlaceIs
<1>. QED  BY <1>2 DEF Left, Contains

\* Between two calls of check() every alarm is still to go off.
LEMMA NothingDue ==
  ASSUME IInv, ~ ringing
  PROVE  /\ \A i \in 1 .. Len(bell_list) : Elapsed[i] \in Nat \ {0}
         /\ AbstractAlarms!NoneDue
<1>1. ASSUME NEW i \in 1 .. Len(bell_list) PROVE Elapsed[i] \in Nat \ {0}
  <2>1. BellTypeOK
    BY DEF IInv, BellsConsistent
  <2>2. /\ 1 \in 1 .. Len(bell_list) /\ bell_list # <<>> /\ Head(bell_list) = bell_list[1]
        /\ i \in 0 .. Len(bell_list) /\ 1 \in 0 .. Len(bell_list)
    BY <2>1 DEF BellTypeOK
  <2>3. ms[bell_list[1]] # 0
    BY <2>2 DEF IInv, BellsConsistent
  <2>4. Elapsed[1] = Elapsed[0] + ms[bell_list[1]] /\ Elapsed[0] = 0 /\ ms[bell_list[1]] \in Nat
    BY <2>1, <2>2, TimesGrow
  <2>5. Elapsed[1] <= Elapsed[i] /\ Elapsed[i] \in Nat
    BY <2>1, <2>2, TimesGrow
  <2>. QED  BY <2>3, <2>4, <2>5
<1>2. ASSUME NEW t \in Thread PROVE Left(t) # 0
  BY <1>1, LeftIs
<1>. QED  BY <1>1, <1>2 DEF AbstractAlarms!NoneDue

\* The times after a step, one from the other.
LEMMA TimesNext ==
  ASSUME IInv'
  PROVE  /\ Elapsed'[0] = 0
         /\ \A i \in 1 .. Len(bell_list') : Elapsed'[i] = Elapsed'[i - 1] + ms'[bell_list'[i]]
<1>. DEFINE E == Elapsed'
<1>1. E = [i \in Nat |-> IF i = 0 THEN 0 ELSE E[i - 1] + ms'[bell_list'[i]]]
  BY ElapsedIsNext
<1>2. Len(bell_list') \in Nat
  BY DEF IInv, BellsConsistent, BellTypeOK
<1>. HIDE DEF E
<1>3. \A i \in Nat : E[i] = IF i = 0 THEN 0 ELSE E[i - 1] + ms'[bell_list'[i]]
  BY <1>1
<1>4. E[0] = 0 /\ \A i \in 1 .. Len(bell_list') : E[i] = E[i - 1] + ms'[bell_list'[i]]
  BY <1>2, <1>3
<1>. QED  BY <1>4 DEF E

\* Two lists of sums with the same first numbers have the same first sums.
Alike(n, F, G) == F[0] = G[0] /\ \A i \in 1 .. n : F[i - 1] = G[i - 1] => F[i] = G[i]
LEMMA SumsSame ==
  ASSUME NEW n \in Nat, NEW F, NEW G, Alike(n, F, G)
  PROVE  \A i \in 0 .. n : F[i] = G[i]
<1>. DEFINE T == {i \in 0 .. n : F[i] # G[i]}
<1>. SUFFICES ASSUME T # {} PROVE FALSE
  OBVIOUS
<1>1. PICK i \in T : \A j \in T : i <= j
  <2>. HIDE DEF T
  <2>1. T \in SUBSET Nat
    BY DEF T
  <2>. QED  BY <2>1, Least
<1>2. i \in 1 .. n /\ i - 1 \in 0 .. n /\ i - 1 \notin T
  BY <1>1 DEF Alike
<1>. QED  BY <1>1, <1>2 DEF Alike

\* What Sleep does to the times: the new bell rings after n ticks, the others when they
\* would have rung anyway.
LEMMA SleepTimes ==
  ASSUME BellringerAssumption, IInv, IInv', NEW t \in Thread, NEW n \in 0 .. MaxMs, Sleep(t, n)
  PROVE  \A i \in 1 .. Len(bell_list') :
           Elapsed'[i] = IF i <= Behind(n) THEN Elapsed[i]
                         ELSE IF i = Behind(n) + 1 THEN n ELSE Elapsed[i - 1]
<1>1. ~ ringing /\ t \in stack \ customer /\ n \in 1 .. MaxMs /\ Job(t, n)
  BY DEF Sleep
<1>. DEFINE k == Behind(n)
            F == Elapsed'
            L == Len(bell_list)
            G == [i \in 0 .. L + 1 |-> IF i <= k THEN Elapsed[i]
                                       ELSE IF i = k + 1 THEN n ELSE Elapsed[i - 1]]
<1>2. /\ k \in 0 .. L /\ L \in Nat /\ Len(bell_list') = L + 1
      /\ \A i \in 1 .. L + 1 : bell_list'[i] =
           IF i <= k THEN bell_list[i] ELSE IF i = k + 1 THEN t ELSE bell_list[i - 1]
      /\ ms'[t] = n - Elapsed[k]
      /\ k < L => ms'[bell_list[k + 1]] = ms[bell_list[k + 1]] - (n - Elapsed[k])
      /\ \A i \in 1 .. L : i # k + 1 => ms'[bell_list[i]] = ms[bell_list[i]]
  BY <1>1, JobIs
<1>3. /\ Elapsed[0] = 0 /\ n \in Nat
      /\ \A i \in 1 .. L : ms[bell_list[i]] \in Nat /\ Elapsed[i] = Elapsed[i - 1] + ms[bell_list[i]]
      /\ \A i \in 0 .. L : Elapsed[i] \in Nat
  BY TimesGrow DEF IInv, BellsConsistent
<1>4. F[0] = 0 /\ \A i \in 1 .. L + 1 : F[i] = F[i - 1] + ms'[bell_list'[i]]
  BY <1>2, TimesNext
<1>. HIDE DEF k, F, L
<1>5. F[0] = G[0]
  BY <1>2, <1>3, <1>4
<1>6. ASSUME NEW i \in 1 .. L + 1, F[i - 1] = G[i - 1] PROVE F[i] = G[i]
  <2>0. F[i] = G[i - 1] + ms'[bell_list'[i]] /\ i \in 0 .. L + 1 /\ i - 1 \in 0 .. L + 1
    BY <1>2, <1>4, <1>6
  <2>1. CASE i <= k
    <3>1. G[i - 1] = Elapsed[i - 1] /\ ms'[bell_list'[i]] = ms[bell_list[i]] /\ i \in 1 .. L
      BY <1>2, <2>0, <2>1
    <3>. QED  BY <1>3, <2>0, <2>1, <3>1
  <2>2. CASE i = k + 1
    <3>1. G[i - 1] = Elapsed[k] /\ ms'[bell_list'[i]] = n - Elapsed[k] /\ Elapsed[k] \in Nat
      BY <1>2, <1>3, <2>0, <2>2
    <3>. QED  BY <1>2, <1>3, <2>0, <2>2, <3>1
  <2>3. CASE i = k + 2
    <3>1. /\ G[i - 1] = n /\ bell_list'[i] = bell_list[k + 1] /\ k < L
          /\ k + 1 \in 1 .. L /\ i - 1 = k + 1
      BY <1>2, <2>0, <2>3
    <3>2. /\ Elapsed[k + 1] = Elapsed[k + 1 - 1] + ms[bell_list[k + 1]] /\ Elapsed[k] \in Nat
          /\ ms[bell_list[k + 1]] \in Nat /\ k + 1 - 1 = k
      BY <1>2, <1>3, <3>1
    <3>3. F[i] = n + (ms[bell_list[k + 1]] - (n - Elapsed[k]))
      BY <1>2, <2>0, <3>1
    <3>4. G[i] = Elapsed[k + 1]
      BY <1>2, <2>0, <2>3, <3>1
    <3>. QED  BY <1>3, <3>2, <3>3, <3>4
  <2>4. CASE i > k + 2
    <3>1. G[i - 1] = Elapsed[i - 2] /\ bell_list'[i] = bell_list[i - 1] /\ i - 1 \in 1 .. L /\ i - 1 # k + 1
      BY <1>2, <2>0, <2>4
    <3>2. Elapsed[i - 1] = Elapsed[i - 2] + ms[bell_list[i - 1]] /\ ms'[bell_list[i - 1]] = ms[bell_list[i - 1]]
      BY <1>2, <1>3, <3>1
    <3>3. G[i] = Elapsed[i - 1]
      BY <1>2, <2>0, <2>4
    <3>. QED  BY <2>0, <3>1, <3>2, <3>3
  <2>. QED  BY <1>2, <2>1, <2>2, <2>3, <2>4
<1>7. \A i \in 0 .. L + 1 : F[i] = G[i]
  <2>. HIDE DEF G
  <2>1. L + 1 \in Nat
    BY <1>2
  <2>2. \A i \in 1 .. L + 1 : F[i - 1] = G[i - 1] => F[i] = G[i]
    BY <1>6
  <2>. QED  BY <1>5, <2>1, <2>2, SumsSame DEF Alike
<1>. QED  BY <1>2, <1>7 DEF F, k, L

LEMMA SleepImplements ==
  ASSUME BellringerAssumption, IInv, IInv', NEW t \in Thread, NEW n \in 0 .. MaxMs, Sleep(t, n)
  PROVE  AbstractAlarms!Set(t)
<1>1. /\ ~ ringing /\ t \in stack \ customer /\ n \in 1 .. MaxMs /\ Job(t, n)
      /\ customer' = customer \cup {t}
  BY DEF Sleep
<1>. DEFINE k == Behind(n)
<1>2. /\ k \in 0 .. Len(bell_list) /\ Len(bell_list') = Len(bell_list) + 1 /\ Len(bell_list) \in Nat
      /\ \A i \in 1 .. Len(bell_list) + 1 : bell_list'[i] =
           IF i <= k THEN bell_list[i] ELSE IF i = k + 1 THEN t ELSE bell_list[i - 1]
  BY <1>1, JobIs
<1>3. \A i \in 1 .. Len(bell_list') :
        Elapsed'[i] = IF i <= k THEN Elapsed[i] ELSE IF i = k + 1 THEN n ELSE Elapsed[i - 1]
  BY SleepTimes
<1>. HIDE DEF k
<1>4. Left(t) = -1 /\ Left(t)' = n
  <2>1. k + 1 \in 1 .. Len(bell_list') /\ bell_list'[k + 1] = t /\ Elapsed'[k + 1] = n
    BY <1>2, <1>3
  <2>. QED  BY <1>1, <2>1, LeftIs, LeftIsNext
<1>5. ASSUME NEW u \in Thread, u # t PROVE Left(u)' = Left(u)
  <2>1. CASE u \in customer
    <3>1. PICK i \in 1 .. Len(bell_list) : bell_list[i] = u /\ Left(u) = Elapsed[i]
      BY <2>1, LeftIs
    <3>. DEFINE j == IF i <= k THEN i ELSE i + 1
    <3>2. j \in 1 .. Len(bell_list') /\ bell_list'[j] = u /\ Elapsed'[j] = Elapsed[i]
      BY <1>2, <1>3, <3>1
    <3>3. u \in customer'
      BY <1>1, <2>1
    <3>. HIDE DEF j
    <3>. QED  BY <3>1, <3>2, <3>3, LeftIsNext
  <2>2. CASE u \notin customer
    BY <1>1, <1>5, <2>2, LeftIs, LeftIsNext
  <2>. QED  BY <2>1, <2>2
<1>6. /\ Lefts[t] = -1 /\ Lefts'[t] = n /\ n \in Nat \ {0}
      /\ Lefts' = [Lefts EXCEPT ![t] = Lefts'[t]]
  <2>1. Lefts[t] = -1 /\ Lefts'[t] = n
    BY <1>4 DEF Lefts
  <2>2. Lefts' = [Lefts EXCEPT ![t] = Lefts'[t]]
    BY <1>5 DEF Lefts
  <2>. QED  BY <1>1, <2>1, <2>2
<1>7. AbstractAlarms!NoneDue
  BY <1>1, NothingDue
<1>. QED  BY <1>6, <1>7 DEF AbstractAlarms!Set, AbstractAlarms!Off, Lefts

\* A tick brings every bell one tick nearer, though only the first one's ms changes.
LEMMA TickImplements ==
  ASSUME BellringerAssumption, IInv, IInv', CheckTick
  PROVE  AbstractAlarms!Tick
<1>. DEFINE F == Elapsed'
            L == Len(bell_list)
            G == [i \in 0 .. L |-> IF i = 0 THEN 0 ELSE Elapsed[i] - 1]
<1>1. /\ ~ ringing /\ bell_list # <<>> /\ bell_list' = bell_list /\ customer' = customer
      /\ ms' = [ms EXCEPT ![Head(bell_list)] = (@ - 1) % Word]
  BY DEF CheckTick
<1>2. /\ L \in Nat /\ 1 \in 1 .. L /\ Head(bell_list) = bell_list[1] /\ bell_list \in Seq(Thread)
  BY <1>1 DEF IInv, BellsConsistent, BellTypeOK
<1>3. /\ Elapsed[0] = 0
      /\ \A i \in 1 .. L : bell_list[i] \in Thread /\ ms[bell_list[i]] \in Nat
      /\ \A i \in 1 .. L : Elapsed[i] = Elapsed[i - 1] + ms[bell_list[i]] /\ Elapsed[i] \in Nat \ {0}
  BY <1>1, TimesGrow, NothingDue DEF IInv, BellsConsistent
<1>4. ms'[bell_list[1]] = ms[bell_list[1]] - 1
  <2>1. /\ ms[bell_list[1]] \in 0 .. Word - 1 /\ ms[bell_list[1]] # 0 /\ Word \in Nat
        /\ bell_list[1] \in Thread /\ ms' = [ms EXCEPT ![bell_list[1]] = (ms[bell_list[1]] - 1) % Word]
    BY <1>1, <1>2, <1>3 DEF IInv, BellsConsistent, BellTypeOK, BellringerAssumption
  <2>2. (ms[bell_list[1]] - 1) % Word = ms[bell_list[1]] - 1
    BY <2>1
  <2>3. ms'[bell_list[1]] = (ms[bell_list[1]] - 1) % Word
    BY <2>1 DEF IInv, BellsConsistent, BellTypeOK
  <2>. QED  BY <2>2, <2>3
<1>5. ASSUME NEW i \in 2 .. L PROVE ms'[bell_list[i]] = ms[bell_list[i]]
  <2>1. bell_list[i] # bell_list[1] /\ bell_list[i] \in Thread
    <3>1. i \in DOMAIN bell_list /\ 1 \in DOMAIN bell_list /\ i # 1 /\ i \in 1 .. L
      BY <1>2
    <3>2. IsInjective(bell_list)
      BY DEF IInv, BellsConsistent
    <3>. QED  BY <1>3, <3>1, <3>2 DEF IsInjective
  <2>. QED  BY <1>1, <1>2, <2>1 DEF IInv, BellsConsistent, BellTypeOK
<1>6. F[0] = 0 /\ \A i \in 1 .. L : F[i] = F[i - 1] + ms'[bell_list[i]]
  BY <1>1, TimesNext
<1>. HIDE DEF F
<1>7. F[0] = G[0]
  BY <1>2, <1>6
<1>8. ASSUME NEW i \in 1 .. L, F[i - 1] = G[i - 1] PROVE F[i] = G[i]
  <2>1. F[i] = G[i - 1] + ms'[bell_list[i]] /\ i \in 0 .. L /\ i - 1 \in 0 .. L
    BY <1>2, <1>6, <1>8
  <2>2. CASE i = 1
    BY <1>2, <1>3, <1>4, <2>1, <2>2
  <2>3. CASE i # 1
    <3>1. i \in 2 .. L /\ G[i - 1] = Elapsed[i - 1] - 1 /\ i - 1 \in 1 .. L
      BY <1>2, <2>1, <2>3
    <3>2. ms'[bell_list[i]] = ms[bell_list[i]] /\ Elapsed[i] = Elapsed[i - 1] + ms[bell_list[i]]
      BY <1>3, <1>5, <3>1
    <3>3. Elapsed[i - 1] \in Nat /\ ms[bell_list[i]] \in Nat /\ G[i] = Elapsed[i] - 1
      BY <1>2, <1>3, <3>1
    <3>4. F[i] = (Elapsed[i - 1] - 1) + ms[bell_list[i]]
      BY <2>1, <3>1, <3>2
    <3>5. \A x, y \in Nat : (x - 1) + y = (x + y) - 1
      OBVIOUS
    <3>6. F[i] = (Elapsed[i - 1] + ms[bell_list[i]]) - 1
      BY <3>3, <3>4, <3>5
    <3>. QED  BY <3>2, <3>3, <3>6
  <2>. QED  BY <2>2, <2>3
<1>9. \A i \in 1 .. L : F[i] = Elapsed[i] - 1
  <2>1. \A i \in 0 .. L : F[i] = G[i]
    <3>. HIDE DEF G
    <3>1. \A i \in 1 .. L : F[i - 1] = G[i - 1] => F[i] = G[i]
      BY <1>8
    <3>2. L \in Nat
      BY <1>2
    <3>3. Alike(L, F, G)
      BY ONLY <1>7, <3>1 DEF Alike
    <3>. QED  BY ONLY <3>2, <3>3, SumsSame
  <2>. QED  BY <1>2, <2>1
<1>10. ASSUME NEW t \in Thread
       PROVE  Left(t)' = IF Left(t) = -1 THEN -1 ELSE Left(t) - 1
  <2>1. CASE t \in customer
    <3>1. PICK i \in 1 .. L : bell_list[i] = t /\ Left(t) = Elapsed[i]
      BY <2>1, LeftIs
    <3>2. Left(t)' = F[i]
      BY <1>1, <2>1, <3>1, LeftIsNext DEF F
    <3>. QED  BY <1>3, <1>9, <3>1, <3>2
  <2>2. CASE t \notin customer
    BY <1>1, <2>2, LeftIs, LeftIsNext
  <2>. QED  BY <2>1, <2>2
<1>11. AbstractAlarms!NoneDue
  BY <1>1, NothingDue
<1>. QED  BY <1>10, <1>11 DEF AbstractAlarms!Tick, AbstractAlarms!Off

\* What rings is due, and the others ring when they would have rung anyway.
LEMMA RingImplements ==
  ASSUME BellringerAssumption, IInv, IInv', CheckRing
  PROVE  AbstractAlarms!Ring(Head(bell_list)) \/ Lefts' = Lefts
<1>. DEFINE F == Elapsed'
            L == Len(bell_list)
            G == [i \in 0 .. L - 1 |-> Elapsed[i + 1]]
<1>0. PICK h : h = Head(bell_list)
  OBVIOUS
<1>1. /\ ringing /\ bell_list # <<>> /\ bell_list' = Tail(bell_list) /\ ms' = ms
      /\ customer' = customer \ {h}
  BY <1>0, CancelIs DEF CheckRing
<1>2. /\ L \in Nat /\ L >= 1 /\ 1 \in 1 .. L /\ h = bell_list[1] /\ h \in Thread
      /\ Len(bell_list') = L - 1 /\ \A i \in 1 .. L - 1 : bell_list'[i] = bell_list[i + 1]
      /\ bell_list \in Seq(Thread) /\ IsInjective(bell_list)
  <2>1. bell_list \in Seq(Thread) /\ IsInjective(bell_list)
    BY DEF IInv, BellsConsistent, BellTypeOK
  <2>. QED  BY <1>0, <1>1, <2>1
<1>3. /\ Elapsed[0] = 0
      /\ \A i \in 1 .. L : Elapsed[i] = Elapsed[i - 1] + ms[bell_list[i]] /\ ms[bell_list[i]] \in Nat
  BY TimesGrow DEF IInv, BellsConsistent
<1>4. Elapsed[1] = 0
  <2>1. ms[bell_list[1]] = 0
    BY <1>1, <1>2 DEF IInv, BellsConsistent
  <2>. QED  BY <1>2, <1>3, <2>1
<1>5. \A i \in 1 .. L - 1 : F[i] = Elapsed[i + 1]
  <2>1. F[0] = 0 /\ \A i \in 1 .. L - 1 : F[i] = F[i - 1] + ms'[bell_list'[i]]
    BY <1>2, TimesNext
  <2>. HIDE DEF F, L
  <2>2. F[0] = G[0] /\ L - 1 \in Nat
    BY <1>2, <1>4, <2>1
  <2>3. ASSUME NEW i \in 1 .. L - 1, F[i - 1] = G[i - 1] PROVE F[i] = G[i]
    <3>1. /\ F[i] = G[i - 1] + ms[bell_list[i + 1]]
          /\ i \in 0 .. L - 1 /\ i - 1 \in 0 .. L - 1 /\ i + 1 \in 1 .. L
      BY <1>1, <1>2, <2>1, <2>3
    <3>2. G[i - 1] = Elapsed[i] /\ G[i] = Elapsed[i + 1]
      BY <1>2, <3>1
    <3>3. Elapsed[i + 1] = Elapsed[i] + ms[bell_list[i + 1]]
      BY <1>2, <1>3, <3>1
    <3>. QED  BY <3>1, <3>2, <3>3
  <2>4. \A i \in 0 .. L - 1 : F[i] = G[i]
    <3>. HIDE DEF G
    <3>1. \A i \in 1 .. L - 1 : F[i - 1] = G[i - 1] => F[i] = G[i]
      BY <2>3
    <3>. QED  BY <2>2, <3>1, SumsSame DEF Alike
  <2>. QED  BY <1>2, <2>4
<1>. HIDE DEF F
<1>6. ASSUME NEW t \in Thread, t # h PROVE Left(t)' = Left(t)
  <2>1. CASE t \in customer
    <3>1. PICK i \in 1 .. L : bell_list[i] = t /\ Left(t) = Elapsed[i]
      BY <2>1, LeftIs
    <3>2. i - 1 \in 1 .. L - 1 /\ bell_list'[i - 1] = t
      BY <1>2, <1>6, <3>1
    <3>3. Left(t)' = F[i - 1]
      BY <1>1, <1>2, <1>6, <2>1, <3>2, LeftIsNext DEF F
    <3>. QED  BY <1>2, <1>5, <3>1, <3>2, <3>3
  <2>2. CASE t \notin customer
    BY <1>1, <2>2, LeftIs, LeftIsNext
  <2>. QED  BY <2>1, <2>2
<1>7. Left(h)' = -1
  BY <1>1, <1>2, LeftIsNext
<1>8. CASE h \in customer
  <2>1. Left(h) = 0
    BY <1>2, <1>4, <1>8, LeftIs
  <2>2. Lefts[h] = 0 /\ Lefts' = [Lefts EXCEPT ![h] = -1]
    BY <1>2, <1>6, <1>7, <2>1 DEF Lefts
  <2>. QED  BY <1>0, <2>2 DEF AbstractAlarms!Ring, AbstractAlarms!Off, Lefts
<1>9. CASE h \notin customer
  BY <1>2, <1>6, <1>7, <1>9, LeftIs DEF Lefts
<1>. QED  BY <1>8, <1>9

LEMMA KillImplements ==
  ASSUME IInv, IInv', NEW t \in Thread, KillSleeper(t)
  PROVE  AbstractAlarms!Unset(t)
<1>1. /\ ~ ringing /\ customer' = customer \ {t} /\ bell_list' = bell_list /\ ms' = ms
  BY DEF KillSleeper
<1>2. Elapsed' = Elapsed
  BY <1>1 DEF Elapsed
<1>3. Left(t)' = -1
  BY <1>1, LeftIsNext
<1>4. ASSUME NEW u \in Thread, u # t PROVE Left(u)' = Left(u)
  BY <1>1, <1>2, <1>4 DEF Left
<1>5. AbstractAlarms!NoneDue
  BY <1>1, NothingDue
<1>. QED  BY <1>3, <1>4, <1>5 DEF AbstractAlarms!Unset, AbstractAlarms!Off

\* meeting/bellringer.cc: job() and check() keep only differences, and yet each thread
\* sleeps for the ticks it asked for, whatever is inserted before it, between and
\* behind, and whoever is killed: the list of differences implements one alarm per thread.
THEOREM BellsAreAlarms == ASSUME BellringerAssumption PROVE BellSpec => ImplementsAlarms
<1>1. BellInit => IInv /\ AbstractAlarms!AlarmsInit
  <2>. SUFFICES ASSUME BellInit PROVE IInv /\ AbstractAlarms!AlarmsInit
    OBVIOUS
  <2>1. \A t \in Thread : Left(t) = -1
    BY DEF BellInit, Left
  <2>. QED  BY <2>1, InitHolds DEF AbstractAlarms!AlarmsInit, AbstractAlarms!Off
<1>2. ASSUME IInv, IInv', [BellNext]_bells PROVE [AbstractAlarms!AlarmsNext]_Lefts
  <2>1. CASE UNCHANGED bells
    <3>1. Elapsed' = Elapsed
      BY <2>1 DEF bells, Elapsed
    <3>. QED  BY <2>1, <3>1 DEF bells, Lefts, Left
  <2>2. CASE CheckTick
    BY <1>2, <2>2, TickImplements DEF AbstractAlarms!AlarmsNext
  <2>3. CASE CheckRing
    <3>1. Head(bell_list) \in Thread
      <4>1. bell_list # <<>> /\ bell_list \in Seq(Thread)
        BY <1>2, <2>3 DEF CheckRing, IInv, BellsConsistent, BellTypeOK
      <4>. QED  BY <4>1
    <3>. QED  BY <1>2, <2>3, <3>1, RingImplements DEF AbstractAlarms!AlarmsNext
  <2>4. ASSUME NEW t \in Thread, KillSleeper(t) PROVE AbstractAlarms!AlarmsNext
    BY <1>2, <2>4, KillImplements DEF AbstractAlarms!AlarmsNext
  <2>5. ASSUME NEW t \in Thread, NEW n \in 0 .. MaxMs, Sleep(t, n) PROVE AbstractAlarms!AlarmsNext
    BY <1>2, <2>5, SleepImplements DEF AbstractAlarms!AlarmsNext
  <2>. QED  BY <1>2, <2>1, <2>2, <2>3, <2>4, <2>5 DEF BellNext, Check
<1>3. [AbstractAlarms!AlarmsNext]_Lefts => [AbstractAlarms!AlarmsNext]_([t \in Thread |-> Left(t)])
  BY DEF Lefts
<1>. QED  BY <1>1, <1>2, <1>3, IInvHolds, PTL DEF BellSpec, ImplementsAlarms, AbstractAlarms!AlarmsSpec

-----------------------------------------------------------------------------
(* The clock                                                               *)

\* The accesses of a section that sets the time and reads it again; one that only
\* reads it makes the last four of them.
KindOf(n) == IF n \in {1, 4, 7, 9} THEN "wait" ELSE IF n \in {2, 5} THEN "skip"
             ELSE IF n \in {3, 6} THEN "write" ELSE "read"
RegOf(n) == IF n \in {1, 4, 7, 9} THEN "A" ELSE IF n \in {2, 3, 10} THEN "minute" ELSE "second"
Access == [kind : {"wait", "skip", "write", "read"}, reg : {"A", "second", "minute"}]

\* The accesses from number n + 1 on.
From(q, n) ==
  q \in Seq(Access) /\ \A m \in 1 .. Len(q) : q[m].kind = KindOf(n + m) /\ q[m].reg = RegOf(n + m)
Ahead(q) == Len(q) \in 0 .. 10 /\ From(q, 10 - Len(q))

LEMMA FromConcat ==
  ASSUME NEW q, NEW r, NEW n \in Nat, NEW k, k = n + Len(q), From(q, n), From(r, k)
  PROVE  From(q \o r, n) /\ Len(q \o r) = Len(q) + Len(r)
<1>1. /\ q \o r \in Seq(Access) /\ Len(q \o r) = Len(q) + Len(r) /\ Len(q) \in Nat /\ Len(r) \in Nat
      /\ \A m \in 1 .. Len(q) + Len(r) : (q \o r)[m] = IF m <= Len(q) THEN q[m] ELSE r[m - Len(q)]
  BY ConcatProperties DEF From
<1>2. ASSUME NEW m \in 1 .. Len(q) + Len(r)
      PROVE  (q \o r)[m].kind = KindOf(n + m) /\ (q \o r)[m].reg = RegOf(n + m)
  <2>1. CASE m <= Len(q)
    BY <1>1, <2>1 DEF From
  <2>2. CASE ~ m <= Len(q)
    <3>1. m - Len(q) \in 1 .. Len(r) /\ n + Len(q) + (m - Len(q)) = n + m /\ (q \o r)[m] = r[m - Len(q)]
      BY <1>1, <2>2
    <3>. QED  BY <3>1 DEF From
  <2>. QED  BY <2>1, <2>2
<1>. QED  BY <1>1, <1>2 DEF From

LEMMA Programs ==
  /\ Ahead(UpdateTime) /\ Len(UpdateTime) = 4
  /\ Ahead(SetTime) /\ Len(SetTime) = 10 /\ Ahead(<<>>)
<1>1. /\ From(SetValue("minute"), 0) /\ Len(SetValue("minute")) = 3
      /\ From(SetValue("second"), 3) /\ Len(SetValue("second")) = 3
  BY DEF From, KindOf, RegOf, Access, SetValue, Wait, Write
<1>2. /\ From(GetValue("second"), 6) /\ Len(GetValue("second")) = 2
      /\ From(GetValue("minute"), 8) /\ Len(GetValue("minute")) = 2
  BY DEF From, KindOf, RegOf, Access, GetValue, Wait, Read
<1>3. From(UpdateTime, 6) /\ Len(UpdateTime) = 4
  <2>1. 6 + 2 = 8
    OBVIOUS
  <2>2. From(GetValue("second") \o GetValue("minute"), 6)
    BY <1>2, <2>1, FromConcat
  <2>3. Len(GetValue("second") \o GetValue("minute")) = 4
    <3>1. Len(GetValue("second") \o GetValue("minute"))
            = Len(GetValue("second")) + Len(GetValue("minute"))
      BY <1>2, <2>1, FromConcat
    <3>. HIDE DEF GetValue
    <3>2. 2 + 2 = 4
      OBVIOUS
    <3>. QED  BY <1>2, <3>1, <3>2
  <2>. QED  BY <2>2, <2>3 DEF UpdateTime
<1>4. /\ From(SetValue("minute") \o SetValue("second"), 0)
      /\ Len(SetValue("minute") \o SetValue("second")) = 6
  <2>1. 0 + 3 = 3 /\ 3 + 3 = 6
    OBVIOUS
  <2>. QED  BY <1>1, <2>1, FromConcat
<1>5. From(SetTime, 0) /\ Len(SetTime) = 10
  <2>1. 0 + 6 = 6 /\ 6 + 4 = 10
    OBVIOUS
  <2>. QED  BY <1>3, <1>4, <2>1, FromConcat DEF SetTime
<1>6. Ahead(<<>>)
  BY DEF Ahead, From
<1>. QED  BY <1>3, <1>5, <1>6 DEF Ahead

LEMMA NextAccess ==
  ASSUME NEW q, Ahead(q), q # <<>>
  PROVE  /\ Len(q) \in 1 .. 10 /\ Head(q).kind = KindOf(11 - Len(q)) /\ Head(q).reg = RegOf(11 - Len(q))
         /\ Ahead(Tail(q)) /\ Len(Tail(q)) = Len(q) - 1 /\ (Tail(q) = <<>> <=> Len(q) = 1)
<1>1. /\ q \in Seq(Access) /\ Len(q) \in 1 .. 10 /\ Head(q) = q[1] /\ 1 \in 1 .. Len(q)
      /\ Tail(q) \in Seq(Access) /\ Len(Tail(q)) = Len(q) - 1
      /\ \A m \in 1 .. Len(q) - 1 : Tail(q)[m] = q[m + 1]
  BY DEF Ahead, From
<1>2. \A m \in 1 .. Len(q) : q[m].kind = KindOf(10 - Len(q) + m) /\ q[m].reg = RegOf(10 - Len(q) + m)
  BY DEF Ahead, From
<1>3. 10 - Len(q) + 1 = 11 - Len(q)
  BY <1>1
<1>4. ASSUME NEW m \in 1 .. Len(q) - 1
      PROVE  /\ Tail(q)[m].kind = KindOf(10 - (Len(q) - 1) + m)
             /\ Tail(q)[m].reg = RegOf(10 - (Len(q) - 1) + m)
  <2>1. m + 1 \in 1 .. Len(q) /\ 10 - Len(q) + (m + 1) = 10 - (Len(q) - 1) + m
    BY <1>1
  <2>. QED  BY <1>1, <1>2, <2>1
<1>7. Len(q) - 1 \in 0 .. 10
  <2>1. \A x \in 1 .. 10 : x - 1 \in 0 .. 10
    OBVIOUS
  <2>. QED  BY <1>1, <2>1
<1>5. Tail(q) = <<>> <=> Len(q) = 1
  BY <1>1
<1>6. Ahead(Tail(q))
  <2>. PICK t, l : t = Tail(q) /\ l = Len(q) - 1
    OBVIOUS
  <2>1. t \in Seq(Access) /\ Len(t) = l /\ l \in 0 .. 10
    <3>1. t \in Seq(Access) /\ Len(t) = l
      BY <1>1
    <3>. QED  BY <1>7, <3>1
  <2>2. \A m \in 1 .. l : t[m].kind = KindOf(10 - l + m) /\ t[m].reg = RegOf(10 - l + m)
    BY <1>4
  <2>. QED  BY <2>1, <2>2 DEF Ahead, From
<1>. QED  BY <1>1, <1>2, <1>3, <1>5, <1>6

\* A time has its fields and no others.
Fields(t) == t = [second |-> t.second, minute |-> t.minute]

\* Between sections the time is the chip's, and a prologue that has selected status C
\* reads it; within one that nobody has met, the section has the ports, and what it
\* has read is what the chip still shows.
TimeInv ==
  /\ Fields(registers) /\ updating \in BOOLEAN /\ ended \in BOOLEAN /\ exact \in BOOLEAN
  /\ Ahead(program)
  /\ exact /\ program = <<>> =>
       registers = (IF ended THEN Plus(time) ELSE time) /\ (clock_ppc = "data" => index = "C")
  /\ exact /\ program # <<>> =>
       /\ clock_ppc = "none" /\ ~ ended
       /\ clock_spc = "data" => index = Head(program).reg
       /\ Len(program) \in {1, 3} => ~ updating
       /\ Len(program) \in {1, 2} => fetched = <<registers.second>>
       /\ Len(program) \notin {1, 2} => fetched = <<>>

LEMMA TimeInit == ClockInit => TimeInv
  BY Programs DEF ClockInit, TimeInv, Fields

\* An update, or a prologue: it moves the time as the chip has moved it.
LEMMA UpdateKeeps ==
  ASSUME TimeInv, UpdateBegins \/ UpdateEnds \/ ClockInterrupt \/ PrologueSelect
  PROVE  TimeInv'
<1>. USE DEF TimeInv, chip, section
<1>1. CASE UpdateBegins
  BY <1>1 DEF UpdateBegins, Fields
<1>2. CASE UpdateEnds
  BY <1>2 DEF UpdateEnds, Fields, Plus
<1>3. CASE ClockInterrupt
  BY <1>3 DEF ClockInterrupt, Fields
<1>4. CASE PrologueSelect
  BY <1>4 DEF PrologueSelect, Fields
<1>. QED  BY <1>1, <1>2, <1>3, <1>4

LEMMA PrologueDataKeeps ==
  ASSUME TimeInv, PrologueData
  PROVE  TimeInv'
<1>1. /\ UNCHANGED <<registers, updating, updates, index, program, clock_spc, fetched, sections>>
      /\ clock_ppc' = "none" /\ exact' = (exact /\ program = <<>>)
  BY DEF PrologueData, section
<1>2. ended' \in BOOLEAN
  BY DEF PrologueData, ReadData, TimeInv
<1>3. ASSUME exact, program = <<>>
      PROVE  registers = IF ended' THEN Plus(time') ELSE time'
  <2>1. index = "C" /\ registers = IF ended THEN Plus(time) ELSE time
    BY <1>3 DEF TimeInv, PrologueData
  <2>2. ended' = FALSE
    BY <2>1 DEF PrologueData, ReadData
  <2>3. PICK v \in 0 .. 59 :
          /\ Shows(index, v)
          /\ \E irq \in {index = "C" /\ v = 1} \cup (IF index = "C" THEN {} ELSE {TRUE}) :
               time' = IF irq THEN Plus(time) ELSE time
    BY DEF PrologueData, ReadData
  <2>4. /\ v = IF ended THEN 1 ELSE 0
        /\ time' = IF v = 1 THEN Plus(time) ELSE time
    BY <2>1, <2>3 DEF Shows
  <2>5. CASE ended
    <3>1. v = 1
      BY <2>4, <2>5
    <3>. QED  BY <2>1, <2>2, <2>4, <2>5, <3>1
  <2>6. CASE ~ ended
    <3>1. ~ v = 1
      BY <2>4, <2>6
    <3>. QED  BY <2>1, <2>2, <2>4, <2>6, <3>1
  <2>. QED  BY <2>5, <2>6 DEF TimeInv
<1>. QED  BY <1>1, <1>2, <1>3 DEF TimeInv, Fields

LEMMA BeginKeeps ==
  ASSUME TimeInv, Begin
  PROVE  TimeInv'
<1>1. /\ UNCHANGED <<registers, updating, ended, updates, index, clock_ppc, time>>
      /\ clock_spc' = "select" /\ fetched' = <<>> /\ exact' = (clock_ppc = "none" /\ ~ ended)
      /\ program' = UpdateTime \/ program' = SetTime
  BY DEF Begin, chip
<1>2. Ahead(program') /\ Len(program') \in {4, 10}
  BY <1>1, Programs
<1>3. program' # <<>> /\ Len(program') \notin {1, 2, 3}
  <2>1. \A x \in {4, 10} : x \notin {0, 1, 2, 3}
    OBVIOUS
  <2>2. Len(<<>>) = 0
    OBVIOUS
  <2>. QED  BY <1>2, <2>1, <2>2, Zenon
<1>4. (exact' => clock_ppc' = "none" /\ ~ ended') /\ exact' \in BOOLEAN
  BY <1>1 DEF TimeInv
<1>. QED  BY <1>1, <1>2, <1>3, <1>4 DEF TimeInv, Fields

LEMMA SelectKeeps ==
  ASSUME TimeInv, Select
  PROVE  TimeInv'
  BY DEF TimeInv, Fields, Select, chip

\* Which accesses there are, and how many are left before and after each.
LEMMA Accesses ==
  ASSUME NEW n \in 1 .. 10
  PROVE  /\ KindOf(n) = "wait" => /\ RegOf(n) = "A" /\ 11 - n \in {10, 7, 4, 2} /\ 10 - n \in {9, 6, 3, 1}
                                  /\ (10 - n \in {1, 2} <=> 11 - n \in {1, 2})
         /\ KindOf(n) = "skip" => 11 - n \in {9, 6} /\ 10 - n \in {8, 5}
         /\ KindOf(n) = "write" => 11 - n \in {8, 5} /\ 10 - n \in {7, 4}
         /\ KindOf(n) = "read" => \/ RegOf(n) = "second" /\ 11 - n = 3 /\ 10 - n = 2
                                  \/ RegOf(n) = "minute" /\ 11 - n = 1 /\ 10 - n = 0
<1>1. CASE n \in {1, 4, 7, 9}
  <2>1. KindOf(n) = "wait" /\ RegOf(n) = "A"
    BY <1>1 DEF KindOf, RegOf
  <2>2. /\ 11 - n \in {10, 7, 4, 2} /\ 10 - n \in {9, 6, 3, 1}
        /\ (10 - n \in {1, 2} <=> 11 - n \in {1, 2})
    BY <1>1
  <2>. QED  BY <2>1, <2>2
<1>2. CASE n \in {2, 5}
  <2>1. KindOf(n) = "skip"
    BY <1>2 DEF KindOf
  <2>2. 11 - n \in {9, 6} /\ 10 - n \in {8, 5}
    BY <1>2
  <2>. QED  BY <2>1, <2>2
<1>3. CASE n \in {3, 6}
  <2>1. KindOf(n) = "write"
    BY <1>3 DEF KindOf
  <2>2. 11 - n \in {8, 5} /\ 10 - n \in {7, 4}
    BY <1>3
  <2>. QED  BY <2>1, <2>2
<1>4. CASE n = 8
  <2>1. KindOf(n) = "read" /\ RegOf(n) = "second"
    BY <1>4 DEF KindOf, RegOf
  <2>. QED  BY <1>4, <2>1
<1>5. CASE n = 10
  <2>1. KindOf(n) = "read" /\ RegOf(n) = "minute"
    BY <1>5 DEF KindOf, RegOf
  <2>. QED  BY <1>5, <2>1
<1>6. n \in {1, 4, 7, 9} \/ n \in {2, 5} \/ n \in {3, 6} \/ n = 8 \/ n = 10
  OBVIOUS
<1>. QED  BY <1>1, <1>2, <1>3, <1>4, <1>5, <1>6

\* What the next access is.
LEMMA InSection ==
  ASSUME TimeInv, program # <<>>
  PROVE  \E n \in 1 .. 10 :
           /\ Head(program).kind = KindOf(n) /\ Head(program).reg = RegOf(n)
           /\ Len(program) = 11 - n /\ Len(Tail(program)) = 10 - n
           /\ Ahead(Tail(program)) /\ (Tail(program) = <<>> <=> 10 - n = 0)
<1>. PICK l : l = Len(program)
  OBVIOUS
<1>1. /\ l \in 1 .. 10 /\ Head(program).kind = KindOf(11 - l) /\ Head(program).reg = RegOf(11 - l)
      /\ Ahead(Tail(program)) /\ Len(Tail(program)) = l - 1 /\ (Tail(program) = <<>> <=> l = 1)
  BY NextAccess DEF TimeInv
<1>2. \A x \in 1 .. 10 : 11 - x \in 1 .. 10 /\ 11 - (11 - x) = x /\ 10 - (11 - x) = x - 1
                         /\ (x = 1 <=> 10 - (11 - x) = 0)
  OBVIOUS
<1>. PICK n : n = 11 - l
  OBVIOUS
<1>3. n \in 1 .. 10 /\ 11 - n = l /\ 10 - n = l - 1 /\ (l = 1 <=> 10 - n = 0)
  BY ONLY <1>1, <1>2, n = 11 - l
<1>4. /\ Head(program).kind = KindOf(n) /\ Head(program).reg = RegOf(n)
      /\ Len(program) = 11 - n /\ Len(Tail(program)) = 10 - n
      /\ Ahead(Tail(program)) /\ (Tail(program) = <<>> <=> 10 - n = 0)
  BY <1>1, <1>3
<1>. QED  BY ONLY <1>3, <1>4

\* is_updating() has said no: no update until the access behind it, or it is met.
LEMMA WaitKeeps ==
  ASSUME TimeInv, WaitOver
  PROVE  TimeInv'
<1>1. /\ UNCHANGED <<registers, updating, updates, index, clock_ppc, fetched, sections, time, exact>>
      /\ program # <<>> /\ clock_spc = "data" /\ Head(program).kind = "wait" /\ clock_spc' = "select"
  BY DEF WaitOver
<1>2. /\ ended' = (ended /\ index # "C")
      /\ program' = program \/ program' = Tail(program)
      /\ (index = "A" /\ updating) => program' = program
  <2>1. PICK v \in 0 .. 59 :
          /\ Shows(index, v) /\ ended' = (ended /\ index # "C")
          /\ program' = IF v = 0 THEN Tail(program) ELSE program
    BY DEF WaitOver, ReadData
  <2>2. index = "A" => v = IF updating THEN 1 ELSE 0
    BY <2>1 DEF Shows
  <2>3. (index = "A" /\ updating) => ~ v = 0
    BY <2>2
  <2>. QED  BY <2>1, <2>3
<1>3. PICK n \in 1 .. 10 :
        /\ Head(program).kind = KindOf(n) /\ Head(program).reg = RegOf(n)
        /\ Len(program) = 11 - n /\ Len(Tail(program)) = 10 - n
        /\ Ahead(Tail(program)) /\ (Tail(program) = <<>> <=> 10 - n = 0)
  BY <1>1, InSection
<1>4. /\ Head(program).reg = "A" /\ Len(program) \in {10, 7, 4, 2} /\ Len(Tail(program)) \in {9, 6, 3, 1}
      /\ (Len(Tail(program)) \in {1, 2} <=> Len(program) \in {1, 2})
  BY <1>1, <1>3, Accesses
<1>5. Tail(program) # <<>> /\ Tail(program) # program
  <2>1. 10 - n # 0 /\ 10 - n # 11 - n
    BY <1>1, <1>3, Accesses
  <2>. QED  BY <1>3, <2>1
<1>6. ended' \in BOOLEAN /\ (exact => index = "A" /\ ended' = ended)
  BY <1>1, <1>2, <1>4 DEF TimeInv
<1>7. CASE program' = program
  BY <1>1, <1>6, <1>7 DEF TimeInv, Fields
<1>8. CASE program' = Tail(program)
  <2>1. exact => ~ updating
    BY <1>2, <1>5, <1>6, <1>8
  <2>2. Ahead(program') /\ program' # <<>> /\ Len(program') \in {9, 6, 3, 1}
        /\ (Len(program') \in {1, 2} <=> Len(program) \in {1, 2})
    BY <1>3, <1>4, <1>5, <1>8
  <2>. QED  BY <1>1, <1>6, <2>1, <2>2 DEF TimeInv, Fields
<1>. QED  BY <1>2, <1>7, <1>8

\* A value of update_time(), or one that is read before it is written.
LEMMA DataKeeps ==
  ASSUME TimeInv, Data
  PROVE  TimeInv'
<1>1. /\ UNCHANGED <<registers, updating, updates, index, clock_ppc, sections, exact>>
      /\ program # <<>> /\ clock_spc = "data" /\ Head(program).kind \in {"read", "skip"} /\ clock_spc' = "select"
      /\ program' = Tail(program)
  BY DEF Data
<1>2. PICK v \in 0 .. 59 :
        /\ Shows(index, v) /\ ended' = (ended /\ index # "C")
        /\ fetched' = IF Head(program).kind = "read" THEN Append(fetched, v) ELSE fetched
        /\ time' = IF Len(program) > 1 THEN time ELSE [second |-> fetched'[1], minute |-> v]
  BY DEF Data, ReadData
<1>3. PICK n \in 1 .. 10 :
        /\ Head(program).kind = KindOf(n) /\ Head(program).reg = RegOf(n)
        /\ Len(program) = 11 - n /\ Len(Tail(program)) = 10 - n
        /\ Ahead(Tail(program)) /\ (Tail(program) = <<>> <=> 10 - n = 0)
  BY <1>1, InSection
<1>4. ended' \in BOOLEAN /\ Fields(registers')
  BY <1>1, <1>2 DEF TimeInv, Fields
<1>5. CASE Head(program).kind = "skip"
  <2>1. Len(program) \in {9, 6} /\ Len(program') \in {8, 5} /\ Ahead(program')
    BY <1>1, <1>3, <1>5, Accesses
  <2>2. program' # <<>>
    <3>1. 10 - n # 0
      BY <1>1, <1>3, <1>5, Accesses
    <3>. QED  BY <1>1, <1>3, <3>1
  <2>3. fetched' = fetched
    BY <1>2, <1>5
  <2>4. Len(program) \notin {1, 2} /\ Len(program') \notin {1, 2, 3}
    BY <2>1
  <2>5. exact => fetched = <<>> /\ clock_ppc = "none" /\ ~ ended
    BY <1>1, <2>4 DEF TimeInv
  <2>. QED  BY <1>1, <1>2, <1>4, <2>1, <2>2, <2>3, <2>4, <2>5 DEF TimeInv
<1>6. CASE Head(program).kind = "read"
  <2>1. \/ Head(program).reg = "second" /\ Len(program) = 3 /\ Len(program') = 2 /\ program' # <<>>
        \/ Head(program).reg = "minute" /\ Len(program) = 1 /\ program' = <<>>
    <3>1. \/ RegOf(n) = "second" /\ 11 - n = 3 /\ 10 - n = 2 /\ 10 - n # 0
          \/ RegOf(n) = "minute" /\ 11 - n = 1 /\ 10 - n = 0
      BY <1>3, <1>6, Accesses
    <3>. QED  BY <1>1, <1>3, <3>1
  <2>2. Ahead(program')
    BY <1>1, <1>3
  <2>3. exact => clock_ppc = "none" /\ ~ ended /\ ~ updating /\ index = Head(program).reg
    BY <1>1, <2>1 DEF TimeInv
  <2>4. CASE Head(program).reg = "second" /\ Len(program) = 3 /\ Len(program') = 2 /\ program' # <<>>
    <3>1. exact => fetched = <<>> /\ v = registers.second
      <4>1. exact => fetched = <<>>
        BY <1>1, <2>4 DEF TimeInv
      <4>. QED  BY <1>2, <2>3, <2>4, <4>1 DEF Shows
    <3>2. exact => fetched' = <<registers.second>>
      BY <1>2, <1>6, <3>1
    <3>. QED  BY <1>1, <1>2, <1>4, <2>2, <2>3, <2>4, <3>2 DEF TimeInv
  <2>5. CASE Head(program).reg = "minute" /\ Len(program) = 1 /\ program' = <<>>
    <3>1. exact => fetched = <<registers.second>> /\ v = registers.minute
      BY <1>1, <1>2, <2>3, <2>5 DEF TimeInv, Shows
    <3>2. ~ Len(program) > 1
      BY <2>5
    <3>3. exact => fetched'[1] = registers.second
      BY <1>2, <1>6, <3>1
    <3>4. exact => time' = registers
      BY <1>2, <3>1, <3>2, <3>3 DEF TimeInv, Fields
    <3>5. exact' => registers' = time' /\ clock_ppc' = "none" /\ ended' = FALSE
      BY <1>1, <1>2, <2>3, <3>4
    <3>. QED  BY <1>1, <1>4, <2>2, <2>5, <3>5 DEF TimeInv
  <2>. QED  BY <2>1, <2>4, <2>5
<1>. QED  BY <1>1, <1>5, <1>6

LEMMA StoreKeeps ==
  ASSUME TimeInv, WritePort
  PROVE  TimeInv'
<1>1. /\ UNCHANGED <<updating, ended, updates, index, clock_ppc, fetched, sections, time, exact>>
      /\ program # <<>> /\ clock_spc = "data" /\ Head(program).kind = "write" /\ clock_spc' = "select"
      /\ program' = Tail(program)
  BY DEF WritePort
<1>2. PICK n \in 1 .. 10 :
        /\ Head(program).kind = KindOf(n) /\ Head(program).reg = RegOf(n)
        /\ Len(program) = 11 - n /\ Len(Tail(program)) = 10 - n
        /\ Ahead(Tail(program)) /\ (Tail(program) = <<>> <=> 10 - n = 0)
  BY <1>1, InSection
<1>3. Len(program) \in {8, 5} /\ Len(program') \in {7, 4} /\ Ahead(program')
  BY <1>1, <1>2, Accesses
<1>4. program' # <<>> /\ Len(program) \notin {1, 2} /\ Len(program') \notin {1, 2, 3}
  <2>1. /\ \A x \in {8, 5} : x \notin {1, 2}
        /\ \A x \in {7, 4} : x \notin {0, 1, 2, 3}
    OBVIOUS
  <2>2. Len(<<>>) = 0
    OBVIOUS
  <2>. QED  BY <1>3, <2>1, <2>2, Zenon
<1>5. Fields(registers')
  BY DEF WritePort, TimeInv, Fields
<1>. QED  BY <1>1, <1>3, <1>4, <1>5 DEF TimeInv

\* user/time/rtc.cc, cmos.cc: when nothing meets update_time(), the time is the
\* chip's from then on, less the tick that is on its way, for any number of updates
\* and sections.
THEOREM TimeIsTheChips == ClockSpec => []TimeFollowsChip
<1>1. TimeInv /\ [ClockNext]_clock => TimeInv'
  <2>. SUFFICES ASSUME TimeInv, [ClockNext]_clock PROVE TimeInv'
    OBVIOUS
  <2>1. CASE UNCHANGED clock
    BY <2>1 DEF clock, chip, section, TimeInv, Fields
  <2>2. CASE ClockNext
    BY <2>2, UpdateKeeps, PrologueDataKeeps, BeginKeeps, SelectKeeps, WaitKeeps, DataKeeps, StoreKeeps
       DEF ClockNext, Chip, ClockPrologue, Section
  <2>. QED  BY <2>1, <2>2
<1>2. TimeInv => TimeFollowsChip
  BY DEF TimeInv, TimeFollowsChip
<1>. QED  BY TimeInit, <1>1, <1>2, PTL DEF ClockSpec
=============================================================================
