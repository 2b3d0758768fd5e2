----------------------------- MODULE IdleProofs -----------------------------
(***************************************************************************)
(* Idle loses no wakeup, for any CPUs and any number of threads.           *)
(*                                                                         *)
(* NoLostWakeup looks at CPUs that halt.  The interrupt they need is already*)
(* promised where the idle thread has found the ready list empty: from     *)
(* there to the halt interrupts are off, and so none is taken too early.   *)
(*                                                                         *)
(* How the CPUs were started is proved below: one at most is on its way,   *)
(* and what it takes is what was laid out for it.                          *)
(***************************************************************************)
EXTENDS Idle, ListProofs

\* Places from which the idle thread gets to the halt without looking at the
\* ready list again.
ToHalt == {"bells", "block", "halt"}

WakeupComes ==
  \A c \in CPU : pc[c] \in ToHalt /\ ready > 0 => wake[c] \/ tick[c] \/ sending

MaskUndone ==
  \A c \in CPU : masked[c] =>
    pc[c] \in {"halt", "woken"} \/ (pc[c] = "thread" /\ idle_at[c] = "woken")

IInv == TypeOK /\ WakeupComes /\ MaskUndone

-----------------------------------------------------------------------------
(* Switching to the next thread.                                           *)

\* dispatch_next() keeps the types, takes a thread from the list if there is one,
\* and goes to a thread or back to where the idle thread was.
LEMMA DispatchGoes ==
  ASSUME TypeOK, NEW c \in CPU, NEW n \in Nat, NEW back \in {"loop", "woken", "resume"},
         DispatchNext(c, n, back)
  PROVE  /\ pc' \in [CPU -> IdlePC \cup {"boot", "thread"}]
         /\ idle_at' \in [CPU -> {"loop", "woken", "resume"}]
         /\ ready' \in Nat /\ ready' <= n /\ (n > 0 => ready' = n - 1)
         /\ pc'[c] \in {"thread", back} /\ idle_at'[c] = back
         /\ \A d \in CPU \ {c} : pc'[d] = pc[d] /\ idle_at'[d] = idle_at[d]
  BY DEF TypeOK, DispatchNext, Goto, IdlePC

\* An interrupt finds the idle thread where interrupts are on, and leaves it
\* outside of what leads to the halt.
LEMMA InterruptLeaves ==
  ASSUME TypeOK, NEW c \in CPU, IntsEnabled(c), pc[c] # "thread"
  PROVE  /\ AfterInterrupt(c) \in {"loop", "woken", "resume"}
         /\ pc[c] \in {"halt", "woken"} => AfterInterrupt(c) = "woken"
  BY DEF TypeOK, IntsEnabled, AfterInterrupt, IdlePC

-----------------------------------------------------------------------------
(* The steps.                                                              *)

\* A step that leaves pending interrupts, the mask and sending as they are, adds no
\* ready thread, and moves one CPU to a thread or to its idle thread, keeps IInv.
LEMMA SwitchKeeps ==
  ASSUME IInv, NEW c \in CPU, NEW n \in Nat, NEW back \in {"loop", "woken", "resume"},
         DispatchNext(c, n, back), n <= ready,
         masked[c] => back = "woken",
         waiting' \in Nat, sleeping' \in Nat, UNCHANGED <<sending, irqVars>>
  PROVE  IInv'
<1> USE DEF IInv
<1>1. TypeOK'
  BY DispatchGoes DEF TypeOK, irqVars
<1>2. WakeupComes'
  BY DispatchGoes DEF WakeupComes, ToHalt, TypeOK, irqVars
<1>3. MaskUndone'
  BY DispatchGoes DEF MaskUndone, TypeOK, irqVars
<1>. QED  BY <1>1, <1>2, <1>3

\* A thread takes the CPU for the first time, or gives it up.
LEMMA ThreadsKeep ==
  ASSUME IInv, NEW c \in CPU, Schedule(c) \/ ThreadWaits(c) \/ ThreadSleeps(c)
  PROVE  IInv'
<1>1. /\ ready \in Nat /\ idle_at[c] \in {"loop", "woken", "resume"}
      /\ waiting' \in Nat /\ sleeping' \in Nat
      /\ DispatchNext(c, ready, idle_at[c]) /\ UNCHANGED <<sending, irqVars>>
  BY DEF IInv, TypeOK, Schedule, ThreadWaits, ThreadSleeps
<1>2. masked[c] => idle_at[c] = "woken"
  BY DEF IInv, MaskUndone, Schedule, ThreadWaits, ThreadSleeps
<1>. QED  BY <1>1, <1>2, SwitchKeeps

\* The timer's epilogue: a thread that ran is ready again, and one that a bell wakes
\* is ready; but then every CPU is sent an interrupt.
LEMMA TimersKeep ==
  ASSUME IInv, NEW c \in CPU, TimerIrq(c) \/ TimerIrqBell(c)
  PROVE  IInv'
<1> USE DEF IInv
<1> DEFINE back == IF pc[c] = "thread" THEN idle_at[c] ELSE AfterInterrupt(c)
           rings == IF TimerIrq(c) THEN 0 ELSE 1
           n == ready + rings + (IF pc[c] = "thread" THEN 1 ELSE 0)
<1>1. n \in Nat /\ rings \in {0, 1} /\ back \in {"loop", "woken", "resume"}
  BY InterruptLeaves DEF TypeOK, TimerIrq, TimerIrqBell
<1>2. DispatchNext(c, n, back)
  BY DEF TimerIrq, TimerIrqBell, TypeOK
<1>3. masked[c] => back = "woken"
  BY InterruptLeaves DEF MaskUndone, TimerIrq, TimerIrqBell
<1>4. /\ waiting' = waiting /\ sleeping' \in Nat /\ sending' = sending /\ masked' = masked
      /\ tick' = [tick EXCEPT ![c] = FALSE]
      /\ \/ wake' = wake /\ rings = 0
         \/ wake' = [d \in CPU |-> TRUE]
  BY DEF TypeOK, TimerIrq, TimerIrqBell
<1> HIDE DEF back, rings, n
<1>5. TypeOK'
  BY <1>1, <1>2, <1>4, DispatchGoes DEF TypeOK
<1>6. WakeupComes'
  <2>1. pc'[c] \notin ToHalt
    BY <1>1, <1>2, DispatchGoes DEF ToHalt
  <2>2. CASE wake' = [d \in CPU |-> TRUE]
    BY <2>2 DEF WakeupComes
  <2>3. CASE wake' = wake /\ rings = 0
    <3>1. ready' <= ready
      BY <1>1, <1>2, <2>3, DispatchGoes DEF n, TypeOK
    <3>2. \A d \in CPU \ {c} : pc'[d] = pc[d] /\ tick'[d] = tick[d] /\ wake'[d] = wake[d]
      BY <1>1, <1>2, <1>4, <2>3, DispatchGoes DEF TypeOK
    <3>3. ready' > 0 => ready > 0
      BY <3>1, <1>5 DEF TypeOK
    <3>. QED  BY <2>1, <3>2, <3>3, <1>4 DEF WakeupComes
  <2>. QED  BY <1>4, <2>2, <2>3
<1>7. MaskUndone'
  BY <1>1, <1>2, <1>3, <1>4, DispatchGoes DEF MaskUndone, TypeOK
<1>. QED  BY <1>5, <1>6, <1>7

\* ready() adds a thread and owes the interrupt; the interrupt goes to all CPUs; a CPU
\* takes it outside of what leads to the halt.
LEMMA WakeupsKeep ==
  ASSUME IInv, NEW c \in CPU,
         SendWakeup \/ ThreadReady(c) \/ WakeupIrq(c) \/ TimerExpires(c)
  PROVE  IInv'
<1> USE DEF IInv
<1>1. CASE SendWakeup
  BY <1>1 DEF SendWakeup, TypeOK, WakeupComes, MaskUndone, threadVars
<1>2. CASE TimerExpires(c)
  BY <1>2 DEF TimerExpires, TypeOK, WakeupComes, MaskUndone, threadVars
<1>3. CASE ThreadReady(c)
  <2> USE <1>3 DEF ThreadReady, IntsEnabled, Goto, AfterInterrupt, irqVars
  <2>1. TypeOK'  BY DEF TypeOK, IdlePC
  <2>2. WakeupComes'  BY DEF WakeupComes
  <2>3. MaskUndone'  BY DEF MaskUndone, TypeOK
  <2>. QED  BY <2>1, <2>2, <2>3
<1>4. CASE WakeupIrq(c)
  <2> USE <1>4 DEF WakeupIrq, IntsEnabled, Goto, AfterInterrupt, threadVars
  <2>1. TypeOK'  BY DEF TypeOK, IdlePC
  <2>2. WakeupComes'  BY DEF WakeupComes, TypeOK, ToHalt
  <2>3. MaskUndone'  BY DEF MaskUndone, TypeOK
  <2>. QED  BY <2>1, <2>2, <2>3
<1>. QED  BY <1>1, <1>2, <1>3, <1>4

\* The idle thread goes on to the halt only from a list that is empty.
LEMMA IdleKeeps ==
  ASSUME IInv, NEW c \in CPU, IdleStep(c)
  PROVE  IInv'
<1> USE DEF IInv, Goto, irqVars, threadVars
<1>1. CASE IdleDisable(c)
  BY <1>1 DEF IdleDisable, TypeOK, IdlePC, WakeupComes, ToHalt, MaskUndone
<1>2. CASE IdleFound(c)
  BY <1>2 DEF IdleFound, TypeOK, IdlePC, WakeupComes, ToHalt, MaskUndone
<1>3. CASE IdleEmpty(c)
  BY <1>3 DEF IdleEmpty, TypeOK, IdlePC, WakeupComes, ToHalt, MaskUndone
<1>4. CASE IdleBells(c)
  BY <1>4 DEF IdleBells, TypeOK, IdlePC, WakeupComes, ToHalt, MaskUndone
<1>5. CASE IdleBlock(c)
  BY <1>5 DEF IdleBlock, TypeOK, IdlePC, WakeupComes, ToHalt, MaskUndone
<1>6. CASE IdleWoken(c)
  BY <1>6 DEF IdleWoken, TypeOK, IdlePC, WakeupComes, ToHalt, MaskUndone
<1>7. CASE IdleResume(c)
  <2>1. ~ masked[c]
    BY <1>7 DEF IdleResume, MaskUndone
  <2>. QED
    BY <1>7, <2>1, SwitchKeeps DEF IdleResume, TypeOK
<1>. QED  BY <1>1, <1>2, <1>3, <1>4, <1>5, <1>6, <1>7 DEF IdleStep

-----------------------------------------------------------------------------

LEMMA IInvInit == Init => IInv
<1> SUFFICES ASSUME Init PROVE IInv
  OBVIOUS
<1>1. TypeOK
  BY IdleAssumption DEF Init, TypeOK
<1>2. WakeupComes
  BY DEF Init, WakeupComes, ToHalt
<1>3. MaskUndone
  BY DEF Init, MaskUndone
<1>. QED  BY <1>1, <1>2, <1>3 DEF IInv

LEMMA IInvNext == IInv /\ [Next]_vars => IInv'
<1> SUFFICES ASSUME IInv, [Next]_vars PROVE IInv'
  OBVIOUS
<1>1. CASE UNCHANGED vars
  BY <1>1 DEF vars, threadVars, irqVars, IInv, TypeOK, WakeupComes, MaskUndone
<1>2. CASE SendWakeup
  BY <1>2, IdleAssumption, WakeupsKeep
<1>3. ASSUME NEW c \in CPU,
             \/ Schedule(c) \/ ThreadWaits(c) \/ ThreadSleeps(c) \/ ThreadReady(c)
             \/ TimerExpires(c) \/ TimerIrq(c) \/ TimerIrqBell(c) \/ WakeupIrq(c)
             \/ IdleStep(c)
      PROVE  IInv'
  BY <1>3, ThreadsKeep, TimersKeep, WakeupsKeep, IdleKeeps
<1>. QED  BY <1>1, <1>2, <1>3 DEF Next

\* thread/idlethread.cc, action(): no CPU halts beside a ready thread without an interrupt
\* that ends the halt, and a masked timer is unmasked before the next halt.
THEOREM NoWakeupIsLost == Spec => []NoLostWakeup
<1>1. IInv => NoLostWakeup
  BY DEF IInv, WakeupComes, ToHalt, MaskUndone, NoLostWakeup
<1>. QED  BY IInvInit, IInvNext, <1>1, PTL DEF Spec

-----------------------------------------------------------------------------
(* The start of the processors                                             *)

CONSTANTS Firmware, CPU_MAX, Slots, Devices
VARIABLES firmware, bpc, conf, i, tries, callout, ap_stack, online, ap, stack, number, cpuID, dead, late

Start == INSTANCE Boot

\* The processors that are between their startup interrupt and their answer
Busy == {"setup", "spin", "number", "register", "answer"}
Trying == {"init", "startup", "callout", "wait"}

\* A processor on its way is the one that is being started; it has the stack and the
\* number of this try.  One that is up has those of its place in the list.
Stage(a) ==
  /\ ap[a] \in {"off", "init", "up"} \cup Busy
  /\ ap[a] \in Busy => bpc \in {"callout", "wait"} /\ a = Start!Target
  /\ ap[a] \in {"setup", "spin"} /\ bpc = "wait" => callout = i
  /\ ap[a] \in {"number", "register", "answer"} => bpc = "wait" /\ callout = i
  /\ ap[a] \in {"spin", "number", "register", "answer"} => stack[a] = i
  /\ ap[a] \in {"register", "answer"} => number[a] = i
  /\ ap[a] = "answer" => cpuID[a] = i
  /\ ap[a] = "up" => /\ \E n \in 1 .. conf.cpu_count : n > 1 /\ conf.lapic_id[n] = a /\ number[a] = n - 1
                     /\ stack[a] = number[a] /\ cpuID[a] = number[a]

\* Those still to be started have not been touched, and the one that is tried is where
\* the boot processor has brought it.
Trial ==
  /\ \A n \in 1 .. conf.cpu_count : n > i + 1 => ap[conf.lapic_id[n]] = "off"
  /\ bpc \in {"stack", "init"} /\ i < conf.cpu_count => ap[Start!Target] = "off"
  /\ bpc = "startup" => ap[Start!Target] \in {"off", "init"}
  /\ bpc = "callout" => ap[Start!Target] \in {"off", "setup", "spin"}
  /\ bpc \in {"startup", "callout"} => callout = Start!None
  /\ bpc = "wait" => callout \in {Start!None, i}
  /\ bpc = "wait" /\ callout = Start!None => ap[Start!Target] = "up"

\* One that has answered is counted when the boot processor sees it.
Counted ==
  /\ IsFiniteSet(Start!Up) /\ online \in Nat
  /\ Cardinality(Start!Up) = IF bpc = "wait" /\ callout = Start!None THEN online + 1 ELSE online

\* The list that firmware has left, once it has been read
Listed ==
  /\ conf.cpu_count \in 1 .. 256
  /\ conf.cpu_count > 1 =>
       /\ conf.lapic_id \in Seq(Nat) /\ Len(conf.lapic_id) = conf.cpu_count
       /\ conf.lapic_id[1] = 0 /\ IsInjective(conf.lapic_id)
       /\ \A n \in 1 .. conf.cpu_count : conf.lapic_id[n] \in Start!Id

Shape ==
  /\ ap = [a \in Start!Id |-> ap[a]] /\ stack = [a \in Start!Id |-> stack[a]]
  /\ number = [a \in Start!Id |-> number[a]] /\ cpuID = [a \in Start!Id |-> cpuID[a]]
  /\ dead \subseteq Start!Id \ {0} /\ \A a \in dead : ap[a] = "off"

BootInv ==
  /\ bpc \in {"detect", "stack", "main"} \cup Trying /\ Shape
  /\ bpc = "detect" => /\ firmware \in Firmware /\ online = 1
                       /\ \A a \in Start!Id : ap[a] = "off"
  /\ bpc # "detect" => /\ Listed /\ i \in Nat \ {0} /\ ap[0] = "up"
                       /\ bpc \in Trying => i < conf.cpu_count /\ ap_stack = i
                       /\ ~ late => (\A a \in Start!Id \ {0} : Stage(a)) /\ Trial /\ Counted

LEMMA StartInit == Start!Init => BootInv
  BY DEF Start!Init, BootInv, Shape, Trying

\* detectSystemType() gives a list that can be worked off.
LEMMA DetectedIs ==
  ASSUME Start!BootAssumption, NEW f \in Firmware, NEW d, d = Start!Detected(f)
  PROVE  /\ d.cpu_count \in 1 .. 256
         /\ d.cpu_count > 1 =>
              /\ d.lapic_id \in Seq(Nat) /\ Len(d.lapic_id) = d.cpu_count
              /\ d.lapic_id[1] = 0 /\ IsInjective(d.lapic_id)
              /\ \A n \in 1 .. d.cpu_count : d.lapic_id[n] \in Start!Id
<1>1. /\ d.cpu_count \in 1 .. 256
      /\ d.cpu_count > 1 => /\ d.lapic_id \in Seq(Nat) /\ Len(d.lapic_id) = d.cpu_count
                            /\ d.lapic_id[1] = 0 /\ IsInjective(d.lapic_id)
  BY DEF Start!BootAssumption, Start!IsInjective, IsInjective
<1>2. ASSUME NEW n \in DOMAIN d.lapic_id PROVE d.lapic_id[n] \in Start!Id
  BY DEF Start!Id, Start!Range
<1>3. ASSUME d.cpu_count > 1, NEW n \in 1 .. d.cpu_count PROVE d.lapic_id[n] \in Start!Id
  BY <1>1, <1>2, <1>3
<1>. QED  BY <1>1, <1>3

LEMMA Places ==
  \A c \in 1 .. 256, k \in Nat \ {0} : k < c =>
    c > 1 /\ k \in 1 .. 255 /\ k + 1 \in 1 .. c /\ k + 1 # 1 /\ 1 \in 1 .. c
  OBVIOUS

LEMMA TargetIs ==
  ASSUME Listed, i \in Nat \ {0}, i < conf.cpu_count
  PROVE  /\ Start!Target \in Start!Id \ {0} /\ i \in 1 .. 255
         /\ \A n \in 1 .. conf.cpu_count :
              conf.lapic_id[n] \in Start!Id /\ (conf.lapic_id[n] = Start!Target <=> n = i + 1)
<1>1. /\ conf.cpu_count \in 1 .. 256 /\ conf.cpu_count > 1 /\ i \in 1 .. 255 /\ i + 1 \in 1 .. conf.cpu_count
      /\ i + 1 # 1 /\ 1 \in 1 .. conf.cpu_count
  <2>1. conf.cpu_count \in 1 .. 256
    BY DEF Listed
  <2>. QED  BY <2>1, Places
<1>2. /\ conf.lapic_id \in Seq(Nat) /\ Len(conf.lapic_id) = conf.cpu_count
      /\ conf.lapic_id[1] = 0 /\ IsInjective(conf.lapic_id)
      /\ \A n \in 1 .. conf.cpu_count : conf.lapic_id[n] \in Start!Id
  BY <1>1 DEF Listed
<1>3. \A n, m \in 1 .. conf.cpu_count : conf.lapic_id[n] = conf.lapic_id[m] => n = m
  BY <1>2 DEF IsInjective
<1>. QED  BY <1>1, <1>2, <1>3 DEF Start!Target

LEMMA DetectKeeps ==
  ASSUME Start!BootAssumption, BootInv, Start!Detect
  PROVE  BootInv'
<1>1. /\ bpc = "detect" /\ conf' = Start!Detected(firmware) /\ i' = 1 /\ bpc' = "stack"
      /\ cpuID' = [cpuID EXCEPT ![0] = 0] /\ number' = [number EXCEPT ![0] = 0]
      /\ ap' = [ap EXCEPT ![0] = "up"] /\ stack' = [stack EXCEPT ![0] = 0]
      /\ dead' = dead /\ online' = online /\ callout' = Start!None
  BY DEF Start!Detect
<1>2. 0 \in Start!Id
  BY DEF Start!Id
<1>3. firmware \in Firmware /\ online = 1 /\ Shape /\ \A a \in Start!Id : ap[a] = "off"
  BY <1>1 DEF BootInv
<1>4. ap'[0] = "up" /\ \A a \in Start!Id \ {0} : ap'[a] = "off"
  BY <1>1, <1>2, <1>3 DEF Shape
<1>5. Shape'
  <2>1. dead \subseteq Start!Id \ {0} /\ \A a \in dead : ap'[a] = "off"
    BY <1>3, <1>4 DEF Shape
  <2>2. /\ ap = [a \in Start!Id |-> ap[a]] /\ stack = [a \in Start!Id |-> stack[a]]
        /\ number = [a \in Start!Id |-> number[a]] /\ cpuID = [a \in Start!Id |-> cpuID[a]]
    BY <1>3 DEF Shape
  <2>3. /\ ap' = [a \in Start!Id |-> ap'[a]] /\ stack' = [a \in Start!Id |-> stack'[a]]
        /\ number' = [a \in Start!Id |-> number'[a]] /\ cpuID' = [a \in Start!Id |-> cpuID'[a]]
    BY <1>1, <2>2
  <2>. QED  BY <1>1, <2>1, <2>3 DEF Shape
<1>6. Listed'
  BY <1>1, <1>3, DetectedIs DEF Listed
<1>7. \A a \in Start!Id \ {0} : Stage(a)'
  BY <1>4 DEF Stage, Busy
<1>8. \A n \in 1 .. conf'.cpu_count : n > 1 => conf'.lapic_id[n] \in Start!Id \ {0}
  <2>. SUFFICES ASSUME NEW n \in 1 .. conf'.cpu_count, n > 1 PROVE conf'.lapic_id[n] \in Start!Id \ {0}
    OBVIOUS
  <2>1. conf'.cpu_count > 1 /\ 1 \in 1 .. conf'.cpu_count
    <3>1. \A c \in 1 .. 256 : \A k \in 1 .. c : k > 1 => c > 1 /\ 1 \in 1 .. c
      OBVIOUS
    <3>2. conf'.cpu_count \in 1 .. 256
      BY <1>6 DEF Listed
    <3>. QED  BY <3>1, <3>2
  <2>2. /\ conf'.lapic_id \in Seq(Nat) /\ Len(conf'.lapic_id) = conf'.cpu_count
        /\ conf'.lapic_id[1] = 0 /\ IsInjective(conf'.lapic_id) /\ conf'.lapic_id[n] \in Start!Id
    BY <1>6, <2>1 DEF Listed
  <2>. QED  BY <2>1, <2>2 DEF IsInjective
<1>9. Trial'
  <2>1. ASSUME NEW n \in 1 .. conf'.cpu_count, n > 2 PROVE ap'[conf'.lapic_id[n]] = "off"
    BY <1>4, <1>8, <2>1
  <2>2. i' < conf'.cpu_count => ap'[Start!Target'] = "off"
    <3>1. ASSUME i' < conf'.cpu_count PROVE 2 \in 1 .. conf'.cpu_count
      BY <1>1, <1>6, <3>1 DEF Listed
    <3>. QED  BY <1>1, <1>4, <1>8, <3>1 DEF Start!Target
  <2>. QED  BY <1>1, <2>1, <2>2 DEF Trial
<1>10. Counted'
  <2>1. Start!Up' = {0}
    BY <1>2, <1>4 DEF Start!Up
  <2>2. IsFiniteSet({0}) /\ Cardinality({0}) = 1
    BY FS_Singleton
  <2>. QED  BY <1>1, <1>3, <2>1, <2>2 DEF Counted
<1>. QED  BY <1>1, <1>4, <1>5, <1>6, <1>7, <1>9, <1>10 DEF BootInv, Trying

\* What the other steps start from
LEMMA Running ==
  ASSUME BootInv, bpc # "detect"
  PROVE  /\ Shape /\ Listed /\ i \in Nat \ {0} /\ ap[0] = "up"
         /\ bpc \in Trying => i < conf.cpu_count /\ ap_stack = i
         /\ ~ late => (\A a \in Start!Id \ {0} : Stage(a)) /\ Trial /\ Counted
  BY DEF BootInv

\* The boot processor goes on with the next one: nobody is on the way.
LEMMA NextProcessorKeeps ==
  ASSUME BootInv, bpc \in Trying, Start!Next_i,
         UNCHANGED <<firmware, conf, dead, ap_stack, callout, ap, stack, number, cpuID>>,
         ~ late' => /\ ~ late /\ \A a \in Start!Id \ {0} : ap[a] \notin Busy
                    /\ online' \in Nat /\ Cardinality(Start!Up) = online'
  PROVE  BootInv'
<1>1. bpc # "detect" /\ bpc' = "stack" /\ i' = i + 1
  BY DEF Trying, Start!Next_i
<1>2. /\ Shape /\ Listed /\ i \in Nat \ {0} /\ ap[0] = "up" /\ i < conf.cpu_count
      /\ ~ late => (\A a \in Start!Id \ {0} : Stage(a)) /\ Trial /\ Counted
  BY <1>1, Running
<1>3. Shape' /\ Listed' /\ i' \in Nat \ {0} /\ ap'[0] = "up"
  <2>1. i' \in Nat \ {0}
    BY <1>1, <1>2
  <2>. QED  BY <1>2, <2>1 DEF Shape, Listed
<1>4. ASSUME ~ late' PROVE (\A a \in Start!Id \ {0} : Stage(a)') /\ Trial' /\ Counted'
  <2>1. \A a \in Start!Id \ {0} : Stage(a)'
    BY <1>2, <1>4 DEF Stage, Busy
  <2>2. \A n \in 1 .. conf.cpu_count : n > i + 1 => ap[conf.lapic_id[n]] = "off"
    BY <1>2, <1>4 DEF Trial
  <2>3. Trial'
    <3>1. i' < conf.cpu_count => i' + 1 \in 1 .. conf.cpu_count /\ i' + 1 > i + 1
      <4>1. \A c \in 1 .. 256, k \in Nat \ {0} : k + 1 < c => k + 1 + 1 \in 1 .. c /\ k + 1 + 1 > k + 1
        OBVIOUS
      <4>2. conf.cpu_count \in 1 .. 256
        BY <1>2 DEF Listed
      <4>. QED  BY <1>1, <1>2, <4>1, <4>2
    <3>2. \A n \in 1 .. conf.cpu_count : n > i' + 1 => n > i + 1
      BY <1>1, <1>2 DEF Listed
    <3>. QED  BY <1>1, <2>2, <3>1, <3>2 DEF Trial, Start!Target
  <2>4. Start!Up' = Start!Up
    BY DEF Start!Up
  <2>. QED  BY <1>1, <1>2, <1>4, <2>1, <2>3, <2>4 DEF Counted
<1>. QED  BY <1>1, <1>3, <1>4 DEF BootInv, Trying

LEMMA GiveUpKeeps ==
  ASSUME BootInv, Start!GiveUp \/ Start!CallIn \/ Start!TimeOut
  PROVE  BootInv'
<1>1. /\ bpc \in {"startup", "wait"} /\ Start!Next_i
      /\ UNCHANGED <<firmware, conf, dead, ap_stack, callout, ap, stack, number, cpuID>>
  BY DEF Start!GiveUp, Start!CallIn, Start!TimeOut, Start!fixed, Start!aps
<1>2. ASSUME ~ late'
      PROVE  /\ ~ late /\ \A a \in Start!Id \ {0} : ap[a] \notin Busy
             /\ online' \in Nat /\ Cardinality(Start!Up) = online'
  <2>1. ~ late
    BY <1>2 DEF Start!GiveUp, Start!CallIn, Start!TimeOut
  <2>2. /\ \A a \in Start!Id \ {0} : Stage(a)
        /\ Shape /\ Counted /\ i \in Nat \ {0} /\ i < conf.cpu_count /\ Listed
    BY <1>1, <2>1, Running DEF Trying
  <2>3. CASE Start!GiveUp
    <3>1. bpc = "startup" /\ online' = online
      BY <2>3 DEF Start!GiveUp
    <3>. QED  BY <2>1, <2>2, <3>1 DEF Stage, Counted, Busy
  <2>4. CASE Start!CallIn
    <3>1. bpc = "wait" /\ callout = Start!None /\ online' = online + 1 /\ callout # i
      BY <2>2, <2>4 DEF Start!CallIn, Start!None
    <3>. QED  BY <2>1, <2>2, <3>1 DEF Stage, Counted, Busy
  <2>5. CASE Start!TimeOut
    <3>1. bpc = "wait" /\ callout # Start!None /\ online' = online /\ Start!Target \in dead
      BY <1>2, <2>5 DEF Start!TimeOut
    <3>2. ap[Start!Target] = "off"
      BY <2>2, <3>1 DEF Shape
    <3>. QED  BY <2>1, <2>2, <3>1, <3>2 DEF Stage, Counted, Busy
  <2>. QED  BY <2>3, <2>4, <2>5
<1>. QED  BY <1>1, <1>2, NextProcessorKeeps DEF Trying

LEMMA SetStackKeeps ==
  ASSUME BootInv, Start!SetStack
  PROVE  BootInv'
<1>1. /\ bpc = "stack" /\ bpc' \in {"init", "main"} /\ i' = i /\ online' = online /\ late' = late
      /\ UNCHANGED <<firmware, conf, dead, callout, ap, stack, number, cpuID>>
      /\ bpc' = "init" => i < conf.cpu_count /\ ap_stack' = i
  BY DEF Start!SetStack, Start!fixed, Start!aps
<1>2. /\ Shape /\ Listed /\ i \in Nat \ {0} /\ ap[0] = "up"
      /\ ~ late => (\A a \in Start!Id \ {0} : Stage(a)) /\ Trial /\ Counted
  BY <1>1, Running
<1>3. Shape' /\ Listed' /\ i' \in Nat \ {0} /\ ap'[0] = "up"
  BY <1>1, <1>2 DEF Shape, Listed
<1>4. ASSUME ~ late' PROVE (\A a \in Start!Id \ {0} : Stage(a)') /\ Trial' /\ Counted'
  <2>1. \A a \in Start!Id \ {0} : Stage(a)'
    BY <1>1, <1>2, <1>4 DEF Stage, Busy
  <2>2. Trial'
    BY <1>1, <1>2, <1>4 DEF Trial, Start!Target
  <2>3. Start!Up' = Start!Up
    BY <1>1 DEF Start!Up
  <2>. QED  BY <1>1, <1>2, <1>4, <2>1, <2>2, <2>3 DEF Counted
<1>. QED  BY <1>1, <1>3, <1>4 DEF BootInv, Trying

\* The step of a try
LEMMA TryKeeps ==
  ASSUME BootInv, Start!SendInit \/ Start!Startup \/ Start!CallOut
  PROVE  BootInv'
<1>1. /\ bpc \in {"init", "startup", "callout"} /\ bpc' \in {"startup", "callout", "wait"}
      /\ i' = i /\ online' = online /\ late' = late /\ ap_stack' = ap_stack
      /\ UNCHANGED <<firmware, conf, dead, stack, number, cpuID>>
  BY DEF Start!SendInit, Start!Startup, Start!CallOut, Start!fixed, Start!aps
<1>2. /\ Shape /\ Listed /\ i \in Nat \ {0} /\ ap[0] = "up" /\ i < conf.cpu_count /\ ap_stack = i
      /\ ~ late => (\A a \in Start!Id \ {0} : Stage(a)) /\ Trial /\ Counted
  BY <1>1, Running DEF Trying
<1>3. /\ Start!Target \in Start!Id \ {0} /\ Start!Target' = Start!Target
      /\ \A n \in 1 .. conf.cpu_count :
           conf.lapic_id[n] \in Start!Id /\ (conf.lapic_id[n] = Start!Target <=> n = i + 1)
  BY <1>1, <1>2, TargetIs DEF Start!Target
<1>4. ap = [a \in Start!Id |-> ap[a]]
  BY <1>2 DEF Shape
<1>5. /\ ap' = [a \in Start!Id |-> ap'[a]]
      /\ \A a \in Start!Id \ {Start!Target} : ap'[a] = ap[a]
      /\ Start!Target \in dead => ap'[Start!Target] = ap[Start!Target]
  <2>1. CASE Start!SendInit
    BY <1>3, <1>4, <2>1 DEF Start!SendInit
  <2>2. CASE Start!Startup
    <3>1. Start!Target \in dead => ap[Start!Target] # "init"
      BY <1>2 DEF Shape
    <3>. QED  BY <1>3, <1>4, <2>2, <3>1 DEF Start!Startup
  <2>3. CASE Start!CallOut
    BY <1>4, <2>3 DEF Start!CallOut, Start!aps
  <2>. QED  BY <2>1, <2>2, <2>3
<1>6. Shape' /\ Listed' /\ i' \in Nat \ {0} /\ ap'[0] = "up"
  <2>1. 0 \in Start!Id
    BY DEF Start!Id
  <2>2. dead \subseteq Start!Id \ {0} /\ \A a \in dead : ap'[a] = "off"
    BY <1>2, <1>3, <1>5 DEF Shape
  <2>. QED  BY <1>1, <1>2, <1>3, <1>5, <2>1, <2>2 DEF Shape, Listed
<1>7. ASSUME ~ late'
      PROVE  /\ (\A a : a = Start!Target => Stage(a)') /\ ap[Start!Target] # "up" /\ ap'[Start!Target] # "up"
             /\ callout' = IF bpc' = "wait" THEN i ELSE Start!None
             /\ bpc' = "startup" => ap'[Start!Target] \in {"off", "init"}
             /\ bpc' = "callout" => ap'[Start!Target] \in {"off", "setup", "spin"}
  <2>1. Stage(Start!Target) /\ Trial
    BY <1>1, <1>2, <1>3, <1>7
  <2>2. CASE Start!SendInit
    <3>1. bpc = "init" /\ bpc' = "startup" /\ callout' = Start!None /\ ap[Start!Target] = "off"
      BY <1>2, <2>1, <2>2 DEF Start!SendInit, Trial
    <3>2. ap'[Start!Target] \in {"off", "init"}
      BY <1>3, <1>4, <2>2, <3>1 DEF Start!SendInit
    <3>. QED  BY <1>1, <1>3, <3>1, <3>2 DEF Stage, Busy
  <2>3. CASE Start!Startup
    <3>1. bpc = "startup" /\ callout' = Start!None /\ ap[Start!Target] \in {"off", "init"}
      BY <2>1, <2>3 DEF Start!Startup, Trial
    <3>2. \/ bpc' = "callout" /\ ap'[Start!Target] \in {"off", "setup"}
          \/ bpc' = "startup" /\ ap'[Start!Target] \in {"off", "init"}
      BY <1>3, <1>4, <2>3, <3>1 DEF Start!Startup
    <3>. QED  BY <1>1, <1>3, <3>1, <3>2 DEF Stage, Busy
  <2>4. CASE Start!CallOut
    <3>1. /\ bpc = "callout" /\ bpc' = "wait" /\ callout' = i /\ callout = Start!None /\ ap' = ap
          /\ ap[Start!Target] \in {"off", "setup", "spin"}
      BY <2>1, <2>4 DEF Start!CallOut, Start!aps, Trial
    <3>. QED  BY <1>1, <1>2, <1>3, <2>1, <3>1 DEF Stage, Busy, Trial
  <2>. QED  BY <2>2, <2>3, <2>4
<1>8. ASSUME ~ late' PROVE (\A a \in Start!Id \ {0} : Stage(a)') /\ Trial' /\ Counted'
  <2>1. ASSUME NEW a \in Start!Id \ {0}, a # Start!Target PROVE Stage(a)'
    <3>1. Stage(a) /\ ap'[a] = ap[a]
      BY <1>1, <1>2, <1>5, <1>8, <2>1
    <3>. QED  BY <1>1, <2>1, <3>1 DEF Stage, Busy
  <2>2. \A a \in Start!Id \ {0} : Stage(a)'
    BY <1>7, <1>8, <2>1
  <2>3. \A n \in 1 .. conf.cpu_count : n > i + 1 => ap'[conf.lapic_id[n]] = "off"
    <3>1. \A n \in 1 .. conf.cpu_count : n > i + 1 => ap[conf.lapic_id[n]] = "off" /\ n # i + 1
      BY <1>1, <1>2, <1>8 DEF Trial, Listed
    <3>. QED  BY <1>3, <1>5, <3>1
  <2>4. i # Start!None
    BY <1>2 DEF Start!None
  <2>5. Trial'
    BY <1>1, <1>3, <1>7, <1>8, <2>3, <2>4 DEF Trial
  <2>6. Start!Up' = Start!Up
    BY <1>3, <1>5, <1>7, <1>8 DEF Start!Up
  <2>7. Cardinality(Start!Up) = online /\ online \in Nat /\ IsFiniteSet(Start!Up)
    BY <1>1, <1>2, <1>8 DEF Counted
  <2>. QED  BY <1>1, <1>7, <1>8, <2>2, <2>4, <2>5, <2>6, <2>7 DEF Counted
<1>. QED  BY <1>1, <1>2, <1>6, <1>8 DEF BootInv, Trying
\* A step of another processor leaves the rest alone.
LEMMA OtherSteps ==
  ASSUME BootInv, NEW a \in Start!Id, Start!OtherProcessor(a)
  PROVE  /\ bpc # "detect" /\ a # 0 /\ ap[a] \in Busy
         /\ UNCHANGED <<firmware, conf, dead, bpc, i, tries, ap_stack, online, late>>
         /\ Shape' /\ Listed' /\ ap'[0] = "up" /\ Start!Target' = Start!Target
         /\ \A b \in Start!Id \ {a} :
              ap'[b] = ap[b] /\ stack'[b] = stack[b] /\ number'[b] = number[b] /\ cpuID'[b] = cpuID[b]
<1>1. /\ ap[a] \in Busy /\ \E to \in Busy \cup {"up"} : ap' = [ap EXCEPT ![a] = to]
      /\ UNCHANGED <<firmware, conf, dead, bpc, i, tries, ap_stack, online, late>>
  BY DEF Start!OtherProcessor, Start!TakeStack, Start!SeeNumber, Start!TakeNumber, Start!Register,
         Start!Answer, Start!Goes, Start!fixed, Start!bsp, Busy
<1>2. /\ stack' = stack \/ stack' = [stack EXCEPT ![a] = ap_stack]
      /\ number' = number \/ number' = [number EXCEPT ![a] = callout % 256]
      /\ cpuID' = cpuID \/ cpuID' = [cpuID EXCEPT ![a] = number[a]]
  BY DEF Start!OtherProcessor, Start!TakeStack, Start!SeeNumber, Start!TakeNumber, Start!Register,
         Start!Answer
<1>3. bpc # "detect"
  BY <1>1 DEF BootInv, Busy
<1>4. Shape /\ Listed /\ ap[0] = "up"
  BY <1>3, Running
<1>5. a # 0 /\ a \notin dead
  BY <1>1, <1>4 DEF Busy, Shape
<1>6. /\ ap' = [b \in Start!Id |-> ap'[b]] /\ \A b \in Start!Id \ {a} : ap'[b] = ap[b]
  BY <1>1, <1>4 DEF Shape
<1>7. /\ stack' = [b \in Start!Id |-> stack'[b]] /\ \A b \in Start!Id \ {a} : stack'[b] = stack[b]
      /\ number' = [b \in Start!Id |-> number'[b]] /\ \A b \in Start!Id \ {a} : number'[b] = number[b]
      /\ cpuID' = [b \in Start!Id |-> cpuID'[b]] /\ \A b \in Start!Id \ {a} : cpuID'[b] = cpuID[b]
  BY <1>2, <1>4 DEF Shape
<1>8. dead \subseteq Start!Id \ {0} /\ \A b \in dead : ap'[b] = "off"
  BY <1>4, <1>5, <1>6 DEF Shape
<1>9. Shape' /\ Listed' /\ ap'[0] = "up" /\ Start!Target' = Start!Target
  <2>1. 0 \in Start!Id
    BY DEF Start!Id
  <2>. QED  BY <1>1, <1>4, <1>5, <1>6, <1>7, <1>8, <2>1 DEF Shape, Listed, Start!Target
<1>. QED  BY <1>1, <1>3, <1>5, <1>6, <1>7, <1>9

\* What the one that is started has after its step
LEMMA OtherStage ==
  ASSUME BootInv, NEW a \in Start!Id, Start!OtherProcessor(a), ~ late
  PROVE  /\ Stage(a)' /\ a = Start!Target /\ i \in Nat \ {0} /\ i < conf.cpu_count
         /\ \/ callout' = callout /\ ap'[a] # "up"
            \/ bpc = "wait" /\ callout = i /\ callout' = Start!None /\ ap'[a] = "up"
         /\ bpc = "callout" => ap'[a] = "spin"
<1>1. /\ bpc # "detect" /\ a # 0 /\ ap[a] \in Busy /\ Shape /\ Listed /\ Trial /\ Stage(a)
      /\ i \in Nat \ {0} /\ (bpc \in Trying => i < conf.cpu_count /\ ap_stack = i)
  BY OtherSteps, Running
<1>2. /\ bpc \in {"callout", "wait"} /\ a = Start!Target /\ i < conf.cpu_count /\ ap_stack = i
      /\ bpc = "callout" => callout = Start!None
      /\ a \in DOMAIN ap /\ a \in DOMAIN stack /\ a \in DOMAIN number /\ a \in DOMAIN cpuID
  BY <1>1 DEF Stage, Trying, Trial, Shape
<1>3. i \in 1 .. 255 /\ i + 1 \in 1 .. conf.cpu_count /\ i # Start!None
  <2>1. conf.cpu_count \in 1 .. 256
    BY <1>1 DEF Listed
  <2>2. i \in 1 .. 255 /\ i + 1 \in 1 .. conf.cpu_count
    BY <1>1, <1>2, <2>1, Places
  <2>3. \A n \in 1 .. 255 : n # -1
    OBVIOUS
  <2>. QED  BY <2>2, <2>3 DEF Start!None
<1>4. bpc' = bpc /\ i' = i /\ conf' = conf /\ Start!Target' = Start!Target
  BY OtherSteps
<1>5. CASE Start!TakeStack(a)
  <2>1. ap[a] = "setup" /\ ap'[a] = "spin" /\ stack'[a] = i /\ callout' = callout
    BY <1>2, <1>5 DEF Start!TakeStack, Start!Goes
  <2>. QED  BY <1>1, <1>2, <1>4, <2>1 DEF Stage, Busy
<1>6. CASE Start!SeeNumber(a)
  <2>1. /\ ap[a] = "spin" /\ ap'[a] = "number" /\ callout # Start!None
        /\ stack'[a] = stack[a] /\ callout' = callout
    BY <1>2, <1>6 DEF Start!SeeNumber, Start!Goes, Start!None
  <2>. QED  BY <1>1, <1>2, <1>4, <2>1 DEF Stage, Busy
<1>7. CASE Start!TakeNumber(a)
  <2>1. /\ ap[a] = "number" /\ ap'[a] = "register" /\ number'[a] = callout % 256
        /\ stack'[a] = stack[a] /\ callout' = callout
    BY <1>2, <1>7 DEF Start!TakeNumber, Start!Goes
  <2>2. callout = i /\ bpc = "wait" /\ stack[a] = i
    BY <1>1, <2>1 DEF Stage
  <2>3. callout % 256 = i
    BY <1>3, <2>2
  <2>. QED  BY <1>1, <1>2, <1>4, <2>1, <2>2, <2>3 DEF Stage, Busy
<1>8. CASE Start!Register(a)
  <2>1. /\ ap[a] = "register" /\ ap'[a] = "answer" /\ cpuID'[a] = number[a]
        /\ stack'[a] = stack[a] /\ number'[a] = number[a] /\ callout' = callout
    BY <1>2, <1>8 DEF Start!Register, Start!Goes
  <2>. QED  BY <1>1, <1>2, <1>4, <2>1 DEF Stage, Busy
<1>9. CASE Start!Answer(a)
  <2>1. /\ ap[a] = "answer" /\ ap'[a] = "up" /\ callout' = Start!None
        /\ stack'[a] = stack[a] /\ number'[a] = number[a] /\ cpuID'[a] = cpuID[a]
    BY <1>2, <1>9 DEF Start!Answer, Start!Goes
  <2>2. /\ bpc = "wait" /\ callout = i /\ stack[a] = i /\ number[a] = i /\ cpuID[a] = i
    BY <1>1, <2>1 DEF Stage
  <2>3. \E n \in 1 .. conf.cpu_count : n > 1 /\ conf.lapic_id[n] = a /\ i = n - 1
    BY <1>1, <1>2, <1>3 DEF Start!Target
  <2>. QED  BY <1>1, <1>2, <1>4, <2>1, <2>2, <2>3 DEF Stage, Busy
<1>. QED  BY <1>5, <1>6, <1>7, <1>8, <1>9 DEF Start!OtherProcessor

LEMMA OtherKeeps ==
  ASSUME BootInv, NEW a \in Start!Id, Start!OtherProcessor(a)
  PROVE  BootInv'
<1>1. /\ bpc # "detect" /\ a # 0 /\ ap[a] \in Busy
      /\ UNCHANGED <<firmware, conf, dead, bpc, i, tries, ap_stack, online, late>>
      /\ Shape' /\ Listed' /\ ap'[0] = "up" /\ Start!Target' = Start!Target
      /\ \A b \in Start!Id \ {a} :
           ap'[b] = ap[b] /\ stack'[b] = stack[b] /\ number'[b] = number[b] /\ cpuID'[b] = cpuID[b]
  BY OtherSteps
<1>2. /\ Listed /\ i \in Nat \ {0}
      /\ bpc \in Trying => i < conf.cpu_count /\ ap_stack = i
      /\ ~ late => (\A b \in Start!Id \ {0} : Stage(b)) /\ Trial /\ Counted
  BY <1>1, Running
<1>3. ASSUME ~ late' PROVE (\A b \in Start!Id \ {0} : Stage(b)') /\ Trial' /\ Counted'
  <2>1. /\ Stage(a)' /\ a = Start!Target /\ i < conf.cpu_count
        /\ \/ callout' = callout /\ ap'[a] # "up"
           \/ bpc = "wait" /\ callout = i /\ callout' = Start!None /\ ap'[a] = "up"
        /\ bpc = "callout" => ap'[a] = "spin"
    BY <1>1, <1>3, OtherStage
  <2>2. /\ (\A b \in Start!Id \ {0} : Stage(b)) /\ Trial /\ Counted /\ i # Start!None
        /\ bpc \in {"callout", "wait"}
    BY <1>1, <1>2, <1>3 DEF Start!None, Stage
  <2>3. ASSUME NEW b \in Start!Id \ {0}, b # a PROVE Stage(b)'
    <3>1. Stage(b) /\ ap[b] \notin Busy
      BY <2>1, <2>2, <2>3 DEF Stage
    <3>. QED  BY <1>1, <2>3, <3>1 DEF Stage, Busy
  <2>4. \A n \in 1 .. conf.cpu_count : n > i + 1 => ap'[conf.lapic_id[n]] = "off"
    <3>1. \A n \in 1 .. conf.cpu_count :
            /\ conf.lapic_id[n] \in Start!Id /\ (conf.lapic_id[n] = a => n = i + 1)
            /\ n > i + 1 => ap[conf.lapic_id[n]] = "off" /\ n # i + 1
      BY <1>2, <2>1, <2>2, TargetIs DEF Trial, Listed
    <3>. QED  BY <1>1, <3>1
  <2>5. bpc = "wait" => callout # Start!None
    BY <1>1, <2>1, <2>2 DEF Trial, Busy
  <2>6. Trial'
    BY <1>1, <2>1, <2>2, <2>4, <2>5 DEF Trial
  <2>7. Counted'
    <3>1. IsFiniteSet(Start!Up) /\ online \in Nat /\ Cardinality(Start!Up) = online
      BY <2>2, <2>5 DEF Counted
    <3>2. CASE callout' = callout /\ ap'[a] # "up"
      <4>1. Start!Up' = Start!Up
        BY <1>1, <3>2 DEF Start!Up, Busy
      <4>. QED  BY <1>1, <2>5, <3>1, <3>2, <4>1 DEF Counted
    <3>3. CASE bpc = "wait" /\ callout' = Start!None /\ ap'[a] = "up"
      <4>1. Start!Up' = Start!Up \cup {a} /\ a \notin Start!Up
        BY <1>1, <3>3 DEF Start!Up, Busy
      <4>2. IsFiniteSet(Start!Up') /\ Cardinality(Start!Up') = online + 1
        BY <3>1, <4>1, FS_AddElement
      <4>. QED  BY <1>1, <3>1, <3>3, <4>2 DEF Counted
    <3>. QED  BY <2>1, <3>2, <3>3
  <2>. QED  BY <2>1, <2>3, <2>6, <2>7
<1>. QED  BY <1>1, <1>2, <1>3 DEF BootInv, Trying

\* Every step, in one lemma
LEMMA StartKeeps ==
  ASSUME Start!BootAssumption, BootInv, [Start!Next]_Start!bvars
  PROVE  BootInv'
<1>1. CASE Start!BootProcessor
  BY <1>1, DetectKeeps, SetStackKeeps, TryKeeps, GiveUpKeeps DEF Start!BootProcessor
<1>2. CASE \E a \in Start!Id : Start!OtherProcessor(a)
  BY <1>2, OtherKeeps
<1>3. CASE UNCHANGED Start!bvars
  <2>1. UNCHANGED <<firmware, bpc, conf, i, tries, callout, ap_stack, online, ap, stack, number,
                    cpuID, dead, late>>
    BY <1>3 DEF Start!bvars
  <2>2. Start!Target' = Start!Target /\ Start!Up' = Start!Up
    BY <2>1 DEF Start!Target, Start!Up
  <2>3. (Shape' <=> Shape) /\ (Listed' <=> Listed)
    BY <2>1 DEF Shape, Listed
  <2>4. (Trial' <=> Trial) /\ (Counted' <=> Counted)
    BY <2>1, <2>2 DEF Trial, Counted
  <2>5. \A a \in Start!Id \ {0} : Stage(a)' <=> Stage(a)
    BY <2>1, <2>2 DEF Stage
  <2>. QED  BY <2>1, <2>3, <2>4, <2>5 DEF BootInv
<1>. QED  BY <1>1, <1>2, <1>3 DEF Start!Next

\* As long as nobody is given up that would have started, every processor has the number
\* and the stack of its place in the firmware's list, whatever the list and however
\* bootCPU()'s tries and the processors' answers interleave, and main() goes on with as
\* many as have answered.
THEOREM ProcessorsGetTheirs ==
  ASSUME Start!BootAssumption
  PROVE  Start!Spec => []Start!ProcessorsAreTold
<1>1. BootInv => Start!ProcessorsAreTold
  <2>. SUFFICES ASSUME BootInv, ~ late PROVE Start!ProcessorsAreTold
    BY DEF Start!ProcessorsAreTold
  <2>1. CASE bpc = "detect"
    BY <2>1 DEF BootInv, Start!ProcessorsAreTold
  <2>2. CASE bpc # "detect"
    <3>1. /\ Listed /\ i \in Nat \ {0}
          /\ bpc \in Trying => i < conf.cpu_count
          /\ (\A a \in Start!Id \ {0} : Stage(a)) /\ Counted
      BY <2>2, Running
    <3>2. ASSUME NEW a \in Start!Id \ {0}, ap[a] \in {"register", "answer", "up"}
          PROVE  /\ \E n \in DOMAIN conf.lapic_id : conf.lapic_id[n] = a /\ number[a] = n - 1
                 /\ stack[a] = number[a]
                 /\ ap[a] # "register" => cpuID[a] = number[a]
      <4>1. CASE ap[a] = "up"
        <5>1. PICK n \in 1 .. conf.cpu_count : n > 1 /\ conf.lapic_id[n] = a /\ number[a] = n - 1
          BY <3>1, <3>2, <4>1 DEF Stage
        <5>2. conf.cpu_count > 1
          <6>1. \A c \in 1 .. 256 : \A k \in 1 .. c : k > 1 => c > 1
            OBVIOUS
          <6>2. conf.cpu_count \in 1 .. 256
            BY <3>1 DEF Listed
          <6>. QED  BY <5>1, <6>1, <6>2
        <5>3. n \in DOMAIN conf.lapic_id
          BY <3>1, <5>2 DEF Listed
        <5>. QED  BY <3>1, <3>2, <4>1, <5>1, <5>3 DEF Stage
      <4>2. CASE ap[a] \in {"register", "answer"}
        <5>1. a = Start!Target /\ bpc = "wait" /\ number[a] = i /\ i < conf.cpu_count /\ stack[a] = i
          BY <3>1, <4>2 DEF Stage, Busy, Trying
        <5>2. conf.cpu_count > 1 /\ i + 1 \in 1 .. conf.cpu_count /\ i = i + 1 - 1
          <6>1. conf.cpu_count \in 1 .. 256
            BY <3>1 DEF Listed
          <6>2. i \in Nat \ {0} /\ i < conf.cpu_count
            BY <3>1, <5>1
          <6>. PICK c : c = conf.cpu_count
            OBVIOUS
          <6>3. c \in 1 .. 256 /\ i \in Nat \ {0} /\ i < c
            BY ONLY <6>1, <6>2, c = conf.cpu_count
          <6>4. c > 1 /\ i + 1 \in 1 .. c /\ i = i + 1 - 1
            BY ONLY <6>3
          <6>. QED  BY ONLY <6>4, c = conf.cpu_count
        <5>3. i + 1 \in DOMAIN conf.lapic_id
          BY <3>1, <5>2 DEF Listed
        <5>. QED  BY <3>1, <4>2, <5>1, <5>2, <5>3 DEF Stage, Start!Target
      <4>. QED  BY <3>2, <4>1, <4>2
    <3>3. bpc = "main" => online = Start!Cardinality(Start!Up)
      BY <3>1 DEF Counted, Start!Cardinality, Cardinality, Start!IsFiniteSet, IsFiniteSet
    <3>. QED  BY <3>2, <3>3 DEF Start!ProcessorsAreTold
  <2>. QED  BY <2>1, <2>2
<1>. QED  BY <1>1, StartInit, StartKeeps, PTL DEF Start!Spec
=============================================================================
