------------------------------- MODULE Clock --------------------------------
(***************************************************************************)
(* user/time/cmos.cc and rtc.cc: the real-time clock's registers, its      *)
(* update interrupt, and the sections that read and set the time.  A       *)
(* register is selected through one port and accessed through another.     *)
(* Sections exclude each other by the kernel lock, but the prologue of the *)
(* interrupt selects registers too, on the same CPU or on another one.     *)
(*                                                                         *)
(* The registers of the time are a second and a minute, whose carry stands *)
(* for all others; status A says that an update is in progress, status C   *)
(* that an update has ended, until it is read.  The fields of Time are     *)
(* changed in one step by whoever changes them; Calendar looks into that   *)
(* step.                                                                   *)
(***************************************************************************)
EXTENDS Naturals, Sequences, FiniteSets

CONSTANTS Seconds,    \* seconds per minute
          Minutes,    \* minutes, before they start again
          MaxUpdates, \* bound: updates of the clock
          MaxSections \* bound: sections that access the clock

Register == {"second", "minute", "A", "C"}

VARIABLES
  registers, \* second and minute, as the chip keeps them
  updating,  \* status A: an update is in progress
  ended,     \* status C: an update has ended; asserts the interrupt line
  updates,   \* updates so far
  index,     \* the register that is selected
  clock_ppc,       \* where the prologue is
  program,   \* accesses the section has still to make
  clock_spc,       \* the section's next access to the ports
  fetched,   \* values update_time() has read
  time,      \* the fields of Time
  sections,  \* sections so far
  exact      \* auxiliary: the last update_time() met no update and no prologue

chip == <<registers, updating, ended, updates>>
section == <<program, clock_spc, fetched, sections>>
clock == <<chip, index, clock_ppc, section, time, exact>>

Plus(t) == [second |-> (t.second + 1) % Seconds,
            minute |-> IF t.second + 1 = Seconds THEN (t.minute + 1) % Minutes ELSE t.minute]

\* What a data port shows for a register; status C is clear after it is read.
\* While the chip updates them, the registers of the time are not defined.
Shows(r, v) ==
  CASE r = "A" -> v = IF updating THEN 1 ELSE 0
    [] r = "C" -> v = IF ended THEN 1 ELSE 0
    [] r = "second" -> v \in IF updating THEN 0 .. Seconds - 1 ELSE {registers.second}
    [] r = "minute" -> v \in IF updating THEN 0 .. Minutes - 1 ELSE {registers.minute}

ReadData(v) == v \in 0 .. 59 /\ Shows(index, v) /\ ended' = (ended /\ index # "C")

-----------------------------------------------------------------------------
(* Programs of a section: accesses to registers in order.  Each waits with *)
(* is_updating() first, and writing a register reads it before.            *)

Read(r) == [kind |-> "read", reg |-> r]
Write(r) == [kind |-> "write", reg |-> r]
Wait == [kind |-> "wait", reg |-> "A"]

GetValue(r) == <<Wait, Read(r)>>
SetValue(r) == <<Wait, [kind |-> "skip", reg |-> r], Write(r)>>
UpdateTime == GetValue("second") \o GetValue("minute")

\* rtc.init(); the shell's "set time" and "set date", which write and reload
SetTime == SetValue("minute") \o SetValue("second") \o UpdateTime

-----------------------------------------------------------------------------
ClockInit ==
  /\ registers = [second |-> 0, minute |-> 0]
  /\ updating = FALSE /\ ended = FALSE /\ updates = 0
  /\ index = "C" /\ clock_ppc = "none"
  /\ program = <<>> /\ clock_spc = "select" /\ fetched = <<>> /\ sections = 0
  /\ time = registers /\ exact = TRUE

\* The chip
UpdateBegins ==
  /\ ~ updating /\ updates < MaxUpdates
  /\ updating' = TRUE /\ updates' = updates + 1
  /\ exact' = (exact /\ program = <<>>)
  /\ UNCHANGED <<registers, ended, index, clock_ppc, section, time>>

\* Two updates before a prologue came are one interrupt.
UpdateEnds ==
  /\ updating /\ updating' = FALSE
  /\ registers' = Plus(registers) /\ ended' = TRUE
  /\ exact' = (exact /\ program = <<>> /\ ~ ended)
  /\ UNCHANGED <<updates, index, clock_ppc, section, time>>

-----------------------------------------------------------------------------
(* The prologue, on some CPU                                               *)

\* The line is level triggered, and looked at again after the acknowledgement.
ClockInterrupt ==
  /\ ended /\ clock_ppc = "none"
  /\ clock_ppc' = "select"
  /\ exact' = (exact /\ program = <<>>)
  /\ UNCHANGED <<chip, index, section, time>>

\* is_update_irq: select_offset(statusC) ...
PrologueSelect ==
  /\ clock_ppc = "select" /\ clock_ppc' = "data"
  /\ index' = "C"
  /\ exact' = (exact /\ program = <<>>)
  /\ UNCHANGED <<chip, section, time>>

\* A faulty form of PrologueData: every interrupt is taken for an update,
\* without looking at status C.
PrologueDataBlind ==
  /\ clock_ppc = "data" /\ clock_ppc' = "none"
  /\ time' = Plus(time)
  /\ exact' = (exact /\ program = <<>>)
  /\ UNCHANGED <<chip, index, section>>

\* ... and the data.  The bit of status C may be set in any register of the
\* time that was selected meanwhile.
PrologueData ==
  /\ clock_ppc = "data" /\ clock_ppc' = "none"
  /\ \E v \in 0 .. 59 :
       /\ ReadData(v)
       /\ \E irq \in {index = "C" /\ v = 1} \cup (IF index = "C" THEN {} ELSE {TRUE}) :
            time' = IF irq THEN Plus(time) ELSE time
  /\ exact' = (exact /\ program = <<>>)
  /\ UNCHANGED <<registers, updating, updates, index, section>>

-----------------------------------------------------------------------------
(* A section                                                               *)

\* A section reads the time again, perhaps after it has set it.
Begin ==
  /\ program = <<>> /\ sections < MaxSections
  /\ program' \in {UpdateTime, SetTime}
  /\ clock_spc' = "select" /\ fetched' = <<>> /\ sections' = sections + 1
  /\ exact' = (clock_ppc = "none" /\ ~ ended)
  /\ UNCHANGED <<chip, index, clock_ppc, time>>

Select ==
  /\ program # <<>> /\ clock_spc = "select"
  /\ index' = Head(program).reg /\ clock_spc' = "data"
  /\ UNCHANGED <<chip, clock_ppc, program, fetched, sections, time, exact>>

\* A faulty form of WaitOver: the time is read while it is updated.
WaitNever ==
  /\ program # <<>> /\ clock_spc = "data" /\ Head(program).kind = "wait"
  /\ \E v \in 0 .. 59 : ReadData(v)
  /\ program' = Tail(program) /\ clock_spc' = "select"
  /\ UNCHANGED <<registers, updating, updates, index, clock_ppc, fetched, sections, time, exact>>

\* is_updating(), until it says no
WaitOver ==
  /\ program # <<>> /\ clock_spc = "data" /\ Head(program).kind = "wait"
  /\ \E v \in 0 .. 59 :
       /\ ReadData(v)
       /\ program' = IF v = 0 THEN Tail(program) ELSE program
  /\ clock_spc' = "select"
  /\ UNCHANGED <<registers, updating, updates, index, clock_ppc, fetched, sections, time, exact>>

\* read_port; the second value is the last of update_time().
Data ==
  /\ program # <<>> /\ clock_spc = "data" /\ Head(program).kind \in {"read", "skip"}
  /\ \E v \in 0 .. 59 :
       /\ ReadData(v)
       /\ fetched' = IF Head(program).kind = "read" THEN Append(fetched, v) ELSE fetched
       /\ time' = IF Len(program) > 1 THEN time ELSE [second |-> fetched'[1], minute |-> v]
  /\ program' = Tail(program) /\ clock_spc' = "select"
  /\ UNCHANGED <<registers, updating, updates, index, clock_ppc, sections, exact>>

\* write_port: any value that is legal for the register; status registers keep
\* theirs.
WritePort ==
  /\ program # <<>> /\ clock_spc = "data" /\ Head(program).kind = "write"
  /\ registers' \in IF index \in {"A", "C"} \/ updating THEN {registers}
                    ELSE {[registers EXCEPT ![index] = v] :
                            v \in 0 .. (IF index = "second" THEN Seconds ELSE Minutes) - 1}
  /\ program' = Tail(program) /\ clock_spc' = "select"
  /\ UNCHANGED <<updating, ended, updates, index, clock_ppc, fetched, sections, time, exact>>

Chip == UpdateBegins \/ UpdateEnds
ClockPrologue == ClockInterrupt \/ PrologueSelect \/ PrologueData
Section == Select \/ WaitOver \/ Data \/ WritePort

ClockNext == Chip \/ ClockPrologue \/ Begin \/ Section
ClockFairness == WF_clock(UpdateEnds) /\ WF_clock(ClockPrologue) /\ WF_clock(Section)
ClockSpec == ClockInit /\ [][ClockNext]_clock
FairClockSpec == ClockSpec /\ ClockFairness
-----------------------------------------------------------------------------
\* cmos.h:112-113: read_port and write_port access the field that is specified
\* in offset.
AccessesItsField ==
  /\ clock_ppc = "data" => index = "C"
  /\ program # <<>> /\ clock_spc = "data" => index = Head(program).reg

\* The interrupt does not die when a section's selection makes the prologue
\* read another register than status C: the update's flag is always cleared in
\* the end, so that the next update interrupts again.
InterruptsGoOn == []<> ~ ended

\* When no update, no interrupt and no other access falls into update_time(),
\* the time is that of the chip from then on, less the tick that is on its way,
\* as long as no section touches the ports while the prologue does.
TimeFollowsChip ==
  exact /\ program = <<>> => registers = IF ended THEN Plus(time) ELSE time
=============================================================================
