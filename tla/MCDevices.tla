----------------------------- MODULE MCDevices -----------------------------
(***************************************************************************)
(* The components that interrupts, other processors or a line drive, for   *)
(* TLC: bells, keyboard, clock chip, GDB stub and the start of processors. *)
(* They share no state, so a behaviour is one of a single part, chosen in  *)
(* the beginning; the variables of the others keep a value.                *)
(***************************************************************************)
EXTENDS Integers, Bellringer, Keyboard, Clock, Stub

VARIABLES
  part,
  firmware, bpc, conf, i, tries, callout, ap_stack, online, ap, ap_stacks, number, cpuID, dead, late

boot == <<firmware, bpc, conf, i, tries, callout, ap_stack, online, ap, ap_stacks, number, cpuID,
          dead, late>>
vars == <<part, bells, keyboard, clock, stub, boot>>

\* No tables; ACPI behind a structure that is no good, with lines that are wired
\* differently; MPS behind one without a table; MPS for one processor; and both, with
\* a disabled processor, one too many, and processors out of order.
Processor(id, enabled) == [type |-> "processor", id |-> id, enabled |-> enabled]
Wire(device, slot) == [type |-> "wire", device |-> device, slot |-> slot]
P0 == Processor(0, TRUE)
P1 == Processor(1, TRUE)
P2 == Processor(2, TRUE)
RSDP(good, tables) == <<[good |-> good, tables |-> tables]>>
SDT(madt, entries) == [madt |-> madt, entries |-> entries]
MPFPS(good, ok, entries) == <<[good |-> good, table |-> [good |-> ok, entries |-> entries]]>>
No == <<>>
Processors == INSTANCE Boot WITH CPU_MAX <- 3, Slots <- 6, Devices <- 4, stack <- ap_stacks,
  Firmware <-
    {[acpi |-> <<No, No>>, mps |-> <<No, No, No, No, No>>],
     [acpi |-> <<RSDP(FALSE, <<SDT(TRUE, <<P0>>)>>),
                 RSDP(TRUE, <<SDT(TRUE, <<P0, P1, Wire(0, 2), Wire(3, 5)>>), SDT(FALSE, <<>>)>>)>>,
      mps |-> <<No, No, No, No, No>>],
     [acpi |-> <<RSDP(TRUE, <<SDT(TRUE, <<P0>>)>>), No>>,
      mps |-> <<MPFPS(TRUE, FALSE, <<P0, P1>>), No, MPFPS(FALSE, TRUE, <<P0>>), No,
                MPFPS(TRUE, TRUE, <<P0, Wire(1, 1), P1, P2>>)>>],
     [acpi |-> <<No, RSDP(TRUE, <<SDT(FALSE, <<>>)>>)>>,
      mps |-> <<No, No, No, No, MPFPS(TRUE, TRUE, <<P0, Wire(0, 2)>>)>>],
     [acpi |-> <<No, RSDP(TRUE, <<SDT(TRUE, <<P0, Processor(3, FALSE), P2, P1, Processor(4, TRUE),
                                              Wire(0, 2)>>)>>)>>,
      mps |-> <<MPFPS(TRUE, TRUE, <<P0, P1>>), No, No, No, No>>]}

ASSUME BellringerAssumption /\ BBufferAssumption /\ KeyboardAssumption
       /\ Processors!BootAssumption

Init ==
  /\ part \in {"bells", "keyboard", "clock", "stub", "boot"}
  /\ BellInit /\ KeyInit /\ ClockInit /\ StubInit
  /\ part # "stub" => \A c \in CPU : regs[c].value = 0
  /\ IF part = "boot" THEN Processors!Init
     ELSE /\ firmware = 0 /\ bpc = "none" /\ conf = 0 /\ i = 0 /\ tries = 0 /\ callout = 0
          /\ ap_stack = 0 /\ online = 0 /\ ap = 0 /\ ap_stacks = 0 /\ number = 0
          /\ cpuID = 0 /\ dead = 0 /\ late = 0

Next ==
  \/ part = "bells" /\ BellNext /\ UNCHANGED <<part, keyboard, clock, stub, boot>>
  \/ part = "keyboard" /\ KeyNext /\ UNCHANGED <<part, bells, clock, stub, boot>>
  \/ part = "clock" /\ ClockNext /\ UNCHANGED <<part, bells, keyboard, stub, boot>>
  \/ part = "stub" /\ StubNext /\ UNCHANGED <<part, bells, keyboard, clock, boot>>
  \/ part = "boot" /\ Processors!Next /\ UNCHANGED <<part, bells, keyboard, clock, stub>>

\* The fairness of each part, as it states it itself.
Fairness ==
  /\ WF_bells(part = "bells" /\ Check)
  /\ WF_keyboard(part = "keyboard" /\ KeyPrologue)
  /\ WF_keyboard(part = "keyboard" /\ KeyEpilogue)
  /\ \A r \in Reader : WF_keyboard(part = "keyboard" /\ Getkey(r))
  /\ WF_clock(part = "clock" /\ UpdateEnds)
  /\ WF_clock(part = "clock" /\ ClockPrologue)
  /\ WF_clock(part = "clock" /\ Section)
  /\ WF_stub(part = "stub" /\ Handle)
  /\ WF_stub(part = "stub" /\ Taken)
  /\ WF_stub(part = "stub" /\ Answered)

FairSpec == Init /\ [][Next]_vars /\ Fairness

-----------------------------------------------------------------------------
(* The properties of the other parts are those of their modules.           *)

\* apicsystem.cc: each processor has the number and the stack it was started for.
CPUsAreTold == part = "boot" => Processors!CPUsAreTold
=============================================================================
