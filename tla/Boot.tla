-------------------------------- MODULE Boot --------------------------------
(***************************************************************************)
(* machine/apicsystem.cc, with what main.cc and boot/ do around it: the    *)
(* boot processor reads the firmware's tables, then starts the others one  *)
(* after the other.  It lays out a stack and wakes one; when the interrupt *)
(* is delivered it puts the processor's number into callout_cpu_number and *)
(* waits for a while until it is -1 again.  A processor takes the stack,   *)
(* waits for a number, registers itself under it and answers.  One that    *)
(* does not answer in time is given up.                                    *)
(*                                                                         *)
(* Both tables are lists of processors, in the firmware's order, and of    *)
(* interrupt lines.  Each is found by a structure somewhere in a few areas *)
(* of memory, of which only what the search looks at is modelled: whether  *)
(* signature, sum and version are right, and the table it leads to.        *)
(***************************************************************************)
EXTENDS Integers, Sequences, SequencesExt, FiniteSets

CONSTANTS Firmware, \* what firmware may leave in memory: the areas where the
                    \* structures of ACPI, and those of MPS, are looked for
          CPU_MAX,
          Slots,    \* slots of the I/O APIC, 24 in the code
          Devices   \* ISA interrupts, 16 in the code

\* Entries of the tables
Processor(id, enabled) == [type |-> "processor", id |-> id, enabled |-> enabled]
Wire(device, slot) == [type |-> "wire", device |-> device, slot |-> slot]

\* A root pointer of ACPI leads to several tables, one of MPS to one.
RSDP(good, tables) == [good |-> good, tables |-> tables]
SDT(madt, entries) == [madt |-> madt, entries |-> entries]
MPFPS(good, table) == [good |-> good, table |-> table]
MPCT(good, entries) == [good |-> good, entries |-> entries]

None == -1
Good(structures) == SelectSeq(structures, LAMBDA x : x.good)
Processors(table) == SelectSeq(table, LAMBDA e : e.type = "processor" /\ e.enabled)
Wires(table) == SelectSeq(table, LAMBDA e : e.type = "wire")
Ids(table) == [n \in 1 .. Len(Processors(table)) |-> Processors(table)[n].id]

VARIABLES
  firmware, \* what it left in memory
  bpc,      \* where the boot processor is
  conf,     \* sys_conf: cpu_count, lapic_id and slot_map
  i,        \* main()'s i, the processor to be started
  tries,    \* STARTUP interrupts sent to it
  callout,  \* callout_cpu_number
  ap_stack,
  online,   \* onlineCPUs
  ap,       \* where each other processor is, by APIC id
  stack,    \* the stack it took
  number,   \* the number it took
  cpuID,    \* number by APIC id
  dead,     \* processors that do not start
  late      \* auxiliary: one was given up that does start

bvars == <<firmware, bpc, conf, i, tries, callout, ap_stack, online, ap, stack, number, cpuID,
           dead, late>>
bsp == <<bpc, i, tries, ap_stack, online>>
aps == <<ap, stack, number, cpuID>>
fixed == <<firmware, conf, dead>>

-----------------------------------------------------------------------------
(* Detection                                                               *)

\* generateIRQMap(): slots that no entry names are like those of the old
\* controller; where several slots have a device the last one counts.
IRQMap(wires) ==
  LET irqs == [s \in 0 .. Slots - 1 |->
                 LET named == SelectSeq(wires, LAMBDA w : w.slot = s)
                 IN  IF named # <<>> THEN Last(named).device
                     ELSE IF s < Devices THEN s ELSE None]
  IN  [d \in 0 .. Devices - 1 |->
         LET of == {s \in DOMAIN irqs : irqs[s] = d}
         IN  IF of = {} THEN None ELSE CHOOSE s \in of : \A t \in of : t <= s]

\* RSDP::find(), and the search of queryACPI(): the first root pointer that is
\* good, and the last of its tables that is a MADT.
MADT(areas) ==
  LET found == Good(FlattenSeq(areas))
      madts == SelectSeq(Head(found).tables, LAMBDA t : t.madt)
  IN  IF found = <<>> THEN <<>> ELSE IF madts = <<>> THEN <<>> ELSE Last(madts).entries

\* queryACPI(): no more than CPU_MAX are taken.
QueryACPI(areas) ==
  LET ids == Ids(MADT(areas))
      n == IF Len(ids) < CPU_MAX THEN Len(ids) ELSE CPU_MAX
  IN  [cpu_count |-> n, lapic_id |-> SubSeq(ids, 1, n), slot_map |-> IRQMap(Wires(MADT(areas)))]

\* readMPCT(): all are counted, after those that were found before, and as many as
\* there is room for are kept.
ReadMPCT(config, table) ==
  LET ids == config.lapic_id \o Ids(table.entries)
  IN  [cpu_count |-> config.cpu_count + Len(Ids(table.entries)),
       lapic_id |-> SubSeq(ids, 1, IF Len(ids) < CPU_MAX THEN Len(ids) ELSE CPU_MAX),
       slot_map |-> [d \in 0 .. Devices - 1 |->
         LET of == SelectSeq(Wires(table.entries), LAMBDA w : w.device = d)
         IN  IF of # <<>> THEN Last(of).slot
             ELSE IF d = 0 THEN 2 ELSE IF d = 2 THEN None ELSE d]]

\* searchConfig(): the first good structure in the area counts, even if its table
\* does not.
SearchConfig(config, area) ==
  LET found == Good(area)
  IN  IF found = <<>> THEN config
      ELSE IF Head(found).table.good THEN ReadMPCT(config, Head(found).table) ELSE config

\* One area after the other, until more than one processor has been found.
SearchMPS(areas) ==
  FoldLeft(LAMBDA config, area :
             IF config.cpu_count > 1 THEN config ELSE SearchConfig(config, area),
           [cpu_count |-> 0, lapic_id |-> <<>>, slot_map |-> [d \in 0 .. Devices - 1 |-> None]],
           areas)

\* detectSystemType()
Detected(memory) ==
  LET acpi == QueryACPI(memory.acpi)
      mps == SearchMPS(memory.mps)
      sys == IF acpi.cpu_count >= mps.cpu_count THEN acpi ELSE mps
  IN  IF sys.cpu_count > 1 THEN sys ELSE [sys EXCEPT !.cpu_count = 1]

Id == {0} \union UNION {Range(Detected(f).lapic_id) : f \in Firmware}

\* Where there are several processors, they are named once each, the boot processor
\* first, with as many of them kept as are counted; numbers are bytes.
BootAssumption ==
  \A f \in Firmware :
    LET ids == Detected(f).lapic_id
        n == Detected(f).cpu_count
    IN  /\ n \in 1 .. 256
        /\ n > 1 => ids \in Seq(Nat) /\ Len(ids) = n /\ ids[1] = 0 /\ IsInjective(ids)

Init ==
  /\ firmware \in Firmware /\ dead \in SUBSET (Id \ {0})
  /\ bpc = "detect" /\ i = 0 /\ tries = 0 /\ callout = 0 /\ ap_stack = 0 /\ online = 1
  /\ conf = [cpu_count |-> 0, lapic_id |-> <<>>, slot_map |-> <<>>]
  /\ ap = [a \in Id |-> "off"] /\ stack = [a \in Id |-> None]
  /\ number = [a \in Id |-> None] /\ cpuID = [a \in Id |-> None]
  /\ late = FALSE

\* setupThisProcessor() of the boot processor takes the number that lies there for it.
Detect ==
  /\ bpc = "detect" /\ conf' = Detected(firmware)
  /\ cpuID' = [cpuID EXCEPT ![0] = 0] /\ number' = [number EXCEPT ![0] = 0] /\ callout' = None
  /\ ap' = [ap EXCEPT ![0] = "up"] /\ stack' = [stack EXCEPT ![0] = 0]
  /\ i' = 1 /\ bpc' = "stack"
  /\ UNCHANGED <<firmware, dead, tries, ap_stack, online, late>>

-----------------------------------------------------------------------------
(* bootCPU(), called by main() for one processor after the other           *)

Target == conf.lapic_id[i + 1]

Next_i == i' = i + 1 /\ bpc' = "stack" /\ tries' = 0

SetStack ==
  /\ bpc = "stack"
  /\ IF i < conf.cpu_count THEN ap_stack' = i /\ bpc' = "init"
     ELSE bpc' = "main" /\ UNCHANGED ap_stack
  /\ UNCHANGED <<fixed, i, tries, online, callout, aps, late>>

\* A faulty form of SendInit: the number of one that was given up stays there.
SendInitKeeps ==
  /\ bpc = "init" /\ bpc' = "startup" /\ UNCHANGED callout
  /\ ap' = [ap EXCEPT ![Target] = IF Target \in dead THEN @ ELSE "init"]
  /\ UNCHANGED <<fixed, i, tries, ap_stack, online, stack, number, cpuID, late>>

SendInit ==
  /\ bpc = "init" /\ bpc' = "startup" /\ callout' = None
  /\ ap' = [ap EXCEPT ![Target] = IF Target \in dead THEN @ ELSE "init"]
  /\ UNCHANGED <<fixed, i, tries, ap_stack, online, stack, number, cpuID, late>>

\* The interrupt is delivered, or not, which is tried twice.
Startup ==
  /\ bpc = "startup" /\ tries < 2 /\ tries' = tries + 1
  /\ \/ bpc' = "callout" /\ ap' = [ap EXCEPT ![Target] = IF @ = "init" THEN "setup" ELSE @]
     \/ UNCHANGED <<bpc, ap>>
  /\ UNCHANGED <<fixed, i, ap_stack, online, callout, stack, number, cpuID, late>>

GiveUp ==
  /\ bpc = "startup" /\ tries = 2 /\ Next_i
  /\ UNCHANGED <<fixed, ap_stack, online, callout, aps, late>>

CallOut ==
  /\ bpc = "callout" /\ bpc' = "wait" /\ callout' = i
  /\ UNCHANGED <<fixed, i, tries, ap_stack, online, aps, late>>

CallIn ==
  /\ bpc = "wait" /\ callout = None /\ Next_i /\ online' = online + 1
  /\ UNCHANGED <<fixed, ap_stack, callout, aps, late>>

\* Half a second has passed without an answer.
TimeOut ==
  /\ bpc = "wait" /\ callout # None
  /\ Next_i /\ late' = (late \/ Target \notin dead)
  /\ UNCHANGED <<fixed, ap_stack, online, callout, aps>>

BootProcessor == Detect \/ SetStack \/ SendInit \/ Startup \/ GiveUp \/ CallOut \/ CallIn \/ TimeOut

-----------------------------------------------------------------------------
(* The other processors: setup_ap, and setupThisProcessor()                *)

Goes(a, from, to) == ap[a] = from /\ ap' = [ap EXCEPT ![a] = to] /\ UNCHANGED <<fixed, bsp, late>>

TakeStack(a) ==
  /\ Goes(a, "setup", "spin") /\ stack' = [stack EXCEPT ![a] = ap_stack]
  /\ UNCHANGED <<callout, number, cpuID>>

SeeNumber(a) ==
  /\ callout >= 0 /\ Goes(a, "spin", "number")
  /\ UNCHANGED <<callout, stack, number, cpuID>>

\* It is read a second time.
TakeNumber(a) ==
  /\ Goes(a, "number", "register") /\ number' = [number EXCEPT ![a] = callout % 256]
  /\ UNCHANGED <<callout, stack, cpuID>>

Register(a) ==
  /\ Goes(a, "register", "answer") /\ cpuID' = [cpuID EXCEPT ![a] = number[a]]
  /\ UNCHANGED <<callout, stack, number>>

Answer(a) ==
  /\ Goes(a, "answer", "up") /\ callout' = None
  /\ UNCHANGED <<stack, number, cpuID>>

OtherProcessor(a) == TakeStack(a) \/ SeeNumber(a) \/ TakeNumber(a) \/ Register(a) \/ Answer(a)

Next == BootProcessor \/ \E a \in Id : OtherProcessor(a)

Spec == Init /\ [][Next]_bvars
-----------------------------------------------------------------------------
Up == {a \in Id : ap[a] = "up"}

\* As long as every processor that starts at all answers in time, each has the
\* number it was started for and a stack of its own, and when main() goes on those
\* that are up are counted.
ProcessorsAreTold ==
  ~ late =>
    /\ \A a \in Id \ {0} : ap[a] \in {"register", "answer", "up"} =>
         /\ \E n \in DOMAIN conf.lapic_id : conf.lapic_id[n] = a /\ number[a] = n - 1
         /\ stack[a] = number[a]
         /\ ap[a] # "register" => cpuID[a] = number[a]
    /\ bpc = "main" => online = Cardinality(Up)

\* The processors are told, and a device is looked for at the slot that a table names
\* for it, above its own.
CPUsAreTold ==
  /\ ProcessorsAreTold
  /\ bpc # "detect" => \A w \in Range(Wires(MADT(firmware.acpi))) :
       (w.slot >= w.device /\ conf = QueryACPI(firmware.acpi)) =>
         conf.slot_map[w.device] = w.slot
=============================================================================
