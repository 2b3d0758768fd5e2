---------------------------- MODULE MCSequential ----------------------------
(***************************************************************************)
(* The components of which one call after the other is made, and the       *)
(* console, for TLC.  They share no state, so a behaviour is one of a      *)
(* single part, chosen in the beginning; those of the others do not change.*)
(***************************************************************************)
EXTENDS Integers, Timer, Heap, Queue, Shell, Decoder, Calendar, Screen, Text, Console

VARIABLES
  part,
  base, value, printed,
  bytes, regs, heard, ended, asked, spoiled, want, commands

numbers == <<base, value, printed>>
packets == <<bytes, regs, heard, ended, asked, spoiled, want, commands>>
vars == <<part, cvars, timer, heap, queue, tvars, numbers, svars, shell, dvars, console, packets>>

\* Around leap days, the turn of a month, of a year and of a century.
Starts == {<<20,0,2,28>>, <<19,99,12,31>>, <<21,0,2,28>>, <<20,24,2,28>>, <<20,23,4,30>>,
           <<20,0,1,1>>, <<20,0,3,1>>, <<20,24,3,1>>}
Zones == {-1, 0, 2}

Output == INSTANCE Numbers WITH Word <- 128
Protocol == INSTANCE Packets WITH
  Byte <- {35, 125, 255}, Base <- 15, Cells <- 4, NumRegisters <- 3, RegisterSize <- 1,
  BufSize <- 11, DataSize <- 2, Word <- 256, Noise <- {120}, MaxCommands <- 2, mem <- bytes

ASSUME
  /\ TimerAssumption /\ HeapAssumption /\ QueueAssumption /\ ShellAssumption
  /\ BBufferAssumption /\ ConsoleAssumption /\ DecoderAssumption /\ CalendarAssumption
  /\ ScreenAssumption /\ TextAssumption

Init ==
  /\ part \in {"calendar", "timer", "heap", "queue", "string", "numbers", "screen", "shell", "decoder",
               "console", "packets"}
  /\ CalendarInit /\ TimerInit /\ HeapInit /\ QueueInit /\ ScreenInit /\ ShellInit /\ DecoderInit
  /\ TextInit /\ ConsoleInit
  /\ part # "calendar" => \A s \in Start : origin <= DayNumber(Fields(s))
  /\ part # "screen" => use_cursor = TRUE
  /\ part # "timer" => \A t \in Ticks : ticks <= t
  /\ IF part = "numbers" THEN Output!Init
     ELSE /\ base = 0 /\ value = 0 /\ printed = 0
  /\ IF part = "packets" THEN Protocol!Init
     ELSE /\ bytes = 0 /\ regs = 0 /\ heard = 0 /\ ended = 0 /\ asked = 0 /\ spoiled = 0
          /\ want = 0 /\ commands = 0

Next ==
  \/ /\ part = "calendar" /\ CalendarNext
     /\ UNCHANGED <<part, timer, heap, queue, tvars, numbers, svars, shell, dvars, console,
                    packets>>
  \/ /\ part = "timer" /\ TimerNext
     /\ UNCHANGED <<part, cvars, heap, queue, tvars, numbers, svars, shell, dvars, console,
                    packets>>
  \/ /\ part = "heap" /\ HeapNext
     /\ UNCHANGED <<part, cvars, timer, queue, tvars, numbers, svars, shell, dvars, console,
                    packets>>
  \/ /\ part = "queue" /\ QueueNext
     /\ UNCHANGED <<part, cvars, timer, heap, tvars, numbers, svars, shell, dvars, console,
                    packets>>
  \/ /\ part = "string" /\ TextNext
     /\ UNCHANGED <<part, cvars, timer, heap, queue, numbers, svars, shell, dvars, console,
                    packets>>
  \/ /\ part = "numbers" /\ Output!Next
     /\ UNCHANGED <<part, cvars, timer, heap, queue, tvars, svars, shell, dvars, console,
                    packets>>
  \/ /\ part = "screen" /\ ScreenNext
     /\ UNCHANGED <<part, cvars, timer, heap, queue, tvars, numbers, shell, dvars, console,
                    packets>>
  \/ /\ part = "shell" /\ ShellNext
     /\ UNCHANGED <<part, cvars, timer, heap, queue, tvars, numbers, svars, dvars, console,
                    packets>>
  \/ /\ part = "decoder" /\ DecoderNext
     /\ UNCHANGED <<part, cvars, timer, heap, queue, tvars, numbers, svars, shell, console,
                    packets>>
  \/ /\ part = "console" /\ ConsoleNext
     /\ UNCHANGED <<part, cvars, timer, heap, queue, tvars, numbers, svars, shell, dvars,
                    packets>>
  \/ /\ part = "packets" /\ Protocol!Next
     /\ UNCHANGED <<part, cvars, timer, heap, queue, tvars, numbers, svars, shell, dvars,
                    console>>

Spec == Init /\ [][Next]_vars

-----------------------------------------------------------------------------
(* The properties of the instances; those of the others are in their modules. *)

\* o_stream.cc, string.cc: strtol() reads the number that was printed.
PrintedIsRead == part = "numbers" => Output!PrintedIsRead
\* protocol.cc: what a packet says is done and answered, and a spoiled one is not.
PacketsAreMeant == part = "packets" => Protocol!PacketsAreMeant
=============================================================================
