-------------------------------- MODULE Stub --------------------------------
(***************************************************************************)
(* debug/gdb: a CPU that traps takes a lock, copies its registers to the   *)
(* one place the stub has for them, and talks with the debugger until it is*)
(* told to go on; then it takes the registers from there.  Each side       *)
(* acknowledges the packets of the other.  The debugger is one that keeps  *)
(* to the protocol: one command at a time, sent again when it is refused or*)
(* when nothing comes.                                                     *)
(*                                                                         *)
(* A packet is one item of the line, as is an acknowledgement; the line may*)
(* spoil packets.  A CPU has one register and its trap flag, and memory one*)
(* place: g stands for g and p, G for G and P, and M for M and X.          *)
(***************************************************************************)
EXTENDS Naturals, Sequences

CONSTANTS CPU,          \* the CPUs
          Value,        \* values of the register and of memory
          MaxCommands,  \* bound: commands of the debugger
          MaxErrors     \* bound: packets spoiled

Reg(value, step) == [value |-> value, step |-> step]
Packet(cmd, value, good) == [cmd |-> cmd, value |-> value, good |-> good]
Ack(sign) == Packet(sign, 0, TRUE)
IsAck(item) == item.cmd \in {"+", "-"}

NoCPU == "none"
NoPacket == Packet("none", 0, TRUE)

VARIABLES
  regs,      \* registers of the CPUs
  pc,        \* where each is
  tickets,   \* those at the lock, in the order of their tickets
  state,     \* GDB_Stub::state
  mem,       \* memory
  spc,       \* where the CPU that has the lock is in handle()
  toStub, toGdb,  \* the line
  gdb,       \* what the debugger waits for
  asked,     \* its last command
  commands,  \* auxiliary: commands sent
  errors,    \* auxiliary: packets spoiled
  want,      \* auxiliary: what the registers of each CPU should be
  told,      \* auxiliary: the CPU in handle() was told to go on
  seen       \* auxiliary: what the debugger was shown was right

stub == <<regs, pc, tickets, state, mem, spc, toStub, toGdb, gdb, asked, commands, errors, want, told, seen>>
line == <<toStub, toGdb>>
debugger == <<gdb, asked, commands>>
machine == <<regs, pc, tickets>>

StubInit ==
  /\ regs \in [CPU -> [value : Value, step : {FALSE}]] /\ want = regs
  /\ pc = [c \in CPU |-> "run"] /\ tickets = <<>>
  /\ state \in [value : {0}, step : {FALSE}] /\ mem = 0 /\ spc = "none"
  /\ toStub = <<>> /\ toGdb = <<>>
  /\ gdb = "stop" /\ asked = NoPacket /\ commands = 0 /\ errors = 0
  /\ told = FALSE /\ seen = TRUE

-----------------------------------------------------------------------------
(* The CPUs                                                                *)

\* An instruction; with the trap flag it is the only one before the next trap.
Run(c) ==
  /\ pc[c] = "run"
  /\ \E v \in Value :
       regs' = [regs EXCEPT ![c].value = v] /\ want' = [want EXCEPT ![c].value = v]
  /\ pc' = [pc EXCEPT ![c] = IF regs[c].step THEN "trap" ELSE "run"]
  /\ UNCHANGED <<tickets, state, mem, spc, line, debugger, errors, told, seen>>

\* A breakpoint or an exception, and the ticket for the lock
Trap(c) ==
  /\ pc[c] = "trap" \/ (pc[c] = "run" /\ ~ regs[c].step)
  /\ pc' = [pc EXCEPT ![c] = "lock"] /\ tickets' = Append(tickets, c)
  /\ UNCHANGED <<regs, state, mem, spc, line, debugger, errors, want, told, seen>>

\* The registers are given to the stub, and the debugger the signal.
Enter(c) ==
  /\ pc[c] = "lock" /\ Head(tickets) = c
  /\ pc' = [pc EXCEPT ![c] = "handle"]
  /\ state' = regs[c] /\ told' = FALSE
  /\ spc' = "ack" /\ toGdb' = Append(toGdb, Packet("S", 0, TRUE))
  /\ UNCHANGED <<regs, tickets, mem, toStub, debugger, errors, want, seen>>

\* A faulty form of Leave: the lock is given back before the registers are taken.
LeaveEarly(c) ==
  \/ /\ pc[c] = "handle" /\ spc = "done"
     /\ pc' = [pc EXCEPT ![c] = "restore"] /\ tickets' = Tail(tickets) /\ spc' = "none"
     /\ UNCHANGED <<regs, state, mem, line, debugger, errors, want, told, seen>>
  \/ /\ pc[c] = "restore" /\ pc' = [pc EXCEPT ![c] = "run"]
     /\ regs' = [regs EXCEPT ![c] = state]
     /\ UNCHANGED <<tickets, state, mem, spc, line, debugger, errors, want, told, seen>>

\* The registers are taken back, and the lock given back.
Leave(c) ==
  /\ pc[c] = "handle" /\ spc = "done"
  /\ pc' = [pc EXCEPT ![c] = "run"] /\ tickets' = Tail(tickets) /\ spc' = "none"
  /\ regs' = [regs EXCEPT ![c] = state]
  /\ UNCHANGED <<state, mem, line, debugger, errors, want, told, seen>>

-----------------------------------------------------------------------------
(* handle()                                                                *)

Owner == Head(tickets)

\* recv_ack(): any one byte is taken for it, and what it says is not looked at.
RecvAck ==
  /\ spc = "ack" /\ toStub # <<>>
  /\ toStub' = Tail(toStub) /\ spc' = "recv"
  /\ UNCHANGED <<machine, state, mem, toGdb, debugger, errors, want, told, seen>>

\* recv_packet(), before a packet begins
Skip ==
  /\ spc = "recv" /\ toStub # <<>> /\ IsAck(Head(toStub))
  /\ toStub' = Tail(toStub)
  /\ UNCHANGED <<machine, state, mem, spc, toGdb, debugger, errors, want, told, seen>>

\* ... and a bad checksum, after which handle() ends.
RecvBad ==
  /\ spc = "recv" /\ toStub # <<>> /\ ~ IsAck(Head(toStub)) /\ ~ Head(toStub).good
  /\ toStub' = Tail(toStub) /\ toGdb' = Append(toGdb, Ack("-")) /\ spc' = "done"
  /\ UNCHANGED <<machine, state, mem, debugger, errors, want, told, seen>>

\* A faulty form of Answers: the packet is not acknowledged.
AnswersBare(cmd, reply, v) ==
  /\ spc = "recv" /\ toStub # <<>> /\ Head(toStub).good /\ Head(toStub).cmd = cmd
  /\ toStub' = Tail(toStub) /\ spc' = "ack"
  /\ toGdb' = Append(toGdb, Packet(reply, v, TRUE))
  /\ UNCHANGED <<machine, debugger, errors, told, seen>>

\* A packet is acknowledged and executed, and the answer sent.
Answers(cmd, reply, v) ==
  /\ spc = "recv" /\ toStub # <<>> /\ Head(toStub).good /\ Head(toStub).cmd = cmd
  /\ toStub' = Tail(toStub) /\ spc' = "ack"
  /\ toGdb' = toGdb \o <<Ack("+"), Packet(reply, v, TRUE)>>
  /\ UNCHANGED <<machine, debugger, errors, told, seen>>

ReadRegisters == Answers("g", "value", state.value) /\ UNCHANGED <<state, mem, want>>
WriteRegisters ==
  /\ Answers("G", "OK", 0) /\ state' = [state EXCEPT !.value = Head(toStub).value]
  /\ want' = [want EXCEPT ![Owner].value = Head(toStub).value] /\ UNCHANGED mem
ReadMemory == Answers("m", "value", mem) /\ UNCHANGED <<state, mem, want>>
WriteMemory == Answers("M", "OK", 0) /\ mem' = Head(toStub).value /\ UNCHANGED <<state, want>>
StopReason == Answers("?", "S", 0) /\ UNCHANGED <<state, mem, want>>
Refuse == Answers("bad", "E", 0) /\ UNCHANGED <<state, mem, want>>
Unsupported == Answers("other", "", 0) /\ UNCHANGED <<state, mem, want>>

\* sys_continue(), sys_step(): acknowledged only
GoOn(cmd) ==
  /\ spc = "recv" /\ toStub # <<>> /\ Head(toStub).good /\ Head(toStub).cmd = cmd
  /\ toStub' = Tail(toStub) /\ toGdb' = Append(toGdb, Ack("+")) /\ spc' = "done"
  /\ state' = [state EXCEPT !.step = cmd = "s"] /\ told' = TRUE
  /\ want' = [want EXCEPT ![Owner].step = cmd = "s"]
  /\ UNCHANGED <<machine, mem, debugger, errors, seen>>

Handle ==
  \/ RecvAck \/ Skip \/ RecvBad
  \/ ReadRegisters \/ WriteRegisters \/ ReadMemory \/ WriteMemory
  \/ StopReason \/ Refuse \/ Unsupported \/ GoOn("c") \/ GoOn("s")

-----------------------------------------------------------------------------
(* The debugger                                                            *)

Command(cmd, v) == Packet(cmd, v, TRUE)

\* What comes next from the stub, if it is not spoiled
Gets(reply) == toGdb # <<>> /\ Head(toGdb).good /\ Head(toGdb).cmd \in reply

Ask ==
  /\ gdb = "idle" /\ commands < MaxCommands
  /\ \E cmd \in {"g", "G", "m", "M", "?", "bad", "other", "c", "s"} :
       \E v \in IF cmd \in {"G", "M"} THEN Value ELSE {0} :
         asked' = Command(cmd, v) /\ toStub' = Append(toStub, asked')
  /\ gdb' = "taken" /\ commands' = commands + 1
  /\ UNCHANGED <<machine, state, mem, spc, toGdb, errors, want, told, seen>>

Taken ==
  /\ gdb = "taken" /\ Gets({"+"})
  /\ toGdb' = Tail(toGdb) /\ gdb' = IF asked.cmd \in {"c", "s"} THEN "stop" ELSE "answer"
  /\ UNCHANGED <<machine, state, mem, spc, toStub, asked, commands, errors, want, told, seen>>

\* The answer, or the signal of a CPU that has stopped
Answered ==
  /\ gdb \in {"answer", "stop"}
  /\ Gets(IF gdb = "stop" THEN {"S"} ELSE {"value", "OK", "S", "E", ""})
  /\ toGdb' = Tail(toGdb) /\ toStub' = Append(toStub, Ack("+")) /\ gdb' = "idle"
  /\ seen' = (seen /\ (gdb = "answer" => Head(toGdb).cmd =
       CASE asked.cmd \in {"g", "m"} -> "value" [] asked.cmd \in {"G", "M"} -> "OK"
         [] asked.cmd = "?" -> "S" [] asked.cmd = "bad" -> "E" [] OTHER -> "")
       /\ (gdb = "answer" /\ asked.cmd = "g" => Head(toGdb).value = want[Owner].value))
  /\ UNCHANGED <<machine, state, mem, spc, asked, commands, errors, want, told>>

\* The command was refused, or nothing has come: it is sent again.
Again ==
  /\ \/ gdb = "taken" /\ Gets({"-"}) /\ toGdb' = Tail(toGdb)
     \/ /\ gdb \in {"taken", "answer"} /\ errors > 0 /\ toGdb = <<>> /\ toStub = <<>>
        /\ spc \in {"recv", "none"} /\ UNCHANGED toGdb
  /\ commands < MaxCommands /\ commands' = commands + 1
  /\ toStub' = Append(toStub, asked) /\ gdb' = "taken"
  /\ UNCHANGED <<machine, state, mem, spc, asked, errors, want, told, seen>>

\* What is spoiled is refused, and what is not expected is passed over.
Refused ==
  /\ toGdb # <<>> /\ errors > 0
  /\ \/ ~ Head(toGdb).good /\ toStub' = Append(toStub, Ack("-"))
     \/ /\ Head(toGdb).good /\ UNCHANGED toStub
        /\ CASE gdb = "idle" -> TRUE
             [] gdb = "taken" -> ~ Gets({"+", "-"})
             [] gdb = "stop" -> ~ Gets({"S"})
             [] gdb = "answer" -> ~ Gets({"value", "OK", "S", "E", ""})
  /\ toGdb' = Tail(toGdb)
  /\ UNCHANGED <<machine, state, mem, spc, debugger, errors, want, told, seen>>

Spoil ==
  /\ errors < MaxErrors /\ errors' = errors + 1
  /\ \/ /\ toStub # <<>> /\ ~ IsAck(Head(toStub))
        /\ toStub' = [toStub EXCEPT ![1].good = FALSE] /\ UNCHANGED toGdb
     \/ /\ toGdb # <<>> /\ ~ IsAck(Head(toGdb))
        /\ toGdb' = [toGdb EXCEPT ![1].good = FALSE] /\ UNCHANGED toStub
  /\ UNCHANGED <<machine, state, mem, spc, debugger, want, told, seen>>

StubNext ==
  \/ \E c \in CPU : Run(c) \/ Trap(c) \/ Enter(c) \/ Leave(c)
  \/ Handle \/ Ask \/ Taken \/ Answered \/ Again \/ Refused \/ Spoil

StubSpec == StubInit /\ [][StubNext]_stub

\* The CPU in the stub goes on, and so does the debugger.
StubFairness == WF_stub(Handle) /\ WF_stub(Taken) /\ WF_stub(Answered)
-----------------------------------------------------------------------------
\* Whatever other CPUs trap meanwhile, a CPU goes on with its own registers as the
\* debugger has changed them, even over a line that spoils packets; on a line that
\* does not, the debugger is shown what it has asked for, of the CPU that has
\* stopped, and a CPU goes on only when it is told to.
CPUsKeepRegisters ==
  /\ \A c \in CPU : pc[c] \in {"run", "trap", "lock"} => regs[c] = want[c]
  /\ spc # "none" => state = want[Owner]
  /\ errors = 0 => seen /\ (spc = "done" => told)

\* On a line without errors every command is answered.
CommandsAnswered == gdb \in {"taken", "answer"} ~> (gdb \in {"idle", "stop"} \/ errors > 0)
=============================================================================
