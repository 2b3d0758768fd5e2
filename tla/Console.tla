------------------------------ MODULE Console ------------------------------
(***************************************************************************)
(* device/console.cc with machine/serial.cc: characters come in over a     *)
(* serial line, one interrupt each; the prologue puts them into a bounded  *)
(* buffer, and the epilogue prints them on kout.  kout is a Stringbuffer,  *)
(* whose put() and flush() a thread may be in at the same time: it has     *)
(* kout_mutex, of which the epilogue does not know.                        *)
(*                                                                         *)
(* produce() and consume() are single steps here; Keyboard has the same    *)
(* buffer, between the same levels, access by access.                      *)
(*                                                                         *)
(* Left out: sending, the escape codes, getpos(), and what becomes of kout *)
(* when one has written behind its buffer.                                 *)
(***************************************************************************)
EXTENDS BBuffer, SequencesExt

CONSTANTS Byte,      \* what may come: CR, FF and other characters
          CR, LF, FF, \* FF is read as -1, which stands for nothing
          Text,      \* what threads print
          Limit      \* places of the Stringbuffer, 80 in the code

\* No byte is taken for none, and the Stringbuffer has a place.
ConsoleAssumption == "nothing" \notin Byte /\ Limit \in Nat \ {0}

VARIABLES
  rbr,       \* the receive register: nothing, or a byte
  listening, \* receive interrupts are on
  line_ppc, line_c,    \* where the prologue is, and its character
  line_due,       \* the epilogue was asked for
  line_buf,       \* the bounded buffer
  line_epc, line_e,    \* where the epilogue is, and its character
  buffer, pos, \* kout: Stringbuffer::buffer and pos
  wpc,       \* where each writer is in put() or flush()
  at,        \* the position it has loaded
  written,   \* auxiliary: what was put into kout and is not on the screen yet
  taken,     \* auxiliary: what the bounded buffer took and kout has not got yet
  clash,     \* auxiliary: both writers were in kout at once
  beyond     \* one has written behind the buffer: the end of the model

receiver == <<rbr, listening>>
line_prologue == <<line_ppc, line_c>>
line_epilogue == <<line_epc, line_e>>
kout == <<buffer, pos, wpc, at, written, clash, beyond>>
console == <<receiver, line_prologue, line_due, line_buf, line_epilogue, kout, taken>>

Writer == {"epilogue", "thread"}
Other(w) == IF w = "thread" THEN "epilogue" ELSE "thread"
Nothing == "nothing"
Blank == [p \in 0 .. Limit - 1 |-> Nothing]

ConsoleInit ==
  /\ rbr = Nothing /\ listening = FALSE
  /\ line_ppc = "none" /\ line_c = Nothing /\ line_due = FALSE /\ line_buf = BBufferInit(Nothing)
  /\ line_epc = "none" /\ line_e = Nothing
  /\ buffer = Blank /\ pos = 0
  /\ wpc = [w \in Writer |-> "none"] /\ at = [w \in Writer |-> 0]
  /\ written = <<>> /\ taken = <<>> /\ clash = FALSE /\ beyond = FALSE

-----------------------------------------------------------------------------
(* The line                                                                *)

\* A byte arrives; one that nobody has read is lost.
Arrive(b) ==
  /\ rbr' = b
  /\ UNCHANGED <<listening, line_prologue, line_due, line_buf, line_epilogue, kout, taken>>

\* listen() switches the interrupt on and drops what has come before.
Listen ==
  /\ ~ listening /\ listening' = TRUE /\ rbr' = Nothing
  /\ UNCHANGED <<line_prologue, line_due, line_buf, line_epilogue, kout, taken>>

-----------------------------------------------------------------------------
(* prologue(), one at a time as the interrupt is acknowledged after it     *)

PrologueRead ==
  /\ listening /\ line_ppc = "none" /\ rbr # Nothing
  /\ rbr' = Nothing
  /\ IF rbr = FF THEN UNCHANGED line_prologue ELSE line_ppc' = "produce" /\ line_c' = rbr
  /\ UNCHANGED <<listening, line_due, line_buf, line_epilogue, kout, taken>>

\* buf.produce(c); the epilogue is asked for although there is no room.
PrologueProduce ==
  /\ line_ppc = "produce" /\ line_ppc' = "relay" /\ line_buf' = Produce(line_buf, line_c)
  /\ taken' = IF HasRoom(line_buf) THEN Append(taken, line_c) ELSE taken
  /\ UNCHANGED <<receiver, line_c, line_due, line_epilogue, kout>>

\* guardian(): one request waits at most, later ones are merged with it.
LinePrologueDone ==
  /\ line_ppc = "relay" /\ line_ppc' = "none" /\ line_c' = Nothing /\ line_due' = TRUE
  /\ UNCHANGED <<receiver, line_buf, line_epilogue, kout, taken>>

-----------------------------------------------------------------------------
(* kout: put() loads pos, stores the character and pos + 1, and flushes    *)
(* when that is the limit; flush() prints up to pos and resets it.  What   *)
(* the buffer holds is followed up to pos, and until two writers meet.     *)

In(w) == wpc[w] # "none"
Step(w, to) == wpc' = [wpc EXCEPT ![w] = to] /\ clash' = (clash \/ In(Other(w)))

PutLoad(w) ==
  /\ ~ In(w) /\ Step(w, "store") /\ at' = [at EXCEPT ![w] = pos]
  /\ UNCHANGED <<buffer, pos, written, beyond>>

\* pos may have been the limit when it was loaded, which another writer was about to
\* reset: the character goes behind the buffer.
PutStore(w, char) ==
  /\ wpc[w] = "store" /\ Step(w, IF at[w] + 1 = Limit THEN "print" ELSE "none")
  /\ beyond' = (at[w] >= Limit)
  /\ pos' = at[w] + 1 /\ at' = [at EXCEPT ![w] = 0]
  /\ IF clash' THEN buffer' = Blank /\ written' = <<>>
     ELSE buffer' = [buffer EXCEPT ![at[w]] = char] /\ written' = Append(written, char)

Flush(w) == ~ In(w) /\ Step(w, "print") /\ UNCHANGED <<buffer, pos, at, written, beyond>>

FlushPrint(w) ==
  /\ wpc[w] = "print" /\ Step(w, "reset")
  /\ written' = SubSeq(written, pos + 1, Len(written))
  /\ UNCHANGED <<buffer, pos, at, beyond>>

FlushReset(w) ==
  /\ wpc[w] = "reset" /\ Step(w, "none") /\ pos' = 0 /\ buffer' = Blank
  /\ UNCHANGED <<at, written, beyond>>

Flushes(w) == FlushPrint(w) \/ FlushReset(w)

-----------------------------------------------------------------------------
(* epilogue(), under the kernel lock                                       *)

LineEpilogueBegins ==
  /\ line_epc = "none" /\ ~ In("epilogue") /\ line_due /\ line_due' = FALSE /\ line_epc' = "consume"
  /\ UNCHANGED <<receiver, line_prologue, line_buf, line_e, kout, taken>>

\* buf.consume(c), and kout << c ...
EpilogueConsume ==
  /\ line_epc = "consume" /\ HasItem(line_buf) /\ PutLoad("epilogue")
  /\ line_e' = First(line_buf) /\ line_buf' = Consume(line_buf) /\ line_epc' = "put"
  /\ UNCHANGED <<receiver, line_prologue, line_due, taken>>

EpiloguePuts(then) ==
  /\ line_epc = "put" /\ PutStore("epilogue", IF line_e = CR THEN LF ELSE line_e) /\ line_epc' = then
  /\ taken' = Tail(taken) /\ line_e' = Nothing
  /\ UNCHANGED <<receiver, line_prologue, line_due, line_buf>>

\* A faulty form of EpiloguePut: an epilogue prints one character.
EpiloguePutOne == EpiloguePuts("flush")

\* ... until there are no more.
EpiloguePut == EpiloguePuts("consume")

EpilogueEmpty ==
  /\ line_epc = "consume" /\ ~ In("epilogue") /\ ~ HasItem(line_buf) /\ line_epc' = "flush"
  /\ UNCHANGED <<receiver, line_prologue, line_due, line_buf, line_e, kout, taken>>

LineEpilogueDone ==
  /\ line_epc = "flush" /\ Flush("epilogue") /\ line_epc' = "none"
  /\ UNCHANGED <<receiver, line_prologue, line_due, line_buf, line_e, taken>>

-----------------------------------------------------------------------------
(* A thread that has kout_mutex                                            *)

ThreadPut ==
  /\ PutLoad("thread")
  /\ UNCHANGED <<receiver, line_prologue, line_due, line_buf, line_epilogue, taken>>

ThreadStore(char) ==
  /\ PutStore("thread", char)
  /\ UNCHANGED <<receiver, line_prologue, line_due, line_buf, line_epilogue, taken>>

ThreadFlush ==
  /\ Flush("thread") /\ pos > 0
  /\ UNCHANGED <<receiver, line_prologue, line_due, line_buf, line_epilogue, taken>>

ConsoleNext ==
  /\ ~ beyond
  /\ \/ Listen \/ \E b \in Byte : Arrive(b)
     \/ PrologueRead \/ PrologueProduce \/ LinePrologueDone
     \/ LineEpilogueBegins \/ EpilogueConsume \/ EpiloguePut \/ EpilogueEmpty \/ LineEpilogueDone
     \/ ThreadPut \/ ThreadFlush \/ \E char \in Text : ThreadStore(char)
     \/ \E w \in Writer :
          Flushes(w) /\ UNCHANGED <<receiver, line_prologue, line_due, line_buf, line_epilogue, taken>>

ConsoleSpec == ConsoleInit /\ [][ConsoleNext]_console
-----------------------------------------------------------------------------
\* Characters that the buffer has taken are printed once and in order, and none
\* stays behind without an epilogue to come; unless two writers meet in it, kout never
\* writes behind its buffer, and it shows what was put into it, in order.
ConsoleInOrder ==
  /\ taken = (IF line_e = Nothing THEN <<>> ELSE <<line_e>>) \o Contents(line_buf)
  /\ HasItem(line_buf) => line_due \/ line_ppc = "relay" \/ line_epc \in {"consume", "put"}
  /\ ~ clash =>
       /\ ~ beyond
       /\ written = IF \E w \in Writer : wpc[w] = "reset" THEN <<>>
                    ELSE [p \in 1 .. pos |-> buffer[p - 1]]
       /\ pos = Limit => \E w \in Writer : In(w)
=============================================================================
