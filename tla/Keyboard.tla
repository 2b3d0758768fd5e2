------------------------------ MODULE Keyboard ------------------------------
(***************************************************************************)
(* device/keyboard.cc, with machine/keyctrl.cc's key_hit(): a key on its   *)
(* way from the controller to the thread that calls getkey().  The         *)
(* prologue takes the keys from the controller into prebuf, without the    *)
(* kernel lock and on whatever CPU got the interrupt; the epilogue moves   *)
(* them into buf and counts each on the semaphore; getkey() waits for the  *)
(* semaphore and takes one.  prebuf is the only place where the two levels *)
(* meet, so its accesses are steps of their own.                           *)
(*                                                                         *)
(* Keys are numbered in the order in which they are typed; 0 is the        *)
(* invalid key.  The epilogue and the sections of the threads exclude each *)
(* other, and each request for an epilogue is followed by one: Guard shows *)
(* both.  Left out: Ctrl-Alt-Del, which resets the machine.                *)
(***************************************************************************)
EXTENDS BBuffer, SequencesExt, FiniteSetsExt

CONSTANTS Reader,    \* the threads that call getkey()
          MaxKeys,   \* bound: keys typed in one behaviour
          MaxCodes,  \* bound: codes the controller holds
          CPUs       \* number of CPUs

KeyboardAssumption ==
  /\ MaxKeys \in Nat
  /\ MaxCodes \in Nat \ {0}
  /\ CPUs \in Nat \ {0}
  /\ IsFiniteSet(Reader)

NoKey == 0
Key == 1 .. MaxKeys

VARIABLES
  codes,     \* codes waiting at the controller; NoKey completes no key
  typed,     \* keys typed so far
  ppc,       \* where the prologue is
  k,         \* the prologue's key
  ret,       \* the prologue's result so far
  due,       \* epilogues asked for that have not begun
  prebuf,    \* Keyboard::prebuf
  epc,       \* where the epilogue is
  e,         \* the epilogue's key
  buf,       \* Keyboard::buf
  counter,   \* counter of Keyboard::sem
  waiting,   \* threads waiting at Keyboard::sem
  woken,     \* threads that v() woke and that have not gone on yet
  got,       \* auxiliary: valid keys returned by getkey()
  invalid,   \* auxiliary: invalid keys returned by getkey()
  lost       \* auxiliary: keys a full buffer refused, by buffer

prologueVars == <<ppc, k, ret>>
epilogueVars == <<epc, e>>
threadVars == <<buf, counter, waiting, woken>>
history == <<got, invalid, lost>>
keyboard == <<codes, typed, prologueVars, due, prebuf, epilogueVars, threadVars, history>>

KeyInit ==
  /\ codes = <<>> /\ typed = 0
  /\ ppc = "none" /\ k = NoKey /\ ret = FALSE
  /\ due = 0
  /\ epc = "none" /\ e = NoKey
  /\ prebuf = BBufferInit(NoKey) /\ buf = BBufferInit(NoKey)
  /\ counter = 0 /\ waiting = <<>> /\ woken = {}
  /\ got = <<>> /\ invalid = 0 /\ lost = [pre |-> {}, main |-> {}]

-----------------------------------------------------------------------------
(* The controller                                                          *)

\* A key is pressed: a code that completes it, perhaps after one that does
\* not (a prefix, a modifier, a mouse byte).
Type ==
  /\ typed < MaxKeys
  /\ \E new \in {<<typed + 1>>, <<NoKey, typed + 1>>} :
       /\ Len(codes) + Len(new) <= MaxCodes
       /\ codes' = codes \o new
  /\ typed' = typed + 1
  /\ UNCHANGED <<prologueVars, due, prebuf, epilogueVars, threadVars, history>>

-----------------------------------------------------------------------------
(* Keyboard::prologue, called by guardian()                                *)

\* The interrupt is level triggered and acknowledged after the prologue: one
\* prologue at a time, as long as there are codes.
KeyInterrupt ==
  /\ ppc = "none" /\ codes # <<>>
  /\ ppc' = "hit" /\ ret' = FALSE
  /\ UNCHANGED <<codes, typed, k, due, prebuf, epilogueVars, threadVars, history>>

\* key_hit() reads a code: the decoder is done with a key, or asks for more.
Hit ==
  /\ ppc = "hit" /\ codes # <<>>
  /\ k' = Head(codes) /\ codes' = Tail(codes)
  /\ ppc' = IF Head(codes) = NoKey THEN "hit" ELSE "produce"
  /\ UNCHANGED <<typed, ret, due, prebuf, epilogueVars, threadVars, history>>

\* A faulty form of PrologueFull: ret = prebuf.produce(k).
PrologueFullForgets ==
  /\ ppc = "produce" /\ ~HasRoom(prebuf)
  /\ lost' = [lost EXCEPT !.pre = @ \cup {k}]
  /\ ppc' = "hit" /\ ret' = FALSE
  /\ UNCHANGED <<codes, typed, k, due, prebuf, epilogueVars, threadVars, got, invalid>>

\* prebuf.produce(k): nextin == out, the key is dropped.
PrologueFull ==
  /\ ppc = "produce" /\ ~HasRoom(prebuf)
  /\ lost' = [lost EXCEPT !.pre = @ \cup {k}]
  /\ ppc' = "hit"
  /\ UNCHANGED <<codes, typed, k, ret, due, prebuf, epilogueVars, threadVars, got, invalid>>

\* prebuf.produce(k): data[in] = val ...
PrologueStore ==
  /\ ppc = "produce" /\ HasRoom(prebuf)
  /\ prebuf' = Store(prebuf, k)
  /\ ppc' = "publish"
  /\ UNCHANGED <<codes, typed, k, ret, due, epilogueVars, threadVars, history>>

\* ... and in = nextin; an epilogue is needed.
ProloguePublish ==
  /\ ppc = "publish"
  /\ prebuf' = Publish(prebuf)
  /\ ret' = TRUE /\ ppc' = "hit"
  /\ UNCHANGED <<codes, typed, k, due, epilogueVars, threadVars, history>>

\* No more codes.  guardian() relays the gate if the prologue asks for it:
\* a further epilogue, or the one that is queued already serves this request.
PrologueDone ==
  /\ ppc = "hit" /\ codes = <<>>
  /\ ppc' = "none" /\ k' = NoKey
  /\ \/ ret /\ due < CPUs /\ due' = due + 1
     \/ (ret => due > 0) /\ due' = due
  /\ UNCHANGED <<codes, typed, ret, prebuf, epilogueVars, threadVars, history>>

-----------------------------------------------------------------------------
(* Keyboard::epilogue, under the kernel lock                               *)

EpilogueBegins ==
  /\ epc = "none" /\ due > 0
  /\ due' = due - 1 /\ epc' = "consume"
  /\ UNCHANGED <<codes, typed, prologueVars, prebuf, e, threadVars, history>>

\* prebuf.consume(k): in == out
EpilogueDone ==
  /\ epc = "consume" /\ ~HasItem(prebuf)
  /\ epc' = "none" /\ e' = NoKey
  /\ UNCHANGED <<codes, typed, prologueVars, due, prebuf, threadVars, history>>

\* prebuf.consume(k): val = data[out] ...
EpilogueLoad ==
  /\ epc = "consume" /\ HasItem(prebuf)
  /\ e' = First(prebuf) /\ epc' = "discard"
  /\ UNCHANGED <<codes, typed, prologueVars, due, prebuf, threadVars, history>>

\* ... and out = (out + 1) % CAP.
EpilogueDiscard ==
  /\ epc = "discard"
  /\ prebuf' = Discard(prebuf) /\ epc' = "move"
  /\ UNCHANGED <<codes, typed, prologueVars, due, e, threadVars, history>>

\* sem.v()
Signal ==
  IF waiting # <<>>
  THEN /\ woken' = woken \cup {Head(waiting)} /\ waiting' = Tail(waiting)
       /\ UNCHANGED counter
  ELSE counter' = counter + 1 /\ UNCHANGED <<waiting, woken>>

\* buf.produce(k), whose result is not looked at; sem.v()
EpilogueMove ==
  /\ epc = "move"
  /\ buf' = Produce(buf, e)
  /\ lost' = IF HasRoom(buf) THEN lost ELSE [lost EXCEPT !.main = @ \cup {e}]
  /\ Signal
  /\ epc' = "consume" /\ e' = NoKey
  /\ UNCHANGED <<codes, typed, prologueVars, due, prebuf, got, invalid>>

-----------------------------------------------------------------------------
(* Guarded_Keyboard::getkey                                                *)

\* buf.consume(k); return k.  The key stays invalid when buf is empty.
ReturnKey ==
  /\ buf' = Consume(buf)
  /\ IF HasItem(buf)
     THEN got' = Append(got, First(buf)) /\ UNCHANGED invalid
     ELSE invalid' = invalid + 1 /\ UNCHANGED got

\* sem.p() finds a unit.
GetkeyTake(r) ==
  /\ epc = "none"
  /\ r \notin woken \cup Range(waiting)
  /\ counter > 0 /\ counter' = counter - 1
  /\ ReturnKey
  /\ UNCHANGED <<codes, typed, prologueVars, due, prebuf, epilogueVars, waiting, woken, lost>>

\* sem.p() blocks.
GetkeyBlock(r) ==
  /\ epc = "none"
  /\ r \notin woken \cup Range(waiting)
  /\ counter = 0
  /\ waiting' = Append(waiting, r)
  /\ UNCHANGED <<codes, typed, prologueVars, due, prebuf, epilogueVars, buf, counter, woken, history>>

\* A faulty form of GetkeyWoken: the thread waits for the semaphore again.
GetkeyWokenAgain(r) ==
  /\ epc = "none"
  /\ r \in woken /\ woken' = woken \ {r}
  /\ UNCHANGED <<codes, typed, prologueVars, due, prebuf, epilogueVars, buf, counter, waiting, history>>

\* ... and goes on after a v() when it is dispatched again.
GetkeyWoken(r) ==
  /\ epc = "none"
  /\ r \in woken /\ woken' = woken \ {r}
  /\ ReturnKey
  /\ UNCHANGED <<codes, typed, prologueVars, due, prebuf, epilogueVars, counter, waiting, lost>>

-----------------------------------------------------------------------------
KeyPrologue == KeyInterrupt \/ Hit \/ PrologueFull \/ PrologueStore \/ ProloguePublish \/ PrologueDone
KeyEpilogue == EpilogueBegins \/ EpilogueDone \/ EpilogueLoad \/ EpilogueDiscard \/ EpilogueMove
Getkey(r) == GetkeyTake(r) \/ GetkeyBlock(r) \/ GetkeyWoken(r)
KeyNext == Type \/ KeyPrologue \/ KeyEpilogue \/ \E r \in Reader : Getkey(r)

KeySpec == KeyInit /\ [][KeyNext]_keyboard

\* A pending interrupt is taken and its handler runs; a requested epilogue
\* begins (Guard!EveryRequestServed) and runs; the application's loop calls
\* getkey() again and again.  Nobody has to type.
FairKeySpec == KeySpec /\ WF_keyboard(KeyPrologue) /\ WF_keyboard(KeyEpilogue)
                 /\ \A r \in Reader : WF_keyboard(Getkey(r))
-----------------------------------------------------------------------------
\* The key that a produce() or consume() in progress holds outside the buffers.
Held == (IF epc = "move" THEN <<e>> ELSE <<>>) \o Contents(prebuf)
        \o (IF ppc \in {"produce", "publish"} THEN <<k>> ELSE <<>>)

\* Every key in the system, in the order in which a thread gets it, and the codes
\* that complete none.
Pipeline == got \o Contents(buf) \o Held \o codes

\* The keys in a sequence rise, so that each is typed after the ones before it.
Rising(q) == \A i, j \in DOMAIN q : i < j /\ NoKey \notin {q[i], q[j]} => q[i] < q[j]
KeysOf(q) == Range(q) \ {NoKey}

KeyTypeOK ==
  /\ codes \in SeqOf({NoKey} \cup Key, MaxCodes) /\ typed \in 0 .. MaxKeys
  /\ ppc \in {"none", "hit", "produce", "publish"}
  /\ k \in {NoKey} \cup Key /\ ret \in BOOLEAN
  /\ due \in 0 .. CPUs
  /\ epc \in {"none", "consume", "discard", "move"} /\ e \in {NoKey} \cup Key
  /\ {prebuf, buf} \subseteq Buffers({NoKey} \cup Key)
  /\ counter \in 0 .. MaxKeys /\ waiting \in SeqOf(Reader, Cardinality(Reader))
  /\ woken \subseteq Reader /\ IsInjective(waiting) /\ woken \cap Range(waiting) = {}
  /\ got \in SeqOf(Key, MaxKeys) /\ invalid \in 0 .. MaxKeys
  /\ lost.pre \cup lost.main \subseteq Key

\* From the controller through both buffers to getkey(), no key overtakes
\* another, none comes twice, and none disappears but those that a full
\* buffer refused: prologue and epilogue need no lock for prebuf
\* (keyboard.cc:31 and :41, bbuffer.h:40-62).  The semaphore is worth one unit per
\* key in buf, and one for each key that a full buf refused and that some getkey()
\* is still to return as an invalid key (keyboard.cc:42-43, :48-51).
KeysInOrder ==
  /\ KeyTypeOK
  /\ Rising(Pipeline) /\ KeysOf(Pipeline) = (1 .. typed) \ (lost.pre \cup lost.main)
  /\ counter + Cardinality(woken) = Size(buf) + Cardinality(lost.main) - invalid

\* A key that is typed gets to a thread, unless a full buffer refuses it: no
\* request for an epilogue may be forgotten while prebuf holds keys, even if
\* nothing is typed afterwards.
EveryKeyRead == \A i \in Key : i <= typed ~> i \in Range(got) \cup lost.pre \cup lost.main
=============================================================================
