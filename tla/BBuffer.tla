------------------------------ MODULE BBuffer ------------------------------
(***************************************************************************)
(* object/bbuffer.h: the bounded buffer BBuffer<T, CAP>, a ring of CAP     *)
(* places with two indices, of which one place always stays empty.  A      *)
(* buffer is a record of its members; the operators stand for the accesses *)
(* of produce() and consume(), so that a user may interleave them.         *)
(***************************************************************************)
EXTENDS Integers, Sequences

CONSTANT CAP   \* the template parameter

BBufferAssumption == CAP \in Nat \ {0}

Index == 0 .. CAP - 1
Buffers(T) == [in : Index, out : Index, data : [Index -> T]]

BBufferInit(v) == [in |-> 0, out |-> 0, data |-> [i \in Index |-> v]]

Succ(i) == (i + 1) % CAP

\* produce(): nextin != out, the store into data and the store into in
HasRoom(b) == Succ(b.in) # b.out
Store(b, val) == [b EXCEPT !.data[b.in] = val]
Publish(b) == [b EXCEPT !.in = Succ(b.in)]

\* consume(): in != out, the load from data and the store into out
HasItem(b) == b.in # b.out
First(b) == b.data[b.out]
Discard(b) == [b EXCEPT !.out = Succ(b.out)]

\* The calls as a whole.
Produce(b, val) == IF HasRoom(b) THEN Publish(Store(b, val)) ELSE b
Consume(b) == IF HasItem(b) THEN Discard(b) ELSE b

\* What a buffer holds, oldest first.
Size(b) == (b.in + CAP - b.out) % CAP
Contents(b) == [i \in 1 .. Size(b) |-> b.data[(b.out + i - 1) % CAP]]
=============================================================================
