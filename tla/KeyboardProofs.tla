--------------------------- MODULE KeyboardProofs ---------------------------
(***************************************************************************)
(* Proofs about what comes in from outside.  The keyboard driver, for any  *)
(* capacity of its buffers, any readers, and any number of keys: prologue  *)
(* and epilogue share prebuf without a lock, and yet no key is lost on the *)
(* way but where a buffer is full, none comes twice, and none overtakes    *)
(* another; and the semaphore counts what getkey() is still to return.     *)
(* The console, whose prologue and epilogue share a buffer of the same     *)
(* kind.  The GDB stub, for any CPUs, any values, and any number of        *)
(* commands and of errors on the line: the lock keeps the registers of the *)
(* CPUs apart; and as long as no packet has been spoiled, stub and         *)
(* debugger are at the same place of their dialogue, which Dialogue lists. *)
(***************************************************************************)
EXTENDS Keyboard, Console, Stub, ListProofs


-----------------------------------------------------------------------------
(* The ring                                                                *)

\* Indices go around.
LEMMA Around ==
  ASSUME BBufferAssumption, NEW x \in 0 .. 2 * CAP - 1
  PROVE  x % CAP = IF x < CAP THEN x ELSE x - CAP
<1>1. CAP \in Nat \ {0}
  BY DEF BBufferAssumption
<1>2. CASE x < CAP
  BY <1>1, <1>2
<1>3. CASE x >= CAP
  BY <1>1, <1>3
<1>. QED  BY <1>1, <1>2, <1>3

LEMMA Indices ==
  ASSUME BBufferAssumption, NEW i \in 0 .. CAP - 1, NEW o \in 0 .. CAP - 1
  PROVE  /\ CAP \in Nat \ {0}
         /\ (i + CAP - o) % CAP = IF o <= i THEN i - o ELSE i + CAP - o
         /\ Succ(i) = IF i = CAP - 1 THEN 0 ELSE i + 1
         /\ \A n \in 1 .. CAP :
              (o + n - 1) % CAP = IF o + n - 1 < CAP THEN o + n - 1 ELSE o + n - 1 - CAP
<1>1. CAP \in Nat \ {0}
  BY DEF BBufferAssumption
<1>2. (i + CAP - o) % CAP = IF o <= i THEN i - o ELSE i + CAP - o
  <2>. DEFINE x == i + CAP - o
  <2>1. x \in 0 .. 2 * CAP - 1
    BY <1>1
  <2>. HIDE DEF x
  <2>2. x % CAP = IF x < CAP THEN x ELSE x - CAP
    BY <2>1, Around
  <2>. QED  BY <1>1, <2>2 DEF x
<1>3. Succ(i) = IF i = CAP - 1 THEN 0 ELSE i + 1
  BY <1>1 DEF Succ
<1>4. ASSUME NEW n \in 1 .. CAP
      PROVE  (o + n - 1) % CAP = IF o + n - 1 < CAP THEN o + n - 1 ELSE o + n - 1 - CAP
  <2>. DEFINE x == o + n - 1
  <2>1. x \in 0 .. 2 * CAP - 1
    BY <1>1
  <2>. HIDE DEF x
  <2>2. x % CAP = IF x < CAP THEN x ELSE x - CAP
    BY <2>1, Around
  <2>. QED  BY <1>1, <2>2 DEF x
<1>. QED  BY <1>1, <1>2, <1>3, <1>4

LEMMA RingIs ==
  ASSUME BBufferAssumption, NEW T, NEW b \in Buffers(T), NEW i, i = b.in, NEW o, o = b.out
  PROVE  /\ i \in 0 .. CAP - 1 /\ o \in 0 .. CAP - 1 /\ b.data \in [0 .. CAP - 1 -> T]
         /\ CAP \in Nat \ {0}
         /\ Size(b) = IF o <= i THEN i - o ELSE i + CAP - o
         /\ Size(b) \in 0 .. CAP - 1
         /\ HasItem(b) <=> Size(b) # 0
         /\ HasRoom(b) <=> Size(b) # CAP - 1
         /\ Succ(i) = IF i = CAP - 1 THEN 0 ELSE i + 1
         /\ Succ(o) = IF o = CAP - 1 THEN 0 ELSE o + 1
<1>1. /\ i \in 0 .. CAP - 1 /\ o \in 0 .. CAP - 1 /\ b.data \in [0 .. CAP - 1 -> T]
  BY DEF Buffers, Index
<1>2. /\ CAP \in Nat \ {0}
      /\ (i + CAP - o) % CAP = IF o <= i THEN i - o ELSE i + CAP - o
      /\ Succ(i) = IF i = CAP - 1 THEN 0 ELSE i + 1
      /\ Succ(o) = IF o = CAP - 1 THEN 0 ELSE o + 1
  BY <1>1, Indices
<1>3. Size(b) = IF o <= i THEN i - o ELSE i + CAP - o
  BY <1>2 DEF Size
<1>4. Size(b) \in 0 .. CAP - 1
  <2>1. \A n \in Nat : \A x, y \in 0 .. n - 1 :
          (IF y <= x THEN x - y ELSE x + n - y) \in 0 .. n - 1
    OBVIOUS
  <2>2. (IF o <= i THEN i - o ELSE i + CAP - o) \in 0 .. CAP - 1
    <3>1. CAP \in Nat
      BY <1>2
    <3>. QED  BY <1>1, <2>1, <3>1
  <2>. QED  BY <1>3, <2>2
<1>5. HasItem(b) <=> Size(b) # 0
  BY <1>1, <1>2, <1>3 DEF HasItem
<1>6. HasRoom(b) <=> Size(b) # CAP - 1
  <2>1. HasRoom(b) <=> Succ(i) # o
    BY DEF HasRoom
  <2>2. CASE i = CAP - 1
    BY <1>1, <1>2, <1>3, <2>1, <2>2
  <2>3. CASE i # CAP - 1 /\ o <= i
    BY <1>1, <1>2, <1>3, <2>1, <2>3
  <2>4. CASE i # CAP - 1 /\ ~ o <= i
    <3>1. Size(b) = i + CAP - o /\ Succ(i) = i + 1
      BY <1>1, <1>2, <1>3, <2>4
    <3>2. i \in Int /\ o \in Int /\ CAP \in Int
      <4>1. \A n \in Nat : \A x \in 0 .. n - 1 : x \in Int
        OBVIOUS
      <4>2. CAP \in Nat
        BY <1>2
      <4>. QED  BY <1>1, <4>1, <4>2
    <3>. QED  BY ONLY <2>1, <3>1, <3>2
  <2>. QED  BY <2>2, <2>3, <2>4
<1>. QED  BY <1>1, <1>2, <1>3, <1>4, <1>5, <1>6

LEMMA ContentsIs ==
  ASSUME BBufferAssumption, NEW T, NEW b \in Buffers(T), NEW o, o = b.out
  PROVE  /\ Contents(b) \in Seq(T) /\ Len(Contents(b)) = Size(b)
         /\ \A n \in 1 .. Size(b) : Contents(b)[n] =
              b.data[IF o + n - 1 < CAP THEN o + n - 1 ELSE o + n - 1 - CAP]
<1>1. Size(b) \in 0 .. CAP - 1 /\ CAP \in Nat \ {0} /\ o \in 0 .. CAP - 1 /\ b.data \in [0 .. CAP - 1 -> T]
  BY RingIs
<1>2. ASSUME NEW n \in 1 .. Size(b)
      PROVE  /\ (o + n - 1) % CAP = IF o + n - 1 < CAP THEN o + n - 1 ELSE o + n - 1 - CAP
             /\ (o + n - 1) % CAP \in 0 .. CAP - 1
  <2>1. n \in 1 .. CAP
    BY <1>1
  <2>2. (o + n - 1) % CAP = IF o + n - 1 < CAP THEN o + n - 1 ELSE o + n - 1 - CAP
    BY <1>1, <2>1, Indices
  <2>3. CAP \in Nat /\ o \in Nat /\ o < CAP /\ n \in Nat /\ n >= 1 /\ n <= CAP
    BY ONLY <1>1, <2>1
  <2>4. (IF o + n - 1 < CAP THEN o + n - 1 ELSE o + n - 1 - CAP) \in 0 .. CAP - 1
    BY ONLY <2>3
  <2>. QED  BY ONLY <2>2, <2>4
<1>3. \A n \in 1 .. Size(b) : Contents(b)[n] = b.data[(o + n - 1) % CAP]
  BY DEF Contents
<1>4. Contents(b) \in [1 .. Size(b) -> T]
  BY <1>1, <1>2 DEF Contents
<1>5. Contents(b) \in Seq(T) /\ Len(Contents(b)) = Size(b)
  BY <1>1, <1>4
<1>. QED  BY <1>2, <1>3, <1>5

\* The store into data[in] is not seen until in has moved.
LEMMA StoreIs ==
  ASSUME BBufferAssumption, NEW T, NEW b \in Buffers(T), NEW v \in T
  PROVE  /\ Store(b, v) \in Buffers(T) /\ Size(Store(b, v)) = Size(b)
         /\ Contents(Store(b, v)) = Contents(b)
         /\ Store(b, v).data[Store(b, v).in] = v
         /\ HasItem(b) => First(Store(b, v)) = First(b)
<1>. PICK r, i, o, n : r = Store(b, v) /\ i = b.in /\ o = b.out /\ n = Size(b)
  OBVIOUS
<1>1. r.in = i /\ r.out = o /\ r.data = [b.data EXCEPT ![i] = v] /\ r \in Buffers(T)
  BY DEF Store, Buffers, Index
<1>2. Size(r) = n
  BY <1>1 DEF Size
<1>3. /\ i \in 0 .. CAP - 1 /\ o \in 0 .. CAP - 1 /\ b.data \in [0 .. CAP - 1 -> T]
      /\ CAP \in Nat \ {0} /\ n = IF o <= i THEN i - o ELSE i + CAP - o
      /\ HasItem(b) <=> n # 0
  BY RingIs
<1>4. ASSUME NEW m \in 1 .. n PROVE Contents(r)[m] = Contents(b)[m]
  <2>. DEFINE p == IF o + m - 1 < CAP THEN o + m - 1 ELSE o + m - 1 - CAP
  <2>1. p \in 0 .. CAP - 1 /\ p # i
    <3>1. CASE o <= i
      BY <1>3, <3>1
    <3>2. CASE ~ o <= i
      BY <1>3, <3>2
    <3>. QED  BY <3>1, <3>2
  <2>2. Contents(b)[m] = b.data[p]
    BY ContentsIs
  <2>3. Contents(r)[m] = r.data[p]
    <3>1. r \in Buffers(T) /\ o = r.out /\ m \in 1 .. Size(r)
      BY <1>1, <1>2
    <3>. HIDE DEF p
    <3>2. \A x \in 1 .. Size(r) : Contents(r)[x] =
            r.data[IF o + x - 1 < CAP THEN o + x - 1 ELSE o + x - 1 - CAP]
      BY <3>1, ContentsIs
    <3>. QED  BY <3>1, <3>2 DEF p
  <2>. HIDE DEF p
  <2>. QED  BY <1>1, <1>3, <2>1, <2>2, <2>3
<1>5. Contents(r) = Contents(b)
  BY <1>1, <1>2, <1>4, ContentsIs, SeqEqual
<1>6. HasItem(b) => First(r) = First(b)
  BY <1>1, <1>3 DEF First
<1>. QED  BY <1>1, <1>2, <1>3, <1>5, <1>6

\* Then the item stored there is the newest one.
LEMMA PublishIs ==
  ASSUME BBufferAssumption, NEW T, NEW b \in Buffers(T), HasRoom(b)
  PROVE  /\ Publish(b) \in Buffers(T) /\ Size(Publish(b)) = Size(b) + 1
         /\ Contents(Publish(b)) = Append(Contents(b), b.data[b.in])
         /\ First(Publish(b)) = First(b) /\ HasItem(Publish(b))
<1>. PICK r, i, o, n : r = Publish(b) /\ i = b.in /\ o = b.out /\ n = Size(b)
  OBVIOUS
<1>1. /\ i \in 0 .. CAP - 1 /\ o \in 0 .. CAP - 1 /\ b.data \in [0 .. CAP - 1 -> T]
      /\ CAP \in Nat \ {0} /\ n = (IF o <= i THEN i - o ELSE i + CAP - o) /\ n \in 0 .. CAP - 2
      /\ Succ(i) = IF i = CAP - 1 THEN 0 ELSE i + 1
  BY RingIs
<1>2. r.in = Succ(i) /\ r.out = o /\ r.data = b.data /\ r \in Buffers(T)
  <2>1. Succ(i) \in 0 .. CAP - 1
    BY <1>1
  <2>. QED  BY <2>1 DEF Publish, Buffers, Index
<1>3. Size(r) = n + 1
  <2>1. Size(r) = IF o <= Succ(i) THEN Succ(i) - o ELSE Succ(i) + CAP - o
    BY <1>2, RingIs
  <2>2. CASE i = CAP - 1
    BY <1>1, <2>1, <2>2
  <2>3. CASE i # CAP - 1 /\ o <= i
    BY <1>1, <2>1, <2>3
  <2>4. CASE i # CAP - 1 /\ ~ o <= i
    BY <1>1, <2>1, <2>4
  <2>. QED  BY <2>2, <2>3, <2>4
<1>4. Contents(b) \in Seq(T) /\ Len(Contents(b)) = n /\ b.data[i] \in T
  BY <1>1, ContentsIs
<1>. PICK c : c = Contents(b)
  OBVIOUS
<1>5. /\ Append(c, b.data[i]) \in Seq(T) /\ Len(Append(c, b.data[i])) = n + 1
      /\ \A m \in 1 .. n + 1 : Append(c, b.data[i])[m] = IF m = n + 1 THEN b.data[i] ELSE c[m]
  <2>. PICK d : d = b.data[i]
    OBVIOUS
  <2>1. n \in Nat /\ d \in T /\ c \in Seq(T) /\ Len(c) = n
    BY <1>1, <1>4
  <2>2. /\ Append(c, d) \in Seq(T) /\ Len(Append(c, d)) = n + 1
        /\ \A m \in 1 .. n + 1 : Append(c, d)[m] = IF m = n + 1 THEN d ELSE c[m]
    BY ONLY <2>1
  <2>. QED  BY ONLY <2>2, d = b.data[i]
<1>6. ASSUME NEW m \in 1 .. n + 1 PROVE Contents(r)[m] = Append(c, b.data[i])[m]
  <2>. DEFINE p == IF o + m - 1 < CAP THEN o + m - 1 ELSE o + m - 1 - CAP
  <2>1. Contents(r)[m] = b.data[p] /\ (m \in 1 .. n => c[m] = b.data[p])
    BY <1>2, <1>3, ContentsIs
  <2>2. ASSUME m = n + 1 PROVE p = i
    <3>1. CASE o <= i
      BY <1>1, <2>2, <3>1
    <3>2. CASE ~ o <= i
      <4>1. n = i + CAP - o /\ n \in Nat /\ i \in Int /\ o \in Int /\ CAP \in Int /\ i >= 0
        BY <1>1, <3>2
      <4>2. o + m - 1 = i + CAP
        BY ONLY <2>2, <4>1
      <4>. QED  BY ONLY <4>1, <4>2 DEF p
    <3>. QED  BY <3>1, <3>2
  <2>. HIDE DEF p
  <2>3. CASE m = n + 1
    BY ONLY <1>5, <2>1, <2>2, <2>3, m \in 1 .. n + 1
  <2>4. CASE m # n + 1
    <3>1. n \in Nat
      BY <1>1
    <3>2. m \in 1 .. n
      BY ONLY <2>4, <3>1, m \in 1 .. n + 1
    <3>. QED  BY ONLY <1>5, <2>1, <2>4, <3>2, m \in 1 .. n + 1
  <2>. QED  BY ONLY <2>3, <2>4
<1>7. Contents(r) = Append(c, b.data[i])
  BY <1>2, <1>3, <1>5, <1>6, ContentsIs, SeqEqual
<1>8. HasItem(r)
  BY <1>1, <1>2, <1>3, RingIs
<1>. QED  BY <1>2, <1>3, <1>7, <1>8 DEF First

\* What consume() takes is the oldest.
LEMMA DiscardIs ==
  ASSUME BBufferAssumption, NEW T, NEW b \in Buffers(T), HasItem(b)
  PROVE  /\ Discard(b) \in Buffers(T) /\ Size(Discard(b)) = Size(b) - 1
         /\ Contents(b) # <<>> /\ Head(Contents(b)) = First(b)
         /\ Contents(Discard(b)) = Tail(Contents(b))
         /\ Discard(b).data = b.data /\ Discard(b).in = b.in /\ HasRoom(Discard(b))
<1>. PICK r, i, o, n : r = Discard(b) /\ i = b.in /\ o = b.out /\ n = Size(b)
  OBVIOUS
<1>1. /\ i \in 0 .. CAP - 1 /\ o \in 0 .. CAP - 1 /\ b.data \in [0 .. CAP - 1 -> T]
      /\ CAP \in Nat \ {0} /\ n = (IF o <= i THEN i - o ELSE i + CAP - o) /\ n \in 1 .. CAP - 1
      /\ Succ(o) = IF o = CAP - 1 THEN 0 ELSE o + 1
  BY RingIs
<1>2. r.out = Succ(o) /\ r.in = i /\ r.data = b.data /\ r \in Buffers(T)
  <2>1. Succ(o) \in 0 .. CAP - 1
    BY <1>1
  <2>. QED  BY <2>1 DEF Discard, Buffers, Index
<1>3. Size(r) = n - 1
  <2>1. Size(r) = IF Succ(o) <= i THEN i - Succ(o) ELSE i + CAP - Succ(o)
    BY <1>2, RingIs
  <2>2. CASE o = CAP - 1
    BY <1>1, <2>1, <2>2
  <2>3. CASE o # CAP - 1 /\ o <= i
    <3>1. Succ(o) = o + 1 /\ n = i - o /\ o + 1 <= i
      BY <1>1, <2>3
    <3>2. Size(r) = i - (o + 1)
      BY <2>1, <3>1
    <3>. QED  BY <1>1, <3>1, <3>2
  <2>4. CASE o # CAP - 1 /\ ~ o <= i
    <3>1. Succ(o) = o + 1 /\ n = i + CAP - o /\ ~ o + 1 <= i
      BY <1>1, <2>4
    <3>2. Size(r) = i + CAP - (o + 1)
      BY <2>1, <3>1
    <3>. QED  BY <1>1, <3>1, <3>2
  <2>. QED  BY <2>2, <2>3, <2>4
<1>. PICK c : c = Contents(b)
  OBVIOUS
<1>4. /\ c \in Seq(T) /\ Len(c) = n
      /\ \A m \in 1 .. n : c[m] = b.data[IF o + m - 1 < CAP THEN o + m - 1 ELSE o + m - 1 - CAP]
  BY ContentsIs
<1>5. c # <<>> /\ Head(c) = First(b)
  <2>1. c # <<>> /\ Head(c) = c[1]
    BY <1>1, <1>4
  <2>2. c[1] = b.data[o]
    <3>. PICK j : j = 1
      OBVIOUS
    <3>1. j \in 1 .. n /\ o + j - 1 = o /\ o < CAP
      BY <1>1
    <3>2. c[j] = b.data[o]
      BY ONLY <1>4, <3>1
    <3>. QED  BY ONLY <3>2, j = 1
  <2>. QED  BY <2>1, <2>2 DEF First
<1>6. Tail(c) \in Seq(T) /\ Len(Tail(c)) = n - 1 /\ \A m \in 1 .. n - 1 : Tail(c)[m] = c[m + 1]
  BY <1>1, <1>4, <1>5
<1>7. ASSUME NEW m \in 1 .. n - 1 PROVE Contents(r)[m] = Tail(c)[m]
  <2>. DEFINE p == IF o + (m + 1) - 1 < CAP THEN o + (m + 1) - 1 ELSE o + (m + 1) - 1 - CAP
              s == IF Succ(o) + m - 1 < CAP THEN Succ(o) + m - 1 ELSE Succ(o) + m - 1 - CAP
  <2>1. Contents(r)[m] = b.data[s]
    BY <1>2, <1>3, ContentsIs
  <2>2. m + 1 \in 1 .. n /\ Tail(c)[m] = c[m + 1]
    BY <1>1, <1>6
  <2>3. Tail(c)[m] = b.data[p]
    BY <1>4, <2>2
  <2>4. p = s
    BY <1>1
  <2>. HIDE DEF p, s
  <2>. QED  BY <2>1, <2>3, <2>4
<1>8. Contents(r) = Tail(c)
  BY <1>2, <1>3, <1>6, <1>7, ContentsIs, SeqEqual
<1>9. HasRoom(r)
  BY <1>1, <1>2, <1>3, RingIs
<1>. QED  BY <1>2, <1>3, <1>5, <1>8, <1>9

-----------------------------------------------------------------------------
(* Keys that rise                                                          *)

Below(S, T) == \A x \in S, y \in T : x < y

LEMMA InKeysOf ==
  ASSUME NEW q \in Seq(Nat)
  PROVE  \A x : x \in KeysOf(q) <=> x # NoKey /\ \E i \in 1 .. Len(q) : q[i] = x
  BY DEF KeysOf, Range

LEMMA RisingIs ==
  ASSUME NEW q \in Seq(Nat)
  PROVE  Rising(q) <=> \A i, j \in 1 .. Len(q) : i < j /\ q[i] # NoKey /\ q[j] # NoKey => q[i] < q[j]
  BY DEF Rising

LEMMA RisingConcat ==
  ASSUME NEW q \in Seq(Nat), NEW r \in Seq(Nat)
  PROVE  /\ KeysOf(q \o r) = KeysOf(q) \cup KeysOf(r)
         /\ Rising(q \o r) <=> Rising(q) /\ Rising(r) /\ Below(KeysOf(q), KeysOf(r))
<1>. PICK s : s = q \o r
  OBVIOUS
<1>1. /\ Len(q) \in Nat /\ Len(r) \in Nat /\ s \in Seq(Nat) /\ Len(s) = Len(q) + Len(r)
      /\ \A i \in 1 .. Len(q) : q[i] \in Nat
      /\ \A i \in 1 .. Len(r) : r[i] \in Nat
      /\ \A i \in 1 .. Len(q) + Len(r) : s[i] = IF i <= Len(q) THEN q[i] ELSE r[i - Len(q)]
  BY ConcatProperties
<1>2. /\ \A i \in 1 .. Len(q) : i \in 1 .. Len(s) /\ s[i] = q[i]
      /\ \A i \in 1 .. Len(r) : i + Len(q) \in 1 .. Len(s) /\ s[i + Len(q)] = r[i]
      /\ \A i \in 1 .. Len(s) :
           i \in 1 .. Len(q) \/ (i - Len(q) \in 1 .. Len(r) /\ s[i] = r[i - Len(q)])
  BY <1>1
<1>3. KeysOf(s) = KeysOf(q) \cup KeysOf(r)
  <2>1. ASSUME NEW x \in KeysOf(s) PROVE x \in KeysOf(q) \cup KeysOf(r)
    <3>1. PICK i \in 1 .. Len(s) : s[i] = x /\ x # NoKey
      BY <1>1, <2>1, InKeysOf
    <3>. QED  BY <1>2, <3>1, InKeysOf
  <2>2. ASSUME NEW x \in KeysOf(q) PROVE x \in KeysOf(s)
    <3>1. PICK i \in 1 .. Len(q) : q[i] = x /\ x # NoKey
      BY <2>2, InKeysOf
    <3>. QED  BY <1>1, <1>2, <3>1, InKeysOf
  <2>3. ASSUME NEW x \in KeysOf(r) PROVE x \in KeysOf(s)
    <3>1. PICK i \in 1 .. Len(r) : r[i] = x /\ x # NoKey
      BY <2>3, InKeysOf
    <3>. QED  BY <1>1, <1>2, <3>1, InKeysOf
  <2>. QED  BY <2>1, <2>2, <2>3
<1>4. ASSUME Rising(s) PROVE Rising(q) /\ Rising(r) /\ Below(KeysOf(q), KeysOf(r))
  <2>0. \A i, j \in 1 .. Len(s) : i < j /\ s[i] # NoKey /\ s[j] # NoKey => s[i] < s[j]
    BY <1>1, <1>4, RisingIs
  <2>1. Rising(q)
    BY <1>2, <2>0, RisingIs
  <2>2. Rising(r)
    <3>. SUFFICES ASSUME NEW i \in 1 .. Len(r), NEW j \in 1 .. Len(r), i < j, r[i] # NoKey, r[j] # NoKey
                  PROVE  r[i] < r[j]
      BY RisingIs
    <3>1. i + Len(q) \in 1 .. Len(s) /\ j + Len(q) \in 1 .. Len(s) /\ i + Len(q) < j + Len(q)
      BY <1>1, <1>2
    <3>. QED  BY <1>2, <2>0, <3>1
  <2>3. ASSUME NEW x \in KeysOf(q), NEW y \in KeysOf(r) PROVE x < y
    <3>1. PICK i \in 1 .. Len(q), j \in 1 .. Len(r) : q[i] = x /\ r[j] = y /\ x # NoKey /\ y # NoKey
      BY InKeysOf
    <3>2. i \in 1 .. Len(s) /\ j + Len(q) \in 1 .. Len(s) /\ i < j + Len(q)
      BY <1>1, <1>2
    <3>. QED  BY <1>2, <2>0, <3>1, <3>2
  <2>. QED  BY <2>1, <2>2, <2>3 DEF Below
<1>5. ASSUME Rising(q), Rising(r), Below(KeysOf(q), KeysOf(r)) PROVE Rising(s)
  <2>. SUFFICES ASSUME NEW i \in 1 .. Len(s), NEW j \in 1 .. Len(s), i < j, s[i] # NoKey, s[j] # NoKey
                PROVE  s[i] < s[j]
    BY <1>1, RisingIs
  <2>1. CASE j \in 1 .. Len(q)
    <3>1. i \in 1 .. Len(q)
      BY <1>1, <2>1
    <3>. QED  BY <1>2, <1>5, <2>1, <3>1, RisingIs
  <2>2. CASE i \in 1 .. Len(q) /\ j \notin 1 .. Len(q)
    <3>1. s[i] \in KeysOf(q) /\ s[j] \in KeysOf(r)
      BY <1>2, <2>2, InKeysOf
    <3>. QED  BY <1>5, <3>1 DEF Below
  <2>3. CASE i \notin 1 .. Len(q) /\ j \notin 1 .. Len(q)
    <3>1. /\ i - Len(q) \in 1 .. Len(r) /\ s[i] = r[i - Len(q)]
          /\ j - Len(q) \in 1 .. Len(r) /\ s[j] = r[j - Len(q)] /\ i - Len(q) < j - Len(q)
      BY <1>1, <1>2, <2>3
    <3>2. \A m, n \in 1 .. Len(r) : m < n /\ r[m] # NoKey /\ r[n] # NoKey => r[m] < r[n]
      BY <1>5, RisingIs
    <3>. QED  BY <3>1, <3>2
  <2>4. i \in 1 .. Len(q) \/ j \notin 1 .. Len(q)
    BY <1>1
  <2>. QED  BY <2>1, <2>2, <2>3
<1>. QED  BY <1>3, <1>4, <1>5

LEMMA RisingOne ==
  ASSUME NEW a \in Nat
  PROVE  /\ <<>> \in Seq(Nat) /\ Rising(<<>>) /\ KeysOf(<<>>) = {}
         /\ <<a>> \in Seq(Nat) /\ Rising(<<a>>) /\ KeysOf(<<a>>) = {a} \ {NoKey}
<1>1. <<>> \in Seq(Nat) /\ Len(<<>>) = 0
  OBVIOUS
<1>. PICK q : q = <<a>>
  OBVIOUS
<1>2. q \in Seq(Nat) /\ Len(q) = 1 /\ q[1] = a
  OBVIOUS
<1>3. Rising(<<>>) /\ KeysOf(<<>>) = {}
  BY DEF Rising, KeysOf, Range
<1>4. \A i \in 1 .. 1 : i = 1
  OBVIOUS
<1>5. Rising(q)
  <2>1. \A i, j \in 1 .. Len(q) : ~ i < j
    BY <1>2
  <2>. QED  BY <1>2, <2>1, RisingIs
<1>6. KeysOf(q) = {a} \ {NoKey}
  <2>1. \A x : x \in KeysOf(q) <=> x # NoKey /\ \E i \in 1 .. 1 : q[i] = x
    BY <1>2, InKeysOf
  <2>2. 1 \in 1 .. 1
    OBVIOUS
  <2>. QED  BY <1>2, <1>4, <2>1, <2>2
<1>. QED  BY <1>1, <1>2, <1>3, <1>5, <1>6

\* The key that enters a sequence, and the one that leaves it.
LEMMA RisingAppend ==
  ASSUME NEW q \in Seq(Nat), NEW a \in Nat
  PROVE  /\ Append(q, a) \in Seq(Nat) /\ KeysOf(Append(q, a)) = KeysOf(q) \cup ({a} \ {NoKey})
         /\ Rising(Append(q, a)) <=> Rising(q) /\ Below(KeysOf(q), {a} \ {NoKey})
<1>. PICK r : r = <<a>>
  OBVIOUS
<1>1. Append(q, a) = q \o r /\ Append(q, a) \in Seq(Nat)
  BY AppendIsConcat, AppendProperties
<1>2. r \in Seq(Nat) /\ Rising(r) /\ KeysOf(r) = {a} \ {NoKey}
  BY RisingOne
<1>3. /\ KeysOf(q \o r) = KeysOf(q) \cup KeysOf(r)
      /\ Rising(q \o r) <=> Rising(q) /\ Rising(r) /\ Below(KeysOf(q), KeysOf(r))
  BY <1>2, RisingConcat
<1>. QED  BY <1>1, <1>2, <1>3

LEMMA RisingTail ==
  ASSUME NEW q \in Seq(Nat), q # <<>>
  PROVE  /\ Tail(q) \in Seq(Nat) /\ Head(q) \in Nat
         /\ KeysOf(q) = ({Head(q)} \ {NoKey}) \cup KeysOf(Tail(q))
         /\ Rising(q) <=> Rising(Tail(q)) /\ Below({Head(q)} \ {NoKey}, KeysOf(Tail(q)))
<1>1. Tail(q) \in Seq(Nat) /\ Head(q) \in Nat
  OBVIOUS
<1>. PICK h, r, s : h = Head(q) /\ r = Tail(q) /\ s = <<h>>
  OBVIOUS
<1>2. h \in Nat /\ r \in Seq(Nat) /\ s \in Seq(Nat) /\ Rising(s) /\ KeysOf(s) = {h} \ {NoKey}
  BY <1>1, RisingOne
<1>3. q = s \o r
  <2>1. Len(q) \in Nat /\ 1 \in 1 .. Len(q) /\ h = q[1] /\ r = SubSeq(q, 2, Len(q))
    BY TailIsSubSeq
  <2>2. SubSeq(q, 1, Len(q)) = <<q[1]>> \o SubSeq(q, 1 + 1, Len(q))
    BY <2>1, SubSeqRecursiveFirst
  <2>. QED  BY <2>1, <2>2, SubSeqFull
<1>4. /\ KeysOf(s \o r) = KeysOf(s) \cup KeysOf(r)
      /\ Rising(s \o r) <=> Rising(s) /\ Rising(r) /\ Below(KeysOf(s), KeysOf(r))
  BY <1>2, RisingConcat
<1>. QED  BY <1>2, <1>3, <1>4

\* A sequence of keys that rise has as many keys as places.
LEMMA RisingCounts ==
  ASSUME NEW S \in SUBSET (Nat \ {0}), NEW q \in Seq(S), Rising(q)
  PROVE  /\ IsFiniteSet(KeysOf(q)) /\ Cardinality(KeysOf(q)) = Len(q) /\ KeysOf(q) \subseteq S
<1>1. q \in Seq(Nat) /\ Len(q) \in Nat /\ \A i \in 1 .. Len(q) : q[i] \in S /\ q[i] \in Nat \ {0}
  <2>1. Len(q) \in Nat /\ q \in [1 .. Len(q) -> S]
    OBVIOUS
  <2>2. \A i \in 1 .. Len(q) : q[i] \in S /\ q[i] \in Nat \ {0}
    BY <2>1
  <2>3. q \in [1 .. Len(q) -> Nat]
    BY <2>1, <2>2
  <2>. QED  BY <2>1, <2>2, <2>3
<1>2. KeysOf(q) \subseteq S /\ \A x : x \in KeysOf(q) <=> \E i \in 1 .. Len(q) : q[i] = x
  BY <1>1, InKeysOf DEF NoKey
<1>3. \A i, j \in 1 .. Len(q) : i < j => q[i] < q[j]
  BY <1>1, RisingIs DEF NoKey
<1>4. \A i, j \in 1 .. Len(q) : q[i] = q[j] => i = j
  BY <1>1, <1>3
<1>5. q \in [1 .. Len(q) -> KeysOf(q)]
  BY <1>1, <1>2
<1>6. q \in Bijection(1 .. Len(q), KeysOf(q))
  BY <1>2, <1>4, <1>5 DEF Bijection, Injection, Surjection, IsInjective
<1>7. ExistsBijection(1 .. Len(q), KeysOf(q))
  BY <1>6 DEF ExistsBijection
<1>8. IsFiniteSet(1 .. Len(q)) /\ Cardinality(1 .. Len(q)) = Len(q)
  <2>1. 1 \in Int /\ Len(q) \in Int
    BY <1>1
  <2>2. IsFiniteSet(1 .. Len(q)) /\ Cardinality(1 .. Len(q)) = IF 1 > Len(q) THEN 0 ELSE Len(q) - 1 + 1
    BY <2>1, FS_Interval
  <2>. QED  BY <1>1, <2>2
<1>. QED  BY <1>2, <1>7, <1>8, FS_Bijection

\* A queue that holds nobody twice is no longer than there are threads.
LEMMA InjectiveCounts ==
  ASSUME NEW S, IsFiniteSet(S), NEW q \in Seq(S), IsInjective(q)
  PROVE  Len(q) <= Cardinality(S)
<1>1. Len(q) \in Nat /\ q \in [1 .. Len(q) -> S] /\ DOMAIN q = 1 .. Len(q)
  OBVIOUS
<1>2. q \in Injection(1 .. Len(q), S)
  BY <1>1 DEF Injection, IsInjective
<1>3. Cardinality(1 .. Len(q)) = Len(q)
  BY <1>1, FS_Interval
<1>. QED  BY <1>2, <1>3, FS_Injection

LEMMA InSeqOf ==
  ASSUME NEW S, NEW n \in Nat, NEW q \in Seq(S), Len(q) <= n
  PROVE  q \in SeqOf(S, n)
<1>1. Len(q) \in 0 .. n /\ q \in [1 .. Len(q) -> S]
  OBVIOUS
<1>. QED  BY <1>1 DEF SeqOf

-----------------------------------------------------------------------------
(* The inductive invariant                                                 *)

\* The keys at each place on the way, from the thread back to the controller.
InMove == IF epc = "move" THEN {e} ELSE {}
InHand == IF ppc \in {"produce", "publish"} THEN {k} ELSE {}

Sorted(A, B, C, D, E, F) ==
  /\ Below(A, B) /\ Below(A, C) /\ Below(A, D) /\ Below(A, E) /\ Below(A, F)
  /\ Below(B, C) /\ Below(B, D) /\ Below(B, E) /\ Below(B, F)
  /\ Below(C, D) /\ Below(C, E) /\ Below(C, F)
  /\ Below(D, E) /\ Below(D, F)
  /\ Below(E, F)

Types ==
  /\ codes \in Seq({NoKey} \cup Key) /\ Len(codes) <= MaxCodes /\ typed \in 0 .. MaxKeys
  /\ ppc \in {"none", "hit", "produce", "publish"}
  /\ k \in {NoKey} \cup Key /\ ret \in BOOLEAN
  /\ due \in 0 .. CPUs
  /\ epc \in {"none", "consume", "discard", "move"} /\ e \in {NoKey} \cup Key
  /\ prebuf \in Buffers({NoKey} \cup Key) /\ Contents(prebuf) \in Seq(Key)
  /\ buf \in Buffers({NoKey} \cup Key) /\ Contents(buf) \in Seq(Key)
  /\ got \in Seq(Key) /\ lost \in [pre : SUBSET Key, main : SUBSET Key]

\* What the prologue has stored is not published yet, and what the epilogue has
\* loaded is still in prebuf.
Hands ==
  /\ ppc \in {"produce", "publish"} => k \in Key
  /\ ppc = "publish" => HasRoom(prebuf) /\ prebuf.data[prebuf.in] = k
  /\ epc = "discard" => HasItem(prebuf) /\ e = First(prebuf)
  /\ epc = "move" => e \in Key

Order ==
  /\ Rising(got) /\ Rising(Contents(buf)) /\ Rising(Contents(prebuf)) /\ Rising(codes)
  /\ Sorted(KeysOf(got), KeysOf(Contents(buf)), InMove, KeysOf(Contents(prebuf)), InHand, KeysOf(codes))
  /\ KeysOf(got) \cup KeysOf(Contents(buf)) \cup InMove \cup KeysOf(Contents(prebuf))
       \cup InHand \cup KeysOf(codes) = (1 .. typed) \ (lost.pre \cup lost.main)
  /\ lost.pre \cup lost.main \subseteq 1 .. typed

Units ==
  /\ counter \in Nat /\ invalid \in Nat
  /\ waiting \in Seq(Reader) /\ IsInjective(waiting)
  /\ woken \subseteq Reader /\ woken \cap Range(waiting) = {}
  /\ counter + Cardinality(woken) = Size(buf) + Cardinality(lost.main) - invalid

IInv == Types /\ Hands /\ Order /\ Units

LEMMA KeysAre ==
  ASSUME KeyboardAssumption
  PROVE  /\ Key \subseteq Nat \ {0} /\ NoKey \notin Key /\ {NoKey} \cup Key \subseteq Nat
         /\ MaxKeys \in Nat /\ IsFiniteSet(Key) /\ Cardinality(Key) = MaxKeys
         /\ \A q : q \in Seq(Key) => q \in Seq(Nat) /\ q \in Seq({NoKey} \cup Key)
         /\ \A q : q \in Seq({NoKey} \cup Key) => q \in Seq(Nat)
<1>1. MaxKeys \in Nat /\ Key \subseteq Nat \ {0} /\ NoKey \notin Key /\ {NoKey} \cup Key \subseteq Nat
  BY DEF KeyboardAssumption, Key, NoKey
<1>2. IsFiniteSet(Key) /\ Cardinality(Key) = MaxKeys
  BY <1>1, FS_Interval DEF Key
<1>. QED  BY <1>1, <1>2

\* The keys that buf holds and those it refused are different keys.
LEMMA UnitsBounded ==
  ASSUME BBufferAssumption, KeyboardAssumption, Types, Order
  PROVE  /\ Len(got) <= MaxKeys /\ Size(buf) \in Nat /\ Cardinality(lost.main) \in Nat
         /\ IsFiniteSet(lost.main) /\ Size(buf) + Cardinality(lost.main) <= MaxKeys
<1>1. /\ Key \subseteq Nat \ {0} /\ Key \in SUBSET (Nat \ {0}) /\ MaxKeys \in Nat
      /\ IsFiniteSet(Key) /\ Cardinality(Key) = MaxKeys
  BY KeysAre
<1>2. Cardinality(KeysOf(got)) = Len(got) /\ KeysOf(got) \in SUBSET Key
  BY <1>1, RisingCounts DEF Types, Order
<1>3. Len(got) <= MaxKeys
  BY <1>1, <1>2, FS_Subset
<1>. PICK B, L : B = KeysOf(Contents(buf)) /\ L = lost.main
  OBVIOUS
<1>4. Len(Contents(buf)) = Size(buf) /\ Size(buf) \in Nat
  BY ContentsIs, RingIs DEF Types
<1>5. IsFiniteSet(B) /\ Cardinality(B) = Size(buf) /\ B \in SUBSET Key
  BY <1>1, <1>4, RisingCounts DEF Types, Order
<1>6. L \in SUBSET Key /\ IsFiniteSet(L) /\ Cardinality(L) \in Nat
  BY <1>1, FS_Subset, FS_CardinalityType DEF Types
<1>7. B \cap L = {}
  BY DEF Order
<1>8. Cardinality(B \cup L) = Cardinality(B) + Cardinality(L)
  <2>1. Cardinality(B \cup L) = Cardinality(B) + Cardinality(L) - Cardinality(B \cap L)
    BY <1>5, <1>6, FS_Union
  <2>2. Cardinality(B \cap L) = 0
    BY <1>7, FS_EmptySet
  <2>. QED  BY <1>4, <1>5, <1>6, <2>1, <2>2
<1>9. Cardinality(B \cup L) <= MaxKeys
  BY <1>1, <1>5, <1>6, FS_Subset
<1>. QED  BY <1>3, <1>4, <1>5, <1>6, <1>8, <1>9

LEMMA WokenIsFinite ==
  ASSUME KeyboardAssumption, Units
  PROVE  IsFiniteSet(Reader) /\ IsFiniteSet(woken) /\ Cardinality(woken) \in Nat
<1>1. IsFiniteSet(Reader)
  BY DEF KeyboardAssumption
<1>. QED  BY <1>1, FS_Subset, FS_CardinalityType DEF Units

-----------------------------------------------------------------------------
(* What moves keys from one place to the next                              *)

LEMMA SortedMoves ==
  ASSUME NEW A, NEW B, NEW C, NEW D, NEW E, NEW F, NEW X
  PROVE  /\ Sorted(A, B, C, D, E, F) =>
              /\ Sorted(A, B, C, D, {}, F) /\ Sorted(A, B, {}, D, E, F)
              /\ Sorted(A, B, C, D \cup E, {}, F) /\ Sorted(A, B \cup C, {}, D, E, F)
         /\ Sorted(A, B, C, D, {}, X \cup F) /\ Below(X, F) => Sorted(A, B, C, D, X, F)
         /\ Sorted(A, B, {}, X \cup D, E, F) /\ Below(X, D) => Sorted(A, B, X, D, E, F)
         /\ Sorted(A, X \cup B, C, D, E, F) /\ Below(X, B) => Sorted(A \cup X, B, C, D, E, F)
         /\ /\ Sorted(A, B, C, D, E, F)
            /\ Below(A, X) /\ Below(B, X) /\ Below(C, X) /\ Below(D, X) /\ Below(E, X)
            => Sorted(A, B, C, D, E, F \cup X)
<1>0. /\ \A S, T, U : Below(S, T \cup U) <=> Below(S, T) /\ Below(S, U)
      /\ \A S, T, U : Below(S \cup T, U) <=> Below(S, U) /\ Below(T, U)
      /\ \A S : Below(S, {}) /\ Below({}, S)
  BY DEF Below
<1>1. Sorted(A, B, C, D, E, F) =>
              /\ Sorted(A, B, C, D, {}, F) /\ Sorted(A, B, {}, D, E, F)
              /\ Sorted(A, B, C, D \cup E, {}, F) /\ Sorted(A, B \cup C, {}, D, E, F)
  BY <1>0 DEF Sorted
<1>2. /\ Sorted(A, B, C, D, {}, X \cup F) /\ Below(X, F) => Sorted(A, B, C, D, X, F)
      /\ Sorted(A, B, {}, X \cup D, E, F) /\ Below(X, D) => Sorted(A, B, X, D, E, F)
      /\ Sorted(A, X \cup B, C, D, E, F) /\ Below(X, B) => Sorted(A \cup X, B, C, D, E, F)
  BY <1>0 DEF Sorted
<1>3. /\ Sorted(A, B, C, D, E, F)
      /\ Below(A, X) /\ Below(B, X) /\ Below(C, X) /\ Below(D, X) /\ Below(E, X)
      => Sorted(A, B, C, D, E, F \cup X)
  BY <1>0 DEF Sorted
<1>. QED  BY <1>1, <1>2, <1>3

\* As long as the semaphore and its threads are left alone, and buf.
LEMMA UnitsStay ==
  ASSUME Units, UNCHANGED <<threadVars, history>>
  PROVE  Units'
  BY DEF Units, threadVars, history

LEMMA InitHolds ==
  ASSUME BBufferAssumption, KeyboardAssumption, KeyInit
  PROVE  IInv
<1>. PICK b : b = BBufferInit(NoKey)
  OBVIOUS
<1>1. prebuf = b /\ buf = b
  BY DEF KeyInit
<1>2. b \in Buffers({NoKey} \cup Key) /\ b.in = 0 /\ b.out = 0
  BY DEF BBufferInit, Buffers, Index, BBufferAssumption
<1>3. Size(b) = 0
  BY <1>2, RingIs
<1>4. Contents(b) = <<>>
  BY <1>2, <1>3, ContentsIs
<1>5. Types
  <2>1. /\ <<>> \in Seq({NoKey} \cup Key) /\ <<>> \in Seq(Key) /\ Len(<<>>) = 0
        /\ 0 <= MaxCodes /\ 0 \in 0 .. MaxKeys /\ 0 \in 0 .. CPUs /\ NoKey \in {NoKey} \cup Key
    BY DEF KeyboardAssumption
  <2>2. [pre |-> {}, main |-> {}] \in [pre : SUBSET Key, main : SUBSET Key]
    OBVIOUS
  <2>. QED  BY <1>1, <1>2, <1>4, <2>1, <2>2 DEF KeyInit, Types
<1>6. Hands
  BY DEF KeyInit, Hands
<1>7. Order
  <2>1. Rising(<<>>) /\ KeysOf(<<>>) = {}
    BY DEF Rising, KeysOf, Range
  <2>2. InMove = {} /\ InHand = {}
    BY DEF KeyInit, InMove, InHand
  <2>3. Sorted({}, {}, {}, {}, {}, {})
    BY DEF Sorted, Below
  <2>4. 1 .. 0 = {}
    OBVIOUS
  <2>. QED  BY <1>1, <1>4, <2>1, <2>2, <2>3, <2>4 DEF KeyInit, Order
<1>8. Units
  <2>1. Cardinality({}) = 0
    BY FS_EmptySet
  <2>2. <<>> \in Seq(Reader) /\ IsInjective(<<>>) /\ Range(<<>>) = {}
    BY DEF IsInjective, Range
  <2>. QED  BY <1>1, <1>3, <2>1, <2>2 DEF KeyInit, Units
<1>. QED  BY <1>5, <1>6, <1>7, <1>8 DEF IInv

\* The key typed last comes after all others.
LEMMA TypeKeeps ==
  ASSUME BBufferAssumption, KeyboardAssumption, IInv, Type
  PROVE  IInv'
<1>0. /\ UNCHANGED <<prologueVars, due, prebuf, epilogueVars, threadVars, history>>
      /\ typed' = typed + 1 /\ typed < MaxKeys
  BY DEF Type
<1>. PICK new \in {<<typed + 1>>, <<NoKey, typed + 1>>} :
        Len(codes) + Len(new) <= MaxCodes /\ codes' = codes \o new
  BY DEF Type
<1>1. /\ typed \in Nat /\ typed + 1 \in Key /\ typed + 1 # NoKey /\ NoKey \in Nat /\ codes \in Seq({NoKey} \cup Key)
      /\ codes \in Seq(Nat) /\ MaxKeys \in Nat
  BY <1>0, KeysAre DEF IInv, Types, Key, KeyboardAssumption, NoKey
<1>. PICK n : n = typed + 1
  OBVIOUS
<1>2. /\ new \in Seq({NoKey} \cup Key) /\ new \in Seq(Nat)
      /\ KeysOf(new) = {n} /\ Rising(new)
  <2>1. n \in Nat /\ <<n>> \in Seq(Nat) /\ Rising(<<n>>) /\ KeysOf(<<n>>) = {n} \ {NoKey}
    BY <1>1, RisingOne
  <2>2. CASE new = <<n>>
    BY <1>1, <2>1, <2>2
  <2>3. CASE new = <<NoKey, n>>
    <3>1. <<NoKey>> \in Seq(Nat) /\ Rising(<<NoKey>>) /\ KeysOf(<<NoKey>>) = {NoKey} \ {NoKey}
      BY <1>1, RisingOne
    <3>2. new = Append(<<NoKey>>, n)
      BY <2>3
    <3>3. KeysOf(new) = {n} /\ Rising(new)
      <4>1. n \in Nat /\ n # NoKey /\ NoKey \in Nat
        BY <1>1
      <4>. PICK q : q = <<NoKey>>
        OBVIOUS
      <4>2. q \in Seq(Nat) /\ KeysOf(q) = {} /\ Rising(q) /\ new = Append(q, n) /\ {n} \ {NoKey} = {n}
        BY ONLY <3>1, <3>2, <4>1, q = <<NoKey>>
      <4>3. KeysOf(new) = {n}
        BY ONLY <4>1, <4>2, RisingAppend
      <4>4. Rising(new)
        BY ONLY <4>1, <4>2, RisingAppend DEF Below
      <4>. QED  BY ONLY <4>3, <4>4
    <3>4. new \in Seq({NoKey} \cup Key)
      BY <1>1, <2>3
    <3>. QED  BY <3>3, <3>4, KeysAre
  <2>. QED  BY <2>2, <2>3
<1>3. /\ KeysOf(codes \o new) = KeysOf(codes) \cup {n}
      /\ Rising(codes \o new) <=> Rising(codes) /\ Rising(new) /\ Below(KeysOf(codes), {n})
  BY <1>1, <1>2, RisingConcat
<1>4. Types'
  <2>1. Len(codes \o new) = Len(codes) + Len(new) /\ codes \o new \in Seq({NoKey} \cup Key)
    BY <1>1, <1>2
  <2>. QED  BY <1>0, <1>1, <2>1 DEF IInv, Types, prologueVars, epilogueVars, threadVars, history, Key
<1>5. Hands'
  BY <1>0 DEF IInv, Hands, prologueVars, epilogueVars
<1>6. Order'
  <2>. PICK A, B, C, D, E, F : /\ A = KeysOf(got) /\ B = KeysOf(Contents(buf)) /\ C = InMove
                               /\ D = KeysOf(Contents(prebuf)) /\ E = InHand /\ F = KeysOf(codes)
    OBVIOUS
  <2>1. /\ A = KeysOf(got)' /\ B = KeysOf(Contents(buf))' /\ C = InMove'
        /\ D = KeysOf(Contents(prebuf))' /\ E = InHand' /\ KeysOf(codes)' = F \cup {n}
        /\ Rising(got)' = Rising(got) /\ Rising(Contents(buf))' = Rising(Contents(buf))
        /\ Rising(Contents(prebuf))' = Rising(Contents(prebuf))
    BY <1>0, <1>3 DEF prologueVars, epilogueVars, threadVars, history, InMove, InHand
  <2>2. Sorted(A, B, C, D, E, F) /\ A \cup B \cup C \cup D \cup E \cup F = (1 .. typed) \ (lost.pre \cup lost.main)
    BY DEF IInv, Order
  <2>3. \A S : S \subseteq 1 .. typed => Below(S, {n})
    BY <1>1 DEF Below
  <2>4. Below(A, {n}) /\ Below(B, {n}) /\ Below(C, {n}) /\ Below(D, {n}) /\ Below(E, {n}) /\ Below(F, {n})
    BY <2>2, <2>3
  <2>5. Sorted(A, B, C, D, E, F \cup {n})
    BY <2>2, <2>4, SortedMoves
  <2>6. Rising(codes)'
    BY <1>2, <1>3, <2>4 DEF IInv, Order
  <2>7. n \notin lost.pre \cup lost.main /\ 1 .. n = (1 .. typed) \cup {n}
    BY <1>1 DEF IInv, Order
  <2>. QED  BY <1>0, <2>1, <2>2, <2>5, <2>6, <2>7 DEF IInv, Order, history
<1>7. Units'
  BY <1>0, UnitsStay DEF IInv
<1>. QED  BY <1>4, <1>5, <1>6, <1>7 DEF IInv

\* Steps that move no key.
LEMMA NoKeyMoves ==
  ASSUME BBufferAssumption, KeyboardAssumption, IInv,
         KeyInterrupt \/ PrologueDone \/ EpilogueBegins \/ EpilogueDone
  PROVE  IInv'
<1>1. /\ UNCHANGED <<codes, typed, prebuf, threadVars, history>>
      /\ InMove' = InMove /\ InHand' = InHand
  BY DEF KeyInterrupt, PrologueDone, EpilogueBegins, EpilogueDone, InMove, InHand, prologueVars, epilogueVars
<1>2. Types'
  <2>1. ppc' \in {"none", "hit", "produce", "publish"} /\ epc' \in {"none", "consume", "discard", "move"}
    BY DEF IInv, Types, KeyInterrupt, PrologueDone, EpilogueBegins, EpilogueDone, prologueVars, epilogueVars
  <2>2. k' \in {NoKey} \cup Key /\ e' \in {NoKey} \cup Key /\ ret' \in BOOLEAN
    BY DEF IInv, Types, KeyInterrupt, PrologueDone, EpilogueBegins, EpilogueDone, prologueVars, epilogueVars
  <2>3. due' \in 0 .. CPUs
    BY DEF IInv, Types, KeyInterrupt, PrologueDone, EpilogueBegins, EpilogueDone, prologueVars, epilogueVars,
           KeyboardAssumption
  <2>. QED  BY <1>1, <2>1, <2>2, <2>3 DEF IInv, Types, threadVars, history
<1>3. Hands'
  BY <1>1 DEF IInv, Hands, KeyInterrupt, PrologueDone, EpilogueBegins, EpilogueDone, prologueVars, epilogueVars
<1>4. Order'
  BY <1>1 DEF IInv, Order, threadVars, history
<1>5. Units'
  BY <1>1, UnitsStay DEF IInv
<1>. QED  BY <1>2, <1>3, <1>4, <1>5 DEF IInv

\* The first code leaves the controller; a key goes into the prologue's hand.
LEMMA HitKeeps ==
  ASSUME BBufferAssumption, KeyboardAssumption, IInv, Hit
  PROVE  IInv'
<1>1. /\ ppc = "hit" /\ codes # <<>> /\ k' = Head(codes) /\ codes' = Tail(codes)
      /\ ppc' = IF Head(codes) = NoKey THEN "hit" ELSE "produce"
      /\ UNCHANGED <<typed, ret, due, prebuf, epilogueVars, threadVars, history>>
  BY DEF Hit
<1>2. /\ codes \in Seq({NoKey} \cup Key) /\ codes \in Seq(Nat) /\ Tail(codes) \in Seq({NoKey} \cup Key)
      /\ Head(codes) \in {NoKey} \cup Key /\ Len(Tail(codes)) = Len(codes) - 1 /\ Len(codes) \in Nat
  BY <1>1, KeysAre DEF IInv, Types
<1>. PICK h, r : h = Head(codes) /\ r = Tail(codes)
  OBVIOUS
<1>3. /\ KeysOf(codes) = ({h} \ {NoKey}) \cup KeysOf(r)
      /\ Rising(codes) <=> Rising(r) /\ Below({h} \ {NoKey}, KeysOf(r))
  BY <1>1, <1>2, RisingTail
<1>4. Types'
  <2>1. Len(Tail(codes)) <= MaxCodes
    BY <1>2 DEF IInv, Types, KeyboardAssumption
  <2>. QED  BY <1>1, <1>2, <2>1 DEF IInv, Types, epilogueVars, threadVars, history
<1>5. Hands'
  BY <1>1, <1>2 DEF IInv, Hands, epilogueVars
<1>6. Order'
  <2>. PICK A, B, C, D, F, X : /\ A = KeysOf(got) /\ B = KeysOf(Contents(buf)) /\ C = InMove
                               /\ D = KeysOf(Contents(prebuf)) /\ F = KeysOf(r) /\ X = {h} \ {NoKey}
    OBVIOUS
  <2>1. /\ A = KeysOf(got)' /\ B = KeysOf(Contents(buf))' /\ C = InMove'
        /\ D = KeysOf(Contents(prebuf))' /\ KeysOf(codes)' = F
        /\ Rising(got)' = Rising(got) /\ Rising(Contents(buf))' = Rising(Contents(buf))
        /\ Rising(Contents(prebuf))' = Rising(Contents(prebuf)) /\ Rising(codes)' = Rising(r)
    BY <1>1 DEF epilogueVars, threadVars, history, InMove
  <2>2. InHand = {} /\ InHand' = X
    BY <1>1 DEF InHand
  <2>3. Sorted(A, B, C, D, {}, X \cup F) /\ A \cup B \cup C \cup D \cup X \cup F = (1 .. typed) \ (lost.pre \cup lost.main)
    BY <1>3, <2>2 DEF IInv, Order
  <2>4. Rising(r) /\ Below(X, F)
    BY <1>3 DEF IInv, Order
  <2>5. Sorted(A, B, C, D, X, F)
    BY <2>3, <2>4, SortedMoves
  <2>. QED  BY <1>1, <2>1, <2>2, <2>3, <2>4, <2>5 DEF IInv, Order, history
<1>7. Units'
  BY <1>1, UnitsStay DEF IInv
<1>. QED  BY <1>4, <1>5, <1>6, <1>7 DEF IInv

\* A full prebuf: the key in the prologue's hand is lost, and no other.
LEMMA PrologueFullKeeps ==
  ASSUME BBufferAssumption, KeyboardAssumption, IInv, PrologueFull
  PROVE  IInv'
<1>1. /\ ppc = "produce" /\ ppc' = "hit" /\ lost' = [lost EXCEPT !.pre = @ \cup {k}]
      /\ UNCHANGED <<codes, typed, k, ret, due, prebuf, epilogueVars, threadVars, got, invalid>>
  BY DEF PrologueFull
<1>2. k \in Key /\ lost \in [pre : SUBSET Key, main : SUBSET Key]
  BY <1>1 DEF IInv, Hands, Types
<1>3. /\ lost' \in [pre : SUBSET Key, main : SUBSET Key]
      /\ lost'.pre = lost.pre \cup {k} /\ lost'.main = lost.main
  BY <1>1, <1>2
<1>4. Types'
  BY <1>1, <1>3 DEF IInv, Types, epilogueVars, threadVars
<1>5. Hands'
  BY <1>1 DEF IInv, Hands, epilogueVars
<1>6. Order'
  <2>. PICK A, B, C, D, E, F : /\ A = KeysOf(got) /\ B = KeysOf(Contents(buf)) /\ C = InMove
                               /\ D = KeysOf(Contents(prebuf)) /\ E = InHand /\ F = KeysOf(codes)
    OBVIOUS
  <2>1. /\ A = KeysOf(got)' /\ B = KeysOf(Contents(buf))' /\ C = InMove'
        /\ D = KeysOf(Contents(prebuf))' /\ KeysOf(codes)' = F
        /\ Rising(got)' = Rising(got) /\ Rising(Contents(buf))' = Rising(Contents(buf))
        /\ Rising(Contents(prebuf))' = Rising(Contents(prebuf)) /\ Rising(codes)' = Rising(codes)
    BY <1>1 DEF epilogueVars, threadVars, InMove
  <2>2. E = {k} /\ InHand' = {}
    BY <1>1 DEF InHand
  <2>3. Sorted(A, B, C, D, E, F) /\ A \cup B \cup C \cup D \cup E \cup F = (1 .. typed) \ (lost.pre \cup lost.main)
    BY DEF IInv, Order
  <2>4. k \notin A \cup B \cup C \cup D \cup F
    <3>1. \A S : Below({k}, S) \/ Below(S, {k}) => k \notin S
      BY <1>2, KeysAre DEF Below
    <3>. QED  BY <2>2, <2>3, <3>1 DEF Sorted
  <2>5. A \cup B \cup C \cup D \cup F = (1 .. typed) \ (lost'.pre \cup lost'.main)
    BY <1>3, <2>2, <2>3, <2>4
  <2>6. k \in 1 .. typed
    BY <2>2, <2>3
  <2>7. Sorted(A, B, C, D, {}, F)
    BY <2>3, SortedMoves
  <2>. QED  BY <1>1, <1>3, <2>1, <2>2, <2>5, <2>6, <2>7 DEF IInv, Order
<1>7. Units'
  BY <1>1, <1>3 DEF IInv, Units, threadVars
<1>. QED  BY <1>4, <1>5, <1>6, <1>7 DEF IInv

\* The store is not seen by the epilogue ...
LEMMA PrologueStoreKeeps ==
  ASSUME BBufferAssumption, KeyboardAssumption, IInv, PrologueStore
  PROVE  IInv'
<1>1. /\ ppc = "produce" /\ HasRoom(prebuf) /\ prebuf' = Store(prebuf, k) /\ ppc' = "publish"
      /\ UNCHANGED <<codes, typed, k, ret, due, epilogueVars, threadVars, history>>
  BY DEF PrologueStore
<1>2. k \in Key /\ k \in {NoKey} \cup Key /\ prebuf \in Buffers({NoKey} \cup Key)
  BY <1>1 DEF IInv, Hands, Types
<1>3. /\ prebuf' \in Buffers({NoKey} \cup Key) /\ Contents(prebuf') = Contents(prebuf)
      /\ prebuf'.data[prebuf'.in] = k
      /\ HasItem(prebuf) => First(prebuf') = First(prebuf)
  BY <1>1, <1>2, StoreIs
<1>4. prebuf'.in = prebuf.in /\ prebuf'.out = prebuf.out
  BY <1>1, <1>2 DEF Store, Buffers
<1>5. Types'
  BY <1>1, <1>3 DEF IInv, Types, epilogueVars, threadVars, history
<1>6. Hands'
  <2>1. HasRoom(prebuf') /\ (HasItem(prebuf') <=> HasItem(prebuf))
    BY <1>1, <1>4 DEF HasRoom, HasItem
  <2>2. epc' = epc /\ e' = e /\ k' = k /\ ppc' = "publish"
    BY <1>1 DEF epilogueVars
  <2>3. (epc = "discard" => HasItem(prebuf) /\ e = First(prebuf)) /\ (epc = "move" => e \in Key)
    BY DEF IInv, Hands
  <2>. QED  BY <1>2, <1>3, <2>1, <2>2, <2>3 DEF Hands
<1>7. Order'
  <2>1. InHand' = InHand /\ InMove' = InMove
    BY <1>1 DEF InHand, InMove, epilogueVars
  <2>. QED  BY <1>1, <1>3, <2>1 DEF IInv, Order, threadVars, history
<1>8. Units'
  BY <1>1, UnitsStay DEF IInv
<1>. QED  BY <1>5, <1>6, <1>7, <1>8 DEF IInv

\* ... until it is published, as the newest key in prebuf.
LEMMA ProloguePublishKeeps ==
  ASSUME BBufferAssumption, KeyboardAssumption, IInv, ProloguePublish
  PROVE  IInv'
<1>1. /\ ppc = "publish" /\ prebuf' = Publish(prebuf) /\ ret' = TRUE /\ ppc' = "hit"
      /\ UNCHANGED <<codes, typed, k, due, epilogueVars, threadVars, history>>
  BY DEF ProloguePublish
<1>2. /\ k \in Key /\ prebuf \in Buffers({NoKey} \cup Key) /\ HasRoom(prebuf) /\ prebuf.data[prebuf.in] = k
      /\ Contents(prebuf) \in Seq(Key)
  BY <1>1 DEF IInv, Hands, Types
<1>3. /\ prebuf' \in Buffers({NoKey} \cup Key) /\ Contents(prebuf') = Append(Contents(prebuf), k)
      /\ First(prebuf') = First(prebuf) /\ HasItem(prebuf')
  BY <1>1, <1>2, PublishIs
<1>4. k # NoKey /\ k \in Nat /\ Contents(prebuf) \in Seq(Nat)
  BY <1>2, KeysAre
<1>5. Types'
  BY <1>1, <1>2, <1>3 DEF IInv, Types, epilogueVars, threadVars, history
<1>6. Hands'
  BY <1>1, <1>3 DEF IInv, Hands, epilogueVars
<1>7. Order'
  <2>. PICK A, B, C, D, E, F : /\ A = KeysOf(got) /\ B = KeysOf(Contents(buf)) /\ C = InMove
                               /\ D = KeysOf(Contents(prebuf)) /\ E = InHand /\ F = KeysOf(codes)
    OBVIOUS
  <2>1. /\ A = KeysOf(got)' /\ B = KeysOf(Contents(buf))' /\ C = InMove'
        /\ KeysOf(Contents(prebuf))' = D \cup {k} /\ KeysOf(codes)' = F
        /\ Rising(got)' = Rising(got) /\ Rising(Contents(buf))' = Rising(Contents(buf))
        /\ Rising(Contents(prebuf))' <=> Rising(Contents(prebuf)) /\ Below(D, {k})
        /\ Rising(codes)' = Rising(codes)
    <3>1. {k} \ {NoKey} = {k}
      BY <1>4
    <3>. PICK q : q = Contents(prebuf)
      OBVIOUS
    <3>2. /\ KeysOf(Append(q, k)) = KeysOf(q) \cup {k}
          /\ Rising(Append(q, k)) <=> Rising(q) /\ Below(KeysOf(q), {k})
      <4>1. q \in Seq(Nat) /\ k \in Nat
        BY <1>4
      <4>2. KeysOf(Append(q, k)) = KeysOf(q) \cup ({k} \ {NoKey})
        BY ONLY <4>1, RisingAppend
      <4>3. Rising(Append(q, k)) <=> Rising(q) /\ Below(KeysOf(q), {k} \ {NoKey})
        BY ONLY <4>1, RisingAppend
      <4>. QED  BY ONLY <3>1, <4>2, <4>3
    <3>3. KeysOf(Contents(prebuf))' = KeysOf(Append(q, k)) /\ Rising(Contents(prebuf))' = Rising(Append(q, k))
      BY <1>3
    <3>4. UNCHANGED <<epc, e, buf, got, codes>>
      BY <1>1 DEF epilogueVars, threadVars, history
    <3>5. InMove' = InMove
      BY <3>4 DEF InMove
    <3>. QED  BY <3>2, <3>3, <3>4, <3>5
  <2>2. E = {k} /\ InHand' = {}
    BY <1>1 DEF InHand
  <2>3. Sorted(A, B, C, D, E, F) /\ A \cup B \cup C \cup D \cup E \cup F = (1 .. typed) \ (lost.pre \cup lost.main)
    BY DEF IInv, Order
  <2>4. Sorted(A, B, C, D \cup E, {}, F)
    BY <2>3, SortedMoves
  <2>5. Below(D, {k})
    BY <2>2, <2>3 DEF Sorted
  <2>. QED  BY <1>1, <2>1, <2>2, <2>3, <2>4, <2>5 DEF IInv, Order, history
<1>8. Units'
  BY <1>1, UnitsStay DEF IInv
<1>. QED  BY <1>5, <1>6, <1>7, <1>8 DEF IInv

\* The key is read before out moves, so that its place is not used again.
LEMMA EpilogueLoadKeeps ==
  ASSUME BBufferAssumption, KeyboardAssumption, IInv, EpilogueLoad
  PROVE  IInv'
<1>1. /\ epc = "consume" /\ HasItem(prebuf) /\ e' = First(prebuf) /\ epc' = "discard"
      /\ UNCHANGED <<codes, typed, prologueVars, due, prebuf, threadVars, history>>
  BY DEF EpilogueLoad
<1>2. First(prebuf) \in {NoKey} \cup Key
  BY <1>1, RingIs DEF IInv, Types, First
<1>3. Types'
  BY <1>1, <1>2 DEF IInv, Types, prologueVars, threadVars, history
<1>4. Hands'
  BY <1>1 DEF IInv, Hands, prologueVars
<1>5. Order'
  <2>1. InHand' = InHand /\ InMove' = InMove
    BY <1>1 DEF InHand, InMove, prologueVars
  <2>. QED  BY <1>1, <2>1 DEF IInv, Order, threadVars, history
<1>6. Units'
  BY <1>1, UnitsStay DEF IInv
<1>. QED  BY <1>3, <1>4, <1>5, <1>6 DEF IInv

\* The oldest key leaves prebuf for the epilogue's hand, whatever the prologue
\* is doing there.
LEMMA EpilogueDiscardKeeps ==
  ASSUME BBufferAssumption, KeyboardAssumption, IInv, EpilogueDiscard
  PROVE  IInv'
<1>1. /\ epc = "discard" /\ prebuf' = Discard(prebuf) /\ epc' = "move"
      /\ UNCHANGED <<codes, typed, prologueVars, due, e, threadVars, history>>
  BY DEF EpilogueDiscard
<1>2. /\ prebuf \in Buffers({NoKey} \cup Key) /\ HasItem(prebuf) /\ e = First(prebuf)
      /\ Contents(prebuf) \in Seq(Key)
  BY <1>1 DEF IInv, Hands, Types
<1>. PICK q : q = Contents(prebuf)
  OBVIOUS
<1>3. /\ prebuf' \in Buffers({NoKey} \cup Key) /\ q # <<>> /\ Head(q) = e
      /\ Contents(prebuf') = Tail(q)
      /\ prebuf'.data = prebuf.data /\ prebuf'.in = prebuf.in /\ HasRoom(prebuf')
  BY <1>1, <1>2, DiscardIs
<1>4. q \in Seq(Key) /\ q \in Seq(Nat) /\ e \in Key /\ e # NoKey /\ Tail(q) \in Seq(Key)
  BY <1>2, <1>3, KeysAre
<1>5. /\ KeysOf(q) = {e} \cup KeysOf(Tail(q))
      /\ Rising(q) <=> Rising(Tail(q)) /\ Below({e}, KeysOf(Tail(q)))
  <2>1. {Head(q)} \ {NoKey} = {e}
    BY <1>3, <1>4
  <2>. QED  BY <1>3, <1>4, <2>1, RisingTail
<1>6. Types'
  BY <1>1, <1>3, <1>4 DEF IInv, Types, prologueVars, threadVars, history
<1>7. Hands'
  BY <1>1, <1>3, <1>4 DEF IInv, Hands, prologueVars
<1>8. Order'
  <2>. PICK A, B, D, E, F, X : /\ A = KeysOf(got) /\ B = KeysOf(Contents(buf))
                               /\ D = KeysOf(Tail(q)) /\ E = InHand /\ F = KeysOf(codes) /\ X = {e}
    OBVIOUS
  <2>1. UNCHANGED <<codes, typed, ppc, k, e, got, buf, lost>>
    BY <1>1 DEF prologueVars, threadVars, history
  <2>2. InMove = {} /\ InMove' = X /\ InHand' = E
    BY <1>1, <2>1 DEF InMove, InHand
  <2>3. /\ Sorted(A, B, {}, X \cup D, E, F)
        /\ A \cup B \cup X \cup D \cup E \cup F = (1 .. typed) \ (lost.pre \cup lost.main)
    BY <1>5, <2>2 DEF IInv, Order
  <2>4. Rising(Tail(q)) /\ Below(X, D)
    BY <1>5 DEF IInv, Order
  <2>5. Sorted(A, B, X, D, E, F)
    BY <2>3, <2>4, SortedMoves
  <2>6. KeysOf(Contents(prebuf))' = D /\ Rising(Contents(prebuf))' = Rising(Tail(q))
    BY <1>3
  <2>. QED  BY <2>1, <2>2, <2>3, <2>4, <2>5, <2>6 DEF IInv, Order
<1>9. Units'
  BY <1>1, UnitsStay DEF IInv
<1>. QED  BY <1>6, <1>7, <1>8, <1>9 DEF IInv

\* sem.v() is worth one unit, whether it wakes a thread or counts.
LEMMA SignalIs ==
  ASSUME KeyboardAssumption, Units, Signal
  PROVE  /\ counter' \in Nat /\ waiting' \in Seq(Reader) /\ IsInjective(waiting')
         /\ woken' \subseteq Reader /\ woken' \cap Range(waiting') = {}
         /\ counter' + Cardinality(woken') = counter + Cardinality(woken) + 1
<1>1. CASE waiting # <<>>
  <2>1. woken' = woken \cup {Head(waiting)} /\ waiting' = Tail(waiting) /\ counter' = counter
    BY <1>1 DEF Signal
  <2>. PICK q, h, t : q = waiting /\ h = Head(q) /\ t = Tail(q)
    OBVIOUS
  <2>2. /\ q \in Seq(Reader) /\ Len(q) \in Nat \ {0} /\ h = q[1] /\ h \in Reader
        /\ t \in Seq(Reader) /\ Len(t) = Len(q) - 1
        /\ \A i \in 1 .. Len(q) - 1 : t[i] = q[i + 1]
    BY <1>1 DEF Units
  <2>3. /\ DOMAIN q = 1 .. Len(q) /\ DOMAIN t = 1 .. Len(t)
        /\ \A i, j \in 1 .. Len(q) : q[i] = q[j] => i = j
    <3>1. DOMAIN q = 1 .. Len(q) /\ DOMAIN t = 1 .. Len(t)
      BY <2>2
    <3>. QED  BY <3>1 DEF Units, IsInjective
  <2>4. IsInjective(t)
    <3>. SUFFICES ASSUME NEW i \in 1 .. Len(t), NEW j \in 1 .. Len(t), t[i] = t[j] PROVE i = j
      BY <2>3 DEF IsInjective
    <3>1. i + 1 \in 1 .. Len(q) /\ j + 1 \in 1 .. Len(q) /\ t[i] = q[i + 1] /\ t[j] = q[j + 1]
      BY <2>2
    <3>. QED  BY <2>2, <2>3, <3>1
  <2>5. Range(t) \subseteq Range(q) /\ h \notin Range(t) /\ h \in Range(q)
    <3>1. ASSUME NEW i \in 1 .. Len(t)
          PROVE  t[i] \in Range(q) /\ t[i] # h
      <4>1. i + 1 \in 1 .. Len(q) /\ 1 \in 1 .. Len(q) /\ t[i] = q[i + 1] /\ i + 1 # 1
        BY <2>2
      <4>. QED  BY <2>2, <2>3, <4>1 DEF Range
    <3>2. 1 \in 1 .. Len(q)
      BY <2>2
    <3>. QED  BY <2>2, <2>3, <3>1, <3>2 DEF Range
  <2>6. h \notin woken /\ woken \cap Range(q) = {} /\ woken \subseteq Reader
    BY <2>5 DEF Units
  <2>7. Cardinality(woken \cup {h}) = Cardinality(woken) + 1
    BY <2>6, WokenIsFinite, FS_AddElement
  <2>8. Cardinality(woken) \in Nat /\ counter \in Nat
    BY WokenIsFinite DEF Units
  <2>9. woken' = woken \cup {h} /\ waiting' = t
    BY <2>1
  <2>10. (woken \cup {h}) \cap Range(t) = {}
    BY <2>5, <2>6
  <2>11. IsInjective(waiting') /\ waiting' \in Seq(Reader) /\ woken' \subseteq Reader
    BY <2>2, <2>4, <2>6, <2>9
  <2>12. woken' \cap Range(waiting') = {}
    BY <2>9, <2>10
  <2>13. counter' + Cardinality(woken') = counter + Cardinality(woken) + 1 /\ counter' \in Nat
    BY <2>1, <2>7, <2>8, <2>9
  <2>. QED  BY <2>11, <2>12, <2>13
<1>2. CASE waiting = <<>>
  <2>1. counter' = counter + 1 /\ waiting' = waiting /\ woken' = woken
    BY <1>2 DEF Signal
  <2>2. Cardinality(woken) \in Nat /\ counter \in Nat
    BY WokenIsFinite DEF Units
  <2>. QED  BY <2>1, <2>2 DEF Units
<1>. QED  BY <1>1, <1>2

\* What produce() and consume() do as a whole.
LEMMA ProduceIs ==
  ASSUME BBufferAssumption, NEW T, NEW b \in Buffers(T), NEW v \in T, HasRoom(b)
  PROVE  /\ Produce(b, v) \in Buffers(T) /\ Size(Produce(b, v)) = Size(b) + 1
         /\ Contents(Produce(b, v)) = Append(Contents(b), v)
<1>. PICK s : s = Store(b, v)
  OBVIOUS
<1>1. s \in Buffers(T) /\ Size(s) = Size(b) /\ Contents(s) = Contents(b) /\ s.data[s.in] = v
  BY StoreIs
<1>2. HasRoom(s)
  BY <1>1, RingIs
<1>3. Publish(s) \in Buffers(T) /\ Size(Publish(s)) = Size(b) + 1 /\ Contents(Publish(s)) = Append(Contents(b), v)
  BY <1>1, <1>2, PublishIs
<1>. QED  BY <1>3 DEF Produce

\* The key goes into buf, or is lost where buf is full; the semaphore gets its
\* unit either way.
LEMMA EpilogueMoveKeeps ==
  ASSUME BBufferAssumption, KeyboardAssumption, IInv, EpilogueMove
  PROVE  IInv'
<1>1. /\ epc = "move" /\ buf' = Produce(buf, e) /\ Signal /\ epc' = "consume" /\ e' = NoKey
      /\ lost' = IF HasRoom(buf) THEN lost ELSE [lost EXCEPT !.main = @ \cup {e}]
      /\ UNCHANGED <<codes, typed, prologueVars, due, prebuf, got, invalid>>
  BY DEF EpilogueMove
<1>2. /\ e \in Key /\ e \in {NoKey} \cup Key /\ e # NoKey /\ e \in Nat /\ lost \in [pre : SUBSET Key, main : SUBSET Key]
      /\ buf \in Buffers({NoKey} \cup Key) /\ Contents(buf) \in Seq(Key) /\ Contents(buf) \in Seq(Nat)
  BY <1>1, KeysAre DEF IInv, Hands, Types
<1>. PICK A, B, C, D, E, F, q : /\ A = KeysOf(got) /\ B = KeysOf(q) /\ C = InMove /\ q = Contents(buf)
                             /\ D = KeysOf(Contents(prebuf)) /\ E = InHand /\ F = KeysOf(codes)
  OBVIOUS
<1>3. C = {e} /\ InMove' = {} /\ InHand' = E
  BY <1>1 DEF InMove, InHand, prologueVars
<1>4. Sorted(A, B, C, D, E, F) /\ A \cup B \cup C \cup D \cup E \cup F = (1 .. typed) \ (lost.pre \cup lost.main)
  BY DEF IInv, Order
<1>5. Hands'
  BY <1>1 DEF IInv, Hands, prologueVars
<1>6. UNCHANGED <<codes, typed, ppc, k, ret, due, prebuf, got, invalid>>
  BY <1>1 DEF prologueVars
<1>7. /\ counter' \in Nat /\ waiting' \in Seq(Reader) /\ IsInjective(waiting')
      /\ woken' \subseteq Reader /\ woken' \cap Range(waiting') = {}
      /\ counter' + Cardinality(woken') = counter + Cardinality(woken) + 1
  BY <1>1, SignalIs DEF IInv
<1>8. /\ counter + Cardinality(woken) = Size(buf) + Cardinality(lost.main) - invalid /\ invalid \in Nat
      /\ Size(buf) \in Nat /\ IsFiniteSet(lost.main) /\ Cardinality(lost.main) \in Nat
  BY UnitsBounded DEF IInv, Units
<1>9. CASE HasRoom(buf)
  <2>1. /\ buf' \in Buffers({NoKey} \cup Key) /\ Size(buf') = Size(buf) + 1
        /\ Contents(buf') = Append(q, e) /\ lost' = lost
    BY <1>1, <1>2, <1>9, ProduceIs
  <2>2. Append(q, e) \in Seq(Key)
    BY <1>2
  <2>3. Types'
    BY <1>1, <1>2, <1>6, <2>1, <2>2 DEF IInv, Types
  <2>4. /\ KeysOf(Append(q, e)) = B \cup {e}
        /\ Rising(Append(q, e)) <=> Rising(q) /\ Below(B, {e})
    <3>1. {e} \ {NoKey} = {e}
      BY <1>2
    <3>2. q \in Seq(Nat) /\ e \in Nat
      BY <1>2
    <3>3. /\ KeysOf(Append(q, e)) = KeysOf(q) \cup ({e} \ {NoKey})
          /\ Rising(Append(q, e)) <=> Rising(q) /\ Below(KeysOf(q), {e} \ {NoKey})
      BY <3>2, RisingAppend
    <3>. QED  BY <3>1, <3>3
  <2>5. Below(B, {e})
    BY <1>3, <1>4 DEF Sorted
  <2>6. Sorted(A, B \cup C, {}, D, E, F)
    BY <1>4, SortedMoves
  <2>7. KeysOf(Contents(buf))' = B \cup C /\ Rising(Contents(buf))' = Rising(Append(q, e))
    BY <1>3, <2>1, <2>4
  <2>8. Order'
    BY <1>3, <1>4, <1>6, <2>1, <2>4, <2>5, <2>6, <2>7 DEF IInv, Order
  <2>9. Units'
    <3>1. counter' + Cardinality(woken') = (Size(buf) + 1) + Cardinality(lost.main) - invalid
      BY <1>7, <1>8
    <3>2. Size(buf') = Size(buf) + 1 /\ lost'.main = lost.main /\ invalid' = invalid
      BY <1>6, <2>1
    <3>3. Cardinality(lost'.main) = Cardinality(lost.main)
      BY <3>2
    <3>4. counter' + Cardinality(woken') = Size(buf') + Cardinality(lost'.main) - invalid'
      BY <3>1, <3>2, <3>3
    <3>. QED  BY <1>6, <1>7, <1>8, <3>2, <3>4 DEF Units
  <2>. QED  BY <1>5, <2>3, <2>8, <2>9 DEF IInv
<1>10. CASE ~ HasRoom(buf)
  <2>1. /\ buf' = buf /\ lost' \in [pre : SUBSET Key, main : SUBSET Key]
        /\ lost'.pre = lost.pre /\ lost'.main = lost.main \cup {e}
    BY <1>1, <1>2, <1>10 DEF Produce
  <2>2. Types'
    BY <1>1, <1>2, <1>6, <2>1 DEF IInv, Types
  <2>3. Sorted(A, B, {}, D, E, F)
    BY <1>4, SortedMoves
  <2>4. e \notin A \cup B \cup D \cup E \cup F
    <3>1. \A S : Below({e}, S) \/ Below(S, {e}) => e \notin S
      BY <1>2 DEF Below
    <3>. QED  BY <1>3, <1>4, <3>1 DEF Sorted
  <2>5. A \cup B \cup D \cup E \cup F = (1 .. typed) \ (lost'.pre \cup lost'.main)
    BY <1>3, <1>4, <2>1, <2>4
  <2>6. e \in 1 .. typed /\ e \notin lost.main
    BY <1>3, <1>4
  <2>7. Order'
    BY <1>3, <1>6, <2>1, <2>3, <2>5, <2>6 DEF IInv, Order
  <2>8. Cardinality(lost'.main) = Cardinality(lost.main) + 1
    BY <1>8, <2>1, <2>6, FS_AddElement
  <2>9. Units'
    <3>1. counter' + Cardinality(woken') = Size(buf) + (Cardinality(lost.main) + 1) - invalid
      BY <1>7, <1>8
    <3>2. Size(buf') = Size(buf) /\ invalid' = invalid
      BY <1>6, <2>1
    <3>3. counter' + Cardinality(woken') = Size(buf') + Cardinality(lost'.main) - invalid'
      BY <2>8, <3>1, <3>2
    <3>. QED  BY <1>6, <1>7, <1>8, <3>2, <3>3 DEF Units
  <2>. QED  BY <1>5, <2>2, <2>7, <2>9 DEF IInv
<1>. QED  BY <1>9, <1>10

\* The oldest key in buf goes to the thread; an empty buf gives it an invalid key.
LEMMA ReturnKeyIs ==
  ASSUME BBufferAssumption, KeyboardAssumption, IInv, ReturnKey,
         UNCHANGED <<codes, typed, prologueVars, due, prebuf, epilogueVars, lost>>
  PROVE  /\ Types' /\ Hands' /\ Order' /\ invalid' \in Nat /\ Size(buf') \in Nat
         /\ Size(buf') - invalid' = Size(buf) - invalid - 1
<1>1. UNCHANGED <<codes, typed, ppc, k, ret, due, prebuf, epc, e, lost>>
  BY DEF prologueVars, epilogueVars
<1>2. InMove' = InMove /\ InHand' = InHand
  BY <1>1 DEF InMove, InHand
<1>3. /\ buf \in Buffers({NoKey} \cup Key) /\ Contents(buf) \in Seq(Key)
      /\ Contents(buf) \in Seq(Nat) /\ got \in Seq(Key) /\ got \in Seq(Nat)
      /\ Size(buf) \in Nat /\ invalid \in Nat
  <2>1. buf \in Buffers({NoKey} \cup Key) /\ Contents(buf) \in Seq(Key) /\ got \in Seq(Key) /\ invalid \in Nat
    BY DEF IInv, Types, Units
  <2>2. Contents(buf) \in Seq(Nat) /\ got \in Seq(Nat)
    BY <2>1, KeysAre
  <2>3. Size(buf) \in Nat
    BY <2>1, RingIs
  <2>. QED  BY <2>1, <2>2, <2>3
<1>4. Hands'
  BY <1>1 DEF IInv, Hands
<1>5. CASE HasItem(buf)
  <2>. PICK q, x, t : q = Contents(buf) /\ x = First(buf) /\ t = Tail(q)
    OBVIOUS
  <2>1. buf' = Discard(buf) /\ got' = Append(got, x) /\ invalid' = invalid
    BY <1>5 DEF ReturnKey, Consume
  <2>2. /\ buf' \in Buffers({NoKey} \cup Key) /\ Size(buf') = Size(buf) - 1
        /\ q # <<>> /\ Head(q) = x /\ Contents(buf') = t
    BY <1>3, <1>5, <2>1, DiscardIs
  <2>3. q \in Seq(Key) /\ q \in Seq(Nat) /\ x \in Key /\ t \in Seq(Key)
    BY <1>3, <2>2
  <2>4. x \in Nat /\ {x} \ {NoKey} = {x} /\ Append(got, x) \in Seq(Key)
    BY <1>3, <2>3, KeysAre
  <2>5. Size(buf') \in Nat
    BY <2>2, RingIs
  <2>6. Types'
    BY <1>1, <2>1, <2>2, <2>3, <2>4 DEF IInv, Types
  <2>. PICK A, B, C, D, E, F, X : /\ A = KeysOf(got) /\ B = KeysOf(t) /\ C = InMove
                                  /\ D = KeysOf(Contents(prebuf)) /\ E = InHand
                                  /\ F = KeysOf(codes) /\ X = {x}
    OBVIOUS
  <2>7. KeysOf(q) = X \cup B /\ (Rising(q) <=> Rising(t) /\ Below(X, B))
    BY <2>2, <2>3, <2>4, RisingTail
  <2>8. KeysOf(Append(got, x)) = A \cup X /\ (Rising(Append(got, x)) <=> Rising(got) /\ Below(A, X))
    <3>. PICK g : g = got
      OBVIOUS
    <3>1. g \in Seq(Nat) /\ x \in Nat
      BY <1>3, <2>4
    <3>2. /\ KeysOf(Append(g, x)) = KeysOf(g) \cup ({x} \ {NoKey})
          /\ Rising(Append(g, x)) <=> Rising(g) /\ Below(KeysOf(g), {x} \ {NoKey})
      BY <3>1, RisingAppend
    <3>. QED  BY <2>4, <3>2
  <2>9. /\ Sorted(A, X \cup B, C, D, E, F)
        /\ A \cup (X \cup B) \cup C \cup D \cup E \cup F = (1 .. typed) \ (lost.pre \cup lost.main)
    BY <2>7 DEF IInv, Order
  <2>10. Rising(t) /\ Below(X, B)
    BY <2>7 DEF IInv, Order
  <2>11. Below(A, X)
    BY <2>9 DEF Sorted, Below
  <2>12. Sorted(A \cup X, B, C, D, E, F)
    BY <2>9, <2>10, SortedMoves
  <2>13. /\ KeysOf(got)' = A \cup X /\ KeysOf(Contents(buf))' = B
         /\ Rising(got)' = Rising(Append(got, x)) /\ Rising(Contents(buf))' = Rising(t)
    BY <2>1, <2>2, <2>8
  <2>14. Order'
    BY <1>1, <1>2, <2>8, <2>9, <2>10, <2>11, <2>12, <2>13 DEF IInv, Order
  <2>. QED  BY <1>3, <1>4, <2>1, <2>2, <2>5, <2>6, <2>14
<1>6. CASE ~ HasItem(buf)
  <2>1. buf' = buf /\ got' = got /\ invalid' = invalid + 1
    BY <1>6 DEF ReturnKey, Consume
  <2>2. Types' /\ Order'
    BY <1>1, <1>2, <2>1 DEF IInv, Types, Order
  <2>. QED  BY <1>3, <1>4, <2>1, <2>2
<1>. QED  BY <1>5, <1>6

\* Each return of getkey() costs one unit: one that it finds ...
LEMMA GetkeyTakeKeeps ==
  ASSUME BBufferAssumption, KeyboardAssumption, IInv, NEW r \in Reader, GetkeyTake(r)
  PROVE  IInv'
<1>1. /\ counter > 0 /\ counter' = counter - 1 /\ ReturnKey
      /\ UNCHANGED <<codes, typed, prologueVars, due, prebuf, epilogueVars, waiting, woken, lost>>
  BY DEF GetkeyTake
<1>2. /\ Types' /\ Hands' /\ Order' /\ invalid' \in Nat /\ Size(buf') \in Nat
      /\ Size(buf') - invalid' = Size(buf) - invalid - 1
  BY <1>1, ReturnKeyIs
<1>3. Cardinality(woken) \in Nat /\ Size(buf) \in Nat /\ Cardinality(lost.main) \in Nat
  BY WokenIsFinite, UnitsBounded DEF IInv
<1>4. /\ counter \in Nat /\ invalid \in Nat
      /\ counter + Cardinality(woken) = Size(buf) + Cardinality(lost.main) - invalid
  BY DEF IInv, Units
<1>5. counter' \in Nat /\ counter' + Cardinality(woken) = Size(buf') + Cardinality(lost.main) - invalid'
  BY <1>1, <1>2, <1>3, <1>4
<1>6. Units'
  BY <1>1, <1>2, <1>5 DEF IInv, Units
<1>. QED  BY <1>2, <1>6 DEF IInv

\* ... or one that a v() has given to it, and which nobody can take in between.
LEMMA GetkeyWokenKeeps ==
  ASSUME BBufferAssumption, KeyboardAssumption, IInv, NEW r \in Reader, GetkeyWoken(r)
  PROVE  IInv'
<1>1. /\ r \in woken /\ woken' = woken \ {r} /\ ReturnKey
      /\ UNCHANGED <<codes, typed, prologueVars, due, prebuf, epilogueVars, counter, waiting, lost>>
  BY DEF GetkeyWoken
<1>2. /\ Types' /\ Hands' /\ Order' /\ invalid' \in Nat /\ Size(buf') \in Nat
      /\ Size(buf') - invalid' = Size(buf) - invalid - 1
  BY <1>1, ReturnKeyIs
<1>3. /\ IsFiniteSet(woken) /\ Cardinality(woken) \in Nat /\ Size(buf) \in Nat
      /\ Cardinality(lost.main) \in Nat
  BY WokenIsFinite, UnitsBounded DEF IInv
<1>4. /\ counter \in Nat /\ invalid \in Nat
      /\ counter + Cardinality(woken) = Size(buf) + Cardinality(lost.main) - invalid
  BY DEF IInv, Units
<1>5. Cardinality(woken \ {r}) = Cardinality(woken) - 1
  BY <1>1, <1>3, FS_RemoveElement
<1>6. counter + Cardinality(woken') = Size(buf') + Cardinality(lost.main) - invalid'
  BY <1>1, <1>2, <1>3, <1>4, <1>5
<1>7. Units'
  BY <1>1, <1>2, <1>6 DEF IInv, Units
<1>. QED  BY <1>2, <1>7 DEF IInv

\* A thread that waits is not among those that wait or were woken already.
LEMMA GetkeyBlockKeeps ==
  ASSUME BBufferAssumption, KeyboardAssumption, IInv, NEW r \in Reader, GetkeyBlock(r)
  PROVE  IInv'
<1>1. /\ r \notin woken /\ r \notin Range(waiting) /\ waiting' = Append(waiting, r)
      /\ UNCHANGED <<codes, typed, prologueVars, due, prebuf, epilogueVars, buf, counter, woken, history>>
  BY DEF GetkeyBlock
<1>2. UNCHANGED <<codes, typed, ppc, k, ret, due, prebuf, epc, e, buf, counter, woken, got, invalid, lost>>
  BY <1>1 DEF prologueVars, epilogueVars, history
<1>3. Types' /\ Hands'
  BY <1>2 DEF IInv, Types, Hands
<1>4. Order'
  BY <1>2 DEF IInv, Order, InMove, InHand
<1>. PICK q, w : q = waiting /\ w = Append(waiting, r)
  OBVIOUS
<1>5. /\ q \in Seq(Reader) /\ Len(q) \in Nat /\ DOMAIN q = 1 .. Len(q)
      /\ w \in Seq(Reader) /\ Len(w) = Len(q) + 1 /\ DOMAIN w = 1 .. Len(q) + 1
      /\ \A i \in 1 .. Len(q) : w[i] = q[i] /\ q[i] # r
      /\ w[Len(q) + 1] = r
  <2>1. q \in Seq(Reader)
    BY DEF IInv, Units
  <2>2. /\ Len(q) \in Nat /\ DOMAIN q = 1 .. Len(q)
        /\ w \in Seq(Reader) /\ Len(w) = Len(q) + 1 /\ DOMAIN w = 1 .. Len(q) + 1
        /\ \A i \in 1 .. Len(q) : w[i] = q[i]
        /\ w[Len(q) + 1] = r
    BY <2>1
  <2>3. \A i \in 1 .. Len(q) : q[i] # r
    BY <1>1, <2>2 DEF Range
  <2>. QED  BY <2>1, <2>2, <2>3
<1>6. IsInjective(w)
  <2>1. \A i, j \in 1 .. Len(q) : q[i] = q[j] => i = j
    BY <1>5 DEF IInv, Units, IsInjective
  <2>. SUFFICES ASSUME NEW i \in 1 .. Len(q) + 1, NEW j \in 1 .. Len(q) + 1, w[i] = w[j] PROVE i = j
    BY <1>5 DEF IsInjective
  <2>2. (i \in 1 .. Len(q) \/ i = Len(q) + 1) /\ (j \in 1 .. Len(q) \/ j = Len(q) + 1)
    BY <1>5
  <2>. QED  BY <1>5, <2>1, <2>2
<1>7. woken \cap Range(w) = {}
  <2>1. woken \cap Range(q) = {}
    BY DEF IInv, Units
  <2>2. ASSUME NEW i \in 1 .. Len(q) + 1 PROVE w[i] \notin woken
    <3>1. i \in 1 .. Len(q) \/ i = Len(q) + 1
      BY <1>5
    <3>. QED  BY <1>1, <1>5, <2>1, <3>1 DEF Range
  <2>. QED  BY <1>5, <2>2 DEF Range
<1>8. Units'
  BY <1>1, <1>2, <1>5, <1>6, <1>7 DEF IInv, Units
<1>. QED  BY <1>3, <1>4, <1>8 DEF IInv

-----------------------------------------------------------------------------
LEMMA Keeps ==
  ASSUME BBufferAssumption, KeyboardAssumption, IInv, [KeyNext]_keyboard
  PROVE  IInv'
<1>1. CASE Type
  BY <1>1, TypeKeeps
<1>2. CASE KeyPrologue
  BY <1>2, NoKeyMoves, HitKeeps, PrologueFullKeeps, PrologueStoreKeeps, ProloguePublishKeeps DEF KeyPrologue
<1>3. CASE KeyEpilogue
  BY <1>3, NoKeyMoves, EpilogueLoadKeeps, EpilogueDiscardKeeps, EpilogueMoveKeeps DEF KeyEpilogue
<1>4. ASSUME NEW r \in Reader, Getkey(r) PROVE IInv'
  BY <1>4, GetkeyTakeKeeps, GetkeyBlockKeeps, GetkeyWokenKeeps DEF Getkey
<1>5. CASE UNCHANGED keyboard
  <2>1. UNCHANGED <<codes, typed, ppc, k, ret, due, prebuf, epc, e, buf, got, lost, threadVars, history>>
    BY <1>5 DEF keyboard, prologueVars, epilogueVars, threadVars, history
  <2>2. Types' /\ Hands'
    BY <2>1 DEF IInv, Types, Hands
  <2>3. Order'
    BY <2>1 DEF IInv, Order, InMove, InHand
  <2>4. Units'
    BY <2>1, UnitsStay DEF IInv
  <2>. QED  BY <2>2, <2>3, <2>4 DEF IInv
<1>. QED  BY <1>1, <1>2, <1>3, <1>4, <1>5 DEF KeyNext

LEMMA Join ==
  ASSUME NEW q \in Seq(Nat), NEW r \in Seq(Nat), Rising(q), Rising(r),
         Below(KeysOf(q), KeysOf(r))
  PROVE  q \o r \in Seq(Nat) /\ Rising(q \o r) /\ KeysOf(q \o r) = KeysOf(q) \cup KeysOf(r)
<1>1. q \o r \in Seq(Nat)
  OBVIOUS
<1>2. /\ KeysOf(q \o r) = KeysOf(q) \cup KeysOf(r)
      /\ Rising(q \o r) <=> Rising(q) /\ Rising(r) /\ Below(KeysOf(q), KeysOf(r))
  BY RisingConcat
<1>. QED  BY <1>1, <1>2

\* Sequences of sorted places are one sorted sequence.
LEMMA PipelineIs ==
  ASSUME BBufferAssumption, KeyboardAssumption, IInv
  PROVE  Rising(Pipeline) /\ KeysOf(Pipeline) = (1 .. typed) \ (lost.pre \cup lost.main)
<1>. PICK q1, q2, q3, q4, q5, q6 :
        /\ q1 = got /\ q2 = Contents(buf) /\ q3 = (IF epc = "move" THEN <<e>> ELSE <<>>)
        /\ q4 = Contents(prebuf) /\ q5 = (IF ppc \in {"produce", "publish"} THEN <<k>> ELSE <<>>)
        /\ q6 = codes
  OBVIOUS
<1>. PICK A, B, C, D, E, F : /\ A = KeysOf(q1) /\ B = KeysOf(q2) /\ C = InMove
                             /\ D = KeysOf(q4) /\ E = InHand /\ F = KeysOf(q6)
  OBVIOUS
<1>1. q1 \in Seq(Nat) /\ q2 \in Seq(Nat) /\ q4 \in Seq(Nat) /\ q6 \in Seq(Nat)
  BY KeysAre DEF IInv, Types
<1>2. <<>> \in Seq(Nat) /\ Rising(<<>>) /\ KeysOf(<<>>) = {}
  <2>1. 0 \in Nat
    OBVIOUS
  <2>. QED  BY <2>1, RisingOne
<1>3. q3 \in Seq(Nat) /\ Rising(q3) /\ KeysOf(q3) = C
  <2>1. CASE epc = "move"
    <3>1. e \in Nat /\ {e} \ {NoKey} = {e}
      BY <2>1, KeysAre DEF IInv, Hands
    <3>. QED  BY <2>1, <3>1, RisingOne DEF InMove
  <2>2. CASE epc # "move"
    BY <1>2, <2>2 DEF InMove
  <2>. QED  BY <2>1, <2>2
<1>4. q5 \in Seq(Nat) /\ Rising(q5) /\ KeysOf(q5) = E
  <2>1. CASE ppc \in {"produce", "publish"}
    <3>1. k \in Nat /\ {k} \ {NoKey} = {k}
      BY <2>1, KeysAre DEF IInv, Hands
    <3>. QED  BY <2>1, <3>1, RisingOne DEF InHand
  <2>2. CASE ppc \notin {"produce", "publish"}
    BY <1>2, <2>2 DEF InHand
  <2>. QED  BY <2>1, <2>2
<1>5. /\ Rising(q1) /\ Rising(q2) /\ Rising(q4) /\ Rising(q6) /\ Sorted(A, B, C, D, E, F)
      /\ A \cup B \cup C \cup D \cup E \cup F = (1 .. typed) \ (lost.pre \cup lost.main)
  BY DEF IInv, Order
<1>6. /\ \A S, T, U : Below(S, U) /\ Below(T, U) => Below(S \cup T, U)
  BY DEF Below
<1>b. PICK h1, h2 : h1 = q3 \o q4 /\ h2 = (q3 \o q4) \o q5
  OBVIOUS
<1>7. h1 \in Seq(Nat) /\ Rising(h1) /\ KeysOf(h1) = C \cup D
  <2>1. Below(C, D)
    BY <1>5 DEF Sorted
  <2>2. Below(KeysOf(q3), KeysOf(q4)) /\ KeysOf(q3) \cup KeysOf(q4) = C \cup D
    BY <1>3, <2>1
  <2>3. h1 \in Seq(Nat) /\ Rising(h1) /\ KeysOf(h1) = KeysOf(q3) \cup KeysOf(q4)
    BY <1>1, <1>3, <1>5, <1>b, <2>2, Join
  <2>. QED  BY <2>2, <2>3
<1>8. h2 \in Seq(Nat) /\ Rising(h2) /\ KeysOf(h2) = C \cup D \cup E
  <2>1. h2 = h1 \o q5 /\ Below(C \cup D, E)
    BY <1>5, <1>6, <1>b DEF Sorted
  <2>2. Below(KeysOf(h1), KeysOf(q5)) /\ KeysOf(h1) \cup KeysOf(q5) = C \cup D \cup E
    BY <1>4, <1>7, <2>1
  <2>3. h1 \o q5 \in Seq(Nat) /\ Rising(h1 \o q5) /\ KeysOf(h1 \o q5) = KeysOf(h1) \cup KeysOf(q5)
    BY <1>4, <1>7, <2>2, Join
  <2>. QED  BY <2>1, <2>2, <2>3
<1>a. PICK p1, p2 : p1 = q1 \o q2 /\ p2 = (q1 \o q2) \o h2
  OBVIOUS
<1>9. p1 \in Seq(Nat) /\ Rising(p1) /\ KeysOf(p1) = A \cup B
  <2>1. Below(A, B)
    BY <1>5 DEF Sorted
  <2>. QED  BY <1>1, <1>5, <1>a, <2>1, Join
<1>10. p2 \in Seq(Nat) /\ Rising(p2) /\ KeysOf(p2) = A \cup B \cup (C \cup D \cup E)
  <2>1. p2 = p1 \o h2 /\ Below(A \cup B, C \cup D \cup E)
    BY <1>5, <1>a DEF Sorted, Below
  <2>2. Below(KeysOf(p1), KeysOf(h2)) /\ KeysOf(p1) \cup KeysOf(h2) = A \cup B \cup (C \cup D \cup E)
    BY <1>8, <1>9, <2>1
  <2>3. p1 \o h2 \in Seq(Nat) /\ Rising(p1 \o h2) /\ KeysOf(p1 \o h2) = KeysOf(p1) \cup KeysOf(h2)
    BY <1>8, <1>9, <2>2, Join
  <2>. QED  BY <2>1, <2>2, <2>3
<1>11. Rising(p2 \o q6) /\ KeysOf(p2 \o q6) = A \cup B \cup (C \cup D \cup E) \cup F
  <2>1. Below(A \cup B \cup (C \cup D \cup E), F)
    BY <1>5 DEF Sorted, Below
  <2>2. Below(KeysOf(p2), KeysOf(q6))
    BY <1>10, <2>1
  <2>3. Rising(p2 \o q6) /\ KeysOf(p2 \o q6) = KeysOf(p2) \cup KeysOf(q6)
    <3>1. p2 \in Seq(Nat) /\ q6 \in Seq(Nat) /\ Rising(p2) /\ Rising(q6)
      BY <1>1, <1>5, <1>10
    <3>. QED  BY ONLY <2>2, <3>1, Join
  <2>. QED  BY <1>10, <2>3
<1>12. Pipeline = p2 \o q6
  BY <1>a, <1>b DEF Pipeline, Held
<1>. QED  BY <1>5, <1>11, <1>12

LEMMA TypesAre ==
  ASSUME BBufferAssumption, KeyboardAssumption, IInv
  PROVE  KeyTypeOK
<1>1. /\ IsFiniteSet(Reader) /\ MaxKeys \in Nat /\ MaxCodes \in Nat /\ Cardinality(Reader) \in Nat
  BY FS_CardinalityType DEF KeyboardAssumption
<1>2. codes \in SeqOf({NoKey} \cup Key, MaxCodes)
  BY <1>1, InSeqOf DEF IInv, Types
<1>3. waiting \in SeqOf(Reader, Cardinality(Reader))
  BY <1>1, InSeqOf, InjectiveCounts DEF IInv, Units
<1>4. got \in SeqOf(Key, MaxKeys)
  BY <1>1, InSeqOf, UnitsBounded DEF IInv, Types
<1>5. counter \in 0 .. MaxKeys /\ invalid \in 0 .. MaxKeys
  <2>1. /\ Size(buf) \in Nat /\ Cardinality(lost.main) \in Nat /\ Cardinality(woken) \in Nat
        /\ Size(buf) + Cardinality(lost.main) <= MaxKeys
    BY UnitsBounded, WokenIsFinite DEF IInv
  <2>2. /\ counter \in Nat /\ invalid \in Nat
        /\ counter + Cardinality(woken) = Size(buf) + Cardinality(lost.main) - invalid
    BY DEF IInv, Units
  <2>. QED  BY <1>1, <2>1, <2>2
<1>. QED  BY <1>2, <1>3, <1>4, <1>5 DEF IInv, Types, Units, KeyTypeOK

\* Between the controller and the threads no key is lost but where a full buffer
\* refuses it, none comes twice and none overtakes another, and the semaphore
\* counts what getkey() is still to return, for any capacity of the buffers, any
\* number of keys and any readers: Keyboard::prologue() and epilogue()
\* (keyboard.cc) need no lock for the buffer they share.
THEOREM KeysArriveInOrder ==
  ASSUME BBufferAssumption, KeyboardAssumption
  PROVE  KeySpec => []KeysInOrder
<1>1. KeyInit => IInv
  BY InitHolds
<1>2. IInv /\ [KeyNext]_keyboard => IInv'
  BY Keeps
<1>3. IInv => KeysInOrder
  BY PipelineIs, TypesAre DEF KeysInOrder, IInv, Units
<1>. QED  BY <1>1, <1>2, <1>3, PTL DEF KeySpec

-----------------------------------------------------------------------------
(* The console, which has a buffer of the same kind                        *)

LEMMA IsList ==
  ASSUME NEW S, NEW n \in Nat, NEW q \in [1 .. n -> S]
  PROVE  q \in Seq(S) /\ Len(q) = n
  OBVIOUS

\* One buffer for what comes in: what it took and kout has not got is in the
\* epilogue's hand and in the buffer, and an epilogue will be there for it.
Received ==
  /\ line_ppc \in {"none", "produce", "relay"} /\ line_epc \in {"none", "consume", "put", "flush"}
  /\ rbr \in Byte \cup {Nothing}
  /\ line_buf \in Buffers(Byte \cup {Nothing})
  /\ line_ppc = "produce" => line_c \in Byte
  /\ line_e = Nothing <=> line_epc # "put"
  /\ line_epc = "put" <=> wpc["epilogue"] = "store"
  /\ Contents(line_buf) \in Seq(Byte)
  /\ taken = (IF line_e = Nothing THEN <<>> ELSE <<line_e>>) \o Contents(line_buf)
  /\ line_e # Nothing => line_e \in Byte
  /\ HasItem(line_buf) => line_due \/ line_ppc = "relay" \/ line_epc \in {"consume", "put"}

Kinds ==
  /\ wpc \in [Writer -> {"none", "store", "print", "reset"}]
  /\ at = [w \in Writer |-> at[w]] /\ clash \in BOOLEAN

\* While no two writers have met, one at most is in kout, at the position it has loaded.
Kout ==
  ~ clash =>
    /\ ~ beyond /\ pos \in 0 .. Limit /\ buffer = [p \in 0 .. Limit - 1 |-> buffer[p]]
    /\ wpc["epilogue"] = "none" \/ wpc["thread"] = "none"
    /\ \A w \in Writer : wpc[w] = "store" => at[w] = pos /\ pos < Limit
    /\ written = IF \E w \in Writer : wpc[w] = "reset" THEN <<>>
                 ELSE [p \in 1 .. pos |-> buffer[p - 1]]
    /\ pos = Limit => \E w \in Writer : wpc[w] # "none"

ConsoleInv == Received /\ Kinds /\ Kout

LEMMA ConsoleStarts ==
  ASSUME BBufferAssumption, ConsoleAssumption, ConsoleInit
  PROVE  ConsoleInv
<1>1. Received
  <2>. PICK b : b = line_buf
    OBVIOUS
  <2>1. b = BBufferInit(Nothing)
    BY DEF ConsoleInit
  <2>2. b \in Buffers(Byte \cup {Nothing}) /\ ~ HasItem(b)
    BY <2>1 DEF BBufferInit, Buffers, Index, BBufferAssumption, HasItem
  <2>3. Size(b) = 0
    BY <2>2, RingIs
  <2>4. Contents(b) = <<>>
    BY <2>2, <2>3, ContentsIs
  <2>. QED  BY <2>2, <2>4 DEF Received, ConsoleInit, Writer
<1>2. Kinds
  BY DEF Kinds, ConsoleInit
<1>3. Kout
  BY DEF Kout, ConsoleInit, Blank, Writer, ConsoleAssumption
<1>. QED  BY <1>1, <1>2, <1>3 DEF ConsoleInv

-----------------------------------------------------------------------------
(* kout                                                                    *)

LEMMA TheOther ==
  ASSUME NEW w \in Writer
  PROVE  /\ Other(w) \in Writer /\ Other(w) # w
         /\ \A v \in Writer : v = w \/ v = Other(w)
  BY DEF Writer, Other

\* A step of a writer that meets no other.
LEMMA Alone ==
  ASSUME Kinds, Kout, NEW w \in Writer, NEW to \in {"none", "store", "print", "reset"},
         Step(w, to), ~ clash', NEW o, o = Other(w)
  PROVE  /\ ~ clash /\ wpc[o] = "none" /\ wpc'[o] = "none" /\ wpc'[w] = to
         /\ o \in Writer /\ \A v \in Writer : v = w \/ v = o
  BY TheOther DEF Kinds, Step, In

LEMMA StepKinds ==
  ASSUME Kinds, NEW w \in Writer, NEW to \in {"none", "store", "print", "reset"}, Step(w, to),
         at' = [v \in Writer |-> at'[v]]
  PROVE  Kinds'
  BY DEF Kinds, Step, In

LEMMA PutLoadKeeps ==
  ASSUME Kinds, Kout, ConsoleAssumption, NEW w \in Writer, PutLoad(w)
  PROVE  Kinds' /\ Kout'
<1>1. /\ Step(w, "store") /\ wpc[w] = "none" /\ at' = [at EXCEPT ![w] = pos]
      /\ UNCHANGED <<buffer, pos, written, beyond>>
  BY DEF PutLoad, In
<1>2. Kinds'
  BY <1>1, StepKinds DEF Kinds
<1>3. ASSUME ~ clash' PROVE Kout'
  <2>. PICK o : o = Other(w)
    OBVIOUS
  <2>1. /\ ~ clash /\ wpc[o] = "none" /\ wpc'[o] = "none" /\ wpc'[w] = "store"
        /\ o \in Writer /\ \A v \in Writer : v = w \/ v = o
    BY <1>1, <1>3, Alone
  <2>2. pos # Limit /\ pos \in 0 .. Limit /\ Limit \in Nat
    BY <1>1, <2>1 DEF Kout, ConsoleAssumption
  <2>3. at'[w] = pos /\ pos < Limit
    BY <1>1, <2>2 DEF Kinds
  <2>4. written = [p \in 1 .. pos |-> buffer[p - 1]]
    BY <1>1, <2>1 DEF Kout
  <2>5. ~ \E v \in Writer : wpc'[v] = "reset"
    BY <2>1
  <2>6. wpc'["epilogue"] = "none" \/ wpc'["thread"] = "none"
    BY <2>1 DEF Writer
  <2>7. \A v \in Writer : wpc'[v] = "store" => at'[v] = pos' /\ pos' < Limit
    BY <1>1, <2>1, <2>3
  <2>. QED  BY <1>1, <2>1, <2>2, <2>4, <2>5, <2>6, <2>7 DEF Kout
<1>. QED  BY <1>2, <1>3 DEF Kout

LEMMA PutStoreKeeps ==
  ASSUME Kinds, Kout, ConsoleAssumption, NEW w \in Writer, NEW char, PutStore(w, char)
  PROVE  Kinds' /\ Kout'
<1>. PICK to : to = IF at[w] + 1 = Limit THEN "print" ELSE "none"
  OBVIOUS
<1>1. /\ to \in {"none", "print"} /\ Step(w, to) /\ wpc[w] = "store" /\ at' = [at EXCEPT ![w] = 0]
      /\ beyond' = (at[w] >= Limit) /\ pos' = at[w] + 1
      /\ ~ clash' => buffer' = [buffer EXCEPT ![at[w]] = char] /\ written' = Append(written, char)
  BY DEF PutStore
<1>2. Kinds'
  BY <1>1, StepKinds DEF Kinds
<1>3. ASSUME ~ clash' PROVE Kout'
  <2>. PICK o : o = Other(w)
    OBVIOUS
  <2>1. /\ ~ clash /\ wpc[o] = "none" /\ wpc'[o] = "none" /\ wpc'[w] = to
        /\ o \in Writer /\ \A v \in Writer : v = w \/ v = o
    BY <1>1, <1>3, Alone
  <2>2. /\ at[w] = pos /\ pos < Limit /\ pos \in 0 .. Limit /\ Limit \in Nat
        /\ buffer = [p \in 0 .. Limit - 1 |-> buffer[p]]
        /\ written = [p \in 1 .. pos |-> buffer[p - 1]]
    BY <1>1, <2>1 DEF Kout, ConsoleAssumption
  <2>3. pos' = pos + 1 /\ pos' \in 0 .. Limit /\ ~ beyond' /\ pos \in 0 .. Limit - 1
    <3>1. pos' = pos + 1 /\ beyond' = (pos >= Limit)
      BY <1>1, <2>2
    <3>2. pos + 1 \in 0 .. Limit /\ pos \in 0 .. Limit - 1 /\ ~ pos >= Limit
      BY <2>2
    <3>. QED  BY <3>1, <3>2
  <2>4. buffer' = [buffer EXCEPT ![pos] = char] /\ written' = Append(written, char)
    BY <1>1, <1>3, <2>2
  <2>5. buffer' = [p \in 0 .. Limit - 1 |-> buffer'[p]] /\ buffer'[pos] = char
        /\ \A p \in 0 .. Limit - 1 : p # pos => buffer'[p] = buffer[p]
    BY <2>2, <2>3, <2>4
  <2>6. written' = [p \in 1 .. pos' |-> buffer'[p - 1]]
    <3>1. written \in Seq(Range(buffer)) /\ Len(written) = pos
      <4>1. \A p \in 1 .. pos : p - 1 \in 0 .. Limit - 1
        BY <2>2
      <4>2. \A p \in 0 .. Limit - 1 : buffer[p] \in Range(buffer)
        BY <2>2 DEF Range
      <4>3. written \in [1 .. pos -> Range(buffer)]
        BY <2>2, <4>1, <4>2
      <4>4. pos \in Nat
        BY <2>2
      <4>. QED  BY <4>3, <4>4, IsList
    <3>2. /\ written' = [p \in 1 .. pos + 1 |-> IF p = pos + 1 THEN char ELSE written[p]]
      BY <2>2, <2>4, <3>1
    <3>3. \A p \in 1 .. pos + 1 : (IF p = pos + 1 THEN char ELSE written[p]) = buffer'[p - 1]
      BY <2>2, <2>3, <2>5
    <3>. QED  BY <2>3, <3>2, <3>3
  <2>7. ~ (\E v \in Writer : wpc'[v] = "reset") /\ \A v \in Writer : wpc'[v] # "store"
    BY <1>1, <2>1
  <2>8. wpc'["epilogue"] = "none" \/ wpc'["thread"] = "none"
    BY <2>1 DEF Writer
  <2>9. pos' = Limit => wpc'[w] # "none"
    BY <2>1, <2>2, <2>3
  <2>. QED  BY <2>3, <2>5, <2>6, <2>7, <2>8, <2>9 DEF Kout
<1>. QED  BY <1>2, <1>3 DEF Kout

LEMMA FlushKeeps ==
  ASSUME Kinds, Kout, ConsoleAssumption, NEW w \in Writer, Flush(w) \/ Flushes(w)
  PROVE  Kinds' /\ Kout'
<1>1. PICK to \in {"none", "print", "reset"} :
        /\ Step(w, to) /\ UNCHANGED <<at, beyond>>
        /\ \/ to = "print" /\ wpc[w] = "none" /\ UNCHANGED <<buffer, pos, written>>
           \/ to = "reset" /\ wpc[w] = "print" /\ UNCHANGED <<buffer, pos>>
              /\ written' = SubSeq(written, pos + 1, Len(written))
           \/ to = "none" /\ wpc[w] = "reset" /\ pos' = 0 /\ buffer' = Blank /\ UNCHANGED written
  BY DEF Flush, Flushes, FlushPrint, FlushReset, In
<1>2. Kinds'
  BY <1>1, StepKinds DEF Kinds
<1>3. ASSUME ~ clash' PROVE Kout'
  <2>. PICK o : o = Other(w)
    OBVIOUS
  <2>1. /\ ~ clash /\ wpc[o] = "none" /\ wpc'[o] = "none" /\ wpc'[w] = to
        /\ o \in Writer /\ \A v \in Writer : v = w \/ v = o
    BY <1>1, <1>3, Alone
  <2>2. /\ ~ beyond /\ pos \in 0 .. Limit /\ Limit \in Nat \ {0}
        /\ buffer = [p \in 0 .. Limit - 1 |-> buffer[p]]
        /\ written = IF wpc[w] = "reset" THEN <<>> ELSE [p \in 1 .. pos |-> buffer[p - 1]]
    BY <2>1 DEF Kout, ConsoleAssumption
  <2>3. wpc'["epilogue"] = "none" \/ wpc'["thread"] = "none"
    BY <2>1 DEF Writer
  <2>4. \A v \in Writer : wpc'[v] # "store"
    BY <1>1, <2>1
  <2>5. (\E v \in Writer : wpc'[v] = "reset") <=> to = "reset"
    BY <2>1
  <2>6. CASE to = "print"
    <3>1. UNCHANGED <<buffer, pos, written, beyond>> /\ wpc[w] = "none"
      BY <1>1, <2>6
    <3>. QED  BY <2>1, <2>2, <2>3, <2>4, <2>5, <2>6, <3>1 DEF Kout
  <2>7. CASE to = "reset"
    <3>1. UNCHANGED <<buffer, pos, beyond>> /\ wpc[w] = "print" /\ written' = SubSeq(written, pos + 1, Len(written))
      BY <1>1, <2>7
    <3>2. Len(written) = pos /\ written \in Seq({buffer[p] : p \in 0 .. Limit - 1})
      <4>1. \A p \in 1 .. pos : p - 1 \in 0 .. Limit - 1
        BY <2>2
      <4>2. written \in [1 .. pos -> {buffer[p] : p \in 0 .. Limit - 1}]
        BY <2>2, <3>1, <4>1
      <4>3. pos \in Nat
        BY <2>2
      <4>. QED  BY <4>2, <4>3, IsList
    <3>3. written' = <<>>
      BY <2>2, <3>1, <3>2
    <3>. QED  BY <2>1, <2>2, <2>3, <2>4, <2>5, <2>7, <3>1, <3>3 DEF Kout
  <2>8. CASE to = "none"
    <3>1. pos' = 0 /\ buffer' = Blank /\ written' = <<>> /\ beyond' = beyond
      BY <1>1, <2>2, <2>8
    <3>2. buffer' = [p \in 0 .. Limit - 1 |-> buffer'[p]] /\ <<>> = [p \in 1 .. 0 |-> buffer'[p - 1]]
      BY <3>1 DEF Blank
    <3>. QED  BY <2>1, <2>2, <2>3, <2>4, <2>5, <2>8, <3>1, <3>2 DEF Kout
  <2>. QED  BY <1>1, <2>6, <2>7, <2>8
<1>. QED  BY <1>2, <1>3 DEF Kout

-----------------------------------------------------------------------------
(* What comes in                                                           *)

\* A step that leaves all of this alone.
LEMMA ReceivedStays ==
  ASSUME Received, wpc["epilogue"] = "store" <=> wpc'["epilogue"] = "store",
         UNCHANGED <<rbr, listening, line_ppc, line_c, line_due, line_buf, line_epc, line_e, taken>>
  PROVE  Received'
  BY DEF Received

LEMMA LineKeeps ==
  ASSUME ConsoleInv, ConsoleAssumption,
         \/ Listen \/ \E b \in Byte : Arrive(b)
         \/ PrologueRead \/ LinePrologueDone \/ LineEpilogueBegins \/ EpilogueEmpty
  PROVE  ConsoleInv'
<1>1. UNCHANGED <<buffer, pos, wpc, at, written, clash, beyond, line_buf, line_e, taken>>
  BY DEF Listen, Arrive, PrologueRead, LinePrologueDone, LineEpilogueBegins,
         EpilogueEmpty, kout, line_epilogue
<1>2. Kinds' /\ Kout'
  BY <1>1 DEF ConsoleInv, Kinds, Kout
<1>3. Received
  BY DEF ConsoleInv
<1>. USE DEF Received, receiver, line_prologue, line_epilogue
<1>4. ASSUME Listen \/ \E b \in Byte : Arrive(b) PROVE Received'
  BY <1>1, <1>3, <1>4 DEF Listen, Arrive
<1>5. ASSUME PrologueRead PROVE Received'
  BY <1>1, <1>3, <1>5 DEF PrologueRead
<1>6. ASSUME LinePrologueDone PROVE Received'
  BY <1>1, <1>3, <1>6 DEF LinePrologueDone
<1>7. ASSUME LineEpilogueBegins PROVE Received'
  BY <1>1, <1>3, <1>7 DEF LineEpilogueBegins
<1>8. ASSUME EpilogueEmpty PROVE Received'
  BY <1>1, <1>3, <1>8 DEF EpilogueEmpty
<1>9. Received'
  BY <1>4, <1>5, <1>6, <1>7, <1>8
<1>. QED  BY <1>2, <1>9 DEF ConsoleInv

LEMMA LineProduceKeeps ==
  ASSUME BBufferAssumption, ConsoleInv, PrologueProduce
  PROVE  ConsoleInv'
<1>1. /\ line_ppc = "produce" /\ line_ppc' = "relay" /\ line_buf' = Produce(line_buf, line_c)
      /\ taken' = IF HasRoom(line_buf) THEN Append(taken, line_c) ELSE taken
      /\ UNCHANGED <<rbr, listening, line_c, line_due, line_epc, line_e>>
      /\ UNCHANGED <<buffer, pos, wpc, at, written, clash, beyond>>
  BY DEF PrologueProduce, receiver, line_epilogue, kout
<1>2. Kinds' /\ Kout'
  BY <1>1 DEF ConsoleInv, Kinds, Kout
<1>3. /\ line_c \in Byte /\ line_buf \in Buffers(Byte \cup {Nothing}) /\ Contents(line_buf) \in Seq(Byte)
      /\ taken = (IF line_e = Nothing THEN <<>> ELSE <<line_e>>) \o Contents(line_buf)
      /\ line_e # Nothing => line_e \in Byte
  BY <1>1 DEF ConsoleInv, Received
<1>4. CASE ~ HasRoom(line_buf)
  <2>1. line_buf' = line_buf /\ taken' = taken
    BY <1>1, <1>4 DEF Produce
  <2>. QED  BY <1>1, <1>2, <2>1 DEF ConsoleInv, Received
<1>5. CASE HasRoom(line_buf)
  <2>1. line_buf' \in Buffers(Byte \cup {Nothing}) /\ Contents(line_buf') = Append(Contents(line_buf), line_c)
    BY <1>1, <1>3, <1>5, ProduceIs
  <2>2. \A q \in Seq(Byte) :
          /\ Append(q, line_c) \in Seq(Byte) /\ Append(<<>> \o q, line_c) = <<>> \o Append(q, line_c)
          /\ \A x \in Byte : Append(<<x>> \o q, line_c) = <<x>> \o Append(q, line_c)
    <3>. SUFFICES ASSUME NEW q \in Seq(Byte)
         PROVE  /\ Append(q, line_c) \in Seq(Byte) /\ Append(<<>> \o q, line_c) = <<>> \o Append(q, line_c)
                /\ \A x \in Byte : Append(<<x>> \o q, line_c) = <<x>> \o Append(q, line_c)
      OBVIOUS
    <3>1. <<line_c>> \in Seq(Byte) /\ Append(q, line_c) \in Seq(Byte) /\ Append(q, line_c) = q \o <<line_c>>
      BY <1>3
    <3>2. \A p \in Seq(Byte) : Append(p \o q, line_c) = p \o Append(q, line_c)
      <4>. SUFFICES ASSUME NEW p \in Seq(Byte) PROVE Append(p \o q, line_c) = p \o Append(q, line_c)
        OBVIOUS
      <4>1. p \o q \in Seq(Byte) /\ Append(p \o q, line_c) = (p \o q) \o <<line_c>>
        BY <1>3
      <4>2. (p \o q) \o <<line_c>> = p \o (q \o <<line_c>>)
        BY <3>1, ConcatAssociative
      <4>. QED  BY <3>1, <4>1, <4>2
    <3>. QED  BY <3>1, <3>2
  <2>3. taken' = (IF line_e = Nothing THEN <<>> ELSE <<line_e>>) \o Contents(line_buf')
        /\ Contents(line_buf') \in Seq(Byte)
    BY <1>1, <1>3, <1>5, <2>1, <2>2
  <2>. QED  BY <1>1, <1>2, <2>1, <2>3 DEF ConsoleInv, Received
<1>. QED  BY <1>4, <1>5

LEMMA LineConsumeKeeps ==
  ASSUME BBufferAssumption, ConsoleInv, ConsoleAssumption, EpilogueConsume
  PROVE  ConsoleInv'
<1>1. /\ line_epc = "consume" /\ line_epc' = "put" /\ HasItem(line_buf) /\ PutLoad("epilogue")
      /\ line_e' = First(line_buf) /\ line_buf' = Discard(line_buf)
      /\ UNCHANGED <<rbr, listening, line_ppc, line_c, line_due, taken>>
  BY DEF EpilogueConsume, receiver, line_prologue, Consume
<1>2. Kinds' /\ Kout' /\ wpc'["epilogue"] = "store"
  <2>1. "epilogue" \in Writer
    BY DEF Writer
  <2>2. Kinds' /\ Kout'
    BY <1>1, <2>1, PutLoadKeeps DEF ConsoleInv
  <2>. QED  BY <1>1, <2>1, <2>2 DEF PutLoad, Step, ConsoleInv, Kinds
<1>3. /\ line_buf \in Buffers(Byte \cup {Nothing}) /\ Contents(line_buf) \in Seq(Byte)
      /\ taken = <<>> \o Contents(line_buf)
  BY <1>1 DEF ConsoleInv, Received
<1>4. /\ line_buf' \in Buffers(Byte \cup {Nothing}) /\ Contents(line_buf) # <<>>
      /\ Contents(line_buf') = Tail(Contents(line_buf)) /\ line_e' = Head(Contents(line_buf))
  BY <1>1, <1>3, DiscardIs
<1>5. \A q \in Seq(Byte) : q # <<>> => /\ Head(q) \in Byte /\ Tail(q) \in Seq(Byte)
                                       /\ <<>> \o q = <<Head(q)>> \o Tail(q)
  OBVIOUS
<1>6. line_e' \in Byte /\ Contents(line_buf') \in Seq(Byte) /\ taken' = <<line_e'>> \o Contents(line_buf')
  BY <1>1, <1>3, <1>4, <1>5
<1>7. line_e' # Nothing
  BY <1>6 DEF ConsoleAssumption, Nothing
<1>. QED  BY <1>1, <1>2, <1>4, <1>6, <1>7 DEF ConsoleInv, Received

LEMMA LinePutKeeps ==
  ASSUME ConsoleInv, ConsoleAssumption, EpiloguePut
  PROVE  ConsoleInv'
<1>. PICK char : char = IF line_e = CR THEN LF ELSE line_e
  OBVIOUS
<1>1. /\ line_epc = "put" /\ line_epc' = "consume" /\ PutStore("epilogue", char)
      /\ line_e' = Nothing /\ taken' = Tail(taken)
      /\ UNCHANGED <<rbr, listening, line_ppc, line_c, line_due, line_buf>>
  BY DEF EpiloguePut, EpiloguePuts, receiver, line_prologue
<1>2. Kinds' /\ Kout' /\ wpc'["epilogue"] # "store"
  <2>1. "epilogue" \in Writer
    BY DEF Writer
  <2>2. Kinds' /\ Kout'
    BY <1>1, <2>1, PutStoreKeeps DEF ConsoleInv
  <2>. QED  BY <1>1, <2>1, <2>2 DEF PutStore, Step, ConsoleInv, Kinds
<1>3. line_e \in Byte /\ Contents(line_buf) \in Seq(Byte) /\ taken = <<line_e>> \o Contents(line_buf)
  BY <1>1 DEF ConsoleInv, Received
<1>4. \A q \in Seq(Byte), x \in Byte : Tail(<<x>> \o q) = <<>> \o q
  OBVIOUS
<1>5. taken' = <<>> \o Contents(line_buf')
  BY <1>1, <1>3, <1>4
<1>. QED  BY <1>1, <1>2, <1>5 DEF ConsoleInv, Received

\* The end of an epilogue, threads, and the printing of the buffer
LEMMA LineWritersKeep ==
  ASSUME ConsoleInv, ConsoleAssumption,
         \/ LineEpilogueDone \/ ThreadPut \/ ThreadFlush \/ \E char \in Text : ThreadStore(char)
         \/ \E w \in Writer : /\ Flushes(w)
                                   /\ UNCHANGED <<rbr, listening, line_ppc, line_c, line_due, line_buf, line_epc,
                                                  line_e, taken>>
  PROVE  ConsoleInv'
<1>1. "epilogue" \in Writer /\ "thread" \in Writer /\ Kinds /\ Kout /\ Received
  BY DEF Writer, ConsoleInv
<1>. USE DEF receiver, line_prologue, line_epilogue
<1>2. CASE LineEpilogueDone
  <2>1. /\ Flush("epilogue") /\ line_epc = "flush" /\ line_epc' = "none"
        /\ UNCHANGED <<rbr, listening, line_ppc, line_c, line_due, line_buf, line_e, taken>>
    BY <1>2 DEF LineEpilogueDone
  <2>2. Kinds' /\ Kout' /\ wpc'["epilogue"] = "print"
    BY <1>1, <2>1, FlushKeeps DEF Flush, Step, Kinds
  <2>3. Received'
    BY <1>1, <2>1, <2>2 DEF Received
  <2>. QED  BY <2>2, <2>3 DEF ConsoleInv
<1>3. ASSUME ThreadPut \/ ThreadFlush \/ \E char \in Text : ThreadStore(char)
      PROVE  ConsoleInv'
  <2>1. UNCHANGED <<rbr, listening, line_ppc, line_c, line_due, line_buf, line_epc, line_e, taken>>
    BY <1>3 DEF ThreadPut, ThreadFlush, ThreadStore
  <2>2. PutLoad("thread") \/ Flush("thread") \/ \E char \in Text : PutStore("thread", char)
    BY <1>3 DEF ThreadPut, ThreadFlush, ThreadStore
  <2>3. Kinds' /\ Kout'
    BY <1>1, <2>2, PutLoadKeeps, FlushKeeps, PutStoreKeeps
  <2>4. \E to : Step("thread", to)
    BY <2>2 DEF PutLoad, Flush, PutStore
  <2>5. wpc'["epilogue"] = wpc["epilogue"]
    BY <1>1, <2>4 DEF Step, Kinds
  <2>. QED  BY <1>1, <2>1, <2>3, <2>5, ReceivedStays DEF ConsoleInv
<1>4. ASSUME NEW w \in Writer, Flushes(w),
             UNCHANGED <<rbr, listening, line_ppc, line_c, line_due, line_buf, line_epc, line_e, taken>>
      PROVE  ConsoleInv'
  <2>1. Kinds' /\ Kout'
    BY <1>1, <1>4, FlushKeeps
  <2>2. wpc["epilogue"] = "store" <=> wpc'["epilogue"] = "store"
    <3>1. CASE w = "epilogue"
      BY <1>1, <1>4, <3>1 DEF Flushes, FlushPrint, FlushReset, Step, Kinds
    <3>2. CASE w = "thread"
      BY <1>1, <1>4, <3>2 DEF Flushes, FlushPrint, FlushReset, Step, Kinds
    <3>. QED  BY <3>1, <3>2 DEF Writer
  <2>. QED  BY <1>1, <1>4, <2>1, <2>2, ReceivedStays DEF ConsoleInv
<1>. QED  BY <1>2, <1>3, <1>4

\* device/console.cc, object/bbuffer.h, object/strbuf.cc: what was received is printed
\* once and in order, an epilogue is due while some of it waits, and kout shows what was
\* put into it as long as no two writers meet in it, for any sizes and any number of
\* characters.
THEOREM ReceivedInOrder ==
  ASSUME BBufferAssumption, ConsoleAssumption
  PROVE  ConsoleSpec => []ConsoleInOrder
<1>1. ConsoleInv /\ [ConsoleNext]_console => ConsoleInv'
  <2>. SUFFICES ASSUME ConsoleInv, [ConsoleNext]_console PROVE ConsoleInv'
    OBVIOUS
  <2>1. CASE UNCHANGED console
    BY <2>1 DEF console, receiver, line_prologue, line_epilogue, kout, ConsoleInv, Received,
                Kinds, Kout
  <2>2. CASE ConsoleNext
    BY <2>2, LineKeeps, LineProduceKeeps, LineConsumeKeeps, LinePutKeeps, LineWritersKeep
       DEF ConsoleNext, receiver, line_prologue, line_epilogue
  <2>. QED  BY <2>1, <2>2
<1>2. ConsoleInv => ConsoleInOrder
  BY DEF ConsoleInv, Received, Kinds, Kout, ConsoleInOrder, In
<1>. QED  BY ConsoleStarts, <1>1, <1>2, PTL DEF ConsoleSpec

-----------------------------------------------------------------------------
(* The stub                                                                *)

-----------------------------------------------------------------------------
(* The inductive invariant                                                 *)

StubTypes ==
  /\ pc \in [CPU -> {"run", "trap", "lock", "handle"}]
  /\ tickets \in Seq(CPU)
  /\ spc \in {"none", "ack", "recv", "done"}
  /\ regs = [c \in CPU |-> regs[c]] /\ want = [c \in CPU |-> want[c]]
  /\ errors \in Nat

\* Who has a ticket waits or is in handle(), and only the first one is there.
Lock ==
  /\ IsInjective(tickets)
  /\ \A c \in CPU : Contains(tickets, c) <=> pc[c] \in {"lock", "handle"}
  /\ \A c \in CPU : pc[c] = "handle" => Owner = c /\ spc # "none"
  /\ spc # "none" => tickets # <<>> /\ pc[Owner] = "handle"

Registers ==
  /\ \A c \in CPU : pc[c] \in {"run", "trap", "lock"} => regs[c] = want[c]
  /\ spc # "none" => state = want[Owner]

\* The debugger's last command tells the CPU to go on.
ToldTo == asked.cmd \in {"c", "s"}

\* What the debugger expects for its command
Answer ==
  CASE asked.cmd \in {"g", "m"} -> "value" [] asked.cmd \in {"G", "M"} -> "OK"
    [] asked.cmd = "?" -> "S" [] asked.cmd = "bad" -> "E" [] OTHER -> ""

\* No CPU is in the stub, or the one that is there is about to go on.
Apart ==
  /\ spc \in {"none", "done"} /\ toStub = <<>>
  /\ \/ gdb = "stop" /\ toGdb = <<>>
     \/ gdb = "taken" /\ ToldTo /\ toGdb = <<Ack("+")>>
\* A CPU has stopped and said so.
Stopped ==
  /\ spc = "ack" /\ toStub = <<>>
  /\ \/ gdb = "stop" /\ toGdb = <<Packet("S", 0, TRUE)>>
     \/ gdb = "taken" /\ ToldTo /\ toGdb = <<Ack("+"), Packet("S", 0, TRUE)>>
\* The debugger thinks, or its command is on its way; the acknowledgement of what
\* it got before is on the line until recv_ack() takes it.
Asked ==
  /\ toGdb = <<>>
  /\ \/ spc = "ack" /\ gdb = "idle" /\ toStub = <<Ack("+")>>
     \/ spc = "ack" /\ gdb = "taken" /\ toStub = <<Ack("+"), asked>>
     \/ spc = "recv" /\ gdb = "idle" /\ toStub = <<>>
     \/ spc = "recv" /\ gdb = "taken" /\ toStub = <<asked>>
\* The command was executed and answered.
Replied ==
  /\ spc = "ack" /\ toStub = <<>> /\ ~ ToldTo
  /\ \E v : /\ asked.cmd = "g" => v = want[Owner].value
            /\ \/ gdb = "taken" /\ toGdb = <<Ack("+"), Packet(Answer, v, TRUE)>>
               \/ gdb = "answer" /\ toGdb = <<Packet(Answer, v, TRUE)>>

Dialogue ==
  /\ gdb = "taken" => asked.good /\ ~ IsAck(asked)
  /\ Apart \/ Stopped \/ Asked \/ Replied

StubInv ==
  /\ StubTypes /\ Lock /\ Registers
  /\ errors = 0 => seen /\ (spc = "done" => told) /\ Dialogue

-----------------------------------------------------------------------------
(* The lock and the registers                                              *)

LEMMA RunKeeps == ASSUME StubInv, NEW c \in CPU, Run(c) PROVE StubTypes' /\ Lock' /\ Registers'
<1>. PICK v \in Value : regs' = [regs EXCEPT ![c].value = v] /\ want' = [want EXCEPT ![c].value = v]
  BY DEF Run
<1>1. /\ pc[c] = "run" /\ pc' = [pc EXCEPT ![c] = IF regs[c].step THEN "trap" ELSE "run"]
      /\ UNCHANGED <<tickets, state, spc, errors>>
  BY DEF Run
<1>2. StubTypes'
  BY <1>1 DEF StubInv, StubTypes
<1>3. Lock'
  BY <1>1 DEF StubInv, StubTypes, Lock, Owner
<1>4. Registers'
  <2>1. spc # "none" => Owner # c /\ Owner' = Owner /\ Owner \in CPU
    <3>1. spc # "none" => Owner \in CPU
      BY DEF StubInv, StubTypes, Lock, Owner
    <3>. QED  BY <1>1, <3>1 DEF StubInv, Lock, Owner
  <2>2. \A d \in CPU : regs[d] = want[d] => regs'[d] = want'[d]
    BY DEF StubInv, StubTypes
  <2>3. \A d \in CPU : d # c => want'[d] = want[d] /\ pc'[d] = pc[d]
    BY <1>1 DEF StubInv, StubTypes
  <2>. QED  BY <1>1, <2>1, <2>2, <2>3 DEF StubInv, Registers
<1>. QED  BY <1>2, <1>3, <1>4

LEMMA TrapKeeps == ASSUME StubInv, NEW c \in CPU, Trap(c) PROVE StubTypes' /\ Lock' /\ Registers'
<1>1. /\ pc[c] \in {"run", "trap"} /\ pc' = [pc EXCEPT ![c] = "lock"]
      /\ tickets' = Append(tickets, c)
      /\ UNCHANGED <<regs, want, state, spc, errors>>
  BY DEF Trap
<1>2. /\ tickets \in Seq(CPU) /\ IsInjective(tickets) /\ ~ Contains(tickets, c)
  BY <1>1 DEF StubInv, StubTypes, Lock
<1>3. /\ tickets' \in Seq(CPU) /\ IsInjective(tickets')
      /\ \A d : Contains(tickets', d) <=> Contains(tickets, d) \/ d = c
  BY <1>1, <1>2, InAppend, UniqueAppend
<1>4. tickets' # <<>> /\ (tickets # <<>> => Head(tickets') = Head(tickets))
  BY <1>1, <1>2
<1>5. \A d \in CPU : pc[d] = "handle" => tickets # <<>>
  BY DEF StubInv, Lock
<1>. QED  BY <1>1, <1>3, <1>4, <1>5 DEF StubInv, StubTypes, Lock, Registers, Owner

LEMMA EnterKeeps == ASSUME StubInv, NEW c \in CPU, Enter(c) PROVE StubTypes' /\ Lock' /\ Registers'
<1>1. /\ pc[c] = "lock" /\ Head(tickets) = c /\ pc' = [pc EXCEPT ![c] = "handle"]
      /\ state' = regs[c] /\ spc' = "ack"
      /\ UNCHANGED <<regs, want, tickets, errors>>
  BY DEF Enter
<1>2. tickets # <<>>
  BY <1>1, InEmpty DEF StubInv, Lock
<1>. QED  BY <1>1, <1>2 DEF StubInv, StubTypes, Lock, Registers, Owner

LEMMA LeaveKeeps == ASSUME StubInv, NEW c \in CPU, Leave(c) PROVE StubTypes' /\ Lock' /\ Registers'
<1>1. /\ pc[c] = "handle" /\ spc = "done" /\ pc' = [pc EXCEPT ![c] = "run"]
      /\ tickets' = Tail(tickets) /\ spc' = "none" /\ regs' = [regs EXCEPT ![c] = state]
      /\ UNCHANGED <<want, errors>>
  BY DEF Leave
<1>2. /\ tickets \in Seq(CPU) /\ IsInjective(tickets) /\ tickets # <<>> /\ Head(tickets) = c
  BY <1>1 DEF StubInv, StubTypes, Lock, Owner
<1>3. /\ tickets' \in Seq(CPU) /\ IsInjective(tickets')
      /\ \A d : Contains(tickets', d) <=> Contains(tickets, d) /\ d # c
  BY <1>1, <1>2, InTail
<1>4. state = want[c]
  BY <1>1, <1>2 DEF StubInv, Registers, Owner
<1>. QED  BY <1>1, <1>2, <1>3, <1>4 DEF StubInv, StubTypes, Lock, Registers, Owner

\* What handle() may do to the registers: nothing, or the same to the stub's place for
\* them and to what the CPU in the stub should have.
LEMMA HandleKeeps ==
  ASSUME StubInv, UNCHANGED machine, spc # "none", spc' \in {"ack", "recv", "done"}, errors' \in Nat,
         \/ state' = state /\ want' = want
         \/ \E v : /\ state' = [state EXCEPT !.value = v]
                   /\ want' = [want EXCEPT ![Owner].value = v]
         \/ \E v : /\ state' = [state EXCEPT !.step = v]
                   /\ want' = [want EXCEPT ![Owner].step = v]
  PROVE  StubTypes' /\ Lock' /\ Registers'
<1>1. Owner \in CPU /\ pc[Owner] = "handle"
  BY DEF StubInv, StubTypes, Lock, Owner
<1>2. Owner' = Owner
  BY DEF machine, Owner
<1>3. StubTypes' /\ Lock'
  BY <1>2 DEF StubInv, StubTypes, Lock, machine
<1>4. state' = want'[Owner] /\ \A c \in CPU : c # Owner => want'[c] = want[c]
  BY <1>1 DEF StubInv, StubTypes, Registers
<1>. QED  BY <1>1, <1>2, <1>3, <1>4 DEF StubInv, Registers, machine

-----------------------------------------------------------------------------
(* The dialogue over a line without errors                                 *)

\* The lines of the dialogue hold two items at most.
LEMMA Short ==
  ASSUME NEW a, NEW b
  PROVE  /\ Head(<<a>>) = a /\ Tail(<<a>>) = <<>> /\ Head(<<a, b>>) = a /\ Tail(<<a, b>>) = <<b>>
         /\ Append(<<>>, a) = <<a>> /\ Append(<<a>>, b) = <<a, b>> /\ <<>> \o <<a, b>> = <<a, b>>
         /\ <<a>> # <<>> /\ <<a, b>> # <<>>
<1>1. Head(<<a>>) = a /\ Head(<<a, b>>) = a /\ <<a>> # <<>> /\ <<a, b>> # <<>>
  OBVIOUS
<1>2. Tail(<<a>>) = <<>>
  OBVIOUS
<1>3. Tail(<<a, b>>) = <<b>>
  OBVIOUS
<1>4. Append(<<>>, a) = <<a>>
  OBVIOUS
<1>5. Append(<<a>>, b) = <<a, b>>
  <2>. DEFINE q == Append(<<a>>, b)
              r == <<a, b>>
  <2>1. q \in Seq({a, b}) /\ Len(q) = 2 /\ q[1] = a /\ q[2] = b
    OBVIOUS
  <2>2. r \in Seq({a, b}) /\ Len(r) = 2 /\ r[1] = a /\ r[2] = b
    OBVIOUS
  <2>3. \A i \in 1 .. 2 : i = 1 \/ i = 2
    OBVIOUS
  <2>. HIDE DEF q, r
  <2>4. q = r
    BY <2>1, <2>2, <2>3, SeqEqual
  <2>. QED  BY <2>4 DEF q, r
<1>6. <<>> \o <<a, b>> = <<a, b>>
  OBVIOUS
<1>. QED  BY <1>1, <1>2, <1>3, <1>4, <1>5, <1>6

Fine == seen /\ (spc = "done" => told) /\ Dialogue

\* A step of a CPU that is not in handle() leaves the dialogue where it is.
LEMMA OthersKeep ==
  ASSUME Fine, UNCHANGED <<spc, line, gdb, asked, told, seen>>,
         spc # "none" => want'[Owner'].value = want[Owner].value
  PROVE  Fine'
<1>1. Apart' <=> Apart
  BY DEF Apart, ToldTo, line
<1>2. Stopped' <=> Stopped
  BY DEF Stopped, ToldTo, line
<1>3. Asked' <=> Asked
  BY DEF Asked, line
<1>4. Replied => Replied'
  BY DEF Replied, ToldTo, Answer, line
<1>. QED  BY <1>1, <1>2, <1>3, <1>4 DEF Fine, Dialogue

LEMMA CPUFine ==
  ASSUME StubInv, Fine, NEW c \in CPU, Run(c) \/ Trap(c) \/ Enter(c) \/ Leave(c)
  PROVE  Fine'
<1>1. CASE Run(c)
  <2>1. spc # "none" => want'[Owner'].value = want[Owner].value
    <3>1. spc # "none" => Owner # c
      BY <1>1 DEF Run, StubInv, Lock
    <3>. QED  BY <1>1, <3>1 DEF Run, StubInv, StubTypes, Owner
  <2>. QED  BY <1>1, <2>1, OthersKeep DEF Run, debugger
<1>2. CASE Trap(c)
  <2>1. spc # "none" => Owner' = Owner
    BY <1>2 DEF Trap, StubInv, StubTypes, Lock, Owner
  <2>. QED  BY <1>2, <2>1, OthersKeep DEF Trap, debugger
<1>3. CASE Enter(c)
  <2>1. spc = "none"
    BY <1>3 DEF Enter, StubInv, Lock, Owner
  <2>2. /\ toStub = <<>>
        /\ \/ gdb = "stop" /\ toGdb = <<>>
           \/ gdb = "taken" /\ ToldTo /\ toGdb = <<Ack("+")>>
    BY <2>1 DEF Fine, Dialogue, Apart, Stopped, Asked, Replied
  <2>3. /\ UNCHANGED <<gdb, asked, toStub, seen>> /\ spc' = "ack"
        /\ toGdb' = Append(toGdb, Packet("S", 0, TRUE))
    BY <1>3 DEF Enter, debugger
  <2>. HIDE DEF Packet, Ack
  <2>4. Stopped'
    BY <2>2, <2>3, Short DEF Stopped, ToldTo
  <2>. QED  BY <2>3, <2>4 DEF Fine, Dialogue
<1>4. CASE Leave(c)
  <2>1. Apart
    BY <1>4 DEF Leave, Fine, Dialogue, Apart, Stopped, Asked, Replied
  <2>2. Apart' /\ spc' = "none"
    BY <1>4, <2>1 DEF Leave, Apart, ToldTo, line, debugger
  <2>. QED  BY <1>4, <2>2 DEF Leave, Fine, Dialogue, debugger
<1>. QED  BY <1>1, <1>2, <1>3, <1>4

\* What comes to recv_packet() is the debugger's command.
LEMMA CommandCame ==
  ASSUME Fine, spc = "recv", toStub # <<>>
  PROVE  /\ gdb = "taken" /\ Head(toStub) = asked /\ Tail(toStub) = <<>> /\ toGdb = <<>>
         /\ asked.good /\ ~ IsAck(asked)
<1>1. Asked
  BY DEF Fine, Dialogue, Apart, Stopped, Replied
<1>. QED  BY <1>1, Short DEF Asked, Fine, Dialogue

LEMMA AnswersFine ==
  ASSUME Fine, NEW cmd \in {"g", "G", "m", "M", "?", "bad", "other"}, NEW reply, NEW v,
         Answers(cmd, reply, v),
         reply = CASE cmd \in {"g", "m"} -> "value" [] cmd \in {"G", "M"} -> "OK"
                   [] cmd = "?" -> "S" [] cmd = "bad" -> "E" [] OTHER -> "",
         cmd = "g" => v = want'[Owner].value
  PROVE  Fine'
<1>1. /\ gdb = "taken" /\ asked.cmd = cmd /\ Tail(toStub) = <<>> /\ toGdb = <<>>
      /\ asked.good /\ ~ IsAck(asked)
  BY CommandCame DEF Answers
<1>2. /\ spc' = "ack" /\ toStub' = Tail(toStub) /\ toGdb' = toGdb \o <<Ack("+"), Packet(reply, v, TRUE)>>
      /\ UNCHANGED <<gdb, asked, told, seen, tickets>>
  BY DEF Answers, debugger, machine
<1>3. toGdb' = <<Ack("+"), Packet(reply, v, TRUE)>>
  <2>. HIDE DEF Ack, Packet
  <2>. QED  BY <1>1, <1>2, Short
<1>4. Answer' = reply /\ ~ ToldTo'
  BY <1>1, <1>2 DEF Answer, ToldTo
<1>5. asked'.cmd = "g" => v = want'[Owner'].value
  BY <1>1, <1>2 DEF Owner
<1>6. Replied'
  BY <1>1, <1>2, <1>3, <1>4, <1>5 DEF Replied
<1>. QED  BY <1>1, <1>2, <1>6 DEF Fine, Dialogue

LEMMA HandleFine == ASSUME StubInv, Fine, Handle PROVE Fine'
<1>1. CASE RecvAck
  <2>1. /\ spc = "ack" /\ toStub # <<>> /\ toStub' = Tail(toStub) /\ spc' = "recv"
        /\ UNCHANGED <<toGdb, gdb, asked, told, seen>>
    BY <1>1 DEF RecvAck, debugger
  <2>2. Asked
    BY <2>1 DEF Fine, Dialogue, Apart, Stopped, Replied
  <2>3. Asked'
    <3>. HIDE DEF Ack
    <3>1. toGdb' = <<>> /\ spc' = "recv" /\ gdb' = gdb /\ asked' = asked
      BY <2>1, <2>2 DEF Asked
    <3>2. CASE gdb = "idle" /\ toStub = <<Ack("+")>>
      <4>1. toStub' = <<>>
        BY ONLY <2>1, <3>2, Short
      <4>. QED  BY ONLY <3>1, <3>2, <4>1 DEF Asked
    <3>3. CASE gdb = "taken" /\ toStub = <<Ack("+"), asked>>
      <4>1. toStub' = <<asked>>
        BY ONLY <2>1, <3>3, Short
      <4>. QED  BY ONLY <3>1, <3>3, <4>1 DEF Asked
    <3>. QED  BY <2>1, <2>2, <3>2, <3>3 DEF Asked
  <2>. QED  BY <2>1, <2>3 DEF Fine, Dialogue
<1>2. CASE Skip \/ RecvBad
  BY <1>2, CommandCame DEF Skip, RecvBad
<1>3. CASE ReadRegisters
  <2>1. state.value = want'[Owner].value
    BY <1>3 DEF ReadRegisters, Answers, StubInv, Registers
  <2>. QED  BY <1>3, <2>1, AnswersFine DEF ReadRegisters
<1>4. CASE WriteRegisters
  BY <1>4, AnswersFine DEF WriteRegisters
<1>5. CASE ReadMemory
  BY <1>5, AnswersFine DEF ReadMemory
<1>6. CASE WriteMemory
  BY <1>6, AnswersFine DEF WriteMemory
<1>7. CASE StopReason
  BY <1>7, AnswersFine DEF StopReason
<1>8. CASE Refuse
  BY <1>8, AnswersFine DEF Refuse
<1>9. CASE Unsupported
  BY <1>9, AnswersFine DEF Unsupported
<1>10. ASSUME NEW cmd \in {"c", "s"}, GoOn(cmd) PROVE Fine'
  <2>1. /\ spc = "recv" /\ toStub # <<>> /\ Head(toStub).cmd = cmd
        /\ toStub' = Tail(toStub) /\ toGdb' = Append(toGdb, Ack("+")) /\ spc' = "done" /\ told' = TRUE
        /\ UNCHANGED <<gdb, asked, seen>>
    BY <1>10 DEF GoOn, debugger
  <2>2. /\ gdb = "taken" /\ asked.cmd = cmd /\ Tail(toStub) = <<>> /\ toGdb = <<>>
        /\ asked.good /\ ~ IsAck(asked)
    BY <2>1, CommandCame
  <2>3. toGdb' = <<Ack("+")>>
    <3>. HIDE DEF Ack
    <3>. QED  BY <2>1, <2>2, Short
  <2>4. Apart'
    BY <2>1, <2>2, <2>3 DEF Apart, ToldTo
  <2>. QED  BY <2>1, <2>2, <2>4 DEF Fine, Dialogue
<1>. QED  BY <1>1, <1>2, <1>3, <1>4, <1>5, <1>6, <1>7, <1>8, <1>9, <1>10 DEF Handle

LEMMA AskFine == ASSUME Fine, Ask PROVE Fine'
<1>1. PICK cmd \in {"g", "G", "m", "M", "?", "bad", "other", "c", "s"} : \E v :
        asked' = Packet(cmd, v, TRUE) /\ toStub' = Append(toStub, asked')
  BY DEF Ask, Command
<1>2. gdb = "idle" /\ gdb' = "taken" /\ UNCHANGED <<spc, toGdb, told, seen>>
  BY DEF Ask
<1>3. Asked
  BY <1>2 DEF Fine, Dialogue, Apart, Stopped, Replied
<1>4. asked'.good /\ ~ IsAck(asked')
  BY <1>1 DEF Packet, IsAck
<1>5. Asked'
  <2>. HIDE DEF Ack
  <2>. QED  BY <1>1, <1>2, <1>3, Short DEF Asked
<1>. QED  BY <1>2, <1>4, <1>5 DEF Fine, Dialogue

LEMMA TakenFine == ASSUME Fine, Taken PROVE Fine'
<1>1. /\ gdb = "taken" /\ toGdb # <<>> /\ toGdb' = Tail(toGdb)
      /\ gdb' = IF asked.cmd \in {"c", "s"} THEN "stop" ELSE "answer"
      /\ UNCHANGED <<spc, toStub, asked, told, seen, want, tickets>>
  BY DEF Taken, Gets, machine
<1>2. Answer' = Answer /\ (ToldTo' <=> ToldTo) /\ Owner' = Owner
  BY <1>1 DEF Answer, ToldTo, Owner
<1>. HIDE DEF Ack, Packet
<1>3. CASE Apart
  BY <1>1, <1>2, <1>3, Short DEF Apart, ToldTo, Fine, Dialogue
<1>4. CASE Stopped
  <2>1. gdb' = "stop" /\ toGdb' = <<Packet("S", 0, TRUE)>> /\ spc' = "ack" /\ toStub' = <<>>
    <3>1. ToldTo /\ toGdb = <<Ack("+"), Packet("S", 0, TRUE)>>
      BY <1>1, <1>4 DEF Stopped
    <3>2. toGdb' = <<Packet("S", 0, TRUE)>>
      BY ONLY <1>1, <3>1, Short
    <3>. QED  BY <1>1, <1>4, <3>1, <3>2 DEF Stopped, ToldTo
  <2>2. Stopped'
    BY <2>1 DEF Stopped
  <2>. QED  BY <1>1, <2>1, <2>2 DEF Fine, Dialogue
<1>5. CASE Asked
  BY <1>1, <1>5 DEF Asked
<1>6. CASE Replied
  <2>1. PICK v : (asked.cmd = "g" => v = want[Owner].value) /\ toGdb = <<Ack("+"), Packet(Answer, v, TRUE)>>
    BY <1>1, <1>6 DEF Replied
  <2>2. gdb' = "answer" /\ toGdb' = <<Packet(Answer', v, TRUE)>>
    <3>1. gdb' = "answer"
      BY <1>1, <1>6 DEF Replied, ToldTo
    <3>2. toGdb' = <<Packet(Answer, v, TRUE)>>
      BY <1>1, <2>1, Short
    <3>3. Packet(Answer, v, TRUE) = Packet(Answer', v, TRUE)
      BY <1>2
    <3>. QED  BY <3>1, <3>2, <3>3
  <2>3. Replied'
    BY <1>1, <1>2, <1>6, <2>1, <2>2 DEF Replied
  <2>. QED  BY <1>1, <2>2, <2>3 DEF Fine, Dialogue
<1>. QED  BY <1>3, <1>4, <1>5, <1>6 DEF Fine, Dialogue

LEMMA AnsweredFine == ASSUME Fine, Answered PROVE Fine'
<1>1. /\ gdb \in {"answer", "stop"} /\ toGdb # <<>> /\ toGdb' = Tail(toGdb)
      /\ toStub' = Append(toStub, Ack("+")) /\ gdb' = "idle"
      /\ UNCHANGED <<spc, asked, told>>
      /\ seen' = (seen /\ (gdb = "answer" => Head(toGdb).cmd = Answer)
                  /\ (gdb = "answer" /\ asked.cmd = "g" => Head(toGdb).value = want[Owner].value))
  BY DEF Answered, Gets, Answer
<1>2. spc = "ack" /\ toStub = <<>> /\ Tail(toGdb) = <<>> /\ seen'
  <2>1. CASE Stopped
    <3>. HIDE DEF Packet
    <3>. QED  BY <1>1, <2>1, Short DEF Stopped, Fine
  <2>2. CASE Replied
    <3>1. PICK v : (asked.cmd = "g" => v = want[Owner].value) /\ toGdb = <<Packet(Answer, v, TRUE)>>
      BY <1>1, <2>2 DEF Replied
    <3>2. Head(toGdb) = Packet(Answer, v, TRUE) /\ Tail(toGdb) = <<>>
      <4>. HIDE DEF Packet
      <4>. QED  BY <3>1, Short
    <3>3. Head(toGdb).cmd = Answer /\ Head(toGdb).value = v
      BY <3>2 DEF Packet
    <3>. QED  BY <1>1, <2>2, <3>1, <3>2, <3>3 DEF Replied, Fine
  <2>. QED  BY <1>1, <2>1, <2>2 DEF Fine, Dialogue, Apart, Asked
<1>3. toStub' = <<Ack("+")>>
  <2>. HIDE DEF Ack
  <2>. QED  BY <1>1, <1>2, Short
<1>4. Asked'
  BY <1>1, <1>2, <1>3 DEF Asked
<1>. QED  BY <1>1, <1>2, <1>4 DEF Fine, Dialogue

\* Nothing is refused, so nothing is sent again.
LEMMA AgainNever == ASSUME Fine, errors = 0 PROVE ~ Again /\ ~ Refused
<1>1. ASSUME gdb = "taken", toGdb # <<>>, Head(toGdb).cmd = "-" PROVE FALSE
  <2>1. Head(toGdb) = Ack("+")
    <3>. HIDE DEF Ack, Packet
    <3>1. CASE Apart
      BY <1>1, <3>1, Short DEF Apart
    <3>2. CASE Stopped
      BY <1>1, <3>2, Short DEF Stopped
    <3>3. CASE Asked
      BY <1>1, <3>3, Short DEF Asked
    <3>4. CASE Replied
      BY <1>1, <3>4, Short DEF Replied
    <3>. QED  BY <3>1, <3>2, <3>3, <3>4 DEF Fine, Dialogue
  <2>. QED  BY <1>1, <2>1 DEF Ack, Packet
<1>. QED  BY <1>1 DEF Again, Refused, Gets

-----------------------------------------------------------------------------

LEMMA StubStarts == ASSUME StubInit PROVE StubInv
<1>1. StubTypes /\ Registers
  BY DEF StubInit, StubTypes, Registers
<1>2. Lock
  BY InEmpty DEF StubInit, Lock
<1>3. Fine
  BY DEF StubInit, Fine, Dialogue, Apart
<1>. QED  BY <1>1, <1>2, <1>3 DEF StubInv, Fine

LEMMA NextKeeps == ASSUME StubInv, StubNext PROVE StubTypes' /\ Lock' /\ Registers'
<1>1. CASE \E c \in CPU : Run(c) \/ Trap(c) \/ Enter(c) \/ Leave(c)
  BY <1>1, RunKeeps, TrapKeeps, EnterKeeps, LeaveKeeps
<1>2. CASE Handle
  <2>1. errors \in Nat
    BY DEF StubInv, StubTypes
  <2>2. CASE RecvAck \/ Skip \/ RecvBad
    BY <2>1, <2>2, HandleKeeps DEF RecvAck, Skip, RecvBad
  <2>3. CASE WriteRegisters
    BY <2>1, <2>3, HandleKeeps DEF WriteRegisters, Answers
  <2>4. CASE ReadRegisters \/ ReadMemory \/ WriteMemory \/ StopReason \/ Refuse \/ Unsupported
    BY <2>1, <2>4, HandleKeeps
       DEF ReadRegisters, ReadMemory, WriteMemory, StopReason, Refuse, Unsupported, Answers
  <2>5. CASE GoOn("c") \/ GoOn("s")
    BY <2>1, <2>5, HandleKeeps DEF GoOn
  <2>. QED  BY <1>2, <2>2, <2>3, <2>4, <2>5 DEF Handle
<1>3. CASE Ask \/ Taken \/ Answered \/ Again \/ Refused \/ Spoil
  <2>1. UNCHANGED <<machine, state, spc, want>>
    BY <1>3, Zenon DEF Ask, Taken, Answered, Again, Refused, Spoil
  <2>2. errors \in Nat /\ (errors' = errors \/ errors' = errors + 1)
    BY <1>3 DEF Ask, Taken, Answered, Again, Refused, Spoil, debugger, StubInv, StubTypes
  <2>. QED  BY <2>1, <2>2 DEF machine, StubInv, StubTypes, Lock, Registers, Owner
<1>. QED  BY <1>1, <1>2, <1>3 DEF StubNext

LEMMA NextFine == ASSUME StubInv, StubNext, errors' = 0 PROVE Fine'
<1>1. errors = 0 /\ ~ Spoil
  <2>1. ASSUME NEW c \in CPU, Run(c) \/ Trap(c) \/ Enter(c) \/ Leave(c) PROVE errors' = errors
    BY <2>1 DEF Run, Trap, Enter, Leave
  <2>2. ASSUME Handle PROVE errors' = errors
    BY <2>2 DEF Handle, RecvAck, Skip, RecvBad, ReadRegisters, WriteRegisters, ReadMemory,
                WriteMemory, StopReason, Refuse, Unsupported, Answers, GoOn
  <2>3. ASSUME Ask \/ Taken \/ Answered \/ Again \/ Refused PROVE errors' = errors
    BY <2>3 DEF Ask, Taken, Answered, Again, Refused
  <2>4. Spoil => errors' = errors + 1
    BY DEF Spoil
  <2>. QED  BY <2>1, <2>2, <2>3, <2>4 DEF StubNext, StubInv, StubTypes
<1>2. Fine
  BY <1>1 DEF StubInv, Fine
<1>. QED  BY <1>1, <1>2, CPUFine, HandleFine, AskFine, TakenFine, AnsweredFine, AgainNever DEF StubNext

\* debug/gdb: whatever CPUs trap meanwhile and whatever the line spoils, each CPU goes on
\* with its own registers as the debugger has changed them; and on a line that spoils
\* nothing, the debugger is shown what it asked for, and a CPU goes on only when told to.
THEOREM RegistersAreKept == StubSpec => []CPUsKeepRegisters
<1>1. StubInit => StubInv
  BY StubStarts
<1>2. ASSUME StubInv, [StubNext]_stub PROVE StubInv'
  <2>1. CASE UNCHANGED stub
    <3>1. StubTypes' /\ Lock' /\ Registers'
      BY <1>2, <2>1 DEF stub, StubInv, StubTypes, Lock, Registers, Owner
    <3>2. errors' = 0 => Fine'
      BY <1>2, <2>1, OthersKeep DEF stub, line, debugger, StubInv, Fine, Owner
    <3>. QED  BY <3>1, <3>2 DEF StubInv, Fine
  <2>2. CASE StubNext
    BY <1>2, <2>2, NextKeeps, NextFine DEF StubInv, Fine
  <2>. QED  BY <1>2, <2>1, <2>2
<1>3. StubInv => CPUsKeepRegisters
  BY DEF StubInv, Registers, CPUsKeepRegisters
<1>. QED  BY <1>1, <1>2, <1>3, PTL DEF StubSpec
=============================================================================
