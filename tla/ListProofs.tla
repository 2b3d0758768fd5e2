----------------------------- MODULE ListProofs -----------------------------
(***************************************************************************)
(* Lists in which nothing is twice, as the kernel keeps gates, threads and *)
(* mutexes in them: what appending, taking the head, and removing from the *)
(* middle do to what is in a list.  Then lists of numbers: the sums of their *)
(* first elements, by induction, which is made on the least number for     *)
(* which a statement fails.                                                *)
(***************************************************************************)
EXTENDS Integers, SequencesExt, SequenceTheorems, FiniteSetTheorems, TLAPS

\* What is appended is in the list, and the others stay.
LEMMA InAppend ==
  ASSUME NEW S, NEW q \in Seq(S), NEW g \in S
  PROVE  /\ Append(q, g) \in Seq(S)
         /\ \A h : Contains(Append(q, g), h) <=> Contains(q, h) \/ h = g
<1>1. /\ Append(q, g) \in Seq(S) /\ Len(q) \in Nat
      /\ Len(Append(q, g)) = Len(q) + 1
      /\ Append(q, g)[Len(q) + 1] = g
      /\ \A i \in 1 .. Len(q) : Append(q, g)[i] = q[i]
  OBVIOUS
<1>2. ASSUME NEW h, Contains(Append(q, g), h) PROVE Contains(q, h) \/ h = g
  BY <1>1, <1>2 DEF Contains
<1>3. ASSUME NEW h, Contains(q, h) \/ h = g PROVE Contains(Append(q, g), h)
  <2>1. CASE h = g
    BY <1>1, <2>1 DEF Contains
  <2>2. CASE Contains(q, h)
    <3>1. PICK i \in 1 .. Len(q) : q[i] = h
      BY <2>2 DEF Contains
    <3>. QED BY <1>1, <3>1 DEF Contains
  <2>. QED BY <1>3, <2>1, <2>2
<1>. QED BY <1>1, <1>2, <1>3

\* Nothing is in the list twice when what is appended was not in it.
LEMMA UniqueAppend ==
  ASSUME NEW S, NEW q \in Seq(S), NEW g \in S, IsInjective(q), ~ Contains(q, g)
  PROVE  IsInjective(Append(q, g))
  BY DEF Contains, IsInjective

\* The head leaves the list, and the others stay.
LEMMA InTail ==
  ASSUME NEW S, NEW q \in Seq(S), q # <<>>, IsInjective(q)
  PROVE  /\ Head(q) \in S /\ Contains(q, Head(q))
         /\ Tail(q) \in Seq(S) /\ IsInjective(Tail(q))
         /\ \A h : Contains(Tail(q), h) <=> Contains(q, h) /\ h # Head(q)
<1>1. /\ Len(q) \in Nat /\ Len(q) >= 1 /\ Head(q) = q[1] /\ Head(q) \in S
      /\ Tail(q) \in Seq(S) /\ Len(Tail(q)) = Len(q) - 1
      /\ \A i \in 1 .. Len(q) - 1 : Tail(q)[i] = q[i + 1]
  OBVIOUS
<1>2. IsInjective(Tail(q))
  BY <1>1 DEF IsInjective
<1>3. ASSUME NEW h, Contains(Tail(q), h) PROVE Contains(q, h) /\ h # Head(q)
  <2>1. PICK i \in 1 .. Len(q) - 1 : Tail(q)[i] = h
    BY <1>1, <1>3 DEF Contains
  <2>2. q[i + 1] = h /\ i + 1 \in 1 .. Len(q) /\ 1 \in 1 .. Len(q) /\ i + 1 # 1
    BY <1>1, <2>1
  <2>. QED BY <1>1, <2>2 DEF Contains, IsInjective
<1>4. ASSUME NEW h, Contains(q, h), h # Head(q) PROVE Contains(Tail(q), h)
  <2>1. PICK i \in 1 .. Len(q) : q[i] = h
    BY <1>4 DEF Contains
  <2>2. i - 1 \in 1 .. Len(q) - 1
    BY <1>1, <1>4, <2>1
  <2>3. Tail(q)[i - 1] = h
    BY <1>1, <2>1, <2>2
  <2>. QED BY <1>1, <2>2, <2>3 DEF Contains
<1>5. Contains(q, Head(q))
  BY <1>1 DEF Contains
<1>. QED BY <1>1, <1>2, <1>3, <1>4, <1>5

\* Nothing is in the empty list, and so nothing twice.
LEMMA InEmpty == (\A h : ~ Contains(<<>>, h)) /\ IsInjective(<<>>)
  BY DEF Contains, IsInjective

\* remove() takes out what is at the only place where it is found.
LEMMA RemoveFirstIs ==
  ASSUME NEW S, NEW q \in Seq(S), IsInjective(q), NEW k \in 1 .. Len(q)
  PROVE  RemoveFirst(q, q[k]) = RemoveAt(q, k)
<1> DEFINE I == {i \in 1 .. Len(q) : q[i] = q[k]}
<1>1. I = {k}
  BY DEF IsInjective
<1>2. Min({k}) = k
  BY DEF Min
<1>3. SelectInSeq(q, LAMBDA v : v = q[k]) = k
  BY <1>1, <1>2 DEF SelectInSeq
<1>. QED  BY <1>3 DEF RemoveFirst

\* Without what is at k, what was behind it lies one place further in front.
LEMMA RemoveAtIs ==
  ASSUME NEW S, NEW q \in Seq(S), NEW k \in 1 .. Len(q)
  PROVE  /\ RemoveAt(q, k) \in Seq(S) /\ Len(RemoveAt(q, k)) = Len(q) - 1
         /\ \A i \in 1 .. Len(q) - 1 : RemoveAt(q, k)[i] = IF i < k THEN q[i] ELSE q[i + 1]
<1>. DEFINE a == SubSeq(q, 1, k - 1)
            b == SubSeq(q, k + 1, Len(q))
<1>1. /\ Len(q) \in Nat /\ a \in Seq(S) /\ Len(a) = k - 1
      /\ \A i \in 1 .. k - 1 : a[i] = q[i]
  OBVIOUS
<1>2. /\ b \in Seq(S) /\ Len(b) = Len(q) - k
      /\ \A i \in 1 .. Len(q) - k : b[i] = q[i + k]
  OBVIOUS
<1>. HIDE DEF a, b
<1>3. /\ a \o b \in Seq(S) /\ Len(a \o b) = Len(a) + Len(b)
      /\ \A i \in 1 .. Len(a) + Len(b) :
           (a \o b)[i] = IF i <= Len(a) THEN a[i] ELSE b[i - Len(a)]
  BY <1>1, <1>2, ConcatProperties
<1>4. ASSUME NEW i \in 1 .. Len(q) - 1
      PROVE  (a \o b)[i] = IF i < k THEN q[i] ELSE q[i + 1]
  <2>1. CASE i < k
    BY <1>1, <1>2, <1>3, <2>1
  <2>2. CASE ~ i < k
    <3>1. i - (k - 1) \in 1 .. Len(q) - k /\ i \in 1 .. Len(a) + Len(b) /\ ~ i <= Len(a)
      BY <1>1, <1>2, <2>2
    <3>. QED  BY <1>1, <1>2, <1>3, <2>2, <3>1
  <2>. QED  BY <2>1, <2>2
<1>5. a \o b \in Seq(S) /\ Len(a \o b) = Len(q) - 1
  BY <1>1, <1>2, <1>3
<1>. QED  BY <1>4, <1>5 DEF RemoveAt, a, b

\* What is removed leaves the list, and the others stay.
LEMMA InRemoveFirst ==
  ASSUME NEW S, NEW q \in Seq(S), IsInjective(q), NEW g
  PROVE  /\ RemoveFirst(q, g) \in Seq(S) /\ IsInjective(RemoveFirst(q, g))
         /\ \A h : Contains(RemoveFirst(q, g), h) <=> Contains(q, h) /\ h # g
<1>1. CASE ~ Contains(q, g)
  BY <1>1 DEF RemoveFirst, Contains
<1>2. CASE Contains(q, g)
  <2>1. PICK k \in 1 .. Len(q) : q[k] = g
    BY <1>2 DEF Contains
  <2>2. PICK r : r = RemoveAt(q, k)
    OBVIOUS
  <2>3. /\ r \in Seq(S) /\ Len(r) = Len(q) - 1 /\ Len(q) \in Nat
        /\ \A i \in 1 .. Len(q) - 1 : r[i] = IF i < k THEN q[i] ELSE q[i + 1]
    BY <2>2, RemoveAtIs
  <2>4. IsInjective(r)
    <3> SUFFICES ASSUME NEW i \in 1 .. Len(q) - 1, NEW j \in 1 .. Len(q) - 1, r[i] = r[j]
                 PROVE  i = j
      BY <2>3 DEF IsInjective
    <3>1. \A m, n \in 1 .. Len(q) : q[m] = q[n] => m = n
      BY DEF IsInjective
    <3>. QED  BY <2>3, <3>1
  <2>5. ASSUME NEW h, Contains(r, h) PROVE Contains(q, h) /\ h # g
    <3>1. PICK i \in 1 .. Len(q) - 1 : r[i] = h
      BY <2>3, <2>5 DEF Contains
    <3>2. \A m \in 1 .. Len(q) : q[m] = q[k] => m = k
      BY DEF IsInjective
    <3>3. \E n \in 1 .. Len(q) : n # k /\ q[n] = h
      <4>1. CASE i < k
        BY <2>3, <3>1, <4>1
      <4>2. CASE ~ i < k
        <5>1. i + 1 \in 1 .. Len(q) /\ i + 1 # k
          BY <2>3, <4>2
        <5>. QED  BY <2>3, <3>1, <4>2, <5>1
      <4>. QED  BY <4>1, <4>2
    <3>. QED  BY <2>1, <3>2, <3>3 DEF Contains
  <2>6. ASSUME NEW h, Contains(q, h), h # g PROVE Contains(r, h)
    <3>1. PICK i \in 1 .. Len(q) : q[i] = h
      BY <2>6 DEF Contains
    <3>2. i # k
      BY <2>1, <2>6, <3>1
    <3>3. IF i < k THEN i \in 1 .. Len(q) - 1 /\ r[i] = h
                   ELSE i - 1 \in 1 .. Len(q) - 1 /\ r[i - 1] = h
      BY <2>3, <3>1, <3>2
    <3>. QED  BY <2>3, <3>3 DEF Contains
  <2>7. RemoveFirst(q, g) = r
    BY <2>1, <2>2, RemoveFirstIs
  <2>. QED  BY <2>3, <2>4, <2>5, <2>6, <2>7
<1>. QED  BY <1>1, <1>2

\* What is inserted lies at its place, and what was behind it one further.
LEMMA InsertAtIs ==
  ASSUME NEW S, NEW q \in Seq(S), NEW k \in 1 .. Len(q) + 1, NEW e \in S
  PROVE  /\ InsertAt(q, k, e) \in Seq(S) /\ Len(InsertAt(q, k, e)) = Len(q) + 1
         /\ \A i \in 1 .. Len(q) + 1 : InsertAt(q, k, e)[i] =
              IF i < k THEN q[i] ELSE IF i = k THEN e ELSE q[i - 1]
<1>. DEFINE a == SubSeq(q, 1, k - 1)
            b == SubSeq(q, k, Len(q))
<1>1. /\ Len(q) \in Nat /\ a \in Seq(S) /\ Len(a) = k - 1
      /\ \A i \in 1 .. k - 1 : a[i] = q[i]
  OBVIOUS
<1>2. /\ b \in Seq(S) /\ Len(b) = Len(q) - k + 1
      /\ \A i \in 1 .. Len(q) - k + 1 : b[i] = q[i + k - 1]
  OBVIOUS
<1>3. <<e>> \in Seq(S) /\ Len(<<e>>) = 1 /\ <<e>>[1] = e
  OBVIOUS
<1>. HIDE DEF a, b
<1>4. /\ a \o <<e>> \in Seq(S) /\ Len(a \o <<e>>) = k
      /\ \A i \in 1 .. k : (a \o <<e>>)[i] = IF i < k THEN q[i] ELSE e
  BY <1>1, <1>3, ConcatProperties
<1>. DEFINE c == a \o <<e>>
<1>5. /\ c \in Seq(S) /\ Len(c) = k
      /\ \A i \in 1 .. k : c[i] = IF i < k THEN q[i] ELSE e
  BY <1>4
<1>. HIDE DEF c
<1>6. /\ c \o b \in Seq(S) /\ Len(c \o b) = Len(q) + 1
      /\ \A i \in 1 .. Len(q) + 1 :
           (c \o b)[i] = IF i <= Len(c) THEN c[i] ELSE b[i - Len(c)]
  <2>1. Len(c) + Len(b) = Len(q) + 1
    BY <1>1, <1>2, <1>5
  <2>2. /\ c \o b \in Seq(S) /\ Len(c \o b) = Len(c) + Len(b)
        /\ \A i \in 1 .. Len(c) + Len(b) :
             (c \o b)[i] = IF i <= Len(c) THEN c[i] ELSE b[i - Len(c)]
    BY <1>2, <1>5, ConcatProperties
  <2>. QED  BY <2>1, <2>2
<1>7. \A i \in 1 .. Len(q) + 1 :
        (c \o b)[i] = IF i < k THEN q[i] ELSE IF i = k THEN e ELSE q[i - 1]
  BY <1>1, <1>2, <1>5, <1>6
<1>. QED  BY <1>6, <1>7 DEF InsertAt, a, b, c

\* What is inserted is in the list, the others stay, and nothing is there twice.
LEMMA InInsertAt ==
  ASSUME NEW S, NEW q \in Seq(S), NEW k \in 1 .. Len(q) + 1, NEW e \in S
  PROVE  /\ \A h : Contains(InsertAt(q, k, e), h) <=> Contains(q, h) \/ h = e
         /\ IsInjective(q) /\ ~ Contains(q, e) => IsInjective(InsertAt(q, k, e))
<1>0. PICK r : r = InsertAt(q, k, e)
  OBVIOUS
<1>1. /\ Len(q) \in Nat /\ r \in Seq(S) /\ Len(r) = Len(q) + 1
      /\ \A i \in 1 .. Len(q) + 1 :
           r[i] = IF i < k THEN q[i] ELSE IF i = k THEN e ELSE q[i - 1]
  <2>1. Len(q) \in Nat
    OBVIOUS
  <2>2. InsertAt(q, k, e) \in Seq(S) /\ Len(InsertAt(q, k, e)) = Len(q) + 1
    BY InsertAtIs
  <2>3. \A i \in 1 .. Len(q) + 1 : InsertAt(q, k, e)[i] =
          IF i < k THEN q[i] ELSE IF i = k THEN e ELSE q[i - 1]
    BY InsertAtIs
  <2>. QED  BY ONLY <1>0, <2>1, <2>2, <2>3
<1>2. ASSUME NEW h, Contains(r, h) PROVE Contains(q, h) \/ h = e
  <2>1. PICK i \in 1 .. Len(q) + 1 : r[i] = h
    BY <1>1, <1>2 DEF Contains
  <2>2. CASE i < k
    BY <1>1, <2>1, <2>2 DEF Contains
  <2>3. CASE i > k
    <3>1. i - 1 \in 1 .. Len(q) /\ q[i - 1] = h
      BY <1>1, <2>1, <2>3
    <3>. QED  BY <3>1 DEF Contains
  <2>. QED  BY <1>1, <2>1, <2>2, <2>3
<1>3. Contains(r, e)
  <2>1. r[k] = e
    BY <1>1
  <2>. QED  BY <1>1, <2>1 DEF Contains
<1>4. ASSUME NEW h, Contains(q, h) PROVE Contains(r, h)
  <2>1. PICK i \in 1 .. Len(q) : q[i] = h
    BY <1>4 DEF Contains
  <2>2. IF i < k THEN r[i] = h ELSE r[i + 1] = h
    BY <1>1, <2>1
  <2>3. i \in 1 .. Len(r) /\ i + 1 \in 1 .. Len(r)
    BY <1>1
  <2>. QED  BY <2>2, <2>3 DEF Contains
<1>5. ASSUME IsInjective(q), ~ Contains(q, e) PROVE IsInjective(r)
  <2>. SUFFICES ASSUME NEW i \in 1 .. Len(q) + 1, NEW j \in 1 .. Len(q) + 1, i # j, r[i] = r[j]
                PROVE  FALSE
    BY <1>1 DEF IsInjective
  <2>1. \A m \in 1 .. Len(q) : q[m] # e
    BY <1>5 DEF Contains
  <2>2. \A m, n \in 1 .. Len(q) : q[m] = q[n] => m = n
    BY <1>5 DEF IsInjective
  <2>. DEFINE P(m) == IF m < k THEN m ELSE m - 1
  <2>3. \A m \in 1 .. Len(q) + 1 : m # k => P(m) \in 1 .. Len(q) /\ r[m] = q[P(m)]
    BY <1>1
  <2>. HIDE DEF P
  <2>4. r[k] = e /\ \A m \in 1 .. Len(q) + 1 : m # k => r[m] # e
    <3>1. r[k] = e
      BY <1>1
    <3>2. ASSUME NEW m \in 1 .. Len(q) + 1, m # k PROVE r[m] # e
      BY ONLY <2>1, <2>3, <3>2
    <3>. QED  BY <3>1, <3>2
  <2>5. i # k /\ j # k
    BY <2>4
  <2>6. P(i) = P(j)
    BY <2>2, <2>3, <2>5
  <2>. QED  BY <1>1, <2>5, <2>6 DEF P
<1>. QED  BY <1>0, <1>2, <1>3, <1>4, <1>5

-----------------------------------------------------------------------------

\* Every set of natural numbers has a least element: the induction that proofs about
\* recursive functions use, on the set of the numbers for which they fail.
LEMMA Least ==
  ASSUME NEW T \in SUBSET Nat, T # {}
  PROVE  \E x \in T : \A y \in T : x <= y
<1> DEFINE B == {0 .. x : x \in T}
           R == StrictSubsetOrdering(Nat)
<1>1. \A x \in T : 0 .. x \in FiniteSubsetsOf(Nat)
  BY FS_Interval DEF FiniteSubsetsOf
<1>2. B \subseteq FiniteSubsetsOf(Nat) /\ B # {}
  BY <1>1
<1>3. PICK X \in B : \A Y \in B : ~ (<<Y, X>> \in R)
  <2>. HIDE DEF B
  <2>. QED BY <1>2, FS_StrictSubsetOrderingWellFounded, WFMin
<1>4. PICK x \in T : X = 0 .. x
  OBVIOUS
<1>5. ASSUME NEW y \in T, y < x PROVE FALSE
  <2>. DEFINE a == 0 .. y
              b == 0 .. x
  <2>1. a \in SUBSET Nat /\ b \in SUBSET Nat /\ a \subseteq b /\ a # b
    BY <1>5
  <2>2. <<a, b>> \in R
    <3>. HIDE DEF a, b
    <3>. QED  BY <2>1 DEF StrictSubsetOrdering
  <2>. QED  BY <1>3, <1>4, <2>2
<1>. QED BY <1>5

\* The first sums of a list, as far as the n-th.
Upto(n, a, g) == g = [i \in 0 .. n |-> IF i = 0 THEN 0 ELSE g[i - 1] + a[i]]

\* The sums of the first numbers of a list, as a recursive function, exist.
LEMMA SumsExist ==
  ASSUME NEW a
  PROVE  \E F : F = [i \in Nat |-> IF i = 0 THEN 0 ELSE F[i - 1] + a[i]]
<1>1. \A n \in Nat : \E g : Upto(n, a, g)
  <2>. DEFINE T == {n \in Nat : ~ \E g : Upto(n, a, g)}
  <2>. SUFFICES ASSUME T # {} PROVE FALSE
    OBVIOUS
  <2>1. PICK n \in T : \A k \in T : n <= k
    <3>. HIDE DEF T
    <3>1. T \in SUBSET Nat
      BY DEF T
    <3>. QED  BY <3>1, Least
  <2>2. CASE n = 0
    <3>1. Upto(0, a, [i \in 0 .. 0 |-> 0])
      BY DEF Upto
    <3>. QED BY <2>1, <2>2, <3>1
  <2>3. CASE n # 0
    <3>1. n - 1 \in Nat /\ n - 1 \notin T
      BY <2>1, <2>3
    <3>2. PICK g : Upto(n - 1, a, g)
      BY <3>1
    <3>. DEFINE h == [i \in 0 .. n |-> IF i = n THEN g[n - 1] + a[n] ELSE g[i]]
    <3>3. \A i \in 0 .. n : h[i] = IF i = 0 THEN 0 ELSE h[i - 1] + a[i]
      BY <2>1, <2>3, <3>2 DEF Upto
    <3>4. Upto(n, a, h)
      BY <3>3 DEF Upto
    <3>. QED BY <3>4
  <2>. QED BY <2>2, <2>3
<1>2. ASSUME NEW m \in Nat, NEW n \in Nat, m <= n, NEW g, Upto(m, a, g), NEW h, Upto(n, a, h)
      PROVE  g[m] = h[m]
  <2>. DEFINE T == {i \in 0 .. m : g[i] # h[i]}
  <2>. SUFFICES ASSUME T # {} PROVE FALSE
    OBVIOUS
  <2>1. PICK i \in T : \A k \in T : i <= k
    <3>. HIDE DEF T
    <3>1. T \in SUBSET Nat
      BY DEF T
    <3>. QED  BY <3>1, Least
  <2>2. g[i] = (IF i = 0 THEN 0 ELSE g[i - 1] + a[i])
    BY <1>2 DEF Upto
  <2>3. h[i] = (IF i = 0 THEN 0 ELSE h[i - 1] + a[i])
    BY <1>2 DEF Upto
  <2>4. CASE i # 0
    <3>1. i - 1 \in 0 .. m /\ i - 1 \notin T
      BY <2>1, <2>4
    <3>. QED  BY <2>2, <2>3, <2>4, <3>1
  <2>. QED BY <2>2, <2>3, <2>4
<1>. DEFINE C(n) == CHOOSE g : Upto(n, a, g)
            F == [n \in Nat |-> C(n)[n]]
<1>3. \A n \in Nat : Upto(n, a, C(n))
  BY <1>1
<1>4. ASSUME NEW i \in Nat PROVE C(i)[i] = IF i = 0 THEN 0 ELSE C(i - 1)[i - 1] + a[i]
  <2>0. Upto(i, a, C(i))
    BY <1>3
  <2>. HIDE DEF C
  <2>1. C(i)[i] = IF i = 0 THEN 0 ELSE C(i)[i - 1] + a[i]
    <3>. DEFINE g == C(i)
    <3>1. Upto(i, a, g)
      BY <2>0
    <3>. HIDE DEF g
    <3>2. g[i] = IF i = 0 THEN 0 ELSE g[i - 1] + a[i]
      BY <3>1 DEF Upto
    <3>. QED BY <3>2 DEF g
  <2>2. CASE i # 0
    <3>0. Upto(i - 1, a, C(i - 1))
      BY <1>3, <2>2
    <3>1. C(i)[i - 1] = C(i - 1)[i - 1]
      BY <1>2, <2>0, <3>0, <2>2
    <3>. QED BY <2>1, <2>2, <3>1
  <2>. QED BY <2>1, <2>2
<1>5. F = [i \in Nat |-> IF i = 0 THEN 0 ELSE F[i - 1] + a[i]]
  <2>. HIDE DEF C
  <2>1. \A i \in Nat : (IF i = 0 THEN 0 ELSE F[i - 1] + a[i]) = C(i)[i]
    BY <1>4
  <2>. QED BY <2>1
<1>. QED BY <1>5

\* Sums of natural numbers are natural numbers, and grow with the list.
LEMMA SumsGrow ==
  ASSUME NEW n \in Nat, NEW a, \A i \in 1 .. n : a[i] \in Nat,
         NEW F, F[0] = 0, \A i \in 1 .. n : F[i] = F[i - 1] + a[i]
  PROVE  /\ \A i \in 0 .. n : F[i] \in Nat
         /\ \A i, j \in 0 .. n : i <= j => F[i] <= F[j]
<1>1. \A i \in 0 .. n : F[i] \in Nat
  <2>. DEFINE T == {i \in 0 .. n : F[i] \notin Nat}
  <2>. SUFFICES ASSUME T # {} PROVE FALSE
    OBVIOUS
  <2>1. PICK i \in T : \A k \in T : i <= k
    <3>. HIDE DEF T
    <3>1. T \in SUBSET Nat
      BY DEF T
    <3>. QED  BY <3>1, Least
  <2>2. i # 0 /\ i - 1 \in 0 .. n /\ i - 1 \notin T
    BY <2>1
  <2>. QED  BY <2>2
<1>2. ASSUME NEW i \in 0 .. n PROVE \A j \in 0 .. n : i <= j => F[i] <= F[j]
  <2>. DEFINE T == {j \in 0 .. n : i <= j /\ ~ F[i] <= F[j]}
  <2>. SUFFICES ASSUME T # {} PROVE FALSE
    OBVIOUS
  <2>1. PICK j \in T : \A k \in T : j <= k
    <3>. HIDE DEF T
    <3>1. T \in SUBSET Nat
      BY DEF T
    <3>. QED  BY <3>1, Least
  <2>2. j # i /\ j - 1 \in 0 .. n /\ i <= j - 1 /\ j - 1 \notin T
    BY <1>1, <2>1
  <2>. QED  BY <1>1, <2>2
<1>. QED  BY <1>1, <1>2
=============================================================================
