------------------------------ MODULE Numbers -------------------------------
(***************************************************************************)
(* Numbers as text: object/o_stream.cc prints them in the base that its    *)
(* manipulators have set, with the prefix of the base, and strtol() of     *)
(* user/string/string.cc reads them back and finds the base by the prefix. *)
(*                                                                         *)
(* A character is the value of a digit, from 0 up; the letters of the      *)
(* prefixes are digits as well.  Minus is no digit.                        *)
(***************************************************************************)
EXTENDS Integers, Sequences

CONSTANT Word    \* number of values of an unsigned long, 2^32 in the code

Minus == 99
LetterB == 11
LetterX == 33
Largest == Word \div 2 - 1   \* SSIZE_MAX

VARIABLES base,    \* O_Stream::base
          value,   \* auxiliary: the number that was printed, as it was given
          printed  \* auxiliary: its characters

nvars == <<base, value, printed>>

Prefix(b) == CASE b = 2 -> <<0, LetterB>> [] b = 8 -> <<0>> [] b = 10 -> <<>> [] b = 16 -> <<0, LetterX>>

\* A faulty form of Divisor: the comparison is too strict.
DivisorSmall(n, b) ==
  LET from[d \in Nat] == IF n \div d > b THEN from[d * b] ELSE d IN from[1]

\* The loop for the biggest power of the base that is not bigger than the number
Divisor(n, b) ==
  LET from[d \in Nat] == IF n \div d >= b THEN from[d * b] ELSE d IN from[1]

\* operator<<(unsigned long): a digit for each power down to 1
Unsigned(n, b) ==
  LET digits[d \in Nat] ==
        IF d = 0 THEN <<>>
        ELSE <<(n \div d) % b>> \o digits[d \div b]
  IN  Prefix(b) \o digits[Divisor(n, b)]

\* operator<<(long): the minus only in base 10; otherwise the word as it is
Long(v, b) ==
  IF b = 10 /\ v < 0 THEN <<Minus>> \o Unsigned(-v, b) ELSE Unsigned(v % Word, b)

-----------------------------------------------------------------------------
(* strtol                                                                  *)

Result(v, error) == [value |-> v, error |-> error]
IsDigit(c, b) == c \in 0 .. b - 1

\* What is left after the minus: compare(i, "0b") and so on, octal last
BaseOf(chars) ==
  IF Len(chars) >= 2 /\ SubSeq(chars, 1, 2) = Prefix(2) THEN 2
  ELSE IF Len(chars) >= 2 /\ SubSeq(chars, 1, 2) = Prefix(16) THEN 16
  ELSE IF Len(chars) >= 2 /\ SubSeq(chars, 1, 1) = Prefix(8) THEN 8
  ELSE 10

\* The loop over the digits: it stops at what is none, and when the result has
\* become smaller.
Converted(chars, b) ==
  LET loop[i \in 0 .. Len(chars)] ==
        IF i = 0 THEN [value |-> 0, error |-> TRUE, over |-> FALSE, end |-> FALSE]
        ELSE LET r == loop[i - 1]  next == (b * r.value + chars[i]) % Word
             IN  IF r.over \/ r.end THEN r
                 ELSE IF ~ IsDigit(chars[i], b) THEN [r EXCEPT !.error = TRUE, !.end = TRUE]
                 ELSE [value |-> next, error |-> FALSE, over |-> next < r.value, end |-> FALSE]
      last == loop[Len(chars)]
  IN  [last EXCEPT !.over = @ \/ last.value > Largest]

Strtol(chars) ==
  LET negative == chars # <<>> /\ chars[1] = Minus
      rest == IF negative THEN Tail(chars) ELSE chars
      b == BaseOf(rest)
      r == Converted(SubSeq(rest, Len(Prefix(b)) + 1, Len(rest)), b)
  IN  IF r.over THEN Result(Largest, TRUE)
      ELSE Result(IF negative THEN -r.value ELSE r.value, r.error)

-----------------------------------------------------------------------------
Init == base = 10 /\ value = 0 /\ printed = <<0>>

\* bin, oct, dec, hex
Manipulate(b) == base' = b /\ UNCHANGED <<value, printed>>

PrintLong(v) == value' = v /\ printed' = Long(v, base) /\ UNCHANGED base
PrintUnsigned(n) == value' = n /\ printed' = Unsigned(n, base) /\ UNCHANGED base

\* operator<<(const void*): in base 16, whatever the base is
PrintPointer(n) == value' = n /\ printed' = Unsigned(n, 16) /\ UNCHANGED base

Next ==
  \/ \E b \in {2, 8, 10, 16} : Manipulate(b)
  \/ \E v \in -(Word \div 2) .. Largest : PrintLong(v)
  \/ \E n \in 0 .. Word - 1 : PrintUnsigned(n) \/ PrintPointer(n)

Spec == Init /\ [][Next]_nvars
-----------------------------------------------------------------------------
\* What is printed can be read again, whatever its base: strtol() finds the
\* number, of the base its prefix says, or says that it does not fit a long.
\* Negative numbers that are not printed in base 10 have lost their sign.
PrintedIsRead ==
  LET number == IF value < 0 /\ printed[1] # Minus THEN value + Word ELSE value IN
  Strtol(printed) = IF number > Largest \/ number < -Largest THEN Result(Largest, TRUE)
                    ELSE Result(number, FALSE)
=============================================================================
