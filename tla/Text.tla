-------------------------------- MODULE Text --------------------------------
(***************************************************************************)
(* user/string/string.cc: a string keeps its characters in itself while    *)
(* they are few, and in a block of the heap afterwards, whose size doubles;*)
(* characters are written where room was reserved before.  Most operations *)
(* are made of others: insert() cuts the end off, resizes, and appends     *)
(* twice; erase() assigns what it has put together of two substrings.      *)
(*                                                                         *)
(* Positions count from 0.  What lies behind the length is not told apart, *)
(* but that it is written is.  Left out: append() of a string to itself,   *)
(* which does not end and which nobody asks for, and shrink_to_fit(), which*)
(* nobody calls.                                                           *)
(***************************************************************************)
EXTENDS Naturals, Sequences

CONSTANTS Sign,    \* the characters: a delimiter, a line feed, and others
          Space, Feed,
          Short,   \* SHORT_STRING_LENGTH
          MaxLen   \* bound: characters

ASSUME TextAssumption ==
  /\ {Space, Feed} \subseteq Sign /\ Short \in Nat \ {0} /\ MaxLen \in Nat

Npos == MaxLen + 1  \* the code's -1: beyond every position
Argument == {<<c>> : c \in Sign} \cup {<<>>} \cup {<<c, d>> : c, d \in Sign \ {Feed}}

VARIABLES string,  \* the string
          overrun, \* auxiliary: something was written where there was no room
          text,    \* auxiliary: the characters it should have
          tokens,  \* auxiliary: what strtok() has returned since it began with this text
          failed   \* an assertion has stopped the CPU

tvars == <<string, overrun, text, tokens, failed>>

-----------------------------------------------------------------------------
(* Strings as the code has them                                            *)

String(heap, cap, chars, save) == [heap |-> heap, cap |-> cap, chars |-> chars, save |-> save]
EmptyString == String(FALSE, Short, <<>>, 0)
Length(s) == Len(s.chars)

FirstOf(S, otherwise) == IF S = {} THEN otherwise ELSE CHOOSE i \in S : \A j \in S : i <= j

\* The loop of reserve(): the room is doubled until it is enough.
Doubled(cap, n) ==
  LET room[e \in 0 .. n] == IF e = 0 THEN cap ELSE 2 * room[e - 1]
  IN  room[FirstOf({e \in 0 .. n : room[e] >= n}, n)]

\* reserve(): the first block is twice as big as what the string itself holds.
Reserve(s, n) ==
  IF n <= s.cap THEN s
  ELSE [s EXCEPT !.heap = TRUE, !.cap = Doubled(IF s.heap THEN s.cap ELSE 2 * Short, n)]

\* append(): reserve, then _append for each
AppendTo(s, chars) == [Reserve(s, Length(s) + Len(chars)) EXCEPT !.chars = @ \o chars]

\* _append_nullbyte(): the byte does not count.
NullByte(s) == Reserve(s, Length(s) + 1)

\* operator=: the room is kept.
Assigned(s, chars) == AppendTo([s EXCEPT !.chars = <<>>, !.save = 0], chars)

\* resize(), to a length that is not greater or with characters to fill up
Resized(s, n, c) ==
  IF n <= Length(s) THEN [s EXCEPT !.chars = SubSeq(@, 1, n)]
  ELSE AppendTo(s, [i \in 1 .. n - Length(s) |-> c])

\* substr(), the characters of the new string; pos + len may be beyond the end.
Substr(s, pos, len) ==
  IF pos >= Length(s) THEN <<>>
  ELSE SubSeq(s.chars, pos + 1, IF pos + len < Length(s) THEN pos + len ELSE Length(s))

\* A faulty form of Inserted: the end is taken when it has gone.
InsertedLate(s, pos, chars) ==
  IF pos > Length(s) THEN s
  ELSE LET front == AppendTo(Resized(s, pos, Space), chars)
       IN  AppendTo(front, Substr(front, pos + Len(chars), Npos))

Inserted(s, pos, chars) ==
  IF pos > Length(s) THEN s
  ELSE AppendTo(AppendTo(Resized(s, pos, Space), chars), Substr(s, pos, Npos))

Erased(s, pos, len) ==
  IF pos >= Length(s) THEN s
  ELSE Assigned(s, Substr(s, 0, pos) \o (IF len = Npos THEN <<>> ELSE Substr(s, pos + len, Npos)))

\* compare(), find()
CompareAt(s, pos, chars) ==
  pos + Len(chars) <= Length(s) /\ \A i \in 1 .. Len(chars) : s.chars[pos + i] = chars[i]

Find(s, chars, pos) == FirstOf({i \in pos .. Length(s) - 1 : CompareAt(s, i, chars)}, Npos)
FindFirstOf(s, delim, pos) == FirstOf({i \in pos .. Length(s) - 1 : s.chars[i + 1] \in delim}, Npos)

\* strtok(): skip the delimiters, up to the next one or the end; the save index
\* goes behind it.
Tok(s, delim) ==
  LET begin == FirstOf({i \in s.save .. Length(s) - 1 : s.chars[i + 1] \notin delim},
                     IF s.save > Length(s) THEN s.save ELSE Length(s))
      pos == FirstOf({FindFirstOf(s, delim, begin)} \ {Npos}, Length(s))
  IN  [token |-> IF begin >= Length(s) THEN <<>> ELSE Substr(s, begin, pos - begin),
       save |-> pos + 1]

-----------------------------------------------------------------------------
(* What is promised: operations on sequences                               *)

Split(chars, delim) ==
  LET ends(i) == chars[i] \notin delim /\ (i = Len(chars) \/ chars[i + 1] \in delim)
      start(e) == FirstOf({b \in 1 .. e : \A j \in b .. e : chars[j] \notin delim}, e)
      word[i \in 0 .. Len(chars)] ==
        IF i = 0 THEN <<>>
        ELSE IF ends(i) THEN Append(word[i - 1], SubSeq(chars, start(i), i)) ELSE word[i - 1]
  IN  word[Len(chars)]

Cut(chars, pos, len) ==
  SubSeq(chars, 1, pos) \o SubSeq(chars, pos + len + 1, Len(chars))

-----------------------------------------------------------------------------
TextInit == string = EmptyString /\ overrun = FALSE /\ text = <<>> /\ tokens = <<>> /\ failed = FALSE

\* After a call that has changed the string, and written so many characters of it
Stores(written, s, chars) ==
  /\ ~ failed /\ Len(chars) <= MaxLen
  /\ string' = s /\ text' = chars
  /\ overrun' = (overrun \/ written > s.cap)
  /\ tokens' = <<>> /\ UNCHANGED failed

Leaves(s, chars) == Stores(Length(s), s, chars)

\* append, push_back, operator+=
DoAppend(chars) == Leaves(AppendTo(string, chars), text \o chars)

\* operator=, the constructors
DoAssign(chars) == Leaves(Assigned(string, chars), chars)

DoInsert(pos, chars) ==
  Leaves(Inserted(string, pos, chars),
          IF pos > Len(text) THEN text
          ELSE SubSeq(text, 1, pos) \o chars \o SubSeq(text, pos + 1, Len(text)))

DoErase(pos, len) == Leaves(Erased(string, pos, len), Cut(text, pos, len))

DoResize(n) ==
  Leaves(Resized(string, n, Space), [i \in 1 .. n |-> IF i <= Len(text) THEN text[i] ELSE Space])

PopBack ==
  IF Length(string) = 0 THEN Leaves(string, text)
  ELSE Leaves(Resized(string, Length(string) - 1, Space), SubSeq(text, 1, Len(text) - 1))

Clear == Leaves([string EXCEPT !.chars = <<>>, !.save = 0], <<>>)

\* operator const char*, and at() or operator[] at the length
CString == Stores(Length(string) + 1, NullByte(string), text)

\* remove_lf, without_lf: the last character is looked at.
RemoveLf ==
  /\ text # <<>>
  /\ IF string.chars[Length(string)] = Feed THEN PopBack ELSE Leaves(string, text)

\* ... which an empty string does not have: at(-1).
RemoveLfOfEmpty ==
  /\ text = <<>> /\ ~ failed
  /\ failed' = TRUE /\ UNCHANGED <<string, overrun, text, tokens>>

\* tok(), strtok(), from the beginning on or after other tokens
DoTok(delim) ==
  LET t == Tok(string, delim) IN
  /\ ~ failed /\ (tokens = <<>> => string.save = 0) /\ Len(tokens) <= MaxLen
  /\ string' = [string EXCEPT !.save = t.save]
  /\ tokens' = Append(tokens, t.token)
  /\ UNCHANGED <<overrun, text, failed>>

TextNext ==
  \/ \E chars \in Argument : DoAppend(chars) \/ DoAssign(chars)
  \/ \E chars \in Argument, pos \in 0 .. Len(text) + 1 : DoInsert(pos, chars)
  \/ \E pos \in 0 .. Len(text), len \in {0, 1, 2, Npos} : DoErase(pos, len)
  \/ \E n \in 0 .. MaxLen : DoResize(n)
  \/ PopBack \/ Clear \/ CString \/ RemoveLf \/ RemoveLfOfEmpty
  \/ DoTok({Space, Feed})

TextSpec == TextInit /\ [][TextNext]_tvars
-----------------------------------------------------------------------------
\* After any calls the string holds what the same operations make of a plain
\* sequence; nothing is written beyond the room it has; strtok() returns the
\* words of the text one by one, and the empty string when there are no more;
\* and find() finds the first place where a piece of the text is.
StringIsText ==
  /\ ~ overrun /\ string.chars = text
  /\ \A i \in DOMAIN tokens :
       LET words == Split(text, {Space, Feed})
       IN  tokens[i] = IF i <= Len(words) THEN words[i] ELSE <<>>
  /\ \A pos \in 0 .. Len(text) - 1, len \in 1 .. 2 :
       LET piece == Substr(string, pos, len) IN
         /\ Find(string, piece, 0) <= pos
         /\ CompareAt(string, Find(string, piece, 0), piece)
=============================================================================
