------------------------------- MODULE Packets -------------------------------
(***************************************************************************)
(* debug/gdb/protocol.cc: the characters of a packet.  A packet is         *)
(* $text#nn with a sum of the text in two hexadecimal digits; numbers and  *)
(* data are written in such digits, or, after X, as bytes of which four are*)
(* masked.  Stub has who talks when; here the stub waits for a packet, and *)
(* the debugger sends one, of which the line may spoil a character.        *)
(*                                                                         *)
(* Characters are their codes.  The debugger keeps to the protocol: it     *)
(* announces as many bytes as it sends with X.  Left out: characters that  *)
(* lie in pkt_buf behind a packet, which only a packet without its         *)
(* separators would have read.                                             *)
(***************************************************************************)
EXTENDS Integers, Sequences, SequencesExt

CONSTANTS Byte,         \* what memory and registers may hold
          Base, Cells,  \* the first address, and how many there are
          NumRegisters, RegisterSize,  \* 16 of 4 bytes in the code
          BufSize,      \* of pkt_buf, 256 in the code
          DataSize,     \* of data in mem_read() and mem_write(), 64 in the code
          Word,         \* numbers wrap there, 2^32 in the code
          Noise,        \* what a spoiled character may become
          MaxCommands   \* bound: commands

Dollar == 36  \* $, and so on
Hash == 35
Star == 42
Brace == 125
Plus == 43
Minus == 45
Comma == 44
Colon == 58
Equals == 61
Letter == [g |-> 103, G |-> 71, p |-> 112, P |-> 80, m |-> 109, M |-> 77, X |-> 88]
OK == <<79, 75>>
E00 == <<69, 48, 48>>
Error == <<-1>>

VARIABLES mem, regs,  \* the bytes of memory and of all registers
          heard,      \* what the stub has answered to the last packet
          ended,      \* handle() has returned; or an assertion has failed
          asked,      \* auxiliary: the debugger's last command
          spoiled,    \* auxiliary: and whether it came as it was sent
          want,       \* auxiliary: memory and registers as they should be
          commands    \* auxiliary: commands sent

pvars == <<mem, regs, heard, ended, asked, spoiled, want, commands>>

-----------------------------------------------------------------------------
(* Digits and numbers                                                      *)

GetDigit(val) == IF val < 10 THEN 48 + val ELSE 87 + val

GetVal(digit, base) ==
  LET value == CASE digit \in 48 .. 57 -> digit - 48 [] digit \in 97 .. 102 -> digit - 87
                 [] digit \in 65 .. 70 -> digit - 55 [] OTHER -> base
  IN  IF value < base THEN value ELSE -1

\* strtol(): sign, prefix 0x, and digits up to the first that is none; the rest of
\* the text is Error when there was no digit.
Number(text) ==
  LET sign == IF text # <<>> /\ text[1] \in {Plus, Minus} THEN 1 ELSE 0
      hex == sign + 2 < Len(text) /\ text[sign + 1] = 48 /\ text[sign + 2] \in {120, 88}
      first == sign + IF hex THEN 2 ELSE 0
      last == CHOOSE n \in first .. Len(text) :
                /\ \A k \in first + 1 .. n : GetVal(text[k], 16) # -1
                /\ n < Len(text) => GetVal(text[n + 1], 16) = -1
      value[n \in first .. last] ==
        IF n = first THEN 0 ELSE (value[n - 1] * 16 + GetVal(text[n], 16)) % Word
  IN  [value |-> IF sign = 1 /\ text[1] = Minus THEN (- value[last]) % Word ELSE value[last],
       rest |-> IF last = first THEN Error ELSE SubSeq(text, last + 1, Len(text))]

\* token_expect_seperator
Behind(char, text) == IF text # <<>> /\ text[1] = char THEN Tail(text) ELSE Error

-----------------------------------------------------------------------------
(* Data                                                                    *)

EncHex(data, room) ==
  IF room < 2 * Len(data) THEN Error
  ELSE [k \in 1 .. 2 * Len(data) |->
          LET byte == data[(k + 1) \div 2]
          IN  GetDigit(IF k % 2 = 1 THEN byte \div 16 ELSE byte % 16)]

IsHex(text) == \A k \in DOMAIN text : GetVal(text[k], 16) # -1

DecHex(text, len) ==
  IF Len(text) # 2 * len THEN Error
  ELSE [k \in 1 .. len |-> GetVal(text[2 * k - 1], 16) * 16 + GetVal(text[2 * k], 16)]

Flip(byte) == IF (byte \div 32) % 2 = 1 THEN byte - 32 ELSE byte + 32

\* As the debugger masks, too.
EncBin(data) ==
  FlattenSeq([k \in DOMAIN data |->
    IF data[k] \in {Dollar, Hash, Brace, Star} THEN <<Brace, Flip(data[k])>> ELSE <<data[k]>>])

\* A faulty form of DecBin: masked characters are taken as they are.
DecBinPlain(text) == SelectSeq(text, LAMBDA char : char # Brace)

DecBin(text) ==
  LET read[n \in 0 .. Len(text)] ==
        IF n = 0 THEN [data |-> <<>>, masked |-> FALSE]
        ELSE IF read[n - 1].masked
             THEN [data |-> Append(read[n - 1].data, Flip(text[n])), masked |-> FALSE]
        ELSE IF text[n] = Brace THEN [read[n - 1] EXCEPT !.masked = TRUE]
        ELSE [read[n - 1] EXCEPT !.data = Append(@, text[n])]
  IN  read[Len(text)].data

Checksum(text) == FoldSeq(LAMBDA char, sum : (sum + char) % 256, 0, text)

\* send_packet()
Packet(text) == <<Dollar>> \o text \o <<Hash>> \o EncHex(<<Checksum(text)>>, 2)

-----------------------------------------------------------------------------
(* recv_packet()                                                           *)

\* There must be room for it; and read() has a character with the code 255 come as
\* -1, which is a receive error.
Readable(text) == Len(text) <= BufSize /\ ~ Contains(text, 255)

\* What is between the first $ and the next #, and how it ends

Received(line) ==
  LET start == CHOOSE k \in DOMAIN line : line[k] = Dollar /\ \A j \in 1 .. k - 1 : line[j] # Dollar
      end == CHOOSE k \in start .. Len(line) : line[k] = Hash /\ \A j \in start .. k - 1 : line[j] # Hash
      text == SubSeq(line, start + 1, end - 1)
      sum == SubSeq(line, end + 1, end + 2)
  IN  [text |-> text,
       how |-> IF ~ Readable(text) \/ 255 \in {sum[1], sum[2]} THEN "unreadable"
               ELSE IF ~ IsHex(sum) THEN "assertion"
               ELSE IF DecHex(sum, 1) # <<Checksum(text)>> THEN "refused" ELSE "taken"]

\* Bad packets end handle(); one is refused before.  In an assertion the CPU stops.
RecvBad(line) ==
  /\ Received(line).how # "taken"
  /\ ended' = TRUE /\ heard' = IF Received(line).how = "refused" THEN <<Minus>> ELSE <<>>
  /\ UNCHANGED <<mem, regs>>

-----------------------------------------------------------------------------
(* The commands of handle()                                                *)

Sends(text) == heard' = <<Plus>> \o Packet(text) /\ UNCHANGED ended
Refuse == Sends(E00) /\ UNCHANGED <<mem, regs>>
Shows(data) ==
  /\ EncHex(data, BufSize) # Error /\ Sends(EncHex(data, BufSize))
  /\ UNCHANGED <<mem, regs>>

ReadRegisters(text) == text[1] = Letter.g /\ Shows(regs)

WriteRegisters(text) ==
  LET data == DecHex(Tail(text), Len(regs)) IN
  /\ text[1] = Letter.G
  /\ IF data = Error THEN Refuse ELSE regs' = data /\ Sends(OK) /\ UNCHANGED mem

Register(n) == SubSeq(regs, n * RegisterSize + 1, (n + 1) * RegisterSize)

ReadRegister(text) ==
  LET n == Number(Tail(text)) IN
  /\ text[1] = Letter.p
  /\ IF n.rest = Error \/ n.value >= NumRegisters THEN Refuse ELSE Shows(Register(n.value))

WriteRegister(text) ==
  LET n == Number(Tail(text))
      digits == Behind(Equals, n.rest)
      data == IF digits = Error THEN Error ELSE DecHex(digits, RegisterSize)
  IN
  /\ text[1] = Letter.P
  /\ IF data = Error \/ n.value >= NumRegisters THEN Refuse
     ELSE /\ regs' = [k \in DOMAIN regs |->
               IF k \in n.value * RegisterSize + 1 .. (n.value + 1) * RegisterSize
               THEN data[k - n.value * RegisterSize] ELSE regs[k]]
          /\ Sends(OK) /\ UNCHANGED mem

\* addr,length and what follows
Place(text) ==
  LET addr == Number(Tail(text))
      length == Number(Behind(Comma, addr.rest))
  IN  [addr |-> addr.value, length |-> length.value, rest |-> length.rest]

ReadMemory(text) ==
  LET at == Place(text) IN
  /\ text[1] = Letter.m
  /\ IF at.length > DataSize THEN Refuse
     ELSE Shows([k \in 1 .. at.length |-> mem[at.addr + k - 1]])

\* mem_write() in digits (M) or bytes (X)
WriteMemory(text) ==
  LET at == Place(text)
      rest == Behind(Colon, at.rest)
      data == IF text[1] = Letter.M THEN DecHex(rest, at.length) ELSE DecBin(rest)
  IN
  /\ text[1] \in {Letter.M, Letter.X}
  /\ IF rest = Error \/ at.length > DataSize \/ data = Error THEN Refuse
     ELSE /\ mem' = [a \in DOMAIN mem |->
               IF a \in at.addr .. at.addr + at.length - 1 THEN data[a - at.addr + 1] ELSE mem[a]]
          /\ Sends(OK) /\ UNCHANGED regs

Handle(line) ==
  \/ RecvBad(line)
  \/ LET text == Received(line).text IN
     /\ Received(line).how = "taken"
     /\ \/ ReadRegisters(text) \/ WriteRegisters(text) \/ ReadRegister(text)
        \/ WriteRegister(text) \/ ReadMemory(text) \/ WriteMemory(text)

-----------------------------------------------------------------------------
(* The debugger, and the line                                              *)

Digits(n) == IF n < 16 THEN <<GetDigit(n)>> ELSE <<GetDigit(n \div 16), GetDigit(n % 16)>>
Hex(data) == FlattenSeq([k \in DOMAIN data |-> <<GetDigit(data[k] \div 16), GetDigit(data[k] % 16)>>])

\* A command: its letter, an address or the number of a register, a length, and data
Cmd(letter, at, len, data) == [letter |-> letter, at |-> at, len |-> len, data |-> data]
Command ==
  LET Data(n) == [1 .. n -> Byte] IN  {Cmd("g", 0, 0, <<>>)}
        \cup {Cmd("G", 0, 0, d) : d \in Data(NumRegisters * RegisterSize)}
        \cup {Cmd("p", n, 0, <<>>) : n \in 0 .. NumRegisters}
        \cup {Cmd("P", n, 0, d) : n \in 0 .. NumRegisters, d \in Data(RegisterSize)}
        \cup {Cmd("m", a, n, <<>>) : a \in Base .. Base + 1, n \in 0 .. DataSize + 1}
        \cup {Cmd(l, a, Len(d), d) : l \in {"M", "X"}, a \in Base .. Base + 1,
              d \in UNION {Data(n) : n \in 0 .. DataSize}
                     \cup {[k \in 1 .. DataSize + 1 |-> b] : b \in Byte}}

TextOf(c) ==
  <<Letter[c.letter]>> \o
  CASE c.letter = "g" -> <<>>
    [] c.letter = "G" -> Hex(c.data)
    [] c.letter = "p" -> Digits(c.at)
    [] c.letter = "P" -> Digits(c.at) \o <<Equals>> \o Hex(c.data)
    [] c.letter = "m" -> Digits(c.at) \o <<Comma>> \o Digits(c.len)
    [] c.letter = "M" -> Digits(c.at) \o <<Comma>> \o Digits(c.len) \o <<Colon>> \o Hex(c.data)
    [] c.letter = "X" -> Digits(c.at) \o <<Comma>> \o Digits(c.len) \o <<Colon>> \o EncBin(c.data)

\* Is it one that the stub has room for?
Within(c) == IF c.letter \in {"p", "P"} THEN c.at < NumRegisters ELSE c.len <= DataSize

\* Memory and registers after it
Meant(c) ==
  IF ~ Within(c) THEN want
  ELSE [mem |-> IF c.letter \in {"M", "X"}
                THEN [a \in DOMAIN want.mem |->
                        IF a - c.at \in 0 .. c.len - 1 THEN c.data[a - c.at + 1] ELSE want.mem[a]]
                ELSE want.mem,
        regs |-> CASE c.letter = "G" -> c.data
                   [] c.letter = "P" ->
                        SubSeq(want.regs, 1, c.at * RegisterSize) \o c.data
                          \o SubSeq(want.regs, (c.at + 1) * RegisterSize + 1, Len(want.regs))
                   [] OTHER -> want.regs]

\* What the debugger expects to hear
Expected(c) ==
  CASE ~ Within(c) -> E00
    [] c.letter = "g" -> Hex(want.regs)
    [] c.letter = "p" -> Hex(SubSeq(want.regs, c.at * RegisterSize + 1, (c.at + 1) * RegisterSize))
    [] c.letter = "m" -> Hex([k \in 1 .. c.len |-> want.mem[c.at + k - 1]])
    [] OTHER -> OK

Init ==
  /\ mem \in [Base .. Base + Cells - 1 -> {0}] /\ regs \in [1 .. NumRegisters * RegisterSize -> {0}]
  /\ want = [mem |-> mem, regs |-> regs]
  /\ heard = <<>> /\ ended = FALSE /\ asked = Cmd("none", 0, 0, <<>>) /\ spoiled = FALSE /\ commands = 0

\* An acknowledgement may come first.
Ask(c) ==
  /\ ~ ended /\ commands < MaxCommands /\ commands' = commands + 1
  /\ asked' = c /\ spoiled' = FALSE
  /\ want' = IF Readable(TextOf(c)) THEN Meant(c) ELSE want
  /\ Handle(<<Plus>> \o Packet(TextOf(c)))

\* One character of the text or the sum is changed.
AskSpoiled(c) ==
  LET line == Packet(TextOf(c)) IN
  /\ ~ ended /\ commands < MaxCommands /\ commands' = commands + 1
  /\ asked' = c /\ spoiled' = TRUE /\ UNCHANGED want
  /\ \E k \in 2 .. Len(line), char \in Noise :
       line[k] \notin {Hash, char} /\ Handle([line EXCEPT ![k] = char])

Next == \E c \in Command : Ask(c) \/ AskSpoiled(c)

Spec == Init /\ [][Next]_pvars
-----------------------------------------------------------------------------
\* A command that comes as it was sent does what it means and is answered as the
\* debugger expects, whatever it carries, or is refused when it exceeds the registers
\* or what the stub has room for; only one too long for the packet's buffer or with a
\* byte 255 goes unanswered.  One that was spoiled changes nothing and is never answered.
PacketsAreMeant ==
  /\ mem = want.mem /\ regs = want.regs
  /\ commands > 0 =>
       IF spoiled THEN ended /\ heard \in {<<>>, <<Minus>>}
       ELSE IF ended THEN heard = <<>> /\ ~ Readable(TextOf(asked))
       ELSE heard = <<Plus>> \o Packet(Expected(asked))
=============================================================================
