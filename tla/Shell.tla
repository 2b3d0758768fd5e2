-------------------------------- MODULE Shell --------------------------------
(***************************************************************************)
(* user/shell/shell.cc: read() edits a line at a cursor, with the commands *)
(* entered before as other lines to choose from, and process_input() adds  *)
(* what was entered to them.  Browsing starts from a copy of the line typed*)
(* so far, to which one comes back below the last command.                 *)
(*                                                                         *)
(* How the line is drawn, and what the commands print, is left out.        *)
(***************************************************************************)
EXTENDS Integers, Sequences, SequencesExt, FiniteSetsExt

CONSTANTS Char,     \* the characters that keys have
          Jump,     \* ten in the code: how far the cursor goes with shift or ctrl
          Count,    \* read()'s limit, 512 in the code
          MaxLines  \* bound: commands kept

ShellAssumption == Jump \in Nat

VARIABLES str,     \* the line
          cursor,  \* where the next character goes
          entries, \* the history, oldest first
          cur,     \* which line is shown: an entry, or NoEntry
          tmp,     \* the line typed before browsing, as <<line>>, or NoLine
          reading, \* read() is running
          own      \* auxiliary: the line as typed, before browsing

shell == <<str, cursor, entries, cur, tmp, reading, own>>

NoEntry == 0
NoLine == <<>>

-----------------------------------------------------------------------------
ShellInit ==
  /\ str = <<>> /\ cursor = 0 /\ entries = <<>> /\ cur = NoEntry /\ tmp = NoLine
  /\ reading = FALSE /\ own = <<>>

\* start(): the prompt is printed and read() called.
Read ==
  /\ ~ reading /\ reading' = TRUE
  /\ str' = <<>> /\ cursor' = 0 /\ own' = <<>>
  /\ UNCHANGED <<entries, cur, tmp>>

Active == reading /\ Len(str) < Count

\* The line that a key has changed; while nothing is browsed it is one's own.
Edited(line) ==
  /\ str' = line /\ own' = IF cur = NoEntry THEN line ELSE own
  /\ UNCHANGED <<entries, cur, tmp, reading>>

\* A key with a character: String::insert()
InsertChar(c) ==
  /\ Active /\ cursor' = cursor + 1
  /\ Edited(IF cursor > Len(str) THEN str ELSE InsertAt(str, cursor + 1, c))

Backspace ==
  /\ Active
  /\ IF cursor # 0
     THEN cursor' = cursor - 1 /\ Edited(RemoveAt(str, cursor))
     ELSE UNCHANGED shell

\* Arrow keys
Left(n) ==
  /\ Active /\ cursor # 0
  /\ cursor' = IF cursor < n THEN 0 ELSE cursor - n
  /\ Edited(str)

Right(n) ==
  /\ Active /\ cursor < Len(str)
  /\ cursor' = Min({cursor + n, Len(str)})
  /\ Edited(str)

\* Another line of the history is shown.
Shows(line) ==
  /\ str' = line /\ cursor' = Len(line)
  /\ UNCHANGED <<entries, reading, own>>

\* The first step up keeps a copy of the line.
Up ==
  /\ Active
  /\ \/ /\ cur = NoEntry /\ entries # <<>>
        /\ tmp' = <<str>> /\ cur' = Len(entries) /\ Shows(entries[Len(entries)])
     \/ /\ cur > 1 /\ cur' = cur - 1 /\ Shows(entries[cur - 1]) /\ UNCHANGED tmp

\* A faulty form of Down: the copy is not taken back.
DownStays ==
  /\ Active /\ cur # NoEntry
  /\ IF cur < Len(entries)
     THEN cur' = cur + 1 /\ Shows(entries[cur + 1]) /\ UNCHANGED tmp
     ELSE cur' = NoEntry /\ tmp' = NoLine /\ Shows(entries[cur])

\* Below the last command is the line that was being typed.
Down ==
  /\ Active /\ cur # NoEntry
  /\ IF cur < Len(entries)
     THEN cur' = cur + 1 /\ Shows(entries[cur + 1]) /\ UNCHANGED tmp
     ELSE cur' = NoEntry /\ tmp' = NoLine /\ Shows(tmp[1])

\* The end of read()
Finished ==
  /\ reading' = FALSE /\ tmp' = NoLine /\ cur' = NoEntry /\ cursor' = 0
  /\ UNCHANGED own

\* history_add(): not the same command twice.  Without a last command it is
\* compared with what lies at address zero, which may be anything.
Added(line) ==
  IF entries = <<>> THEN entries' \in {entries, <<line>>}
  ELSE entries' = IF Last(entries) = line THEN entries ELSE Append(entries, line)

\* Newline, or the limit reached; process_input()
Enter ==
  /\ reading /\ Len(entries) < MaxLines
  /\ Finished /\ str' = str
  /\ IF str = <<>> THEN UNCHANGED entries ELSE Added(str)

\* Ctrl-D: what was typed is executed all the same, unless it is nothing, which
\* ends the shell; another one may be started.
Leave ==
  /\ Active /\ Len(entries) < MaxLines
  /\ Finished /\ str' = str
  /\ IF str = <<>> THEN entries' = <<>> ELSE Added(str)

ShellNext ==
  \/ Read \/ Enter \/ Leave \/ Up \/ Down \/ Backspace
  \/ \E c \in Char : InsertChar(c)
  \/ \E n \in {1, Jump} : Left(n) \/ Right(n)

ShellSpec == ShellInit /\ [][ShellNext]_shell
-----------------------------------------------------------------------------
\* Whatever keys are pressed, the cursor is in the line, browsing the history
\* loses nothing of the line that was being typed, which comes back when one
\* leaves it downwards, and a line read is one that was shown; the history has no
\* command twice in a row.
LineIsKept ==
  /\ cursor \in 0 .. Len(str)
  /\ reading => (cur = NoEntry <=> tmp = NoLine)
  /\ reading => own = IF cur = NoEntry THEN str ELSE tmp[1]
  /\ cur # NoEntry => cur \in DOMAIN entries
  /\ \A i \in 2 .. Len(entries) : entries[i] # entries[i - 1]
=============================================================================
