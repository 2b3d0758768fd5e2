------------------------------- MODULE Screen -------------------------------
(***************************************************************************)
(* A window of the screen as a stream: object/strbuf.cc collects           *)
(* characters, device/cgastr.cc flushes them with the colour that is set,  *)
(* and machine/cgascr.cc puts them into the window, breaks lines, and moves*)
(* the window up.  The position is kept in the cursor register of the      *)
(* screen (kout) or in the object (all other windows).                     *)
(*                                                                         *)
(* One thread at a time writes to a window; who shares one takes           *)
(* kout_mutex.                                                             *)
(***************************************************************************)
EXTENDS Integers, Sequences

CONSTANTS COLUMNS, ROWS,                        \* size of the screen
          from_col, to_col, from_row, to_row,   \* the window
          BufferSize,                           \* 80 in the code
          Glyph,                                \* the characters
          Colour, Standard,                     \* the colours, and Attribute()
          MaxRows                               \* bound: rows of text

\* Windows lie on the screen.
ASSUME ScreenAssumption ==
  /\ COLUMNS \in Nat /\ ROWS \in Nat
  /\ from_col \in 0 .. to_col /\ to_col \in 0 .. COLUMNS - 1
  /\ from_row \in 0 .. to_row /\ to_row \in 0 .. ROWS - 1

Newline == "newline"
Pixel(c, attrib) == [char |-> c, attrib |-> attrib]
BlankPixel(attrib) == Pixel(" ", attrib)
OtherWindow == Pixel("other window", Standard)

Cell == (0 .. COLUMNS - 1) \X (0 .. ROWS - 1)
InWindow(x, y) == x \in from_col .. to_col /\ y \in from_row .. to_row

VARIABLES use_cursor, \* which of the two keeps the position
          pixels,     \* CGA_BASE
          crt,        \* the cursor register
          cur_xy,     \* cur_x, cur_y
          collected,  \* Stringbuffer: buffer and pos
          attrib,     \* CGA_Stream::attrib
          page,       \* auxiliary: the text, unbounded downwards, as rows of pixels
          place,      \* auxiliary: where the next character goes in it, <<col, row>>
          top_row     \* auxiliary: its first row in the window

svars == <<use_cursor, pixels, crt, cur_xy, collected, attrib, page, place, top_row>>

-----------------------------------------------------------------------------
(* CGA_Screen, on a record of pixels and position                          *)

Window(x, y, p) == [x |-> x, y |-> y, pixels |-> p]

\* getpos
Now ==
  LET x == IF use_cursor THEN crt % COLUMNS ELSE cur_xy[1]
      y == IF use_cursor THEN crt \div COLUMNS ELSE cur_xy[2]
  IN  IF use_cursor /\ ~ InWindow(x, y) THEN Window(0, 0, pixels) ELSE Window(x, y, pixels)

\* setpos, with positions from the end of the window; what is not in it is refused.
SetPos(x, y) ==
  LET col == IF x < 0 THEN x + to_col + 1 ELSE x
      row == IF y < 0 THEN y + to_row + 1 ELSE y
  IN  IF ~ InWindow(col, row) THEN UNCHANGED <<crt, cur_xy>>
      ELSE IF use_cursor THEN crt' = row * COLUMNS + col /\ UNCHANGED cur_xy
      ELSE cur_xy' = <<col, row>> /\ UNCHANGED crt

\* A faulty form of MoveUp: the whole width of the screen moves.
MoveUpAll(w) ==
  [w EXCEPT !.pixels = [c \in Cell |->
     IF c[2] \notin from_row .. to_row THEN @[c]
     ELSE IF c[2] = to_row THEN BlankPixel(attrib) ELSE @[<<c[1], c[2] + 1>>]]]

\* move_up_one_line
MoveUp(w) ==
  [w EXCEPT !.pixels = [c \in Cell |->
     IF ~ InWindow(c[1], c[2]) THEN @[c]
     ELSE IF c[2] = to_row THEN BlankPixel(attrib) ELSE @[<<c[1], c[2] + 1>>]]]

LineFeed(w) ==
  IF w.y + 1 > to_row THEN [MoveUp(w) EXCEPT !.x = from_col]
  ELSE [w EXCEPT !.x = from_col, !.y = @ + 1]

Show(w, x, y, pixel) == [w EXCEPT !.pixels[<<x, y>>] = pixel]

\* The loop of print(): the line breaks behind the last column.
PrintChar(w, c) ==
  LET shown == [Show(w, w.x, w.y, Pixel(c, attrib)) EXCEPT !.x = @ + 1]
  IN  IF c = Newline THEN LineFeed(w)
      ELSE IF shown.x > to_col THEN LineFeed(shown) ELSE shown

Printed(chars) ==
  LET after[i \in 0 .. Len(chars)] ==
        IF i = 0 THEN Now ELSE PrintChar(after[i - 1], chars[i])
  IN  after[Len(chars)]

\* print(), and so flush()
Display(chars) ==
  IF ~ InWindow(Now.x, Now.y) THEN UNCHANGED <<pixels, crt, cur_xy>>
  ELSE LET w == Printed(chars) IN pixels' = w.pixels /\ SetPos(w.x, w.y)

-----------------------------------------------------------------------------
(* What is promised: a page with a cursor, of which the last rows are seen *)

Width == to_col - from_col + 1
Height == to_row - from_row + 1
BlankRow(a) == [x \in 0 .. Width - 1 |-> BlankPixel(a)]

NextRow(p, r) == IF r + 1 < Len(p) THEN p ELSE Append(p, BlankRow(attrib))

TypeOn(c) ==
  LET wrote == [page EXCEPT ![place[2] + 1][place[1]] = Pixel(c, attrib)]
      break == c = Newline \/ place[1] + 1 = Width
  IN  /\ page' = LET p == IF c = Newline THEN page ELSE wrote
                 IN  IF break THEN NextRow(p, place[2]) ELSE p
      /\ place' = IF break THEN <<0, place[2] + 1>> ELSE <<place[1] + 1, place[2]>>
      /\ top_row' = Len(page') - Height

-----------------------------------------------------------------------------
\* The window is reset when it is constructed.
ScreenInit ==
  /\ use_cursor \in BOOLEAN /\ attrib = Standard /\ collected = <<>>
  /\ pixels = [c \in Cell |-> IF InWindow(c[1], c[2]) THEN BlankPixel(Standard) ELSE OtherWindow]
  /\ crt = from_row * COLUMNS + from_col /\ cur_xy = <<from_col, from_row>>
  /\ page = [r \in 1 .. Height |-> BlankRow(Standard)] /\ place = <<0, 0>> /\ top_row = 0

\* operator<<(char), Stringbuffer::put: a full buffer is flushed.
Put(c) ==
  /\ Len(page) < MaxRows
  /\ IF Len(collected) + 1 = BufferSize
     THEN collected' = <<>> /\ Display(Append(collected, c))
     ELSE collected' = Append(collected, c) /\ UNCHANGED <<pixels, crt, cur_xy>>
  /\ TypeOn(c) /\ UNCHANGED <<use_cursor, attrib>>

FlushBuffer ==
  /\ collected # <<>> /\ collected' = <<>> /\ Display(collected)
  /\ UNCHANGED <<use_cursor, attrib, page, place, top_row>>

\* operator<<(Attribute): what was written before keeps its colour.
SetColour(a) ==
  /\ collected' = <<>> /\ Display(collected) /\ attrib' = a
  /\ UNCHANGED <<use_cursor, page, place, top_row>>

\* reset(), which leaves the buffer alone: those who call it have flushed it.
Reset ==
  /\ collected = <<>> /\ SetPos(from_col, from_row)
  /\ pixels' = [c \in Cell |-> IF InWindow(c[1], c[2]) THEN BlankPixel(attrib) ELSE pixels[c]]
  /\ page' = [r \in 1 .. Height |-> BlankRow(attrib)] /\ place' = <<0, 0>> /\ top_row' = 0
  /\ UNCHANGED <<use_cursor, collected, attrib>>

\* backspace(), after a flush: back by one, up to the line before if there is
\* one, and from the first place of the window to the end of its row.
BackspaceKey ==
  LET x == IF Now.x = from_col THEN to_col ELSE Now.x - 1
      y == IF Now.x = from_col /\ Now.y # from_row THEN Now.y - 1 ELSE Now.y
      col == IF place[1] = 0 THEN Width - 1 ELSE place[1] - 1
      row == IF place[1] = 0 /\ place[2] # top_row THEN place[2] - 1 ELSE place[2]
  IN  /\ collected = <<>>
      /\ pixels' = Show(Now, x, y, BlankPixel(Standard)).pixels /\ SetPos(x, y)
      /\ page' = [page EXCEPT ![row + 1][col] = BlankPixel(Standard)] /\ place' = <<col, row>>
      /\ UNCHANGED <<use_cursor, collected, attrib, top_row>>

ScreenNext ==
  \/ \E c \in Glyph \cup {Newline} : Put(c)
  \/ \E a \in Colour : SetColour(a)
  \/ FlushBuffer \/ Reset \/ BackspaceKey

ScreenSpec == ScreenInit /\ [][ScreenNext]_svars
-----------------------------------------------------------------------------
\* When the buffer is empty, the window shows the last rows of the text that was
\* written, each character in the colour that was set when it was written and
\* the position where the text ends; and no other window was ever touched.
WindowShowsPage ==
  /\ \A c \in Cell : ~ InWindow(c[1], c[2]) => pixels[c] = OtherWindow
  /\ collected = <<>> =>
       /\ <<Now.x, Now.y>> = <<from_col + place[1], from_row + place[2] - top_row>>
       /\ \A x \in 0 .. Width - 1, y \in 0 .. Height - 1 :
            pixels[<<from_col + x, from_row + y>>] = page[top_row + y + 1][x]
=============================================================================
