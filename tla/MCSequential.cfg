CONSTANTS
  CPU = {c1, c2}
  Micros = {1, 1000, 3000, 31000, 140000}
  Ticks = {16, 5, 17, 100}
  Word = 16
  HeapSize = 20
  MaxRequest = 6
  MaxLive = 4
  Char = {"a", "b"}
  Jump = 2
  Count = 3
  MaxLines = 2
  CAP = 3
  Byte = {"a", "cr", "ff"}
  CR = "cr"
  LF = "lf"
  FF = "ff"
  Text = {"x"}
  Limit = 2
  Item = {i1, i2, i3, i4}
  Nil = Nil
  Modifier = {"SHIFT", "ctrl_left", "ctrl_right", "alt_right"}
  Lock = {"caps_lock", "num_lock"}
  Plain = {"a", "one", "divide", "seven", "home", "pause"}
  MaxQueue = 0
  Start <- Starts
  Amount = {1, 60, 3, 8191}
  Zone <- Zones
  AmountWord = 8192
  MaxMoves = 2
  COLUMNS = 4
  ROWS = 3
  from_col = 1
  to_col = 2
  from_row = 0
  to_row = 1
  BufferSize = 3
  Glyph = {"a"}
  Colour = {"grey", "red"}
  Standard = "grey"
  MaxRows = 4
  Sign = {"a", "b", " ", "lf"}
  Space = " "
  Feed = "lf"
  Short = 2
  MaxLen = 5
SPECIFICATION Spec
\* A failed assertion stops the CPU, and parts stop at their bounds.
CHECK_DEADLOCK FALSE
INVARIANTS TimeIsCount TimerKeepsInterval HeapConsistent OthersUntouched 
INVARIANTS PrintedIsRead WindowShowsPage LineIsKept  ConsoleInOrder 
PROPERTIES QueueIsList
