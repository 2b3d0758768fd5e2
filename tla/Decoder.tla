------------------------------- MODULE Decoder -------------------------------
(***************************************************************************)
(* machine/keydecoder.cc and the commands of machine/keyctrl.cc: what the  *)
(* codes of a keyboard mean.  A key sends a code when it is pressed and one*)
(* when it is released, some behind a prefix; the decoder keeps the        *)
(* modifiers and toggles the locks, and has the keyboard light a lamp for  *)
(* each.  A command is two bytes, and the keyboard answers to each with a  *)
(* code that the decoder gets too.  The lamps are set by the prologue, the *)
(* repeat rate by a thread, on another CPU or interrupted by the prologue. *)
(*                                                                         *)
(* Keys stand for those of their kind: "a" for the letters, "one" for what *)
(* caps lock leaves alone, "seven" for the keypad, and "home" for what     *)
(* shares its code behind a prefix.  Scroll lock is like caps lock.  Left  *)
(* out: the false shift codes that keyboards put around the keys of the    *)
(* cursor pad, Ctrl with Pause, and codes beyond the tables.               *)
(***************************************************************************)
EXTENDS Naturals, Sequences

CONSTANTS Modifier,  \* the modifier keys that are used
          Lock,      \* the lock keys
          Plain,     \* other keys
          MaxQueue   \* bound: codes that wait when a key is pressed

ASSUME DecoderAssumption ==
  /\ Modifier \subseteq {"SHIFT", "ctrl_left", "ctrl_right", "alt_left", "alt_right"}
  /\ Lock \subseteq {"caps_lock", "num_lock"}
  /\ Plain \subseteq {"a", "one", "seven", "home", "divide", "pause"}
  /\ MaxQueue \in Nat

NoAscii == "nothing"  \* ASCII code 0
NoKey == [asc |-> NoAscii, scan |-> 0]
Key(asc, scan) == [asc |-> asc, scan |-> scan]

Prefix1 == 224
Prefix2 == 225
BreakBit == 128
Ack == 250
Resend == 254

\* Bytes sent to the keyboard: the names of commands, and the bytes behind them
DataByte == {"leds", "rate"}

VARIABLES
  codes,    \* the controller's output, each with the key it should complete
  prefix,   \* Key_Decoder::prefix
  modi,     \* the modifiers and locks of gather
  leds,     \* Keyboard_Controller::leds
  sending,  \* the command of which the prologue has still bytes to send
  setting,  \* ... and a thread, for the repeat rate
  wrong,    \* auxiliary: a key was decoded that was not meant, or not decoded
  down,     \* the keyboard: modifiers held
  locked,   \* auxiliary: locks on, by the keys pressed
  lamps,    \* the keyboard: lamps lit
  command,  \* the keyboard: the command whose data byte it awaits
  mixed     \* auxiliary: two commands have overlapped

dvars == <<codes, prefix, modi, leds, sending, setting, wrong, down, locked, lamps, command, mixed>>
keyboard == <<down, locked, lamps, command>>

-----------------------------------------------------------------------------
(* Tables: of the codes used here                                          *)

Letters == {30}
Normal(code) == CASE code = 30 -> "a" [] code = 2 -> "1" [] OTHER -> NoAscii
Shifted(code) == CASE code = 30 -> "A" [] code = 2 -> "!" [] OTHER -> NoAscii
Alternate(code) == NoAscii
Digit(code) == CASE code = 71 -> Key("7", 8)

\* get_ascii_code
AsciiCode(code, pre, mods) ==
  CASE code = 53 /\ pre = Prefix1 -> Key("/", 8)
    [] "num_lock" \in mods /\ pre = 0 /\ code \in 71 .. 83 -> Digit(code)
    [] OTHER -> Key(IF "alt_right" \in mods THEN Alternate(code)
                    ELSE IF "SHIFT" \in mods \/ ("caps_lock" \in mods /\ code \in Letters)
                         THEN Shifted(code) ELSE Normal(code), code)

ModifierOf(code, pre) ==
  CASE code = 42 -> {"SHIFT"}
    [] code = 56 -> {IF pre = Prefix1 THEN "alt_right" ELSE "alt_left"}
    [] code = 29 -> {IF pre = Prefix1 THEN "ctrl_right" ELSE "ctrl_left"}
    [] OTHER -> {}

\* Num lock with the left Ctrl is the Pause key.
LockOf(code, mods) ==
  CASE code = 58 -> {"caps_lock"}
    [] code = 69 /\ "ctrl_left" \notin mods -> {"num_lock"}
    [] OTHER -> {}

Toggle(S, T) == (S \cup T) \ (S \cap T)

-----------------------------------------------------------------------------
(* The keyboard                                                            *)

\* What a key sends, and the key it stands for with what is held and locked.
Make(key) ==
  CASE key = "SHIFT" -> <<42>> [] key = "caps_lock" -> <<58>> [] key = "num_lock" -> <<69>>
    [] key = "ctrl_left" -> <<29>> [] key = "ctrl_right" -> <<Prefix1, 29>>
    [] key = "alt_left" -> <<56>> [] key = "alt_right" -> <<Prefix1, 56>>
    [] key = "a" -> <<30>> [] key = "one" -> <<2>>
    [] key = "seven" -> <<71>> [] key = "home" -> <<Prefix1, 71>> [] key = "divide" -> <<Prefix1, 53>>
    [] key = "pause" -> <<Prefix2, 29, 69>>

Released(seq) == [i \in DOMAIN seq |-> IF seq[i] >= Prefix1 THEN seq[i] ELSE seq[i] + BreakBit]

Meant(key) ==
  LET letter == IF ("SHIFT" \in down) \/ ("caps_lock" \in locked) THEN "A" ELSE "a"
      one == IF "SHIFT" \in down THEN "!" ELSE "1"
  IN  CASE key = "caps_lock" -> NoKey
        [] key = "num_lock" -> IF "ctrl_left" \in down THEN Key(NoAscii, 69) ELSE NoKey
        [] key = "pause" -> Key(NoAscii, 69)
        [] key = "divide" -> Key("/", 8)
        [] key = "a" -> Key(IF "alt_right" \in down THEN NoAscii ELSE letter, 30)
        [] key = "one" -> Key(IF "alt_right" \in down THEN NoAscii ELSE one, 2)
        [] key = "seven" -> IF "num_lock" \in locked THEN Key("7", 8) ELSE Key(NoAscii, 71)
        [] key = "home" -> Key(NoAscii, 71)

\* Codes, of which the last completes a key
Coded(seq, key) == [i \in DOMAIN seq |-> <<seq[i], IF i = Len(seq) THEN key ELSE NoKey>>]

Type(seq, key) == codes' = codes \o Coded(seq, key)

Quiet == Len(codes) <= MaxQueue /\ UNCHANGED <<prefix, modi, leds, sending, setting, wrong, lamps, command, mixed>>

PressModifier(key) ==
  /\ Quiet /\ key \notin down
  /\ down' = down \cup {key} /\ Type(Make(key), NoKey) /\ UNCHANGED locked

ReleaseModifier(key) ==
  /\ Quiet /\ key \in down
  /\ down' = down \ {key} /\ Type(Released(Make(key)), NoKey) /\ UNCHANGED locked

\* Other keys are released before the next is pressed.
Stroke(key) ==
  /\ Quiet /\ (key = "pause" => "ctrl_left" \notin down)
  /\ codes' = codes \o Coded(Make(key), Meant(key)) \o Coded(Released(Make(key)), NoKey)
  /\ locked' = IF key \in Lock /\ Meant(key) = NoKey THEN Toggle(locked, {key}) ELSE locked
  /\ UNCHANGED down

\* A byte arrives; a command makes the keyboard forget another.
Receive(byte) ==
  /\ command' = IF byte \in DataByte THEN "none" ELSE byte
  /\ IF byte \in DataByte /\ command = "set_led"
     THEN lamps' \in IF byte = "leds" THEN {leds} ELSE SUBSET Lock ELSE UNCHANGED lamps
  /\ codes' = Append(codes, <<IF byte \in DataByte /\ command = "none" THEN Resend ELSE Ack, NoKey>>)
  /\ UNCHANGED <<down, locked>>

-----------------------------------------------------------------------------
\* The constructors; locks are off.
DecoderInit ==
  /\ codes = <<>> /\ prefix = 0 /\ modi = {} /\ leds = {}
  /\ sending = <<>> /\ setting = <<>> /\ wrong = FALSE
  /\ down = {} /\ locked = {} /\ lamps = {} /\ command = "none" /\ mixed = FALSE

\* A faulty form of AfterCode: a released key leaves its prefix behind.
AfterCodeKept(code, pre) == IF code >= BreakBit THEN pre ELSE 0

\* A prefix is for the next code only.
AfterCode(code, pre) == 0

\* key_hit() and decode(), for one code; an answer of the keyboard looks like the
\* release of a key that there is not.
Decode ==
  /\ codes # <<>> /\ sending = <<>>
  /\ LET code == Head(codes)[1]
         make == code < BreakBit
         lock == IF make THEN LockOf(code, modi) ELSE {}
         mod == ModifierOf(IF make THEN code ELSE code - BreakBit, prefix)
         key == IF make /\ mod = {} /\ lock = {} THEN AsciiCode(code, prefix, modi) ELSE NoKey
     IN  \/ /\ code \in {Prefix1, Prefix2} /\ prefix' = code
            /\ UNCHANGED <<modi, leds, sending, wrong>>
         \/ /\ code \notin {Prefix1, Prefix2} /\ prefix' = AfterCode(code, prefix)
            /\ modi' = IF make THEN Toggle(modi \cup mod, lock) ELSE modi \ mod
            /\ IF lock = {} THEN UNCHANGED <<leds, sending>>
               ELSE /\ leds' = (leds \ lock) \cup (modi' \cap lock)
                    /\ sending' = <<"set_led", "leds">>
            /\ wrong' = (wrong \/ key # Head(codes)[2])
  /\ codes' = Tail(codes)
  /\ UNCHANGED <<setting, keyboard, mixed>>

\* send_byte(), for set_led()
SendLed ==
  /\ sending # <<>> /\ Receive(Head(sending)) /\ sending' = Tail(sending)
  /\ mixed' = (mixed \/ Len(setting) = 1)
  /\ UNCHANGED <<prefix, modi, leds, setting, wrong>>

\* set_repeat_rate()
SetRate ==
  /\ setting = <<>> /\ Len(codes) <= MaxQueue
  /\ setting' = <<"set_speed", "rate">>
  /\ UNCHANGED <<codes, prefix, modi, leds, sending, wrong, keyboard, mixed>>

SendRate ==
  /\ setting # <<>> /\ Receive(Head(setting)) /\ setting' = Tail(setting)
  /\ mixed' = (mixed \/ Len(sending) = 1)
  /\ UNCHANGED <<prefix, modi, leds, sending, wrong>>

DecoderNext ==
  \/ \E key \in Modifier : PressModifier(key) \/ ReleaseModifier(key)
  \/ \E key \in Lock \cup Plain : Stroke(key)
  \/ Decode \/ SendLed \/ SetRate \/ SendRate

DecoderSpec == DecoderInit /\ [][DecoderNext]_dvars
-----------------------------------------------------------------------------
\* Every stroke is decoded as the key it is with what is held and locked when it
\* is pressed, answers of the keyboard and other keys' codes in between or not;
\* when all codes have been read, the modifiers are those that are held and the
\* lamps show the locks - as long as no command was sent between the bytes of
\* another.
KeysAreMeant ==
  /\ ~ wrong
  /\ codes = <<>> =>
       /\ modi = down \cup locked /\ prefix = 0
       /\ (sending = <<>> /\ setting = <<>> /\ ~ mixed) => lamps = locked
=============================================================================
