------------------------------ MODULE Keyboard ------------------------------
(***************************************************************************)
(* The keyboard: keyboard_readc, which makes characters of scan codes, one *)
(* byte at each poll, and check_keyboard, which reboots or powers off on   *)
(* some of them.  The user presses and releases keys while the bytes that  *)
(* tell of it wait in the controller.                                      *)
(***************************************************************************)
EXTENDS Integers, Sequences, FiniteSets

CONSTANTS
    Keys,       \* the user's keys: scan code, and whether 0xE0 goes before it
    MaxDown,    \* bound: how many keys are down at a time
    MaxQueue    \* bound: bytes waiting in the controller

\* No key's release byte is 0xE0, the byte that goes before others.
ASSUME KeyboardAssumption ==
    /\ Keys \subseteq [code : 1 .. 127 \ {96}, ext : BOOLEAN]
    /\ MaxDown \in Nat /\ MaxQueue \in Nat

\* Bits of modifiers.
MOD_SHIFT == 0
MOD_CONTROL == 1
MOD_CAPSLOCK == 3

\* Codes that are no characters.
KEY_SHIFT    == 250
KEY_CAPSLOCK == 253
CKEY(cn)     == 128 + cn

Zero(n) == [i \in 1 .. n |-> 0]

\* The character, or the kind, of a key; row by row.
keymap ==
    <<0, 27, 128, 129, 130, 131, 132, 133, 134, 135, 136, 137, 138, 139, 8, 9>> \o
    <<113, 119, 101, 114, 116, 121, 117, 105, 111, 112, 140, 141, 142, 251, 97, 115>> \o
    <<100, 102, 103, 104, 106, 107, 108, 143, 144, 145, 250, 146, 122, 120, 99, 118>> \o
    <<98, 110, 109, 147, 148, 149, 250, 42, 252, 32, 253, 0, 0, 0, 0, 0>> \o
    <<0, 0, 0, 0, 0, 254, 255, 55, 56, 57, 45, 52, 53, 54, 43, 49>> \o
    <<50, 51, 48, 46>> \o Zero(12) \o Zero(48) \o
    Zero(12) \o <<142, 251, 0, 0>> \o Zero(16) \o
    Zero(5) \o <<47, 0, 0, 252>> \o Zero(7) \o
    Zero(7) \o <<196, 192, 198, 0, 195, 0, 193, 0, 197>> \o
    <<194, 199, 200, 201>> \o Zero(44)

\* Plain, with shift, with control, with both.
complex_keymap ==
    << <<49, 33, 0, 0>>,   <<50, 64, 0, 0>>,  <<51, 35, 0, 0>>,   <<52, 36, 0, 0>>,
       <<53, 37, 0, 0>>,   <<54, 94, 0, 30>>, <<55, 38, 0, 0>>,   <<56, 42, 0, 0>>,
       <<57, 40, 0, 0>>,   <<48, 41, 0, 0>>,  <<45, 95, 0, 31>>,  <<61, 43, 0, 0>>,
       <<91, 123, 27, 0>>, <<93, 125, 29, 0>>, <<10, 10, 13, 13>>, <<59, 58, 0, 0>>,
       <<39, 34, 0, 0>>,   <<96, 126, 0, 0>>, <<92, 124, 28, 0>>, <<44, 60, 0, 0>>,
       <<46, 62, 0, 0>>,   <<47, 63, 0, 0>> >>

ASSUME KeymapAssumption == Len(keymap) = 256 /\ Len(complex_keymap) = 22

VARIABLES
    down,           \* the keys that are down
    queue,          \* bytes in the controller, each with the key and the keys
                    \*   that were down when it was pressed or released
    modifiers,      \* the bits that are set
    last_escape,    \* 0 or 0x80
    ret,            \* what check_keyboard returned
    read,           \* the byte read for it
    power           \* of the machine

keyVars == <<down, queue, modifiers, last_escape, ret, read, power>>

NoKey == [code |-> 0, ext |-> FALSE]
NoByte == [data |-> 0, key |-> NoKey, held |-> {}]

KeyInit ==
    /\ down = {} /\ queue = <<>>
    /\ modifiers = {} /\ last_escape = 0
    /\ ret = -1 /\ read = NoByte
    /\ power = "on"

-----------------------------------------------------------------------------
(* The user and the controller. *)

Bytes(k, data) ==
    LET byte(b) == [data |-> b, key |-> k, held |-> down]
    IN  IF k.ext THEN <<byte(224), byte(data)>> ELSE <<byte(data)>>

Send(bytes) ==
    /\ power = "on"
    /\ Len(queue) + Len(bytes) <= MaxQueue
    /\ queue' = queue \o bytes
    /\ UNCHANGED <<modifiers, last_escape, ret, read, power>>

\* A key that is held down is sent again and again.
Press(k) ==
    /\ Cardinality(down \cup {k}) <= MaxDown
    /\ down' = down \cup {k}
    /\ Send(Bytes(k, k.code))

Release(k) ==
    /\ k \in down
    /\ down' = down \ {k}
    /\ Send(Bytes(k, k.code + 128))

-----------------------------------------------------------------------------
(* keyboard_readc, with what it leaves in its static variables. *)

At(code) == keymap[code + 1]
Escaped(code) == At(code + last_escape)
Bit(ch) == ch - KEY_SHIFT
Result(c, mods, esc) == [ret |-> c, modifiers |-> mods, last_escape |-> esc]

\* Mutant of Released: alt is left out.
Released_NoAlt(data) ==
    LET ch == Escaped(data - 128)
    IN  Result(0, IF ch \in KEY_SHIFT .. KEY_CAPSLOCK - 2 THEN modifiers \ {Bit(ch)} ELSE modifiers, 0)

\* Mutant of Released: always the bit of shift.
Released_Shift(data) ==
    LET ch == Escaped(data - 128)
    IN  Result(0, IF ch \in KEY_SHIFT .. KEY_CAPSLOCK - 1 THEN modifiers \ {MOD_SHIFT} ELSE modifiers, 0)

\* A key was released: this matters only for modifiers.
Released(data) ==
    LET ch == Escaped(data - 128)
    IN  Result(0, IF ch \in KEY_SHIFT .. KEY_CAPSLOCK - 1 THEN modifiers \ {Bit(ch)} ELSE modifiers, 0)

\* A letter, with control, or in upper case if one of shift and caps lock is on.
Letter(ch) ==
    IF MOD_CONTROL \in modifiers THEN ch - 96
    ELSE IF (MOD_SHIFT \in modifiers) # (MOD_CAPSLOCK \in modifiers) THEN ch - 32
    ELSE ch

Column == 1 + (IF MOD_SHIFT \in modifiers THEN 1 ELSE 0)
            + (IF MOD_CONTROL \in modifiers THEN 2 ELSE 0)

Toggled(bit) == IF bit \in modifiers THEN modifiers \ {bit} ELSE modifiers \cup {bit}

\* A modifier was pressed: locks change, the others are on.
Modifier(ch) == Result(0, IF ch >= KEY_CAPSLOCK THEN Toggled(Bit(ch))
                          ELSE modifiers \cup {Bit(ch)}, 0)

Pressed(data) ==
    LET ch == Escaped(data)
    IN  IF ch \in 97 .. 122 THEN Result(Letter(ch), modifiers, 0)
        ELSE IF ch >= KEY_SHIFT THEN Modifier(ch)
        ELSE IF ch \in CKEY(0) .. CKEY(21)
        THEN Result(complex_keymap[ch - CKEY(0) + 1][Column], modifiers, 0)
        ELSE IF ch < 128 /\ MOD_CONTROL \in modifiers THEN Result(0, modifiers, 0)
        ELSE Result(ch, modifiers, 0)

keyboard_readc ==
    IF queue = <<>> THEN Result(-1, modifiers, last_escape)
    ELSE LET data == Head(queue).data
         IN  IF data = 224 THEN Result(0, modifiers, 128)
             ELSE IF data >= 128 THEN Released(data)
             ELSE Pressed(data)

\* 'a', 'f' and 'e' start the kernel again with its data as it was at first;
\* control-C and 'q' turn the machine off.
check_keyboard ==
    /\ power = "on"
    /\ ret' = keyboard_readc.ret
    /\ read' = IF queue = <<>> THEN NoByte ELSE Head(queue)
    /\ queue' = IF queue = <<>> THEN <<>> ELSE Tail(queue)
    /\ IF ret' \in {97, 102, 101}
       THEN modifiers' = {} /\ last_escape' = 0
       ELSE /\ modifiers' = keyboard_readc.modifiers
            /\ last_escape' = keyboard_readc.last_escape
    /\ power' = IF ret' \in {3, 113} THEN "off" ELSE "on"
    /\ UNCHANGED down

Off == power = "off" /\ UNCHANGED keyVars

KeyNext == \/ \E k \in Keys : Press(k) \/ Release(k)
           \/ check_keyboard
           \/ Off

-----------------------------------------------------------------------------
Kind(k) == At(k.code + (IF k.ext THEN 128 ELSE 0))

(***************************************************************************)
(* A modifier is never stuck: once the bytes are read, shift, control or   *)
(* alt is on only while such a key is down, whichever of the two keys it   *)
(* was, and also if the kernel was started again in between.               *)
(***************************************************************************)
NoStuckModifier ==
    queue = <<>> =>
        \A m \in modifiers \cap 0 .. 2 : \E k \in down : Kind(k) = KEY_SHIFT + m

(***************************************************************************)
(* The machine goes off only when the user meant it: the byte read was     *)
(* that of 'q', or of 'c' while a control key was down.                    *)
(***************************************************************************)
OffOnPurpose ==
    power = "off" => /\ read.data < 128
                     /\ \/ Kind(read.key) = 113
                        \/ /\ Kind(read.key) = 99
                           /\ \E k \in read.held : Kind(k) = KEY_SHIFT + MOD_CONTROL
=============================================================================
