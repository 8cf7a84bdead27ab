-------------------------------- MODULE Lib --------------------------------
(***************************************************************************)
(* The C library of kernel and processes (lib.cc), as far as printing      *)
(* needs it, and the parsers that undo what printing does.                 *)
(*                                                                         *)
(* A character is a string of length one ("nl" is the newline), a string a *)
(* sequence of characters without its final NUL, memory a function from    *)
(* addresses.  A format is a sequence of items: each is a directive as     *)
(* vprintf reads it from the format and its arguments, a character that is *)
(* not part of a directive being the item Lit(c).                          *)
(***************************************************************************)
EXTENDS Integers, SequencesExt

CONSTANT Bits       \* of an unsigned long

Word      == 2 ^ Bits
MaxLong   == 2 ^ (Bits - 1) - 1

\* With what the proofs use of powers of two.
ASSUME BitsAssumption ==
    /\ Bits \in Nat \ {0, 1}
    /\ MaxLong \in Nat /\ Word = 2 * (MaxLong + 1)

SPACE == " "
NUL   == "nul"

-----------------------------------------------------------------------------
(* Memory. *)

\* The bytes at s go to d, one after the other in the order given.
Copied(m, d, s, order) ==
    LET after[n \in 0 .. Len(order)] ==
            IF n = 0 THEN m
            ELSE [after[n - 1] EXCEPT ![d + order[n]] = after[n - 1][s + order[n]]]
    IN  after[Len(order)]

Upwards(n)   == [i \in 1 .. n |-> i - 1]
Downwards(n) == Reverse(Upwards(n))

memmove(m, d, s, n) ==
    Copied(m, d, s, IF s < d /\ s + n > d THEN Downwards(n) ELSE Upwards(n))

memset(m, v, c, n) == [a \in DOMAIN m |-> IF a \in v .. v + n - 1 THEN c ELSE m[a]]

strnlen(s, maxlen) == IF Len(s) < maxlen THEN Len(s) ELSE maxlen

-----------------------------------------------------------------------------
(* From text to number. *)

lower_digits == <<"0", "1", "2", "3", "4", "5", "6", "7",
                  "8", "9", "a", "b", "c", "d", "e", "f">>
upper_digits == <<"0", "1", "2", "3", "4", "5", "6", "7",
                  "8", "9", "A", "B", "C", "D", "E", "F">>

\* Where isspace is true.
isspace == {SPACE, "nl"}

\* The values a character can have as a digit of the base (none or one), and
\* the characters that have one.
DigitValues(c, base) ==
    {v \in 0 .. base - 1 : lower_digits[v + 1] = c \/ upper_digits[v + 1] = c}
Figures(base) ==
    {lower_digits[v] : v \in 1 .. base} \cup {upper_digits[v] : v \in 1 .. base}

\* A string from its first character on that is no member of the set.
Skip(s, C) ==
    LET stops == {i \in DOMAIN s : s[i] \notin C}
    IN  IF stops = {} THEN <<>>
        ELSE SubSeq(s, CHOOSE i \in stops : \A j \in stops : i <= j, Len(s))

Starts(s, C) == s # <<>> /\ Head(s) \in C

\* Mutant of AddDigit: the limit is off by one.
AddDigit_Early(acc, digit, base) ==
    IF acc.x >= (Word - 1 - digit) \div base
    THEN [acc EXCEPT !.overflow = TRUE]
    ELSE [acc EXCEPT !.x = @ * base + digit]

\* One more digit, unless the number would not fit any more.
AddDigit(acc, digit, base) ==
    IF acc.x > (Word - 1 - digit) \div base
    THEN [acc EXCEPT !.overflow = TRUE]
    ELSE [acc EXCEPT !.x = @ * base + digit]

\* What a sequence of digits amounts to.
Value(digits, base) ==
    LET acc[n \in 0 .. Len(digits)] ==
            IF n = 0 THEN [x |-> 0, overflow |-> FALSE]
            ELSE AddDigit(acc[n - 1], CHOOSE v \in DigitValues(digits[n], base) : TRUE, base)
    IN  acc[Len(digits)]

strtoul(str, radix) ==
    LET s        == Skip(str, isspace)
        negative == Starts(s, {"-"})
        t        == IF Starts(s, {"-", "+"}) THEN Tail(s) ELSE s
        hex      == Starts(t, {"0"}) /\ Starts(Tail(t), {"x", "X"})
        base     == IF radix # 0 THEN radix
                    ELSE IF hex THEN 16 ELSE IF Starts(t, {"0"}) THEN 8 ELSE 10
        u        == IF hex /\ base = 16 THEN Tail(Tail(t)) ELSE t
        acc      == Value(SubSeq(u, 1, Len(u) - Len(Skip(u, Figures(base)))), base)
        x        == IF acc.overflow THEN Word - 1 ELSE acc.x
    IN  IF negative THEN (- x) % Word ELSE x

strtol(str, radix) ==
    LET s        == Skip(str, isspace)
        negative == Starts(s, {"-"})
        u        == strtoul(IF negative THEN Tail(s) ELSE s, radix)
        bound    == IF negative THEN MaxLong + 1 ELSE MaxLong
        v        == IF u > bound THEN bound ELSE u
    IN  IF negative THEN - v ELSE v

-----------------------------------------------------------------------------
(* From number to text: printer::vprintf. *)

Flags    == {"#", "0", "-", SPACE, "+"}
Numerals == {"d", "u", "x", "X", "p"}

\* The flags, width and precision of an item (-1: none), its conversion and
\* its argument: a number, or a string for "s", "c" and what is no conversion.
Lit(c) == [flags |-> {}, width |-> -1, precision |-> -1, conv |-> "c", arg |-> <<c>>]
IsItem(d) ==
    /\ d.flags \subseteq Flags /\ d.width \in Int /\ d.precision \in Int
    /\ d.conv = "d" => d.arg \in - MaxLong - 1 .. MaxLong
    /\ d.conv \in Numerals \ {"d"} => d.arg \in 0 .. Word - 1
    /\ d.conv \notin Numerals => d.arg \in Seq(STRING \ {NUL})

\* val has at least one digit; digits are put in front of those there.
fill_numbuf(val, base, digits) ==
    LET numbuf[v \in 0 .. Word - 1] ==
            IF v < base THEN <<digits[v + 1]>>
            ELSE Append(numbuf[v \div base], digits[(v % base) + 1])
    IN  numbuf[val]

IsNumeral(d) == d.conv \in Numerals
Negative(d)  == d.conv = "d" /\ d.arg < 0

\* num is unsigned: the smallest long has a magnitude as well.
Num(d) == IF Negative(d) THEN (- d.arg) % Word ELSE d.arg

Data(d) ==
    CASE d.conv \in {"d", "u"} -> fill_numbuf(Num(d), 10, upper_digits)
      [] d.conv \in {"x", "p"} -> fill_numbuf(Num(d), 16, lower_digits)
      [] d.conv = "X"          -> fill_numbuf(Num(d), 16, upper_digits)
      [] OTHER                 -> d.arg

Prefix(d) ==
    CASE d.conv = "d" /\ Negative(d)                            -> <<"-">>
      [] d.conv = "d" /\ ~ Negative(d) /\ "+" \in d.flags       -> <<"+">>
      [] d.conv = "d" /\ ~ Negative(d) /\ "+" \notin d.flags /\ SPACE \in d.flags -> <<SPACE>>
      [] d.conv = "p"                                           -> <<"0", "x">>
      [] d.conv = "x" /\ "#" \in d.flags /\ Num(d) # 0          -> <<"0", "x">>
      [] d.conv = "X" /\ "#" \in d.flags /\ Num(d) # 0          -> <<"0", "X">>
      [] OTHER                                                  -> <<>>

Datalen(d) == IF d.precision >= 0 /\ ~ IsNumeral(d) THEN strnlen(d.arg, d.precision)
              ELSE Len(Data(d))

AtLeastZero(n) == IF n > 0 THEN n ELSE 0

Zeros(d) ==
    IF ~ IsNumeral(d) THEN 0
    ELSE IF d.precision >= 0 THEN AtLeastZero(d.precision - Datalen(d))
    ELSE IF "0" \in d.flags /\ "-" \notin d.flags
    THEN AtLeastZero(d.width - Datalen(d) - Len(Prefix(d)))
    ELSE 0

Padding(d) == AtLeastZero(d.width - Datalen(d) - Zeros(d) - Len(Prefix(d)))

Repeat(c, n) == [i \in 1 .. n |-> c]

\* What putc is called with for one item.
Field(d) ==
    Repeat(SPACE, IF "-" \in d.flags THEN 0 ELSE Padding(d))
        \o Prefix(d) \o Repeat("0", Zeros(d)) \o SubSeq(Data(d), 1, Datalen(d))
        \o Repeat(SPACE, IF "-" \in d.flags THEN Padding(d) ELSE 0)

vprintf(format) == FlattenSeq([i \in DOMAIN format |-> Field(format[i])])

-----------------------------------------------------------------------------
(* Printing into a buffer. *)

\* string_printer::putc
StringPut(sp, c, size) ==
    [s |-> IF Len(sp.s) < size THEN Append(sp.s, c) ELSE sp.s, n |-> sp.n + 1]

\* Mutant of Terminated: NUL behind the last character, also when it is full.
Terminated_After(s, size) == IF size = 0 THEN s ELSE Append(s, NUL)

\* The terminator: behind the text, or instead of its last character.
Terminated(s, size) ==
    IF size = 0 THEN s
    ELSE IF Len(s) < size THEN Append(s, NUL) ELSE [s EXCEPT ![size] = NUL]

\* The bytes written to the buffer, and the number returned.
vsnprintf(size, format) ==
    LET text == vprintf(format)
        sp[k \in 0 .. Len(text)] == IF k = 0 THEN [s |-> <<>>, n |-> 0]
                                    ELSE StringPut(sp[k - 1], text[k], size)
        end == sp[Len(text)]
    IN  [s |-> Terminated(end.s, size), n |-> end.n]
=============================================================================
