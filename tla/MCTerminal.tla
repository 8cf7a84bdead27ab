----------------------------- MODULE MCTerminal -----------------------------
(* Instances of Terminal for TLC. *)
EXTENDS Terminal

\* A letter, with and without a newline; at the cursor, just behind the console
\* and beyond it.
MCMessages  == {<<Lit("a"), Lit("nl")>>, <<Lit("a")>>}
MCPositions == {-1, End, End + 1}

\* Every conversion with up to two flags, with and without a width and a
\* precision, of every number; and some strings.
Formats == [flags : {F \in SUBSET Flags : Cardinality(F) <= 2},
            width : {-1, 2, 5}, precision : {-1, 0, 3}]
Item(f, c, a) == [flags |-> f.flags, width |-> f.width, precision |-> f.precision,
                  conv |-> c, arg |-> a]
MCItems ==
    {Item(f, "d", a) : f \in Formats, a \in - MaxLong - 1 .. MaxLong}
    \cup {Item(f, c, a) : f \in Formats, c \in {"u", "x", "X", "p"}, a \in 0 .. Word - 1}
    \cup {Item(f, "s", a) : f \in Formats,
                            a \in {<<>>, <<"a", "b", "c", "d">>, <<"a", "nl">>}}

Key(code, ext) == [code |-> code, ext |-> ext]
MCKeys == {Key(42, FALSE), Key(29, FALSE), Key(29, TRUE), Key(56, TRUE), Key(58, FALSE),
           Key(16, FALSE), Key(46, FALSE), Key(30, FALSE), Key(7, FALSE), Key(72, TRUE)}
=============================================================================
