----------------------------- MODULE MCPrograms -----------------------------
(* An instance of Programs for TLC. *)
EXTENDS Programs

\* Files of up to seven bytes that are all different: letters at the ends of the
\* alphabets and in their middles, and what is next to them.
Text == <<65, 77, 78, 122, 91, 97, 109>>
MCInputs == {SubSeq(Text, 1, n) : n \in 0 .. 7}

\* No old output, some, or more than what will be written.
MCOlds == {<<>>, <<1, 2>>, <<1, 2, 3, 4, 5, 6, 7, 8>>}
=============================================================================
