------------------------------ MODULE MCIo300 ------------------------------
(* Instances of Io300 for TLC. *)
EXTENDS Io300

\* Initial files, whose bytes tell their places apart.
File(n)    == [i \in 1 .. n |-> i]
NewFile    == {File(0)}
SomeFiles  == {File(0), File(3), File(6)}

\* Offsets, one of which lseek refuses.
SmallOffsets == {-1, 0, 3}

\* Reading fails for readers, or writing for appenders, or the disk is full.
ReadFaults  == {<<"reader", "pread">>}
WriteFaults == {<<"append", "pwrite">>, <<"log", "pwrite">>, <<"log", "short">>}
=============================================================================
