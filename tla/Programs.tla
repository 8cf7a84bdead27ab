------------------------------ MODULE Programs ------------------------------
(***************************************************************************)
(* The programs in fileio/test_programs that copy, reverse, shuffle or     *)
(* encode a file with io300, on the two implementations that leave caching *)
(* to others: naive.c passes each call on to the operating system, stdio.c *)
(* to the C library.  (Io300 is the third; Transparent says that the       *)
(* programs cannot tell it from the first.)  Any call may fail, and one    *)
(* for several bytes may transfer fewer.                                   *)
(***************************************************************************)
EXTENDS Integers, SequencesExt, FiniteSetsExt

CONSTANTS
    Inputs,     \* input files
    Olds,       \* what the output file may hold beforehand
    Sizes,      \* buffer sizes, 0 among them
    Strides,    \* strides, 0 among them
    MAX_BLOCK_SIZE,
    Rounds,     \* how often diabolical_byte_cat seeks back and forth
    WORD,       \* how many values a size_t has, 2^64
    Faults      \* calls that may fail: "read", "write", "seek", "close"; or
                \*   transfer fewer bytes than they could: "short read",
                \*   "short write"

Byte == 0 .. 255

ASSUME ProgramsAssumption ==
    /\ Inputs \subseteq Seq(Byte) /\ Olds \subseteq Seq(Byte)
    /\ Sizes \subseteq Nat /\ Strides \subseteq Nat
    /\ MAX_BLOCK_SIZE \in Nat \ {0} /\ Rounds \in Nat
    \* Sums of a few lengths of what fits into memory and onto a disk.
    /\ WORD \in Nat /\ 4 * MAX_BLOCK_SIZE < WORD
    /\ \A n \in Sizes \cup Strides : 4 * n < WORD
    /\ \A f \in Inputs : 4 * Len(f) < WORD

VARIABLES
    impl,       \* "naive" or "stdio"
    prog,       \* the program that runs
    input, old, \* the files as they were
    in, out,    \* the open files: [data, pos]
    exists,     \* is there an output file?
    pc,         \* "open"; "read", "write", and the seeks before, between and after
                \*   them, "seek", "away", "back", "stride"; "close", "exit"
    arg,        \* the size given on the command line
    size,       \* buffer_size, block_size
    stride,
    i,          \* the loop's variable (pos in stride_cat)
    count,      \* of the seeks back and forth; written in stride_cat
    buffer,
    status,     \* exit_status, or SIGSEGV after a crash
    failed      \* the calls that have failed, or fallen short

args  == <<impl, prog, input, old, exists, arg, stride>>
pvars == <<args, in, out, pc, size, i, count, buffer, status, failed>>

CopyByByte == {"byte_cat", "diabolical_byte_cat"}
ByByte     == CopyByByte \cup {"reverse_byte_cat", "rot13"}
CopyBlocks == {"block_cat", "random_block_cat"}
ByBlock    == CopyBlocks \cup {"reverse_block_cat", "stride_cat"}

filesize == Len(input)
SIGSEGV  == 139

-----------------------------------------------------------------------------
(* The implementations.  How many bytes of n there are at the position: *)
Available(f, n) == IF f.pos >= Len(f.data) THEN 0
                   ELSE IF Len(f.data) - f.pos < n THEN Len(f.data) - f.pos ELSE n

io300_read(f, n) == SubSeq(f.data, f.pos + 1, f.pos + Available(f, n))
Advanced(f, n)   == [f EXCEPT !.pos = @ + Available(f, n)]

\* Files are not written behind their end here.
io300_write(f, bs) ==
    [data |-> SubSeq(f.data, 1, f.pos) \o bs
                \o SubSeq(f.data, f.pos + Len(bs) + 1, Len(f.data)),
     pos  |-> f.pos + Len(bs)]

MayFail(call) == call \in Faults
Fails(call)   == MayFail(call) /\ failed' = failed \cup {call}

\* Of m bytes, k are transferred: read, write, fread and fwrite may stop after
\* the first few (stdio.c turns a stop before the first byte into -1).
Transfers(k, m, short) == \/ k = m /\ UNCHANGED failed
                          \/ k \in 1 .. m - 1 /\ Fails(short)

\* A size_t, and those which are negative as an ssize_t or an off_t: read, lseek
\* and fseek refuse them, fread does not.
SizeT(n) == n % WORD
Huge(n)  == 2 * n >= WORD
TooLong(n) == impl = "naive" /\ Huge(n)

\* naive.c has O_CREAT, stdio.c opens what there is.
Opens == exists \/ impl = "naive"

\* What naive.c writes is written; stdio.c may find at the end that it cannot
\* write the bytes from k on.
Kept(data, was, k) == SubSeq(data, 1, k) \o SubSeq(was, k + 1, Len(was))

-----------------------------------------------------------------------------
(* The programs. *)

IsUpper(ch) == ch \in 65 .. 90
IsLower(ch) == ch \in 97 .. 122
rot13(ch) ==
    IF IsUpper(ch) THEN 65 + ((ch - 65 + 13) % 26)
    ELSE IF IsLower(ch) THEN 97 + ((ch - 97 + 13) % 26)
    ELSE ch

\* Mutant of FirstBlock: the last block is taken to be a full one.
FirstBlock_Full == filesize - size

\* Where reverse_block_cat starts; there may be nothing to read.
FirstBlock == filesize - (filesize % size)

\* The loop's variable at first.
First == CASE prog = "reverse_byte_cat"  -> filesize - 1
           [] prog = "reverse_block_cat" -> FirstBlock
           [] OTHER                      -> 0

\* There is another round.
Goes(j, n) == CASE prog \in CopyByByte \cup {"rot13"} -> j < filesize
                [] prog \in {"reverse_byte_cat", "reverse_block_cat"} -> j >= 0
                [] prog = "stride_cat" -> n < filesize
                [] OTHER -> TRUE

\* A round begins with a seek, or with a read.
Begins == IF prog \in {"reverse_byte_cat", "reverse_block_cat", "rot13"} THEN "seek" ELSE "read"

\* All but three programs refuse an empty file, and one program a buffer of
\* no size; block_cat only complains about that.
Refuses == \/ filesize = 0 /\ prog \notin {"block_cat", "rot13", "stride_cat"}
           \/ size = 0 /\ prog = "reverse_block_cat"

Open(f) == [data |-> f, pos |-> 0]

ProgramsInit ==
    /\ impl \in {"naive", "stdio"}
    /\ prog \in ByByte \cup ByBlock
    /\ input \in Inputs /\ old \in Olds
    /\ in = Open(input) /\ out = Open(old)
    /\ exists \in (IF old = <<>> THEN BOOLEAN ELSE {TRUE})
    /\ pc = "open"
    /\ arg \in (IF prog \in ByByte THEN {1}
                ELSE IF prog = "random_block_cat" THEN {MAX_BLOCK_SIZE} ELSE Sizes)
    /\ size = arg
    /\ stride \in (IF prog = "stride_cat" THEN Strides ELSE {0})
    /\ i = 0 /\ count = 0 /\ buffer = <<>>
    /\ status = 0 /\ failed = {}

Exits(s) == pc' = "exit" /\ status' = s
Closes(s) == pc' = "close" /\ status' = s

\* The next round, or the end.
Round(j, n) == /\ i' = j /\ count' = n
               /\ pc' = IF Goes(j, n) THEN Begins ELSE "close"

\* Opening both files and looking at the size.  A program that cannot open its
\* output stops, except for stride_cat, which uses it.
open ==
    /\ pc = "open"
    /\ \/ /\ prog # "rot13" /\ ~ Opens
          /\ Exits(IF prog = "stride_cat" THEN SIGSEGV ELSE 1)
          /\ UNCHANGED <<i, count>>
       \/ /\ prog = "rot13" \/ Opens
          /\ IF Refuses THEN Exits(1) /\ UNCHANGED <<i, count>>
             ELSE Round(First, 0) /\ UNCHANGED status
    /\ UNCHANGED <<args, in, out, size, buffer, failed>>

\* The positions sought.
Where == CASE pc = "away" -> IF count % 2 = 0 THEN 0 ELSE filesize - 1
           [] pc = "back" /\ prog = "diabolical_byte_cat" -> i + 1
           [] OTHER -> i

seek ==
    /\ pc \in {"seek", "away", "back", "stride"}
    /\ \/ /\ IF Huge(Where) THEN UNCHANGED failed ELSE Fails("seek")
          /\ Closes(1)
          /\ UNCHANGED <<in, count>>
       \/ /\ ~ Huge(Where)
          /\ in' = [in EXCEPT !.pos = Where]
          /\ count' = IF pc = "away" THEN count + 1 ELSE IF pc = "back" THEN 0 ELSE count
          /\ pc' = CASE pc = "away" -> IF count' = 2 * Rounds THEN "back" ELSE "away"
                     [] pc = "seek" -> "read"
                     [] pc = "back" -> "write"
                     [] pc = "stride" -> IF Goes(i, count) THEN "read" ELSE "close"
          /\ UNCHANGED <<status, failed>>
    /\ UNCHANGED <<args, out, size, i, buffer>>

AfterRead == CASE prog = "diabolical_byte_cat" /\ Rounds > 0 -> "away"
               [] prog \in {"diabolical_byte_cat", "rot13"} -> "back"
               [] OTHER -> "write"

\* Mutant of EndOfInput: an empty read does not end the loop.
EndOfInput_Fail(r) == r = -1

\* What ends the loops over blocks; reverse_block_cat writes an empty block.
EndOfInput(r) == r = -1 \/ (r = 0 /\ prog # "reverse_block_cat")

\* How much is asked for.
Asked == IF prog = "random_block_cat" THEN 1 .. MAX_BLOCK_SIZE ELSE {size}

\* The buffer has room for arg bytes; what happens to more is undefined.
Overruns(n) == ~ TooLong(n) /\ Available(in, n) > arg

read ==
    /\ pc = "read"
    /\ \E n \in Asked :
        \/ /\ IF TooLong(n) THEN UNCHANGED failed ELSE Fails("read")
           /\ Closes(IF prog \in ByByte THEN 1 ELSE status)
           /\ UNCHANGED <<in, buffer>>
        \/ \E k \in 0 .. Available(in, n) : LET bs == io300_read(in, k) IN
           /\ ~ TooLong(n) /\ Transfers(k, Available(in, n), "short read")
           /\ IF prog \in ByByte /\ bs = <<>> THEN Closes(1)
              ELSE IF prog \in ByBlock /\ EndOfInput(Len(bs)) THEN Closes(status)
              ELSE pc' = AfterRead /\ UNCHANGED status
           /\ in' = Advanced(in, k) /\ buffer' = bs
        \/ Overruns(n) /\ Exits(SIGSEGV) /\ UNCHANGED <<in, buffer, failed>>
    /\ UNCHANGED <<args, out, size, i, count>>

\* What is to be written, and where to.
Written == CASE prog = "rot13" -> <<rot13(buffer[1])>>
             [] prog = "reverse_block_cat" -> Reverse(buffer)
             [] OTHER -> buffer

Writes(bs) == IF prog = "rot13" THEN in' = io300_write(in, bs) /\ UNCHANGED out
                                ELSE out' = io300_write(out, bs) /\ UNCHANGED in

\* stride_cat, at the end of the input: the next blocks of all strides follow.
NextPos == IF i + stride < filesize THEN i + stride
           ELSE SizeT(((i + stride) % stride) + size)
NextBlock(p) == IF i + stride >= filesize /\ SizeT(p + size) > stride
                THEN SizeT(stride - p) ELSE size

\* The end of a round.
NextRound ==
    CASE prog \in CopyByByte \cup {"rot13"} -> Round(i + 1, 0) /\ UNCHANGED size
      [] prog = "reverse_byte_cat"  -> Round(i - 1, 0) /\ UNCHANGED size
      [] prog = "reverse_block_cat" -> Round(i - size, 0) /\ UNCHANGED size
      [] prog \in CopyBlocks        -> Round(0, 0) /\ UNCHANGED size
      [] prog = "stride_cat" ->
            /\ i' = NextPos /\ count' = count + Len(buffer)
            /\ size' = NextBlock(NextPos)
            /\ pc' = "stride"

\* A failure ends the loops, except those of block_cat and random_block_cat,
\* and stride_cat does not notice it.  Nobody notices that fewer bytes were
\* written than given.
write ==
    /\ pc = "write"
    /\ \/ /\ Fails("write") /\ prog \in ByByte \cup {"reverse_block_cat"}
          /\ Closes(1)
          /\ UNCHANGED <<in, out, size, i, count>>
       \/ /\ Fails("write") /\ prog \in CopyBlocks \cup {"stride_cat"}
          /\ NextRound /\ status' = IF prog \in CopyBlocks THEN 1 ELSE status
          /\ UNCHANGED <<in, out>>
       \/ /\ \E k \in 0 .. Len(Written) :
              Transfers(k, Len(Written), "short write") /\ Writes(SubSeq(Written, 1, k))
          /\ NextRound /\ UNCHANGED status
    /\ UNCHANGED <<args, buffer>>

\* No program looks at what io300_close returns.
close ==
    /\ pc = "close" /\ pc' = "exit"
    /\ \/ UNCHANGED <<in, out, failed>>
       \/ /\ impl = "stdio" /\ Fails("close")
          /\ IF prog = "rot13"
             THEN /\ \E k \in 0 .. Len(in.data) : in' = [in EXCEPT !.data = Kept(@, input, k)]
                  /\ UNCHANGED out
             ELSE /\ \E k \in 0 .. Len(out.data) : out' = [out EXCEPT !.data = Kept(@, old, k)]
                  /\ UNCHANGED in
    /\ UNCHANGED <<args, size, i, count, buffer, status>>

Exited == pc = "exit" /\ UNCHANGED pvars

Run == open \/ seek \/ read \/ write \/ close

ProgramsSpec == ProgramsInit /\ [][Run \/ Exited]_pvars /\ WF_pvars(Run)

-----------------------------------------------------------------------------
(* What the programs are for. *)

\* In stride_cat's output the blocks at the beginning of all strides come first.
Block(x) == (x % stride) \div arg
Before(x, y) == Block(x) < Block(y) \/ (Block(x) = Block(y) /\ x < y)
Rank(x) == Cardinality({y \in 0 .. filesize - 1 : Before(y, x)})
Strided == [k \in 1 .. filesize |-> input[1 + CHOOSE x \in 0 .. filesize - 1 : Rank(x) = k - 1]]

\* What the descriptions of the programs ask for; longer output files keep their
\* end, as nobody truncates them.
Right ==
    CASE prog = "rot13" ->
            /\ Len(in.data) = filesize
            /\ \A k \in 1 .. filesize :
                LET a == input[k] IN LET b == in.data[k] IN
                /\ rot13(b) = a /\ IsUpper(b) = IsUpper(a) /\ IsLower(b) = IsLower(a)
                /\ IsUpper(a) \/ IsLower(a) <=> a # b
      [] prog \in CopyByByte \cup CopyBlocks -> out.data = Kept(input, old, filesize)
      [] prog = "stride_cat" -> out.data = Kept(Strided, old, filesize)
      [] OTHER -> out.data = Kept(Reverse(input), old, filesize)

\* Failures that leave the exit status as it is: reads in the loops over blocks
\* are taken for the end of the input, stride_cat does not test its writes,
\* writes that fall short are tested by nobody (block_cat.c:47), and neither is
\* io300_close.  A read that falls short does no harm to block_cat and
\* random_block_cat.
Unnoticed ==
    \/ prog \in ByBlock /\ "read" \in failed
    \/ prog \in ByBlock \ CopyBlocks /\ "short read" \in failed
    \/ prog = "stride_cat" /\ "write" \in failed
    \/ {"short write", "close"} \cap failed # {}

\* stride_cat does not test that a block fits into a stride; with longer ones, or
\* a stride of 0, it copies bytes twice, stops before the last ones, and exits
\* with 0.
Overlapping == prog = "stride_cat" /\ arg > stride

\* A program that exits with 0 has done what it is for, whatever blocks the input
\* divides into, unless a call failed that it does not test, or stride_cat was
\* given blocks longer than the stride; and every program that was given two
\* files and a size, and met no failure, exits with 0, that one too
\* (reverse_block_cat.c:59, stride_cat.c:56).
ExitTellsTruth ==
    pc = "exit" =>
        /\ status = 0 /\ arg > 0 => Unnoticed \/ Overlapping \/ Right
        /\ failed = {} /\ arg > 0 /\ filesize > 0 /\ (prog = "rot13" \/ Opens) => status = 0

\* Every program ends: at the end of its input, whatever fails (block_cat.c:42).
ProgramsEnd == <>(pc = "exit")
=============================================================================
