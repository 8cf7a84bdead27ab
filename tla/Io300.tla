------------------------------- MODULE Io300 -------------------------------
(***************************************************************************)
(* The caching implementation of io300.h, fileio/impl/student.c: one cache *)
(* of CACHE_SIZE bytes over a window of the file that the position has to  *)
(* be in.  The calls of one client, in any order its role allows; reads    *)
(* and writes go chunk by chunk as their loops do.  The operating system's *)
(* read, pread, pwrite, lseek and fstat are modelled from their use here.  *)
(***************************************************************************)
EXTENDS Integers, Sequences

CONSTANTS
    CACHE_SIZE,
    Bytes,      \* what programs write
    Sizes,      \* the lengths of the blocks they transfer
    Offsets,    \* where they seek to
    Hole,       \* what is read where nobody wrote
    Junk,       \* what malloc leaves in the cache
    Files,      \* what the file may contain at first
    MaxLen,     \* bound: programs do not make the file longer
    Roles,      \* how programs use an open file, see below
    Faults      \* what may go wrong in which role, as pairs: "pread" fails,
                \*   "pwrite" fails, or writes less than asked ("short")

(***************************************************************************)
(* Roles.  "reader": reads, and seeks that stay within the file, as the    *)
(* inputs of the cat programs; "inplace": writes that stay within the file *)
(* as well, as rot13; "append": nothing but writes, as the outputs of the  *)
(* cat programs; "log": the same where the disk gets full; "any":          *)
(* everything.                                                             *)
(***************************************************************************)

ASSUME CacheAssumption == CACHE_SIZE \in Nat \ {0}
ASSUME FileAssumption ==
    /\ MaxLen \in Nat
    /\ Sizes \subseteq Nat \ {0} /\ Offsets \subseteq Int
    /\ Bytes # {} /\ Bytes \cup {Hole, Junk} \subseteq 0 .. 255
    /\ Files \subseteq Seq(0 .. 255)
    /\ Roles \subseteq {"reader", "inplace", "append", "log", "any"}
    /\ Faults \subseteq Roles \X {"pread", "pwrite", "short"}

VARIABLES
    disk,       \* the file's bytes, as the operating system has them
    f,          \* struct io300_file
    mode,       \* "closed", "idle", in the loop of "read" or "write", "aborted"
                \*   by an assertion, "wild" after storing outside the cache
    role,       \* how the program uses the file (when closed: the next one)
    left,       \* locals of the loops: bytes to go
    buff,       \* what the last read or readc has delivered so far
    ret         \* what the last call returned

iovars == <<disk, f, mode, role, left, buff, ret>>

Index == 0 .. CACHE_SIZE - 1

NoFile == [dirty |-> FALSE, head |-> 0, cache_start |-> 0, cache_end |-> 0,
           file_size |-> 0, cache |-> [i \in Index |-> Junk]]

-----------------------------------------------------------------------------
(* The operating system. *)

Lesser(a, b)  == IF a < b THEN a ELSE b
Greater(a, b) == IF a > b THEN a ELSE b

\* pwrite(bs) at offset o: all of it, or after a fault only n bytes.
Pwrite(d, o, bs, n) ==
    LET k == Lesser(n, Len(bs)) IN
    IF k = 0 THEN d
    ELSE [i \in 1 .. Greater(Len(d), o + k) |->
            IF i \in o + 1 .. o + k THEN bs[i - o]
            ELSE IF i <= Len(d) THEN d[i] ELSE Hole]

\* How many of n bytes there are at offset o, and the cache after reading
\* them.
Available(d, o, n) == Lesser(n, Greater(Len(d) - o, 0))
ReadInto(cache, d, o, n) ==
    [i \in Index |-> IF i < Available(d, o, n) THEN d[o + i + 1] ELSE cache[i]]

\* Outcomes of pread and pwrite.
All  == MaxLen + CACHE_SIZE
Fail == -1
MayGoWrong(x) == <<role, x>> \in Faults
WriteOutcomes == {All} \cup (IF MayGoWrong("pwrite") THEN {Fail} ELSE {})
                       \cup (IF MayGoWrong("short") THEN {1} ELSE {})
ReadOutcomes  == {TRUE} \cup (IF MayGoWrong("pread") THEN {FALSE} ELSE {})

-----------------------------------------------------------------------------
(* The internals; s is [d |-> disk, f |-> file]. *)

\* Mutant of check_invariants: the window may have any size.
check_invariants_Size(g) == g.cache_start <= g.head /\ g.head <= g.cache_end

check_invariants(g) ==
    /\ g.cache_start <= g.head /\ g.head <= g.cache_end
    /\ g.cache_end - g.cache_start <= CACHE_SIZE

\* A byte of the cache; outside of it there is anything.
CacheAt(g, i) == IF i \in Index THEN g.cache[i] ELSE Junk

\* The bytes from cache_start to the position.
Behind(g) == [i \in 1 .. g.head - g.cache_start |-> CacheAt(g, i - 1)]

\* io300_flush, whatever dirty says; n is pwrite's outcome, and a short write
\* counts as success.
io300_flush(s, n) ==
    IF n = Fail THEN s
    ELSE [d |-> Pwrite(s.d, s.f.cache_start, Behind(s.f), n),
          f |-> [s.f EXCEPT !.cache_start = s.f.head,
                            !.cache_end = @ + CACHE_SIZE,
                            !.dirty = FALSE]]

\* io300_fetch first leaves the window behind.  The result of its flush is
\* ignored; direction is always 1.
Window(s, n) ==
    IF s.f.dirty THEN io300_flush(s, n)
    ELSE [s EXCEPT !.f.cache_start = s.f.cache_end, !.f.head = s.f.cache_end]

\* Mutant of FetchEnd: short reads are forgotten.
FetchEnd_Full(t) == t.f.head + CACHE_SIZE

\* Where the window ends after pread.
FetchEnd(t) == t.f.head + Available(t.d, t.f.head, CACHE_SIZE)

io300_fetch(s, n, ok) ==
    LET t == Window(s, n) IN
    IF ~ ok THEN t  \* return -1
    ELSE [t EXCEPT !.f.cache = ReadInto(@, t.d, t.f.head, CACHE_SIZE),
                   !.f.cache_start = t.f.head,
                   !.f.cache_end = FetchEnd(t)]

Here == [d |-> disk, f |-> f]

\* The call's effect on file and disk, unless an assertion of it failed.
Becomes(s) == disk' = s.d /\ f' = s.f

-----------------------------------------------------------------------------
(* The calls.  Each begins with check_invariants, and aborts if that fails. *)

(* (The functions called inside start with it too; only the fetch in the   *)
(* loop of io300_write can find that things have changed since.)           *)

Ready == mode = "idle" /\ check_invariants(f)

WriteFull    == f.head = f.cache_start + CACHE_SIZE
WriteFetches == mode = "write" /\ left > 0 /\ WriteFull /\ f.head < f.file_size

Abort ==
    /\ mode = "idle" \/ WriteFetches
    /\ ~ check_invariants(f)
    /\ mode' = "aborted"
    /\ UNCHANGED <<disk, f, role, left, buff, ret>>

\* What the client's role lets it do.
Appends     == role \in {"append", "log"}
MayRead     == ~ Appends
MaySeek(p)  == ~ Appends /\ (role # "any" => p \in 0 .. f.file_size)
MayWrite(n) == /\ role # "reader" /\ f.head + n <= MaxLen
               /\ role = "inplace" => f.head + n <= f.file_size

\* What others write does not matter.
Written == IF role = "any" THEN {CHOOSE b \in Bytes : TRUE} ELSE Bytes

\* A file is used by programs of the repository, or by others.
NextRoles == IF role = "any" THEN {"any"} ELSE Roles \ {"any"}

Init ==
    /\ disk \in Files
    /\ f = NoFile
    /\ mode = "closed"
    /\ role \in Roles
    /\ left = 0 /\ buff = << >> /\ ret = 0

io300_open ==
    /\ mode = "closed" /\ mode' = "idle"
    /\ \E ok \in ReadOutcomes :
        Becomes(io300_fetch([d |-> disk, f |-> [NoFile EXCEPT !.file_size = Len(disk)]],
                            All, ok))
    /\ buff' = << >> /\ ret' = 0
    /\ UNCHANGED <<role, left>>

\* The flush's result is ignored; close itself returns 0.
io300_close ==
    /\ Ready /\ mode' = "closed"
    /\ \E n \in WriteOutcomes :
        disk' = IF f.dirty THEN io300_flush(Here, n).d ELSE disk
    /\ f' = NoFile
    /\ role' \in NextRoles
    /\ buff' = << >> /\ ret' = 0
    /\ UNCHANGED left

\* The window is moved to p and filled, as far as file_size allows.  lseek
\* refuses a negative p, when the flush has been done already.
io300_seek(p) ==
    /\ Ready /\ MaySeek(p)
    /\ \E n \in WriteOutcomes, ok \in ReadOutcomes :
        LET s == IF f.dirty THEN io300_flush(Here, n) ELSE Here
            k == IF ok THEN Available(s.d, p, Lesser(CACHE_SIZE, s.f.file_size - p)) ELSE 0
            g == [s.f EXCEPT !.head = p, !.cache_start = p, !.cache_end = p]
        IN  Becomes([s EXCEPT !.f =
                IF p < 0 THEN @
                ELSE IF p > g.file_size THEN [g EXCEPT !.file_size = p]
                ELSE [g EXCEPT !.cache = ReadInto(@, s.d, p, k), !.cache_end = p + k]])
    /\ buff' = << >> /\ ret' = IF p < 0 THEN -1 ELSE p
    /\ UNCHANGED <<mode, role, left>>

io300_filesize ==
    /\ Ready /\ ~ Appends
    /\ buff' = << >> /\ ret' = Len(disk)
    /\ UNCHANGED <<disk, f, mode, role, left>>

\* The call of io300_flush by the client.
Flush ==
    /\ Ready /\ role = "any"
    /\ \E n \in WriteOutcomes :
        Becomes(io300_flush(Here, n)) /\ ret' = IF n = Fail THEN -1 ELSE 0
    /\ buff' = << >>
    /\ UNCHANGED <<mode, role, left>>

\* One byte is delivered from the cache.
ReadcGets(s) ==
    /\ Becomes([s EXCEPT !.f.head = @ + 1])
    /\ buff' = <<CacheAt(s.f, s.f.head - s.f.cache_start)>> /\ ret' = 1

io300_readc ==
    /\ Ready /\ MayRead
    /\ \/ /\ f.head > f.file_size
          /\ ret' = -1 /\ buff' = << >> /\ UNCHANGED <<disk, f>>
       \/ /\ f.head <= f.file_size /\ f.head # f.cache_end
          /\ ReadcGets(Here)
       \/ /\ f.head <= f.file_size /\ f.head = f.cache_end
          /\ \E n \in WriteOutcomes, ok \in ReadOutcomes :
              LET s == io300_fetch(Here, n, ok) IN
              IF ~ ok \/ s.f.head = s.f.cache_end
              THEN Becomes(s) /\ ret' = -1 /\ buff' = << >>
              ELSE ReadcGets(s)
    /\ UNCHANGED <<mode, role, left>>

\* At the end of the window it is moved on; behind the end of the file with
\* a flush that makes room for CACHE_SIZE more bytes.
WritecPuts(s, b) ==
    LET o == s.f.head - s.f.cache_start IN
    /\ Becomes([s EXCEPT !.f.cache = [i \in Index |-> IF i = o THEN b ELSE @[i]],
                         !.f.head = @ + 1, !.f.dirty = TRUE])
    /\ ret' = 1
    /\ mode' = IF o \in Index THEN "idle" ELSE "wild"

io300_writec(b) ==
    /\ Ready /\ MayWrite(1)
    /\ \/ f.head # f.cache_end /\ WritecPuts(Here, b)
       \/ /\ f.head = f.cache_end /\ f.head < Len(disk)
          /\ \E n \in WriteOutcomes, ok \in ReadOutcomes :
              WritecPuts(io300_fetch(Here, n, ok), b)
       \/ /\ f.head = f.cache_end /\ f.head >= Len(disk)
          /\ \E n \in WriteOutcomes :
              IF n = Fail THEN ret' = -1 /\ UNCHANGED <<disk, f, mode>>
              ELSE WritecPuts(io300_flush(Here, n), b)
    /\ buff' = << >>
    /\ UNCHANGED <<role, left>>

\* io300_read: the call, an iteration of its loop, its end.
Read(n) ==
    /\ Ready /\ MayRead
    /\ mode' = "read" /\ left' = n /\ ret' = 0 /\ buff' = << >>
    /\ UNCHANGED <<disk, f, role>>

\* The end of the file is only looked at when the call begins.
PastEnd == ret = 0 /\ f.head > f.file_size

\* Mutant of ReadGoesOn: no break at the end of the file.
ReadGoesOn_Always(k) == left' = left - k /\ UNCHANGED mode

\* The loop breaks when the refilled cache has nothing.
ReadGoesOn(k) ==
    /\ left' = IF k = 0 THEN 0 ELSE left - k
    /\ mode' = IF k = 0 THEN "idle" ELSE mode

io300_read ==
    /\ mode = "read" /\ left > 0 /\ ~ PastEnd
    /\ \E n \in WriteOutcomes, ok \in ReadOutcomes :
        LET s == IF f.head = f.cache_end THEN io300_fetch(Here, n, ok) ELSE Here
            k == Lesser(s.f.cache_end - s.f.head, left)
            o == s.f.head - s.f.cache_start
        IN  /\ Becomes([s EXCEPT !.f.head = @ + k])
            /\ buff' = buff \o [i \in 1 .. k |-> CacheAt(s.f, o + i - 1)]
            /\ ret' = ret + k
            /\ ReadGoesOn(k)
    /\ UNCHANGED role

ReadDone ==
    /\ mode = "read" /\ (left = 0 \/ PastEnd)
    /\ mode' = "idle" /\ left' = 0
    /\ UNCHANGED <<disk, f, role, buff, ret>>

\* io300_write, likewise.
Write(n) ==
    /\ Ready /\ MayWrite(n)
    /\ mode' = "write" /\ left' = n /\ ret' = 0 /\ buff' = << >>
    /\ UNCHANGED <<disk, f, role>>

\* Mutant of WriteFails: the window moves on although it was not written.
WriteFails_Moves ==
    /\ mode = "write" /\ left > 0 /\ Fail \in WriteOutcomes
    /\ WriteFull /\ f.head >= f.file_size
    /\ f' = [f EXCEPT !.cache_start = f.head, !.cache_end = f.head]
    /\ mode' = "idle" /\ left' = 0 /\ ret' = -1
    /\ UNCHANGED <<disk, role, buff>>

\* The loop's flush has failed: return -1.
WriteFails ==
    /\ mode = "write" /\ left > 0 /\ Fail \in WriteOutcomes
    /\ WriteFull /\ f.head >= f.file_size
    /\ f' = [f EXCEPT !.cache_end = f.head]
    /\ mode' = "idle" /\ left' = 0 /\ ret' = -1
    /\ UNCHANGED <<disk, role, buff>>

io300_write(b) ==
    /\ mode = "write" /\ left > 0
    /\ WriteFetches => check_invariants(f)
    /\ \E n \in WriteOutcomes, ok \in ReadOutcomes :
        LET s == IF ~ WriteFull THEN Here
                 ELSE IF f.head < f.file_size THEN io300_fetch(Here, n, ok)
                 ELSE io300_flush([Here EXCEPT !.f.cache_end = f.head], n)
            o == s.f.head - s.f.cache_start
            k == Lesser(left, CACHE_SIZE - o)
        IN  /\ WriteFull /\ f.head >= f.file_size => n # Fail
            /\ Becomes([s EXCEPT
                 !.f.cache = [i \in Index |-> IF i \in o .. o + k - 1 THEN b ELSE @[i]],
                 !.f.head = @ + k, !.f.dirty = TRUE])
            /\ ret' = ret + k /\ left' = left - k
    /\ UNCHANGED <<mode, role, buff>>

\* A position past the window's end extends the window.
Extended == IF f.cache_end < f.head
            THEN [f EXCEPT !.cache_end = f.cache_start + CACHE_SIZE] ELSE f

WriteDone ==
    /\ mode = "write" /\ left = 0
    /\ f' = Extended
    /\ mode' = "idle"
    /\ UNCHANGED <<disk, role, left, buff, ret>>

-----------------------------------------------------------------------------
Stopped == mode \in {"aborted", "wild"} /\ UNCHANGED iovars

Next ==
    \/ io300_open \/ io300_close \/ io300_filesize \/ Flush
    \/ io300_readc \/ io300_read \/ ReadDone
    \/ WriteFails \/ WriteDone \/ Abort \/ Stopped
    \/ \E p \in Offsets : io300_seek(p)
    \/ \E b \in Written : io300_writec(b) \/ io300_write(b)
    \/ \E n \in Sizes : Read(n) \/ Write(n)

Spec == Init /\ [][Next]_iovars

\* A loop that was entered is executed.
InCall == mode \in {"read", "write"}
LoopStep == \/ io300_read \/ ReadDone \/ WriteFails \/ WriteDone
            \/ InCall /\ Abort
            \/ \E b \in Written : io300_write(b)
FairSpec == Spec /\ WF_iovars(LoopStep)

-----------------------------------------------------------------------------
\* The file as its client sees it: what was written since the last flush lies
\* over what is on the disk.
Contents == IF f.dirty THEN Pwrite(disk, f.cache_start, Behind(f), All) ELSE disk

Plain == INSTANCE PlainFile WITH content <- Contents, pos <- f.head,
                                 MayFail <- \E x \in Faults : x[1] = role

(***************************************************************************)
(* The cache cannot be noticed: every call does and returns what it would  *)
(* on the file itself, and closing the file loses nothing.                 *)
(***************************************************************************)
Transparent == Plain!Spec

(***************************************************************************)
(* The assertions of check_invariants hold wherever they are evaluated.    *)
(***************************************************************************)
AssertionsHold == mode # "aborted"

(***************************************************************************)
(* Whatever a client does, it never gets the library to store outside of   *)
(* the cache: an assertion stops it before.  The repository's programs do  *)
(* not get as far as that, failing writes or not.                          *)
(***************************************************************************)
StaysInCache ==
    /\ mode # "wild" /\ (mode = "aborted" => role = "any")
    /\ mode = "read" => /\ f.head <= f.cache_end
                        /\ f.cache_end - f.cache_start <= CACHE_SIZE
    /\ mode \in {"read", "write"} => f.head - f.cache_start \in 0 .. CACHE_SIZE

(***************************************************************************)
(* A file that was new when it was opened (its remembered size is 0), and  *)
(* is only written to.  While pwrite fails now and then, nothing that was  *)
(* accepted is forgotten as long as the file is open.  A close whose flush *)
(* fails, or a write that is cut short, may lose bytes, but none that is   *)
(* on the disk, and what remains is where it belongs, behind a hole if     *)
(* need be.                                                                *)
(***************************************************************************)
Remains(c, d) ==
    \A k \in 1 .. Len(c) : k <= Len(d) => d[k] = c[k] \/ (role = "log" /\ d[k] = Hole)
NothingForgotten ==
    [][mode # "closed" /\ Appends /\ f.file_size = 0 =>
        /\ Remains(Contents, Contents') /\ SubSeq(disk', 1, Len(disk)) = disk
        /\ role = "append" /\ mode' # "closed" => Len(Contents) <= Len(Contents')]_iovars

\* The loops of io300_read and io300_write end.
CallsReturn == InCall ~> mode \in {"idle", "aborted"}

-----------------------------------------------------------------------------
(* What io300.h says of a call; for clients that do anything, the code     *)
(* does otherwise.                                                         *)

\* readc: "reads a single byte from the file and returns it".
BytesAreReal == \A i \in 1 .. Len(buff) : buff[i] # Junk
=============================================================================
