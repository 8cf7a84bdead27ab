------------------------------- MODULE Loader -------------------------------
(***************************************************************************)
(* program_loader and process_setup, byte by byte: how the programs linked *)
(* into the kernel get into the memory of the first processes.  (Kernel    *)
(* has the same steps page by page, with the page tables they need.)       *)
(***************************************************************************)
EXTENDS Integers, Sequences, FiniteSetsExt

CONSTANTS
    PAGESIZE,
    PhysPages,      \* number of physical pages
    FreePages,      \* those that are allocatable
    ramimages,      \* sequence of [name, ph]; ph a sequence of program headers
                    \*   [load, p_va, p_filesz, p_memsz, w]
    StackPage       \* virtual page of the stack

ASSUME LoaderAssumption ==
    /\ PAGESIZE \in Nat \ {0} /\ PhysPages \in Nat
    /\ FreePages \subseteq 1 .. PhysPages - 1

VARIABLES
    ram,        \* physical memory, byte by byte
    owned,      \* pages that kalloc has handed out
    spaces,     \* the page tables of the processes set up so far or being so
    names,      \* the programs to be loaded, for process 1, 2, ...
    lpc,        \* "root", "pages", "copy" or "stack" of process_setup; or "rest"
    ph,         \* the loader's position among the program headers
    page        \* a / PAGESIZE in the loop over the pages of a segment

loaderVars == <<ram, owned, spaces, names, lpc, ph, page>>

\* Byte o of segment i of a program is <<its name, i, o>>; other bytes:
KernelByte == <<"kernel", 0, 0>>    \* memory that is not allocatable
CCByte     == <<"cc", 0, 0>>        \* kalloc's filling
TableByte  == <<"table", 0, 0>>
ZeroByte   == <<"zero", 0, 0>>

-----------------------------------------------------------------------------
(* program_loader. *)

\* The number of an image, from 1, or 0 (the code has 0 and -1).
program_number(name) ==
    LET same == {i \in DOMAIN ramimages : ramimages[i].name = name}
    IN  IF same = {} THEN 0 ELSE Min(same)

Headers(name) ==
    IF program_number(name) = 0 THEN <<>> ELSE ramimages[program_number(name)].ph

\* From header i on, the first that is to be loaded, or the end.
fix(h, i) ==
    LET later == {j \in i .. Len(h) : h[j].load}
    IN  IF later = {} THEN Len(h) + 1 ELSE Min(later)

present(h, i) == i \in DOMAIN h

-----------------------------------------------------------------------------
(* The programs. *)

PageOf(a) == a \div PAGESIZE

\* The virtual pages of a segment, and of all that are loaded.
SegmentPages(h)  == PageOf(h.p_va) .. PageOf(h.p_va + h.p_memsz - 1)
Loadable(hs)     == {i \in DOMAIN hs : hs[i].load}
ProgramPages(hs) == UNION {SegmentPages(hs[i]) : i \in Loadable(hs)}

\* As process.ld links them: segments begin on pages of their own, below the stack.
Linked(hs) ==
    \A i \in Loadable(hs) :
        /\ hs[i].p_memsz > 0 /\ SegmentPages(hs[i]) \subseteq 0 .. StackPage - 1
        /\ \A j \in Loadable(hs) : i # j => SegmentPages(hs[i]) \cap SegmentPages(hs[j]) = {}

\* kernel() starts this many at most, one after the other.
MaxStarted == 4

\* A program and its stack take up to n pages, and the pages that are allocatable
\* from the first one on are enough for all that are started.
RoomFor(n) ==
    /\ \A i \in DOMAIN ramimages : Cardinality(ProgramPages(ramimages[i].ph)) < n
    /\ 1 .. MaxStarted * (n + 1) \subseteq FreePages

SegmentHeader == [load : BOOLEAN, p_va : Nat, p_filesz : Nat, p_memsz : Nat, w : BOOLEAN]

ASSUME ProgramAssumption ==
    /\ StackPage \in Nat
    /\ ramimages \in Seq([name : STRING, ph : Seq(SegmentHeader)])
    /\ \A i \in DOMAIN ramimages : Linked(ramimages[i].ph)
    /\ \E n \in 1 .. PhysPages : RoomFor(n)

-----------------------------------------------------------------------------
(* process_setup. *)

Pid       == Len(spaces)
Hs        == Headers(names[Pid])

\* The first allocatable page that is not used; there are enough at this time.
kalloc == Min(FreePages \ owned)

Filled(pa, b) == [x \in DOMAIN ram |-> IF PageOf(x) = pa THEN b ELSE ram[x]]

Mapped(v, pa, w) ==
    [spaces EXCEPT ![Pid] = [u \in DOMAIN @ \cup {v} |->
                              IF u = v THEN [pa |-> pa, w |-> w] ELSE @[u]]]

LoaderInit ==
    /\ ram = [x \in 0 .. PhysPages * PAGESIZE - 1 |-> KernelByte]
    /\ owned = {} /\ spaces = <<>> /\ names = <<>>
    /\ lpc = "rest" /\ ph = 0 /\ page = 0

\* kernel() has found out which programs to run; pages is as after a reset.
StartLoading(programs) ==
    /\ lpc = "rest" /\ lpc' = "root"
    /\ names' = programs
    /\ ram' = [x \in DOMAIN ram |-> KernelByte] /\ owned' = {} /\ spaces' = <<>>
    /\ UNCHANGED <<ph, page>>

\* The page table's pages, taken together, come before the program's.
SetupTable ==
    /\ lpc = "root" /\ Pid < Len(names)
    /\ owned' = owned \cup {kalloc}
    /\ ram' = Filled(kalloc, TableByte)
    /\ spaces' = Append(spaces, <<>>)
    /\ LET hs == Headers(names[Pid + 1]) IN
        /\ ph' = fix(hs, 1)
        /\ page' = IF present(hs, ph') THEN PageOf(hs[ph'].p_va) ELSE 0
    /\ lpc' = "pages"
    /\ UNCHANGED names

\* A page of the segment.
SetupPage ==
    /\ lpc = "pages" /\ present(Hs, ph)
    /\ page * PAGESIZE < Hs[ph].p_va + Hs[ph].p_memsz
    /\ owned' = owned \cup {kalloc}
    /\ ram' = Filled(kalloc, CCByte)
    /\ spaces' = Mapped(page, kalloc, Hs[ph].w)
    /\ page' = page + 1
    /\ UNCHANGED <<names, lpc, ph>>

\* operator++; after the last segment the copying starts over at the first.
SetupNext ==
    /\ lpc = "pages"
    /\ present(Hs, ph) => page * PAGESIZE >= Hs[ph].p_va + Hs[ph].p_memsz
    /\ LET next == IF present(Hs, ph) THEN fix(Hs, ph + 1) ELSE ph IN
        IF present(Hs, next)
        THEN /\ ph' = next /\ page' = PageOf(Hs[next].p_va)
             /\ UNCHANGED lpc
        ELSE /\ ph' = fix(Hs, 1) /\ page' = 0
             /\ lpc' = "copy"
    /\ UNCHANGED <<ram, owned, spaces, names>>

\* Mutant of Image: memcpy is given the size in memory.
Image_Size(i, o) == <<names[Pid], i, o>>

\* What memset and then memcpy leave at offset o of segment i.
Image(i, o) == IF o < Hs[i].p_filesz THEN <<names[Pid], i, o>> ELSE ZeroByte

\* The segment goes to where its first page is, and on from there.
SetupCopy ==
    /\ lpc = "copy" /\ present(Hs, ph)
    /\ LET pa == spaces[Pid][PageOf(Hs[ph].p_va)].pa * PAGESIZE + (Hs[ph].p_va % PAGESIZE)
       IN  ram' = [x \in DOMAIN ram |->
                    IF x \in pa .. pa + Hs[ph].p_memsz - 1 THEN Image(ph, x - pa) ELSE ram[x]]
    /\ ph' = fix(Hs, ph + 1)
    /\ UNCHANGED <<owned, spaces, names, lpc, page>>

\* The stack; the process is runnable, and the next one can be set up.
SetupStack ==
    /\ lpc = "copy" /\ ~ present(Hs, ph)
    /\ owned' = owned \cup {kalloc}
    /\ ram' = Filled(kalloc, CCByte)
    /\ spaces' = Mapped(StackPage, kalloc, TRUE)
    /\ lpc' = "root"
    /\ UNCHANGED <<names, ph, page>>

AllLoaded == lpc = "root" /\ Pid = Len(names)

\* The bytes are not looked at once the processes run.
StopLoading ==
    /\ AllLoaded /\ lpc' = "rest"
    /\ ram' = [x \in DOMAIN ram |-> KernelByte]
    /\ owned' = {} /\ spaces' = <<>> /\ names' = <<>>
    /\ ph' = 0 /\ page' = 0

LoaderNext == SetupTable \/ SetupPage \/ SetupNext \/ SetupCopy \/ SetupStack
-----------------------------------------------------------------------------
(* What the processes rely on. *)

\* The byte that process p sees at virtual address a.
Sees(p, a) == ram[spaces[p][PageOf(a)].pa * PAGESIZE + (a % PAGESIZE)]

\* Every process starts with the bytes of its program, those of .bss being zero,
\* behind the permissions of their segments, and neither loading it nor loading
\* the programs after it has touched anything else: segments are copied to
\* physical memory in one go although their pages were allocated one by one
\* (kernel.cc:226).
ProgramsInPlace ==
    /\ lpc = "root" => \A p \in 1 .. Pid :
        \A i \in DOMAIN Headers(names[p]) :
            LET h == Headers(names[p])[i] IN
            h.load => \A o \in 0 .. h.p_memsz - 1 :
                /\ PageOf(h.p_va + o) \in DOMAIN spaces[p]
                /\ spaces[p][PageOf(h.p_va + o)].w = h.w
                /\ Sees(p, h.p_va + o) =
                    IF o < h.p_filesz THEN <<names[p], i, o>> ELSE ZeroByte
    /\ \A x \in DOMAIN ram : PageOf(x) \notin FreePages => ram[x] = KernelByte
=============================================================================
