------------------------------- MODULE Kernel -------------------------------
(***************************************************************************)
(* The WeensyOS kernel: boot, process set-up, the physical page allocator, *)
(* the page tables, the system calls, the exceptions and the scheduler     *)
(* (kernel.cc, with the page-table iterators of k-vmiter.cc and the entry  *)
(* points of k-exception.S and k-hardware.cc it uses).                     *)
(*                                                                         *)
(* Addresses are page numbers.  The kernel runs with interrupts disabled,  *)
(* so nothing interleaves with a handler; a handler is nevertheless a      *)
(* sequence of steps, one per kalloc, kfree or loop iteration, because     *)
(* each of them may fail or must keep the page accounting right.  The      *)
(* variable pc says where the kernel is; "user" is the only location in    *)
(* which a process runs, and the only one with a choice of what is next.   *)
(***************************************************************************)
EXTENDS Integers, FiniteSets

CONSTANTS
    NPROC,        \* slots of ptable; slot 0 is never used
    NPAGES,       \* physical pages, MEMSIZE_PHYSICAL / PAGESIZE
    Allocatable,  \* the pages for which allocatable_physical_address holds
    NVA,          \* virtual pages, MEMSIZE_VIRTUAL / PAGESIZE
    PROC_START,   \* the first virtual page of a process
    CONSOLE,      \* the console's page, mapped at its own address
    L1Span,       \* virtual pages covered by one level-1 page table
    RefMod,       \* pageinfo::refcount counts modulo RefMod (uint8_t: 256)
    Text,         \* virtual pages of a program's read-only segment
    Data,         \* virtual pages of a program's writable segment
    BootCounts,   \* how many processes the boot commands set up
    Val,          \* what a process may write to a page
    Calls,        \* the system calls programs make, and "fault"
    Keys,         \* keys the user may press: "reboot", "off"
    Remap         \* may a program page_alloc an address it already uses?

Pid  == 0 .. NPROC - 1
PA   == 0 .. NPAGES - 1
VA   == 0 .. NVA - 1

\* Levels of a process's page table: 0 is the root, 1 and 2 the single
\* tables of levels 3 and 2 that all of VA shares, then the level-1 tables,
\* highest number first, so that numbers decrease in ptiter's order.
NL1     == (NVA - 1) \div L1Span + 1
Node    == 0 .. 2 + NL1
L1(v)   == 2 + NL1 - v \div L1Span
Path(v) == {0, 1, 2, L1(v)}

NoPage  == -1     \* what vmiter::pa() answers for an absent page
NULL    == 0      \* kalloc's failure, and the reserved page 0
Stack   == NVA - 1

\* Contents of a page, as far as processes can tell them apart.
CC      == "cc"       \* kalloc's 0xCC filling
ZERO    == "zero"
IMAGE   == "image"    \* the part of the program that belongs here
Content == {CC, ZERO, IMAGE} \cup Val

ProcState == {"P_FREE", "P_RUNNABLE", "P_BLOCKED", "P_BROKEN"}

\* The reasons for entering the kernel, each the start of a handler.
Ops == {"getpid", "yield", "page_alloc", "fork", "exit", "sys_panic",
        "timer", "fault"}
\* Where the kernel may be while it does not run a process.
Loc == {"setup_root", "setup", "setup_stack", "pa_map", "fork_root", "fork_va",
        "pfree_va", "pfree_pt", "sched", "panic", "assert", "wild", "off"}

Entry   == [pa : PA \cup {NoPage}, w : BOOLEAN, u : BOOLEAN]
NoEntry == [pa |-> NoPage, w |-> FALSE, u |-> FALSE]
NoTable == [n \in Node |-> NoPage]
NoMap   == [v \in VA |-> NoEntry]

ASSUME SizeAssumption ==
    /\ NPROC \in Nat \ {0, 1}
    /\ NPAGES \in Nat \ {0}
    /\ NVA \in Nat /\ PROC_START \in 1 .. NVA - 1
    /\ L1Span \in Nat \ {0}
    /\ RefMod \in Nat /\ NPROC < RefMod
ASSUME MemoryAssumption ==
    /\ Allocatable \subseteq PA \ {NULL}
    /\ PROC_START <= NPAGES
    /\ CONSOLE \in 1 .. PROC_START - 1
    /\ CONSOLE \notin Allocatable
ASSUME ProgramAssumption ==
    /\ Text \cup Data \subseteq PROC_START .. NVA - 2
    /\ Text \cap Data = {}
    /\ BootCounts \subseteq 1 .. NPROC - 1
    /\ Remap \in BOOLEAN

VARIABLES
    refcount,  \* pages[pa].refcount
    mem,       \* what is in a physical page
    state,     \* ptable[p].state
    tab,       \* tab[p][n]: the page of node n of p's page table; the root
               \*   is ptable[p].pagetable
    pt,        \* pt[p][v]: p's level-1 page table entry for v
    rax,       \* p's %rax: what its last system call returned
    current,   \* the process that runs or ran last
    mv,        \* the page memusage::v_ of the memory viewer
    pc,        \* "user", the handler just entered, or a Loc
    pid,       \* local: the process being set up, copied to, freed, tried
    va,        \* local: the loop's virtual page, or the argument of the call
    held,      \* local: a page that is allocated but not mapped yet
    nboot      \* how many processes this boot sets up

memory == <<refcount, mem>>
tables == <<tab, pt>>
procs  == <<state, rax, current>>
locals == <<pid, va, held>>
vars   == <<refcount, mem, state, tab, pt, rax, current, mv, pc, pid, va,
            held, nboot>>

TypeOK ==
    /\ refcount \in [PA -> 0 .. RefMod - 1]
    /\ mem \in [PA -> Content]
    /\ state \in [Pid -> ProcState]
    /\ tab \in [Pid -> [Node -> PA \cup {NoPage}]]
    /\ pt \in [Pid -> [VA -> Entry]]
    /\ rax \in [Pid -> -1 .. NPROC - 1]
    /\ current \in Pid
    /\ mv \in PA \cup {NoPage}
    /\ pc \in {"user"} \cup Ops \cup Loc
    /\ pid \in Pid
    /\ va \in 0 .. NVA
    /\ held \in PA \cup {NoPage}
    /\ nboot \in BootCounts

-----------------------------------------------------------------------------
(* The page allocator. *)

\* vmiter::user and vmiter::writable of an entry.
User(e)     == e.pa # NoPage /\ e.u
Writable(e) == e.pa # NoPage /\ e.w

\* A page that kalloc may hand out.
Usable(pa) == pa \in Allocatable /\ refcount[pa] = 0

\* kalloc returns pa, the first usable page of its scan ...
KallocGets(pa) ==
    /\ Usable(pa)
    /\ \A q \in PA : q < pa => ~ Usable(q)

\* ... or finds none and returns nullptr.
KallocNull == \A pa \in PA : ~ Usable(pa)

\* The page is claimed and filled with 0xCC, which every caller overwrites
\* with c (memset or memcpy) before anybody can look, or leaves as it is.
Claim(pa, c) ==
    /\ refcount' = [refcount EXCEPT ![pa] = 1]
    /\ mem' = [mem EXCEPT ![pa] = c]

\* The counter after kfree(pa).
Kfree(rc, pa) ==
    IF pa # NULL /\ rc[pa] > 0 THEN [rc EXCEPT ![pa] = @ - 1] ELSE rc

-----------------------------------------------------------------------------
(* vmiter::try_map(pa, perm) for process p at address v: level by level, a *)
(* table is allocated and linked where one is missing; then the entry is   *)
(* written.  When an allocation fails the tables linked so far stay.       *)

Missing(p, v) == {n \in Path(v) : tab[p][n] = NoPage}

\* Allocate the topmost missing table of v's path.
MapTable(p, v) ==
    \E n \in Missing(p, v), pa \in PA :
        /\ \A m \in Missing(p, v) : n <= m
        /\ KallocGets(pa)
        /\ Claim(pa, ZERO)
        /\ tab' = [tab EXCEPT ![p][n] = pa]

\* try_map returns -1.
MapFails(p, v) == Missing(p, v) # {} /\ KallocNull

\* The tables are there: write the entry.
MapEntry(p, v, e) ==
    /\ Missing(p, v) = {}
    /\ pt' = [pt EXCEPT ![p][v] = e]

-----------------------------------------------------------------------------
(* Boot: kernel() and process_setup(). *)

\* Mutant of KernelEntry: the kernel's memory is open to processes.
KernelEntry_User(v) == [pa |-> v, w |-> TRUE, u |-> TRUE]

\* The kernel's own mapping of v, copied into every process.
KernelEntry(v) ==
    IF v < PROC_START /\ v # CONSOLE
    THEN [pa |-> v, w |-> TRUE, u |-> FALSE]
    ELSE IF v # 0 THEN [pa |-> v, w |-> TRUE, u |-> TRUE]
                  ELSE NoEntry

\* The .bss section: the page counters and the memory viewer's pointer.
Zeroed == refcount' = [pa \in PA |-> 0] /\ mv' = NoPage

\* What a cold or a soft reset leaves: .data restored and .bss zeroed, but
\* the memory outside the kernel as it was.
Reset ==
    /\ Zeroed
    /\ state' = [p \in Pid |-> "P_FREE"]
    /\ tab' = [p \in Pid |-> NoTable]
    /\ pt' = [p \in Pid |-> NoMap]
    /\ rax' = [p \in Pid |-> 0]
    /\ current' = 0
    /\ pc' = "setup_root"
    /\ pid' = 1 /\ va' = 0 /\ held' = NoPage
    /\ nboot' \in BootCounts
    /\ UNCHANGED mem

Init ==
    /\ refcount = [pa \in PA |-> 0]
    /\ mem = [pa \in PA |-> CC]
    /\ state = [p \in Pid |-> "P_FREE"]
    /\ tab = [p \in Pid |-> NoTable]
    /\ pt = [p \in Pid |-> NoMap]
    /\ rax = [p \in Pid |-> 0]
    /\ current = 0
    /\ mv = NoPage
    /\ pc = "setup_root"
    /\ pid = 1 /\ va = 0 /\ held = NoPage
    /\ nboot \in BootCounts

\* process_setup: the page table's root.
SetupRoot ==
    /\ pc = "setup_root"
    /\ \E pa \in PA :
        /\ KallocGets(pa)
        /\ Claim(pa, ZERO)
        /\ tab' = [tab EXCEPT ![pid][0] = pa]
    /\ pc' = "setup" /\ va' = 0
    /\ UNCHANGED <<pt, procs, mv, pid, held, nboot>>

\* Mutant of SetupPageDue: one page too many for the last segment.
SetupPageDue_More ==
    /\ held = NoPage
    /\ \/ pc = "setup" /\ va \in Text \cup Data \cup {x + 1 : x \in Data}
       \/ pc = "setup_stack" /\ va = Stack

\* Is process_setup about to kalloc a segment's page, or the stack's?
SetupPageDue ==
    /\ held = NoPage
    /\ \/ pc = "setup" /\ va \in Text \cup Data
       \/ pc = "setup_stack" /\ va = Stack

SetupPage ==
    /\ SetupPageDue
    /\ \E pa \in PA : KallocGets(pa) /\ Claim(pa, CC) /\ held' = pa
    /\ UNCHANGED <<tables, procs, mv, pc, pid, va, nboot>>

\* Is process_iterator.map() being executed?
SetupMapping ==
    /\ pc \in {"setup", "setup_stack"} /\ va < NVA
    /\ va < PROC_START \/ held # NoPage

SetupTable ==
    /\ SetupMapping
    /\ MapTable(pid, va)
    /\ UNCHANGED <<pt, procs, mv, pc, locals, nboot>>

\* kalloc has no page for process_setup.  vmiter::map asserts that it got its
\* table; a null root or a null page is not tested, and the kernel goes on
\* with physical page 0 in its place: "wild", where this model stops.
SetupNull ==
    /\ KallocNull
    /\ \/ pc = "setup_root" /\ pc' = "wild"
       \/ SetupPageDue /\ pc' = "wild"
       \/ SetupMapping /\ MapFails(pid, va) /\ pc' = "assert"
    /\ UNCHANGED <<memory, tables, procs, mv, locals, nboot>>

SetupEntry(v) ==
    IF v < PROC_START THEN KernelEntry(v)
    ELSE [pa |-> held, w |-> v \notin Text, u |-> TRUE]

SetupMap ==
    /\ SetupMapping
    /\ MapEntry(pid, va, SetupEntry(va))
    /\ va' = va + 1 /\ held' = NoPage
    /\ UNCHANGED <<memory, tab, procs, mv, pc, pid, nboot>>

\* No segment has this page.
SetupSkip ==
    /\ pc = "setup" /\ va \in PROC_START .. NVA - 2
    /\ va \notin Text \cup Data
    /\ va' = va + 1
    /\ UNCHANGED <<memory, tables, procs, mv, pc, pid, held, nboot>>

\* The segments are copied, each to consecutive physical pages from its
\* first page on.
Loaded(seg) ==
    {pa \in PA : \E v, w \in seg : /\ \A s \in seg : v <= s
                                  /\ pa = pt[pid][v].pa + (w - v)}

SetupCopy ==
    /\ pc = "setup" /\ va = Stack
    /\ mem' = [pa \in PA |->
                IF pa \in Loaded(Text) \cup Loaded(Data) THEN IMAGE ELSE mem[pa]]
    /\ pc' = "setup_stack"
    /\ UNCHANGED <<refcount, tables, procs, mv, locals, nboot>>

\* The process is runnable; then the next one, or run(&ptable[1]).
SetupDone ==
    /\ pc = "setup_stack" /\ va = NVA
    /\ state' = [state EXCEPT ![pid] = "P_RUNNABLE"]
    /\ IF pid < nboot
       THEN pid' = pid + 1 /\ pc' = "setup_root" /\ UNCHANGED current
       ELSE pid' = 0 /\ pc' = "user" /\ current' = 1
    /\ va' = 0
    /\ UNCHANGED <<memory, tables, rax, mv, held, nboot>>

-----------------------------------------------------------------------------
(* What the running process does, and entering the kernel. *)

\* A store to a page the process may write.
UserWrite(v, c) ==
    /\ pc = "user"
    /\ User(pt[current][v]) /\ Writable(pt[current][v])
    /\ mem' = [mem EXCEPT ![pt[current][v].pa] = c]
    /\ UNCHANGED <<refcount, tables, procs, mv, pc, locals, nboot>>

\* An access the hardware refuses.
Refused(v) == ~ (User(pt[current][v]) /\ Writable(pt[current][v]))

\* The addresses page_alloc is called with; NVA stands for every argument
\* that is out of range or not page-aligned.
Argument(v) ==
    ~ Remap /\ v \in PROC_START .. NVA - 1 => pt[current][v].pa = NoPage

\* exception() and syscall(): the registers are saved and memshow() refreshes
\* the memory viewer, which allocates its page the first time and asserts
\* that there is one.
Enter(op, v) ==
    /\ pc = "user"
    /\ \/ mv # NoPage /\ pc' = op /\ UNCHANGED <<memory, mv>>
       \/ \E pa \in PA :
            /\ mv = NoPage
            /\ KallocGets(pa)
            /\ Claim(pa, ZERO)
            /\ mv' = pa
            /\ pc' = op
       \/ mv = NoPage /\ KallocNull /\ pc' = "assert" /\ UNCHANGED <<memory, mv>>
    /\ va' = v
    /\ UNCHANGED <<tables, procs, pid, held, nboot>>

UserStep ==
    \/ \E v \in VA, c \in Val : UserWrite(v, c)
    \/ /\ "page_alloc" \in Calls
       /\ \E v \in 0 .. NVA : Argument(v) /\ Enter("page_alloc", v)
    \/ /\ "fault" \in Calls
       /\ \E v \in VA : Refused(v) /\ Enter("fault", 0)
    \/ \E op \in {"getpid", "yield", "fork", "exit", "sys_panic"} \cap Calls :
        Enter(op, 0)

\* The timer interrupt.
Timer == Enter("timer", 0)

\* check_keyboard(), called on every entry after memshow(), in schedule()'s
\* loop and for ever after a panic.
Polling == pc \in Ops \cup {"sched", "panic", "assert"}

Reboot == Polling /\ "reboot" \in Keys /\ Reset

Poweroff ==
    /\ Polling /\ "off" \in Keys
    /\ pc' = "off"
    /\ UNCHANGED <<memory, tables, procs, mv, locals, nboot>>

-----------------------------------------------------------------------------
(* Handlers. *)

\* Return r from the system call to the process that made it.
Return(r) ==
    /\ rax' = [rax EXCEPT ![current] = r]
    /\ pc' = "user"
    /\ pid' = 0 /\ va' = 0
    /\ UNCHANGED <<state, current, mv, nboot>>

\* Mutant of Schedule: the scan always starts at the first slot.
Schedule_First == pc' = "sched" /\ pid' = 0 /\ va' = 0

\* Go to schedule(), whose scan starts after current.
Schedule == pc' = "sched" /\ pid' = current /\ va' = 0

Getpid ==
    /\ pc = "getpid"
    /\ Return(current)
    /\ UNCHANGED <<memory, tables, held>>

Yield ==
    /\ pc = "yield"
    /\ rax' = [rax EXCEPT ![current] = 0]
    /\ Schedule
    /\ UNCHANGED <<memory, tables, state, current, mv, held, nboot>>

TimerTick ==
    /\ pc = "timer"
    /\ Schedule
    /\ UNCHANGED <<memory, tables, procs, mv, held, nboot>>

\* Mutant of PageFault: back to the process.
PageFault_Return ==
    /\ pc = "fault"
    /\ state' = [state EXCEPT ![current] = "P_BROKEN"]
    /\ pc' = "user" /\ va' = 0 /\ UNCHANGED pid
    /\ UNCHANGED <<memory, tables, rax, current, mv, held, nboot>>

PageFault ==
    /\ pc = "fault"
    /\ state' = [state EXCEPT ![current] = "P_BROKEN"]
    /\ Schedule
    /\ UNCHANGED <<memory, tables, rax, current, mv, held, nboot>>

Panic ==
    /\ pc = "sys_panic"
    /\ pc' = "panic"
    /\ UNCHANGED <<memory, tables, procs, mv, locals, nboot>>

-----------------------------------------------------------------------------
(* syscall_page_alloc *)

PageAllocBad ==
    /\ pc = "page_alloc"
    /\ va < PROC_START \/ va >= NVA \/ KallocNull
    /\ Return(-1)
    /\ UNCHANGED <<memory, tables, held>>

\* What page_alloc writes to the new page.
Cleared == ZERO

PageAlloc ==
    /\ pc = "page_alloc"
    /\ va \in PROC_START .. NVA - 1
    /\ \E pa \in PA : KallocGets(pa) /\ Claim(pa, Cleared) /\ held' = pa
    /\ pc' = "pa_map"
    /\ UNCHANGED <<tables, procs, mv, pid, va, nboot>>

PageAllocTable ==
    /\ pc = "pa_map"
    /\ MapTable(current, va)
    /\ UNCHANGED <<pt, procs, mv, pc, locals, nboot>>

\* Mutant of GivenBack: the page is forgotten.
GivenBack_Not == refcount

\* The new page is freed when it cannot be mapped.
GivenBack == Kfree(refcount, held)

PageAllocFails ==
    /\ pc = "pa_map"
    /\ MapFails(current, va)
    /\ refcount' = GivenBack
    /\ held' = NoPage
    /\ Return(-1)
    /\ UNCHANGED <<mem, tables>>

\* The entry is overwritten, whatever it was.
PageAllocMap ==
    /\ pc = "pa_map"
    /\ MapEntry(current, va, [pa |-> held, w |-> TRUE, u |-> TRUE])
    /\ held' = NoPage
    /\ Return(0)
    /\ UNCHANGED <<memory, tab>>

-----------------------------------------------------------------------------
(* syscall_fork *)

\* The first free slot.
ForkSlot(c) ==
    /\ c \in Pid \ {0} /\ state[c] = "P_FREE"
    /\ \A p \in 1 .. c - 1 : state[p] # "P_FREE"

Fork ==
    /\ pc = "fork"
    /\ \E c \in Pid : ForkSlot(c) /\ pid' = c
    /\ pc' = "fork_root"
    /\ UNCHANGED <<memory, tables, procs, mv, va, held, nboot>>

ForkNoSlot ==
    /\ pc = "fork"
    /\ \A c \in Pid \ {0} : state[c] # "P_FREE"
    /\ Return(-1)
    /\ UNCHANGED <<memory, tables, held>>

ForkRoot ==
    /\ pc = "fork_root"
    /\ \E pa \in PA :
        /\ KallocGets(pa)
        /\ Claim(pa, ZERO)
        /\ tab' = [tab EXCEPT ![pid][0] = pa]
    /\ pc' = "fork_va" /\ va' = 0
    /\ UNCHANGED <<pt, procs, mv, pid, held, nboot>>

ForkNoRoot ==
    /\ pc = "fork_root"
    /\ KallocNull
    /\ Return(-1)
    /\ UNCHANGED <<memory, tables, held>>

\* The parent's entry for the loop's address; is it copied?
Parent == pt[current][va]
Private(v, e) == User(e) /\ v # CONSOLE /\ Writable(e)

\* Mutant of Copied: no memcpy.
Copied_Not == CC

\* The copy of a private page.
Copied == mem[Parent.pa]

ForkCopy ==
    /\ pc = "fork_va" /\ va < NVA
    /\ Private(va, Parent) /\ held = NoPage
    /\ \E pa \in PA :
        /\ KallocGets(pa)
        /\ Claim(pa, Copied)
        /\ held' = pa
    /\ UNCHANGED <<tables, procs, mv, pc, pid, va, nboot>>

\* Is try_map() being executed, with tables to allocate?
ForkMapping ==
    /\ pc = "fork_va" /\ va < NVA
    /\ Parent.pa # NoPage
    /\ Private(va, Parent) => held # NoPage

ForkTable ==
    /\ ForkMapping
    /\ MapTable(pid, va)
    /\ UNCHANGED <<pt, procs, mv, pc, locals, nboot>>

\* Mutant of ForkEntry: the parent's page is mapped instead of the copy.
ForkEntry_Same == Parent

\* A private page gets the copy, any other the parent's page ...
ForkEntry ==
    IF Private(va, Parent)
    THEN [pa |-> held, w |-> Parent.w, u |-> Parent.u]
    ELSE Parent

\* Mutant of ForkCount: sharing is not counted.
ForkCount_Not == refcount

\* ... whose sharing is counted.
ForkCount ==
    IF User(Parent) /\ ~ Writable(Parent)
    THEN [refcount EXCEPT ![Parent.pa] = (@ + 1) % RefMod]
    ELSE refcount

ForkMap ==
    /\ ForkMapping
    /\ MapEntry(pid, va, ForkEntry)
    /\ refcount' = ForkCount
    /\ va' = va + 1 /\ held' = NoPage
    /\ UNCHANGED <<mem, tab, procs, mv, pc, pid, nboot>>

\* An absent page: try_map(-1, 0) writes nothing.
ForkSkip ==
    /\ pc = "fork_va" /\ va < NVA
    /\ Parent.pa = NoPage
    /\ va' = va + 1
    /\ UNCHANGED <<memory, tables, procs, mv, pc, pid, held, nboot>>

\* Mutant of ForkUndo: -1 is returned at once.
ForkUndo_Not == Return(-1) /\ held' = NoPage /\ UNCHANGED <<memory, tables>>

\* Go to pfree(child_pt).
ForkUndo ==
    /\ pc' = "pfree_va" /\ va' = PROC_START
    /\ UNCHANGED <<memory, tables, procs, mv, pid, held, nboot>>

\* Out of memory for a copy or for a table.
ForkFails ==
    /\ \/ /\ pc = "fork_va" /\ va < NVA
          /\ Private(va, Parent) /\ held = NoPage /\ KallocNull
       \/ ForkMapping /\ MapFails(pid, va)
    /\ ForkUndo

\* Mutant of ForkResult: the slot after the child's.
ForkResult_Next == [rax EXCEPT ![pid] = 0, ![current] = pid + 1]

\* What fork returns to the child and to the parent.
ForkResult == [rax EXCEPT ![pid] = 0, ![current] = pid]

\* The child becomes what its parent is.
ForkDone ==
    /\ pc = "fork_va" /\ va = NVA
    /\ state' = [state EXCEPT ![pid] = state[current]]
    /\ rax' = ForkResult
    /\ pc' = "user" /\ pid' = 0 /\ va' = 0
    /\ UNCHANGED <<memory, tables, current, mv, held, nboot>>

-----------------------------------------------------------------------------
(* pfree and syscall_exit.  A page that is given back leaves tab or pt, so *)
(* these hold the references that are still owned.                         *)

Exit ==
    /\ pc = "exit"
    /\ pc' = "pfree_va" /\ pid' = current /\ va' = PROC_START
    /\ UNCHANGED <<memory, tables, procs, mv, held, nboot>>

\* The mappings whose page is given back.
Freed(e) == User(e) /\ e.pa # CONSOLE

\* One iteration over the address space.
PfreeVa ==
    /\ pc = "pfree_va" /\ va < NVA
    /\ IF Freed(pt[pid][va])
       THEN /\ refcount' = Kfree(refcount, pt[pid][va].pa)
            /\ pt' = [pt EXCEPT ![pid][va] = NoEntry]
       ELSE UNCHANGED <<refcount, pt>>
    /\ va' = va + 1
    /\ UNCHANGED <<mem, tab, procs, mv, pc, pid, held, nboot>>

\* Mutant of PfreeVaDone: once more.
PfreeVaDone_Again ==
    /\ pc = "pfree_va" /\ va = NVA
    /\ va' = PROC_START
    /\ UNCHANGED <<memory, tables, procs, mv, pc, pid, held, nboot>>

PfreeVaDone ==
    /\ pc = "pfree_va" /\ va = NVA
    /\ pc' = "pfree_pt"
    /\ UNCHANGED <<memory, tables, procs, mv, locals, nboot>>

\* One table that is not the root, in ptiter's order.
PfreeTable ==
    /\ pc = "pfree_pt"
    /\ \E n \in Node \ {0} :
        /\ tab[pid][n] # NoPage
        /\ \A m \in Node : m > n => tab[pid][m] = NoPage
        /\ refcount' = Kfree(refcount, tab[pid][n])
        /\ tab' = [tab EXCEPT ![pid][n] = NoPage]
    /\ UNCHANGED <<mem, pt, procs, mv, pc, locals, nboot>>

\* The root, and with it the last way to the mappings of the kernel.
PfreeRoot == Kfree(refcount, tab[pid][0])

OnlyRoot == \A n \in Node \ {0} : tab[pid][n] = NoPage

\* syscall_exit goes on: the slot is free and another process runs.
ExitDone ==
    /\ pc = "pfree_pt" /\ pid = current /\ OnlyRoot
    /\ refcount' = PfreeRoot
    /\ tab' = [tab EXCEPT ![pid] = NoTable]
    /\ pt' = [pt EXCEPT ![pid] = NoMap]
    /\ state' = [state EXCEPT ![current] = "P_FREE"]
    /\ Schedule
    /\ UNCHANGED <<mem, rax, current, mv, held, nboot>>

\* syscall_fork goes on: the copy in hand is freed as well.
ForkUndone ==
    /\ pc = "pfree_pt" /\ pid # current /\ OnlyRoot
    /\ refcount' = IF held = NoPage THEN PfreeRoot ELSE Kfree(PfreeRoot, held)
    /\ tab' = [tab EXCEPT ![pid] = NoTable]
    /\ pt' = [pt EXCEPT ![pid] = NoMap]
    /\ held' = NoPage
    /\ Return(-1)
    /\ UNCHANGED mem

-----------------------------------------------------------------------------
(* schedule: the next slot in turn; run() it if it is runnable. *)

Turn == (pid + 1) % NPROC

SchedTry ==
    /\ pc = "sched"
    /\ IF state[Turn] = "P_RUNNABLE"
       THEN current' = Turn /\ pc' = "user" /\ pid' = 0
       ELSE pid' = Turn /\ UNCHANGED <<current, pc>>
    /\ UNCHANGED <<memory, tables, state, rax, mv, va, held, nboot>>

-----------------------------------------------------------------------------
Boot == \/ SetupRoot \/ SetupPage \/ SetupTable \/ SetupNull \/ SetupMap
        \/ SetupSkip \/ SetupCopy \/ SetupDone

PageAllocStep == \/ PageAllocBad \/ PageAlloc \/ PageAllocTable
                 \/ PageAllocFails \/ PageAllocMap

ForkStep == \/ Fork \/ ForkNoSlot \/ ForkRoot \/ ForkNoRoot \/ ForkCopy
            \/ ForkTable \/ ForkMap \/ ForkSkip \/ ForkFails \/ ForkDone
            \/ ForkUndone

ExitStep == Exit \/ PfreeVa \/ PfreeVaDone \/ PfreeTable \/ ExitDone

\* Everything the kernel does by itself.
KernelStep ==
    \/ Boot \/ Getpid \/ Yield \/ TimerTick \/ PageFault \/ Panic
    \/ PageAllocStep \/ ForkStep \/ ExitStep \/ SchedTry

\* Nothing happens any more, except that keys are polled after a panic.
Stopped == pc \in {"panic", "assert", "wild", "off"} /\ UNCHANGED vars

Next == KernelStep \/ UserStep \/ Timer \/ Reboot \/ Poweroff \/ Stopped

Spec == Init /\ [][Next]_vars

\* The kernel keeps executing, and the timer keeps interrupting: a tick that
\* arrives while the kernel runs stays pending in the local APIC until the
\* next return to a process, so a process cannot outrun it with system calls.
FairSpec == Spec /\ WF_vars(KernelStep) /\ SF_vars(Timer)

-----------------------------------------------------------------------------
(* Who refers to a physical page. *)

TabRefs(pa) == {x \in Pid \X Node : tab[x[1]][x[2]] = pa}

\* Mappings that processes can use; the console's page and the kernel's own
\* mappings are not counted.
Counted(v, e) == User(e) /\ v # CONSOLE
MapRefs(pa) == {x \in Pid \X VA : /\ Counted(x[2], pt[x[1]][x[2]])
                                 /\ pt[x[1]][x[2]].pa = pa}

Bit(b) == IF b THEN 1 ELSE 0

Refs(pa) == Cardinality(TabRefs(pa)) + Cardinality(MapRefs(pa))
            + Bit(mv = pa) + Bit(held = pa)

(***************************************************************************)
(* The page accounting is exact, in the middle of every handler as well:   *)
(* refcount is the number of page-table nodes, user mappings and pointers  *)
(* of the kernel that refer to the page.  Hence no page is free while      *)
(* somebody uses it and none is lost: not by a fork that runs out of       *)
(* memory at any point, not by exit, and not by the 8-bit counter.         *)
(***************************************************************************)
RefcountExact == \A pa \in Allocatable : refcount[pa] = Refs(pa)

(***************************************************************************)
(* A page that a process can write is mapped nowhere else: fork copies     *)
(* what it must not share.                                                 *)
(***************************************************************************)
PrivatePages ==
    \A p, q \in Pid, v, w \in VA :
        /\ Counted(v, pt[p][v]) /\ Writable(pt[p][v])
        /\ Counted(w, pt[q][w])
        /\ pt[p][v].pa = pt[q][w].pa
        => p = q /\ v = w

(***************************************************************************)
(* What the memory viewer reports as page table errors never happens: a    *)
(* page that is reserved, belongs to the kernel, holds a page table or the *)
(* viewer's own marks is never mapped for a process; nor is one that is    *)
(* two tables at once.                                                     *)
(***************************************************************************)
KernelPages ==
    /\ \A p \in Pid, v \in VA : Counted(v, pt[p][v]) =>
        /\ pt[p][v].pa \in Allocatable \ {mv, held}
        /\ \A q \in Pid, n \in Node : tab[q][n] # pt[p][v].pa
    /\ \A p, q \in Pid, n, m \in Node :
        tab[p][n] # NoPage /\ tab[p][n] = tab[q][m] => p = q /\ n = m
    /\ \A p \in Pid, n \in Node : tab[p][n] # NoPage =>
        tab[p][n] \in Allocatable \ {mv, held}

(***************************************************************************)
(* The process that runs is runnable and check_pagetable() would accept    *)
(* its page table: all of the kernel is mapped at its own address, for the *)
(* kernel only.                                                            *)
(***************************************************************************)
Runs(p) ==
    /\ state[p] = "P_RUNNABLE"
    /\ \A n \in Path(0) : tab[p][n] # NoPage
    /\ \A v \in 0 .. PROC_START - 1 : pt[p][v] = KernelEntry(v)
RunningIsSafe == pc = "user" => current # 0 /\ Runs(current)

\* Between handlers a free slot of ptable owns nothing: a failed fork and an
\* exit give everything back.
FreeOwnsNothing ==
    pc = "user" => \A p \in Pid : state[p] = "P_FREE" =>
                        tab[p] = NoTable /\ pt[p] = NoMap

\* The kernel's assertions hold, and process_setup, which does not look at
\* what kalloc returns, is never given nullptr.
NeverWild == pc \notin {"wild", "assert"}

(***************************************************************************)
(* Nobody starves: a runnable process gets the processor, whatever the     *)
(* others do (system calls in a loop included), unless the machine stops.  *)
(* Only the process itself, or a reset, ends its being runnable.           *)
(***************************************************************************)
Halted == pc \in {"panic", "assert", "wild", "off"}
GetsToRun ==
    \A p \in Pid : state[p] = "P_RUNNABLE"
        ~> \/ pc = "user" /\ current = p
           \/ state[p] # "P_RUNNABLE"
           \/ Halted

\* Every system call and exception is over in finitely many steps.
HandlersFinish == pc \in Ops ~> pc \in {"user", "sched", "setup_root"} \/ Halted
-----------------------------------------------------------------------------
(* What a comment of the code says of it; the run kernel_wrap shows that   *)
(* the code does otherwise.                                                *)

\* "refcount ... is 0 for free pages" only: a page that is in use is not
\* counted as free.
UsedIsCounted == \A pa \in Allocatable : Refs(pa) > 0 => refcount[pa] > 0
=============================================================================
