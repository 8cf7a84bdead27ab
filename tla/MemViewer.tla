----------------------------- MODULE MemViewer -----------------------------
(***************************************************************************)
(* The memory viewer: memshow() of kernel.cc, which every entry into the   *)
(* kernel calls, and now and then a scheduler that finds nothing to run,   *)
(* and the class memusage of k-memviewer.cc.  The map of physical memory   *)
(* is computed afresh each time from the page tables, so it is an operator *)
(* on the kernel's state; what the viewer remembers is whose address space *)
(* it shows and since when.                                                *)
(***************************************************************************)
EXTENDS Kernel

CONSTANTS
    Reserved,   \* the pages for which reserved_physical_address holds
    Period      \* ticks until another process is shown (HZ / 2)

ASSUME ViewerAssumption ==
    /\ Reserved \subseteq PA \ Allocatable /\ {NULL, CONSOLE} \subseteq Reserved
    /\ PROC_START .. NPAGES - 1 \subseteq Allocatable
    /\ Period \in Nat

VARIABLES
    showing,    \* the process whose address space is shown
    since       \* ticks - last_ticks, as far as Period

viewer == <<showing, since>>
vvars  == <<vars, viewer>>

-----------------------------------------------------------------------------
(* memusage::refresh: the marks of a page.  (Those of the kernel's own     *)
(* page tables make no difference, as they are kernel data anyway.)        *)

\* The processes with a page table of their own.
Alive(p) == p # 0 /\ state[p] # "P_FREE" /\ tab[p][0] # NoPage
AnyAlive == \E p \in Pid : Alive(p)

\* Whose page table has the page as one of its tables, and who can access it.
TableOf(pa)  == {p \in Pid : Alive(p) /\ \E n \in Node : tab[p][n] = pa}
OpenTo(pa)   == {p \in Pid : /\ Alive(p)
                             /\ \E v \in VA : User(pt[p][v]) /\ pt[p][v].pa = pa}

\* Without processes, the used pages that the kernel's page table opens to
\* users are marked instead, for a process of a fixed layout.
UsedOpen(pa) == pa >= PROC_START /\ refcount[pa] # 0
Owner(pa)    == (pa - PROC_START) \div 64 + 1

\* Mutant of KernelMark: the viewer forgets its own page.
KernelMark_NotMine(pa) == AnyAlive /\ TableOf(pa) # {}

KernelMark(pa) == AnyAlive /\ (TableOf(pa) # {} \/ pa = mv)
UserMark(pa)   == IF AnyAlive THEN OpenTo(pa) # {} ELSE UsedOpen(pa)
Processes(pa)  == IF AnyAlive THEN TableOf(pa) \cup OpenTo(pa)
                  ELSE IF UsedOpen(pa) THEN {Owner(pa)} ELSE {}

-----------------------------------------------------------------------------
(* memusage::symbol_at.  The text of a page table error stands for the     *)
(* sign that is shown with it.                                             *)

Sign(c)   == <<c, NoPage>>
Letter(p) == <<"letter", p>>  \* of a process

IsKernel(pa) == pa \notin Reserved \cup Allocatable

\* marked_pid: the lowest.
MarkedPid(pa) == CHOOSE p \in Processes(pa) : \A q \in Processes(pa) : p <= q

symbol_at(pa) ==
    CASE pa = CONSOLE -> Sign("C")
      [] pa # CONSOLE /\ pa \in Reserved ->
            Sign(IF Processes(pa) # {} THEN "reserved page mapped for user" ELSE "R")
      [] IsKernel(pa) ->
            Sign(IF Processes(pa) # {} THEN "kernel data page mapped for user" ELSE "K")
      [] pa \in Allocatable ->
            IF Processes(pa) = {} THEN Sign(IF KernelMark(pa) THEN "K" ELSE ".")
            ELSE IF KernelMark(pa) /\ UserMark(pa)
                 THEN Sign("kernel allocated page mapped for user")
            ELSE IF Processes(pa) # {MarkedPid(pa)} THEN Sign("S")
            ELSE Letter(MarkedPid(pa))

Errors == {Sign("reserved page mapped for user"), Sign("kernel data page mapped for user"),
           Sign("kernel allocated page mapped for user")}

-----------------------------------------------------------------------------
(* memshow. *)

\* The slots in the order of the search from s on, and the first of them
\* that is in use; the search comes back to s if there is none.
Distance(s, p) == (p - s + NPROC) % NPROC
InUse(p) == state[p] # "P_FREE" /\ tab[p][0] # NoPage
Found(s) ==
    IF \E p \in Pid : InUse(p)
    THEN CHOOSE p \in Pid : /\ InUse(p)
                            /\ \A q \in Pid : InUse(q) => Distance(s, p) <= Distance(s, q)
    ELSE s

\* Mutant of Memshow: the search starts where it is each time.
Memshow_Stays ==
    /\ showing' = Found(showing)
    /\ since' = IF since >= Period THEN 0 ELSE since

Memshow ==
    /\ showing' = Found(IF since >= Period THEN (showing + 1) % NPROC ELSE showing)
    /\ since' = IF since >= Period THEN 0 ELSE since

\* ++ticks
Tick == /\ since' = IF since < Period THEN since + 1 ELSE since
        /\ UNCHANGED showing

\* The statics of memshow are zero: the next call moves on.
Fresh == showing' = 0 /\ since' = Period

ViewInit == Init /\ showing = 0 /\ since = Period

\* memshow is called on every entry, and now and then by a scheduler that
\* finds nothing to run.
ViewNext ==
    \/ (UserStep \/ Timer) /\ pc' # "user" /\ Memshow
    \/ TimerTick /\ Tick
    \/ Reboot /\ Fresh
    \/ SchedTry /\ pc' = "sched" /\ Memshow
    \/ /\ KernelStep \/ UserStep \/ Poweroff \/ Stopped
       /\ pc = "user" => pc' = "user"
       /\ pc # "timer" \/ pc' = "off"
       /\ UNCHANGED viewer

ViewSpec == ViewInit /\ [][ViewNext]_vvars
ViewFairSpec == ViewSpec /\ WF_vars(KernelStep) /\ SF_vars(Timer)

-----------------------------------------------------------------------------
\* The marks are drawn on entry, and by the scheduler's loop.
Drawn == pc \in Ops \cup {"sched"}

\* Once the last process is gone the viewer does not mark its own page
\* (k-memviewer.cc:124), and shows it as free if it is below PROC_START.
Overlooked(pa) == ~ AnyAlive /\ pa = mv /\ pa < PROC_START

(***************************************************************************)
(* The map tells the truth about the allocator: a page is shown as free    *)
(* exactly if kalloc may hand it out (or is the one overlooked), and as    *)
(* shared exactly if its counter says so, and no page table error is       *)
(* reported for any page.  The marks come from the page tables, the        *)
(* counters from kalloc, kfree and fork; a page lost or freed early would  *)
(* differ.                                                                 *)
(***************************************************************************)
MapIsTrue ==
    Drawn => \A pa \in PA :
        /\ symbol_at(pa) \notin Errors
        /\ pa \in Allocatable =>
            /\ symbol_at(pa) = Sign(".") <=> refcount[pa] = 0 \/ Overlooked(pa)
            /\ symbol_at(pa) = Sign("S") <=> refcount[pa] > 1

(***************************************************************************)
(* Every process has its turn in the viewer, however many there are and    *)
(* whatever they do, as long as one of them runs: the scheduler's loop     *)
(* keeps interrupts off, so without a runnable process time stands still.  *)
(***************************************************************************)
Spinning == pc = "sched" /\ \A p \in Pid : state[p] # "P_RUNNABLE"
EveryoneIsShown ==
    \A p \in Pid : InUse(p) ~> showing = p \/ ~ InUse(p) \/ Spinning \/ Halted
=============================================================================
