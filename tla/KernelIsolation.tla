---------------------------- MODULE KernelIsolation ----------------------------
(***************************************************************************)
(* The kernel implements AddressSpaces, for every number of processes and  *)
(* pages, step by step: each action of Kernel is an action of the abstract *)
(* specification, or leaves alone what processes can see of their memory.  *)
(***************************************************************************)
EXTENDS KernelAccounting, KernelRefines

-----------------------------------------------------------------------------
(* What pages contain while they are prepared. *)

\* From PROC_START on, what is mapped is mapped for the process.
HighUser == \A p \in Pid, v \in UVA : pt[p][v].pa # NoPage => pt[p][v].u

\* page_alloc has cleared its page.
Prepared == pc = "pa_map" => mem[held] = ZERO

\* fork has copied what its loop has passed, and the page in hand.
Copying ==
    pc = "fork_va" =>
        /\ held # NoPage => mem[held] = Copied
        /\ \A v \in UVA : v < va => Cell(pt[pid][v]) = Cell(pt[current][v])

\* process_setup has mapped the program's pages as far as its loop has come;
\* they are nobody else's.  Once the program is copied they hold it, and the
\* stack is as kalloc left it.
Used == Text \cup Data \cup {Stack}
Loading ==
    pc \in {"setup", "setup_stack"} =>
        /\ \A v \in UVA : v < va => IF v \in Used
                THEN pt[pid][v].pa # NoPage /\ pt[pid][v].w = (v \notin Text)
                ELSE pt[pid][v].pa = NoPage
        /\ \A q \in Pid, v, w \in UVA :
                q # pid /\ pt[pid][v].pa # NoPage => pt[q][w].pa # pt[pid][v].pa
        /\ pc = "setup" => va <= Stack
Filled ==
    pc = "setup_stack" =>
        /\ \A v \in Text \cup Data : mem[pt[pid][v].pa] = IMAGE
        /\ held # NoPage => mem[held] = CC
        /\ va = NVA => mem[pt[pid][Stack].pa] = CC

Contents == HighUser /\ Prepared /\ Copying /\ Loading /\ Filled

\* process_setup copies a segment to consecutive physical pages, beginning with
\* the page of its first address (kernel.cc:226).  Those are the segment's pages
\* if kalloc has handed them out one after another.
LoadsInPlace ==
    pc = "setup" /\ va = Stack =>
        \A seg \in {Text, Data} : Loaded(seg) = {pt[pid][v].pa : v \in seg}
-----------------------------------------------------------------------------
\* Which steps lead to the places where pages are prepared.
LEMMA Where ==
    ASSUME [Next]_vars
    PROVE  /\ pc' = "pa_map" => PageAlloc \/ PageAllocTable \/ UNCHANGED vars
           /\ pc' = "fork_va" => \/ ForkRoot \/ ForkCopy \/ ForkTable \/ ForkMap \/ ForkSkip
                                \/ UNCHANGED vars
           /\ pc' \in {"setup", "setup_stack"} =>
                \/ SetupRoot \/ SetupPage \/ SetupTable \/ SetupMap \/ SetupSkip \/ SetupCopy
                \/ UNCHANGED vars
<1> DEFINE P == /\ pc' = "pa_map" => PageAlloc \/ PageAllocTable \/ UNCHANGED vars
                /\ pc' = "fork_va" => \/ ForkRoot \/ ForkCopy \/ ForkTable \/ ForkMap \/ ForkSkip
                                     \/ UNCHANGED vars
                /\ pc' \in {"setup", "setup_stack"} =>
                    \/ SetupRoot \/ SetupPage \/ SetupTable \/ SetupMap \/ SetupSkip \/ SetupCopy
                    \/ UNCHANGED vars
<1> SUFFICES P
  OBVIOUS
<1> USE DEF locals
<1>1. CASE Boot
  <2>1. SetupNull \/ SetupDone => pc' \in {"wild", "assert", "setup_root", "user"}
    BY DEF SetupNull, SetupDone
  <2>2. SetupRoot \/ SetupPage \/ SetupTable \/ SetupMap \/ SetupSkip \/ SetupCopy
            => pc' \in {"setup", "setup_stack"}
    BY DEF SetupRoot, SetupPage, SetupPageDue, SetupTable, SetupMap, SetupMapping, SetupSkip,
           SetupCopy
  <2> QED BY <1>1, <2>1, <2>2 DEF Boot
<1>2. CASE PageAllocStep
  <2>1. PageAllocBad \/ PageAllocFails \/ PageAllocMap => pc' = "user"
    BY DEF PageAllocBad, PageAllocFails, PageAllocMap, Return
  <2>2. PageAlloc \/ PageAllocTable => pc' = "pa_map"
    BY DEF PageAlloc, PageAllocTable
  <2> QED BY <1>2, <2>1, <2>2 DEF PageAllocStep
<1>3. CASE ForkStep
  <2>1. ForkNoSlot \/ ForkNoRoot \/ ForkDone \/ ForkUndone => pc' = "user"
    BY DEF ForkNoSlot, ForkNoRoot, ForkDone, ForkUndone, Return
  <2>2. Fork \/ ForkFails => pc' \in {"fork_root", "pfree_va"}
    BY DEF Fork, ForkFails, ForkUndo
  <2>3. ForkRoot \/ ForkCopy \/ ForkTable \/ ForkMap \/ ForkSkip => pc' = "fork_va"
    BY DEF ForkRoot, ForkCopy, ForkTable, ForkMap, ForkMapping, ForkSkip
  <2> QED BY <1>3, <2>1, <2>2, <2>3 DEF ForkStep
<1>4. CASE ExitStep \/ SchedTry
  <2>1. pc' \in {"pfree_va", "pfree_pt", "sched", "user"}
    BY <1>4 DEF ExitStep, Exit, PfreeVa, PfreeVaDone, PfreeTable, ExitDone, Schedule, SchedTry
  <2> QED BY <2>1
<1>5. CASE Getpid \/ Yield \/ TimerTick \/ PageFault \/ Panic
  <2>1. pc' \in {"user", "sched", "panic"}
    BY <1>5 DEF Getpid, Yield, TimerTick, PageFault, Panic, Return, Schedule
  <2> QED BY <2>1
<1>6. CASE UserStep \/ Timer
  <2>1. pc' \in {"user", "assert"} \cup Ops
    BY <1>6 DEF UserStep, UserWrite, Timer, Enter, Ops
  <2> QED BY <2>1 DEF Ops
<1>7. CASE Reboot \/ Poweroff \/ Stopped \/ UNCHANGED vars
  <2>1. pc' \in {"setup_root", "off"} \/ UNCHANGED vars
    BY <1>7 DEF Reboot, Reset, Poweroff, Stopped
  <2> QED BY <2>1
<1> HIDE DEF P
<1> QED
  BY <1>1, <1>2, <1>3, <1>4, <1>5, <1>6, <1>7 DEF Next, KernelStep

\* The process's part of the address space.
LEMMA HighFacts ==
    /\ UVA \subseteq VA /\ Stack \in UVA /\ Used \subseteq UVA /\ CONSOLE \notin UVA
    /\ Stack \notin Text \cup Data
    /\ \A v \in VA : v \in UVA <=> v >= PROC_START
    /\ UVA \subseteq Nat /\ PROC_START \in Nat
BY SizeAssumption, MemoryAssumption, ProgramAssumption DEF UVA, VA, Stack, Used

\* What is mapped from PROC_START on is counted.
LEMMA HighOwn ==
    ASSUME HighUser, NEW p \in Pid, NEW v \in UVA
    PROVE  Own(p, v).pa = pt[p][v].pa
BY HighFacts DEF HighUser, Own, Counted, User, NoEntry

(***************************************************************************)
(* A page that kalloc finds is not mapped for a process and not in the     *)
(* kernel's hand, so whatever is written to it does not show.              *)
(***************************************************************************)
LEMMA ClaimUnseen ==
    ASSUME TypeOK, Pages, HighUser, NEW pa \in PA, NEW c, KallocGets(pa), Claim(pa, c)
    PROVE  /\ mem'[pa] = c /\ held # pa /\ pa \in Allocatable
           /\ \A q \in PA : q # pa => mem'[q] = mem[q]
           /\ \A p \in Pid, v \in UVA : pt[p][v].pa # pa
<1>1. pa \in Allocatable /\ refcount[pa] = 0
  BY DEF KallocGets, Usable
<1>2. held # pa /\ \A p \in Pid, v \in VA : Own(p, v).pa # pa
  BY <1>1, Unused
<1>3. \A p \in Pid, v \in UVA : pt[p][v].pa # pa
  BY <1>2, HighOwn, HighFacts
<1> QED
  BY <1>1, <1>2, <1>3 DEF Claim, TypeOK

\* So every process sees what it saw.
LEMMA ClaimCells ==
    ASSUME TypeOK, Pages, HighUser, NEW pa \in PA, NEW c, KallocGets(pa), Claim(pa, c)
    PROVE  \A p \in Pid, v \in UVA : pt[p][v].pa # NoPage => mem'[pt[p][v].pa] = mem[pt[p][v].pa]
<1> SUFFICES ASSUME NEW p \in Pid, NEW v \in UVA, pt[p][v].pa # NoPage
             PROVE  mem'[pt[p][v].pa] = mem[pt[p][v].pa]
  OBVIOUS
<1>1. pt[p][v].pa \in PA
  BY HighFacts DEF TypeOK, Entry
<1> QED
  BY <1>1, ClaimUnseen
-----------------------------------------------------------------------------
(* Every step keeps Contents. *)

\* Only entries for the process are written from PROC_START on.
LEMMA HighUserNext ==
    ASSUME TypeOK, HighUser, [Next]_vars
    PROVE  HighUser'
<1> USE HighFacts DEF TypeOK, HighUser, tables
<1>1. CASE UNCHANGED pt
  BY <1>1
<1>2. CASE SetupMap
  <2>1. va \in VA /\ pid \in Pid /\ pt' = [pt EXCEPT ![pid][va] = SetupEntry(va)]
    BY <1>2, Constants DEF SetupMap, SetupMapping, MapEntry
  <2>2. va \in UVA => SetupEntry(va).u
    BY <2>1, SizeAssumption DEF SetupEntry, VA
  <2> QED BY <2>1, <2>2
<1>3. CASE ForkMap
  <2>1. va \in VA /\ pid \in Pid /\ pt' = [pt EXCEPT ![pid][va] = ForkEntry] /\ Parent.pa # NoPage
    BY <1>3, Constants DEF ForkMap, ForkMapping, MapEntry
  <2>2. va \in UVA => ForkEntry.u
    BY <2>1 DEF ForkEntry, Parent
  <2> QED BY <2>1, <2>2
<1>4. CASE PageAllocMap
  BY <1>4 DEF PageAllocMap, MapEntry
<1>5. CASE PfreeVa
  <2>1. va \in VA
    BY <1>5, Constants DEF PfreeVa
  <2>2. CASE UNCHANGED pt
    BY <2>2
  <2>3. CASE pt' = [pt EXCEPT ![pid][va] = NoEntry]
    BY <2>1, <2>3 DEF NoEntry
  <2> QED
    BY <1>5, <2>2, <2>3 DEF PfreeVa
<1>6. CASE ExitDone \/ ForkUndone
  BY <1>6 DEF ExitDone, ForkUndone, NoMap, NoEntry
<1>7. CASE Reboot
  BY <1>7 DEF Reboot, Reset, NoMap, NoEntry
<1>8. \/ UNCHANGED pt \/ SetupMap \/ ForkMap \/ PageAllocMap \/ PfreeVa \/ ExitDone \/ ForkUndone
      \/ Reboot
  <2>1. Boot => UNCHANGED pt \/ SetupMap
    BY DEF Boot, SetupRoot, SetupPage, SetupTable, SetupNull, SetupSkip, SetupCopy, SetupDone
  <2>2. PageAllocStep => UNCHANGED pt \/ PageAllocMap
    BY DEF PageAllocStep, PageAllocBad, PageAlloc, PageAllocTable, PageAllocFails
  <2>3. ForkStep => UNCHANGED pt \/ ForkMap \/ ForkUndone
    BY DEF ForkStep, Fork, ForkNoSlot, ForkRoot, ForkNoRoot, ForkCopy, ForkTable, ForkSkip,
           ForkFails, ForkUndo, ForkDone
  <2>4. ExitStep => UNCHANGED pt \/ PfreeVa \/ ExitDone
    BY DEF ExitStep, Exit, PfreeVaDone, PfreeTable
  <2>5. Getpid \/ Yield \/ TimerTick \/ PageFault \/ Panic \/ SchedTry => UNCHANGED pt
    BY DEF Getpid, Yield, TimerTick, PageFault, Panic, SchedTry
  <2>6. UserStep \/ Timer \/ Poweroff \/ Stopped \/ UNCHANGED vars => UNCHANGED pt
    BY DEF UserStep, UserWrite, Timer, Enter, Poweroff, Stopped, vars
  <2> HIDE DEF TypeOK, HighUser, tables
  <2> QED
    BY <2>1, <2>2, <2>3, <2>4, <2>5, <2>6 DEF Next, KernelStep
<1> HIDE DEF TypeOK, HighUser, tables
<1> QED
  BY <1>1, <1>2, <1>3, <1>4, <1>5, <1>6, <1>7, <1>8

\* The page in hand is the cleared one until page_alloc maps it.
LEMMA PreparedNext ==
    ASSUME TypeOK, Control, Pages, HighUser, Prepared, [Next]_vars
    PROVE  Prepared'
<1> SUFFICES ASSUME pc' = "pa_map" PROVE mem'[held'] = ZERO
  BY DEF Prepared
<1>1. CASE PageAlloc
  BY <1>1, ClaimUnseen DEF PageAlloc, Cleared
<1>2. CASE PageAllocTable
  <2>1. held \in PA /\ mem[held] = ZERO /\ held' = held
    BY <1>2, Constants DEF PageAllocTable, Control, Target, HighMappings, Prepared, locals
  <2>2. PICK pa \in PA : KallocGets(pa) /\ Claim(pa, ZERO)
    BY <1>2 DEF PageAllocTable, MapTable
  <2> QED
    BY <2>1, <2>2, ClaimUnseen
<1>3. CASE UNCHANGED vars
  BY <1>3 DEF vars, Prepared
<1> QED
  BY <1>1, <1>2, <1>3, Where

\* fork's loop leaves behind what the parent sees.
LEMMA CopyingNext ==
    ASSUME TypeOK, Control, Pages, HighUser, Copying, [Next]_vars
    PROVE  Copying'
<1> SUFFICES ASSUME pc' = "fork_va"
             PROVE  /\ held' # NoPage => mem'[held'] = Copied'
                    /\ \A v \in UVA : v < va' => Cell(pt[pid][v])' = Cell(pt[current][v])'
  BY DEF Copying
<1>1. CASE ForkRoot
  <2>1. held' = NoPage /\ va' = 0
    BY <1>1 DEF ForkRoot, Control, InHand, Freeing, Dead
  <2> QED
    BY <2>1, HighFacts
<1>2. CASE ForkCopy \/ ForkTable
  <2>1. /\ pc = "fork_va" /\ va \in VA /\ UNCHANGED <<pt, pid, va, current>>
        /\ pid \in Pid /\ current \in Pid
    BY <1>2, Constants DEF ForkCopy, ForkTable, ForkMapping, tables, procs, locals, TypeOK
  <2>2. PICK pa \in PA, c \in {ZERO, Copied} : KallocGets(pa) /\ Claim(pa, c)
    BY <1>2 DEF ForkCopy, ForkTable, MapTable
  <2>3. \A p \in Pid, v \in UVA : Cell(pt[p][v])' = Cell(pt[p][v])
    BY <2>1, <2>2, ClaimCells DEF Cell
  <2>4. ASSUME held' # NoPage PROVE mem'[held'] = Copied'
    <3>1. Private(va, Parent) /\ va \in UVA
      <4>1. Private(va, Parent)
        BY <1>2, <2>1, <2>4 DEF ForkCopy, ForkTable, locals, Control, InHand, Freeing, Dead
      <4> QED
        BY <4>1, <2>1, HighFacts, SizeAssumption, MemoryAssumption
           DEF Private, User, Parent, Control, LowMappings, KernelEntry, NoEntry, VA
    <3>2. Copied' = Copied
      <4>1. pt[current][va].pa # NoPage
        BY <3>1 DEF Private, User, Parent
      <4> QED
        BY <2>1, <2>2, <3>1, <4>1, ClaimCells DEF Copied, Parent
    <3>3. CASE ForkCopy
      <4>1. \E q \in PA : KallocGets(q) /\ Claim(q, Copied) /\ held' = q
        BY <3>3 DEF ForkCopy
      <4> QED
        BY <4>1, <3>2, ClaimUnseen
    <3>4. CASE ForkTable
      <4>1. held' = held /\ held \in PA /\ mem[held] = Copied
        BY <3>4, <2>1, <2>4, Constants
           DEF ForkTable, locals, Copying, Control, HighMappings
      <4> QED
        BY <4>1, <2>2, <3>2, ClaimUnseen
    <3> QED
      BY <1>2, <3>3, <3>4
  <2> QED
    BY <2>1, <2>3, <2>4 DEF Copying
<1>3. CASE ForkMap
  <2>1. /\ pc = "fork_va" /\ va \in VA /\ UNCHANGED <<mem, pid, current>>
        /\ pid \in Pid /\ current \in Pid /\ pid # current
        /\ va' = va + 1 /\ held' = NoPage /\ MapEntry(pid, va, ForkEntry)
    BY <1>3, Constants DEF ForkMap, ForkMapping, procs, TypeOK, Control, Who, InCall
  <2>2. Cell(ForkEntry) = Cell(Parent)
    <3>1. CASE Private(va, Parent)
      <4>1. held # NoPage /\ mem[held] = Copied
        BY <1>3, <2>1, <3>1 DEF ForkMap, ForkMapping, Copying
      <4> QED
        BY <3>1, <4>1 DEF ForkEntry, Cell, Private, User, Copied
    <3>2. CASE ~ Private(va, Parent)
      BY <3>2 DEF ForkEntry
    <3> QED BY <3>1, <3>2
  <2>3. /\ pt'[pid][va] = ForkEntry /\ pt'[current][va] = Parent
        /\ \A v \in VA : v # va => pt'[pid][v] = pt[pid][v] /\ pt'[current][v] = pt[current][v]
    BY <2>1, Written DEF Parent
  <2> SUFFICES ASSUME NEW v \in UVA, v < va + 1
               PROVE  Cell(pt[pid][v])' = Cell(pt[current][v])'
    BY <2>1
  <2>4. CASE v = va
    BY <2>1, <2>2, <2>3, <2>4 DEF Cell
  <2>5. CASE v # va
    <3>1. v \in VA /\ v < va
      BY <2>1, <2>5, HighFacts, SizeAssumption DEF VA
    <3>2. Cell(pt[pid][v]) = Cell(pt[current][v])
      BY <2>1, <3>1 DEF Copying
    <3> QED
      BY <2>1, <2>3, <2>5, <3>1, <3>2 DEF Cell
  <2> QED BY <2>4, <2>5
<1>4. CASE ForkSkip
  <2>1. /\ pc = "fork_va" /\ va \in VA /\ UNCHANGED <<mem, pt, pid, current, held>>
        /\ pid \in Pid /\ va' = va + 1 /\ Parent.pa = NoPage
    BY <1>4, Constants DEF ForkSkip, procs, tables, memory, TypeOK
  <2>2. held' = NoPage
    BY <2>1 DEF Control, InHand, Freeing, Dead, Private, User
  <2>3. pt[pid][va].pa = NoPage
    BY <2>1, SizeAssumption DEF Control, Progress, Building, NoEntry, VA
  <2> SUFFICES ASSUME NEW v \in UVA, v < va + 1
               PROVE  Cell(pt[pid][v])' = Cell(pt[current][v])'
    BY <2>1, <2>2
  <2>4. CASE v = va
    BY <2>1, <2>3, <2>4 DEF Cell, Parent
  <2>5. CASE v # va
    <3>1. v \in VA /\ v < va
      BY <2>1, <2>5, HighFacts, SizeAssumption DEF VA
    <3>2. Cell(pt[pid][v]) = Cell(pt[current][v])
      BY <2>1, <3>1 DEF Copying
    <3> QED
      BY <2>1, <3>2 DEF Cell
  <2> QED BY <2>4, <2>5
<1>5. CASE UNCHANGED vars
  BY <1>5 DEF vars, Copying, Cell, Copied, Parent
<1> QED
  BY <1>1, <1>2, <1>3, <1>4, <1>5, Where
\* process_setup maps the program's pages, each fresh from kalloc.
LEMMA LoadingNext ==
    ASSUME TypeOK, Control, Pages, HighUser, Loading, [Next]_vars
    PROVE  Loading'
<1> DEFINE Mapped(v) == IF v \in Used
                        THEN pt[pid][v].pa # NoPage /\ pt[pid][v].w = (v \notin Text)
                        ELSE pt[pid][v].pa = NoPage
           Alone == \A q \in Pid, v, w \in UVA :
                        q # pid /\ pt[pid][v].pa # NoPage => pt[q][w].pa # pt[pid][v].pa
<1> SUFFICES ASSUME pc' \in {"setup", "setup_stack"}
             PROVE  /\ \A v \in UVA : v < va' => Mapped(v)'
                    /\ Alone' /\ (pc' = "setup" => va' <= Stack)
  BY DEF Loading
<1>1. pid \in Pid
  BY DEF TypeOK
<1>2. CASE SetupRoot
  <2>1. pc = "setup_root" /\ va' = 0 /\ UNCHANGED <<pt, pid>>
    BY <1>2 DEF SetupRoot
  <2>2. ~ Owns(pid) /\ pc \notin Dead
    BY <2>1, <1>1 DEF Control, Who, Owns, Dead, Building, Freeing, Pid
  <2>3. pt[pid] = NoMap
    BY <1>1, <2>2 DEF Control, Slots
  <2>4. \A v \in UVA : pt[pid][v].pa = NoPage
    BY <2>3, HighFacts DEF NoMap, NoEntry
  <2>5. (\A v \in UVA : ~ (v < 0)) /\ 0 <= Stack
    BY HighFacts
  <2>6. Alone'
    BY <2>1, <2>4
  <2> HIDE DEF Alone, Mapped
  <2> QED
    BY <2>1, <2>5, <2>6
<1>3. CASE UNCHANGED <<pt, pid, va>> /\ pc \in {"setup", "setup_stack"} /\ (pc' = "setup" => pc = "setup")
  BY <1>3 DEF Loading
<1>4. CASE SetupPage \/ SetupTable \/ SetupCopy
  BY <1>3, <1>4 DEF SetupPage, SetupPageDue, SetupTable, SetupMapping, SetupCopy, tables, locals
<1>5. CASE SetupMap
  <2>1. /\ va \in VA /\ pc \in {"setup", "setup_stack"} /\ UNCHANGED <<pc, pid>>
        /\ va' = va + 1 /\ MapEntry(pid, va, SetupEntry(va))
        /\ va < PROC_START \/ held # NoPage
    BY <1>5, Constants DEF SetupMap, SetupMapping, TypeOK
  <2>2. /\ pt'[pid][va] = SetupEntry(va)
        /\ \A q \in Pid, w \in VA : q # pid \/ w # va => pt'[q][w] = pt[q][w]
    BY <1>1, <2>1, Written
  <2>3. va \in UVA => /\ held \in Allocatable /\ va \in Used /\ (pc = "setup" => va # Stack)
                      /\ SetupEntry(va) = [pa |-> held, w |-> va \notin Text, u |-> TRUE]
    BY <2>1, HighFacts DEF Control, HighMappings, InHand, Freeing, Dead, Used, SetupEntry
  <2>4. pc = "setup" => va + 1 <= Stack
    <3>1. pc = "setup" => va <= Stack /\ va # Stack
      BY <2>1, <2>3, HighFacts DEF Loading
    <3> QED BY <3>1, <2>1, SizeAssumption DEF VA, Stack
  <2>5. ASSUME NEW v \in UVA, v < va + 1 PROVE Mapped(v)'
    <3>1. CASE v = va
      BY <2>1, <2>2, <2>3, <3>1, PageFacts
    <3>2. CASE v # va
      <4>1. v \in VA /\ v < va
        BY <2>1, <2>5, <3>2, HighFacts, SizeAssumption DEF VA
      <4>2. Mapped(v)
        BY <2>1, <4>1 DEF Loading
      <4> QED
        BY <1>1, <2>1, <2>2, <3>2, <4>1, <4>2
    <3> QED BY <3>1, <3>2
  <2>6. Alone'
    <3> SUFFICES ASSUME NEW q \in Pid, NEW v \in UVA, NEW w \in UVA, q # pid,
                        pt'[pid][v].pa # NoPage
                 PROVE  pt'[q][w].pa # pt'[pid][v].pa
      BY <2>1
    <3>1. v \in VA /\ w \in VA /\ pt'[q][w] = pt[q][w]
      BY <2>2, HighFacts
    <3>2. CASE v = va
      <4>1. Own(q, w).pa # NoPage => Own(q, w).pa # held
        BY <3>1, ApartIff DEF Apart
      <4>2. pt'[pid][v].pa = held /\ held # NoPage
        BY <2>2, <2>3, <3>2, PageFacts
      <4> QED
        BY <3>1, <4>1, <4>2, HighOwn
    <3>3. CASE v # va
      <4>1. pt'[pid][v] = pt[pid][v]
        BY <1>1, <2>2, <3>1, <3>3
      <4> QED
        BY <2>1, <3>1, <4>1 DEF Loading
    <3> QED BY <3>2, <3>3
  <2> QED
    BY <2>1, <2>4, <2>5, <2>6
<1>6. CASE SetupSkip
  <2>1. /\ pc = "setup" /\ va \in UVA /\ va \notin Used /\ va' = va + 1 /\ UNCHANGED <<pt, pid, pc>>
        /\ va + 1 <= Stack
    BY <1>6, SizeAssumption DEF SetupSkip, tables, UVA, Used, Stack
  <2>2. pt[pid][va].pa = NoPage
    BY <2>1, HighFacts, SizeAssumption DEF Control, Progress, Building, NoEntry, VA
  <2>3. ASSUME NEW v \in UVA, v < va + 1 PROVE Mapped(v)'
    <3>1. CASE v = va
      BY <2>1, <2>2, <3>1
    <3>2. CASE v # va
      <4>1. v < va
        BY <2>1, <2>3, <3>2, HighFacts
      <4> QED
        BY <2>1, <4>1 DEF Loading
    <3> QED BY <3>1, <3>2
  <2> QED
    BY <2>1, <2>3 DEF Loading
<1>7. CASE UNCHANGED vars
  BY <1>3, <1>7 DEF vars
<1> HIDE DEF Mapped, Alone
<1> QED
  BY <1>2, <1>4, <1>5, <1>6, <1>7, Where

\* The program is copied to its pages, and the stack's page is left alone.
LEMMA FilledNext ==
    ASSUME TypeOK, Control, Pages, HighUser, Loading, Filled, LoadsInPlace, [Next]_vars
    PROVE  Filled'
<1> SUFFICES ASSUME pc' = "setup_stack"
             PROVE  /\ \A v \in Text \cup Data : mem'[pt'[pid'][v].pa] = IMAGE
                    /\ held' # NoPage => mem'[held'] = CC
                    /\ va' = NVA => mem'[pt'[pid'][Stack].pa] = CC
  BY DEF Filled
<1>1. /\ pid \in Pid /\ Text \cup Data \subseteq UVA
      /\ \A v \in Text \cup Data : v < Stack /\ pt[pid][v].pa \in PA \cup {NoPage}
      /\ pt[pid][Stack].pa \in PA \cup {NoPage}
  BY HighFacts, Constants2, ProgramAssumption, SizeAssumption DEF TypeOK, Used, Stack
<1>2. CASE SetupCopy
  <2>1. /\ pc = "setup" /\ va = Stack /\ UNCHANGED <<pt, pid, va, held>>
        /\ mem' = [pa \in PA |->
                     IF pa \in Loaded(Text) \cup Loaded(Data) THEN IMAGE ELSE mem[pa]]
    BY <1>2 DEF SetupCopy, tables, locals
  <2>2. held = NoPage /\ Stack # NVA
    BY <2>1, HighFacts, SizeAssumption DEF Control, InHand, Freeing, Dead, Stack
  <2>3. \A v \in Text \cup Data : pt[pid][v].pa \in PA /\ pt[pid][v].pa \in Loaded(Text) \cup Loaded(Data)
    <3>1. \A v \in Text \cup Data : pt[pid][v].pa # NoPage
      BY <1>1, <2>1 DEF Loading, Used
    <3>2. /\ Loaded(Text) = {pt[pid][v].pa : v \in Text}
          /\ Loaded(Data) = {pt[pid][v].pa : v \in Data}
      BY <2>1 DEF LoadsInPlace
    <3> QED
      BY <1>1, <3>1, <3>2
  <2> QED
    BY <2>1, <2>2, <2>3
<1>3. CASE SetupPage \/ SetupTable
  <2>1. /\ pc = "setup_stack" /\ va = Stack /\ UNCHANGED <<pt, pid, va>> /\ Stack # NVA
    BY <1>3, SizeAssumption
       DEF SetupPage, SetupPageDue, SetupTable, SetupMapping, tables, locals, Control, Progress, Stack
  <2>2. \E pa \in PA : /\ KallocGets(pa)
                       /\ \/ Claim(pa, CC) /\ held' = pa
                          \/ Claim(pa, ZERO) /\ held' = held
    BY <1>3 DEF SetupPage, SetupTable, MapTable, locals
  <2>3. \A v \in Text \cup Data : mem'[pt[pid][v].pa] = mem[pt[pid][v].pa]
    <3>1. \A v \in Text \cup Data : pt[pid][v].pa # NoPage
      BY <1>1, <2>1 DEF Loading, Used
    <3> QED
      BY <1>1, <2>2, <3>1, ClaimCells
  <2>4. held' # NoPage => mem'[held'] = CC
    <3>1. PICK pa \in PA : /\ KallocGets(pa)
                           /\ \/ Claim(pa, CC) /\ held' = pa
                              \/ Claim(pa, ZERO) /\ held' = held
      BY <2>2
    <3>2. CASE Claim(pa, CC) /\ held' = pa
      BY <3>1, <3>2, ClaimUnseen
    <3>3. CASE Claim(pa, ZERO) /\ held' = held /\ held # NoPage
      <4>1. held \in PA /\ mem[held] = CC
        BY <2>1, <3>3 DEF Filled, TypeOK
      <4> QED
        BY <3>1, <3>3, <4>1, ClaimUnseen
    <3> QED
      BY <3>1, <3>2, <3>3
  <2> QED
    BY <2>1, <2>3, <2>4 DEF Filled
<1>4. CASE SetupMap
  <2>1. /\ pc = "setup_stack" /\ va = Stack /\ UNCHANGED <<pid, mem>> /\ held' = NoPage
        /\ MapEntry(pid, va, SetupEntry(va)) /\ held # NoPage
    BY <1>4, HighFacts, SizeAssumption
       DEF SetupMap, SetupMapping, memory, Control, Progress, Stack
  <2>2. SetupEntry(va).pa = held
    BY <2>1, HighFacts DEF SetupEntry
  <2>3. /\ pt'[pid][Stack].pa = held
        /\ \A v \in Text \cup Data : pt'[pid][v] = pt[pid][v]
    <3>1. va \in VA /\ \A v \in Text \cup Data : v \in VA /\ v # va
      BY <1>1, <2>1, HighFacts
    <3>2. /\ pt'[pid][va] = SetupEntry(va)
          /\ \A q \in Pid, w \in VA : q # pid \/ w # va => pt'[q][w] = pt[q][w]
      BY <1>1, <2>1, <3>1, Written
    <3> QED
      BY <1>1, <2>1, <2>2, <3>1, <3>2
  <2> QED
    BY <2>1, <2>3 DEF Filled
<1>5. CASE SetupRoot \/ SetupSkip
  BY <1>5 DEF SetupRoot, SetupSkip
<1>6. CASE UNCHANGED vars
  BY <1>6 DEF vars, Filled
<1> QED
  BY <1>2, <1>3, <1>4, <1>5, <1>6, Where
-----------------------------------------------------------------------------
(* What processes see. *)

\* Nothing, if every process that exists goes on with the memory it had.
LEMMA Unseen ==
    ASSUME \A p \in Pid : /\ Exists(p)' <=> Exists(p)
                          /\ Exists(p) => /\ state'[p] = state[p]
                                          /\ \A v \in UVA : Cell(pt[p][v])' = Cell(pt[p][v])
    PROVE  UNCHANGED <<aliveBar, spaceBar>>
<1>1. aliveBar' = aliveBar
  BY DEF aliveBar
<1>2. \A p \in Pid, v \in UVA : (IF Exists(p)' THEN Cell(pt[p][v])' ELSE NoCell)
                              = (IF Exists(p) THEN Cell(pt[p][v]) ELSE NoCell)
  OBVIOUS
<1>3. spaceBar' = spaceBar
  <2>1. spaceBar' = [p \in Pid |-> [v \in UVA |-> IF Exists(p)' THEN Cell(pt[p][v])' ELSE NoCell]]
    BY DEF spaceBar
  <2>2. spaceBar = [p \in Pid |-> [v \in UVA |-> IF Exists(p) THEN Cell(pt[p][v]) ELSE NoCell]]
    BY DEF spaceBar
  <2> QED
    BY <1>2, <2>1, <2>2
<1> QED
  BY <1>1, <1>3

\* Who exists: the caller does during its call; a slot that is being built or
\* taken apart does not.
LEMMA WhoExists ==
    ASSUME TypeOK, Control
    PROVE  /\ pc \in InCall \ Freeing => Exists(current) /\ state[current] = "P_RUNNABLE"
           /\ pc \in Freeing /\ pid # current => Exists(current) /\ state[current] = "P_RUNNABLE"
           /\ pc \in {"setup_root", "setup", "setup_stack", "fork_root", "fork_va"} \cup Freeing
                => ~ Exists(pid)
           /\ \A p \in Pid : pc \notin Freeing => (Exists(p) <=> state[p] # "P_FREE")
           /\ \A p \in Pid : pc \in Freeing => (Exists(p) <=> state[p] # "P_FREE" /\ p # pid)
BY DEF TypeOK, Control, Who, InCall, Freeing, Exists, Pid

\* A step that keeps state, and neither enters nor leaves pfree, keeps everybody
\* alive; if it also keeps the mappings and contents of those who exist, it is
\* not seen.
LEMMA Quietly ==
    ASSUME TypeOK, UNCHANGED state, pc \in Freeing <=> pc' \in Freeing,
           pc \in Freeing => UNCHANGED pid,
           \A p \in Pid, v \in UVA : Exists(p) =>
                /\ pt'[p][v] = pt[p][v]
                /\ pt[p][v].pa # NoPage => mem'[pt[p][v].pa] = mem[pt[p][v].pa]
    PROVE  UNCHANGED <<aliveBar, spaceBar>>
<1>1. \A p \in Pid : Exists(p)' <=> Exists(p)
  BY DEF Exists, Freeing
<1>2. \A p \in Pid, v \in UVA : Exists(p) => Cell(pt[p][v])' = Cell(pt[p][v])
  BY DEF Cell
<1> QED
  BY <1>1, <1>2, Unseen

\* In particular one that changes no mapping and writes to a page from kalloc.
LEMMA QuietClaim ==
    ASSUME TypeOK, Pages, HighUser, UNCHANGED <<state, pt>>, pc \notin Freeing, pc' \notin Freeing,
           NEW pa \in PA, NEW c, KallocGets(pa), Claim(pa, c)
    PROVE  UNCHANGED <<aliveBar, spaceBar>>
BY Quietly, ClaimCells
\* Building a page table, for a new program or for a child, is not seen before
\* it is complete: the slot does not exist, fresh pages are nobody's, and a
\* program is copied to its own pages only.
LEMMA BuildUnseen ==
    ASSUME TypeOK, Control, Pages, Contents, LoadsInPlace,
           \/ SetupRoot \/ SetupPage \/ SetupTable \/ SetupNull \/ SetupMap \/ SetupSkip \/ SetupCopy
           \/ Fork \/ ForkRoot \/ ForkCopy \/ ForkTable \/ ForkMap \/ ForkSkip \/ ForkFails
           \/ PageAlloc \/ PageAllocTable
    PROVE  UNCHANGED <<aliveBar, spaceBar, current, rax>>
<1> USE DEF memory, tables, procs, locals, Freeing
<1>1. pid \in Pid /\ HighUser /\ Loading
  BY DEF TypeOK, Contents
<1>2. CASE SetupRoot \/ SetupPage \/ SetupTable \/ ForkRoot \/ ForkCopy \/ ForkTable \/ PageAlloc
           \/ PageAllocTable
  <2>1. UNCHANGED <<state, pt, current, rax>> /\ pc \notin Freeing /\ pc' \notin Freeing
    BY <1>2 DEF SetupRoot, SetupPage, SetupPageDue, SetupTable, SetupMapping, ForkRoot, ForkCopy,
                ForkTable, ForkMapping, PageAlloc, PageAllocTable
  <2>2. \E pa \in PA : /\ KallocGets(pa)
                       /\ Claim(pa, ZERO) \/ Claim(pa, CC) \/ Claim(pa, Copied) \/ Claim(pa, Cleared)
    BY <1>2 DEF SetupRoot, SetupPage, SetupTable, ForkRoot, ForkCopy, ForkTable, PageAlloc,
                PageAllocTable, MapTable
  <2> QED
    BY <1>1, <2>1, <2>2, QuietClaim
<1>3. CASE SetupNull \/ SetupSkip \/ Fork \/ ForkSkip
  <2>1. UNCHANGED <<state, pt, mem, current, rax>> /\ pc \notin Freeing /\ pc' \notin Freeing
    BY <1>3 DEF SetupNull, SetupPageDue, SetupMapping, SetupSkip, Fork, ForkSkip
  <2> QED
    BY <2>1, Quietly
<1>4. CASE SetupMap \/ ForkMap
  <2>1. /\ UNCHANGED <<state, mem, current, rax>> /\ pc \notin Freeing /\ pc' \notin Freeing
        /\ pc \in {"setup", "setup_stack", "fork_va"}
        /\ \A q \in Pid : q # pid => pt'[q] = pt[q]
    BY <1>4 DEF SetupMap, SetupMapping, ForkMap, ForkMapping, MapEntry, TypeOK
  <2>2. ~ Exists(pid)
    BY <2>1, WhoExists
  <2> QED
    BY <2>1, <2>2, Quietly
<1>5. CASE SetupCopy
  <2>1. /\ UNCHANGED <<state, pt, current, rax>> /\ pc = "setup" /\ va = Stack /\ pc' \notin Freeing
        /\ mem' = [pa \in PA |->
                     IF pa \in Loaded(Text) \cup Loaded(Data) THEN IMAGE ELSE mem[pa]]
    BY <1>5 DEF SetupCopy
  <2>2. ~ Exists(pid)
    BY <2>1, WhoExists
  <2>3. ASSUME NEW p \in Pid, NEW v \in UVA, p # pid, pt[p][v].pa # NoPage
        PROVE  mem'[pt[p][v].pa] = mem[pt[p][v].pa]
    <3>1. pt[p][v].pa \in PA
      BY <2>3, HighFacts, Constants2 DEF TypeOK
    <3>2. /\ Loaded(Text) = {pt[pid][w].pa : w \in Text}
          /\ Loaded(Data) = {pt[pid][w].pa : w \in Data}
      BY <2>1 DEF LoadsInPlace
    <3>3. \A w \in Text \cup Data : w \in UVA /\ pt[pid][w].pa # pt[p][v].pa
      BY <1>1, <2>1, <2>3, HighFacts DEF Loading, Used
    <3> QED
      BY <2>1, <3>1, <3>2, <3>3
  <2> QED
    BY <2>1, <2>2, <2>3, Quietly
<1>6. CASE ForkFails
  <2>1. /\ UNCHANGED <<state, pt, mem, current, rax, pid>> /\ pc = "fork_va" /\ pc' \in Freeing
        /\ state[pid] = "P_FREE"
    BY <1>6 DEF ForkFails, ForkMapping, ForkUndo, Control, Who
  <2>2. \A p \in Pid : Exists(p)' <=> Exists(p)
    BY <2>1 DEF Exists
  <2> QED
    BY <2>1, <2>2, Unseen DEF Cell
<1> QED
  BY <1>2, <1>3, <1>4, <1>5, <1>6

\* Nor is taking one apart, and what has nothing to do with memory.
LEMMA RestUnseen ==
    ASSUME TypeOK, Control, Pages, HighUser,
           \/ Panic \/ TimerTick \/ PfreeVa \/ PfreeVaDone \/ PfreeTable \/ ExitDone \/ Poweroff
           \/ Timer \/ Stopped \/ UNCHANGED vars \/ \E op \in Ops, v \in 0 .. NVA : Enter(op, v)
    PROVE  UNCHANGED <<aliveBar, spaceBar, current, rax>>
<1> USE DEF memory, tables, procs, locals, Freeing
<1>1. CASE Panic \/ TimerTick \/ PfreeVaDone \/ PfreeTable \/ Poweroff
  <2>1. /\ UNCHANGED <<state, pt, mem, current, rax>> /\ (pc \in Freeing <=> pc' \in Freeing)
        /\ (pc \in Freeing => UNCHANGED pid)
    BY <1>1 DEF Panic, TimerTick, Schedule, PfreeVaDone, PfreeTable, Poweroff, Polling, Ops
  <2> QED
    BY <2>1, Quietly
<1>2. CASE Stopped \/ UNCHANGED vars
  <2>1. UNCHANGED <<state, pt, mem, current, rax, pc, pid>>
    BY <1>2 DEF Stopped, vars
  <2> QED
    BY <2>1, Quietly
<1>3. CASE PfreeVa
  <2>1. /\ UNCHANGED <<state, mem, current, rax, pid, pc>> /\ pc \in Freeing
        /\ \A q \in Pid : q # pid => pt'[q] = pt[q]
    BY <1>3 DEF PfreeVa, TypeOK
  <2>2. ~ Exists(pid)
    BY <2>1, WhoExists
  <2> QED
    BY <2>1, <2>2, Quietly
<1>4. CASE ExitDone
  <2>1. /\ UNCHANGED <<mem, current, rax>> /\ pc = "pfree_pt" /\ pc' = "sched" /\ pid = current
        /\ state' = [state EXCEPT ![pid] = "P_FREE"] /\ pid \in Pid
        /\ \A q \in Pid : q # pid => pt'[q] = pt[q]
    BY <1>4 DEF ExitDone, Schedule, TypeOK
  <2>2. \A p \in Pid : /\ Exists(p)' <=> Exists(p)
                       /\ Exists(p) => p # pid /\ state'[p] = state[p]
    BY <2>1 DEF Exists, TypeOK
  <2>3. \A p \in Pid, v \in UVA : Exists(p) => Cell(pt[p][v])' = Cell(pt[p][v])
    BY <2>1, <2>2 DEF Cell
  <2> QED
    BY <2>1, <2>2, <2>3, Unseen
<1>5. CASE Timer \/ \E op \in Ops, v \in 0 .. NVA : Enter(op, v)
  <2>1. UNCHANGED <<state, pt, current, rax>> /\ pc \notin Freeing /\ pc' \notin Freeing
    BY <1>5 DEF Timer, Enter, Ops
  <2>2. CASE UNCHANGED mem
    BY <2>1, <2>2, Quietly
  <2>3. CASE \E pa \in PA : KallocGets(pa) /\ Claim(pa, ZERO)
    BY <2>1, <2>3, QuietClaim
  <2> QED
    BY <1>5, <2>2, <2>3 DEF Timer, Enter
<1> QED
  BY <1>1, <1>2, <1>3, <1>4, <1>5
\* A process that runs exists.
LEMMA AliveIs ==
    ASSUME NEW p \in Pid
    PROVE  /\ Exists(p) /\ state[p] = "P_RUNNABLE" => aliveBar[p] = "ok"
           /\ ~ Exists(p) => aliveBar[p] = "none"
           /\ \A v \in UVA : spaceBar[p][v] = IF Exists(p) THEN Cell(pt[p][v]) ELSE NoCell
BY DEF aliveBar, spaceBar

\* System calls that only return a value, and those that fail.
LEMMA AnswerStep ==
    ASSUME TypeOK, Control,
           \/ Getpid \/ Yield \/ PageAllocBad \/ PageAllocFails \/ ForkNoSlot \/ ForkNoRoot
           \/ ForkUndone
    PROVE  Abstract!Answer
<1> USE DEF memory, tables, procs, Freeing
<1>1. current \in Pid
  BY DEF TypeOK
<1>2. aliveBar[current] = "ok"
  <2>1. pc \in InCall \ Freeing \/ (pc \in Freeing /\ pid # current)
    BY DEF Getpid, Yield, PageAllocBad, PageAllocFails, ForkNoSlot, ForkNoRoot, ForkUndone,
           InCall, Ops
  <2> QED
    BY <1>1, <2>1, WhoExists, AliveIs
<1>3. UNCHANGED current /\ \E r \in {-1, 0, current} : rax' = [rax EXCEPT ![current] = r]
  BY DEF Getpid, Yield, PageAllocBad, PageAllocFails, ForkNoSlot, ForkNoRoot, ForkUndone, Return
<1>4. UNCHANGED <<aliveBar, spaceBar>>
  <2>1. CASE Getpid \/ Yield \/ PageAllocBad \/ PageAllocFails \/ ForkNoSlot \/ ForkNoRoot
    <3>1. UNCHANGED <<state, pt, mem>> /\ pc \notin Freeing /\ pc' \notin Freeing
      BY <2>1 DEF Getpid, Yield, PageAllocBad, PageAllocFails, ForkNoSlot, ForkNoRoot, Return,
                  Schedule
    <3> QED
      BY <3>1, Quietly
  <2>2. CASE ForkUndone
    <3>1. /\ UNCHANGED <<state, mem>> /\ pc \in Freeing /\ pc' = "user" /\ state[pid] = "P_FREE"
          /\ \A q \in Pid : q # pid => pt'[q] = pt[q]
      BY <2>2 DEF ForkUndone, Return, TypeOK, Control, Who
    <3>2. \A p \in Pid : /\ Exists(p)' <=> Exists(p)
                         /\ Exists(p) => p # pid
      BY <3>1 DEF Exists
    <3>3. \A p \in Pid, v \in UVA : Exists(p) => Cell(pt[p][v])' = Cell(pt[p][v])
      BY <3>1, <3>2 DEF Cell
    <3> QED
      BY <3>1, <3>2, <3>3, Unseen
  <2> QED BY <2>1, <2>2
<1> QED
  BY <1>2, <1>3, <1>4 DEF Abstract!Answer, Abstract!Returns

\* page_alloc adds one cleared page to the caller's address space.
LEMMA PageAllocMapStep ==
    ASSUME TypeOK, Control, Contents, PageAllocMap
    PROVE  \E v \in UVA : Abstract!PageAlloc(v)
<1>1. /\ current \in Pid /\ va \in UVA /\ va \in VA /\ held # NoPage /\ mem[held] = ZERO
      /\ pc = "pa_map" /\ pc' = "user" /\ UNCHANGED <<state, mem, current>>
      /\ rax' = [rax EXCEPT ![current] = 0]
      /\ MapEntry(current, va, [pa |-> held, w |-> TRUE, u |-> TRUE])
  BY HighFacts DEF PageAllocMap, Return, memory, TypeOK, Control, Target, Contents, Prepared, UVA
<1>2. Exists(current) /\ aliveBar[current] = "ok"
  BY <1>1, WhoExists, AliveIs DEF InCall, Freeing
<1>3. \A p \in Pid : Exists(p)' <=> Exists(p)
  BY <1>1 DEF Exists
<1>4. aliveBar' = aliveBar
  BY <1>1, <1>3 DEF aliveBar
<1>5. PICK p0 \in Pid, v0 \in UVA : p0 = current /\ v0 = va
  BY <1>1
<1>6. /\ Cell(pt[p0][v0])' = [c |-> ZERO, w |-> TRUE]
      /\ \A q \in Pid, w \in UVA : q # p0 \/ w # v0 => Cell(pt[q][w])' = Cell(pt[q][w])
  <2>1. /\ pt'[current][va] = [pa |-> held, w |-> TRUE, u |-> TRUE]
        /\ \A q \in Pid, w \in VA : q # current \/ w # va => pt'[q][w] = pt[q][w]
    BY <1>1, Written
  <2>2. /\ pt'[p0][v0] = [pa |-> held, w |-> TRUE, u |-> TRUE]
        /\ \A q \in Pid, w \in UVA : q # p0 \/ w # v0 => pt'[q][w] = pt[q][w]
    BY <1>5, <2>1, HighFacts
  <2>3. Cell(pt[p0][v0])' = [c |-> ZERO, w |-> TRUE]
    <3>1. pt'[p0][v0].pa = held /\ pt'[p0][v0].w = TRUE /\ mem'[held] = ZERO
      BY <1>1, <2>2
    <3> QED
      BY <1>1, <3>1 DEF Cell
  <2>4. \A q \in Pid, w \in UVA : q # p0 \/ w # v0 => Cell(pt[q][w])' = Cell(pt[q][w])
    BY <1>1, <2>2 DEF Cell
  <2> QED
    BY <2>3, <2>4
<1>7. spaceBar' = [spaceBar EXCEPT ![p0][v0] = [c |-> ZERO, w |-> TRUE]]
  <2>1. spaceBar' = [p \in Pid |-> [v \in UVA |-> IF Exists(p)' THEN Cell(pt[p][v])' ELSE NoCell]]
    BY DEF spaceBar
  <2>2. spaceBar = [p \in Pid |-> [v \in UVA |-> IF Exists(p) THEN Cell(pt[p][v]) ELSE NoCell]]
    BY DEF spaceBar
  <2> QED
    BY <1>2, <1>3, <1>5, <1>6, <2>1, <2>2
<1> QED
  BY <1>1, <1>2, <1>4, <1>5, <1>7 DEF Abstract!PageAlloc, Abstract!Returns
\* fork gives the child the memory its parent has, in one step of AddressSpaces:
\* the one that makes it runnable.
LEMMA ForkDoneStep ==
    ASSUME TypeOK, Control, Contents, ForkDone
    PROVE  \E p \in Pid : Abstract!Fork(p)
<1>1. /\ current \in Pid /\ pid \in Pid /\ pc = "fork_va" /\ pc' = "user" /\ va = NVA
      /\ UNCHANGED <<pt, mem, current>> /\ state' = [state EXCEPT ![pid] = state[current]]
      /\ rax' = [rax EXCEPT ![current] = pid, ![pid] = 0] /\ pid # current
      /\ state[current] = "P_RUNNABLE" /\ state[pid] = "P_FREE"
  <2>1. /\ current \in Pid /\ pid \in Pid /\ pc = "fork_va" /\ pc' = "user" /\ va = NVA
        /\ UNCHANGED <<pt, mem, current>> /\ state' = [state EXCEPT ![pid] = state[current]]
        /\ rax' = [rax EXCEPT ![pid] = 0, ![current] = pid]
    BY DEF ForkDone, ForkResult, memory, tables, TypeOK
  <2>2. state[current] = "P_RUNNABLE" /\ state[pid] = "P_FREE" /\ pid # current
    BY <2>1 DEF Control, Who, InCall
  <2> QED
    BY <2>1, <2>2 DEF TypeOK
<1>2. PICK p0 \in Pid, c0 \in Pid : p0 = current /\ c0 = pid
  BY <1>1
<1>3. /\ Exists(p0) /\ ~ Exists(c0) /\ Exists(c0)'
      /\ \A q \in Pid : q # c0 => (Exists(q)' <=> Exists(q)) /\ state'[q] = state[q]
      /\ state'[c0] = "P_RUNNABLE"
  BY <1>1, <1>2 DEF Exists, TypeOK
<1>4. aliveBar[p0] = "ok" /\ aliveBar[c0] = "none"
  BY <1>1, <1>2, <1>3, AliveIs
<1>5. aliveBar' = [aliveBar EXCEPT ![c0] = "ok"]
  BY <1>3 DEF aliveBar
<1>6. \A v \in UVA : Cell(pt[c0][v]) = Cell(pt[p0][v])
  BY <1>1, <1>2, SizeAssumption DEF Contents, Copying, UVA
<1>7. spaceBar' = [spaceBar EXCEPT ![c0] = spaceBar[p0]]
  <2>1. spaceBar' = [p \in Pid |-> [v \in UVA |-> IF Exists(p)' THEN Cell(pt[p][v])' ELSE NoCell]]
    BY DEF spaceBar
  <2>2. spaceBar = [p \in Pid |-> [v \in UVA |-> IF Exists(p) THEN Cell(pt[p][v]) ELSE NoCell]]
    BY DEF spaceBar
  <2>3. \A p \in Pid, v \in UVA : Cell(pt[p][v])' = Cell(pt[p][v])
    BY <1>1 DEF Cell
  <2> QED
    BY <1>3, <1>6, <2>1, <2>2, <2>3
<1> QED
  BY <1>1, <1>2, <1>4, <1>5, <1>7 DEF Abstract!Fork

\* process_setup's last step loads the program.
LEMMA LoadStep ==
    ASSUME TypeOK, Control, Contents, SetupDone
    PROVE  \E p \in Pid : Abstract!Load(p)
<1>1. /\ pid \in Pid /\ pc = "setup_stack" /\ va = NVA /\ pc' \in {"setup_root", "user"}
      /\ UNCHANGED <<pt, mem, rax>> /\ state' = [state EXCEPT ![pid] = "P_RUNNABLE"]
      /\ current' \in {current, 1} /\ state[pid] = "P_FREE"
  <2>1. /\ pid \in Pid /\ pc = "setup_stack" /\ va = NVA /\ pc' \in {"setup_root", "user"}
        /\ UNCHANGED <<pt, mem, rax>> /\ state' = [state EXCEPT ![pid] = "P_RUNNABLE"]
        /\ current' \in {current, 1}
    BY DEF SetupDone, memory, tables, TypeOK
  <2> QED
    BY <2>1 DEF Control, Who, Pid
<1>2. PICK c0 \in Pid : c0 = pid
  BY <1>1
<1>3. /\ ~ Exists(c0) /\ Exists(c0)' /\ state'[c0] = "P_RUNNABLE"
      /\ \A q \in Pid : q # c0 => (Exists(q)' <=> Exists(q)) /\ state'[q] = state[q]
  BY <1>1, <1>2 DEF Exists, TypeOK
<1>4. aliveBar[c0] = "none"
  BY <1>3, AliveIs
<1>5. aliveBar' = [aliveBar EXCEPT ![c0] = "ok"]
  BY <1>3 DEF aliveBar
<1>6. \A v \in UVA : Cell(pt[c0][v]) = Image[v]
  <2> SUFFICES ASSUME NEW v \in UVA PROVE Cell(pt[pid][v]) = Image[v]
    BY <1>2
  <2>1. v < NVA
    BY SizeAssumption DEF UVA
  <2>2. IF v \in Used THEN pt[pid][v].pa # NoPage /\ pt[pid][v].w = (v \notin Text)
                       ELSE pt[pid][v].pa = NoPage
    BY <1>1, <2>1 DEF Contents, Loading
  <2>3. CASE v \in Text \cup Data
    BY <1>1, <2>2, <2>3 DEF Contents, Filled, Used, Cell, Image
  <2>4. CASE v = Stack
    BY <1>1, <2>2, <2>4, HighFacts DEF Contents, Filled, Used, Cell, Image
  <2>5. CASE v \notin Used
    BY <2>2, <2>5 DEF Cell, Image, Used
  <2> QED
    BY <2>3, <2>4, <2>5 DEF Used
<1>7. spaceBar' = [spaceBar EXCEPT ![c0] = Image]
  <2>1. spaceBar' = [p \in Pid |-> [v \in UVA |-> IF Exists(p)' THEN Cell(pt[p][v])' ELSE NoCell]]
    BY DEF spaceBar
  <2>2. spaceBar = [p \in Pid |-> [v \in UVA |-> IF Exists(p) THEN Cell(pt[p][v]) ELSE NoCell]]
    BY DEF spaceBar
  <2>3. \A p \in Pid, v \in UVA : Cell(pt[p][v])' = Cell(pt[p][v])
    BY <1>1 DEF Cell
  <2>4. Image = [v \in UVA |-> Image[v]]
    BY DEF Image
  <2> HIDE DEF Image
  <2> QED
    BY <1>3, <1>6, <2>1, <2>2, <2>3, <2>4
<1> QED
  BY <1>1, <1>2, <1>4, <1>5, <1>7 DEF Abstract!Load
\* A store to the process's own memory; the page is nobody else's, and the
\* console is not part of an address space.
LEMMA WriteStep ==
    ASSUME TypeOK, Control, Pages, HighUser, NEW v \in VA, NEW c \in Val, UserWrite(v, c)
    PROVE  \/ UNCHANGED <<aliveBar, spaceBar, current, rax>>
           \/ v \in UVA /\ Abstract!Write(v, c)
<1> DEFINE pa == pt[current][v].pa
<1>1. /\ pc = "user" /\ User(pt[current][v]) /\ Writable(pt[current][v])
      /\ mem' = [mem EXCEPT ![pa] = c] /\ UNCHANGED <<state, pt, rax, current, pc, pid>>
      /\ current \in Pid /\ pa \in PA
  BY Constants2 DEF UserWrite, tables, procs, locals, TypeOK, User
<1>2. CASE v < PROC_START
  <2>1. pa = CONSOLE
    BY <1>1, <1>2 DEF Control, LowMappings, KernelEntry, NoEntry, User
  <2>2. \A p \in Pid, w \in UVA : pt[p][w].pa # CONSOLE
    <3>1. CONSOLE \notin Allocatable \cup {NoPage}
      BY MemoryAssumption DEF NoPage
    <3>2. \A w \in UVA : w \in VA /\ w >= PROC_START
      BY HighFacts, SizeAssumption
    <3> QED BY <3>1, <3>2 DEF Control, HighMappings
  <2>3. \A p \in Pid, w \in UVA : pt[p][w].pa # NoPage => mem'[pt[p][w].pa] = mem[pt[p][w].pa]
    BY <1>1, <2>1, <2>2 DEF TypeOK
  <2> QED
    BY <1>1, <2>3, Quietly
<1>3. CASE ~ (v < PROC_START)
  <2>1. v \in UVA
    BY <1>3, SizeAssumption DEF UVA, VA
  <2>2. PICK p0 \in Pid : p0 = current
    BY <1>1
  <2>3. /\ Exists(p0) /\ aliveBar[p0] = "ok"
        /\ \A p \in Pid : Exists(p)' <=> Exists(p)
    BY <1>1, <2>2, WhoExists, AliveIs DEF InCall, Freeing, Exists
  <2>4. aliveBar' = aliveBar
    BY <1>1, <2>3 DEF aliveBar
  <2>5. \A q \in Pid, w \in UVA : q # p0 \/ w # v => pt[q][w].pa = NoPage \/ pt[q][w].pa # pa
    <3> SUFFICES ASSUME NEW q \in Pid, NEW w \in UVA, pt[q][w].pa # NoPage, pt[q][w].pa = pa
                 PROVE  q = p0 /\ w = v
      OBVIOUS
    <3>1. Counted(v, pt[p0][v]) /\ Counted(w, pt[q][w]) /\ Writable(pt[p0][v])
      BY <1>1, <2>1, <2>2, HighFacts DEF HighUser, Counted, User
    <3> QED
      BY <2>2, <3>1, HighFacts DEF Pages, PrivatePages
  <2>6. /\ Cell(pt[p0][v]) = [c |-> mem[pa], w |-> pt[p0][v].w]
        /\ Cell(pt[p0][v])' = [c |-> c, w |-> pt[p0][v].w] /\ pt[p0][v].w
    BY <1>1, <2>2 DEF Cell, User, Writable, TypeOK
  <2>7. \A q \in Pid, w \in UVA : q # p0 \/ w # v => Cell(pt[q][w])' = Cell(pt[q][w])
    <3> SUFFICES ASSUME NEW q \in Pid, NEW w \in UVA, q # p0 \/ w # v
                 PROVE  Cell(pt[q][w])' = Cell(pt[q][w])
      OBVIOUS
    <3>1. CASE pt[q][w].pa = NoPage
      BY <1>1, <3>1 DEF Cell
    <3>2. CASE pt[q][w].pa # NoPage
      <4>1. mem'[pt[q][w].pa] = mem[pt[q][w].pa]
        BY <1>1, <2>5, <3>2 DEF TypeOK
      <4> QED
        BY <1>1, <4>1 DEF Cell
    <3> QED BY <3>1, <3>2
  <2>8. spaceBar[p0][v] = Cell(pt[p0][v])
    BY <2>1, <2>3, AliveIs
  <2>9. spaceBar' = [spaceBar EXCEPT ![p0][v].c = c]
    <3>1. spaceBar' = [p \in Pid |-> [w \in UVA |-> IF Exists(p)' THEN Cell(pt[p][w])' ELSE NoCell]]
      BY DEF spaceBar
    <3>2. spaceBar = [p \in Pid |-> [w \in UVA |-> IF Exists(p) THEN Cell(pt[p][w]) ELSE NoCell]]
      BY DEF spaceBar
    <3>3. Cell(pt[p0][v])' = [Cell(pt[p0][v]) EXCEPT !.c = c]
      <4>1. \A x, y, z : z = [c |-> x, w |-> y] => [z EXCEPT !.c = c] = [c |-> c, w |-> y]
        OBVIOUS
      <4>2. \A z : z = [c |-> mem[pa], w |-> pt[p0][v].w]
                    => [z EXCEPT !.c = c] = [c |-> c, w |-> pt[p0][v].w]
        BY <4>1, Zenon
      <4>3. PICK z : z = Cell(pt[p0][v])
        OBVIOUS
      <4>4. z = [c |-> mem[pa], w |-> pt[p0][v].w] /\ Cell(pt[p0][v])' = [c |-> c, w |-> pt[p0][v].w]
        BY <2>6, <4>3, Zenon
      <4>5. [z EXCEPT !.c = c] = [c |-> c, w |-> pt[p0][v].w]
        BY <4>2, <4>4, Zenon
      <4> QED
        BY <4>3, <4>4, <4>5, Zenon
    <3>4. spaceBar' = [spaceBar EXCEPT ![p0][v] = Cell(pt[p0][v])']
      BY <2>1, <2>3, <2>7, <3>1, <3>2
    <3> QED
      BY <2>8, <3>3, <3>4
  <2>10. spaceBar[p0][v] # NoCell /\ spaceBar[p0][v].w
    <3>1. c \in Content /\ mem[pa] \in Content
      BY <1>1 DEF TypeOK, Content
    <3> QED
      BY <2>6, <2>8 DEF NoCell
  <2> QED
    BY <1>1, <2>1, <2>2, <2>3, <2>4, <2>9, <2>10 DEF Abstract!Write
<1> QED
  BY <1>2, <1>3

\* Exits, faults and the scheduler.
LEMMA ProcessStep ==
    ASSUME TypeOK, Control, Exit \/ PageFault \/ SchedTry
    PROVE  \/ Abstract!Exit \/ Abstract!Break \/ \E p \in Pid : Abstract!Switch(p)
           \/ UNCHANGED <<aliveBar, spaceBar, current, rax>>
<1> USE DEF memory, tables, procs
<1>1. PICK p0 \in Pid : p0 = current
  BY DEF TypeOK
<1>2. CASE Exit
  <2>1. /\ pc = "exit" /\ pc' = "pfree_va" /\ pid' = p0 /\ UNCHANGED <<pt, mem, state, current, rax>>
    BY <1>1, <1>2 DEF Exit
  <2>2. Exists(p0) /\ aliveBar[p0] = "ok"
    BY <1>1, <2>1, WhoExists, AliveIs DEF InCall, Freeing, Ops
  <2>3. ~ Exists(p0)' /\ \A q \in Pid : q # p0 => (Exists(q)' <=> Exists(q))
    BY <2>1 DEF Exists
  <2>4. aliveBar' = [aliveBar EXCEPT ![p0] = "none"]
    BY <2>1, <2>3 DEF aliveBar
  <2>5. spaceBar' = [spaceBar EXCEPT ![p0] = [v \in UVA |-> NoCell]]
    <3>1. spaceBar' = [p \in Pid |-> [w \in UVA |-> IF Exists(p)' THEN Cell(pt[p][w])' ELSE NoCell]]
      BY DEF spaceBar
    <3>2. spaceBar = [p \in Pid |-> [w \in UVA |-> IF Exists(p) THEN Cell(pt[p][w]) ELSE NoCell]]
      BY DEF spaceBar
    <3>3. \A p \in Pid, v \in UVA : Cell(pt[p][v])' = Cell(pt[p][v])
      BY <2>1 DEF Cell
    <3> QED
      BY <2>3, <3>1, <3>2, <3>3
  <2> QED
    BY <1>1, <2>1, <2>2, <2>4, <2>5 DEF Abstract!Exit, Abstract!Empty
<1>3. CASE PageFault
  <2>1. /\ pc = "fault" /\ pc' = "sched" /\ UNCHANGED <<pt, mem, current, rax>>
        /\ state' = [state EXCEPT ![p0] = "P_BROKEN"]
    BY <1>1, <1>3 DEF PageFault, Schedule
  <2>2. Exists(p0) /\ state[p0] = "P_RUNNABLE" /\ aliveBar[p0] = "ok"
    BY <1>1, <2>1, WhoExists, AliveIs DEF InCall, Freeing, Ops
  <2>3. /\ \A q \in Pid : Exists(q)' <=> Exists(q)
        /\ state'[p0] = "P_BROKEN" /\ \A q \in Pid : q # p0 => state'[q] = state[q]
    BY <2>1, <2>2 DEF Exists, TypeOK
  <2>4. aliveBar' = [aliveBar EXCEPT ![p0] = "broken"]
    BY <2>2, <2>3 DEF aliveBar
  <2>5. spaceBar' = spaceBar
    BY <2>1, <2>3 DEF spaceBar, Cell
  <2> QED
    BY <1>1, <2>1, <2>2, <2>4, <2>5 DEF Abstract!Break
<1>4. CASE SchedTry
  <2>1. /\ UNCHANGED <<pt, mem, state, rax>> /\ pc = "sched" /\ pc' \in {"sched", "user"}
        /\ UNCHANGED current \/ (current' = Turn /\ state[Turn] = "P_RUNNABLE")
    BY <1>4 DEF SchedTry
  <2>2. UNCHANGED <<aliveBar, spaceBar>>
    BY <2>1, Quietly DEF Freeing
  <2>3. CASE current' = Turn /\ state[Turn] = "P_RUNNABLE"
    <3>1. PICK t \in Pid : t = Turn
      BY TurnType
    <3>2. aliveBar[t] = "ok"
      BY <2>1, <2>3, <3>1, AliveIs DEF Exists
    <3> QED
      BY <2>1, <2>2, <2>3, <3>1, <3>2 DEF Abstract!Switch
  <2> QED
    BY <2>1, <2>2, <2>3
<1> QED
  BY <1>2, <1>3, <1>4

\* A reset leaves no process, and no memory of one.
LEMMA ResetStep == ASSUME Reset PROVE Abstract!Reset
<1>1. \A p \in Pid : ~ Exists(p)'
  BY DEF Reset, Exists
<1>2. aliveBar' = [p \in Pid |-> "none"]
  BY <1>1 DEF aliveBar
<1>3. spaceBar' = [p \in Pid |-> [v \in UVA |-> NoCell]]
  BY <1>1 DEF spaceBar
<1> QED
  BY <1>2, <1>3 DEF Reset, Abstract!Reset, Abstract!Empty

\* The invariant about the contents holds at first and is kept.
LEMMA ContentsInit == Init => Contents
BY HighFacts DEF Init, Contents, HighUser, Prepared, Copying, Loading, Filled, NoMap, NoEntry

\* ... with every step.
LEMMA ContentsNext ==
    ASSUME TypeOK, Control, Pages, Contents, LoadsInPlace, [Next]_vars
    PROVE  Contents'
BY HighUserNext, PreparedNext, CopyingNext, LoadingNext, FilledNext DEF Contents

\* The first state is one without processes.
LEMMA InitRefines == Init => Abstract!Init
<1> SUFFICES ASSUME Init PROVE Abstract!Init
  OBVIOUS
<1>1. \A p \in Pid : ~ Exists(p)
  BY DEF Init, Exists
<1>2. aliveBar = [p \in Pid |-> "none"]
  BY <1>1 DEF aliveBar
<1>3. spaceBar = [p \in Pid |-> [v \in UVA |-> NoCell]]
  BY <1>1 DEF spaceBar
<1> QED
  BY <1>2, <1>3 DEF Init, Abstract!Init, Abstract!Empty

\* Every step is one of the abstract specification's or does not show.
LEMMA StepRefines ==
    ASSUME TypeOK, Control, Pages, Contents, LoadsInPlace, [Next]_vars
    PROVE  [Abstract!Next]_(Abstract!svars)
<1> DEFINE Quiet == UNCHANGED <<aliveBar, spaceBar, current, rax>>
<1>1. Quiet => UNCHANGED Abstract!svars
  BY DEF Abstract!svars
<1> HIDE DEF Quiet
<1>h. HighUser
  BY DEF Contents
<1>2. CASE Boot
  <2>1. SetupDone => Abstract!Next
    BY LoadStep DEF Abstract!Next
  <2>2. ~ SetupDone => Quiet
    BY <1>2, BuildUnseen DEF Boot, Quiet
  <2> QED BY <1>1, <2>1, <2>2
<1>3. CASE Getpid \/ Yield \/ PageAllocBad \/ PageAllocFails \/ ForkNoSlot \/ ForkNoRoot
           \/ ForkUndone
  BY <1>3, AnswerStep DEF Abstract!Next
<1>4. CASE PageAllocStep
  <2>1. PageAllocMap => Abstract!Next
    BY PageAllocMapStep DEF Abstract!Next
  <2>2. PageAlloc \/ PageAllocTable => Quiet
    BY BuildUnseen DEF Quiet
  <2> QED BY <1>1, <1>3, <1>4, <2>1, <2>2 DEF PageAllocStep
<1>5. CASE ForkStep
  <2>1. ForkDone => Abstract!Next
    BY ForkDoneStep DEF Abstract!Next
  <2>2. Fork \/ ForkRoot \/ ForkCopy \/ ForkTable \/ ForkMap \/ ForkSkip \/ ForkFails => Quiet
    BY BuildUnseen DEF Quiet
  <2> QED BY <1>1, <1>3, <1>5, <2>1, <2>2 DEF ForkStep
<1>6. CASE Exit \/ PageFault \/ SchedTry
  <2>1. \/ Abstract!Exit \/ Abstract!Break \/ \E p \in Pid : Abstract!Switch(p)
        \/ Quiet
    BY <1>6, ProcessStep DEF Quiet
  <2> QED BY <1>1, <2>1 DEF Abstract!Next
<1>7. CASE \/ Panic \/ TimerTick \/ PfreeVa \/ PfreeVaDone \/ PfreeTable \/ ExitDone \/ Poweroff
           \/ Timer \/ Stopped \/ UNCHANGED vars \/ \E op \in Ops, v \in 0 .. NVA : Enter(op, v)
  <2>1. Quiet
    BY <1>7, <1>h, RestUnseen DEF Quiet
  <2> QED BY <1>1, <2>1
<1>8. CASE UserStep
  <2>1. CASE \E v \in VA, c \in Val : UserWrite(v, c)
    <3>1. PICK v \in VA, c \in Val : UserWrite(v, c)
      BY <2>1
    <3>2. Quiet \/ (v \in UVA /\ Abstract!Write(v, c))
      BY <1>h, <3>1, WriteStep DEF Quiet
    <3> QED BY <1>1, <3>2 DEF Abstract!Next
  <2>2. CASE ~ \E v \in VA, c \in Val : UserWrite(v, c)
    <3>1. 0 \in 0 .. NVA
      BY SizeAssumption
    <3>2. \E op \in Ops, v \in 0 .. NVA : Enter(op, v)
      BY <1>8, <2>2, <3>1 DEF UserStep, Ops
    <3> QED BY <1>7, <3>2
  <2> QED BY <2>1, <2>2
<1>9. CASE Reboot
  BY <1>9, ResetStep DEF Reboot, Abstract!Next
<1> QED
  BY <1>2, <1>3, <1>4, <1>5, <1>6, <1>7, <1>8, <1>9 DEF Next, KernelStep, ExitStep

(***************************************************************************)
(* Isolation: while no program calls page_alloc for an address it already  *)
(* uses (such a call loses a page, see UsedIsCounted) and process_setup    *)
(* finds each segment's pages one after another (kernel.cc:226 relies on   *)
(* it), the kernel implements private address spaces, for any number of    *)
(* processes, pages and addresses: fork copies everything, page_alloc      *)
(* gives zeroed memory, failed calls change nothing, and neither the reuse *)
(* of a page after an exit nor a reset shows through.                      *)
(***************************************************************************)
THEOREM Implements == ASSUME ~ Remap PROVE Spec /\ []LoadsInPlace => Isolation
<1> DEFINE Inv == TypeOK /\ Control /\ KernelThere /\ Accounting /\ Contents
<1>1. Init => Inv
  BY TypeInit, ControlInit, ThereInit, AccountingInit, ContentsInit
<1>2. Inv /\ LoadsInPlace /\ [Next]_vars => Inv'
  <2> SUFFICES ASSUME Inv, LoadsInPlace, [Next]_vars PROVE Inv'
    OBVIOUS
  <2>1. TypeOK' /\ Control' /\ KernelThere'
    BY TypeNext, ControlNext, ThereNext
  <2>2. Pages' /\ Rooted' /\ Unmapped'
    BY PagesNext, RootedNext, UnmappedNext DEF Accounting
  <2>3. Contents'
    BY ContentsNext DEF Accounting
  <2> QED
    BY <2>1, <2>2, <2>3 DEF Accounting
<1>3. Inv /\ LoadsInPlace /\ [Next]_vars => [Abstract!Next]_(Abstract!svars)
  BY StepRefines DEF Accounting
<1>4. Init => Abstract!Init
  BY InitRefines
<1> HIDE DEF Inv
<1> QED
  BY <1>1, <1>2, <1>3, <1>4, PTL DEF Spec, Isolation, Abstract!Spec

-----------------------------------------------------------------------------
(***************************************************************************)
(* When there is memory enough to boot.  process_setup does not look at    *)
(* what kalloc returns (kernel.cc:211, 235), asserts that its page tables  *)
(* could be built, and copies a segment of the program as if its pages lay *)
(* one after another (kernel.cc:226); memshow asserts that it gets a page. *)
(* What follows counts the pages that boot takes, and derives from bounds  *)
(* on the constants alone that none of it goes wrong.                      *)
(***************************************************************************)

InSetup == {"setup_root", "setup", "setup_stack"}

\* From a reset to the first entry into the kernel, when the memory viewer
\* gets its page.
Early == pc \in InSetup \/ (pc = "user" /\ mv = NoPage)

\* What process_setup takes for a process: page tables for the kernel's part
\* and for the program, the program's pages and its stack.
UsedNode == UNION {Path(v) : v \in (0 .. PROC_START - 1) \cup Used}
Need == Cardinality(UsedNode) + Cardinality(Used)

\* Memory is enough for the processes of any boot command and the viewer.
Roomy == \A n \in BootCounts : n * Need < Cardinality(Allocatable)

\* Until then only the booted slots own pages, and only those they need.
OnlyBoot ==
    Early =>
        /\ mv = NoPage
        /\ pc # "user" => pid \in 1 .. nboot
        /\ \A p \in Pid : p \notin 1 .. nboot => tab[p] = NoTable /\ pt[p] = NoMap
        /\ \A p \in Pid, n \in Node : tab[p][n] # NoPage => n \in UsedNode
        /\ \A p \in Pid, v \in UVA : pt[p][v].pa # NoPage => v \in Used

\* After the first entry the viewer has its page.
Viewed == pc \notin InSetup \cup {"user"} \cup Dead => mv # NoPage

\* The accounting is exact until then, whatever programs will do later.
EarlyPages == Early => Pages

BootInv == OnlyBoot /\ Viewed /\ EarlyPages /\ NeverWild
-----------------------------------------------------------------------------
\* The steps between a reset and the first entry.
EarlyStep == \/ SetupRoot \/ SetupPage \/ SetupTable \/ SetupMap \/ SetupSkip \/ SetupCopy
             \/ SetupDone \/ \E v \in VA, c \in Val : UserWrite(v, c)

\* What happens in the kernel later leads neither back to boot nor to a state
\* without viewer, except by a reset.
LEMMA ViewedNext ==
    ASSUME Viewed, [Next]_vars
    PROVE  Viewed' /\ (Early' => (Early /\ (EarlyStep \/ UNCHANGED vars)) \/ Reset)
<1> DEFINE P == Viewed' /\ (Early' => (Early /\ (EarlyStep \/ UNCHANGED vars)) \/ Reset)
<1> SUFFICES P
  OBVIOUS
<1> USE DEF Viewed, Early, InSetup, Dead, memory, tables, procs, locals
<1>1. CASE Boot
  <2>1. SetupNull => pc' \in {"wild", "assert"}
    BY DEF SetupNull
  <2>2. ~ SetupNull => EarlyStep /\ pc \in InSetup /\ pc' \in InSetup \cup {"user"}
    BY <1>1 DEF Boot, EarlyStep, SetupRoot, SetupPage, SetupPageDue, SetupTable, SetupMap,
                SetupMapping, SetupSkip, SetupCopy, SetupDone
  <2> QED BY <2>1, <2>2
<1>2. CASE Getpid \/ Yield \/ TimerTick \/ PageFault \/ Panic \/ SchedTry
  <2>1. /\ pc \in {"getpid", "yield", "timer", "fault", "sys_panic", "sched"}
        /\ pc' \in {"user", "sched", "panic"} /\ mv' = mv
    BY <1>2 DEF Getpid, Yield, TimerTick, PageFault, Panic, Return, Schedule, SchedTry
  <2> QED BY <2>1
<1>3. CASE PageAllocStep
  <2>1. pc \in {"page_alloc", "pa_map"} /\ pc' \in {"user", "pa_map"} /\ mv' = mv
    BY <1>3 DEF PageAllocStep, PageAllocBad, PageAlloc, PageAllocTable, PageAllocFails,
                PageAllocMap, Return
  <2> QED BY <2>1
<1>4. CASE ForkStep
  <2>1. pc \in {"fork", "fork_root", "fork_va", "pfree_pt"} /\ mv' = mv
    BY <1>4 DEF ForkStep, Fork, ForkNoSlot, ForkRoot, ForkNoRoot, ForkCopy, ForkTable,
                ForkMap, ForkMapping, ForkSkip, ForkFails, ForkUndo, ForkDone, ForkUndone, Return
  <2>2. pc' \in {"user", "fork_root", "fork_va", "pfree_va"}
    BY <1>4 DEF ForkStep, Fork, ForkNoSlot, ForkRoot, ForkNoRoot, ForkCopy, ForkTable,
                ForkMap, ForkMapping, ForkSkip, ForkFails, ForkUndo, ForkDone, ForkUndone, Return
  <2> QED BY <2>1, <2>2
<1>5. CASE ExitStep
  <2>1. /\ pc \in {"exit", "pfree_va", "pfree_pt"} /\ pc' \in {"pfree_va", "pfree_pt", "sched"}
        /\ mv' = mv
    BY <1>5 DEF ExitStep, Exit, PfreeVa, PfreeVaDone, PfreeTable, ExitDone, Schedule
  <2> QED BY <2>1
<1>6. CASE UserStep \/ Timer
  <2>1. CASE \E v \in VA, c \in Val : UserWrite(v, c)
    BY <2>1 DEF UserWrite, EarlyStep
  <2>2. CASE ~ \E v \in VA, c \in Val : UserWrite(v, c)
    <3>1. PICK op \in Ops : \E v : Enter(op, v)
      BY <1>6, <2>2 DEF UserStep, Timer, Ops
    <3>2. pc' = "assert" \/ (pc' = op /\ mv' # NoPage)
      BY <3>1, Constants DEF Enter
    <3> QED BY <3>2 DEF Ops
  <2> QED BY <2>1, <2>2
<1>7. CASE Reboot
  BY <1>7 DEF Reboot, Reset
<1>8. CASE Poweroff
  BY <1>8 DEF Poweroff
<1>9. CASE UNCHANGED vars
  BY <1>9 DEF vars
<1> HIDE DEF P
<1> QED
  BY <1>1, <1>2, <1>3, <1>4, <1>5, <1>6, <1>7, <1>8, <1>9 DEF Next, KernelStep, Stopped

\* process_setup works on its own slot, on the addresses it needs.
LEMMA OnlyBootNext ==
    ASSUME TypeOK, Control, OnlyBoot, Viewed, [Next]_vars
    PROVE  OnlyBoot'
<1> SUFFICES ASSUME Early' PROVE OnlyBoot'
  BY DEF OnlyBoot
<1> USE DEF memory, tables, procs, locals
<1>1. (Early /\ (EarlyStep \/ UNCHANGED vars)) \/ Reset
  BY ViewedNext
<1>2. CASE Reset
  <2>1. nboot' >= 1 /\ nboot' \in Int
    BY <1>2, ProgramAssumption, SizeAssumption DEF Reset
  <2> QED
    BY <1>2, <2>1, HighFacts DEF OnlyBoot, Reset, Zeroed, NoTable, NoMap, NoEntry
<1>3. CASE Early /\ UNCHANGED <<mv, pc, pid, nboot, tab, pt>>
  BY <1>3 DEF OnlyBoot, Early
<1>4. CASE Early /\ EarlyStep
  <2>1. /\ mv = NoPage /\ (pc # "user" => pid \in 1 .. nboot) /\ pid \in Pid
        /\ \A p \in Pid : p \notin 1 .. nboot => tab[p] = NoTable /\ pt[p] = NoMap
        /\ \A p \in Pid, n \in Node : tab[p][n] # NoPage => n \in UsedNode
        /\ \A p \in Pid, v \in UVA : pt[p][v].pa # NoPage => v \in Used
    BY <1>4 DEF OnlyBoot, TypeOK
  <2>2. CASE SetupPage \/ SetupCopy \/ SetupSkip \/ \E v \in VA, c \in Val : UserWrite(v, c)
    <3>1. UNCHANGED <<mv, pc, pid, nboot, tab, pt>>
          \/ (UNCHANGED <<mv, pid, nboot, tab, pt>> /\ pc = "setup" /\ pc' = "setup_stack")
      BY <2>2 DEF SetupPage, SetupCopy, SetupSkip, UserWrite
    <3> QED BY <1>4, <2>1, <3>1 DEF OnlyBoot
  <2>3. CASE SetupRoot
    <3>1. /\ pc = "setup_root" /\ UNCHANGED <<mv, pid, nboot, pt>> /\ pc' = "setup"
          /\ \E pa \in PA : tab' = [tab EXCEPT ![pid][0] = pa]
      BY <2>3 DEF SetupRoot
    <3>2. 0 \in UsedNode
      BY SizeAssumption DEF UsedNode, Path
    <3>3. \A p \in Pid : /\ p # pid => tab'[p] = tab[p]
                         /\ \A n \in Node : tab'[p][n] # NoPage => n \in UsedNode
      BY <2>1, <3>1, <3>2 DEF TypeOK
    <3> QED BY <2>1, <3>1, <3>3 DEF OnlyBoot
  <2>4. CASE SetupTable
    <3>1. /\ SetupMapping /\ UNCHANGED <<mv, pid, nboot, pt, pc>>
          /\ \E n \in Path(va), pa \in PA : tab' = [tab EXCEPT ![pid][n] = pa]
      BY <2>4 DEF SetupTable, MapTable, Missing
    <3>2. va \in (0 .. PROC_START - 1) \cup Used
      BY <3>1, SizeAssumption DEF SetupMapping, Control, InHand, Dead, Freeing, Used, TypeOK
    <3>3. Path(va) \subseteq UsedNode
      BY <3>2 DEF UsedNode
    <3>4. \A p \in Pid : /\ p # pid => tab'[p] = tab[p]
                         /\ \A n \in Node : tab'[p][n] # NoPage => n \in UsedNode
      BY <2>1, <3>1, <3>3 DEF TypeOK
    <3> QED BY <2>1, <3>1, <3>4 DEF OnlyBoot, SetupMapping
  <2>5. CASE SetupMap
    <3>1. /\ SetupMapping /\ UNCHANGED <<mv, pid, nboot, tab, pc>> /\ va \in VA
          /\ MapEntry(pid, va, SetupEntry(va))
      BY <2>5, Constants DEF SetupMap, SetupMapping, TypeOK
    <3>2. va \in UVA => va \in Used
      BY <3>1, HighFacts, SizeAssumption DEF SetupMapping, Control, InHand, Dead, Freeing, Used, TypeOK
    <3>3. \A p \in Pid : p # pid => pt'[p] = pt[p]
      BY <3>1 DEF MapEntry, TypeOK
    <3>4. \A p \in Pid, v \in UVA : pt'[p][v].pa # NoPage => v \in Used
      BY <2>1, <3>1, <3>2, Written, HighFacts
    <3> QED BY <2>1, <3>1, <3>3, <3>4 DEF OnlyBoot, SetupMapping
  <2>6. CASE SetupDone
    <3>1. /\ pc = "setup_stack" /\ UNCHANGED <<mv, nboot, tab, pt>>
          /\ pc' # "user" => pid < nboot /\ pid' = pid + 1
      BY <2>6 DEF SetupDone
    <3>2. pc' # "user" => pid' \in 1 .. nboot
      BY <2>1, <3>1, Constants DEF TypeOK
    <3> QED BY <2>1, <3>1, <3>2 DEF OnlyBoot
  <2> QED
    BY <1>4, <2>2, <2>3, <2>4, <2>5, <2>6 DEF EarlyStep
<1> QED
  BY <1>1, <1>2, <1>3, <1>4 DEF vars

\* No program has called page_alloc yet.
LEMMA EarlyPagesNext ==
    ASSUME TypeOK, Control, Rooted, Viewed, EarlyPages, [Next]_vars
    PROVE  EarlyPages'
<1> SUFFICES ASSUME Early' PROVE Pages'
  BY DEF EarlyPages
<1>1. CASE Reset
  <2>1. Unowned' /\ TypeOK'
    BY <1>1, TypeNext DEF Reset, Zeroed, Unowned
  <2> QED
    BY <2>1, NoPages, PTL
<1>2. CASE Early
  <2>1. Accounting
    BY <1>2 DEF EarlyPages, Accounting, Unmapped, Early, InSetup
  <2> QED
    BY <2>1, PagesNext
<1> QED
  BY <1>1, <1>2, ViewedNext

(***************************************************************************)
(* In any set of more pages than boot needs one is free until the viewer   *)
(* has its page: whoever uses a page is a node or a program page of a      *)
(* booted slot.                                                            *)
(***************************************************************************)
LEMMA Spare ==
    ASSUME TypeOK, Control, Pages, OnlyBoot, Early,
           NEW F \in SUBSET Allocatable, nboot * Need < Cardinality(F)
    PROVE  \E pa \in F : refcount[pa] = 0
<1> SUFFICES ASSUME \A pa \in F : refcount[pa] # 0 PROVE FALSE
  OBVIOUS
<1> DEFINE B == 1 .. nboot
           f == [x \in B \X UsedNode |-> tab[x[1]][x[2]]]
           g == [x \in B \X Used |-> IF x = <<pid, va>> /\ held # NoPage THEN held
                                     ELSE pt[x[1]][x[2]].pa]
           S == {f[x] : x \in B \X UsedNode}
           T == {g[x] : x \in B \X Used}
<1>1. /\ mv = NoPage /\ (pc # "user" => pid \in B) /\ B \subseteq Pid
      /\ \A p \in Pid : p \notin B => tab[p] = NoTable /\ pt[p] = NoMap
      /\ \A p \in Pid, n \in Node : tab[p][n] # NoPage => n \in UsedNode
      /\ \A p \in Pid, v \in UVA : pt[p][v].pa # NoPage => v \in Used
  BY ProgramAssumption, SizeAssumption DEF OnlyBoot, TypeOK, Pid
<1>2. held # NoPage => pc # "user" /\ va \in Used /\ pt[pid][va].pa = NoPage
  <2> SUFFICES ASSUME held # NoPage PROVE pc # "user" /\ va \in Used /\ pt[pid][va].pa = NoPage
    OBVIOUS
  <2>1. pc \in {"setup", "setup_stack"} /\ va \in Used
    BY DEF Control, InHand, Early, InSetup, Dead, Freeing, Used
  <2>2. va \in VA /\ va >= va
    BY <2>1, HighFacts
  <2>3. pt[pid][va] = NoEntry
    BY <2>1, <2>2 DEF Control, Progress, Building
  <2> QED BY <2>1, <2>3 DEF NoEntry
<1>3. F \subseteq S \cup T
  <2> SUFFICES ASSUME NEW pa \in F PROVE pa \in S \cup T
    OBVIOUS
  <2>1. pa \in Allocatable /\ pa \in PA /\ pa # NoPage
    BY Constants
  <2>2. Refs(pa) # 0
    BY <2>1 DEF Pages, RefcountExact
  <2>3. TabRefs(pa) # {} \/ MapRefs(pa) # {} \/ held = pa
    <3>1. Cardinality({}) = 0
      BY FS_EmptySet
    <3>2. mv # pa
      BY <1>1, <2>1
    <3> QED
      BY <2>2, <3>1, <3>2 DEF Refs, Bit
  <2>4. CASE TabRefs(pa) # {}
    <3>1. PICK p \in Pid, n \in Node : tab[p][n] = pa
      BY <2>4 DEF TabRefs
    <3>2. p \in B /\ n \in UsedNode
      BY <1>1, <2>1, <3>1 DEF NoTable
    <3>3. <<p, n>> \in B \X UsedNode /\ f[<<p, n>>] = pa
      BY <3>1, <3>2
    <3> QED BY <3>3
  <2>5. CASE held = pa
    <3>1. <<pid, va>> \in B \X Used /\ g[<<pid, va>>] = pa
      BY <1>1, <1>2, <2>1, <2>5
    <3> QED BY <3>1
  <2>6. CASE MapRefs(pa) # {}
    <3>1. PICK p \in Pid, v \in VA : Counted(v, pt[p][v]) /\ pt[p][v].pa = pa
      BY <2>6 DEF MapRefs
    <3>2. v \in UVA
      BY <3>1, HighFacts, SizeAssumption
         DEF Control, LowMappings, KernelEntry, NoEntry, Counted, User, VA
    <3>3. p \in B /\ v \in Used
      BY <1>1, <2>1, <3>1, <3>2 DEF NoMap, NoEntry
    <3>4. <<p, v>> \in B \X Used /\ g[<<p, v>>] = pa
      BY <1>2, <2>1, <3>1, <3>3
    <3> QED BY <3>4
  <2> QED BY <2>3, <2>4, <2>5, <2>6
<1>4. IsFiniteSet(B) /\ Cardinality(B) = nboot /\ nboot \in Nat
  BY ProgramAssumption, SizeAssumption, FS_Interval DEF TypeOK
<1>5. IsFiniteSet(UsedNode) /\ IsFiniteSet(Used)
  <2>1. IsFiniteSet(Node) /\ IsFiniteSet(VA)
    <3>1. 2 + NL1 \in Int /\ NVA - 1 \in Int
      BY SizeAssumption DEF NL1
    <3> QED
      BY <3>1, FS_Interval DEF Node, VA
  <2>2. UsedNode \in SUBSET Node /\ Used \in SUBSET VA
    <3>1. \A v \in VA : Path(v) \subseteq Node
      BY SizeAssumption DEF VA, Path, Node, L1, NL1
    <3> QED
      BY <3>1, HighFacts, SizeAssumption DEF UsedNode, VA
  <2> QED BY <2>1, <2>2, FS_Subset
<1>6. /\ IsFiniteSet(B \X UsedNode) /\ Cardinality(B \X UsedNode) = nboot * Cardinality(UsedNode)
      /\ IsFiniteSet(B \X Used) /\ Cardinality(B \X Used) = nboot * Cardinality(Used)
  BY <1>4, <1>5, FS_Product
<1>7. /\ IsFiniteSet(S) /\ Cardinality(S) <= nboot * Cardinality(UsedNode)
      /\ IsFiniteSet(T) /\ Cardinality(T) <= nboot * Cardinality(Used)
  <2>1. f \in Surjection(B \X UsedNode, S) /\ g \in Surjection(B \X Used, T)
    BY DEF Surjection
  <2> QED
    BY <1>6, <2>1, FS_Surjection
<1>8. Cardinality(F) <= Cardinality(S) + Cardinality(T)
  <2> HIDE DEF S, T
  <2>1. /\ IsFiniteSet(S \cup T)
        /\ Cardinality(S \cup T) = Cardinality(S) + Cardinality(T) - Cardinality(S \cap T)
    BY <1>7, FS_Union
  <2>2. IsFiniteSet(S \cap T)
    BY <1>7, FS_Intersection
  <2>3. Cardinality(S \cap T) \in Nat /\ Cardinality(S) \in Nat /\ Cardinality(T) \in Nat
    BY <1>7, <2>2, FS_CardinalityType
  <2>4. IsFiniteSet(F) /\ Cardinality(F) <= Cardinality(S \cup T)
    BY <1>3, <2>1, FS_Subset
  <2>5. Cardinality(F) \in Nat
    BY <2>4, FS_CardinalityType
  <2> QED
    BY <2>1, <2>3, <2>4, <2>5
<1>9. IsFiniteSet(F)
  <2> HIDE DEF S, T
  <2> QED BY <1>3, <1>7, FS_Union, FS_Subset
<1>10. /\ Cardinality(UsedNode) \in Nat /\ Cardinality(Used) \in Nat /\ Cardinality(F) \in Nat
       /\ Cardinality(S) \in Nat /\ Cardinality(T) \in Nat
  BY <1>5, <1>7, <1>9, FS_CardinalityType
<1>11. \A n, a, b \in Nat : n * (a + b) = n * a + n * b
  OBVIOUS
<1>12. \A n, a, b, x, y, z \in Nat : x <= n * a /\ y <= n * b /\ z <= x + y => ~ n * (a + b) < z
  BY <1>11
<1> HIDE DEF S, T
<1> QED
  BY <1>4, <1>7, <1>8, <1>10, <1>12 DEF Need

\* The only failures are process_setup's and memshow's.
LEMMA WildNext ==
    ASSUME TypeOK, Control, OnlyBoot, EarlyPages, NeverWild, Roomy, [Next]_vars
    PROVE  NeverWild'
<1>1. ~ (Early /\ KallocNull)
  <2> SUFFICES ASSUME Early PROVE \E pa \in PA : Usable(pa)
    BY DEF KallocNull
  <2>1. \E pa \in Allocatable : refcount[pa] = 0
    BY Spare DEF EarlyPages, Roomy, TypeOK
  <2> QED
    BY <2>1, Constants DEF Usable
<1> USE DEF NeverWild, memory, tables, procs, locals
<1>2. CASE Boot
  <2>1. SetupNull => Early /\ KallocNull
    BY DEF SetupNull, SetupPageDue, SetupMapping, Early, InSetup
  <2>2. SetupRoot \/ SetupPage \/ SetupTable \/ SetupMap \/ SetupSkip \/ SetupCopy \/ SetupDone
            => pc' \in {"setup_root", "setup", "setup_stack", "user"}
    BY DEF SetupRoot, SetupPage, SetupPageDue, SetupTable, SetupMap, SetupMapping, SetupSkip,
           SetupCopy, SetupDone
  <2> QED BY <1>1, <1>2, <2>1, <2>2 DEF Boot
<1>3. CASE Getpid \/ Yield \/ TimerTick \/ PageFault \/ Panic \/ SchedTry
  BY <1>3 DEF Getpid, Yield, TimerTick, PageFault, Panic, Return, Schedule, SchedTry
<1>4. CASE PageAllocStep
  BY <1>4 DEF PageAllocStep, PageAllocBad, PageAlloc, PageAllocTable, PageAllocFails,
              PageAllocMap, Return
<1>5. CASE ForkStep
  BY <1>5 DEF ForkStep, Fork, ForkNoSlot, ForkRoot, ForkNoRoot, ForkCopy, ForkTable,
              ForkMap, ForkMapping, ForkSkip, ForkFails, ForkUndo, ForkDone, ForkUndone, Return
<1>6. CASE ExitStep
  BY <1>6 DEF ExitStep, Exit, PfreeVa, PfreeVaDone, PfreeTable, ExitDone, Schedule
<1>7. CASE UserStep \/ Timer
  <2>1. CASE \E v \in VA, c \in Val : UserWrite(v, c)
    BY <2>1 DEF UserWrite
  <2>2. CASE ~ \E v \in VA, c \in Val : UserWrite(v, c)
    <3>1. PICK op \in Ops : \E v : Enter(op, v)
      BY <1>7, <2>2 DEF UserStep, Timer, Ops
    <3>2. pc' = op \/ (Early /\ KallocNull)
      BY <3>1 DEF Enter, Early
    <3> QED BY <1>1, <3>2 DEF Ops
  <2> QED BY <2>1, <2>2
<1>8. CASE Reboot \/ Poweroff \/ UNCHANGED vars
  BY <1>8 DEF Reboot, Reset, Poweroff, vars
<1> QED
  BY <1>2, <1>3, <1>4, <1>5, <1>6, <1>7, <1>8 DEF Next, KernelStep, Stopped

\* There are no references in the first state.
LEMMA BootInvInit == Init => BootInv
<1> SUFFICES ASSUME Init PROVE BootInv
  OBVIOUS
<1>1. Pages
  BY AccountingInit DEF Accounting
<1>2. nboot >= 1 /\ nboot \in Int
  BY ProgramAssumption, SizeAssumption DEF Init
<1>3. OnlyBoot
  BY <1>2, HighFacts DEF Init, OnlyBoot, NoTable, NoMap, NoEntry
<1> QED
  BY <1>1, <1>3 DEF Init, BootInv, Viewed, EarlyPages, InSetup, NeverWild

(***************************************************************************)
(* With memory for the processes that a boot command starts and one page   *)
(* more, kalloc never fails process_setup or memshow: no null root or page *)
(* is used (kernel.cc:176, 211, 235), and the assertions of vmiter::map    *)
(* and memshow hold, whatever programs do and however often the machine is *)
(* reset.                                                                  *)
(***************************************************************************)
THEOREM BootFits == ASSUME Roomy PROVE Spec => []NeverWild
<1> DEFINE Inv == TypeOK /\ Control /\ KernelThere /\ Rooted /\ BootInv
<1>1. Init => Inv
  BY TypeInit, ControlInit, ThereInit, AccountingInit, BootInvInit DEF Accounting
<1>2. Inv /\ [Next]_vars => Inv'
  <2> SUFFICES ASSUME Inv, [Next]_vars PROVE Inv'
    OBVIOUS
  <2>1. TypeOK' /\ Control' /\ KernelThere' /\ Rooted'
    BY TypeNext, ControlNext, ThereNext, RootedNext
  <2>2. Viewed' /\ OnlyBoot' /\ EarlyPages' /\ NeverWild'
    BY ViewedNext, OnlyBootNext, EarlyPagesNext, WildNext DEF BootInv
  <2> QED
    BY <2>1, <2>2 DEF BootInv
<1>3. Inv => NeverWild
  BY DEF BootInv
<1> HIDE DEF Inv
<1> QED
  BY <1>1, <1>2, <1>3, PTL DEF Spec

-----------------------------------------------------------------------------
(* Where the pages of a segment lie. *)

\* Bounds under which process_setup's copying is right: a segment is one page,
\* or segments share the kernel's level-1 page table, and boot finds its memory
\* below a first hole (such as the kernel's image) in what kalloc hands out.
OnePage == \A seg \in {Text, Data} : \A v, w \in seg : v = w
Below(hi) == {pa \in Allocatable : pa <= hi}
FitsBelow(hi) ==
    /\ \A seg \in {Text, Data} : \A v, w \in seg : v .. w \subseteq seg
    /\ \A v \in Text \cup Data : L1(v) = L1(0)
    /\ \A pa \in Allocatable, q \in Below(hi) : pa .. q \subseteq Allocatable
    /\ \A n \in BootCounts : n * Need < Cardinality(Below(hi))
SegmentsFit == OnePage \/ \E hi \in PA : FitsBelow(hi)

\* Boot takes pages from below.
Packed ==
    pc \in InSetup =>
        \A pa, q \in Allocatable : refcount[pa] = 0 /\ refcount[q] > 0 => q < pa

\* m is the last page taken.
UpTo(m) == \A q \in Allocatable : refcount[q] > 0 => q <= m

\* A segment's pages lie one after another, as far as the loop has come.
InARow(seg) ==
    /\ \A v, w \in seg : v < va /\ w < va => pt[pid][w].pa = pt[pid][v].pa + (w - v)
    /\ va \in seg /\ held # NoPage => UpTo(held)
    /\ \A v \in seg : v + 1 = va /\ va \in seg =>
            IF held = NoPage THEN UpTo(pt[pid][v].pa) ELSE held = pt[pid][v].pa + 1
Rows == pc = "setup" => InARow(Text) /\ InARow(Data)

\* Pages in a row are where process_setup copies to.
LEMMA RowLoaded ==
    ASSUME TypeOK, NEW seg \in SUBSET UVA,
           \A v \in seg : pt[pid][v].pa # NoPage,
           \A v, w \in seg : pt[pid][w].pa = pt[pid][v].pa + (w - v)
    PROVE  Loaded(seg) = {pt[pid][v].pa : v \in seg}
<1>1. ASSUME NEW v \in seg PROVE pt[pid][v].pa \in PA
  <2>1. v \in VA /\ pid \in Pid /\ pt \in [Pid -> [VA -> Entry]]
    BY HighFacts DEF TypeOK
  <2>2. pt[pid][v] \in Entry
    BY <2>1
  <2>3. pt[pid][v].pa \in PA \cup {NoPage}
    BY <2>2, Constants2
  <2> QED BY <2>3
<1>2. ASSUME NEW w \in seg PROVE pt[pid][w].pa \in Loaded(seg)
  <2>1. PICK v \in seg : \A s \in seg : v <= s
    BY <1>2, HighFacts, Least
  <2>2. pt[pid][w].pa = pt[pid][v].pa + (w - v) /\ pt[pid][w].pa \in PA
    BY <1>1
  <2> QED
    BY <2>1, <2>2 DEF Loaded
<1>3. ASSUME NEW pa \in Loaded(seg) PROVE pa \in {pt[pid][v].pa : v \in seg}
  <2>1. PICK v \in seg, w \in seg : pa = pt[pid][v].pa + (w - v)
    BY <1>3 DEF Loaded
  <2>2. pt[pid][w].pa = pa
    BY <2>1
  <2> QED BY <2>2
<1> QED
  BY <1>2, <1>3

\* A segment of one page, or of pages in a row, is where load() copies it to.
LEMMA InPlace ==
    ASSUME TypeOK, Loading, OnePage \/ Rows
    PROVE  LoadsInPlace
<1> SUFFICES ASSUME pc = "setup", va = Stack, NEW seg \in {Text, Data}
             PROVE  Loaded(seg) = {pt[pid][v].pa : v \in seg}
  BY DEF LoadsInPlace
<1>1. seg \in SUBSET UVA /\ \A v \in seg : v < va /\ v \in Used
  BY ProgramAssumption, SizeAssumption, HighFacts DEF Used, Stack, UVA
<1>2. \A v \in seg : pt[pid][v].pa # NoPage
  BY <1>1 DEF Loading
<1>3. \A v, w \in seg : pt[pid][w].pa = pt[pid][v].pa + (w - v)
  <2>1. CASE Rows
    BY <1>1, <2>1 DEF Rows, InARow
  <2>2. CASE OnePage
    <3> SUFFICES ASSUME NEW v \in seg, NEW w \in seg
                 PROVE  pt[pid][w].pa = pt[pid][v].pa + (w - v)
      OBVIOUS
    <3>1. v = w /\ v \in Int /\ pt[pid][v].pa \in Int
      BY <1>1, <2>2, HighFacts, Constants2 DEF OnePage, TypeOK, PA, NoPage
    <3> QED BY <3>1
  <2> QED BY <2>1, <2>2
<1> QED
  BY <1>1, <1>2, <1>3, RowLoaded

\* kalloc's first fit leaves no gap.
LEMMA ClaimPacked ==
    ASSUME TypeOK, pc \in InSetup, Packed, NEW pa \in PA, NEW c, KallocGets(pa), Claim(pa, c)
    PROVE  /\ \A p, q \in Allocatable : refcount'[p] = 0 /\ refcount'[q] > 0 => q < p
           /\ \A q \in Allocatable : refcount'[q] > 0 => q <= pa
           /\ pa \in Allocatable /\ \A q \in Allocatable : refcount[q] > 0 => q < pa
<1>1. pa \in Allocatable /\ refcount[pa] = 0 /\ \A q \in Allocatable : refcount[q] = 0 => pa <= q
  BY Constants DEF KallocGets, Usable, PA
<1>2. refcount'[pa] = 1 /\ \A q \in PA : q # pa => refcount'[q] = refcount[q]
  BY DEF Claim, TypeOK
<1>3. \A q \in Allocatable : refcount[q] > 0 => q < pa
  BY <1>1 DEF Packed
<1>4. Allocatable \subseteq Int /\ Allocatable \subseteq PA /\ pa \in Int
  BY Constants DEF PA
<1> QED
  BY <1>1, <1>2, <1>3, <1>4

\* While processes are set up nothing is freed, and the lowest free page is taken.
LEMMA PackedNext ==
    ASSUME TypeOK, Viewed, Packed, [Next]_vars
    PROVE  Packed'
<1> SUFFICES ASSUME pc' \in InSetup
             PROVE  \A p, q \in Allocatable : refcount'[p] = 0 /\ refcount'[q] > 0 => q < p
  BY DEF Packed
<1> USE DEF memory, InSetup
<1>1. CASE Reset
  BY <1>1, Constants DEF Reset, Zeroed
<1>2. CASE UNCHANGED <<refcount, pc>>
  BY <1>2 DEF Packed
<1>3. CASE EarlyStep
  <2>1. CASE SetupRoot \/ SetupPage \/ SetupTable
    <3>1. pc \in InSetup /\ \E pa \in PA : KallocGets(pa) /\ \E c : Claim(pa, c)
      BY <2>1 DEF SetupRoot, SetupPage, SetupPageDue, SetupTable, SetupMapping, MapTable
    <3> QED BY <3>1, ClaimPacked
  <2>2. CASE SetupMap \/ SetupSkip \/ SetupCopy \/ SetupDone
    <3>1. pc \in InSetup /\ UNCHANGED refcount
      BY <2>2 DEF SetupMap, SetupMapping, SetupSkip, SetupCopy, SetupDone
    <3> QED BY <3>1 DEF Packed
  <2> QED BY <1>2, <1>3, <2>1, <2>2 DEF EarlyStep, UserWrite
<1>4. Early'
  BY DEF Early
<1> QED
  BY <1>1, <1>2, <1>3, <1>4, ViewedNext DEF vars

\* The next page of a segment is the one after the last.
LEMMA RowsNext ==
    ASSUME TypeOK, Control, KernelThere, Pages, HighUser, Loading, OnlyBoot, Packed, Rows,
           NEW hi \in PA, FitsBelow(hi), [Next]_vars
    PROVE  Rows'
<1> SUFFICES ASSUME pc' = "setup", NEW seg \in {Text, Data} PROVE InARow(seg)'
  BY DEF Rows
<1>1. /\ seg \subseteq UVA /\ seg \subseteq Text \cup Data /\ \A v \in seg : v \in Int /\ v >= PROC_START
      /\ va \in Int /\ PROC_START \in Int /\ PROC_START > 0
  BY ProgramAssumption, SizeAssumption, HighFacts DEF Used, UVA, TypeOK
<1>2. CASE SetupRoot
  BY <1>1, <1>2 DEF SetupRoot, InARow
<1>3. CASE SetupPage
  <2>1. PICK pa \in PA : KallocGets(pa) /\ Claim(pa, CC) /\ held' = pa
    BY <1>3 DEF SetupPage
  <2>2. /\ pc = "setup" /\ held = NoPage /\ va \in Text \cup Data /\ UNCHANGED <<pt, pid, va>>
    BY <1>3 DEF SetupPage, SetupPageDue, tables
  <2>3. /\ UpTo(pa)' /\ pa \in Allocatable /\ \A q \in Allocatable : refcount[q] > 0 => q < pa
    BY <2>1, <2>2, ClaimPacked DEF InSetup, UpTo
  <2>4. InARow(seg) /\ pa # NoPage /\ pid \in Pid
    BY <2>2, Constants DEF Rows, TypeOK
  <2>5. ASSUME NEW v \in seg, v + 1 = va, va \in seg
        PROVE  pa = pt[pid][v].pa + 1
    <3> DEFINE m == pt[pid][v].pa
    <3>1. UpTo(m)
      BY <2>2, <2>4, <2>5 DEF InARow
    <3>2. v \in UVA /\ v \in Used /\ v < va /\ v \in VA
      BY <1>1, <2>5, HighFacts DEF Used
    <3>3. m # NoPage
      BY <2>2, <3>2 DEF Loading
    <3>4. m \in Allocatable
      BY <2>4, <3>2, <3>3, HighFacts DEF Control, HighMappings
    <3>5. refcount[m] # 0
      BY <2>4, <3>2, <3>4, HighOwn, Unused
    <3>6. refcount[m] > 0
      BY <3>4, <3>5, Constants DEF TypeOK
    <3>7. m < pa /\ m \in Int /\ pa \in Int
      <4>1. m \in PA
        BY <3>4, Constants
      <4>2. PA \subseteq Int
        BY SizeAssumption DEF PA
      <4>3. m < pa
        BY <2>3, <3>4, <3>6
      <4> QED BY <4>1, <4>2, <4>3
    <3>8. PICK r \in Below(hi) : refcount[r] = 0
      <4>1. Early /\ nboot * Need < Cardinality(Below(hi)) /\ Below(hi) \in SUBSET Allocatable
        BY <2>2 DEF Early, InSetup, FitsBelow, TypeOK, Below
      <4> QED BY <4>1, Spare
    <3>9. pa <= r /\ r <= hi /\ r \in Int /\ hi \in Int
      BY <2>1, <3>8, Constants DEF KallocGets, Usable, Below, PA
    <3>10. pa \in Below(hi)
      BY <2>3, <3>7, <3>9 DEF Below
    <3>11. m + 1 \in m .. pa
      BY <3>7
    <3>12. m + 1 \in Allocatable
      BY <3>4, <3>10, <3>11 DEF FitsBelow
    <3>13. refcount[m + 1] = 0
      <4>1. ~ (refcount[m + 1] > 0)
        BY <3>1, <3>7, <3>12 DEF UpTo
      <4> QED BY <3>12, <4>1, Constants, SizeAssumption DEF TypeOK
    <3>14. pa <= m + 1
      BY <2>1, <3>7, <3>12, <3>13, Constants DEF KallocGets, Usable, PA
    <3> QED BY <3>7, <3>14
  <2> QED
    BY <2>1, <2>2, <2>3, <2>4, <2>5 DEF InARow
<1>4. CASE SetupTable
  <2>1. /\ pc = "setup" /\ MapTable(pid, va) /\ SetupMapping /\ UNCHANGED <<pt, pid, va, held>>
    BY <1>4 DEF SetupTable, locals
  <2>2. va < PROC_START
    <3> SUFFICES ASSUME ~ (va < PROC_START) PROVE FALSE
      OBVIOUS
    <3>1. va \in Text \cup Data
      BY <2>1 DEF SetupMapping, Control, InHand, Dead, Freeing
    <3>2. Path(va) = Path(0)
      BY <3>1 DEF FitsBelow, Path
    <3>3. Linked(pid)
      BY <1>1, <2>1 DEF KernelThere, Building
    <3> QED
      BY <2>1, <3>2, <3>3 DEF MapTable, Missing, Linked
  <2> QED
    BY <1>1, <2>1, <2>2 DEF InARow
<1>5. CASE SetupSkip
  <2>1. /\ pc = "setup" /\ UNCHANGED <<pt, pid, held, refcount>> /\ va' = va + 1
        /\ va \notin Text \cup Data
    BY <1>5 DEF SetupSkip, tables, memory
  <2>2. held = NoPage
    BY <2>1 DEF Control, InHand, Dead, Freeing
  <2>3. InARow(seg)
    BY <2>1 DEF Rows
  <2> QED
    BY <1>1, <2>1, <2>2, <2>3 DEF InARow
<1>6. CASE SetupMap
  <2>1. /\ pc = "setup" /\ UNCHANGED <<pid, refcount>> /\ va' = va + 1 /\ held' = NoPage
        /\ MapEntry(pid, va, SetupEntry(va)) /\ va \in VA /\ pid \in Pid
    BY <1>6, Constants DEF SetupMap, SetupMapping, memory, TypeOK
  <2>2. InARow(seg)
    BY <2>1 DEF Rows
  <2>3. /\ pt'[pid][va] = SetupEntry(va)
        /\ \A w \in VA : w # va => pt'[pid][w] = pt[pid][w]
    BY <2>1, Written
  <2>4. va \in seg => /\ pt'[pid][va].pa = held /\ held # NoPage /\ UpTo(held)
                      /\ held \in Int
    BY <1>1, <1>6, <2>2, <2>3 DEF SetupEntry, SetupMap, SetupMapping, InARow, TypeOK, PA
  <2>5. \A v \in seg : v < va /\ va \in seg => held = pt[pid][v].pa + (va - v)
    <3> SUFFICES ASSUME NEW v \in seg, v < va, va \in seg
                 PROVE  held = pt[pid][v].pa + (va - v)
      OBVIOUS
    <3>1. va - 1 \in v .. va
      BY <1>1
    <3>2. va - 1 \in seg
      BY <3>1 DEF FitsBelow
    <3>3. held = pt[pid][va - 1].pa + 1
      BY <1>1, <2>2, <2>4, <3>2 DEF InARow
    <3>4. pt[pid][va - 1].pa = pt[pid][v].pa + (va - 1 - v)
      BY <1>1, <2>2, <3>2 DEF InARow
    <3>5. pt[pid][v].pa \in Int
      BY <1>1, <2>1, HighFacts, Constants2 DEF TypeOK, PA, NoPage
    <3>6. \A a, b, x \in Int : x + (b - 1 - a) + 1 = x + (b - a)
      OBVIOUS
    <3> HIDE DEF InARow
    <3>7. held = pt[pid][v].pa + (va - 1 - v) + 1
      BY <3>3, <3>4
    <3> QED BY <1>1, <3>5, <3>6, <3>7
  <2>6. \A v, w \in seg : v < va + 1 /\ w < va + 1 => pt'[pid][w].pa = pt'[pid][v].pa + (w - v)
    <3> SUFFICES ASSUME NEW v \in seg, NEW w \in seg, v < va + 1, w < va + 1
                 PROVE  pt'[pid][w].pa = pt'[pid][v].pa + (w - v)
      OBVIOUS
    <3>1. v \in VA /\ w \in VA /\ v \in Int /\ w \in Int
      BY <1>1, HighFacts
    <3>2. pt[pid][v].pa \in Int /\ pt[pid][w].pa \in Int
      BY <2>1, <3>1, Constants2 DEF TypeOK, PA, NoPage
    <3>3. CASE v # va /\ w # va
      BY <1>1, <2>2, <2>3, <3>1, <3>3 DEF InARow
    <3>4. CASE v # va /\ w = va
      BY <1>1, <2>3, <2>4, <2>5, <3>1, <3>4
    <3>5. CASE v = va /\ w # va
      <4>1. held = pt[pid][w].pa + (va - w)
        BY <1>1, <2>5, <3>1, <3>5
      <4> QED BY <1>1, <2>3, <2>4, <3>1, <3>2, <3>5, <4>1
    <3>6. CASE v = va /\ w = va
      BY <1>1, <2>4, <3>6
    <3> QED BY <3>3, <3>4, <3>5, <3>6
  <2>7. \A v \in seg : v + 1 = va + 1 => UpTo(pt[pid][v].pa)'
    BY <1>1, <2>1, <2>4 DEF UpTo
  <2> QED
    BY <2>1, <2>6, <2>7 DEF InARow
<1>7. CASE UNCHANGED vars
  BY <1>7 DEF vars, Rows, InARow, UpTo
<1>8. ~ SetupCopy
  BY DEF SetupCopy
<1> QED
  BY <1>2, <1>3, <1>4, <1>5, <1>6, <1>7, <1>8, Where

\* Under the bounds, process_setup copies every segment into its pages.
LEMMA InPlaceAlways == ASSUME ~ Remap, SegmentsFit PROVE Spec => []LoadsInPlace
<1> DEFINE Base == /\ TypeOK /\ Control /\ KernelThere /\ Accounting /\ HighUser /\ Loading
                   /\ OnlyBoot /\ Viewed /\ Packed
           Inv == Base /\ (OnePage \/ Rows)
<1>1. Init => Inv
  <2> SUFFICES ASSUME Init PROVE Inv
    OBVIOUS
  <2>1. TypeOK /\ Control /\ KernelThere /\ Accounting
    BY TypeInit, ControlInit, ThereInit, AccountingInit
  <2>2. HighUser /\ Loading /\ OnlyBoot /\ Viewed
    BY ContentsInit, BootInvInit DEF Contents, BootInv
  <2>3. Packed
    BY Constants DEF Init, Packed
  <2>4. Rows
    BY DEF Init, Rows
  <2> QED BY <2>1, <2>2, <2>3, <2>4
<1>2. Inv /\ [Next]_vars => Inv'
  <2> SUFFICES ASSUME Inv, [Next]_vars PROVE Inv'
    OBVIOUS
  <2>1. TypeOK' /\ Control' /\ KernelThere'
    BY TypeNext, ControlNext, ThereNext
  <2>2. Pages' /\ Rooted' /\ Unmapped'
    BY PagesNext, RootedNext, UnmappedNext DEF Accounting
  <2>3. HighUser' /\ Loading'
    BY HighUserNext, LoadingNext DEF Accounting
  <2>4. OnlyBoot' /\ Viewed' /\ Packed'
    BY OnlyBootNext, ViewedNext, PackedNext
  <2>5. OnePage \/ Rows'
    BY RowsNext DEF Accounting, SegmentsFit
  <2>6. OnePage' <=> OnePage
    BY DEF OnePage
  <2> QED BY <2>1, <2>2, <2>3, <2>4, <2>5, <2>6 DEF Accounting
<1>3. Inv => LoadsInPlace
  BY InPlace
<1> HIDE DEF Inv
<1> QED
  BY <1>1, <1>2, <1>3, PTL DEF Spec

(***************************************************************************)
(* Isolation from bounds on the constants alone: the kernel implements     *)
(* private address spaces if no program calls page_alloc for an address it *)
(* already uses, and if each segment of a program is one page or boot      *)
(* finds its memory below the first hole of the physical memory and the    *)
(* segments share the kernel's level-1 page table.                         *)
(***************************************************************************)
THEOREM Isolated == ASSUME ~ Remap, SegmentsFit PROVE Spec => Isolation
BY Implements, InPlaceAlways, PTL
=============================================================================
