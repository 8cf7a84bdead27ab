----------------------------- MODULE KernelSafety -----------------------------
(***************************************************************************)
(* Proofs about Kernel, for every number of processes and pages, every     *)
(* memory layout and every program: its types, and what follows from       *)
(* knowing where the kernel is, for which Control of KernelInv is shown to *)
(* be inductive.                                                           *)
(***************************************************************************)
EXTENDS KernelInv, TLAPS

-----------------------------------------------------------------------------
(* Types. *)

\* What the types of constants and of constant expressions amount to.
LEMMA Constants ==
    /\ {0, 1} \subseteq Pid /\ {0, 1} \subseteq 0 .. RefMod - 1
    /\ Pid \subseteq Int /\ Pid \subseteq -1 .. NPROC - 1
    /\ -1 \in -1 .. NPROC - 1
    /\ VA \subseteq 0 .. NVA /\ 0 \in VA /\ NVA \in 0 .. NVA
    /\ PROC_START \in VA
    /\ \A v \in VA : v + 1 \in 0 .. NVA
    /\ \A v \in 0 .. NVA : v < NVA => v \in VA
    /\ NoPage \notin PA /\ Allocatable \subseteq PA /\ NULL \in PA
    /\ 0 \in Node
    /\ BootCounts \subseteq Pid
BY SizeAssumption, MemoryAssumption, ProgramAssumption
   DEF Pid, PA, VA, NoPage, NULL, Node, NL1

\* Entries and empty tables have their types.
LEMMA Constants2 ==
    /\ NoEntry \in Entry /\ NoTable \in [Node -> PA \cup {NoPage}]
    /\ NoMap \in [VA -> Entry]
    /\ \A v \in VA : v < PROC_START => KernelEntry(v) \in Entry
    /\ \A pa \in PA \cup {NoPage}, w, u \in BOOLEAN : [pa |-> pa, w |-> w, u |-> u] \in Entry
    /\ \A e \in Entry : e.pa \in PA \cup {NoPage} /\ e.w \in BOOLEAN
                          /\ e.u \in BOOLEAN
BY SizeAssumption, MemoryAssumption, ProgramAssumption, Constants
   DEF VA, PA, Entry, NoEntry, NoTable, NoMap, KernelEntry

\* kalloc and kfree keep the counters and the contents in range.
LEMMA ClaimType ==
    ASSUME TypeOK, NEW pa \in PA, NEW c \in Content, Claim(pa, c)
    PROVE  refcount' \in [PA -> 0 .. RefMod - 1] /\ mem' \in [PA -> Content]
BY Constants DEF TypeOK, Claim

\* ... and so does kfree of any page, or of none.
LEMMA KfreeType ==
    ASSUME NEW rc \in [PA -> 0 .. RefMod - 1], NEW pa
    PROVE  Kfree(rc, pa) \in [PA -> 0 .. RefMod - 1]
<1>1. CASE pa \in PA
  BY <1>1, SizeAssumption DEF Kfree
<1>2. CASE pa \notin PA
  BY <1>2 DEF Kfree
<1> QED
  BY <1>1, <1>2

\* schedule()'s next slot is one.
LEMMA TurnType == TypeOK => Turn \in Pid
BY SizeAssumption DEF TypeOK, Turn, Pid

\* A page table page that map() adds.
LEMMA MapTableType ==
    ASSUME TypeOK, NEW p \in Pid, NEW v, MapTable(p, v)
    PROVE  /\ refcount' \in [PA -> 0 .. RefMod - 1] /\ mem' \in [PA -> Content]
           /\ tab' \in [Pid -> [Node -> PA \cup {NoPage}]]
<1>1. PICK n \in Path(v), pa \in PA : Claim(pa, ZERO) /\ tab' = [tab EXCEPT ![p][n] = pa]
  BY DEF MapTable, Missing
<1> QED
  BY <1>1, ClaimType DEF TypeOK, Content

\* The type invariant holds at first ...
LEMMA TypeInit == Init => TypeOK
BY Constants, Constants2, SizeAssumption
   DEF Init, TypeOK, Content, ProcState, Loc

\* ... and is kept.
LEMMA TypeNext == TypeOK /\ [Next]_vars => TypeOK'
<1> USE Constants, Constants2
    DEF TypeOK, Loc, Ops, memory, tables, procs, locals
<1> SUFFICES ASSUME TypeOK, [Next]_vars PROVE TypeOK'
  OBVIOUS
<1>1. CASE SetupRoot
  BY <1>1, ClaimType DEF SetupRoot, Content
<1>2. CASE SetupPage
  BY <1>2, ClaimType DEF SetupPage, Content
<1>3. CASE SetupTable
  BY <1>3, MapTableType DEF SetupTable
<1>4. CASE SetupNull
  BY <1>4 DEF SetupNull
<1>5. CASE SetupMap
  BY <1>5 DEF SetupMap, SetupMapping, MapEntry, SetupEntry
<1>6. CASE SetupSkip
  BY <1>6, SizeAssumption DEF SetupSkip
<1>7. CASE SetupCopy
  BY <1>7 DEF SetupCopy, Content
<1>8. CASE SetupDone
  <2>1. pid' \in Pid
    BY <1>8, SizeAssumption, ProgramAssumption, SMTT(30) DEF SetupDone, Pid
  <2> QED
    BY <1>8, <2>1 DEF SetupDone, ProcState
<1>9. CASE Getpid
  BY <1>9 DEF Getpid, Return
<1>10. CASE Yield
  BY <1>10 DEF Yield, Schedule
<1>11. CASE TimerTick
  BY <1>11 DEF TimerTick, Schedule
<1>12. CASE PageFault
  BY <1>12 DEF PageFault, Schedule, ProcState
<1>13. CASE Panic
  BY <1>13 DEF Panic
<1>14. CASE PageAllocBad
  BY <1>14 DEF PageAllocBad, Return
<1>15. CASE PageAlloc
  BY <1>15, ClaimType DEF PageAlloc, Content, Cleared
<1>16. CASE PageAllocTable
  BY <1>16, MapTableType DEF PageAllocTable
<1>17. CASE PageAllocFails
  BY <1>17, KfreeType DEF PageAllocFails, GivenBack, Return
<1>18. CASE PageAllocMap
  BY <1>18 DEF PageAllocMap, MapEntry, Return
<1>19. CASE Fork
  BY <1>19 DEF Fork
<1>20. CASE ForkNoSlot
  BY <1>20 DEF ForkNoSlot, Return
<1>21. CASE ForkRoot
  BY <1>21, ClaimType DEF ForkRoot, Content
<1>22. CASE ForkNoRoot
  BY <1>22 DEF ForkNoRoot, Return
<1>23. CASE ForkCopy
  BY <1>23, ClaimType DEF ForkCopy, Copied, Parent, Private, User
<1>24. CASE ForkTable
  BY <1>24, MapTableType DEF ForkTable
<1>25. CASE ForkMap
  <2>1. va \in VA /\ Parent \in Entry /\ Parent.pa \in PA
    BY <1>25 DEF ForkMap, ForkMapping, Parent
  <2>2. refcount' \in [PA -> 0 .. RefMod - 1]
    BY <1>25, <2>1, SizeAssumption DEF ForkMap, ForkCount
  <2>3. ForkEntry \in Entry
    BY <1>25, <2>1 DEF ForkEntry
  <2>4. pt' \in [Pid -> [VA -> Entry]]
    BY <1>25, <2>1, <2>3 DEF ForkMap, MapEntry
  <2> QED
    BY <1>25, <2>1, <2>2, <2>4 DEF ForkMap
<1>26. CASE ForkSkip
  BY <1>26 DEF ForkSkip
<1>27. CASE ForkFails
  BY <1>27 DEF ForkFails, ForkUndo
<1>28. CASE ForkDone
  BY <1>28 DEF ForkDone, ForkResult
<1>29. CASE ForkUndone
  BY <1>29, KfreeType DEF ForkUndone, PfreeRoot, Return
<1>30. CASE Exit
  BY <1>30 DEF Exit
<1>31. CASE PfreeVa
  <2>1. va \in VA /\ pid \in Pid
    BY <1>31 DEF PfreeVa
  <2>2. refcount' \in [PA -> 0 .. RefMod - 1]
    BY <1>31, KfreeType, SMTT(30) DEF PfreeVa
  <2>3. pt' \in [Pid -> [VA -> Entry]]
    <3>1. CASE Freed(pt[pid][va])
      BY <1>31, <2>1, <3>1 DEF PfreeVa
    <3>2. CASE ~ Freed(pt[pid][va])
      BY <1>31, <3>2 DEF PfreeVa
    <3> QED
      BY <3>1, <3>2
  <2> QED
    BY <1>31, <2>1, <2>2, <2>3 DEF PfreeVa
<1>32. CASE PfreeVaDone
  BY <1>32 DEF PfreeVaDone
<1>33. CASE PfreeTable
  BY <1>33, KfreeType DEF PfreeTable
<1>34. CASE ExitDone
  BY <1>34, KfreeType DEF ExitDone, PfreeRoot, Schedule, ProcState
<1>35. CASE SchedTry
  BY <1>35, TurnType DEF SchedTry
<1>36. CASE UserStep
  BY <1>36, ClaimType DEF UserStep, UserWrite, Enter, Content, User
<1>37. CASE Timer
  BY <1>37, ClaimType DEF Timer, Enter, Content
<1>38. CASE Reboot
  BY <1>38 DEF Reboot, Reset, Zeroed, ProcState
<1>39. CASE Poweroff
  BY <1>39 DEF Poweroff
<1>40. CASE Stopped
  BY <1>40 DEF Stopped, vars
<1>41. CASE UNCHANGED vars
  BY <1>41 DEF vars
<1> QED
  BY <1>1, <1>2, <1>3, <1>4, <1>5, <1>6, <1>7, <1>8, <1>9, <1>10, <1>11,
     <1>12, <1>13, <1>14, <1>15, <1>16, <1>17, <1>18, <1>19, <1>20, <1>21,
     <1>22, <1>23, <1>24, <1>25, <1>26, <1>27, <1>28, <1>29, <1>30, <1>31,
     <1>32, <1>33, <1>34, <1>35, <1>36, <1>37, <1>38, <1>39, <1>40, <1>41
     DEF Next, KernelStep, Boot, PageAllocStep, ForkStep, ExitStep

(***************************************************************************)
(* Every variable keeps its type in every behaviour.  In particular the    *)
(* page allocator and the page-table walk never index outside pages[], the *)
(* scheduler never leaves ptable, and the loops over the address space     *)
(* stop at its end.                                                        *)
(***************************************************************************)
THEOREM TypeCorrect == Spec => []TypeOK
BY TypeInit, TypeNext, PTL DEF Spec

-----------------------------------------------------------------------------
(* Where the kernel is. *)

(***************************************************************************)
(* Every step keeps Control.  The steps that matter are those that link,   *)
(* map, unmap and free (SetupMap, ForkMap, PfreeVa, PfreeTable): the      *)
(* loop variable va of process_setup, fork and pfree has passed exactly    *)
(* what is mapped or unmapped; and the ones that end a handler, where      *)
(* everything below PROC_START was the kernel's and everything above it    *)
(* was freed, so that pfree leaves an empty page table.                    *)
(***************************************************************************)
LEMMA ControlNext ==
    ASSUME TypeOK, Control, [Next]_vars
    PROVE  Control'
<1> USE Constants, Constants2, SizeAssumption, MemoryAssumption, ProgramAssumption
    DEF TypeOK, Control, Slots, Who, Progress, InHand, Target, LowMappings, HighMappings,
        Owns, Building, Freeing, Dead, InCall, Ops, memory, tables, procs, locals,
        NoMap, NoTable, NoEntry, User, Writable, Private, Parent, Stack
<1>1. CASE SetupRoot
  <2>1. Slots'
    BY <1>1 DEF SetupRoot, KallocGets, Usable, Claim
  <2>2. Who'
    BY <1>1 DEF SetupRoot, KallocGets, Usable, Claim
  <2>3. Progress'
    <3>1. ~ Owns(pid) /\ pc \notin Dead
      BY <1>1 DEF SetupRoot
    <3>2. pt[pid] = NoMap
      <4> HIDE DEF NoMap, NoTable, Owns, Dead
      <4> QED BY <3>1
    <3>3. \A v \in VA : pt'[pid'][v] = NoEntry
      BY <1>1, <3>2 DEF SetupRoot
    <3> QED
      BY <1>1, <3>3 DEF SetupRoot
  <2>4. InHand'
    BY <1>1 DEF SetupRoot, KallocGets, Usable, Claim
  <2>5. Target'
    BY <1>1 DEF SetupRoot, KallocGets, Usable, Claim
  <2>6. LowMappings'
    BY <1>1 DEF SetupRoot, KallocGets, Usable, Claim
  <2>7. HighMappings'
    BY <1>1 DEF SetupRoot, KallocGets, Usable, Claim
  <2> QED
    BY <2>1, <2>2, <2>3, <2>4, <2>5, <2>6, <2>7
<1>2. CASE SetupPage
  BY <1>2 DEF SetupPage, KallocGets, Usable, Claim, SetupPageDue
<1>3. CASE SetupTable
  BY <1>3 DEF SetupTable, MapTable, Claim, SetupMapping
<1>4. CASE SetupNull
  BY <1>4 DEF SetupNull, SetupMapping, SetupPageDue
<1>5. CASE SetupMap
  <2>0. /\ va \in VA /\ pid \in Pid /\ pc \in Building
        /\ pt' = [pt EXCEPT ![pid][va] = SetupEntry(va)]
    BY <1>5 DEF SetupMap, SetupMapping, MapEntry
  <2>1. Slots'
    <3>1. \A p \in Pid : p # pid => pt'[p] = pt[p]
      BY <1>5, <2>0 DEF SetupMap
    <3> QED
      BY <1>5, <3>1, <2>0 DEF SetupMap
  <2>2. Who'
    BY <1>5 DEF SetupMap, SetupMapping, MapEntry, SetupEntry, KernelEntry
  <2>3. Progress'
    <3>1. ASSUME NEW v \in VA, v >= va + 1 PROVE pt'[pid][v] = NoEntry
      <4>1. Progress
        BY DEF Control
      <4> HIDE DEF NoEntry, Control, TypeOK
      <4>2. v >= va /\ v # va
        BY <2>0, <3>1 DEF VA
      <4>3. pt[pid][v] = NoEntry
        BY <2>0, <4>1, <4>2
      <4>4. pt \in [Pid -> [VA -> Entry]]
        BY DEF TypeOK
      <4> QED BY <2>0, <4>2, <4>3, <4>4
    <3>2. pc = "setup_stack" => va = Stack
      BY <1>5 DEF SetupMap, SetupMapping
    <3> QED
      <4>1. pc' = pc /\ pid' = pid /\ va' = va + 1
        BY <1>5 DEF SetupMap
      <4>2. \A v \in VA : v >= va' => pt'[pid'][v] = NoEntry
        BY <4>1, <3>1
      <4>3. pc' = "setup_stack" => va' \in {Stack', NVA}
        <5> HIDE DEF Control, Progress
        <5> QED BY <4>1, <3>2, <2>0
      <4> HIDE DEF Control, NoEntry, TypeOK
      <4> QED BY <2>0, <4>1, <4>2, <4>3
  <2>4. InHand'
    BY <1>5 DEF SetupMap, SetupMapping, MapEntry, SetupEntry, KernelEntry
  <2>5. Target'
    BY <1>5 DEF SetupMap, SetupMapping, MapEntry, SetupEntry, KernelEntry
  <2>6. LowMappings'
    BY <1>5 DEF SetupMap, SetupMapping, MapEntry, SetupEntry, KernelEntry
  <2>7. HighMappings'
    BY <1>5 DEF SetupMap, SetupMapping, MapEntry, SetupEntry, KernelEntry
  <2> QED
    BY <2>1, <2>2, <2>3, <2>4, <2>5, <2>6, <2>7
<1>6. CASE SetupSkip
  BY <1>6 DEF SetupSkip
<1>7. CASE SetupCopy
  BY <1>7 DEF SetupCopy
<1>8. CASE SetupDone
  <2>1. Slots'
    BY <1>8 DEF SetupDone
  <2>2. Who'
    <3>1. /\ pid # 0 /\ nboot < NPROC /\ nboot \in Pid
          /\ \A p \in Pid : p >= pid => state[p] = "P_FREE"
          /\ \A p \in 1 .. pid - 1 : state[p] = "P_RUNNABLE"
      <4>1. pc = "setup_stack" /\ nboot \in BootCounts
        BY <1>8 DEF SetupDone
      <4>2. Who
        BY DEF Control
      <4> HIDE DEF Control, TypeOK
      <4> QED BY <4>1, <4>2 DEF Pid
    <3>2. \A p \in 1 .. pid : p \in Pid /\ state'[p] = "P_RUNNABLE"
      BY <1>8, <3>1, SMTT(30) DEF SetupDone, Pid
    <3>3. \A p \in Pid : p >= pid + 1 => state'[p] = "P_FREE"
      BY <1>8, <3>1 DEF SetupDone, Pid
    <3> QED
      <4>1. CASE pid < nboot
        <5>1. pid' = pid + 1 /\ pc' = "setup_root"
          BY <1>8, <4>1 DEF SetupDone
        <5> HIDE DEF Control
        <5> QED BY <5>1, <3>1, <3>2, <3>3, SMTT(30) DEF Pid
      <4>2. CASE ~ (pid < nboot)
        <5>1. pc' = "user" /\ current' = 1
          BY <1>8, <4>2 DEF SetupDone
        <5>2. 1 \in 1 .. pid
          BY <3>1 DEF Pid
        <5> HIDE DEF Control
        <5> QED BY <5>1, <5>2, <3>2
      <4> QED BY <4>1, <4>2
  <2>3. Progress'
    BY <1>8 DEF SetupDone
  <2>4. InHand'
    BY <1>8 DEF SetupDone
  <2>5. Target'
    BY <1>8 DEF SetupDone
  <2>6. LowMappings'
    BY <1>8 DEF SetupDone
  <2>7. HighMappings'
    BY <1>8 DEF SetupDone
  <2> QED
    BY <2>1, <2>2, <2>3, <2>4, <2>5, <2>6, <2>7
<1>9. CASE Getpid
  BY <1>9 DEF Getpid, Return
<1>10. CASE Yield
  BY <1>10 DEF Yield, Schedule
<1>11. CASE TimerTick
  BY <1>11 DEF TimerTick, Schedule
<1>12. CASE PageFault
  BY <1>12 DEF PageFault, Schedule
<1>13. CASE Panic
  BY <1>13 DEF Panic
<1>14. CASE PageAllocBad
  BY <1>14 DEF PageAllocBad, Return
<1>15. CASE PageAlloc
  BY <1>15 DEF PageAlloc, KallocGets, Usable, Claim
<1>16. CASE PageAllocTable
  BY <1>16 DEF PageAllocTable, MapTable, Claim
<1>17. CASE PageAllocFails
  BY <1>17 DEF PageAllocFails, Return, GivenBack
<1>18. CASE PageAllocMap
  <2>1. Slots'
    BY <1>18, ZenonT(60) DEF PageAllocMap, Return, MapEntry
  <2>2. Who'
    BY <1>18 DEF PageAllocMap, Return, MapEntry
  <2>3. Progress'
    BY <1>18 DEF PageAllocMap, Return, MapEntry
  <2>4. InHand'
    BY <1>18 DEF PageAllocMap, Return, MapEntry
  <2>5. Target'
    BY <1>18 DEF PageAllocMap, Return, MapEntry
  <2>6. LowMappings'
    BY <1>18 DEF PageAllocMap, Return, MapEntry
  <2>7. HighMappings'
    BY <1>18 DEF PageAllocMap, Return, MapEntry
  <2> QED
    BY <2>1, <2>2, <2>3, <2>4, <2>5, <2>6, <2>7
<1>19. CASE Fork
  BY <1>19 DEF Fork, ForkSlot
<1>20. CASE ForkNoSlot
  BY <1>20 DEF ForkNoSlot, Return
<1>21. CASE ForkRoot
  BY <1>21 DEF ForkRoot, KallocGets, Usable, Claim
<1>22. CASE ForkNoRoot
  BY <1>22 DEF ForkNoRoot, Return
<1>23. CASE ForkCopy
  BY <1>23 DEF ForkCopy, KallocGets, Usable, Claim
<1>24. CASE ForkTable
  BY <1>24 DEF ForkTable, MapTable, Claim, ForkMapping
<1>25. CASE ForkMap
  <2>0. /\ va \in VA /\ pid \in Pid /\ pc = "fork_va"
        /\ pt' = [pt EXCEPT ![pid][va] = ForkEntry]
    BY <1>25 DEF ForkMap, ForkMapping, MapEntry
  <2>1. Slots'
    BY <1>25, ZenonT(60) DEF ForkMap, ForkMapping, MapEntry, ForkEntry
  <2>2. Who'
    BY <1>25 DEF ForkMap, ForkMapping, MapEntry, ForkEntry
  <2>3. Progress'
    <3>1. ASSUME NEW v \in VA, v >= va + 1 PROVE pt'[pid][v] = NoEntry
      <4>1. Progress
        BY DEF Control
      <4> HIDE DEF NoEntry, Control, TypeOK
      <4>2. v >= va /\ v # va
        BY <2>0, <3>1 DEF VA
      <4>3. pt[pid][v] = NoEntry
        BY <2>0, <4>1, <4>2
      <4>4. pt \in [Pid -> [VA -> Entry]]
        BY DEF TypeOK
      <4> QED BY <2>0, <4>2, <4>3, <4>4
    <3> QED
      BY <1>25, <2>0, <3>1 DEF ForkMap
  <2>4. InHand'
    BY <1>25 DEF ForkMap, ForkMapping, MapEntry, ForkEntry
  <2>5. Target'
    BY <1>25 DEF ForkMap, ForkMapping, MapEntry, ForkEntry
  <2>6. LowMappings'
    <3>1. va < PROC_START => ForkEntry \in {NoEntry, KernelEntry(va)}
      BY <2>0 DEF ForkEntry, KernelEntry
    <3> QED
      BY <2>0, <3>1
  <2>7. HighMappings'
    BY <1>25 DEF ForkMap, ForkMapping, MapEntry, ForkEntry
  <2> QED
    BY <2>1, <2>2, <2>3, <2>4, <2>5, <2>6, <2>7
<1>26. CASE ForkSkip
  <2>1. Slots'
    BY <1>26 DEF ForkSkip
  <2>2. Who'
    BY <1>26 DEF ForkSkip
  <2>3. Progress'
    BY <1>26 DEF ForkSkip
  <2>4. InHand'
    BY <1>26 DEF ForkSkip
  <2>5. Target'
    BY <1>26 DEF ForkSkip
  <2>6. LowMappings'
    BY <1>26 DEF ForkSkip
  <2>7. HighMappings'
    BY <1>26 DEF ForkSkip
  <2> QED
    BY <2>1, <2>2, <2>3, <2>4, <2>5, <2>6, <2>7
<1>27. CASE ForkFails
  BY <1>27 DEF ForkFails, ForkUndo, ForkMapping
<1>28. CASE ForkDone
  BY <1>28 DEF ForkDone, ForkResult
<1>29. CASE ForkUndone
  <2>1. Slots'
    <3>1. /\ pc \notin Dead /\ state' = state
          /\ \A p \in Pid : p # pid => ~ Owns(p) <=> state[p] = "P_FREE"
          /\ \A p \in Pid : Owns(p)' <=> state[p] # "P_FREE"
      BY <1>29 DEF ForkUndone, Return
    <3>2. /\ tab'[pid] = NoTable /\ pt'[pid] = NoMap
          /\ \A p \in Pid : p # pid => tab'[p] = tab[p] /\ pt'[p] = pt[p]
      <4> HIDE DEF Control, NoTable, NoMap
      <4> QED BY <1>29 DEF ForkUndone
    <3>3. Slots
      BY DEF Control
    <3> HIDE DEF Control, NoTable, NoMap, Owns, Dead, TypeOK
    <3> QED BY <3>1, <3>2, <3>3
  <2>2. Who'
    BY <1>29 DEF ForkUndone, Return
  <2>3. Progress'
    BY <1>29 DEF ForkUndone, Return
  <2>4. InHand'
    BY <1>29 DEF ForkUndone, Return
  <2>5. Target'
    BY <1>29 DEF ForkUndone, Return
  <2>6. LowMappings'
    BY <1>29 DEF ForkUndone, Return
  <2>7. HighMappings'
    BY <1>29 DEF ForkUndone, Return
  <2> QED
    BY <2>1, <2>2, <2>3, <2>4, <2>5, <2>6, <2>7
<1>30. CASE Exit
  BY <1>30 DEF Exit
<1>31. CASE PfreeVa
  <2>0. /\ va \in VA /\ pid \in Pid /\ pc = "pfree_va" /\ pc' = pc /\ va' = va + 1
        /\ state' = state /\ tab' = tab /\ pid' = pid /\ held' = held /\ current' = current
    BY <1>31 DEF PfreeVa
  <2>10. \A p \in Pid, v \in VA :
            pt'[p][v] = IF p = pid /\ v = va /\ Freed(pt[pid][va]) THEN NoEntry ELSE pt[p][v]
    <3>0. /\ pt \in [Pid -> [VA -> Entry]]
          /\ pt' = IF Freed(pt[pid][va]) THEN [pt EXCEPT ![pid][va] = NoEntry] ELSE pt
      BY <1>31 DEF PfreeVa
    <3> HIDE DEF Control, NoEntry, TypeOK
    <3>1. CASE Freed(pt[pid][va])
      BY <3>0, <2>0, <3>1
    <3>2. CASE ~ Freed(pt[pid][va])
      BY <3>0, <2>0, <3>2
    <3> QED
      BY <3>1, <3>2
  <2>1. Slots'
    <3>1. \A p \in Pid : p # pid => pt'[p] = pt[p]
      BY <1>31, <2>0 DEF PfreeVa
    <3> QED
      BY <2>0, <3>1
  <2>2. Who'
    BY <1>31 DEF PfreeVa, Freed
  <2>3. Progress'
    <3>1. va >= PROC_START => ~ User(pt'[pid][va])
      BY <2>0, <2>10 DEF Freed
    <3>2. \A v \in VA : v \in PROC_START .. va => ~ User(pt'[pid][v])
      <4>1. \A v \in VA : v \in PROC_START .. va - 1 => ~ User(pt[pid][v])
        BY <2>0
      <4>2. ~ User(NoEntry)
        OBVIOUS
      <4> SUFFICES ASSUME NEW v \in VA, v \in PROC_START .. va
                   PROVE  ~ User(pt'[pid][v])
        OBVIOUS
      <4>3. CASE v = va
        BY <4>3, <3>1, <2>0 DEF VA
      <4>4. CASE v # va
        <5>1. v \in PROC_START .. va - 1
          BY <4>4, <2>0 DEF VA
        <5>2. pt'[pid][v] = pt[pid][v]
          <6> HIDE DEF Control, NoEntry, User, TypeOK
          <6> QED BY <4>4, <2>0, <2>10
        <5> HIDE DEF Control, User, TypeOK
        <5> QED BY <5>1, <5>2, <4>1
      <4> QED BY <4>3, <4>4
    <3>3. /\ pc' = "pfree_va"
          /\ \A v \in VA : v \in PROC_START .. va' - 1 => ~ User(pt'[pid'][v])
      <4> HIDE DEF Control, User
      <4> QED BY <2>0, <3>2 DEF VA
    <3> HIDE DEF Control, TypeOK, User
    <3> QED BY <3>3
  <2>4. InHand'
    BY <1>31 DEF PfreeVa, Freed
  <2>5. Target'
    BY <1>31 DEF PfreeVa, Freed
  <2>6. LowMappings'
    <3> HIDE DEF NoEntry, KernelEntry
    <3> QED BY <2>0, <2>10
  <2>7. HighMappings'
    BY <2>0, <2>10
  <2> QED
    BY <2>1, <2>2, <2>3, <2>4, <2>5, <2>6, <2>7
<1>32. CASE PfreeVaDone
  BY <1>32 DEF PfreeVaDone
<1>33. CASE PfreeTable
  BY <1>33 DEF PfreeTable
<1>34. CASE ExitDone
  <2>1. Slots'
    BY <1>34, ZenonT(60) DEF ExitDone, Schedule
  <2>2. Who'
    BY <1>34 DEF ExitDone, Schedule
  <2>3. Progress'
    BY <1>34 DEF ExitDone, Schedule
  <2>4. InHand'
    BY <1>34 DEF ExitDone, Schedule
  <2>5. Target'
    BY <1>34 DEF ExitDone, Schedule
  <2>6. LowMappings'
    BY <1>34 DEF ExitDone, Schedule
  <2>7. HighMappings'
    BY <1>34 DEF ExitDone, Schedule
  <2> QED
    BY <2>1, <2>2, <2>3, <2>4, <2>5, <2>6, <2>7
<1>35. CASE SchedTry
  BY <1>35 DEF SchedTry, Turn
<1>36. CASE UserStep
  BY <1>36 DEF UserStep, UserWrite, Enter, Argument
<1>37. CASE Timer
  BY <1>37 DEF Timer, Enter
<1>38. CASE Reboot
  BY <1>38 DEF Reboot, Reset, Zeroed
<1>39. CASE Poweroff
  BY <1>39 DEF Poweroff, Polling
<1>40. CASE Stopped
  BY <1>40 DEF Stopped, vars
<1>41. CASE UNCHANGED vars
  BY <1>41 DEF vars
<1> QED
  BY <1>1, <1>2, <1>3, <1>4, <1>5, <1>6, <1>7, <1>8, <1>9, <1>10, <1>11,
     <1>12, <1>13, <1>14, <1>15, <1>16, <1>17, <1>18, <1>19, <1>20, <1>21, <1>22,
     <1>23, <1>24, <1>25, <1>26, <1>27, <1>28, <1>29, <1>30, <1>31, <1>32, <1>33,
     <1>34, <1>35, <1>36, <1>37, <1>38, <1>39, <1>40, <1>41
  DEF Next, KernelStep, Boot, PageAllocStep, ForkStep, ExitStep

\* When the kernel starts nothing is mapped and all slots are free.
LEMMA ControlInit == Init => Control
BY Constants, Constants2, SizeAssumption, MemoryAssumption, ProgramAssumption
   DEF Init, Control, Slots, Who, Progress, InHand, Target, LowMappings, HighMappings,
       Owns, Building, Freeing, Dead, InCall, Ops, NoMap, NoTable, NoEntry

(***************************************************************************)
(* Whenever a process runs, the free slots of ptable own no page table and *)
(* no mapping: exit, and fork wherever it fails (kernel.cc:451-480), give  *)
(* back everything through pfree, for every size of memory and every       *)
(* program, those that call page_alloc for mapped addresses included.      *)
(***************************************************************************)
THEOREM FreeSlots == Spec => []FreeOwnsNothing
<1>1. Control => FreeOwnsNothing
  BY DEF Control, Slots, Owns, Dead, Building, Freeing, FreeOwnsNothing
<1>2. Init => Control
  BY ControlInit
<1>3. TypeOK /\ Control /\ [Next]_vars => Control'
  BY ControlNext
<1> QED
  BY <1>1, <1>2, <1>3, TypeCorrect, PTL DEF Spec

-----------------------------------------------------------------------------
\* What writing one entry of a page table changes.
LEMMA Written ==
    ASSUME TypeOK, NEW p \in Pid, NEW v \in VA, NEW e, MapEntry(p, v, e)
    PROVE  /\ pt'[p][v] = e
           /\ \A q \in Pid, w \in VA : q # p \/ w # v => pt'[q][w] = pt[q][w]
           /\ v = 0 => Linked(p)
BY DEF TypeOK, MapEntry, Missing, Linked

\* The part of the address space where the kernel is.
LEMMA Low == /\ 0 .. PROC_START - 1 \subseteq VA /\ PROC_START \in Nat
             /\ \A v \in 0 .. PROC_START - 1 : KernelEntry(v).pa # NoPage
BY SizeAssumption, MemoryAssumption DEF VA, KernelEntry, NoPage

(***************************************************************************)
(* One more iteration of process_setup's or fork's loop: if the kernel was *)
(* mapped up to v, it is mapped up to v + 1, and page tables of other      *)
(* processes are as they were.                                             *)
(***************************************************************************)
LEMMA Further ==
    ASSUME TypeOK, NEW p \in Pid, NEW v \in VA, NEW e, MapEntry(p, v, e),
           KernelMapped(p, v), v > 0 => Linked(p), v < PROC_START => e = KernelEntry(v)
    PROVE  /\ \A w \in 0 .. PROC_START - 1 : w < v + 1 => pt'[p][w] = KernelEntry(w)
           /\ \A q \in Pid \ {p}, w \in 0 .. PROC_START - 1 : pt'[q][w] = pt[q][w]
           /\ Linked(p)
<1>1. v \in Nat /\ VA \subseteq Nat
  BY SizeAssumption DEF VA
<1>2. Linked(p)
  BY <1>1, Written
<1>3. \A q \in Pid \ {p}, w \in 0 .. PROC_START - 1 : pt'[q][w] = pt[q][w]
  BY Written, Low
<1>4. ASSUME NEW w \in 0 .. PROC_START - 1, w < v + 1 PROVE pt'[p][w] = KernelEntry(w)
  <2>1. CASE w = v
    BY <2>1, <1>4, Written, Low
  <2>2. CASE w # v
    <3>1. w < v /\ w \in VA
      BY <2>2, <1>1, <1>4, Low
    <3> QED
      BY <3>1, <2>2, Written DEF KernelMapped
  <2> QED BY <2>1, <2>2
<1> QED
  BY <1>2, <1>3, <1>4

(***************************************************************************)
(* Every step keeps KernelThere.  fork copies the kernel's mappings from   *)
(* its parent, which has them all, and cannot skip one as absent;          *)
(* page_alloc writes from PROC_START on only; pfree takes apart the page   *)
(* table of the process that exits or of the slot that was being built,    *)
(* neither of which runs before it is built again.                         *)
(***************************************************************************)
LEMMA ThereNext ==
    ASSUME TypeOK, Control, KernelThere, [Next]_vars
    PROVE  KernelThere'
<1> USE Constants, Constants2, SizeAssumption, MemoryAssumption, ProgramAssumption
    DEF TypeOK, Control, Who, Progress, KernelThere, Complete, Linked, KernelMapped,
        Building, Freeing, InCall, Ops, memory, tables, procs, locals, Stack
<1>1. CASE SetupRoot
  BY <1>1 DEF SetupRoot, KallocGets, Usable, Claim
<1>2. CASE SetupPage
  BY <1>2 DEF SetupPage, KallocGets, Usable, Claim, SetupPageDue
<1>3. CASE SetupTable
  BY <1>3 DEF SetupTable, MapTable, Claim, SetupMapping, Missing
<1>4. CASE SetupNull
  BY <1>4 DEF SetupNull, SetupMapping, SetupPageDue
<1>5. CASE SetupMap
  <2>1. va \in VA /\ pid \in Pid /\ pc \in Building \ {"fork_va"} /\ state[pid] = "P_FREE"
    BY <1>5 DEF SetupMap, SetupMapping
  <2>2. MapEntry(pid, va, SetupEntry(va)) /\ va' = va + 1
        /\ UNCHANGED <<state, tab, pc, pid>>
    BY <1>5 DEF SetupMap
  <2>3. va < PROC_START => SetupEntry(va) = KernelEntry(va)
    BY DEF SetupEntry
  <2> HIDE DEF TypeOK, Control, Who, Progress
  <2>4. /\ \A w \in 0 .. PROC_START - 1 : w < va + 1 => pt'[pid][w] = KernelEntry(w)
        /\ \A q \in Pid \ {pid}, w \in 0 .. PROC_START - 1 : pt'[q][w] = pt[q][w]
        /\ Linked(pid)
    <3> HIDE DEF KernelMapped, Linked, Complete
    <3> QED BY <2>1, <2>2, <2>3, Further
  <2> HIDE DEF KernelThere
  <2>5. /\ KernelMapped(pid, va)' /\ Linked(pid)'
        /\ \A q \in Pid \ {pid} : /\ KernelMapped(q, PROC_START)' = KernelMapped(q, PROC_START)
                                 /\ Linked(q)' = Linked(q)
    BY <2>1, <2>2, <2>4
  <2> HIDE DEF KernelMapped, Linked
  <2> USE DEF KernelThere
  <2> QED
    BY <2>1, <2>2, <2>5
<1>6. CASE SetupSkip
  BY <1>6 DEF SetupSkip
<1>7. CASE SetupCopy
  BY <1>7 DEF SetupCopy
<1>8. CASE SetupDone
  BY <1>8 DEF SetupDone
<1>9. CASE Getpid
  BY <1>9 DEF Getpid, Return
<1>10. CASE Yield
  BY <1>10 DEF Yield, Schedule
<1>11. CASE TimerTick
  BY <1>11 DEF TimerTick, Schedule
<1>12. CASE PageFault
  BY <1>12 DEF PageFault, Schedule
<1>13. CASE Panic
  BY <1>13 DEF Panic
<1>14. CASE PageAllocBad
  BY <1>14 DEF PageAllocBad, Return
<1>15. CASE PageAlloc
  BY <1>15 DEF PageAlloc, KallocGets, Usable, Claim
<1>16. CASE PageAllocTable
  BY <1>16 DEF PageAllocTable, MapTable, Claim, Missing
<1>17. CASE PageAllocFails
  BY <1>17 DEF PageAllocFails, Return
<1>18. CASE PageAllocMap
  <2>1. va \in PROC_START .. NVA - 1 /\ va \in VA /\ current \in Pid
    BY <1>18 DEF PageAllocMap, Target, VA
  <2>2. /\ MapEntry(current, va, [pa |-> held, w |-> TRUE, u |-> TRUE])
        /\ UNCHANGED <<state, tab>> /\ pc = "pa_map" /\ pc' = "user"
    BY <1>18 DEF PageAllocMap, Return
  <2> HIDE DEF Control, Who, Progress, TypeOK
  <2>3. \A q \in Pid : KernelMapped(q, PROC_START)' = KernelMapped(q, PROC_START)
    <3> HIDE DEF KernelThere, Complete
    <3>1. \A w \in 0 .. PROC_START - 1 : w \in VA /\ w # va
      BY <2>1, Low
    <3>2. \A q \in Pid, w \in 0 .. PROC_START - 1 : pt'[q][w] = pt[q][w]
      BY <2>1, <2>2, <3>1, Written
    <3> QED
      BY <3>2
  <2> QED
    <3> HIDE DEF KernelMapped, Linked
    <3>1. \A q \in Pid : Linked(q)' = Linked(q)
      BY <2>2 DEF Linked
    <3> QED BY <2>2, <2>3, <3>1
<1>19. CASE Fork
  BY <1>19 DEF Fork, ForkSlot
<1>20. CASE ForkNoSlot
  BY <1>20 DEF ForkNoSlot, Return
<1>21. CASE ForkRoot
  BY <1>21 DEF ForkRoot, KallocGets, Usable, Claim
<1>22. CASE ForkNoRoot
  BY <1>22 DEF ForkNoRoot, Return
<1>23. CASE ForkCopy
  BY <1>23 DEF ForkCopy
<1>24. CASE ForkTable
  BY <1>24 DEF ForkTable, MapTable, Claim, Missing, ForkMapping
<1>25. CASE ForkMap
  <2>1. /\ va \in VA /\ pid \in Pid /\ current \in Pid /\ pc = "fork_va" /\ Complete(current)
        /\ state[pid] = "P_FREE"
    BY <1>25 DEF ForkMap, ForkMapping
  <2>2. MapEntry(pid, va, ForkEntry) /\ va' = va + 1
        /\ UNCHANGED <<state, tab, pc, pid>>
    BY <1>25 DEF ForkMap, ForkMapping
  <2> HIDE DEF TypeOK, Control, Who, Progress
  <2>3. va < PROC_START => ForkEntry = KernelEntry(va)
    BY <2>1, Low DEF VA, ForkEntry, Parent, Private, User, KernelEntry
  <2>4. /\ \A w \in 0 .. PROC_START - 1 : w < va + 1 => pt'[pid][w] = KernelEntry(w)
        /\ \A q \in Pid \ {pid}, w \in 0 .. PROC_START - 1 : pt'[q][w] = pt[q][w]
        /\ Linked(pid)
    <3> HIDE DEF KernelMapped, Linked, Complete
    <3> QED BY <2>1, <2>2, <2>3, Further
  <2> HIDE DEF KernelThere
  <2>5. /\ KernelMapped(pid, va)' /\ Linked(pid)'
        /\ \A q \in Pid \ {pid} : /\ KernelMapped(q, PROC_START)' = KernelMapped(q, PROC_START)
                                 /\ Linked(q)' = Linked(q)
    BY <2>1, <2>2, <2>4
  <2> HIDE DEF KernelMapped, Linked
  <2> USE DEF KernelThere
  <2> QED
    BY <2>1, <2>2, <2>5
<1>26. CASE ForkSkip
  <2>1. /\ pc = "fork_va" /\ va \in VA /\ va' = va + 1 /\ Complete(current) /\ current \in Pid
        /\ pt[current][va].pa = NoPage /\ UNCHANGED <<pt, tab, state, pc, pid>>
    BY <1>26 DEF ForkSkip, Parent
  <2> HIDE DEF Control, Who, Progress, TypeOK
  <2>2. va >= PROC_START
    BY <2>1, Low DEF VA
  <2>3. KernelMapped(pid, va + 1) /\ Linked(pid)
    <3>1. KernelMapped(pid, va) /\ Linked(pid)
      <4> HIDE DEF KernelMapped, Linked
      <4> QED BY <2>1, <2>2, Low DEF VA
    <3> HIDE DEF KernelThere
    <3> QED
      BY <3>1, <2>1, <2>2, Low DEF VA
  <2> QED
    <3> HIDE DEF KernelMapped
    <3>1. \A q \in Pid : KernelMapped(q, PROC_START)' = KernelMapped(q, PROC_START)
      BY <2>1 DEF KernelMapped
    <3>2. KernelMapped(pid, va)'
      BY <2>1, <2>3 DEF KernelMapped
    <3> QED BY <2>1, <2>3, <3>1, <3>2
<1>27. CASE ForkFails
  BY <1>27 DEF ForkFails, ForkUndo, ForkMapping
<1>28. CASE ForkDone
  <2>1. /\ pc = "fork_va" /\ va = NVA /\ pid \in Pid \ {0} /\ pc' = "user"
        /\ state' = [state EXCEPT ![pid] = state[current]] /\ UNCHANGED <<pt, tab>>
    BY <1>28 DEF ForkDone
  <2>2. KernelMapped(pid, PROC_START) /\ Linked(pid)
    <3> HIDE DEF Control, Who, Progress, TypeOK
    <3> QED BY <2>1, Low
  <2> HIDE DEF Control, Who, Progress
  <2> QED
    BY <2>1, <2>2
<1>29. CASE ForkUndone
  BY <1>29 DEF ForkUndone, Return
<1>30. CASE Exit
  BY <1>30 DEF Exit
<1>31. CASE PfreeVa
  <2>1. /\ pc \in Freeing /\ pc' \in Freeing /\ pid \in Pid
        /\ UNCHANGED <<state, tab, pid>>
        /\ \A q \in Pid : q # pid => pt'[q] = pt[q]
    BY <1>31 DEF PfreeVa
  <2> HIDE DEF Control, Who, Progress, TypeOK
  <2> QED
    BY <2>1
<1>32. CASE PfreeVaDone
  <2>1. /\ pc \in Freeing /\ pc' \in Freeing /\ pid \in Pid
        /\ UNCHANGED <<state, tab, pid>>
        /\ \A q \in Pid : q # pid => pt'[q] = pt[q]
    BY <1>32 DEF PfreeVaDone
  <2> HIDE DEF Control, Who, Progress, TypeOK
  <2> QED
    BY <2>1
<1>33. CASE PfreeTable
  BY <1>33 DEF PfreeTable
<1>34. CASE ExitDone
  <2>1. /\ pc' = "sched" /\ pid = current /\ UNCHANGED <<current>>
        /\ state' = [state EXCEPT ![current] = "P_FREE"]
        /\ \A q \in Pid : q # pid => pt'[q] = pt[q] /\ tab'[q] = tab[q]
    BY <1>34 DEF ExitDone, Schedule
  <2>2. \A q \in Pid : q # pid =>
            /\ KernelMapped(q, PROC_START)' = KernelMapped(q, PROC_START)
            /\ Linked(q)' = Linked(q)
    <3> HIDE DEF Control, Who, Progress, KernelThere, TypeOK
    <3> QED BY <2>1
  <2>3. /\ state'[pid] = "P_FREE" /\ state'[0] = "P_FREE"
        /\ \A q \in Pid : q # pid => state'[q] = state[q]
    BY <2>1
  <2> HIDE DEF Control, Who, Progress, TypeOK, KernelMapped, Linked
  <2> QED
    BY <2>1, <2>2, <2>3
<1>35. CASE SchedTry
  BY <1>35 DEF SchedTry, Turn
<1>36. CASE UserStep
  BY <1>36 DEF UserStep, UserWrite, Enter
<1>37. CASE Timer
  BY <1>37 DEF Timer, Enter
<1>38. CASE Reboot
  BY <1>38 DEF Reboot, Reset, Zeroed
<1>39. CASE Poweroff
  BY <1>39 DEF Poweroff, Polling
<1>40. CASE Stopped
  BY <1>40 DEF Stopped, vars
<1>41. CASE UNCHANGED vars
  BY <1>41 DEF vars
<1> QED
  BY <1>1, <1>2, <1>3, <1>4, <1>5, <1>6, <1>7, <1>8, <1>9, <1>10, <1>11,
     <1>12, <1>13, <1>14, <1>15, <1>16, <1>17, <1>18, <1>19, <1>20, <1>21, <1>22,
     <1>23, <1>24, <1>25, <1>26, <1>27, <1>28, <1>29, <1>30, <1>31, <1>32, <1>33,
     <1>34, <1>35, <1>36, <1>37, <1>38, <1>39, <1>40, <1>41
  DEF Next, KernelStep, Boot, PageAllocStep, ForkStep, ExitStep

\* No page table is complete, and none is being built, when the kernel starts.
LEMMA ThereInit == Init => KernelThere
BY Constants, SizeAssumption DEF Init, KernelThere, Complete, Building

(***************************************************************************)
(* The process that runs is P_RUNNABLE, is not slot 0, and has all of the  *)
(* kernel in its page table, mapped for the kernel only, so that the       *)
(* check_pagetable of run() accepts it: after every boot, fork, failed     *)
(* fork, exit and fault, for every number of processes and size of memory. *)
(***************************************************************************)
THEOREM Running == Spec => []RunningIsSafe
<1>1. TypeOK /\ Control /\ KernelThere => RunningIsSafe
  BY SizeAssumption, SMTT(30) DEF TypeOK, Control, Who, InCall, KernelThere, Complete, Freeing, Linked, KernelMapped,
         RunningIsSafe, Runs
<1>2. Init => Control /\ KernelThere
  BY ControlInit, ThereInit
<1>3. TypeOK /\ Control /\ KernelThere /\ [Next]_vars => Control' /\ KernelThere'
  BY ControlNext, ThereNext
<1> QED
  BY <1>1, <1>2, <1>3, TypeCorrect, PTL DEF Spec
=============================================================================
