---------------------------- MODULE MachineProofs ----------------------------
(***************************************************************************)
(* Starting, restarting and handling never kill the machine, for every set *)
(* of exceptions, every kernel image and every stack; and the two loaders  *)
(* put what was linked where it belongs, whatever was linked.              *)
(***************************************************************************)
EXTENDS Machine, FiniteSetTheorems, SequenceTheorems, WellFoundedInduction, TLAPS

\* The gates as init_interrupts leaves them.
SetGates == [v \in Gates |-> set_gate(RawGate(v), IF v = INT_BP THEN 3 ELSE 0)]

\* Where the machine may be, by the page table it runs on ...
OnBoot   == {"boot", "stash", "segments", "clear_pagetable", "fill_pagetable", "load_pagetable",
             "restore", "restore_again", "restart"}
OnKernel == {"gates", "cpu_state", "lapic", "timer_on", "load", "loading", "trap", "handle",
             "schedule", "backtrace", "failed", "timer_off", "temp_pagetable", "load_temp"}
\* ... and by what has been set up.
Unused   == {"power_on", "boot", "stash", "segments", "restore_again", "restart"}
Raw      == Unused \cup {"clear_pagetable", "fill_pagetable", "load_pagetable", "gates"}
Setting  == {"clear_pagetable", "fill_pagetable", "load_pagetable", "gates", "cpu_state"}
Running  == {"user", "trap", "handle", "schedule"}
Set      == {"lapic", "timer_on", "load", "loading"} \cup Running

MachineType ==
    /\ pc \in OnBoot \cup OnKernel \cup {"power_on", "user", "poweroff"}
    /\ data \in [gates : {RawGates, SetGates}, rest : {"initial", "used"}]
    /\ bss \in [pagetable : {"zero", "map"}, symbols : BOOLEAN,
                tss : {"zero", "available", "busy"}, rest : {"zero", "used"}]
    /\ desc \in [gdt : {"none", "boot", "early", "full"}, idt : BOOLEAN]
    /\ apic \in [present : BOOLEAN, enabled : BOOLEAN, rate : {0, HZ}, irr : BOOLEAN, isr : BOOLEAN]

\* The page table in use is one, and the next one is ready when it is due.
PageTables ==
    /\ pc \in OnBoot => cr3 = "boot" /\ low = "map"
    /\ pc \in OnKernel \cup {"user", "load_pagetable"} => bss.pagetable = "map"
    /\ pc \in OnKernel => cr3 = "kernel"
    /\ pc = "load_temp" => low = "map"
    /\ pc \in Running \cup {"loading"} => low = "process"
    /\ pc = "user" => cr3 = "process"

\* The kernel's image: untouched, or stashed.
Sections ==
    /\ pc \in Raw => data = FreshData
    /\ pc \in Unused => bss = ZeroBss
    /\ pc \notin {"power_on", "boot", "stash"} => stash = FreshData

\* Segments and gates.
Ready == /\ desc.idt /\ desc.gdt = "full" /\ bss.tss = "busy"
         /\ data.gates = SetGates
Descriptors ==
    /\ pc \in Setting => bss.tss = "available"
    /\ pc = "cpu_state" => data.gates = SetGates
    /\ pc \in Set => Ready
    /\ pc \in Running => current # "none"

\* A backtrace on a machine without APIC stays on the kernel stack; any other is
\* a handler's.
Frame ==
    pc = "backtrace" =>
        \/ Ready /\ current # "none" /\ low = "process"
        \/ \E r \in Frames \cup {KERNEL_STACK_TOP}, s \in Nat :
                bt = [rbp |-> r, rsp |-> s, base |-> {KERNEL_STACK_TOP}]

Sound == MachineType /\ PageTables /\ Sections /\ Descriptors /\ Frame
-----------------------------------------------------------------------------
\* The order of kernel()'s steps ...
LEMMA InitOrder ==
    /\ Head(InitSteps) = "stash"
    /\ After(InitSteps, "stash", "loading") = "segments"
    /\ After(InitSteps, "segments", "loading") = "clear_pagetable"
    /\ After(InitSteps, "clear_pagetable", "loading") = "fill_pagetable"
    /\ After(InitSteps, "fill_pagetable", "loading") = "load_pagetable"
    /\ After(InitSteps, "load_pagetable", "loading") = "gates"
    /\ After(InitSteps, "gates", "loading") = "cpu_state"
    /\ After(InitSteps, "cpu_state", "loading") = "lapic"
    /\ After(InitSteps, "lapic", "loading") = "timer_on"
    /\ After(InitSteps, "timer_on", "loading") = "load"
    /\ After(InitSteps, "load", "loading") = "loading"
<1>1. Len(InitSteps) = 10 /\ DOMAIN InitSteps = 1 .. 10
  BY DEF InitSteps
<1>2. \A i \in 1 .. 10 : i \in {1, 2, 3, 4, 5, 6, 7, 8, 9, 10}
  OBVIOUS
<1>3. /\ InitSteps[1] = "stash" /\ InitSteps[2] = "segments" /\ InitSteps[3] = "clear_pagetable"
      /\ InitSteps[4] = "fill_pagetable" /\ InitSteps[5] = "load_pagetable"
      /\ InitSteps[6] = "gates" /\ InitSteps[7] = "cpu_state" /\ InitSteps[8] = "lapic"
      /\ InitSteps[9] = "timer_on" /\ InitSteps[10] = "load" /\ Head(InitSteps) = "stash"
  BY DEF InitSteps
<1>4. ASSUME NEW s, NEW k \in 1 .. 10, \A i \in 1 .. 10 : InitSteps[i] = s <=> i = k
      PROVE  After(InitSteps, s, "loading") = IF k = 10 THEN "loading" ELSE InitSteps[k + 1]
  <2> DEFINE c == CHOOSE i \in DOMAIN InitSteps : InitSteps[i] = s
  <2>1. c = k
    BY <1>1, <1>4
  <2>2. After(InitSteps, s, "loading") = IF c = Len(InitSteps) THEN "loading" ELSE InitSteps[c + 1]
    BY Zenon DEF After
  <2> HIDE DEF c
  <2> QED
    BY <1>1, <2>1, <2>2
<1>5. \A k, i \in 1 .. 10 : InitSteps[i] = InitSteps[k] <=> i = k
  BY <1>2, <1>3
<1>6. \A k \in 1 .. 10 :
        After(InitSteps, InitSteps[k], "loading") = IF k = 10 THEN "loading" ELSE InitSteps[k + 1]
  BY <1>4, <1>5
<1> QED
  BY <1>3, <1>6

\* ... and of soft_reboot's.
LEMMA RebootOrder ==
    /\ Head(RebootSteps) = "timer_off"
    /\ After(RebootSteps, "timer_off", "restart") = "temp_pagetable"
    /\ After(RebootSteps, "temp_pagetable", "restart") = "load_temp"
    /\ After(RebootSteps, "load_temp", "restart") = "restore"
    /\ After(RebootSteps, "restore", "restart") = "restore_again"
    /\ After(RebootSteps, "restore_again", "restart") = "restart"
<1>1. Len(RebootSteps) = 5 /\ DOMAIN RebootSteps = 1 .. 5
  BY DEF RebootSteps
<1>2. \A i \in 1 .. 5 : i \in {1, 2, 3, 4, 5}
  OBVIOUS
<1>3. /\ RebootSteps[1] = "timer_off" /\ RebootSteps[2] = "temp_pagetable"
      /\ RebootSteps[3] = "load_temp" /\ RebootSteps[4] = "restore"
      /\ RebootSteps[5] = "restore_again" /\ Head(RebootSteps) = "timer_off"
  BY DEF RebootSteps
<1>4. ASSUME NEW s, NEW k \in 1 .. 5, \A i \in 1 .. 5 : RebootSteps[i] = s <=> i = k
      PROVE  After(RebootSteps, s, "restart") = IF k = 5 THEN "restart" ELSE RebootSteps[k + 1]
  <2> DEFINE c == CHOOSE i \in DOMAIN RebootSteps : RebootSteps[i] = s
  <2>1. c = k
    BY <1>1, <1>4
  <2>2. After(RebootSteps, s, "restart") = IF c = Len(RebootSteps) THEN "restart" ELSE RebootSteps[c + 1]
    BY Zenon DEF After
  <2> HIDE DEF c
  <2> QED
    BY <1>1, <2>1, <2>2
<1>5. \A k, i \in 1 .. 5 : RebootSteps[i] = RebootSteps[k] <=> i = k
  BY <1>2, <1>3
<1>6. \A k \in 1 .. 5 :
        After(RebootSteps, RebootSteps[k], "restart") = IF k = 5 THEN "restart" ELSE RebootSteps[k + 1]
  BY <1>4, <1>5
<1> QED
  BY <1>3, <1>6

\* A gate that init_interrupts has set leads to its handler.
LEMMA GatesLead ==
    ASSUME Ready, NEW v \in Gates
    PROVE  Enters(v)
<1>1. data.gates[v] = set_gate(RawGate(v), IF v = INT_BP THEN 3 ELSE 0)
  BY DEF Ready, SetGates
<1>2. \A d : /\ Target(set_gate(RawGate(v), d)) = handler(v)
             /\ set_gate(RawGate(v), d).low[2] = SEGSEL_KERN_CODE
  BY DEF set_gate, RawGate, handler, Target
<1> QED
  BY <1>1, <1>2 DEF Enters, Ready

\* Every step finds what it needs and leaves what the next one needs.
LEMMA SoundInit == MachineInit => Sound
<1> SUFFICES ASSUME MachineInit PROVE Sound
  OBVIOUS
<1>1. MachineType
  BY MachineAssumption DEF MachineInit, MachineType, FreshData, ZeroBss, OnBoot, OnKernel
<1> QED
  BY <1>1 DEF MachineInit, Sound, PageTables, Sections, Descriptors, Frame, OnBoot, OnKernel, Setting, Set,
         Running

\* From power-on to the first process ...
LEMMA SoundKernel == ASSUME Sound, boot_start \/ boot \/ kernel PROVE Sound'
<1> USE DEF Sound, MachineType, PageTables, Sections, Descriptors, Frame, OnBoot, OnKernel,
            Unused, Raw, Setting, Running, Set, Goes, Translates, hwVars, procVars, InitNext
<1> USE InitOrder
<1>1. CASE boot_start
  BY <1>1 DEF boot_start
<1>2. CASE boot
  BY <1>2 DEF boot
<1>3. CASE StashData
  BY <1>3 DEF StashData, StashMapped
<1>4. CASE InitSegments
  BY <1>4 DEF InitSegments, ZeroBss
<1>5. CASE ClearPagetable
  <2>1. /\ bss'.tss = bss.tss /\ bss'.pagetable = "zero"
        /\ bss' \in [pagetable : {"zero", "map"}, symbols : BOOLEAN,
                     tss : {"zero", "available", "busy"}, rest : {"zero", "used"}]
    BY <1>5 DEF ClearPagetable
  <2>2. pc = "clear_pagetable" /\ UNCHANGED <<cr3, low, data, stash, desc, apic, current, bt>>
    BY <1>5 DEF ClearPagetable
  <2>3. pc' = "fill_pagetable"
    BY <1>5, <2>1, <2>2 DEF ClearPagetable
  <2> QED
    BY <2>1, <2>2, <2>3
<1>6. CASE FillPagetable
  BY <1>6 DEF FillPagetable
<1>7. CASE LoadPagetable
  BY <1>7 DEF LoadPagetable
<1>8. CASE InitInterrupts \/ NoApic
  <2>1. data = FreshData
    BY <1>8 DEF InitInterrupts, NoApic
  <2>2. data' = [gates |-> SetGates, rest |-> "initial"]
    BY <1>8, <2>1 DEF InitInterrupts, NoApic, GatesSet, SetGates, FreshData, RawGates
  <2>3. CASE InitInterrupts
    BY <2>2, <2>3 DEF InitInterrupts
  <2>4. CASE NoApic
    <3>1. \E r \in Frames \cup {KERNEL_STACK_TOP}, n \in Nat :
                bt' = [rbp |-> r, rsp |-> n, base |-> {KERNEL_STACK_TOP}]
      BY <2>4, StackAssumption, ZenonT(60) DEF NoApic, StartBacktrace
    <3>2. pc' = "backtrace"
      BY <2>4 DEF NoApic
    <3>3. Frame'
      BY <3>1
    <3>4. (MachineType /\ PageTables /\ Sections /\ Descriptors)'
      BY <2>2, <2>4, <3>2 DEF NoApic
    <3> QED
      BY <3>3, <3>4
  <2> QED BY <1>8, <2>3, <2>4
<1>9. CASE InitCpuState
  <2>1. /\ pc = "cpu_state" /\ data.gates = SetGates
        /\ pc' = "lapic"
    BY <1>9 DEF InitCpuState
  <2> QED
    BY <1>9, <2>1, ZenonT(60) DEF InitCpuState, Ready
<1>10. CASE InitLapic
  BY <1>10, ZenonT(60) DEF InitLapic, LapicMapped, LapicReady, Ready
<1>11. CASE TimerOn
  BY <1>11 DEF TimerOn, LapicMapped, Ready
<1>12. CASE StartPrograms
  BY <1>12 DEF StartPrograms, Ready
<1>13. CASE LoadProgram
  BY <1>13 DEF LoadProgram, Ready
<1>14. CASE RunFirst
  BY <1>14 DEF RunFirst, Ready
<1> QED
  BY <1>1, <1>2, <1>3, <1>4, <1>5, <1>6, <1>7, <1>8, <1>9, <1>10, <1>11, <1>12, <1>13, <1>14 DEF kernel

\* ... while processes run, trap and are handled ...
LEMMA SoundTraps ==
    ASSUME Sound, Tick \/ Interrupt \/ UserCode \/ Trap \/ Handle
    PROVE  Sound'
<1> USE DEF Sound, MachineType, PageTables, Sections, Descriptors, OnBoot, OnKernel,
            Unused, Raw, Setting, Running, Set, Goes, Translates, hwVars, procVars
<1> DEFINE Still == UNCHANGED <<low, data, bss, stash, desc>>
<1>1. CASE Tick
  <2>1. /\ UNCHANGED <<pc, cr3, low, data, bss, stash, desc, current, bt>>
        /\ apic' \in [present : BOOLEAN, enabled : BOOLEAN, rate : {0, HZ}, irr : BOOLEAN, isr : BOOLEAN]
    BY <1>1 DEF Tick
  <2> HIDE DEF Sound, MachineType, PageTables, Sections, Descriptors
  <2>2. (PageTables /\ Sections /\ Descriptors /\ Frame)'
    BY <2>1 DEF Sound, PageTables, Sections, Descriptors, Ready, Frame
  <2> QED BY <2>1, <2>2 DEF Sound, MachineType
<1>2. CASE UserCode
  BY <1>2 DEF UserCode, Quiet, Ready, Frame
<1>3. CASE Interrupt \/ Trap
  <2>1. /\ pc = "user" /\ Still /\ UNCHANGED <<current, bt>> /\ cr3' = "kernel"
        /\ apic' \in [present : BOOLEAN, enabled : BOOLEAN, rate : {0, HZ}, irr : BOOLEAN, isr : BOOLEAN]
    <3>1. CASE Interrupt BY <3>1 DEF Interrupt, EntersWith, Quiet
    <3>2. CASE Trap BY <3>2 DEF Trap, Exception, Syscall, EntersWith, Quiet
    <3> QED BY <1>3, <3>1, <3>2
  <2>2. \A v \in Gates : Enters(v)
    BY <2>1, GatesLead
  <2>3. pc' = "trap"
    BY <1>3, <2>1, <2>2 DEF Interrupt, Trap, Exception, Syscall, Gates
  <2> QED BY <2>1, <2>3 DEF Ready, Frame
<1>4. CASE Handle /\ pc' # "backtrace"
  <2>1. /\ pc \in {"trap", "handle", "schedule"} /\ Still /\ stash = FreshData
        /\ apic' \in [present : BOOLEAN, enabled : BOOLEAN, rate : {0, HZ}, irr : BOOLEAN, isr : BOOLEAN]
    BY <1>4 DEF Handle, NoKey, HandleTimer, HandleFault, HandleKernelFault, HandleOther,
                SyscallReturns, SyscallSchedules, SyscallPanics, AssertFails, Resume, Handling,
                Working, Quiet
  <2>2. current' # "none"
    BY <1>4, <2>1 DEF Handle, NoKey, HandleTimer, HandleFault, HandleKernelFault, HandleOther,
                SyscallReturns, SyscallSchedules, SyscallPanics, AssertFails, Resume, Handling
  <2>3. \/ cr3' = "kernel" /\ pc' \in {"handle", "schedule", "failed", "backtrace"}
        \/ cr3' = "process" /\ pc' = "user"
    BY <1>4, <2>1 DEF Handle, NoKey, HandleTimer, HandleFault, HandleKernelFault, HandleOther,
                SyscallReturns, SyscallSchedules, SyscallPanics, AssertFails, Resume, Handling,
                LapicMapped, Ready
  <2> QED BY <1>4, <2>1, <2>2, <2>3 DEF Ready, Frame
<1>5. CASE AssertFails
  <2>1. /\ pc = "handle" /\ Still /\ UNCHANGED <<cr3, apic, current>> /\ pc' = "backtrace"
    BY <1>5 DEF AssertFails, Handling, Quiet
  <2> QED BY <2>1 DEF Ready, Frame
<1>6. Handle /\ pc' = "backtrace" => AssertFails
  BY DEF Handle, NoKey, HandleTimer, HandleFault, HandleKernelFault, HandleOther,
         SyscallReturns, SyscallSchedules, SyscallPanics, Resume
<1> QED
  BY <1>1, <1>2, <1>3, <1>4, <1>5, <1>6

\* A backtrace that cannot read a frame is one of a handler, whose page fault
\* finds its gate.
LEMMA SoundDebug == ASSUME Sound, Debug PROVE Sound'
<1> USE DEF Sound, MachineType, PageTables, Sections, Descriptors, OnBoot, OnKernel,
            Unused, Raw, Setting, Running, Set, Goes, Translates, hwVars, procVars, Quiet
<1>1. CASE KernelFault
  <2>1. /\ pc = "backtrace" /\ Ok(bt) /\ ~ Readable(bt)
        /\ UNCHANGED <<cr3, low, data, bss, stash, desc, apic, current>>
    BY <1>1 DEF KernelFault
  <2>2. Ready /\ current # "none" /\ low = "process"
    <3> SUFFICES ASSUME NEW r \in Frames \cup {KERNEL_STACK_TOP}, NEW s \in Nat,
                        bt = [rbp |-> r, rsp |-> s, base |-> {KERNEL_STACK_TOP}]
                 PROVE  FALSE
      BY <2>1 DEF Frame
    <3>1. r = KERNEL_STACK_TOP
      BY <2>1, StackAssumption DEF Readable, Frames
    <3>2. (KERNEL_STACK_TOP - r) % Words = 0
      BY <3>1, StackAssumption
    <3> QED BY <2>1, <3>2 DEF Ok
  <2>3. pc' = "trap"
    BY <1>1, <2>1, <2>2, GatesLead DEF KernelFault, Gates
  <2> QED BY <2>1, <2>2, <2>3 DEF Ready, Frame
<1>2. CASE BacktraceDone
  <2>1. pc' = "failed"
    BY <1>2 DEF BacktraceDone
  <2> QED BY <1>2, <2>1 DEF BacktraceDone, Frame
<1>3. CASE BacktraceFrame
  <2>1. /\ pc = "backtrace" /\ bss' = [bss EXCEPT !.symbols = TRUE]
        /\ UNCHANGED <<cr3, low, data, stash, desc, apic, current>> /\ pc' = "backtrace"
    BY <1>3 DEF BacktraceFrame
  <2>2. Frame'
    <3>1. CASE Ready /\ current # "none" /\ low = "process"
      BY <2>1, <3>1 DEF Frame, Ready
    <3>2. CASE ~ (Ready /\ current # "none" /\ low = "process")
      <4>1. PICK r \in Frames \cup {KERNEL_STACK_TOP}, s \in Nat :
                    bt = [rbp |-> r, rsp |-> s, base |-> {KERNEL_STACK_TOP}]
        BY <2>1, <3>2 DEF Frame
      <4>2. PICK v \in SavedRbps(bt) : bt' = Stepped(bt, v)
        BY <1>3 DEF BacktraceFrame
      <4>3. Ok(bt)
        BY <1>3 DEF BacktraceFrame
      <4>4. r \in Frames
        <5>1. r = KERNEL_STACK_TOP => (KERNEL_STACK_TOP - r) % Words = 0
          BY StackAssumption
        <5> QED BY <4>1, <4>3, <5>1 DEF Ok
      <4>5. v \in Frames \cup {KERNEL_STACK_TOP}
        BY <4>1, <4>2, <4>4, StackAssumption DEF SavedRbps, Frames
      <4>6. (r + 2) % Words \in Nat
        BY <4>4, StackAssumption DEF Frames
      <4>7. bt' = [rbp |-> v, rsp |-> (r + 2) % Words, base |-> {KERNEL_STACK_TOP}]
        BY <4>1, <4>2 DEF Stepped
      <4> QED BY <4>5, <4>6, <4>7 DEF Frame
    <3> QED BY <3>1, <3>2
  <2>3. /\ bss'.tss = bss.tss /\ bss'.pagetable = bss.pagetable
        /\ bss' \in [pagetable : {"zero", "map"}, symbols : BOOLEAN,
                     tss : {"zero", "available", "busy"}, rest : {"zero", "used"}]
    BY <2>1
  <2> QED BY <2>1, <2>2, <2>3
<1> QED
  BY <1>1, <1>2, <1>3 DEF Debug

\* A reboot out of any handler, and power-off.
LEMMA SoundReboot == ASSUME Sound, reboot \/ Keys \/ poweroff \/ Halted PROVE Sound'
<1> USE DEF Sound, MachineType, PageTables, Sections, Descriptors, OnBoot, OnKernel, Frame,
            Unused, Raw, Setting, Running, Set, Goes, Translates, hwVars, procVars, RebootNext
<1> USE InitOrder, RebootOrder
<1>1. CASE TimerOff
  BY <1>1 DEF TimerOff, LapicMapped
<1>2. CASE TempPagetable
  BY <1>2 DEF TempPagetable
<1>3. CASE LoadTemp
  BY <1>3 DEF LoadTemp
<1>4. CASE RestoreData
  <2>1. /\ pc \in {"restore", "restore_again"} /\ stash = FreshData /\ stash # NoStash
        /\ data' = FreshData /\ bss' = ZeroBss
    BY <1>4 DEF RestoreData, Restored, FreshData, NoStash
  <2>2. pc' = IF pc = "restore" THEN "restore_again" ELSE "restart"
    BY <1>4, <2>1 DEF RestoreData, StashMapped
  <2> QED BY <1>4, <2>1, <2>2 DEF RestoreData, FreshData, ZeroBss
<1>5. CASE Restart
  BY <1>5 DEF Restart
<1>6. CASE \E c \in {"a", "f", "e"} : RebootKey(c)
  <2>1. UNCHANGED hwVars /\ pc \in {"trap", "schedule", "failed"}
    BY <1>6 DEF RebootKey, Polls
  <2>2. pc' = "timer_off"
    BY <1>6, <2>1 DEF RebootKey
  <2> QED BY <2>1, <2>2
<1>7. CASE OffKey
  <2>1. /\ UNCHANGED <<cr3, low, data, bss, stash, desc>> /\ pc \in {"trap", "schedule", "failed"}
        /\ apic' \in [present : BOOLEAN, enabled : BOOLEAN, rate : {0, HZ}, irr : BOOLEAN, isr : BOOLEAN]
    BY <1>7 DEF OffKey, Polls
  <2>2. pc' = "poweroff"
    BY <1>7, <2>1 DEF OffKey
  <2> QED BY <2>1, <2>2
<1>8. CASE poweroff \/ Halted
  BY <1>8 DEF poweroff, Halted, machineVars
<1> QED
  BY <1>1, <1>2, <1>3, <1>4, <1>5, <1>6, <1>7, <1>8 DEF reboot, Keys

\* Every step of the machine.
LEMMA SoundNext == Sound /\ [MachineNext]_allVars => Sound'
<1> SUFFICES ASSUME Sound, [MachineNext]_allVars PROVE Sound'
  OBVIOUS
<1>1. CASE UNCHANGED allVars
  BY <1>1 DEF allVars, machineVars, hwVars, procVars, Sound, MachineType, PageTables, Sections,
              Descriptors, Frame, Ready
<1> QED
  BY <1>1, SoundKernel, SoundTraps, SoundDebug, SoundReboot DEF MachineNext, Code

(***************************************************************************)
(* The machine is never lost: no step of starting, of restarting out of    *)
(* any handler or of handling runs on a page table that is not one,        *)
(* reaches for memory that is not mapped, loads a busy task segment or     *)
(* takes an exception through a gate that is not ready, for any stack and  *)
(* any exceptions, with APIC or without.                                   *)
(***************************************************************************)
THEOREM MachineLives == MachineSpec => []NeverDies
<1>1. Sound => NeverDies
  BY DEF Sound, MachineType, NeverDies, OnBoot, OnKernel
<1> QED
  BY <1>1, SoundInit, SoundNext, PTL DEF MachineSpec

(***************************************************************************)
(* After any number of soft reboots, out of any handler, kernel() finds    *)
(* .data as linked, .bss zero and the boot page table (k-hardware.cc:763). *)
(***************************************************************************)
THEOREM StartsFresh == MachineSpec => []FreshStart
<1>1. Sound => FreshStart
  BY InitOrder DEF Sound, PageTables, Sections, FreshStart, OnBoot, Unused, Raw
<1> QED
  BY <1>1, SoundInit, SoundNext, PTL DEF MachineSpec
-----------------------------------------------------------------------------
(* How registers are saved and restored. *)

\* The words that are pushed and popped.
PushedWords == {"rax", "rcx", "rdx", "rbx", "rbp", "rsi", "rdi", "r8", "r9", "r10", "r11", "r12", "r13",
          "r14", "r15", "fs", "gs", "intno", "errcode", "rip", "cs", "rflags", "rsp", "ss",
          "zero", "skip"}

\* Two parts of a stack, one on top of the other.
LEMMA Joined ==
    ASSUME NEW s \in Seq(PushedWords), NEW t \in Seq(PushedWords), NEW X, X = s \o t
    PROVE  /\ X \in Seq(PushedWords) /\ Len(X) = Len(s) + Len(t)
           /\ \A i \in 1 .. Len(s) + Len(t) : X[i] = IF i <= Len(s) THEN s[i] ELSE t[i - Len(s)]
BY ConcatProperties, Zenon

\* regstate's fields, by number.
LEMMA Places ==
    /\ DOMAIN regstate = 1 .. 24
    /\ \A i, k \in 1 .. 24 : regstate[i] = regstate[k] => i = k
    /\ \A i \in 1 .. 24 : regstate[i] = "intno" <=> i = 18
    /\ \A i \in 1 .. 24 : regstate[i] = "errcode" <=> i = 19
    /\ \A i \in 1 .. 24 : regstate[i] \notin {"zero", "skip"}
    /\ Regs = {regstate[i] : i \in 1 .. 24 \ {18, 19}}
<1>1. \A i \in 1 .. 24 : i \in {1, 2, 3, 4, 5, 6, 7, 8, 9, 10, 11, 12, 13, 14, 15, 16, 17, 18,
                                19, 20, 21, 22, 23, 24}
  OBVIOUS
<1>2. DOMAIN regstate = 1 .. 24
  BY DEF regstate
<1>3. \A i, k \in 1 .. 24 : regstate[i] = regstate[k] => i = k
  BY <1>1 DEF regstate
<1>4. regstate[18] = "intno" /\ regstate[19] = "errcode"
  BY DEF regstate
<1>5. \A i \in 1 .. 24 : regstate[i] \notin {"zero", "skip"}
  BY <1>1 DEF regstate
<1>6. Regs = {regstate[i] : i \in 1 .. 24 \ {18, 19}}
  BY <1>2, <1>3, <1>4 DEF Regs, ToSet
<1> QED BY <1>2, <1>3, <1>4, <1>5, <1>6

\* Where reg_intno and reg_errcode are.
LEMMA FieldAt ==
    ASSUME NEW rs
    PROVE  Field(rs, "intno") = rs[18] /\ Field(rs, "errcode") = rs[19]
<1>1. (CHOOSE i \in DOMAIN regstate : regstate[i] = "intno") = 18
  BY Places
<1>2. (CHOOSE i \in DOMAIN regstate : regstate[i] = "errcode") = 19
  BY Places
<1> QED BY <1>1, <1>2, Zenon DEF Field

\* The stack after an exception has the layout of regstate.
LEMMA ExceptionWords ==
    ASSUME NEW v \in 0 .. Timer
    PROVE  /\ DOMAIN ExceptionLayout[v] = 1 .. 24
           /\ \A i \in 1 .. 24 : ExceptionLayout[v][i] =
                IF i = 19 /\ v \notin ErrorCodes THEN "zero" ELSE regstate[i]
<1> DEFINE x == IF v \in ErrorCodes THEN "errcode" ELSE "zero"
           H == HardwarePushes(v) \o HandlerPushes(v)
           X == H \o EntryPushes
<1>1. \A i \in 1 .. 24 : i \in {1, 2, 3, 4, 5, 6, 7, 8, 9, 10, 11, 12, 13, 14, 15, 16, 17, 18,
                                19, 20, 21, 22, 23, 24}
  OBVIOUS
<1>2. HardwarePushes(v) = <<"ss", "rsp", "rflags", "cs", "rip">> \o
                             (IF v \in ErrorCodes THEN <<"errcode">> ELSE <<>>)
  BY DEF HardwarePushes, Reverse, IretRegs
<1>3. HandlerPushes(v) = (IF v \in ErrorCodes THEN <<>> ELSE <<"zero">>) \o <<"intno">>
  BY DEF HandlerPushes, ErrorCodes, INT_DF, INT_AC, INT_TS, INT_PF, Timer
<1> DEFINE five == <<"ss", "rsp", "rflags", "cs", "rip">>
           A == HardwarePushes(v)
           B == HandlerPushes(v)
<1>4. five \in Seq(PushedWords) /\ <<>> \in Seq(PushedWords) /\ <<"errcode">> \in Seq(PushedWords)
      /\ <<"zero">> \in Seq(PushedWords) /\ <<"intno">> \in Seq(PushedWords) /\ EntryPushes \in Seq(PushedWords)
  BY DEF PushedWords, EntryPushes
<1>5. five \in Seq(PushedWords)
  BY <1>4
<1>6. EntryPushes \in Seq(PushedWords)
  BY <1>4
<1>7. Len(five) = 5 /\ five[1] = "ss" /\ five[2] = "rsp" /\ five[3] = "rflags" /\ five[4] = "cs"
      /\ five[5] = "rip"
  OBVIOUS
<1>8. A = five \o (IF v \in ErrorCodes THEN <<"errcode">> ELSE <<>>)
  BY <1>2
<1> HIDE DEF A, B, H, five
<1>9. /\ A \in Seq(PushedWords) /\ Len(A) = IF v \in ErrorCodes THEN 6 ELSE 5
      /\ A[1] = "ss" /\ A[2] = "rsp" /\ A[3] = "rflags" /\ A[4] = "cs" /\ A[5] = "rip"
      /\ v \in ErrorCodes => A[6] = "errcode"
  <2> DEFINE t == IF v \in ErrorCodes THEN <<"errcode">> ELSE <<>>
  <2>1. t \in Seq(PushedWords) /\ A = five \o t
    BY <1>4, <1>8
  <2>2. Len(t) = (IF v \in ErrorCodes THEN 1 ELSE 0) /\ (v \in ErrorCodes => t[1] = "errcode")
    OBVIOUS
  <2> HIDE DEF t
  <2>3. /\ A \in Seq(PushedWords) /\ Len(A) = Len(five) + Len(t)
        /\ \A i \in 1 .. Len(five) + Len(t) : A[i] = IF i <= Len(five) THEN five[i] ELSE t[i - Len(five)]
    BY <2>1, <1>5, Joined, Zenon
  <2> QED BY <1>7, <2>2, <2>3
<1>10. /\ B \in Seq(PushedWords) /\ Len(B) = IF v \in ErrorCodes THEN 1 ELSE 2
      /\ B[Len(B)] = "intno" /\ (v \notin ErrorCodes => B[1] = "zero")
  <2> DEFINE t == IF v \in ErrorCodes THEN <<>> ELSE <<"zero">>
             u == <<"intno">>
  <2>1. t \in Seq(PushedWords) /\ B = t \o u
    BY <1>3, <1>4 DEF B
  <2>2. /\ Len(t) = (IF v \in ErrorCodes THEN 0 ELSE 1) /\ (v \notin ErrorCodes => t[1] = "zero")
        /\ Len(u) = 1 /\ u[1] = "intno" /\ u \in Seq(PushedWords)
    BY <1>4
  <2> HIDE DEF t, u
  <2>3. /\ B \in Seq(PushedWords) /\ Len(B) = Len(t) + Len(u)
        /\ \A i \in 1 .. Len(t) + Len(u) : B[i] = IF i <= Len(t) THEN t[i] ELSE u[i - Len(t)]
    BY <2>1, <2>2, Joined, Zenon
  <2> QED BY <2>2, <2>3
<1>11. /\ H \in Seq(PushedWords) /\ Len(H) = 7 /\ H[1] = "ss" /\ H[2] = "rsp" /\ H[3] = "rflags"
      /\ H[4] = "cs" /\ H[5] = "rip" /\ H[6] = x /\ H[7] = "intno"
  <2>1. /\ H \in Seq(PushedWords) /\ Len(H) = Len(A) + Len(B)
        /\ \A i \in 1 .. Len(A) + Len(B) : H[i] = IF i <= Len(A) THEN A[i] ELSE B[i - Len(A)]
    BY <1>9, <1>10, Joined, Zenon DEF H, A, B
  <2>2. CASE v \in ErrorCodes
    <3>1. Len(A) = 6 /\ Len(B) = 1 /\ A[6] = "errcode" /\ B[1] = "intno"
      BY <1>9, <1>10, <2>2
    <3> QED BY <1>9, <2>1, <2>2, <3>1
  <2>3. CASE v \notin ErrorCodes
    <3>1. Len(A) = 5 /\ Len(B) = 2 /\ B[1] = "zero" /\ B[2] = "intno"
      BY <1>9, <1>10, <2>3
    <3> QED BY <1>9, <2>1, <2>3, <3>1
  <2> QED BY <2>2, <2>3
<1>12. X = H \o EntryPushes
  OBVIOUS
<1> HIDE DEF X
<1>13. /\ Len(X) = Len(H) + Len(EntryPushes)
      /\ \A i \in 1 .. Len(H) + Len(EntryPushes) :
            X[i] = IF i <= Len(H) THEN H[i] ELSE EntryPushes[i - Len(H)]
  BY <1>11, <1>12, <1>6, Joined, Zenon
<1>14. Len(X) = 24 /\ \A i \in 1 .. 24 : X[i] = IF i <= 7 THEN H[i] ELSE EntryPushes[i - 7]
  <2>1. Len(EntryPushes) = 17
    BY DEF EntryPushes
  <2> QED BY <1>11, <1>13, <2>1
<1>15. /\ Len(X) = 24 /\ X[24] = "rax" /\ X[23] = "rcx" /\ X[22] = "rdx" /\ X[21] = "rbx" /\ X[20] = "rbp"
      /\ X[19] = "rsi" /\ X[18] = "rdi" /\ X[17] = "r8" /\ X[16] = "r9" /\ X[15] = "r10" /\ X[14] = "r11"
      /\ X[13] = "r12" /\ X[12] = "r13" /\ X[11] = "r14" /\ X[10] = "r15" /\ X[9] = "fs" /\ X[8] = "gs"
      /\ X[7] = "intno" /\ X[6] = x /\ X[5] = "rip" /\ X[4] = "cs" /\ X[3] = "rflags" /\ X[2] = "rsp"
      /\ X[1] = "ss"
  BY <1>11, <1>14, SMTT(30) DEF EntryPushes
<1>16. ExceptionLayout[v] = Reverse(X)
  BY DEF ExceptionLayout, H, X
<1>17. DOMAIN ExceptionLayout[v] = 1 .. 24 /\ \A i \in 1 .. 24 : ExceptionLayout[v][i] = X[25 - i]
  BY <1>15, <1>16 DEF Reverse
<1> QED
  BY <1>1, <1>15, <1>17 DEF regstate
\* ... and after a system call, but for what rcx and r11 hold and what is skipped.
LEMMA SyscallWords ==
    /\ DOMAIN SyscallLayout = 1 .. 24
    /\ \A i \in 1 .. 24 : SyscallLayout[i] =
        IF i \in {2, 11, 19} THEN "skip" ELSE IF i = 20 THEN "rcx" ELSE IF i = 22 THEN "r11"
        ELSE regstate[i]
<1>1. \A i \in 1 .. 24 : i \in {1, 2, 3, 4, 5, 6, 7, 8, 9, 10, 11, 12, 13, 14, 15, 16, 17, 18,
                                19, 20, 21, 22, 23, 24}
  OBVIOUS
<1>2. Len(SyscallPushes) = 24
  BY DEF SyscallPushes
<1>3. DOMAIN SyscallLayout = 1 .. 24 /\ \A i \in 1 .. 24 : SyscallLayout[i] = SyscallPushes[25 - i]
  BY <1>2 DEF SyscallLayout, Reverse
<1> QED
  BY <1>1, <1>3 DEF SyscallPushes, regstate
\* exception_return restores every register from its place.
LEMMA ExceptionReturns ==
    ASSUME NEW rs
    PROVE  \A i \in 1 .. 24 \ {18, 19} : exception_return(rs)[regstate[i]] = rs[i]
<1>1. \A i \in 1 .. 24 : i \in {1, 2, 3, 4, 5, 6, 7, 8, 9, 10, 11, 12, 13, 14, 15, 16, 17, 18,
                                19, 20, 21, 22, 23, 24}
  OBVIOUS
<1>2. /\ DOMAIN PopOrder = 1 .. 24
      /\ \A i \in 1 .. 24 : PopOrder[i] = IF i \in {18, 19} THEN "skip" ELSE regstate[i]
  <2>1. DOMAIN PopOrder = 1 .. 24
    BY DEF PopOrder, IretRegs
  <2>2. \A i \in 1 .. 24 : PopOrder[i] = IF i \in {18, 19} THEN "skip" ELSE regstate[i]
    BY <1>1 DEF PopOrder, IretRegs, regstate
  <2> QED BY <2>1, <2>2
<1> SUFFICES ASSUME NEW i \in 1 .. 24 \ {18, 19}
             PROVE  exception_return(rs)[regstate[i]] = rs[i]
  OBVIOUS
<1>3. regstate[i] \in Regs /\ {k \in DOMAIN PopOrder : PopOrder[k] = regstate[i]} = {i}
  BY <1>2, Places
<1>4. (CHOOSE k \in {i} : TRUE) = i
  OBVIOUS
<1> QED
  BY <1>3, <1>4 DEF exception_return, Popped

\* What the entry code has saved: every register at its place, and the vector.
LEMMA ExceptionSaves ==
    ASSUME NEW v \in 0 .. Timer
    PROVE  /\ DOMAIN ExceptionFrame(v) = 1 .. 24
           /\ ExceptionFrame(v)[18] = v
           /\ v \in ErrorCodes => ExceptionFrame(v)[19] = "user"
           /\ \A i \in 1 .. 24 \ {18, 19} : ExceptionFrame(v)[i] = cpu[regstate[i]]
<1> DEFINE w == ExceptionLayout[v]
<1>1. /\ DOMAIN w = 1 .. 24 /\ w[18] = "intno"
      /\ \A i \in 1 .. 24 \ {18, 19} :
            w[i] = regstate[i] /\ w[i] \notin {"intno", "errcode", "zero", "skip"}
      /\ v \in ErrorCodes => w[19] = "errcode"
  BY ExceptionWords, Places
<1> HIDE DEF w
<1>2. \A i \in 1 .. 24 : ExceptionFrame(v)[i] =
            CASE w[i] = "intno"   -> v
              [] w[i] = "errcode" -> "user"
              [] w[i] = "zero"    -> "0"
              [] w[i] = "skip"    -> "stale"
              [] OTHER            -> cpu[w[i]]
  BY <1>1, Places DEF ExceptionFrame, AsRegstate, w
<1>3. DOMAIN ExceptionFrame(v) = 1 .. 24
  BY Places DEF ExceptionFrame, AsRegstate
<1>4. ExceptionFrame(v)[18] = v
  BY <1>1, <1>2
<1>5. v \in ErrorCodes => ExceptionFrame(v)[19] = "user"
  BY <1>1, <1>2
<1>6. ASSUME NEW i \in 1 .. 24 \ {18, 19} PROVE ExceptionFrame(v)[i] = cpu[regstate[i]]
  BY <1>1, <1>2
<1> QED
  BY <1>3, <1>4, <1>5, <1>6

\* What a system call does not clobber is saved.
LEMMA SyscallSaves ==
    ASSUME DOMAIN cpu = Regs, \A r \in Regs \ Clobbered : cpu[r] = r
    PROVE  /\ DOMAIN SyscallFrame = 1 .. 24
           /\ SyscallFrame[18] = SYSCALL
           /\ \A i \in 1 .. 24 : regstate[i] \in Regs \ Clobbered => SyscallFrame[i] = regstate[i]
<1> DEFINE w == SyscallLayout
           regs == [cpu EXCEPT !["rcx"] = cpu["rip"], !["r11"] = cpu["rflags"],
                               !["ss"] = "ss", !["cs"] = "cs"]
<1>1. /\ DOMAIN w = 1 .. 24 /\ w[18] = "intno" /\ w[20] = "rcx" /\ w[22] = "r11"
      /\ \A i \in 1 .. 24 \ {2, 11, 18, 19, 20, 22} : w[i] = regstate[i]
  BY SyscallWords, Places
<1> HIDE DEF w
<1>2. \A i \in 1 .. 24 : SyscallFrame[i] =
            CASE w[i] = "intno"   -> SYSCALL
              [] w[i] = "errcode" -> "user"
              [] w[i] = "zero"    -> "0"
              [] w[i] = "skip"    -> "stale"
              [] OTHER            -> regs[w[i]]
  BY <1>1, Places DEF SyscallFrame, AsRegstate, w
<1>3. DOMAIN SyscallFrame = 1 .. 24
  BY Places DEF SyscallFrame, AsRegstate
<1>4. SyscallFrame[18] = SYSCALL
  BY <1>1, <1>2
<1>5. /\ regstate[2] = "rcx" /\ regstate[11] = "r11" /\ regstate[20] = "rip" /\ regstate[22] = "rflags"
      /\ regstate[21] = "cs" /\ regstate[24] = "ss"
  BY DEF regstate
<1>6. \A i \in 1 .. 24 \ {18, 19} : regstate[i] \in Regs
  BY Places
<1>7. /\ {"rcx", "r11"} \subseteq Clobbered
      /\ "rip" \in Regs \ Clobbered /\ "rflags" \in Regs \ Clobbered
  BY <1>5, <1>6 DEF Clobbered
<1>8. /\ regs["rcx"] = "rip" /\ regs["r11"] = "rflags"
      /\ \A r \in Regs \ Clobbered : regs[r] = r
  BY <1>5, <1>6, <1>7
<1> HIDE DEF regs
<1>9. ASSUME NEW i \in 1 .. 24, regstate[i] \in Regs \ Clobbered
      PROVE  SyscallFrame[i] = regstate[i]
  <2>1. i \notin {2, 11, 18, 19}
    BY <1>5, <1>7, <1>9, Places DEF Regs
  <2>2. CASE i \in {20, 22}
    BY <1>1, <1>2, <1>5, <1>8, <2>2
  <2>3. CASE i \notin {20, 22}
    <3>1. w[i] = regstate[i] /\ regstate[i] \notin {"intno", "errcode", "zero", "skip"}
      BY <1>1, <2>1, <2>3, Places
    <3> QED BY <1>2, <1>8, <1>9, <3>1
  <2> QED BY <2>2, <2>3
<1> QED
  BY <1>3, <1>4, <1>9

\* syscall_return restores what a system call does not clobber: iretq's registers
\* from the frame, and the others have stayed.
LEMMA SyscallReturnsRegs ==
    ASSUME NEW rs, DOMAIN rs = 1 .. 24, rs = [i \in 1 .. 24 |-> rs[i]],
           NEW O \in SUBSET (Regs \ Clobbered),
           \A r \in O : cpu[r] = r,
           \A i \in 1 .. 24 : regstate[i] \in O => rs[i] = regstate[i]
    PROVE  \A r \in O : syscall_return(rs)[r] = r
<1> SUFFICES ASSUME NEW r \in O PROVE syscall_return(rs)[r] = r
  OBVIOUS
<1> DEFINE S == {rs[i] : i \in 1 .. 24}
           vals == SubSeq(rs, 20, Len(rs))
<1>1. rs \in Seq(S) /\ Len(rs) = 24
  <2>1. rs \in [1 .. 24 -> S]
    OBVIOUS
  <2>2. rs \in Seq(S)
    BY <2>1, SeqDef
  <2>3. Len(rs) \in Nat /\ DOMAIN rs = 1 .. Len(rs)
    BY <2>2, LenProperties
  <2> QED BY <2>2, <2>3
<1>2. /\ DOMAIN vals = 1 .. 5 /\ \A k \in 1 .. 5 : vals[k] = rs[19 + k]
  BY <1>1
<1> HIDE DEF vals, S
<1> DEFINE is == {i \in DOMAIN IretRegs : IretRegs[i] = r}
           stays == [q \in Regs |-> IF q \in CalleeSaved \cup {"fs", "gs"} THEN cpu[q]
                                    ELSE IF q = "rax" THEN "result" ELSE "other"]
<1>3. syscall_return(rs)[r] = IF is = {} THEN stays[r] ELSE vals[CHOOSE i \in is : TRUE]
  BY DEF syscall_return, Popped, vals
<1>4. /\ DOMAIN IretRegs = 1 .. 5
      /\ IretRegs[1] = "rip" /\ IretRegs[2] = "cs" /\ IretRegs[3] = "rflags" /\ IretRegs[4] = "rsp"
      /\ IretRegs[5] = "ss"
  BY DEF IretRegs
<1>5. /\ regstate[20] = "rip" /\ regstate[21] = "cs" /\ regstate[22] = "rflags" /\ regstate[23] = "rsp"
      /\ regstate[24] = "ss"
  BY DEF regstate
<1>6. CASE is = {}
  <2>1. r \notin {"rip", "cs", "rflags", "rsp", "ss"}
    BY <1>4, <1>6
  <2>2. r \in CalleeSaved \cup {"fs", "gs"}
    BY <2>1 DEF Regs, ToSet, regstate, Clobbered, CalleeSaved
  <2> QED BY <1>3, <1>6, <2>2
<1>7. ASSUME NEW k \in 1 .. 5, IretRegs[k] = r
      PROVE  syscall_return(rs)[r] = r
  <2>1. \A i \in 1 .. 5 : IretRegs[i] = r => i = k
    BY <1>4, <1>7
  <2>2. is = {k}
    BY <1>4, <1>7, <2>1
  <2>3. (CHOOSE i \in {k} : TRUE) = k
    OBVIOUS
  <2>4. syscall_return(rs)[r] = vals[k]
    BY <1>3, <2>2, <2>3
  <2>5. regstate[19 + k] = r
    BY <1>4, <1>5, <1>7
  <2> QED BY <1>2, <2>4, <2>5
<1> QED
  BY <1>4, <1>6, <1>7

-----------------------------------------------------------------------------
\* The saved registers of the observed process are those it relies on.
Kept == \A i \in 1 .. 24 : regstate[i] \in owed => saved[i] = regstate[i]

\* What a handler is told, and what becomes of the registers: in the processor
\* while the process runs, in its descriptor while it does not, in both during a
\* system call.  Nothing is owed any more once a handler has failed.
InHandler == pc \in {"trap", "handle"}
RegsType ==
    /\ owed \subseteq Regs /\ DOMAIN cpu = Regs
    /\ DOMAIN saved = 1 .. 24 /\ saved = [i \in 1 .. 24 |-> saved[i]]
InUse    == pc = "user" /\ current = "me" => \A r \in owed : cpu[r] = r
Stored   == InHandler \/ pc = "schedule" \/ (pc = "user" /\ current # "me") => Kept
InCall   == InHandler /\ current = "me" /\ intno = SYSCALL =>
                owed \subseteq Regs \ Clobbered /\ \A r \in owed : cpu[r] = r
Owing    == pc \in {"user", "schedule"} \/ (InHandler /\ cause # KernelPF) =>
                Regs \ Clobbered \subseteq owed
Idle     == pc \notin Running => owed = {}
Trapped  == HandlesWhatHappened /\ RegsType /\ InUse /\ Stored /\ InCall /\ Owing /\ Idle

\* The process's own registers, before and after a return.
LEMMA OwnRegs ==
    /\ DOMAIN OwnFrame = 1 .. 24 /\ OwnFrame = [i \in 1 .. 24 |-> OwnFrame[i]]
    /\ \A i \in 1 .. 24 \ {18} : OwnFrame[i] = regstate[i]
    /\ DOMAIN Own = Regs /\ \A r \in Regs : Own[r] = r
    /\ DOMAIN Other = Regs
    /\ \A rs : DOMAIN exception_return(rs) = Regs /\ DOMAIN syscall_return(rs) = Regs
    /\ "rax" \notin Regs \ Clobbered /\ regstate[1] = "rax"
<1>1. /\ DOMAIN OwnFrame = 1 .. 24 /\ OwnFrame = [i \in 1 .. 24 |-> OwnFrame[i]]
      /\ \A i \in 1 .. 24 \ {18} : OwnFrame[i] = regstate[i]
  BY Places DEF OwnFrame
<1>2. /\ DOMAIN Own = Regs /\ \A r \in Regs : Own[r] = r
      /\ DOMAIN Other = Regs
  BY DEF Own, Other
<1>3. \A rs : DOMAIN exception_return(rs) = Regs /\ DOMAIN syscall_return(rs) = Regs
  BY DEF exception_return, syscall_return, Popped
<1>4. "rax" \notin Regs \ Clobbered /\ regstate[1] = "rax"
  BY DEF Clobbered, regstate
<1> QED
  BY <1>1, <1>2, <1>3, <1>4

\* What is kept is what a return from an exception restores.
LEMMA Restores ==
    ASSUME owed \subseteq Regs, Kept
    PROVE  \A r \in owed : exception_return(saved)[r] = r
<1> SUFFICES ASSUME NEW r \in owed PROVE exception_return(saved)[r] = r
  OBVIOUS
<1>1. PICK i \in 1 .. 24 \ {18, 19} : r = regstate[i]
  BY Places
<1>2. exception_return(saved)[regstate[i]] = saved[i]
  BY ExceptionReturns
<1> QED
  BY <1>1, <1>2 DEF Kept

\* An exception or an interrupt of a process.
LEMMA ExceptionEnters ==
    ASSUME Trapped, NEW v \in 0 .. Timer, pc = "user", pc' = "trap",
           EntersWith(v, ExceptionFrame(v)), UNCHANGED owed
    PROVE  Trapped'
<1> DEFINE frame == ExceptionFrame(v)
<1>1. /\ DOMAIN frame = 1 .. 24 /\ frame[18] = v /\ (v \in ErrorCodes => frame[19] = "user")
      /\ \A i \in 1 .. 24 \ {18, 19} : frame[i] = cpu[regstate[i]]
  BY ExceptionSaves
<1>2. frame = [i \in 1 .. 24 |-> frame[i]]
  BY Places DEF ExceptionFrame, AsRegstate
<1> HIDE DEF frame
<1>3. /\ cause' = v /\ intno' = v /\ errcode' = frame[19]
      /\ saved' = (IF current = "me" THEN frame ELSE saved)
      /\ UNCHANGED <<current, cpu, owed>>
  BY <1>1, FieldAt DEF EntersWith, frame
<1>4. v # KernelPF /\ v # SYSCALL /\ INT_PF \in ErrorCodes
  BY DEF KernelPF, SYSCALL, Timer, ErrorCodes, INT_PF, INT_TS
<1>5. HandlesWhatHappened'
  BY <1>1, <1>3, <1>4 DEF HandlesWhatHappened
<1>6. RegsType'
  BY <1>1, <1>2, <1>3 DEF Trapped, RegsType
<1>7. Kept'
  <2>1. CASE current = "me"
    <3>1. ASSUME NEW i \in 1 .. 24, regstate[i] \in owed PROVE frame[i] = regstate[i]
      <4>1. i \notin {18, 19}
        BY <3>1, Places DEF Trapped, RegsType, Regs
      <4> QED BY <1>1, <2>1, <3>1, <4>1 DEF Trapped, InUse
    <3> QED BY <1>3, <2>1, <3>1 DEF Kept
  <2>2. CASE current # "me"
    BY <1>3, <2>2 DEF Trapped, Stored, Kept
  <2> QED BY <2>1, <2>2
<1>8. (InUse /\ InCall /\ Idle)'
  BY <1>3, <1>4 DEF InUse, InCall, Idle, Running
<1>9. Owing'
  BY <1>3 DEF Trapped, Owing
<1> QED
  BY <1>5, <1>6, <1>7, <1>8, <1>9 DEF Trapped, Stored

\* A system call of a process.
LEMMA SyscallEnters == ASSUME Trapped, Syscall, pc' = "trap" PROVE Trapped'
<1>1. pc = "user" /\ DOMAIN cpu = Regs
  BY DEF Syscall, Trapped, RegsType
<1>2. /\ cause' = SYSCALL /\ intno' = Field(SyscallFrame, "intno")
      /\ saved' = (IF current = "me" THEN SyscallFrame ELSE saved)
      /\ owed' = (IF current = "me" THEN Regs \ Clobbered ELSE owed)
      /\ UNCHANGED <<current, cpu>>
  BY DEF Syscall, EntersWith
<1>3. DOMAIN SyscallFrame = 1 .. 24 /\ SyscallFrame = [i \in 1 .. 24 |-> SyscallFrame[i]]
  BY Places DEF SyscallFrame, AsRegstate
<1>4. SyscallFrame[18] = SYSCALL
  BY Places, SyscallWords DEF SyscallFrame, AsRegstate
<1>5. current = "me" => \A r \in Regs \ Clobbered : cpu[r] = r
  BY <1>1 DEF Trapped, InUse, Owing
<1>6. current = "me" =>
        \A i \in 1 .. 24 : regstate[i] \in Regs \ Clobbered => SyscallFrame[i] = regstate[i]
  BY <1>1, <1>5, SyscallSaves
<1>7. intno' = SYSCALL /\ SYSCALL # KernelPF /\ SYSCALL # INT_PF
  BY <1>2, <1>4, FieldAt DEF SYSCALL, KernelPF, INT_PF
<1>8. HandlesWhatHappened'
  BY <1>2, <1>7 DEF HandlesWhatHappened
<1>9. RegsType'
  BY <1>2, <1>3 DEF Trapped, RegsType
<1>10. Kept'
  BY <1>1, <1>2, <1>6 DEF Kept, Trapped, Stored
<1>11. (InUse /\ InCall /\ Idle)'
  BY <1>2, <1>5 DEF InUse, InCall, Idle, Running
<1>12. Owing'
  BY <1>1, <1>2 DEF Owing, Trapped
<1> QED
  BY <1>8, <1>9, <1>10, <1>11, <1>12 DEF Trapped, Stored

\* The kernel's handlers, up to the return to a process.
LEMMA HandlersKeep == ASSUME Trapped, Handle, pc' # "dead" PROVE Trapped'
<1> USE DEF Goes, procVars, trapVars
<1> DEFINE Same == UNCHANGED <<cpu, saved, owed>>
<1>1. KernelPF # SYSCALL /\ INT_PF # SYSCALL /\ INT_PF # Timer /\ KernelPF # INT_PF
  BY DEF KernelPF, SYSCALL, INT_PF, Timer
<1>2. CASE NoKey
  <2>1. pc = "trap" /\ pc' = "handle" /\ UNCHANGED <<current, cause, intno, errcode>> /\ Same
    BY <1>2 DEF NoKey
  <2> QED
    BY <2>1 DEF Trapped, HandlesWhatHappened, RegsType, InUse, Stored, InCall, Owing, Kept, InHandler, Idle, Running
<1>3. CASE HandleTimer \/ HandleFault
  <2>1. /\ pc = "handle" /\ pc' \in {"schedule", "dead"} /\ Same
        /\ intno = Timer \/ (intno = INT_PF /\ errcode = "user")
    BY <1>3 DEF HandleTimer, HandleFault, Handling
  <2>2. cause # KernelPF
    BY <1>1, <2>1 DEF Trapped, HandlesWhatHappened
  <2> QED
    BY <2>1, <2>2 DEF Trapped, HandlesWhatHappened, RegsType, InUse, Stored, InCall, Owing, Kept,
                      InHandler, Idle, Running
<1>4. CASE HandleKernelFault \/ HandleOther \/ SyscallPanics \/ AssertFails
  <2>1. pc' \in {"failed", "backtrace", "dead"} /\ NoMore
    BY <1>4 DEF HandleKernelFault, HandleOther, SyscallPanics, AssertFails
  <2> QED
    BY <2>1, OwnRegs DEF Trapped, HandlesWhatHappened, RegsType, InUse, Stored, InCall, Owing,
                         NoMore, InHandler, Idle, Running
<1>5. CASE SyscallReturns
  <2>1. /\ pc = "handle" /\ intno = SYSCALL /\ pc' \in {"user", "dead"}
        /\ cpu' = (IF current = "me" THEN syscall_return(saved) ELSE Other)
        /\ UNCHANGED <<current, saved, owed>>
    BY <1>5 DEF SyscallReturns, Handling
  <2>2. cause # KernelPF
    BY <1>1, <2>1 DEF Trapped, HandlesWhatHappened
  <2>3. current = "me" => \A r \in owed : syscall_return(saved)[r] = r
    BY <2>1, SyscallReturnsRegs DEF Trapped, RegsType, Stored, InCall, Kept, InHandler, Idle, Running
  <2> QED
    BY <2>1, <2>2, <2>3, OwnRegs DEF Trapped, HandlesWhatHappened, RegsType, InUse, Stored, InCall,
                                     Owing, Kept, InHandler, Idle, Running
<1>6. CASE SyscallSchedules
  <2>1. /\ pc = "handle" /\ intno = SYSCALL /\ pc' \in {"schedule", "dead"}
        /\ UNCHANGED <<current, cpu, owed>>
        /\ saved' = saved \/ (current = "me" /\ saved' = [saved EXCEPT ![1] = "0"])
    BY <1>6 DEF SyscallSchedules, Handling
  <2>2. cause # KernelPF
    BY <1>1, <2>1 DEF Trapped, HandlesWhatHappened
  <2>3. current = "me" => regstate[1] \notin owed
    BY <2>1, OwnRegs DEF Trapped, InCall, InHandler, Idle, Running
  <2>4. /\ DOMAIN saved' = 1 .. 24 /\ saved' = [i \in 1 .. 24 |-> saved'[i]]
        /\ \A i \in 2 .. 24 : saved'[i] = saved[i]
        /\ current # "me" => saved' = saved
    BY <2>1 DEF Trapped, RegsType
  <2>5. Kept'
    BY <2>1, <2>3, <2>4 DEF Trapped, Stored, Kept, InHandler, Idle, Running
  <2> QED
    BY <2>1, <2>2, <2>4, <2>5 DEF Trapped, HandlesWhatHappened, RegsType, InUse, Stored, InCall,
                                  Owing, InHandler, Idle, Running
<1>7. CASE \E p \in {"me", "other"} : Resume(p)
  <2>1. PICK p \in {"me", "other"} : Resume(p)
    BY <1>7
  <2>2. /\ pc = "schedule" /\ pc' \in {"user", "dead"} /\ current' = p
        /\ cpu' = (IF p = "me" THEN exception_return(saved) ELSE Other)
        /\ UNCHANGED <<saved, owed>>
    BY <2>1 DEF Resume
  <2>3. \A r \in owed : exception_return(saved)[r] = r
    BY <2>2, Restores DEF Trapped, RegsType, Stored
  <2> QED
    BY <2>2, <2>3, OwnRegs DEF Trapped, HandlesWhatHappened, RegsType, InUse, Stored, InCall,
                               Owing, Kept, InHandler, Idle, Running
<1> QED
  BY <1>2, <1>3, <1>4, <1>5, <1>6, <1>7 DEF Handle

\* Every step keeps what a process relies on.
LEMMA TrappedNext == Sound /\ Sound' /\ Trapped /\ [MachineNext]_allVars => Trapped'
<1> SUFFICES ASSUME Sound, Sound', Trapped, [MachineNext]_allVars PROVE Trapped'
  OBVIOUS
<1> DEFINE Away == pc' \notin Running
<1>1. pc' # "dead"
  BY DEF Sound, MachineType, OnBoot, OnKernel
<1>2. ASSUME Away, (pc \notin Running /\ UNCHANGED trapVars) \/ NoMore PROVE Trapped'
  BY <1>2, OwnRegs DEF Trapped, HandlesWhatHappened, RegsType, InUse, Stored, InCall, Owing,
                       InHandler, Idle, Running, trapVars, NoMore
<1>3. CASE UNCHANGED <<pc, cause, intno, errcode, current, trapVars>>
  BY <1>3 DEF Trapped, HandlesWhatHappened, RegsType, InUse, Stored, InCall, Owing, InHandler, Idle, Running,
              trapVars, Kept
<1>4. CASE boot_start \/ boot
  BY <1>2, <1>4, InitOrder DEF boot_start, boot, Goes, Running
<1>5. CASE kernel /\ ~ RunFirst
  BY <1>2, <1>5, InitOrder
     DEF kernel, StashData, InitSegments, ClearPagetable, FillPagetable, LoadPagetable,
         InitInterrupts, NoApic, InitCpuState, InitLapic, TimerOn, StartPrograms, LoadProgram,
         Elsewhere, InitNext, Goes, Running
<1>6. CASE RunFirst
  <2>1. /\ pc' \in {"user", "dead"} /\ current' = "me"
        /\ saved' = OwnFrame /\ cpu' = exception_return(OwnFrame) /\ owed' = Regs
    BY <1>6 DEF RunFirst, Goes
  <2>2. ASSUME NEW r \in Regs PROVE exception_return(OwnFrame)[r] = r
    <3>1. PICK i \in 1 .. 24 \ {18, 19} : r = regstate[i]
      BY Places
    <3>2. exception_return(OwnFrame)[regstate[i]] = OwnFrame[i]
      BY ExceptionReturns
    <3> QED
      BY <3>1, <3>2, OwnRegs
  <2> QED
    BY <1>1, <2>1, <2>2, OwnRegs DEF Trapped, HandlesWhatHappened, RegsType, InUse, Stored, InCall, Owing,
                               InHandler, Idle, Running
<1>7. CASE reboot
  BY <1>2, <1>7, InitOrder, RebootOrder
     DEF reboot, TimerOff, TempPagetable, LoadTemp, RestoreData, Restart, Elsewhere, RebootNext, Goes, Running
<1>8. CASE poweroff \/ Halted \/ Tick
  BY <1>3, <1>8 DEF poweroff, Halted, Tick, machineVars, procVars
<1>9. CASE Debug
  <2>1. CASE KernelFault
    <3>1. /\ pc' \in {"trap", "dead"} /\ cause' = KernelPF /\ intno' = INT_PF /\ errcode' = "kernel"
          /\ UNCHANGED <<current, cpu, saved, owed>>
      BY <2>1 DEF KernelFault, Goes, trapVars
    <3>2. pc = "backtrace" /\ owed = {} /\ KernelPF # INT_PF /\ INT_PF # SYSCALL
      BY <2>1 DEF KernelFault, Trapped, Idle, Running, KernelPF, INT_PF, SYSCALL
    <3> QED
      BY <1>1, <3>1, <3>2 DEF Trapped, HandlesWhatHappened, RegsType, InUse, Stored, InCall, Owing,
                               Kept, InHandler, Idle, Running
  <2>2. CASE BacktraceFrame \/ BacktraceDone
    BY <1>2, <2>2 DEF BacktraceFrame, BacktraceDone, Goes, procVars, Running
  <2> QED BY <1>9, <2>1, <2>2 DEF Debug
<1>10. CASE Interrupt
  <2>1. Timer \in 0 .. Timer
    BY DEF Timer
  <2> QED
    BY <1>1, <1>10, <2>1, ExceptionEnters DEF Interrupt, Goes
<1>11. CASE UserCode
  BY <1>11, OwnRegs DEF UserCode, Trapped, HandlesWhatHappened, RegsType, InUse, Stored, InCall, Owing,
                       InHandler, Idle, Running, procVars
<1>12. CASE Trap
  <2>1. CASE Syscall
    BY <1>1, <2>1, SyscallEnters DEF Syscall, Goes
  <2>2. ASSUME NEW v \in Vectors \cup {INT_PF}, Exception(v) PROVE Trapped'
    <3>1. v \in 0 .. Timer
      BY MachineAssumption DEF INT_PF, Timer
    <3> QED
      BY <1>1, <2>2, <3>1, ExceptionEnters DEF Exception, Goes
  <2> QED BY <1>12, <2>1, <2>2 DEF Trap
<1>13. CASE Handle
  BY <1>1, <1>13, HandlersKeep
<1>14. CASE Keys
  BY <1>2, <1>14, RebootOrder DEF Keys, OffKey, RebootKey, Goes, Running
<1>15. CASE UNCHANGED allVars
  BY <1>3, <1>15 DEF allVars, machineVars, procVars
<1> QED
  BY <1>4, <1>5, <1>6, <1>7, <1>8, <1>9, <1>10, <1>11, <1>12, <1>13, <1>14, <1>15
     DEF MachineNext, Code

\* Nothing is owed before the first process runs.
LEMMA TrappedInit == MachineInit => Trapped
BY OwnRegs DEF MachineInit, Trapped, HandlesWhatHappened, RegsType, InUse, Stored, InCall, Owing,
               InHandler, Idle, Running

(***************************************************************************)
(* Whatever a process runs into, exception() and syscall() are told that,  *)
(* and a page fault is taken for the kernel's only if it is: the stack     *)
(* that the processor and the entry code leave has the layout of regstate, *)
(* with an error code or without (k-exception.S:46).                       *)
(***************************************************************************)
THEOREM Handled == MachineSpec => []HandlesWhatHappened
<1>1. Trapped => HandlesWhatHappened
  BY DEF Trapped
<1> QED
  BY <1>1, SoundInit, SoundNext, TrappedInit, TrappedNext, PTL DEF MachineSpec

(***************************************************************************)
(* A process finds the registers it relies on, after any number of         *)
(* interrupts, exceptions and system calls, returned from directly or      *)
(* through the scheduler, with others running in between.                  *)
(***************************************************************************)
THEOREM RegistersKept == MachineSpec => []RegistersSurvive
<1>1. Trapped => RegistersSurvive
  BY DEF Trapped, InUse, RegistersSurvive
<1> QED
  BY <1>1, SoundInit, SoundNext, TrappedInit, TrappedNext, PTL DEF MachineSpec
-----------------------------------------------------------------------------
(***************************************************************************)
(* The boot loader.                                                        *)
(***************************************************************************)
\* Quotient and remainder ...
LEMMA DivMod ==
    ASSUME NEW x \in Int, NEW d \in Nat, d > 0
    PROVE  /\ x \div d \in Int /\ x % d \in 0 .. d - 1 /\ x = d * (x \div d) + (x % d)
           /\ x >= 0 => x \div d >= 0
  BY Z3

\* ... and there is one of each.
LEMMA DivOne ==
    ASSUME NEW x \in Int, NEW d \in Nat, d > 0, NEW q \in Int, NEW r \in 0 .. d - 1,
           x = d * q + r
    PROVE  x \div d = q /\ x % d = r
<1> DEFINE y == x \div d
           s == x % d
<1>1. y \in Int /\ s \in 0 .. d - 1 /\ x = d * y + s
  BY DivMod
<1> HIDE DEF y, s
<1>2. d * (y - q) = r - s
  BY <1>1, Z3
<1>3. ~ (y > q) /\ ~ (y < q)
  <2>1. ASSUME y > q PROVE FALSE
    <3>1. y - q >= 1 BY <1>1, <2>1
    <3>2. d * (y - q) >= d BY <3>1, <1>1, Z3
    <3>3. QED BY <1>1, <1>2, <3>2
  <2>2. ASSUME y < q PROVE FALSE
    <3>1. q - y >= 1 BY <1>1, <2>2
    <3>2. d * (q - y) >= d BY <3>1, <1>1, Z3
    <3>3. d * (q - y) = - (d * (y - q)) BY <1>1, Z3
    <3>4. QED BY <1>1, <1>2, <3>2, <3>3
  <2>3. QED BY <2>1, <2>2
<1>4. y = q BY <1>1, <1>3
<1>5. s = r BY <1>1, <1>4
<1>6. QED BY <1>4, <1>5 DEF y, s

-----------------------------------------------------------------------------
\* What boot_readseg is working on: the header, or a segment.
Wanted ==
    IF bpc = "header"
    THEN [p_va |-> ELFHDR, p_offset |-> 0, p_filesz |-> HeaderSize, p_memsz |-> HeaderSize]
    ELSE image.ph[seg]
Loads == bpc \in {"header", "segment"}

BootType ==
    /\ image \in Images /\ mem \in [0 .. MemTop - 1 -> Int]
    /\ bpc \in {"header", "check", "ph", "segment", "done"}
    /\ seg \in 0 .. Len(image.ph) /\ (bpc = "segment" => seg > 0)
    /\ bpc \in {"header", "check"} => seg = 0
    /\ job \in [ptr : Nat, src_sect : Nat, end_ptr : Nat, memsz : Nat]
    /\ ide \in [state : {"ready", "busy", "data"}, sect : Nat]

\* The next sector is the one for the next address ...
InStep ==
    Loads =>
        /\ job.end_ptr = Wanted.p_va + Wanted.p_filesz /\ job.memsz = Wanted.p_va + Wanted.p_memsz
        /\ \E k \in Nat :
            /\ job.ptr = SECTORSIZE * (Wanted.p_va \div SECTORSIZE + k)
            /\ job.src_sect = KERNEL_START_SECTOR + (Wanted.p_offset \div SECTORSIZE + k)

\* ... and the one that the disk looks for.
DiskInStep == ide.state # "ready" => Reading /\ ide.sect = job.src_sect

\* What has been read is what the file has there.
ReadSoFar ==
    Loads => \A a \in 0 .. MemTop - 1 :
        Wanted.p_va <= a /\ a < job.end_ptr /\ a < job.ptr
            => mem[a] = Wanted.p_offset + (a - Wanted.p_va) + 1

\* The loader, the header and the segments that are in stay as they are.
KeepStays   == \A a \in Keep : mem[a] = BootByte
HeaderStays == bpc \in {"check", "ph", "segment"} => HeaderIsThere
Finished    == IF bpc = "segment" THEN seg - 1 ELSE seg
SegmentsStay ==
    bpc \in {"ph", "segment"} => \A i \in 1 .. Finished :
        \A a \in InMemory(image.ph[i]) : mem[a] = Segment(image.ph[i])[a]

BootInv == /\ BootType /\ InStep /\ DiskInStep /\ ReadSoFar
           /\ KeepStays /\ HeaderStays /\ SegmentsStay

-----------------------------------------------------------------------------
\* Sectors.
LEMMA Sectors ==
    ASSUME NEW v \in Nat
    PROVE  /\ SECTORSIZE \in Nat /\ SECTORSIZE > 0 /\ v \div SECTORSIZE \in Nat
           /\ RoundDown(v, SECTORSIZE) = SECTORSIZE * (v \div SECTORSIZE)
           /\ RoundDown(v, SECTORSIZE) \in Nat
           /\ RoundDown(v, SECTORSIZE) <= v /\ v < RoundDown(v, SECTORSIZE) + SECTORSIZE
<1> DEFINE S == SECTORSIZE
           q == v \div S
           r == v % S
<1>1. S \in Nat /\ S > 0 BY BootAssumption
<1>2. q \in Int /\ r \in 0 .. S - 1 /\ v = S * q + r /\ q >= 0 BY <1>1, DivMod
<1>3. RoundDown(v, S) = v - r BY DEF RoundDown
<1> HIDE DEF S, q, r
<1>4. S * q \in Int BY <1>1, <1>2
<1>5. v - r = S * q BY <1>1, <1>2, <1>4
<1>6. S * q >= 0 BY <1>1, <1>2, Z3
<1>7. QED BY <1>1, <1>2, <1>3, <1>4, <1>5, <1>6 DEF S, q, r

\* The addresses of a sector that is read to p.
LEMMA InSector ==
    ASSUME NEW m \in Nat, NEW a \in Nat,
           SECTORSIZE * m <= a, a < SECTORSIZE * m + SECTORSIZE
    PROVE  RoundDown(a, SECTORSIZE) = SECTORSIZE * m
<1> DEFINE S == SECTORSIZE
           r == a - S * m
<1>1. S \in Nat /\ S > 0 BY BootAssumption
<1>2. S * m \in Int BY <1>1
<1>3. r \in 0 .. S - 1 /\ a = S * m + r BY <1>1, <1>2
<1> HIDE DEF r
<1>4. a \div S = m BY <1>1, <1>3, DivOne
<1>5. QED BY <1>4, Sectors

\* Where the bytes of a sector are from: the sectors of the file and those of the
\* memory begin at the same bytes.
LEMMA SectorOffset ==
    ASSUME NEW v \in Nat, NEW o \in Nat, v % SECTORSIZE = o % SECTORSIZE, NEW k \in Nat, NEW a \in Nat
    PROVE  (o \div SECTORSIZE + k) * SECTORSIZE + (a - SECTORSIZE * (v \div SECTORSIZE + k)) = o + (a - v)
<1> DEFINE S == SECTORSIZE
           x == v \div S
           y == o \div S
           r == v % S
<1>1. S \in Nat /\ S > 0 BY BootAssumption
<1>2. x \in Int /\ r \in 0 .. S - 1 /\ v = S * x + r BY <1>1, DivMod
<1>3. y \in Int /\ o = S * y + r
  <2>1. y \in Int /\ o = S * y + (o % S) BY <1>1, DivMod
  <2>2. QED BY <2>1
<1> HIDE DEF S, x, y, r
<1>4. (y + k) * S = S * y + S * k BY <1>1, <1>3, Z3
<1>5. S * (x + k) = S * x + S * k BY <1>1, <1>2, Z3
<1>6. S * x \in Int /\ S * y \in Int /\ S * k \in Int BY <1>1, <1>2, <1>3
<1>7. (y + k) * S + (a - S * (x + k)) = o + (a - v) BY <1>2, <1>3, <1>4, <1>5, <1>6
<1>8. QED BY <1>7 DEF S, x, y, r

\* What is wanted is in the file, and falls on nothing else.
LEMMA WantedFits ==
    ASSUME BootType, Loads
    PROVE  LET w == Written(Wanted.p_va, Wanted.p_filesz, Wanted.p_memsz) IN
           /\ Wanted \in ProgramHeader
           /\ Wanted.p_va % SECTORSIZE = Wanted.p_offset % SECTORSIZE
           /\ Wanted.p_offset + Wanted.p_filesz <= image.size /\ image.size \in Nat
           /\ Wanted.p_va + Wanted.p_memsz <= MemTop
           /\ w \cap Keep = {}
           /\ bpc = "segment" => /\ seg \in DOMAIN image.ph
                                 /\ w \cap Header = {}
                                 /\ \A j \in 1 .. seg - 1 : w \cap InMemory(image.ph[j]) = {}
<1>1. image \in [magic : BOOLEAN, size : Nat, ph : Seq(ProgramHeader)] /\ ImageFits(image)
  BY ImageAssumption DEF BootType
<1>2. CASE bpc = "header"
  <2> DEFINE h == [p_va |-> ELFHDR, p_offset |-> 0, p_filesz |-> HeaderSize, p_memsz |-> HeaderSize]
  <2>1. Wanted = h BY <1>2 DEF Wanted
  <2>2. h \in ProgramHeader BY BootAssumption DEF ProgramHeader
  <2>3. h.p_va = ELFHDR /\ h.p_offset = 0 /\ h.p_filesz = HeaderSize /\ h.p_memsz = HeaderSize
    OBVIOUS
  <2>4. 0 % SECTORSIZE = 0 /\ HeaderSize \in Nat BY BootAssumption
  <2>5. HeaderSize <= image.size /\ image.size \in Nat BY <1>1 DEF ImageFits
  <2> HIDE DEF h
  <2>6. 0 + HeaderSize <= image.size BY <2>4, <2>5
  <2>7. QED BY <1>2, <2>1, <2>2, <2>3, <2>4, <2>5, <2>6, ImageAssumption
<1>3. CASE bpc = "segment"
  <2>1. Wanted = image.ph[seg] BY <1>3 DEF Wanted
  <2>2. image.ph \in Seq(ProgramHeader) /\ image.size \in Nat BY <1>1
  <2>3. seg \in 1 .. Len(image.ph) /\ Len(image.ph) \in Nat BY <1>3, <2>2 DEF BootType
  <2>4. DOMAIN image.ph = 1 .. Len(image.ph) BY <2>2
  <2>5. image.ph[seg] \in ProgramHeader BY <2>2, <2>3
  <2>6. QED BY <1>1, <1>3, <2>1, <2>2, <2>3, <2>4, <2>5 DEF ImageFits
<1>4. QED BY <1>2, <1>3 DEF Loads

\* Writing what is wanted leaves everything else.
LEMMA OthersStay ==
    ASSUME BootInv, Loads, UNCHANGED image,
           \A a \in (0 .. MemTop - 1) \ Written(Wanted.p_va, Wanted.p_filesz, Wanted.p_memsz) :
                mem'[a] = mem[a]
    PROVE  /\ KeepStays'
           /\ bpc = "segment" =>
                /\ HeaderIsThere'
                /\ \A i \in 1 .. seg - 1 : \A a \in InMemory(image.ph[i]) :
                        mem'[a] = Segment(image.ph[i])[a]
<1> DEFINE w == Written(Wanted.p_va, Wanted.p_filesz, Wanted.p_memsz)
<1>1. BootType BY DEF BootInv
<1>2. /\ w \cap Keep = {}
      /\ bpc = "segment" => /\ w \cap Header = {}
                            /\ \A j \in 1 .. seg - 1 : w \cap InMemory(image.ph[j]) = {}
  BY <1>1, WantedFits
<1>3. Keep \subseteq 0 .. MemTop - 1 /\ Header \subseteq 0 .. MemTop - 1
  BY BootAssumption, ImageAssumption DEF Header
<1>4. \A a \in 0 .. MemTop - 1 : a \notin w => mem'[a] = mem[a] OBVIOUS
<1> HIDE DEF w
<1>5. KeepStays' BY <1>2, <1>3, <1>4 DEF BootInv, KeepStays
<1>6. ASSUME bpc = "segment" PROVE HeaderIsThere'
  <2>1. HeaderIsThere BY <1>6 DEF BootInv, HeaderStays
  <2>2. ASSUME NEW o \in 0 .. HeaderSize - 1 PROVE mem'[ELFHDR + o] = o + 1
    <3>1. ELFHDR + o \in Header BY BootAssumption DEF Header
    <3>2. mem'[ELFHDR + o] = mem[ELFHDR + o] BY <1>2, <1>3, <1>4, <1>6, <3>1
    <3>3. QED BY <2>1, <3>2 DEF HeaderIsThere
  <2>3. QED BY <2>2 DEF HeaderIsThere
<1>7. ASSUME bpc = "segment", NEW i \in 1 .. seg - 1, NEW a \in InMemory(image.ph[i])
      PROVE  mem'[a] = Segment(image.ph[i])[a]
  <2>1. image \in [magic : BOOLEAN, size : Nat, ph : Seq(ProgramHeader)] /\ ImageFits(image)
    BY <1>1, ImageAssumption DEF BootType
  <2>2. image.ph \in Seq(ProgramHeader) BY <2>1
  <2>3. i \in 1 .. Len(image.ph) /\ DOMAIN image.ph = 1 .. Len(image.ph) BY <1>1, <2>2 DEF BootType
  <2>4. image.ph[i] \in ProgramHeader BY <2>2, <2>3
  <2>5. image.ph[i].p_va + image.ph[i].p_memsz <= MemTop BY <2>1, <2>3 DEF ImageFits
  <2>6. a \in 0 .. MemTop - 1 BY <2>4, <2>5, BootAssumption DEF InMemory, ProgramHeader
  <2>7. a \notin w BY <1>2, <1>7
  <2>8. mem'[a] = mem[a] BY <1>4, <2>6, <2>7
  <2>9. mem[a] = Segment(image.ph[i])[a] BY <1>7 DEF BootInv, SegmentsStay, Finished
  <2>10. QED BY <2>8, <2>9
<1>8. QED BY <1>5, <1>6, <1>7

\* boot_readsect takes in a sector.
LEMMA ReadWordsInv == ASSUME BootInv, ReadWords PROVE BootInv'
<1> DEFINE S == SECTORSIZE
           v == Wanted.p_va
           o == Wanted.p_offset
           z == Wanted.p_filesz
           p == job.ptr
<1>1. Loads /\ p < job.end_ptr /\ ide.state = "data" /\ ide.sect = job.src_sect
  BY DEF ReadWords, Reading, Loads, Waited, BootInv, DiskInStep
<1>2. BootType BY DEF BootInv
<1>3. Wanted \in ProgramHeader /\ v % S = o % S /\ o + z <= image.size /\ image.size \in Nat
  BY <1>1, <1>2, WantedFits
<1>4. v \in Nat /\ o \in Nat /\ z \in Nat BY <1>3 DEF ProgramHeader
<1>5. PICK k \in Nat : p = S * (v \div S + k) /\ job.src_sect = KERNEL_START_SECTOR + (o \div S + k)
  BY <1>1 DEF BootInv, InStep
<1>6. S \in Nat /\ S > 0 /\ v \div S \in Nat /\ o \div S \in Nat BY <1>4, Sectors
<1>7. job.end_ptr = v + z /\ job.memsz = v + Wanted.p_memsz BY <1>1 DEF BootInv, InStep
<1>8. /\ UNCHANGED <<image, bpc, seg>> /\ Wanted' = Wanted /\ Loads'
      /\ ide' = [ide EXCEPT !.state = "ready"]
      /\ job' = [job EXCEPT !.ptr = @ + S, !.src_sect = @ + 1]
  BY <1>1 DEF ReadWords, Wanted, Loads
<1>9. job \in [ptr : Nat, src_sect : Nat, end_ptr : Nat, memsz : Nat]
  BY <1>2 DEF BootType
<1>10. /\ job'.ptr = p + S /\ job'.src_sect = job.src_sect + 1
       /\ job'.end_ptr = job.end_ptr /\ job'.memsz = job.memsz
  BY <1>8, <1>9
<1>11. DOMAIN mem = 0 .. MemTop - 1 /\ p \in Nat BY <1>2 DEF BootType
<1>12. ASSUME NEW a \in 0 .. MemTop - 1
       PROVE  mem'[a] = IF a \in p .. p + S - 1 THEN Sector(ide.sect)[a - p] ELSE mem[a]
  BY <1>1, <1>11 DEF ReadWords
<1>13. ASSUME NEW a \in 0 .. MemTop - 1, a \in p .. p + S - 1
       PROVE  a \in Written(v, z, Wanted.p_memsz)
  <2>1. a \in Nat /\ v \div S + k \in Nat /\ S * (v \div S + k) <= a /\ a < S * (v \div S + k) + S
    BY <1>5, <1>6, <1>11, <1>13
  <2>2. RoundDown(a, S) = S * (v \div S + k) BY <2>1, InSector
  <2>3. RoundDown(a, S) < v + z BY <1>1, <1>5, <1>7, <2>2
  <2>4. RoundDown(v, S) = S * (v \div S) BY <1>4, Sectors
  <2>5. S * (v \div S + k) = S * (v \div S) + S * k BY <1>6, Z3
  <2>6. S * k >= 0 /\ S * k \in Int /\ S * (v \div S) \in Int BY <1>6, Z3
  <2>7. RoundDown(v, S) <= a BY <2>1, <2>4, <2>5, <2>6
  <2>8. QED BY <1>13, <2>3, <2>7 DEF Written
<1>14. ASSUME NEW a \in 0 .. MemTop - 1, a \in p .. p + S - 1
       PROVE  /\ mem'[a] \in Int
              /\ v <= a /\ a < job.end_ptr => mem'[a] = o + (a - v) + 1
  <2> DEFINE i == a - p
             b == (ide.sect - KERNEL_START_SECTOR) * S + i
  <2>1. i \in 0 .. S - 1 BY <1>6, <1>11, <1>14
  <2>2. mem'[a] = IF b < 0 THEN BootByte ELSE IF b < image.size THEN b + 1 ELSE Garbage
    BY <1>12, <1>14, <2>1 DEF Sector
  <2>3. ide.sect - KERNEL_START_SECTOR = o \div S + k
    BY <1>1, <1>5, <1>6 DEF KERNEL_START_SECTOR
  <2>4. b = (o \div S + k) * S + (a - S * (v \div S + k)) BY <1>5, <2>3
  <2>5. b = o + (a - v) BY <1>3, <1>4, <2>4, SectorOffset
  <2> HIDE DEF b
  <2>6. b \in Int BY <1>4, <2>5
  <2>7. mem'[a] \in Int BY <2>2, <2>6 DEF BootByte, Garbage
  <2>8. ASSUME v <= a, a < job.end_ptr PROVE mem'[a] = o + (a - v) + 1
    <3>1. b >= 0 /\ b < image.size BY <1>3, <1>4, <1>7, <2>5, <2>8
    <3>2. QED BY <1>3, <2>2, <2>5, <2>6, <3>1
  <2>9. QED BY <2>7, <2>8
<1> HIDE DEF S, v, o, z, p
<1>15. BootType'
  <2>1. mem' \in [0 .. MemTop - 1 -> Int]
    <3>1. mem' = [a \in 0 .. MemTop - 1 |-> mem'[a]] BY <1>11 DEF ReadWords
    <3>2. \A a \in 0 .. MemTop - 1 : mem'[a] \in Int BY <1>2, <1>12, <1>14 DEF BootType
    <3>3. QED BY <3>1, <3>2
  <2>2. job' \in [ptr : Nat, src_sect : Nat, end_ptr : Nat, memsz : Nat]
    <3>1. job.ptr + S \in Nat /\ job.src_sect + 1 \in Nat /\ job.end_ptr \in Nat /\ job.memsz \in Nat
      BY <1>6, <1>9
    <3>2. job' = [ptr |-> job.ptr + S, src_sect |-> job.src_sect + 1,
                  end_ptr |-> job.end_ptr, memsz |-> job.memsz]
      BY <1>8, <1>9
    <3>3. QED BY <3>1, <3>2
  <2>3. ide' \in [state : {"ready", "busy", "data"}, sect : Nat] BY <1>2, <1>8 DEF BootType
  <2>4. QED BY <1>2, <1>8, <2>1, <2>2, <2>3 DEF BootType
<1>16. InStep'
  <2>1. job'.ptr = S * (v \div S + (k + 1))
    <3>1. S * (v \div S + (k + 1)) = S * (v \div S + k) + S BY <1>6, Z3
    <3>2. QED BY <1>5, <1>10, <3>1
  <2>2. job'.src_sect = KERNEL_START_SECTOR + (o \div S + (k + 1))
    BY <1>5, <1>6, <1>10 DEF KERNEL_START_SECTOR
  <2>3. job'.end_ptr = v + z /\ job'.memsz = v + Wanted.p_memsz BY <1>7, <1>10
  <2>4. k + 1 \in Nat OBVIOUS
  <2>5. QED BY <1>8, <2>1, <2>2, <2>3, <2>4 DEF InStep, S, v, o, z
<1>17. DiskInStep' BY <1>2, <1>8 DEF DiskInStep, BootType
<1>18. ReadSoFar'
  <2>1. ASSUME NEW a \in 0 .. MemTop - 1, v <= a, a < job.end_ptr, a < p + S
        PROVE  mem'[a] = o + (a - v) + 1
    <3>1. CASE a \in p .. p + S - 1 BY <1>14, <2>1, <3>1
    <3>2. CASE a \notin p .. p + S - 1
      <4>1. a < p /\ mem'[a] = mem[a] BY <1>6, <1>11, <1>12, <2>1, <3>2
      <4>2. QED BY <1>1, <2>1, <4>1 DEF BootInv, ReadSoFar, v, o, p
    <3>3. QED BY <3>1, <3>2
  <2>2. QED BY <1>8, <1>10, <2>1 DEF ReadSoFar, v, o
<1>19. \A a \in (0 .. MemTop - 1) \ Written(v, z, Wanted.p_memsz) : mem'[a] = mem[a]
  BY <1>12, <1>13
<1>20. /\ KeepStays'
       /\ bpc = "segment" =>
            /\ HeaderIsThere'
            /\ \A i \in 1 .. seg - 1 : \A a \in InMemory(image.ph[i]) :
                    mem'[a] = Segment(image.ph[i])[a]
  BY <1>1, <1>8, <1>19, OthersStay DEF v, z
<1>21. HeaderStays' /\ SegmentsStay'
  <2>1. bpc \in {"header", "segment"} BY <1>1 DEF Loads
  <2>2. HeaderStays' BY <1>8, <1>20, <2>1 DEF HeaderStays
  <2>3. SegmentsStay' BY <1>8, <1>20, <2>1 DEF SegmentsStay, Finished
  <2>4. QED BY <2>2, <2>3
<1>22. QED BY <1>15, <1>16, <1>17, <1>18, <1>20, <1>21 DEF BootInv

\* Waiting for the disk.
LEMMA DiskInv == ASSUME BootInv, ReadCommand \/ DiskFinds PROVE BootInv'
<1>1. UNCHANGED <<image, mem, bpc, seg, job>> BY DEF ReadCommand, DiskFinds
<1>2. ide' \in [state : {"ready", "busy", "data"}, sect : Nat]
  <2>1. job.src_sect \in Nat /\ ide \in [state : {"ready", "busy", "data"}, sect : Nat]
    BY DEF BootInv, BootType
  <2>2. QED BY <2>1 DEF ReadCommand, DiskFinds
<1>3. DiskInStep'
  <2>1. CASE ReadCommand
    <3>1. Reading /\ ide'.sect = job.src_sect BY <2>1 DEF ReadCommand
    <3>2. QED BY <1>1, <3>1 DEF DiskInStep, Reading
  <2>2. CASE DiskFinds
    <3>1. ide.state # "ready" /\ ide'.sect = ide.sect BY <2>2 DEF DiskFinds, BootInv, BootType
    <3>2. QED BY <1>1, <3>1 DEF BootInv, DiskInStep, Reading
  <2>3. QED BY <2>1, <2>2
<1>4. Wanted' = Wanted /\ Loads' = Loads BY <1>1 DEF Wanted, Loads
<1>5. BootType' BY <1>1, <1>2 DEF BootInv, BootType
<1>6. InStep' /\ ReadSoFar' BY <1>1, <1>4 DEF BootInv, InStep, ReadSoFar
<1>7. KeepStays' /\ HeaderStays' /\ SegmentsStay'
  BY <1>1 DEF BootInv, KeepStays, HeaderStays, HeaderIsThere, SegmentsStay, Finished
<1>8. QED BY <1>3, <1>5, <1>6, <1>7 DEF BootInv

\* The rest of what is wanted is cleared; it is all there.
LEMMA SegmentDoneInv == ASSUME BootInv, SegmentDone PROVE BootInv'
<1> DEFINE v == Wanted.p_va
           z == Wanted.p_filesz
<1>1. Loads /\ job.ptr >= job.end_ptr /\ UNCHANGED <<image, seg, job, ide>>
  BY DEF SegmentDone, Loads
<1>2. BootType BY DEF BootInv
<1>3. Wanted \in ProgramHeader /\ v + Wanted.p_memsz <= MemTop /\ (bpc = "segment" => seg \in DOMAIN image.ph)
  BY <1>1, <1>2, WantedFits
<1>4. v \in Nat /\ z \in Nat /\ Wanted.p_memsz \in Nat /\ Wanted.p_offset \in Nat
  BY <1>3 DEF ProgramHeader
<1>5. job.end_ptr = v + z /\ job.memsz = v + Wanted.p_memsz BY <1>1 DEF BootInv, InStep
<1>6. DOMAIN mem = 0 .. MemTop - 1 /\ job.ptr \in Nat /\ MemTop \in Nat
  BY <1>2, BootAssumption DEF BootType
<1>7. ASSUME NEW a \in 0 .. MemTop - 1
      PROVE  mem'[a] = IF v + z <= a /\ a < v + Wanted.p_memsz THEN 0 ELSE mem[a]
  BY <1>5, <1>6 DEF SegmentDone, Cleared
<1>8. ASSUME NEW a \in (0 .. MemTop - 1) \ Written(v, z, Wanted.p_memsz) PROVE mem'[a] = mem[a]
  BY <1>7 DEF Written
<1>9. ASSUME NEW a \in InMemory(Wanted)
      PROVE  a \in 0 .. MemTop - 1 /\ mem'[a] = IF a < v + z THEN Wanted.p_offset + (a - v) + 1 ELSE 0
  <2>1. a \in 0 .. MemTop - 1 /\ v <= a /\ a < v + Wanted.p_memsz
    BY <1>3, <1>4, <1>6 DEF InMemory
  <2>2. CASE a < v + z
    <3>1. a < job.end_ptr /\ a < job.ptr BY <1>1, <1>4, <1>5, <1>6, <2>1, <2>2
    <3>2. mem[a] = Wanted.p_offset + (a - v) + 1 BY <1>1, <2>1, <3>1 DEF BootInv, ReadSoFar
    <3>3. mem'[a] = mem[a] BY <1>4, <1>7, <2>1, <2>2
    <3>4. QED BY <2>1, <2>2, <3>2, <3>3
  <2>3. CASE ~ (a < v + z)
    <3>1. v + z <= a BY <1>4, <2>1, <2>3
    <3>2. QED BY <1>7, <2>1, <2>3, <3>1
  <2>4. QED BY <2>2, <2>3
<1>10. /\ KeepStays'
       /\ bpc = "segment" =>
            /\ HeaderIsThere'
            /\ \A i \in 1 .. seg - 1 : \A a \in InMemory(image.ph[i]) :
                    mem'[a] = Segment(image.ph[i])[a]
  BY <1>1, <1>8, OthersStay
<1>11. mem' \in [0 .. MemTop - 1 -> Int]
  <2>1. mem' = [a \in 0 .. MemTop - 1 |-> mem'[a]] BY <1>6 DEF SegmentDone
  <2>2. \A a \in 0 .. MemTop - 1 : mem'[a] \in Int BY <1>2, <1>7 DEF BootType
  <2>3. QED BY <2>1, <2>2
<1>12. bpc' = IF bpc = "header" THEN "check" ELSE "ph" BY DEF SegmentDone
<1>13. BootType' BY <1>1, <1>2, <1>11, <1>12 DEF BootType
<1>14. InStep' /\ ReadSoFar' BY <1>12 DEF InStep, ReadSoFar, Loads
<1>15. DiskInStep'
  <2>1. ~ Reading BY <1>1, <1>4, <1>5, <1>6 DEF Reading
  <2>2. ide.state = "ready" BY <2>1 DEF BootInv, DiskInStep
  <2>3. QED BY <1>1, <2>2 DEF DiskInStep
<1>16. HeaderStays'
  <2>1. CASE bpc = "header"
    <3>1. Wanted = [p_va |-> ELFHDR, p_offset |-> 0, p_filesz |-> HeaderSize, p_memsz |-> HeaderSize]
      BY <2>1 DEF Wanted
    <3>2. v = ELFHDR /\ z = HeaderSize /\ Wanted.p_memsz = HeaderSize /\ Wanted.p_offset = 0 BY <3>1
    <3>3. ASSUME NEW i \in 0 .. HeaderSize - 1 PROVE mem'[ELFHDR + i] = i + 1
      <4>1. ELFHDR + i \in InMemory(Wanted) BY <1>4, <3>2 DEF InMemory
      <4>2. ELFHDR + i < v + z BY <1>4, <3>2
      <4> DEFINE a == ELFHDR + i
      <4> HIDE DEF a
      <4>3. a \in InMemory(Wanted) /\ a < v + z BY <4>1, <4>2 DEF a
      <4>4. mem'[a] = Wanted.p_offset + (a - v) + 1 BY <1>9, <4>3
      <4>5. QED BY <1>4, <3>2, <4>4 DEF a
    <3>4. QED BY <3>3 DEF HeaderStays, HeaderIsThere
  <2>2. CASE bpc = "segment" BY <1>10, <2>2 DEF HeaderStays
  <2>3. QED BY <1>1, <2>1, <2>2 DEF Loads
<1>17. SegmentsStay'
  <2>1. CASE bpc = "header" BY <1>12, <2>1 DEF SegmentsStay
  <2>2. CASE bpc = "segment"
    <3>1. Wanted = image.ph[seg] BY <2>2 DEF Wanted
    <3>2. ASSUME NEW i \in 1 .. seg, NEW a \in InMemory(image.ph[i])
          PROVE  mem'[a] = Segment(image.ph[i])[a]
      <4>1. CASE i = seg
        <5>1. a \in InMemory(Wanted) BY <3>1, <3>2, <4>1
        <5>2. mem'[a] = IF a < v + z THEN Wanted.p_offset + (a - v) + 1 ELSE 0 BY <1>9, <5>1
        <5>3. QED BY <3>1, <4>1, <5>1, <5>2 DEF Segment
      <4>2. CASE i # seg
        <5>1. i \in 1 .. seg - 1 BY <1>2, <4>2 DEF BootType
        <5>2. QED BY <1>10, <2>2, <3>2, <5>1
      <4>3. QED BY <4>1, <4>2
    <3>3. Finished' = seg BY <1>1, <1>12, <2>2 DEF Finished
    <3>4. QED BY <1>1, <3>2, <3>3 DEF SegmentsStay
  <2>3. QED BY <1>1, <2>1, <2>2 DEF Loads
<1>18. QED BY <1>10, <1>13, <1>14, <1>15, <1>16, <1>17 DEF BootInv

\* The header is read, and each segment in turn.
LEMMA CheckMagicInv == ASSUME BootInv, CheckMagic PROVE BootInv'
<1>1. HeaderIsThere BY DEF BootInv, HeaderStays, CheckMagic
<1>2. bpc' \in {"ph", "check"} /\ bpc = "check" /\ UNCHANGED <<image, mem, seg, job, ide>>
  BY <1>1 DEF CheckMagic
<1>3. seg = 0 BY <1>2 DEF BootInv, BootType
<1>4. BootType' BY <1>2, <1>3 DEF BootInv, BootType
<1>5. InStep' /\ ReadSoFar' BY <1>2 DEF InStep, ReadSoFar, Loads
<1>6. DiskInStep'
  <2>1. ide.state = "ready" BY <1>2 DEF BootInv, DiskInStep, Reading
  <2>2. QED BY <1>2, <2>1 DEF DiskInStep
<1>7. KeepStays' /\ HeaderStays'
  BY <1>1, <1>2 DEF BootInv, KeepStays, HeaderStays, HeaderIsThere
<1>8. SegmentsStay' BY <1>2, <1>3 DEF SegmentsStay, Finished
<1>9. QED BY <1>4, <1>5, <1>6, <1>7, <1>8 DEF BootInv

\* boot_readseg begins at the sector that has the first byte.
LEMMA ReadsegBegins ==
    ASSUME NEW h \in ProgramHeader,
           job' = readseg(h.p_va, KERNEL_START_SECTOR + h.p_offset \div SECTORSIZE, h.p_filesz, h.p_memsz)
    PROVE  /\ job' \in [ptr : Nat, src_sect : Nat, end_ptr : Nat, memsz : Nat]
           /\ job'.end_ptr = h.p_va + h.p_filesz /\ job'.memsz = h.p_va + h.p_memsz
           /\ job'.ptr = SECTORSIZE * (h.p_va \div SECTORSIZE + 0)
           /\ job'.src_sect = KERNEL_START_SECTOR + (h.p_offset \div SECTORSIZE + 0)
           /\ job'.ptr <= h.p_va
<1>1. h.p_va \in Nat /\ h.p_offset \in Nat /\ h.p_filesz \in Nat /\ h.p_memsz \in Nat
  BY DEF ProgramHeader
<1>2. /\ RoundDown(h.p_va, SECTORSIZE) = SECTORSIZE * (h.p_va \div SECTORSIZE)
      /\ RoundDown(h.p_va, SECTORSIZE) \in Nat /\ RoundDown(h.p_va, SECTORSIZE) <= h.p_va
      /\ h.p_va \div SECTORSIZE \in Nat /\ h.p_offset \div SECTORSIZE \in Nat
  BY <1>1, Sectors
<1>3. h.p_va \div SECTORSIZE + 0 = h.p_va \div SECTORSIZE
      /\ h.p_offset \div SECTORSIZE + 0 = h.p_offset \div SECTORSIZE
  BY <1>2
<1>4. KERNEL_START_SECTOR + h.p_offset \div SECTORSIZE \in Nat BY <1>2 DEF KERNEL_START_SECTOR
<1>5. QED BY <1>1, <1>2, <1>3, <1>4 DEF readseg

\* The next segment: those before it are in.
LEMMA NextSegmentInv == ASSUME BootInv, NextSegment PROVE BootInv'
<1> DEFINE h == image.ph[seg + 1]
<1>1. HeaderIsThere BY DEF BootInv, HeaderStays, NextSegment
<1>2. /\ bpc = "ph" /\ bpc' = "segment" /\ seg' = seg + 1 /\ seg < Len(image.ph)
      /\ UNCHANGED <<image, mem, ide>>
      /\ job' = readseg(h.p_va, KERNEL_START_SECTOR + h.p_offset \div SECTORSIZE,
                        h.p_filesz, h.p_memsz)
  BY <1>1 DEF NextSegment
<1>3. BootType BY DEF BootInv
<1>4. image.ph \in Seq(ProgramHeader) BY <1>3, ImageAssumption DEF BootType
<1>5. seg + 1 \in 1 .. Len(image.ph) BY <1>2, <1>3, <1>4 DEF BootType
<1>6. h \in ProgramHeader BY <1>4, <1>5
<1>7. Wanted' = h /\ Loads' BY <1>2 DEF Wanted, Loads
<1> HIDE DEF h
<1>8. /\ job' \in [ptr : Nat, src_sect : Nat, end_ptr : Nat, memsz : Nat]
      /\ job'.end_ptr = h.p_va + h.p_filesz /\ job'.memsz = h.p_va + h.p_memsz
      /\ job'.ptr = SECTORSIZE * (h.p_va \div SECTORSIZE + 0)
      /\ job'.src_sect = KERNEL_START_SECTOR + (h.p_offset \div SECTORSIZE + 0)
      /\ job'.ptr <= h.p_va
  BY <1>2, <1>6, ReadsegBegins
<1>9. BootType' BY <1>2, <1>3, <1>5, <1>8 DEF BootType
<1>10. InStep'
  <2>1. 0 \in Nat OBVIOUS
  <2>2. QED BY <1>7, <1>8, <2>1 DEF InStep
<1>11. DiskInStep'
  <2>1. ide.state = "ready" BY <1>2 DEF BootInv, DiskInStep, Reading
  <2>2. QED BY <1>2, <2>1 DEF DiskInStep
<1>12. ReadSoFar'
  <2>1. h.p_va \in Nat /\ job'.ptr \in Nat BY <1>6, <1>8 DEF ProgramHeader
  <2>2. \A a \in 0 .. MemTop - 1 : ~ (h.p_va <= a /\ a < job'.ptr) BY <1>8, <2>1
  <2>3. QED BY <1>7, <2>2 DEF ReadSoFar
<1>13. KeepStays' /\ HeaderStays'
  BY <1>1, <1>2 DEF BootInv, KeepStays, HeaderStays, HeaderIsThere
<1>14. SegmentsStay'
  <2>1. Finished' = seg /\ Finished = seg BY <1>2, <1>3 DEF Finished, BootType
  <2>2. QED BY <1>2, <2>1 DEF BootInv, SegmentsStay
<1>15. QED BY <1>9, <1>10, <1>11, <1>12, <1>13, <1>14 DEF BootInv

\* Memory as a start or a jump leaves it, with the loader in it.
LEMMA FreshKeep == /\ FreshMem \in [0 .. MemTop - 1 -> Int]
                   /\ \A a \in Keep : FreshMem[a] = BootByte
  BY BootAssumption DEF FreshMem, BootByte, Garbage

\* The kernel is jumped to, and the loader forgotten.
LEMMA JumpInv == ASSUME BootInv, Jump PROVE BootInv'
<1>1. HeaderIsThere BY DEF BootInv, HeaderStays, Jump
<1>2. bpc = "ph" /\ bpc' = "done" /\ mem' = FreshMem /\ UNCHANGED <<image, seg, job, ide>>
  BY <1>1 DEF Jump
<1>3. BootType' BY <1>2, FreshKeep DEF BootInv, BootType
<1>4. ide.state = "ready" BY <1>2 DEF BootInv, DiskInStep, Reading
<1>5. InStep' /\ ReadSoFar' /\ DiskInStep' /\ HeaderStays' /\ SegmentsStay'
  BY <1>2, <1>4 DEF InStep, ReadSoFar, DiskInStep, HeaderStays, SegmentsStay, Loads
<1>6. KeepStays' BY <1>2, FreshKeep DEF KeepStays
<1>7. QED BY <1>3, <1>5, <1>6 DEF BootInv

\* The header is wanted first.
LEMMA BootInvInit == BootInit => BootInv
<1> SUFFICES ASSUME BootInit PROVE BootInv
  OBVIOUS
<1> DEFINE h == [p_va |-> ELFHDR, p_offset |-> 0, p_filesz |-> HeaderSize, p_memsz |-> HeaderSize]
<1>1. /\ image \in Images /\ mem = FreshMem /\ bpc = "header" /\ seg = 0
      /\ job = readseg(ELFHDR, KERNEL_START_SECTOR, HeaderSize, HeaderSize)
      /\ ide = [state |-> "ready", sect |-> 0]
  BY DEF BootInit
<1>2. ELFHDR \in Nat /\ HeaderSize \in Nat /\ ELFHDR % SECTORSIZE = 0 /\ SECTORSIZE \in Nat /\ SECTORSIZE > 0
  BY BootAssumption, ImageAssumption
<1>3. /\ RoundDown(ELFHDR, SECTORSIZE) = SECTORSIZE * (ELFHDR \div SECTORSIZE)
      /\ ELFHDR \div SECTORSIZE \in Nat /\ RoundDown(ELFHDR, SECTORSIZE) \in Nat
      /\ RoundDown(ELFHDR, SECTORSIZE) <= ELFHDR
  BY <1>2, Sectors
<1>4. job = [ptr |-> RoundDown(ELFHDR, SECTORSIZE), src_sect |-> 1,
             end_ptr |-> ELFHDR + HeaderSize, memsz |-> ELFHDR + HeaderSize]
  BY <1>1 DEF readseg, KERNEL_START_SECTOR
<1>5. job \in [ptr : Nat, src_sect : Nat, end_ptr : Nat, memsz : Nat] BY <1>2, <1>3, <1>4
<1>6. Len(image.ph) \in Nat
  <2>1. image.ph \in Seq(ProgramHeader) BY <1>1, ImageAssumption
  <2>2. QED BY <2>1
<1>7. BootType BY <1>1, <1>5, <1>6, FreshKeep DEF BootType
<1>8. Wanted = h BY <1>1 DEF Wanted
<1>9. /\ Wanted.p_va = ELFHDR /\ Wanted.p_offset = 0 /\ Wanted.p_filesz = HeaderSize
      /\ Wanted.p_memsz = HeaderSize
  BY <1>8
<1>10. InStep
  <2>1. 0 \div SECTORSIZE = 0 BY <1>2
  <2>2. job.ptr = SECTORSIZE * (ELFHDR \div SECTORSIZE + 0) BY <1>3, <1>4
  <2>3. job.src_sect = KERNEL_START_SECTOR + (0 \div SECTORSIZE + 0)
    BY <1>4, <2>1 DEF KERNEL_START_SECTOR
  <2>4. job.end_ptr = ELFHDR + HeaderSize /\ job.memsz = ELFHDR + HeaderSize BY <1>4
  <2>5. 0 \in Nat OBVIOUS
  <2>6. QED BY <1>9, <2>2, <2>3, <2>4, <2>5 DEF InStep
<1>11. DiskInStep BY <1>1 DEF DiskInStep
<1>12. ReadSoFar
  <2>1. job.ptr = RoundDown(ELFHDR, SECTORSIZE) BY <1>4
  <2>2. \A a \in 0 .. MemTop - 1 : ~ (ELFHDR <= a /\ a < job.ptr) BY <1>2, <1>3, <2>1
  <2>3. QED BY <1>9, <2>2 DEF ReadSoFar
<1>13. KeepStays BY <1>1, FreshKeep DEF KeepStays
<1>14. HeaderStays /\ SegmentsStay BY <1>1 DEF HeaderStays, SegmentsStay
<1>15. QED BY <1>7, <1>10, <1>11, <1>12, <1>13, <1>14 DEF BootInv

\* Every step of the loader keeps all of it.
LEMMA BootInvNext == BootInv /\ (BootNext \/ UNCHANGED bootVars) => BootInv'
<1> SUFFICES ASSUME BootInv, BootNext \/ UNCHANGED bootVars PROVE BootInv'
  OBVIOUS
<1>1. CASE BootNext
  BY <1>1, ReadWordsInv, DiskInv, SegmentDoneInv, CheckMagicInv, NextSegmentInv, JumpInv DEF BootNext
<1>2. CASE UNCHANGED bootVars
  <2>1. UNCHANGED <<image, mem, bpc, seg, job, ide>> BY <1>2 DEF bootVars
  <2>2. Wanted' = Wanted /\ Loads' = Loads BY <2>1 DEF Wanted, Loads
  <2>3. BootType' BY <2>1 DEF BootInv, BootType
  <2>4. InStep' /\ ReadSoFar' /\ DiskInStep'
    BY <2>1, <2>2 DEF BootInv, InStep, ReadSoFar, DiskInStep, Reading
  <2>5. KeepStays' /\ HeaderStays' /\ SegmentsStay'
    BY <2>1 DEF BootInv, KeepStays, HeaderStays, HeaderIsThere, SegmentsStay, Finished
  <2>6. QED BY <2>3, <2>4, <2>5 DEF BootInv
<1>3. QED BY <1>1, <1>2

\* The segments that are in are what ImageLoaded asks for.
LEMMA InvImageLoaded == ASSUME BootInv PROVE ImageLoaded
<1>1. ASSUME bpc = "ph", NEW i \in 1 .. seg, NEW a \in DOMAIN Segment(image.ph[i])
      PROVE  mem[a] = Segment(image.ph[i])[a]
  <2>1. a \in InMemory(image.ph[i]) BY <1>1 DEF Segment
  <2>2. QED BY <1>1, <2>1 DEF BootInv, SegmentsStay, Finished
<1>2. bpc # "lost" /\ \A a \in Keep : mem[a] = BootByte
  BY DEF BootInv, BootType, KeepStays
<1>3. QED BY <1>1, <1>2 DEF ImageLoaded

\* A machine that runs, restarts or stops is no loader.
LEMMA LoaderAlone == ASSUME [MachineNext]_allVars PROVE BootNext \/ UNCHANGED bootVars
<1>1. CASE boot_start BY <1>1 DEF boot_start
<1>2. CASE boot BY <1>2 DEF boot
<1>3. CASE kernel
  BY <1>3, Zenon
     DEF kernel, StashData, InitSegments, ClearPagetable, FillPagetable, LoadPagetable, InitInterrupts,
         NoApic, InitCpuState, InitLapic, TimerOn, StartPrograms, LoadProgram, RunFirst, Elsewhere
<1>4. CASE reboot
  BY <1>4, Zenon DEF reboot, TimerOff, TempPagetable, LoadTemp, RestoreData, Restart, Elsewhere
<1>5. CASE poweroff \/ Halted BY <1>5, Zenon DEF poweroff, Halted
<1>6. CASE Debug BY <1>6, Zenon DEF Debug, BacktraceFrame, BacktraceDone, KernelFault, Quiet
<1>7. CASE Tick \/ Interrupt \/ UserCode
  BY <1>7, Zenon DEF Tick, Interrupt, UserCode, EntersWith, Quiet
<1>8. CASE Trap
  BY <1>8, Zenon DEF Trap, Syscall, Exception, EntersWith, Quiet
<1>9. CASE Handle
  BY <1>9, Zenon
     DEF Handle, NoKey, HandleTimer, HandleFault, HandleKernelFault, HandleOther, SyscallReturns,
         SyscallSchedules, SyscallPanics, AssertFails, Resume, Working, Quiet
<1>10. CASE Keys BY <1>10, Zenon DEF Keys, OffKey, RebootKey
<1>11. CASE UNCHANGED allVars BY <1>11, Zenon DEF allVars
<1>12. QED
  BY <1>1, <1>2, <1>3, <1>4, <1>5, <1>6, <1>7, <1>8, <1>9, <1>10, <1>11 DEF MachineNext, Code

(***************************************************************************)
(* The loader reads every segment of the kernel to where it is linked,     *)
(* whatever the sizes, and clears its .bss, without writing over itself,   *)
(* the header it still reads from or a segment that is in                  *)
(* (boot.cc:69-115).                                                       *)
(***************************************************************************)
THEOREM ImageIsLoaded == MachineSpec => []ImageLoaded
<1>1. MachineInit => BootInv
  BY BootInvInit DEF MachineInit
<1>2. BootInv /\ [MachineNext]_allVars => BootInv'
  BY LoaderAlone, BootInvNext
<1>3. BootInv => ImageLoaded
  BY InvImageLoaded
<1> QED
  BY <1>1, <1>2, <1>3, PTL DEF MachineSpec
-----------------------------------------------------------------------------
(***************************************************************************)
(* The symbol table.                                                       *)
(***************************************************************************)
\* A set of numbers has a least one.
LEMMA LeastOne ==
    ASSUME NEW D \in SUBSET Nat, D # {}
    PROVE  \E x \in D : \A y \in D : x <= y
<1>1. PICK x \in D : \A y \in D : ~ (<<y, x>> \in OpToRel(<, Nat))
  BY NatLessThanWellFounded, WFMin
<1>2. \A y \in D : ~ (y < x)
  BY <1>1 DEF OpToRel
<1>3. QED BY <1>2

\* One turn of lookup_symbol's loop on w = <<l, r>>, f being what the rest gives.
Windows(t) == (0 .. Len(t)) \X (0 .. Len(t))
Middle(w)  == w[1] + ((w[2] - w[1]) \div 2) + 1
Turn(t, a, f, w) ==
    IF w[1] >= w[2] THEN 0
    ELSE IF Covers(t, Middle(w), a) THEN Middle(w)
    ELSE IF t[Middle(w)].st_value < a THEN f[<<Middle(w), w[2]>>]
    ELSE f[<<w[1], Middle(w) - 1>>]

\* The window gets smaller.
LEMMA Narrows ==
    ASSUME NEW t, Len(t) \in Nat, NEW w \in Windows(t), w[1] < w[2]
    PROVE  /\ w[1] \in 0 .. Len(t) /\ w[2] \in 0 .. Len(t) /\ w = <<w[1], w[2]>>
           /\ Middle(w) \in w[1] + 1 .. w[2]
           /\ <<Middle(w), w[2]>> \in Windows(t) /\ <<w[1], Middle(w) - 1>> \in Windows(t)
<1>1. w[1] \in 0 .. Len(t) /\ w[2] \in 0 .. Len(t) /\ w = <<w[1], w[2]>> BY DEF Windows
<1> DEFINE x == w[2] - w[1]
<1>2. x \in Nat /\ x >= 1 BY <1>1
<1>3. x \div 2 \in Nat /\ x \div 2 <= x - 1 BY <1>2
<1>4. Middle(w) = w[1] + (x \div 2) + 1 BY DEF Middle
<1> HIDE DEF x
<1>5. w[2] = w[1] + x BY <1>1 DEF x
<1>6. Middle(w) \in w[1] + 1 .. w[2] BY <1>1, <1>2, <1>3, <1>4, <1>5
<1>7. Middle(w) \in 0 .. Len(t) /\ Middle(w) - 1 \in 0 .. Len(t) BY <1>1, <1>6
<1>8. QED BY <1>1, <1>6, <1>7 DEF Windows

\* The search is what its loop says it is, for windows up to any size.
Searches(t, a, f, n) == \A w \in Windows(t) : w[2] - w[1] <= n => f[w] = Turn(t, a, f, w)

\* A turn only looks at smaller windows.
LEMMA TurnSame ==
    ASSUME NEW t, Len(t) \in Nat, NEW a, NEW w \in Windows(t), NEW f, NEW g,
           \A u \in Windows(t) : u[2] - u[1] < w[2] - w[1] => f[u] = g[u]
    PROVE  Turn(t, a, f, w) = Turn(t, a, g, w)
<1>1. CASE w[1] >= w[2] BY <1>1 DEF Turn
<1>2. CASE ~ (w[1] >= w[2])
  <2> DEFINE u == <<Middle(w), w[2]>>
             v == <<w[1], Middle(w) - 1>>
  <2>1. w[1] \in Nat /\ w[2] \in Nat BY DEF Windows
  <2>2. Middle(w) \in w[1] + 1 .. w[2] /\ u \in Windows(t) /\ v \in Windows(t)
    BY <1>2, <2>1, Narrows
  <2>3. u[2] - u[1] < w[2] - w[1] /\ v[2] - v[1] < w[2] - w[1] BY <2>1, <2>2
  <2>4. f[u] = g[u] /\ f[v] = g[v] BY <2>2, <2>3
  <2>5. QED BY <1>2, <2>4 DEF Turn
<1>3. QED BY <1>1, <1>2

\* There is such a search up to every size: a least size without one would have
\* one, made of the search up to the size before and one more turn.
LEMMA SearchUpTo ==
    ASSUME NEW t, Len(t) \in Nat, NEW a, NEW n \in Nat
    PROVE  \E f : Searches(t, a, f, n)
<1> DEFINE Bad == {k \in Nat : ~ \E f : Searches(t, a, f, k)}
<1>1. ASSUME Bad # {} PROVE FALSE
  <2>1. Bad \in SUBSET Nat OBVIOUS
  <2>2. PICK k \in Bad : \A y \in Bad : k <= y BY <1>1, <2>1, LeastOne
  <2>3. CASE k = 0
    <3> DEFINE f == [w \in Windows(t) |-> 0]
    <3>1. ASSUME NEW w \in Windows(t), w[2] - w[1] <= 0 PROVE f[w] = Turn(t, a, f, w)
      <4>1. w[1] \in Nat /\ w[2] \in Nat BY DEF Windows
      <4>2. w[1] >= w[2] BY <3>1, <4>1
      <4>3. QED BY <4>2 DEF Turn
    <3>2. Searches(t, a, f, 0) BY <3>1 DEF Searches
    <3>3. QED BY <2>2, <2>3, <3>2
  <2>4. CASE k # 0
    <3>1. k - 1 \in Nat /\ k - 1 \notin Bad BY <2>2, <2>4
    <3>2. PICK f : Searches(t, a, f, k - 1) BY <3>1
    <3> DEFINE g == [w \in Windows(t) |-> IF w[2] - w[1] <= k - 1 THEN f[w] ELSE Turn(t, a, f, w)]
    <3>3. \A u \in Windows(t) : u[2] - u[1] <= k - 1 => g[u] = f[u] OBVIOUS
    <3>4. ASSUME NEW w \in Windows(t), w[2] - w[1] <= k PROVE g[w] = Turn(t, a, g, w)
      <4>1. \A u \in Windows(t) : u[2] - u[1] \in Int BY DEF Windows
      <4>2. \A u \in Windows(t) : u[2] - u[1] < w[2] - w[1] => g[u] = f[u]
        BY <2>2, <3>3, <3>4, <4>1
      <4>3. g[w] = Turn(t, a, f, w)
        <5>1. CASE w[2] - w[1] <= k - 1 BY <3>2, <3>3, <5>1 DEF Searches
        <5>2. CASE ~ (w[2] - w[1] <= k - 1) BY <5>2
        <5>3. QED BY <5>1, <5>2
      <4> HIDE DEF g
      <4>4. Turn(t, a, g, w) = Turn(t, a, f, w) BY <4>2, TurnSame
      <4>5. QED BY <4>3, <4>4
    <3> HIDE DEF g
    <3>5. Searches(t, a, g, k) BY <3>4 DEF Searches
    <3>6. QED BY <2>2, <3>5
  <2>5. QED BY <2>3, <2>4
<1>2. QED BY <1>1

\* So there is one for all windows, and Lookup is what it gives for the table.
LEMMA LookupIs ==
    ASSUME NEW t, Len(t) \in Nat, NEW a
    PROVE  \E f : /\ \A w \in Windows(t) : f[w] = Turn(t, a, f, w)
                  /\ Lookup(t, a) = f[<<0, Len(t)>>]
<1> DEFINE Is(f) == f = [w \in Windows(t) |-> Turn(t, a, f, w)]
           s == CHOOSE f : Is(f)
<1>1. PICK f : Searches(t, a, f, Len(t)) BY SearchUpTo
<1>2. ASSUME NEW w \in Windows(t) PROVE f[w] = Turn(t, a, f, w)
  <2>1. w[1] \in 0 .. Len(t) /\ w[2] \in 0 .. Len(t) BY DEF Windows
  <2>2. w[2] - w[1] <= Len(t) BY <2>1
  <2>3. QED BY <1>1, <2>2 DEF Searches
<1> DEFINE g == [w \in Windows(t) |-> f[w]]
<1>3. Is(g)
  <2>1. ASSUME NEW w \in Windows(t) PROVE Turn(t, a, g, w) = f[w]
    <3>1. \A u \in Windows(t) : g[u] = f[u] OBVIOUS
    <3> HIDE DEF g
    <3>2. Turn(t, a, g, w) = Turn(t, a, f, w) BY <3>1, TurnSame
    <3>3. QED BY <1>2, <3>2
  <2>2. QED BY <2>1, Zenon
<1>4. Is(s)
  <2> HIDE DEF Is, g
  <2>1. QED BY <1>3 DEF s
<1>5. \A w \in Windows(t) : s[w] = Turn(t, a, s, w)
  <2> HIDE DEF s
  <2>1. QED BY <1>4
<1>6. Lookup(t, a) = s[<<0, Len(t)>>]
  BY Zenon DEF Lookup, Turn, Windows, Middle
<1> HIDE DEF s
<1>7. QED BY <1>5, <1>6

\* Several symbols start at the address, and one that is not the last has no size.
Aliased(t, a) == \E m \in 1 .. Len(t) - 1 :
                    t[m].st_value = a /\ t[m + 1].st_value = a /\ t[m].st_size = 0

\* A symbol that covers the address is on the side where the search goes on.
LEMMA Sides ==
    ASSUME NEW t \in Tables, NEW a \in Nat, NEW m \in DOMAIN t, NEW c \in DOMAIN t,
           ~ Covers(t, m, a), Covers(t, c, a), ~ Aliased(t, a)
    PROVE  IF t[m].st_value < a THEN m < c ELSE c < m
<1>1. t \in Seq([st_value : Nat, st_size : Nat]) /\ Sorted(t) BY SymbolAssumption
<1>2. DOMAIN t = 1 .. Len(t) /\ Len(t) \in Nat BY <1>1
<1>3. ASSUME NEW i \in DOMAIN t PROVE t[i].st_value \in Nat /\ t[i].st_size \in Nat
  <2> DEFINE S == [st_value : Nat, st_size : Nat]
  <2>1. t \in Seq(S) /\ i \in 1 .. Len(t) BY <1>1, <1>2
  <2> HIDE DEF S
  <2>2. t[i] \in S BY <2>1, ElementOfSeq
  <2>3. QED BY <2>2 DEF S
<1>4. ASSUME NEW i \in DOMAIN t, NEW j \in DOMAIN t, i < j PROVE t[i].st_value <= t[j].st_value
  <2>1. \/ t[i].st_value = t[j].st_value
        \/ t[i].st_value + t[i].st_size <= t[j].st_value
    BY <1>1, <1>4 DEF Sorted
  <2>2. /\ t[i].st_value \in Nat /\ t[i].st_size \in Nat /\ t[j].st_value \in Nat
    BY <1>3
  <2>3. QED BY <2>1, <2>2
<1>5. c # m OBVIOUS
<1>6. CASE t[m].st_value < a
  <2>1. ASSUME c < m PROVE FALSE
    <3>1. CASE t[c].st_size = 0
      <4>1. c + 1 \in DOMAIN t /\ c # Len(t) BY <1>2, <2>1
      <4>2. a < t[c + 1].st_value BY <3>1, <4>1 DEF Covers
      <4>3. c + 1 = m \/ c + 1 < m BY <1>2, <2>1
      <4>4. t[c + 1].st_value <= t[m].st_value BY <1>3, <1>4, <4>1, <4>3
      <4>5. QED BY <1>3, <1>6, <4>1, <4>2, <4>4
    <3>2. CASE t[c].st_size # 0
      <4>1. a < t[c].st_value + t[c].st_size BY <3>2 DEF Covers
      <4>2. \/ t[c].st_value = t[m].st_value /\ t[c].st_size <= t[m].st_size
            \/ t[c].st_value + t[c].st_size <= t[m].st_value
        BY <1>1, <2>1 DEF Sorted
      <4>3. t[m].st_value <= a /\ t[m].st_size # 0 /\ a < t[m].st_value + t[m].st_size
        BY <1>3, <1>6, <3>2, <4>1, <4>2
      <4>4. QED BY <4>3 DEF Covers
    <3>3. QED BY <3>1, <3>2
  <2>2. QED BY <1>2, <1>5, <1>6, <2>1
<1>7. CASE ~ (t[m].st_value < a)
  <2>1. ASSUME m < c PROVE FALSE
    <3>1. t[c].st_value <= a BY DEF Covers
    <3>2. t[m].st_value = a BY <1>3, <1>4, <1>7, <2>1, <3>1
    <3>3. t[m].st_size = 0
      <4>1. ASSUME t[m].st_size # 0 PROVE FALSE
        <5>1. a < t[m].st_value + t[m].st_size BY <1>3, <3>2, <4>1
        <5>2. t[m].st_value <= a BY <3>2
        <5>3. QED BY <4>1, <5>1, <5>2 DEF Covers
      <4>2. QED BY <4>1
    <3>4. m \in 1 .. Len(t) - 1 /\ m + 1 \in DOMAIN t BY <1>2, <2>1
    <3>5. ~ (a < t[m + 1].st_value) BY <3>2, <3>3 DEF Covers
    <3>6. m + 1 = c \/ m + 1 < c BY <1>2, <2>1
    <3>7. t[m + 1].st_value <= t[c].st_value BY <1>3, <1>4, <3>4, <3>6
    <3>8. t[m].st_value <= t[m + 1].st_value BY <1>2, <1>4, <3>4
    <3>9. t[m + 1].st_value = a BY <1>3, <3>1, <3>2, <3>4, <3>7, <3>8
    <3>10. QED BY <3>2, <3>3, <3>4, <3>9 DEF Aliased
  <2>2. QED BY <1>2, <1>5, <1>7, <2>1
<1>8. QED BY <1>6, <1>7

\* What a window's search may give.
Right(t, a, w, m) ==
    /\ m = 0 \/ (m \in DOMAIN t /\ Covers(t, m, a))
    /\ ~ Aliased(t, a) /\ (\E c \in DOMAIN t : w[1] < c /\ c <= w[2] /\ Covers(t, c, a)) => m # 0

\* Every window's search is right: a smallest window whose search is not would
\* have the result of a smaller one.
LEMMA SearchRight ==
    ASSUME NEW t \in Tables, NEW a \in Nat, NEW f,
           \A w \in Windows(t) : f[w] = Turn(t, a, f, w)
    PROVE  \A w \in Windows(t) : Right(t, a, w, f[w])
<1> DEFINE Bad == {k \in Nat : \E w \in Windows(t) : w[2] - w[1] <= k /\ ~ Right(t, a, w, f[w])}
<1>1. t \in Seq([st_value : Nat, st_size : Nat]) BY SymbolAssumption
<1>2. DOMAIN t = 1 .. Len(t) /\ Len(t) \in Nat BY <1>1
<1>3. ASSUME Bad # {} PROVE FALSE
  <2>1. Bad \in SUBSET Nat OBVIOUS
  <2>2. PICK k \in Bad : \A y \in Bad : k <= y BY <1>3, <2>1, LeastOne
  <2>3. PICK w \in Windows(t) : w[2] - w[1] <= k /\ ~ Right(t, a, w, f[w]) BY <2>2
  <2> HIDE DEF Bad
  <2>4. w[1] \in Nat /\ w[2] \in Nat BY DEF Windows
  <2>5. f[w] = Turn(t, a, f, w) BY <2>3
  <2>6. CASE w[1] >= w[2]
    <3>1. f[w] = 0 BY <2>5, <2>6 DEF Turn
    <3>2. \A c \in DOMAIN t : ~ (w[1] < c /\ c <= w[2]) BY <1>2, <2>4, <2>6
    <3>3. QED BY <2>3, <3>1, <3>2 DEF Right
  <2>7. CASE w[1] < w[2]
    <3> DEFINE m == Middle(w)
               u == <<m, w[2]>>
               v == <<w[1], m - 1>>
    <3>1. /\ w[2] \in 0 .. Len(t) /\ m \in w[1] + 1 .. w[2]
          /\ u \in Windows(t) /\ v \in Windows(t)
      BY <1>2, <2>7, Narrows
    <3>2. m \in DOMAIN t /\ m \in Nat /\ m # 0 BY <1>2, <2>4, <3>1
    <3>3. ~ (w[1] >= w[2]) BY <2>4, <2>7
    <3>4. u[1] = m /\ u[2] = w[2] /\ v[1] = w[1] /\ v[2] = m - 1 OBVIOUS
    <3> HIDE DEF m
    <3>5. Turn(t, a, f, w) = IF Covers(t, m, a) THEN m
                             ELSE IF t[m].st_value < a THEN f[u] ELSE f[v]
      BY <3>3 DEF Turn, m
    <3> HIDE DEF u, v
    <3>6. ASSUME NEW x \in Windows(t), x[2] - x[1] < w[2] - w[1] PROVE Right(t, a, x, f[x])
      <4>1. SUFFICES ASSUME ~ Right(t, a, x, f[x]) PROVE FALSE OBVIOUS
      <4>2. x[1] \in Nat /\ x[2] \in Nat BY DEF Windows
      <4>3. k > 0 \/ k = 0 BY <2>2 DEF Bad
      <4>4. CASE k > 0
        <5>1. k \in Nat /\ k - 1 \in Nat BY <2>2, <4>4 DEF Bad
        <5>2. x[2] - x[1] <= k - 1 BY <2>3, <2>4, <3>6, <4>2, <5>1
        <5>3. k - 1 \in Bad BY <4>1, <5>1, <5>2 DEF Bad
        <5>4. QED BY <2>2, <5>1, <5>3
      <4>5. CASE k = 0 BY <2>3, <2>4, <2>7, <4>5
      <4>6. QED BY <4>3, <4>4, <4>5
    <3>7. Right(t, a, u, f[u]) /\ Right(t, a, v, f[v])
      <4>1. u[2] - u[1] < w[2] - w[1] /\ v[2] - v[1] < w[2] - w[1] BY <2>4, <3>1, <3>2, <3>4
      <4>2. QED BY <3>1, <3>6, <4>1
    <3>8. CASE Covers(t, m, a)
      <4>1. f[w] = m BY <2>5, <3>5, <3>8
      <4>2. QED BY <2>3, <3>2, <3>8, <4>1 DEF Right
    <3>9. CASE ~ Covers(t, m, a) /\ t[m].st_value < a
      <4>1. f[w] = f[u] BY <2>5, <3>5, <3>9
      <4>2. ASSUME ~ Aliased(t, a), NEW c \in DOMAIN t, w[1] < c, c <= w[2], Covers(t, c, a)
            PROVE  u[1] < c /\ c <= u[2]
        <5>1. m < c BY <3>2, <3>9, <4>2, Sides
        <5>2. QED BY <3>4, <4>2, <5>1
      <4>3. Right(t, a, w, f[w]) BY <3>7, <4>1, <4>2 DEF Right
      <4>4. QED BY <2>3, <4>3
    <3>10. CASE ~ Covers(t, m, a) /\ ~ (t[m].st_value < a)
      <4>1. f[w] = f[v] BY <2>5, <3>5, <3>10
      <4>2. ASSUME ~ Aliased(t, a), NEW c \in DOMAIN t, w[1] < c, c <= w[2], Covers(t, c, a)
            PROVE  v[1] < c /\ c <= v[2]
        <5>1. c < m BY <3>2, <3>10, <4>2, Sides
        <5>2. c \in Nat BY <1>2
        <5>3. QED BY <3>2, <3>4, <4>2, <5>1, <5>2
      <4>3. Right(t, a, w, f[w]) BY <3>7, <4>1, <4>2 DEF Right
      <4>4. QED BY <2>3, <4>3
    <3>11. QED BY <3>8, <3>9, <3>10
  <2>8. QED BY <2>4, <2>6, <2>7
<1>4. ASSUME NEW w \in Windows(t) PROVE Right(t, a, w, f[w])
  <2>1. SUFFICES ASSUME ~ Right(t, a, w, f[w]) PROVE FALSE OBVIOUS
  <2>2. w[1] \in 0 .. Len(t) /\ w[2] \in 0 .. Len(t) BY DEF Windows
  <2>3. w[2] - w[1] <= Len(t) BY <1>2, <2>2
  <2>4. Len(t) \in Bad BY <1>2, <2>1, <2>3
  <2>5. QED BY <1>3, <2>4
<1>5. QED BY <1>4

\* lookup_symbol finds a symbol that covers the address.
LEMMA LookupRight ==
    ASSUME NEW t \in Tables, NEW a \in Nat
    PROVE  LET covering == {m \in DOMAIN t : Covers(t, m, a)}
           IN  IF covering = {} THEN Lookup(t, a) = 0
               ELSE Lookup(t, a) \in covering \/ Aliased(t, a)
<1> DEFINE covering == {m \in DOMAIN t : Covers(t, m, a)}
           w == <<0, Len(t)>>
<1>1. t \in Seq([st_value : Nat, st_size : Nat]) BY SymbolAssumption
<1>2. DOMAIN t = 1 .. Len(t) /\ Len(t) \in Nat BY <1>1
<1>3. PICK f : (\A x \in Windows(t) : f[x] = Turn(t, a, f, x)) /\ Lookup(t, a) = f[w]
  BY <1>2, LookupIs
<1>4. w \in Windows(t) BY <1>2 DEF Windows
<1>5. Right(t, a, w, Lookup(t, a)) BY <1>3, <1>4, SearchRight
<1>6. w[1] = 0 /\ w[2] = Len(t) OBVIOUS
<1> HIDE DEF w
<1>7. \A c \in DOMAIN t : w[1] < c /\ c <= w[2] BY <1>2, <1>6
<1>8. Lookup(t, a) = 0 \/ Lookup(t, a) \in covering BY <1>5 DEF Right
<1>9. ASSUME covering = {} PROVE Lookup(t, a) = 0 BY <1>8, <1>9
<1>10. ASSUME covering # {}, ~ Aliased(t, a) PROVE Lookup(t, a) \in covering
  <2>1. \E c \in DOMAIN t : w[1] < c /\ c <= w[2] /\ Covers(t, c, a) BY <1>7, <1>10
  <2>2. Lookup(t, a) # 0 BY <1>5, <1>10, <2>1 DEF Right
  <2>3. QED BY <1>8, <2>2
<1>11. QED BY <1>9, <1>10

(***************************************************************************)
(* lookup_symbol finds a symbol that covers the address, in a sorted table *)
(* of any length, unless several start there (k-hardware.cc:547-577).      *)
(***************************************************************************)
THEOREM SymbolsFound == MachineSpec => []LookupFinds
<1>1. LookupFinds
  <2>1. ASSUME NEW a \in 0 .. Words - 1 PROVE a \in Nat
    BY StackAssumption
  <2>2. \A t \in Tables, a \in 0 .. Words - 1 :
            LET covering == {m \in DOMAIN t : Covers(t, m, a)}
            IN  IF covering = {} THEN Lookup(t, a) = 0
                ELSE Lookup(t, a) \in covering \/ Aliased(t, a)
    BY <2>1, LookupRight
  <2>3. QED BY <2>2 DEF LookupFinds, Aliased
<1> QED
  BY <1>1, PTL
-----------------------------------------------------------------------------
(* The programs in memory. *)

\* The pages there are for each program, and what a page table maps.
Room  == CHOOSE n \in 1 .. PhysPages : RoomFor(n)
Space == UNION {[D -> [pa : Nat, w : BOOLEAN]] : D \in SUBSET Nat}

\* The pages handed out, from the first one on.
Used == Cardinality(owned)

\* The first and the last page of a segment.
FirstPage(h) == PageOf(h.p_va)
LastPage(h)  == PageOf(h.p_va + h.p_memsz - 1)

\* What a program may be called.
Known == {"allocator", "allocator2", "allocator3", "allocator4", "fork", "forkexit", "allocators", "none"}

LoaderType ==
    /\ lpc \in {"rest", "root", "pages", "copy"}
    /\ DOMAIN ram = 0 .. PhysPages * PAGESIZE - 1
    /\ names \in Seq(Known) /\ Len(names) <= MaxStarted
    /\ spaces \in Seq(Space) /\ Len(spaces) <= Len(names)
    /\ Used \in Nat /\ owned = 1 .. Used

\* Where the loader is in the program it loads.
InProgram ==
    lpc \in {"pages", "copy"} =>
        /\ Pid > 0
        /\ ph \in Loadable(Hs) \/ ph = Len(Hs) + 1
        /\ lpc = "pages" /\ ph \in Loadable(Hs) =>
            page \in FirstPage(Hs[ph]) .. PageOf(Hs[ph].p_va + Hs[ph].p_memsz - 1) + 1

\* The processes that are set up.
Complete == 1 .. (IF lpc \in {"pages", "copy"} THEN Pid - 1 ELSE Pid)

\* There is room: what is used is what the processes before need at most, and the
\* pages of this one.
HasRoom ==
    IF lpc \in {"pages", "copy"}
    THEN Used <= (Pid - 1) * (Room + 1) + 1 + Cardinality(DOMAIN spaces[Pid])
    ELSE Used <= Pid * (Room + 1)

\* A segment's pages, up to one, are next to each other in memory, from b on.
From(p, h, b, top) ==
    \A v \in FirstPage(h) .. top :
        v \in DOMAIN spaces[p] /\ spaces[p][v] = [pa |-> b + (v - FirstPage(h)), w |-> h.w]
Placed(p, h) == \E b \in Nat : From(p, h, b, PageOf(h.p_va + h.p_memsz - 1))

\* ... all of those of the processes before, ...
PlacedBefore == \A p \in Complete : \A i \in Loadable(Headers(names[p])) : Placed(p, Headers(names[p])[i])

\* ... and those that are done of this one, the last of which ends with the page
\* that was allocated last.
PlacedHere ==
    lpc \in {"pages", "copy"} =>
        /\ \A i \in Loadable(Hs) : lpc = "copy" \/ i < ph => Placed(Pid, Hs[i])
        /\ lpc = "pages" /\ ph \in Loadable(Hs) =>
            \E b \in Nat : From(Pid, Hs[ph], b, page - 1) /\ b + (page - FirstPage(Hs[ph])) = Used + 1

\* Nothing else is mapped yet.
MappedHere ==
    lpc \in {"pages", "copy"} =>
        \A v \in DOMAIN spaces[Pid] : \E i \in Loadable(Hs) :
            v \in SegmentPages(Hs[i]) /\ (lpc = "copy" \/ i < ph \/ (i = ph /\ v < page))

\* No page is mapped twice.
Apart ==
    \A p, q \in 1 .. Pid : \A u \in DOMAIN spaces[p], v \in DOMAIN spaces[q] :
        /\ spaces[p][u].pa \in 1 .. Used
        /\ spaces[p][u].pa = spaces[q][v].pa => p = q /\ u = v

\* The bytes of a segment.
InPlace(p, i) ==
    LET h == Headers(names[p])[i] IN
    \A o \in 0 .. h.p_memsz - 1 :
        Sees(p, h.p_va + o) = IF o < h.p_filesz THEN <<names[p], i, o>> ELSE ZeroByte

Copied ==
    /\ \A p \in Complete : \A i \in Loadable(Headers(names[p])) : InPlace(p, i)
    /\ lpc = "copy" => \A i \in Loadable(Hs) : i < ph => InPlace(Pid, i)

KernelStays == \A x \in DOMAIN ram : PageOf(x) \notin FreePages => ram[x] = KernelByte

LoaderInv == /\ LoaderType /\ InProgram /\ HasRoom /\ PlacedBefore /\ PlacedHere
             /\ MappedHere /\ Apart /\ Copied /\ KernelStays
-----------------------------------------------------------------------------
\* A set of numbers has its least one.
LEMMA MinIs ==
    ASSUME NEW D \in SUBSET Nat, D # {}
    PROVE  Min(D) \in D /\ \A y \in D : Min(D) <= y
<1>1. \E x \in D : \A y \in D : x <= y BY LeastOne
<1>2. QED BY <1>1 DEF Min

\* The room there is.
LEMMA RoomIs == /\ Room \in Nat /\ Room >= 1 /\ RoomFor(Room)
                /\ PAGESIZE \in Nat /\ PAGESIZE > 0 /\ PhysPages \in Nat
                /\ FreePages \subseteq 1 .. PhysPages - 1
<1>1. \E n \in 1 .. PhysPages : RoomFor(n) BY ProgramAssumption
<1>2. Room \in 1 .. PhysPages /\ RoomFor(Room) BY <1>1 DEF Room
<1>3. QED BY <1>2, LoaderAssumption

\* Pages, and the bytes of them.
LEMMA Pages ==
    ASSUME NEW x \in Nat
    PROVE  /\ PageOf(x) \in Nat /\ x % PAGESIZE \in 0 .. PAGESIZE - 1
           /\ x = PAGESIZE * PageOf(x) + (x % PAGESIZE)
<1>1. PAGESIZE \in Nat /\ PAGESIZE > 0 BY RoomIs
<1>2. QED BY <1>1, DivMod DEF PageOf

\* The page of a byte of a page.
LEMMA PageIs ==
    ASSUME NEW q \in Nat, NEW r \in 0 .. PAGESIZE - 1
    PROVE  PageOf(q * PAGESIZE + r) = q /\ q * PAGESIZE + r \in Nat
<1>1. PAGESIZE \in Nat /\ PAGESIZE > 0 BY RoomIs
<1>2. q * PAGESIZE = PAGESIZE * q /\ q * PAGESIZE \in Nat BY <1>1, Z3
<1>3. q * PAGESIZE + r \in Int /\ q * PAGESIZE + r = PAGESIZE * q + r BY <1>1, <1>2
<1> DEFINE x == q * PAGESIZE + r
<1>4. x \in Int /\ x = PAGESIZE * q + r BY <1>3
<1>5. x \in Nat BY <1>1, <1>2
<1> HIDE DEF x
<1>6. x \div PAGESIZE = q BY <1>1, <1>4, DivOne
<1>7. QED BY <1>5, <1>6 DEF PageOf, x

\* Pages are in the order of addresses.
LEMMA PagesInOrder ==
    ASSUME NEW x \in Nat, NEW y \in Nat
    PROVE  /\ x <= y => PageOf(x) <= PageOf(y)
           /\ \A q \in Nat : q * PAGESIZE <= x <=> q <= PageOf(x)
<1> DEFINE P == PAGESIZE
           a == PageOf(x)
           b == PageOf(y)
           r == x % PAGESIZE
           s == y % PAGESIZE
<1>1. /\ P \in Nat /\ P > 0 /\ a \in Nat /\ b \in Nat /\ r \in 0 .. P - 1 /\ s \in 0 .. P - 1
      /\ x = P * a + r /\ y = P * b + s
  BY Pages, RoomIs
<1> HIDE DEF P, a, b, r, s
<1>2. ASSUME x <= y, a > b PROVE FALSE
  <2>1. a - b >= 1 BY <1>1, <1>2
  <2>2. P * (a - b) >= P BY <1>1, <2>1, Z3
  <2>3. P * (a - b) = P * a - P * b BY <1>1, Z3
  <2>4. P * a \in Int /\ P * b \in Int BY <1>1
  <2>5. QED BY <1>1, <1>2, <2>2, <2>3, <2>4
<1>3. ASSUME NEW q \in Nat PROVE q * P <= x <=> q <= a
  <2>1. q * P = P * q /\ P * q \in Int /\ P * a \in Int BY <1>1, Z3
  <2>2. ASSUME q <= a PROVE q * P <= x
    <3>1. a - q >= 0 BY <1>1, <2>2
    <3>2. P * (a - q) >= 0 /\ P * (a - q) = P * a - P * q BY <1>1, <3>1, Z3
    <3>3. QED BY <1>1, <2>1, <3>2
  <2>3. ASSUME q > a PROVE q * P > x
    <3>1. q - a >= 1 BY <1>1, <2>3
    <3>2. P * (q - a) >= P /\ P * (q - a) = P * q - P * a BY <1>1, <3>1, Z3
    <3>3. QED BY <1>1, <2>1, <3>2
  <2>4. q * P \in Int BY <2>1
  <2>5. QED BY <1>1, <2>2, <2>3, <2>4
<1>4. QED BY <1>1, <1>2, <1>3 DEF P, a, b

\* The loop over the pages of a segment goes from its first to its last one.
LEMMA SegmentIs ==
    ASSUME NEW h \in SegmentHeader, h.p_memsz > 0
    PROVE  /\ h.p_va \in Nat /\ h.p_memsz \in Nat /\ h.p_filesz \in Nat /\ h.w \in BOOLEAN
           /\ FirstPage(h) \in Nat /\ LastPage(h) \in Nat /\ FirstPage(h) <= LastPage(h)
           /\ SegmentPages(h) = FirstPage(h) .. LastPage(h)
           /\ \A o \in 0 .. h.p_memsz - 1 : PageOf(h.p_va + o) \in FirstPage(h) .. LastPage(h)
           /\ \A q \in Nat : q * PAGESIZE < h.p_va + h.p_memsz <=> q <= LastPage(h)
<1>1. h.p_va \in Nat /\ h.p_memsz \in Nat /\ h.p_filesz \in Nat /\ h.w \in BOOLEAN
  BY DEF SegmentHeader
<1> DEFINE e == h.p_va + h.p_memsz - 1
<1>2. e \in Nat /\ h.p_va <= e BY <1>1
<1> HIDE DEF e
<1>3. FirstPage(h) \in Nat /\ PageOf(e) \in Nat /\ FirstPage(h) <= PageOf(e)
  BY <1>1, <1>2, Pages, PagesInOrder DEF FirstPage
<1>4. ASSUME NEW o \in 0 .. h.p_memsz - 1 PROVE PageOf(h.p_va + o) \in FirstPage(h) .. PageOf(e)
  <2>1. h.p_va + o \in Nat /\ h.p_va <= h.p_va + o BY <1>1
  <2>2. h.p_va + o <= e BY <1>1 DEF e
  <2>3. PageOf(h.p_va + o) \in Nat BY <2>1, Pages
  <2>4. FirstPage(h) <= PageOf(h.p_va + o) BY <1>1, <2>1, PagesInOrder DEF FirstPage
  <2>5. PageOf(h.p_va + o) <= PageOf(e) BY <1>2, <2>1, <2>2, PagesInOrder
  <2>6. QED BY <1>3, <2>3, <2>4, <2>5
<1>5. ASSUME NEW q \in Nat PROVE q * PAGESIZE < h.p_va + h.p_memsz <=> q <= PageOf(e)
  <2>1. q * PAGESIZE <= e <=> q <= PageOf(e) BY <1>2, PagesInOrder
  <2>2. q * PAGESIZE \in Int BY RoomIs
  <2>3. e + 1 = h.p_va + h.p_memsz BY <1>1 DEF e
  <2>4. q * PAGESIZE <= e <=> q * PAGESIZE < h.p_va + h.p_memsz BY <1>2, <2>2, <2>3
  <2>5. QED BY <2>1, <2>4
<1>6. QED BY <1>1, <1>3, <1>4, <1>5 DEF LastPage, SegmentPages, FirstPage, e

\* The pages being next to each other, so are the bytes.
LEMMA InOneGo ==
    ASSUME NEW h \in SegmentHeader, h.p_memsz > 0, NEW b \in Nat, NEW o \in 0 .. h.p_memsz - 1
    PROVE  (b + (PageOf(h.p_va + o) - FirstPage(h))) * PAGESIZE + ((h.p_va + o) % PAGESIZE)
            = (b * PAGESIZE + (h.p_va % PAGESIZE)) + o
<1> DEFINE P == PAGESIZE
           va == h.p_va
           a == FirstPage(h)
           c == PageOf(h.p_va + o)
           r == h.p_va % PAGESIZE
           s == (h.p_va + o) % PAGESIZE
<1>1. va \in Nat /\ va + o \in Nat BY SegmentIs
<1>2. /\ P \in Nat /\ a \in Nat /\ c \in Nat /\ r \in 0 .. P - 1 /\ s \in 0 .. P - 1
      /\ va = P * a + r /\ va + o = P * c + s
  BY <1>1, Pages, RoomIs DEF FirstPage
<1>3. o \in Int BY SegmentIs
<1> HIDE DEF P, va, a, c, r, s
<1>4. P * c + s = P * a + r + o BY <1>1, <1>2, <1>3
<1>5. (b + (c - a)) * P = b * P + P * c - P * a BY <1>2, Z3
<1>6. P * c \in Int /\ P * a \in Int /\ b * P \in Int BY <1>2
<1>7. (b + (c - a)) * P + s = (b * P + r) + o BY <1>2, <1>3, <1>4, <1>5, <1>6
<1>8. QED BY <1>7 DEF P, va, a, c, r, s

\* The program headers of a name.
LEMMA HeadersAre ==
    ASSUME NEW n
    PROVE  /\ Headers(n) \in Seq(SegmentHeader) /\ Linked(Headers(n))
           /\ Len(Headers(n)) \in Nat /\ DOMAIN Headers(n) = 1 .. Len(Headers(n))
           /\ IsFiniteSet(ProgramPages(Headers(n)))
           /\ Cardinality(ProgramPages(Headers(n))) \in Nat
           /\ Cardinality(ProgramPages(Headers(n))) < Room
<1>1. CASE program_number(n) = 0
  <2>1. Headers(n) = <<>> BY <1>1 DEF Headers
  <2>2. Loadable(<<>>) = {} BY DEF Loadable
  <2>3. ProgramPages(<<>>) = {} BY <2>2 DEF ProgramPages
  <2>4. Linked(<<>>) BY <2>2 DEF Linked
  <2>5. Headers(n) \in Seq(SegmentHeader) /\ Len(Headers(n)) = 0 /\ DOMAIN Headers(n) = 1 .. 0 BY <2>1
  <2>6. IsFiniteSet({}) /\ Cardinality({}) = 0 BY FS_EmptySet
  <2>7. ProgramPages(Headers(n)) = {} /\ Linked(Headers(n)) BY <2>1, <2>3, <2>4
  <2> HIDE DEF Headers
  <2>8. QED BY <2>5, <2>6, <2>7, RoomIs
<1>2. CASE program_number(n) # 0
  <2> DEFINE same == {i \in DOMAIN ramimages : ramimages[i].name = n}
             k == program_number(n)
             R == [name : STRING, ph : Seq(SegmentHeader)]
             hs == Headers(n)
  <2>1. ramimages \in Seq(R) BY ProgramAssumption
  <2>2. same \in SUBSET Nat
    <3>1. DOMAIN ramimages = 1 .. Len(ramimages) BY <2>1
    <3>2. QED BY <2>1, <3>1
  <2>3. same # {} /\ k = Min(same) BY <1>2 DEF program_number
  <2>4. k \in same BY <2>2, <2>3, MinIs
  <2>5. k \in DOMAIN ramimages BY <2>4
  <2> HIDE DEF k, R
  <2>6. hs = ramimages[k].ph BY <1>2 DEF Headers, k
  <2>7. k \in 1 .. Len(ramimages) BY <2>1, <2>5
  <2>8. ramimages[k] \in R BY <2>1, <2>7, ElementOfSeq
  <2>9. hs \in Seq(SegmentHeader) BY <2>6, <2>8 DEF R
  <2>10. Linked(hs) BY <2>5, <2>6, ProgramAssumption
  <2>11. Cardinality(ProgramPages(hs)) < Room BY <2>5, <2>6, RoomIs DEF RoomFor
  <2> HIDE DEF hs
  <2>12. Len(hs) \in Nat /\ DOMAIN hs = 1 .. Len(hs) BY <2>9
  <2>13. ProgramPages(hs) \in SUBSET (0 .. StackPage - 1) BY <2>10 DEF ProgramPages, Linked
  <2>14. IsFiniteSet(ProgramPages(hs))
    <3>1. 0 \in Int /\ StackPage - 1 \in Int BY ProgramAssumption
    <3>2. IsFiniteSet(0 .. StackPage - 1) BY <3>1, FS_Interval
    <3>3. QED BY <2>13, <3>2, FS_Subset
  <2>15. Cardinality(ProgramPages(hs)) \in Nat BY <2>14, FS_CardinalityType
  <2>16. QED BY <2>9, <2>10, <2>11, <2>12, <2>14, <2>15 DEF hs
<1>3. QED BY <1>1, <1>2

\* A header that is loaded.
LEMMA HeaderIs ==
    ASSUME NEW n, NEW i \in Loadable(Headers(n))
    PROVE  /\ i \in 1 .. Len(Headers(n)) /\ Headers(n)[i].load
           /\ Headers(n)[i] \in SegmentHeader /\ Headers(n)[i].p_memsz > 0
           /\ SegmentPages(Headers(n)[i]) \subseteq ProgramPages(Headers(n))
           /\ SegmentPages(Headers(n)[i]) \subseteq 0 .. StackPage - 1
           /\ StackPage \notin SegmentPages(Headers(n)[i])
<1> DEFINE hs == Headers(n)
<1>1. hs \in Seq(SegmentHeader) /\ Linked(hs) /\ DOMAIN hs = 1 .. Len(hs) BY HeadersAre
<1> HIDE DEF hs
<1>2. i \in Loadable(hs) BY DEF hs
<1>3. i \in 1 .. Len(hs) /\ hs[i].load BY <1>1, <1>2 DEF Loadable
<1>4. hs[i] \in SegmentHeader BY <1>1, <1>3, ElementOfSeq
<1>5. hs[i].p_memsz > 0 /\ SegmentPages(hs[i]) \subseteq 0 .. StackPage - 1 BY <1>1, <1>2 DEF Linked
<1>6. SegmentPages(hs[i]) \subseteq ProgramPages(hs) BY <1>2 DEF ProgramPages
<1>7. StackPage \notin 0 .. StackPage - 1 BY ProgramAssumption
<1>8. QED BY <1>3, <1>4, <1>5, <1>6, <1>7 DEF hs

\* Segments share no page.
LEMMA SegmentsApart ==
    ASSUME NEW n, NEW i \in Loadable(Headers(n)), NEW j \in Loadable(Headers(n)), i # j
    PROVE  SegmentPages(Headers(n)[i]) \cap SegmentPages(Headers(n)[j]) = {}
<1>1. Linked(Headers(n)) BY HeadersAre
<1>2. QED BY <1>1 DEF Linked

\* operator++ leaves out no header that is loaded.
LEMMA FixIs ==
    ASSUME NEW n, NEW i \in 1 .. Len(Headers(n)) + 1
    PROVE  LET f == fix(Headers(n), i) IN
           /\ f \in Loadable(Headers(n)) \/ f = Len(Headers(n)) + 1
           /\ f \in Nat /\ f >= i
           /\ \A j \in Loadable(Headers(n)) : j < f => j < i
<1> DEFINE hs == Headers(n)
           later == {j \in i .. Len(hs) : hs[j].load}
           f == fix(hs, i)
<1>1. Len(hs) \in Nat /\ DOMAIN hs = 1 .. Len(hs) BY HeadersAre
<1> HIDE DEF hs
<1>2. i \in 1 .. Len(hs) + 1 BY DEF hs
<1>3. later \in SUBSET Nat /\ later \subseteq Loadable(hs) BY <1>1, <1>2 DEF Loadable
<1>4. ASSUME NEW j \in Loadable(hs), ~ (j < i) PROVE j \in later
  BY <1>1, <1>2, <1>4 DEF Loadable
<1>5. CASE later = {}
  <2>1. f = Len(hs) + 1 BY <1>5 DEF fix
  <2>2. \A j \in Loadable(hs) : j < i BY <1>4, <1>5
  <2>3. QED BY <1>1, <1>2, <2>1, <2>2 DEF hs
<1>6. CASE later # {}
  <2>1. f = Min(later) BY <1>6 DEF fix
  <2>2. f \in later /\ \A y \in later : f <= y BY <1>3, <1>6, <2>1, MinIs
  <2>3. f \in Loadable(hs) /\ f \in i .. Len(hs) BY <1>3, <2>2
  <2>4. ASSUME NEW j \in Loadable(hs), j < f PROVE j < i
    <3>1. j \in Nat BY <1>1 DEF Loadable
    <3>2. f \in Nat BY <1>1, <1>2, <2>3
    <3>3. QED BY <1>4, <2>2, <2>4, <3>1, <3>2
  <2> HIDE DEF f
  <2>5. QED BY <1>1, <1>2, <2>3, <2>4 DEF hs, f
<1>7. QED BY <1>5, <1>6
-----------------------------------------------------------------------------
\* The pages that all the programs need at most; they are allocatable.
Total == MaxStarted * (Room + 1)

\* There are that many below the kernel.
LEMMA TotalIs == /\ Total \in Nat /\ Total = 4 * (Room + 1) /\ 1 .. Total \subseteq FreePages
                 /\ Total < PhysPages
<1>1. Total \in Nat /\ Total = 4 * (Room + 1) BY RoomIs DEF Total, MaxStarted
<1>2. 1 .. Total \subseteq FreePages BY RoomIs DEF RoomFor, Total
<1>3. Total \in 1 .. Total BY <1>1, RoomIs
<1>4. Total \in 1 .. PhysPages - 1 BY <1>2, <1>3, RoomIs
<1>5. QED BY <1>1, <1>2, <1>4, RoomIs

\* kalloc takes the next page.
LEMMA Allocates ==
    ASSUME Used \in Nat, owned = 1 .. Used, Used < Total
    PROVE  /\ kalloc = Used + 1 /\ kalloc \in FreePages /\ kalloc \notin owned
           /\ owned' = owned \cup {kalloc} => owned' = 1 .. Used' /\ Used' = Used + 1
<1> DEFINE F == FreePages \ owned
           k == Used + 1
<1>1. k \in 1 .. Total BY TotalIs
<1>2. k \in F BY <1>1, TotalIs
<1>3. F \in SUBSET Nat BY RoomIs
<1>4. \A y \in F : k <= y
  <2>1. \A y \in F : y \in Nat /\ y >= 1 /\ y \notin 1 .. Used BY RoomIs
  <2>2. QED BY <2>1
<1>5. Min(F) = k
  <2>1. Min(F) \in F /\ \A y \in F : Min(F) <= y BY <1>2, <1>3, MinIs
  <2> HIDE DEF F
  <2>2. Min(F) <= k /\ k <= Min(F) BY <1>2, <1>4, <2>1
  <2>3. Min(F) \in Nat BY <1>3, <2>1
  <2>4. QED BY <2>2, <2>3
<1>6. kalloc = k BY <1>5 DEF kalloc
<1>7. ASSUME owned' = owned \cup {kalloc} PROVE owned' = 1 .. Used' /\ Used' = Used + 1
  <2>1. owned' = 1 .. k BY <1>6, <1>7
  <2>2. Cardinality(1 .. k) = k BY FS_Interval
  <2>3. Used' = k BY <2>1, <2>2 DEF Used
  <2>4. QED BY <2>1, <2>3
<1>8. QED BY <1>2, <1>6, <1>7

\* The byte of memory for a byte of a mapped page.
LEMMA Addressed ==
    ASSUME NEW q \in 1 .. Total, NEW r \in 0 .. PAGESIZE - 1
    PROVE  /\ q * PAGESIZE + r \in 0 .. PhysPages * PAGESIZE - 1
           /\ PageOf(q * PAGESIZE + r) = q
<1> DEFINE P == PAGESIZE
           N == PhysPages
<1>1. P \in Nat /\ P > 0 /\ N \in Nat BY RoomIs
<1>2. q \in Nat /\ q <= N - 1 BY TotalIs, <1>1
<1>3. PageOf(q * P + r) = q /\ q * P + r \in Nat BY <1>2, PageIs
<1> HIDE DEF P, N
<1>4. N - 1 - q >= 0 BY <1>1, <1>2
<1>5. (N - 1 - q) * P >= 0 /\ (N - 1 - q) * P = N * P - P - q * P BY <1>1, <1>2, <1>4, Z3
<1>6. N * P \in Int /\ q * P \in Int BY <1>1, <1>2
<1>7. r \in 0 .. P - 1 BY DEF P
<1>8. q * P + r <= N * P - 1 BY <1>1, <1>5, <1>6, <1>7
<1>9. QED BY <1>3, <1>6, <1>8 DEF P, N

-----------------------------------------------------------------------------
\* The processes are numbered from 1 on, and each has its space.
LEMMA PidIs ==
    ASSUME LoaderType
    PROVE  /\ Pid \in Nat /\ Len(names) \in Nat /\ Pid <= Len(names) /\ Pid <= 4
           /\ DOMAIN spaces = 1 .. Pid
           /\ \A p \in 1 .. Pid : /\ spaces[p] \in Space /\ DOMAIN spaces[p] \in SUBSET Nat
                                  /\ \A v \in DOMAIN spaces[p] : spaces[p][v].pa \in Nat
<1>1. spaces \in Seq(Space) /\ names \in Seq(Known) /\ Len(names) <= 4 /\ Len(spaces) <= Len(names)
  BY DEF LoaderType, MaxStarted
<1>2. Len(spaces) \in Nat /\ Len(names) \in Nat /\ DOMAIN spaces = 1 .. Len(spaces) BY <1>1
<1>3. ASSUME NEW p \in 1 .. Len(spaces)
      PROVE  /\ spaces[p] \in Space /\ DOMAIN spaces[p] \in SUBSET Nat
             /\ \A v \in DOMAIN spaces[p] : spaces[p][v].pa \in Nat
  <2>1. spaces[p] \in Space BY <1>1, ElementOfSeq
  <2>2. PICK D \in SUBSET Nat : spaces[p] \in [D -> [pa : Nat, w : BOOLEAN]] BY <2>1 DEF Space
  <2>3. QED BY <2>1, <2>2
<1>4. QED BY <1>1, <1>2, <1>3 DEF Pid

\* There is a page left while a program is loaded ...
LEMMA RoomHere ==
    ASSUME LoaderType, InProgram, HasRoom, MappedHere, lpc \in {"pages", "copy"}
    PROVE  /\ Used < Pid * (Room + 1) /\ Used < Total
           /\ DOMAIN spaces[Pid] \subseteq ProgramPages(Hs)
           /\ IsFiniteSet(DOMAIN spaces[Pid]) /\ Cardinality(DOMAIN spaces[Pid]) \in Nat
<1> DEFINE D == DOMAIN spaces[Pid]
           c == Cardinality(D)
           n == Room
<1>1. Pid \in Nat /\ Pid <= 4 /\ Pid > 0 BY PidIs DEF InProgram
<1>2. D \subseteq ProgramPages(Hs)
  <2>1. \A v \in D : \E i \in Loadable(Hs) : v \in SegmentPages(Hs[i]) BY DEF MappedHere
  <2>2. QED BY <2>1 DEF ProgramPages
<1>3. /\ IsFiniteSet(ProgramPages(Hs)) /\ Cardinality(ProgramPages(Hs)) \in Nat
      /\ Cardinality(ProgramPages(Hs)) < n
  BY HeadersAre DEF Hs
<1>4. IsFiniteSet(D) /\ c <= Cardinality(ProgramPages(Hs)) BY <1>2, <1>3, FS_Subset
<1>5. c \in Nat BY <1>4, FS_CardinalityType
<1>6. Used <= (Pid - 1) * (n + 1) + 1 + c BY DEF HasRoom
<1>7. n \in Nat BY RoomIs
<1>8. Used \in Nat BY DEF LoaderType
<1> HIDE DEF c, n
<1>9. c < n BY <1>3, <1>4, <1>5, <1>7
<1>10. (Pid - 1) * (n + 1) = Pid * (n + 1) - (n + 1) /\ Pid * (n + 1) \in Int BY <1>1, <1>7, Z3
<1>11. Used < Pid * (n + 1) BY <1>5, <1>6, <1>7, <1>8, <1>9, <1>10
<1>12. Pid * (n + 1) <= 4 * (n + 1) BY <1>1, <1>7, Z3
<1>13. Used < 4 * (n + 1) BY <1>7, <1>8, <1>10, <1>11, <1>12
<1>14. Used < Total BY <1>13, TotalIs DEF n
<1>15. QED BY <1>2, <1>4, <1>5, <1>11, <1>14 DEF c, n

\* ... and when the next one is to be.
LEMMA UsedFits ==
    ASSUME LoaderType, InProgram, HasRoom, MappedHere
    PROVE  /\ Used <= Total /\ Used \in Nat
           /\ lpc = "root" /\ Pid < Len(names) => Used < Total
<1>1. CASE lpc \in {"pages", "copy"} BY <1>1, RoomHere, TotalIs DEF LoaderType
<1>2. CASE lpc \notin {"pages", "copy"}
  <2> DEFINE n == Room
  <2>1. Used <= Pid * (n + 1) BY <1>2 DEF HasRoom
  <2>2. Pid \in Nat /\ Pid <= 4 /\ n \in Nat /\ Used \in Nat BY PidIs, RoomIs DEF LoaderType
  <2>3. Total = 4 * (n + 1) BY TotalIs
  <2> HIDE DEF n
  <2>4. Pid * (n + 1) <= 4 * (n + 1) /\ Pid * (n + 1) \in Int BY <2>2, Z3
  <2>5. Used <= Total BY <2>1, <2>2, <2>3, <2>4
  <2>6. ASSUME Pid < Len(names) PROVE Used < Total
    <3>1. Pid <= 3 BY <2>2, <2>6, PidIs DEF LoaderType, MaxStarted
    <3>2. Pid * (n + 1) <= 3 * (n + 1) BY <2>2, <3>1, Z3
    <3>3. QED BY <2>1, <2>2, <2>3, <2>4, <3>2
  <2>7. QED BY <2>2, <2>5, <2>6
<1>3. QED BY <1>1, <1>2
-----------------------------------------------------------------------------
\* The byte of memory that process p has at address a.
Where(p, a) == spaces[p][PageOf(a)].pa * PAGESIZE + (a % PAGESIZE)

\* The bytes of a segment whose pages are next to each other.
LEMMA ByteOf ==
    ASSUME LoaderType, Apart, Used <= Total, NEW p \in 1 .. Pid,
           NEW h \in SegmentHeader, h.p_memsz > 0, Placed(p, h), NEW o \in 0 .. h.p_memsz - 1
    PROVE  LET v == PageOf(h.p_va + o) IN
           /\ v \in SegmentPages(h) /\ v \in DOMAIN spaces[p] /\ spaces[p][v].w = h.w
           /\ spaces[p][v].pa \in 1 .. Total
           /\ Where(p, h.p_va + o) \in DOMAIN ram
           /\ PageOf(Where(p, h.p_va + o)) = spaces[p][v].pa
           /\ Where(p, h.p_va + o) = Where(p, h.p_va) + o
<1> DEFINE v == PageOf(h.p_va + o)
           r == (h.p_va + o) % PAGESIZE
<1>1. PICK b \in Nat : From(p, h, b, LastPage(h)) BY DEF Placed, LastPage
<1>2. /\ FirstPage(h) \in Nat /\ LastPage(h) \in Nat /\ FirstPage(h) <= LastPage(h) /\ h.p_va \in Nat /\ h.p_memsz \in Nat
      /\ SegmentPages(h) = FirstPage(h) .. LastPage(h) /\ v \in FirstPage(h) .. LastPage(h)
  BY SegmentIs
<1>3. FirstPage(h) \in FirstPage(h) .. LastPage(h) BY <1>2
<1>4. v \in DOMAIN spaces[p] /\ spaces[p][v] = [pa |-> b + (v - FirstPage(h)), w |-> h.w]
  BY <1>1, <1>2 DEF From
<1>5. spaces[p][FirstPage(h)] = [pa |-> b + (FirstPage(h) - FirstPage(h)), w |-> h.w]
  BY <1>1, <1>3 DEF From
<1>6. spaces[p][FirstPage(h)].pa = b BY <1>2, <1>5
<1>7. spaces[p][v].pa \in 1 .. Used BY <1>4 DEF Apart
<1>8. Used \in Nat BY DEF LoaderType
<1>9. spaces[p][v].pa \in 1 .. Total BY <1>7, <1>8, TotalIs
<1>10. h.p_va + o \in Nat BY <1>2
<1>11. r \in 0 .. PAGESIZE - 1 BY <1>10, Pages
<1>12. Where(p, h.p_va + o) = spaces[p][v].pa * PAGESIZE + r BY DEF Where
<1>13. DOMAIN ram = 0 .. PhysPages * PAGESIZE - 1 BY DEF LoaderType
<1> DEFINE q == spaces[p][v].pa
<1>14. q * PAGESIZE + r \in 0 .. PhysPages * PAGESIZE - 1 /\ PageOf(q * PAGESIZE + r) = q
  <2> HIDE DEF q, r
  <2>1. QED BY <1>9, <1>11, Addressed DEF q
<1>15. Where(p, h.p_va + o) \in DOMAIN ram /\ PageOf(Where(p, h.p_va + o)) = spaces[p][v].pa
  BY <1>12, <1>13, <1>14
<1>16. Where(p, h.p_va + o) = Where(p, h.p_va) + o
  <2>1. Where(p, h.p_va) = b * PAGESIZE + (h.p_va % PAGESIZE) BY <1>6 DEF Where, FirstPage
  <2>2. q = b + (v - FirstPage(h)) BY <1>4
  <2>3. (b + (v - FirstPage(h))) * PAGESIZE + r = (b * PAGESIZE + (h.p_va % PAGESIZE)) + o BY InOneGo
  <2>4. QED BY <1>12, <2>1, <2>2, <2>3
<1>17. QED BY <1>2, <1>4, <1>9, <1>15, <1>16

\* A step that leaves a segment's pages where they are leaves them next to each
\* other.
LEMMA PlacedKept ==
    ASSUME NEW p, NEW h \in SegmentHeader, h.p_memsz > 0, Placed(p, h),
           \A v \in SegmentPages(h) : v \in DOMAIN spaces[p]
                => v \in DOMAIN spaces'[p] /\ spaces'[p][v] = spaces[p][v]
    PROVE  Placed(p, h)'
<1>1. SegmentPages(h) = FirstPage(h) .. LastPage(h) BY SegmentIs
<1>2. PICK b \in Nat : From(p, h, b, LastPage(h)) BY DEF Placed, LastPage
<1>3. From(p, h, b, LastPage(h))' BY <1>1, <1>2 DEF From
<1>4. QED BY <1>3 DEF Placed, LastPage

\* One that also leaves what they hold leaves the segment in place.
LEMMA InPlaceKept ==
    ASSUME LoaderType, Apart, Used <= Total, NEW p \in 1 .. Pid,
           NEW i \in Loadable(Headers(names[p])),
           Placed(p, Headers(names[p])[i]), InPlace(p, i), names'[p] = names[p],
           \A v \in SegmentPages(Headers(names[p])[i]) :
                /\ spaces'[p][v] = spaces[p][v]
                /\ \A x \in DOMAIN ram : PageOf(x) = spaces[p][v].pa => ram'[x] = ram[x]
    PROVE  InPlace(p, i)'
<1>1. PICK h : h = Headers(names[p])[i] OBVIOUS
<1>2. h \in SegmentHeader /\ h.p_memsz > 0 BY <1>1, HeaderIs
<1>3. Headers(names[p])' = Headers(names[p]) BY DEF Headers
<1>4. ASSUME NEW o \in 0 .. h.p_memsz - 1
      PROVE  Sees(p, h.p_va + o)' = Sees(p, h.p_va + o)
  <2> DEFINE v == PageOf(h.p_va + o)
  <2>1. PICK x : x = Where(p, h.p_va + o) OBVIOUS
  <2>2. v \in SegmentPages(h) /\ x \in DOMAIN ram /\ PageOf(x) = spaces[p][v].pa
    BY <1>1, <1>2, <2>1, ByteOf
  <2>3. spaces'[p][v] = spaces[p][v] BY <1>1, <2>2
  <2>4. ram'[x] = ram[x] BY <1>1, <2>2
  <2>5. Sees(p, h.p_va + o) = ram[x] BY <2>1 DEF Sees, Where
  <2>6. Sees(p, h.p_va + o)' = ram'[x] BY <2>1, <2>3 DEF Sees, Where
  <2>7. QED BY <2>4, <2>5, <2>6
<1>5. \A o \in 0 .. h.p_memsz - 1 :
        Sees(p, h.p_va + o) = IF o < h.p_filesz THEN <<names[p], i, o>> ELSE ZeroByte
  BY <1>1 DEF InPlace
<1>6. Headers(names[p])'[i] = h BY <1>1, <1>3
<1>7. \A o \in 0 .. h.p_memsz - 1 :
        Sees(p, h.p_va + o)' = IF o < h.p_filesz THEN <<names'[p], i, o>> ELSE ZeroByte
  BY <1>4, <1>5
<1>8. QED BY <1>6, <1>7 DEF InPlace

-----------------------------------------------------------------------------
\* A page that is filled as it is allocated is nobody's yet.
LEMMA FilledKeeps ==
    ASSUME LoaderType, Used < Total, KernelStays, NEW b, ram' = Filled(kalloc, b)
    PROVE  /\ DOMAIN ram' = DOMAIN ram
           /\ \A x \in DOMAIN ram : PageOf(x) \in 1 .. Used => ram'[x] = ram[x]
           /\ KernelStays'
<1>1. Used \in Nat /\ kalloc = Used + 1 /\ kalloc \in FreePages BY Allocates DEF LoaderType
<1>2. ram' = [x \in DOMAIN ram |-> IF PageOf(x) = kalloc THEN b ELSE ram[x]] BY DEF Filled
<1>3. DOMAIN ram' = DOMAIN ram BY <1>2
<1>4. \A x \in DOMAIN ram : PageOf(x) # kalloc => ram'[x] = ram[x] BY <1>2
<1>5. kalloc \notin 1 .. Used BY <1>1
<1>6. QED BY <1>1, <1>3, <1>4, <1>5 DEF KernelStays

\* The processes that are set up stay so.
LEMMA BeforeKept ==
    ASSUME LoaderType, Apart, Used <= Total, PlacedBefore, Copied, NEW p \in 1 .. Pid, p \in Complete,
           names' = names, spaces'[p] = spaces[p],
           \A x \in DOMAIN ram : PageOf(x) \in 1 .. Used => ram'[x] = ram[x]
    PROVE  \A i \in Loadable(Headers(names'[p])) :
                Placed(p, Headers(names[p])[i])' /\ InPlace(p, i)'
<1> SUFFICES ASSUME NEW i \in Loadable(Headers(names'[p]))
             PROVE  Placed(p, Headers(names[p])[i])' /\ InPlace(p, i)'
  OBVIOUS
<1>1. PICK h : h = Headers(names[p])[i] OBVIOUS
<1>2. i \in Loadable(Headers(names[p])) OBVIOUS
<1>3. h \in SegmentHeader /\ h.p_memsz > 0 BY <1>1, <1>2, HeaderIs
<1>4. Placed(p, h) /\ InPlace(p, i) BY <1>1, <1>2 DEF PlacedBefore, Copied
<1>5. Placed(p, h)' BY <1>3, <1>4, PlacedKept
<1>6. Headers(names[p])'[i] = h BY <1>1 DEF Headers
<1>7. Placed(p, Headers(names[p])[i])' BY <1>5, <1>6
<1>8. ASSUME NEW v \in SegmentPages(h), NEW x \in DOMAIN ram, PageOf(x) = spaces[p][v].pa
      PROVE  ram'[x] = ram[x]
  <2>1. v \in DOMAIN spaces[p]
    <3>1. PICK b \in Nat : From(p, h, b, LastPage(h)) BY <1>4 DEF Placed, LastPage
    <3>2. v \in FirstPage(h) .. LastPage(h) BY <1>3, SegmentIs
    <3>3. QED BY <3>1, <3>2 DEF From
  <2>2. spaces[p][v].pa \in 1 .. Used BY <2>1 DEF Apart
  <2>3. QED BY <1>8, <2>2
<1>9. InPlace(p, i)' BY <1>1, <1>2, <1>4, <1>8, InPlaceKept
<1>10. QED BY <1>7, <1>9

\* A page is mapped for the process that is being set up.
LEMMA MappedIs ==
    ASSUME LoaderType, Pid > 0, NEW v \in Nat, NEW pa \in Nat, NEW w \in BOOLEAN,
           spaces' = Mapped(v, pa, w)
    PROVE  /\ spaces' \in Seq(Space) /\ Pid' = Pid
           /\ \A p \in 1 .. Pid : p # Pid => spaces'[p] = spaces[p]
           /\ DOMAIN spaces'[Pid] = DOMAIN spaces[Pid] \cup {v}
           /\ spaces'[Pid][v] = [pa |-> pa, w |-> w]
           /\ \A u \in DOMAIN spaces[Pid] : u # v => spaces'[Pid][u] = spaces[Pid][u]
<1> DEFINE f == spaces[Pid]
           g == [u \in DOMAIN f \cup {v} |-> IF u = v THEN [pa |-> pa, w |-> w] ELSE f[u]]
<1>1. Pid \in 1 .. Pid /\ DOMAIN spaces = 1 .. Pid /\ spaces \in Seq(Space) /\ Pid = Len(spaces)
  BY PidIs DEF LoaderType, Pid
<1>2. spaces' = [spaces EXCEPT ![Pid] = g] BY DEF Mapped
<1>3. PICK D \in SUBSET Nat : f \in [D -> [pa : Nat, w : BOOLEAN]]
  <2>1. f \in Space BY <1>1, PidIs
  <2>2. QED BY <2>1 DEF Space
<1>4. g \in [D \cup {v} -> [pa : Nat, w : BOOLEAN]] BY <1>3
<1>5. D \cup {v} \in SUBSET Nat OBVIOUS
<1>6. g \in Space BY <1>4, <1>5 DEF Space
<1>7. /\ DOMAIN g = DOMAIN f \cup {v} /\ g[v] = [pa |-> pa, w |-> w]
      /\ \A u \in DOMAIN f : u # v => g[u] = f[u]
  OBVIOUS
<1> HIDE DEF g, f
<1>8. spaces' \in Seq(Space) /\ Len(spaces') = Len(spaces) BY <1>1, <1>2, <1>6, ExceptSeq
<1>9. Pid' = Pid BY <1>8 DEF Pid
<1>10. spaces'[Pid] = g /\ \A p \in 1 .. Pid : p # Pid => spaces'[p] = spaces[p] BY <1>1, <1>2
<1>11. QED BY <1>7, <1>8, <1>9, <1>10 DEF f

\* One that was not used, and for an address that has none yet.
LEMMA ApartMapped ==
    ASSUME LoaderType, Apart, Pid > 0, NEW v \in Nat, v \notin DOMAIN spaces[Pid], NEW w \in BOOLEAN,
           spaces' = Mapped(v, Used + 1, w), Used' = Used + 1
    PROVE  Apart'
<1>1. Used \in Nat /\ Used + 1 \in Nat /\ Pid \in 1 .. Pid BY PidIs DEF LoaderType
<1>2. /\ Pid' = Pid
      /\ \A p \in 1 .. Pid : p # Pid => spaces'[p] = spaces[p]
      /\ DOMAIN spaces'[Pid] = DOMAIN spaces[Pid] \cup {v}
      /\ spaces'[Pid][v] = [pa |-> Used + 1, w |-> w]
      /\ \A u \in DOMAIN spaces[Pid] : u # v => spaces'[Pid][u] = spaces[Pid][u]
  BY <1>1, MappedIs
<1>3. ASSUME NEW p \in 1 .. Pid, NEW u \in DOMAIN spaces'[p]
      PROVE  \/ u \in DOMAIN spaces[p] /\ spaces'[p][u] = spaces[p][u] /\ spaces[p][u].pa \in 1 .. Used
             \/ p = Pid /\ u = v /\ spaces'[p][u].pa = Used + 1
  <2>1. CASE p # Pid
    <3>1. spaces'[p] = spaces[p] BY <1>2, <2>1
    <3>2. QED BY <3>1 DEF Apart
  <2>2. CASE p = Pid /\ u # v
    <3>1. u \in DOMAIN spaces[p] BY <1>2, <2>2
    <3>2. QED BY <1>2, <2>2, <3>1 DEF Apart
  <2>3. CASE p = Pid /\ u = v BY <1>2, <2>3
  <2>4. QED BY <2>1, <2>2, <2>3
<1>4. ASSUME NEW p \in 1 .. Pid, NEW q \in 1 .. Pid, NEW u \in DOMAIN spaces'[p], NEW y \in DOMAIN spaces'[q]
      PROVE  /\ spaces'[p][u].pa \in 1 .. Used + 1
             /\ spaces'[p][u].pa = spaces'[q][y].pa => p = q /\ u = y
  <2>1. spaces'[p][u].pa \in 1 .. Used + 1 BY <1>1, <1>3
  <2>2. ASSUME spaces'[p][u].pa = spaces'[q][y].pa PROVE p = q /\ u = y
    <3>1. CASE p = Pid /\ u = v /\ spaces'[p][u].pa = Used + 1 BY <1>1, <1>3, <2>2, <3>1
    <3>2. CASE q = Pid /\ y = v /\ spaces'[q][y].pa = Used + 1 BY <1>1, <1>3, <2>2, <3>2
    <3>3. CASE /\ u \in DOMAIN spaces[p] /\ spaces'[p][u] = spaces[p][u]
               /\ y \in DOMAIN spaces[q] /\ spaces'[q][y] = spaces[q][y]
      BY <2>2, <3>3 DEF Apart
    <3>4. QED BY <1>3, <3>1, <3>2, <3>3
  <2>3. QED BY <2>1, <2>2
<1>5. QED BY <1>2, <1>4 DEF Apart

-----------------------------------------------------------------------------
\* The next process gets its page table.
LEMMA SetupTableInv == ASSUME LoaderInv, SetupTable PROVE LoaderInv'
<1> DEFINE hs == Headers(names[Pid + 1])
<1>1. /\ LoaderType /\ InProgram /\ HasRoom /\ PlacedBefore /\ MappedHere /\ Apart /\ Copied /\ KernelStays
  BY DEF LoaderInv
<1>2. /\ lpc = "root" /\ Pid < Len(names) /\ lpc' = "pages" /\ names' = names
      /\ owned' = owned \cup {kalloc} /\ ram' = Filled(kalloc, TableByte)
      /\ spaces' = Append(spaces, <<>>) /\ ph' = fix(hs, 1)
      /\ page' = IF present(hs, ph') THEN PageOf(hs[ph'].p_va) ELSE 0
  BY DEF SetupTable
<1>3. /\ Pid \in Nat /\ Len(names) \in Nat /\ spaces \in Seq(Space) /\ Len(spaces) = Pid
      /\ DOMAIN spaces = 1 .. Pid
  BY <1>1, PidIs DEF LoaderType, Pid
<1>4. Used < Total /\ Used \in Nat /\ Used <= Total BY <1>1, <1>2, UsedFits
<1>5. /\ owned' = 1 .. Used' /\ Used' = Used + 1 BY <1>1, <1>2, <1>4, Allocates DEF LoaderType
<1>6. <<>> \in Space
  <2>1. <<>> \in [{} -> [pa : Nat, w : BOOLEAN]] OBVIOUS
  <2>2. QED BY <2>1 DEF Space
<1>7. /\ spaces' \in Seq(Space) /\ Pid' = Pid + 1
      /\ \A p \in 1 .. Pid : spaces'[p] = spaces[p]
      /\ spaces'[Pid + 1] = <<>>
  <2>1. /\ Append(spaces, <<>>) \in Seq(Space) /\ Len(Append(spaces, <<>>)) = Len(spaces) + 1
        /\ \A p \in 1 .. Len(spaces) : Append(spaces, <<>>)[p] = spaces[p]
        /\ Append(spaces, <<>>)[Len(spaces) + 1] = <<>>
    BY <1>3, <1>6, AppendProperties
  <2>2. QED BY <1>2, <1>3, <2>1 DEF Pid
<1>8. DOMAIN spaces'[Pid + 1] = {} BY <1>7
<1>9. /\ DOMAIN ram' = DOMAIN ram /\ KernelStays'
      /\ \A x \in DOMAIN ram : PageOf(x) \in 1 .. Used => ram'[x] = ram[x]
  BY <1>1, <1>2, <1>4, FilledKeeps
<1>10. LoaderType' BY <1>1, <1>2, <1>3, <1>5, <1>7, <1>9 DEF LoaderType, Pid
<1>11. Hs' = hs BY <1>2, <1>7 DEF Hs, Headers
<1>12. /\ ph' \in Loadable(hs) \/ ph' = Len(hs) + 1
       /\ ph' \in Nat /\ \A j \in Loadable(hs) : j < ph' => j < 1
  <2>1. 1 \in 1 .. Len(hs) + 1 BY HeadersAre
  <2>2. QED BY <1>2, <2>1, FixIs
<1>13. ASSUME NEW j \in Loadable(hs) PROVE ~ (j < ph')
  <2>1. j \in 1 .. Len(hs) BY HeaderIs
  <2>2. QED BY <1>12, <2>1
<1>14. ASSUME ph' \in Loadable(hs)
       PROVE  page' = FirstPage(hs[ph']) /\ hs[ph'] \in SegmentHeader /\ hs[ph'].p_memsz > 0
  <2>1. ph' \in DOMAIN hs BY <1>14 DEF Loadable
  <2>2. QED BY <1>2, <1>14, <2>1, HeaderIs DEF present, FirstPage
<1>15. InProgram'
  <2>1. Pid' > 0 BY <1>3, <1>7
  <2>2. ASSUME ph' \in Loadable(hs)
        PROVE  page' \in FirstPage(hs[ph']) .. PageOf(hs[ph'].p_va + hs[ph'].p_memsz - 1) + 1
    <3>1. FirstPage(hs[ph']) \in Nat /\ LastPage(hs[ph']) \in Nat /\ FirstPage(hs[ph']) <= LastPage(hs[ph'])
      BY <1>14, <2>2, SegmentIs
    <3>2. QED BY <1>14, <2>2, <3>1 DEF LastPage
  <2>3. QED BY <1>11, <1>12, <2>1, <2>2 DEF InProgram, FirstPage, PageOf
<1>16. HasRoom'
  <2>1. Cardinality(DOMAIN spaces'[Pid']) = 0 BY <1>7, <1>8, FS_EmptySet
  <2>2. Used <= Pid * (Room + 1) BY <1>1, <1>2 DEF HasRoom
  <2>3. Pid' - 1 = Pid BY <1>3, <1>7
  <2>4. Pid * (Room + 1) \in Int BY <1>3, RoomIs
  <2>5. Used' <= (Pid' - 1) * (Room + 1) + 1 + Cardinality(DOMAIN spaces'[Pid'])
    BY <1>4, <1>5, <2>1, <2>2, <2>3, <2>4
  <2>6. QED BY <1>2, <2>5 DEF HasRoom, Room, RoomFor
<1>17. Complete = 1 .. Pid /\ Complete' = 1 .. Pid BY <1>2, <1>3, <1>7 DEF Complete
<1>18. ASSUME NEW p \in Complete'
       PROVE  \A i \in Loadable(Headers(names'[p])) : Placed(p, Headers(names[p])[i])' /\ InPlace(p, i)'
  BY <1>1, <1>2, <1>4, <1>7, <1>9, <1>17, BeforeKept
<1>19. PlacedBefore' BY <1>18 DEF PlacedBefore
<1>20. Copied' BY <1>2, <1>18 DEF Copied
<1>21. PlacedHere'
  <2>1. ASSUME ph' \in Loadable(hs)
        PROVE  \E b \in Nat : From(Pid, Hs[ph], b, page - 1)' /\ b + (page' - FirstPage(Hs[ph])') = Used' + 1
    <3>1. PICK k : k = Used' + 1 OBVIOUS
    <3>2. FirstPage(Hs[ph])' = FirstPage(hs[ph']) BY <1>11 DEF FirstPage, PageOf
    <3>3. FirstPage(hs[ph']) \in Nat BY <1>14, <2>1, SegmentIs
    <3>4. FirstPage(hs[ph']) .. page' - 1 = {} BY <1>14, <2>1, <3>3
    <3>5. k \in Nat /\ k + (page' - FirstPage(hs[ph'])) = k
      BY <1>4, <1>5, <1>14, <2>1, <3>1, <3>3
    <3>6. From(Pid, Hs[ph], k, page - 1)' BY <3>2, <3>4 DEF From
    <3>7. QED BY <3>1, <3>2, <3>5, <3>6
  <2>2. QED BY <1>2, <1>11, <1>13, <2>1 DEF PlacedHere
<1>22. MappedHere' BY <1>7, <1>8 DEF MappedHere
<1>23. Apart'
  <2>1. ASSUME NEW p \in 1 .. Pid + 1, NEW u \in DOMAIN spaces'[p]
        PROVE  p \in 1 .. Pid /\ u \in DOMAIN spaces[p] /\ spaces'[p] = spaces[p]
    BY <1>3, <1>7, <1>8
  <2>2. 1 .. Used \subseteq 1 .. Used' BY <1>4, <1>5
  <2>3. QED BY <1>1, <1>7, <2>1, <2>2 DEF Apart
<1>24. QED BY <1>9, <1>10, <1>15, <1>16, <1>19, <1>20, <1>21, <1>22, <1>23 DEF LoaderInv

\* A page of a segment is allocated and mapped.
LEMMA SetupPageInv == ASSUME LoaderInv, SetupPage PROVE LoaderInv'
<1>1. /\ LoaderType /\ InProgram /\ HasRoom /\ PlacedBefore /\ PlacedHere /\ MappedHere /\ Apart
      /\ Copied /\ KernelStays
  BY DEF LoaderInv
<1>2. /\ lpc = "pages" /\ lpc' = lpc /\ names' = names /\ ph' = ph /\ page' = page + 1
      /\ present(Hs, ph) /\ page * PAGESIZE < Hs[ph].p_va + Hs[ph].p_memsz
      /\ owned' = owned \cup {kalloc} /\ ram' = Filled(kalloc, CCByte)
      /\ spaces' = Mapped(page, kalloc, Hs[ph].w)
  BY DEF SetupPage
<1>3. PICK h : h = Hs[ph] OBVIOUS
<1>4. /\ Pid \in Nat /\ Pid > 0 /\ Pid \in 1 .. Pid BY <1>1, <1>2, PidIs DEF InProgram
<1>5. ph \in Loadable(Hs)
  <2>1. ph \in 1 .. Len(Hs) BY <1>2, HeadersAre DEF present, Hs
  <2>2. Len(Hs) \in Nat BY HeadersAre DEF Hs
  <2>3. ph # Len(Hs) + 1 BY <2>1, <2>2
  <2>4. QED BY <1>1, <1>2, <2>3 DEF InProgram
<1>6. h \in SegmentHeader /\ h.p_memsz > 0 /\ ph \in Nat BY <1>3, <1>5, HeaderIs DEF Hs
<1>7. /\ FirstPage(h) \in Nat /\ LastPage(h) \in Nat /\ FirstPage(h) <= LastPage(h) /\ h.w \in BOOLEAN
      /\ SegmentPages(h) = FirstPage(h) .. LastPage(h)
      /\ \A q \in Nat : q * PAGESIZE < h.p_va + h.p_memsz <=> q <= LastPage(h)
  BY <1>6, SegmentIs
<1>8. page \in FirstPage(h) .. LastPage(h)
  <2>1. page \in FirstPage(h) .. LastPage(h) + 1 BY <1>1, <1>2, <1>3, <1>5 DEF InProgram, LastPage
  <2>2. page \in Nat BY <1>7, <2>1
  <2>3. page <= LastPage(h) BY <1>2, <1>3, <1>7, <2>2
  <2>4. QED BY <1>7, <2>1, <2>3
<1>9. page \in Nat BY <1>7, <1>8
<1>10. /\ Used < Total /\ Used \in Nat /\ Used <= Total
       /\ IsFiniteSet(DOMAIN spaces[Pid]) /\ Cardinality(DOMAIN spaces[Pid]) \in Nat
  BY <1>1, <1>2, RoomHere, TotalIs DEF LoaderType
<1>11. kalloc = Used + 1 /\ owned' = 1 .. Used' /\ Used' = Used + 1
  BY <1>1, <1>2, <1>10, Allocates DEF LoaderType
<1>12. page \notin DOMAIN spaces[Pid]
  <2>1. SUFFICES ASSUME page \in DOMAIN spaces[Pid] PROVE FALSE OBVIOUS
  <2>2. PICK i \in Loadable(Hs) : page \in SegmentPages(Hs[i]) /\ (i < ph \/ (i = ph /\ page < page))
    BY <1>1, <1>2, <2>1 DEF MappedHere
  <2>3. i # ph
    <3>1. ~ (page < page) BY <1>9
    <3>2. i \in Nat BY HeaderIs DEF Hs
    <3>3. QED BY <1>6, <2>2, <3>1, <3>2
  <2>4. SegmentPages(Hs[i]) \cap SegmentPages(Hs[ph]) = {} BY <1>5, <2>3, SegmentsApart DEF Hs
  <2>5. QED BY <1>3, <1>7, <1>8, <2>2, <2>4
<1>13. spaces' = Mapped(page, Used + 1, h.w) BY <1>2, <1>3, <1>11
<1>14. /\ spaces' \in Seq(Space) /\ Pid' = Pid
       /\ \A p \in 1 .. Pid : p # Pid => spaces'[p] = spaces[p]
       /\ DOMAIN spaces'[Pid] = DOMAIN spaces[Pid] \cup {page}
       /\ spaces'[Pid][page] = [pa |-> Used + 1, w |-> h.w]
       /\ \A u \in DOMAIN spaces[Pid] : u # page => spaces'[Pid][u] = spaces[Pid][u]
  BY <1>1, <1>4, <1>7, <1>9, <1>10, <1>13, MappedIs
<1>15. Apart' BY <1>1, <1>4, <1>7, <1>9, <1>11, <1>12, <1>13, ApartMapped
<1>16. /\ DOMAIN ram' = DOMAIN ram /\ KernelStays'
       /\ \A x \in DOMAIN ram : PageOf(x) \in 1 .. Used => ram'[x] = ram[x]
  BY <1>1, <1>2, <1>10, FilledKeeps
<1>17. LoaderType' BY <1>1, <1>2, <1>10, <1>11, <1>14, <1>16 DEF LoaderType, Pid
<1>18. Hs' = Hs BY <1>2, <1>14 DEF Hs, Headers
<1>19. Hs'[ph'] = h BY <1>2, <1>3, <1>18
<1>20. InProgram'
  <2>1. page' \in FirstPage(h) .. LastPage(h) + 1 BY <1>2, <1>7, <1>8
  <2>2. FirstPage(Hs[ph])' = FirstPage(h) BY <1>19 DEF FirstPage, PageOf
  <2>3. (PageOf(Hs[ph].p_va + Hs[ph].p_memsz - 1))' = LastPage(h) BY <1>19 DEF LastPage, PageOf
  <2>4. Pid' > 0 /\ ph' \in Loadable(Hs)' BY <1>2, <1>4, <1>5, <1>14, <1>18 DEF Loadable
  <2>5. QED BY <2>1, <2>2, <2>3, <2>4 DEF InProgram
<1>21. HasRoom'
  <2> DEFINE c == Cardinality(DOMAIN spaces[Pid])
  <2>1. Cardinality(DOMAIN spaces'[Pid]) = c + 1 BY <1>10, <1>12, <1>14, FS_AddElement
  <2>2. Used <= (Pid - 1) * (Room + 1) + 1 + c BY <1>1, <1>2 DEF HasRoom
  <2>3. (Pid - 1) * (Room + 1) \in Int BY <1>4, RoomIs
  <2> HIDE DEF c
  <2>4. c \in Nat BY <1>10 DEF c
  <2>5. Used' <= (Pid - 1) * (Room + 1) + 1 + (c + 1) BY <1>10, <1>11, <2>2, <2>3, <2>4
  <2>6. QED BY <1>2, <1>14, <2>1, <2>5 DEF HasRoom, Room, RoomFor
<1>22. Complete = 1 .. Pid - 1 /\ Complete' = 1 .. Pid - 1 BY <1>2, <1>14 DEF Complete
<1>23. ASSUME NEW p \in Complete'
       PROVE  \A i \in Loadable(Headers(names'[p])) : Placed(p, Headers(names[p])[i])' /\ InPlace(p, i)'
  <2>1. p \in 1 .. Pid /\ p # Pid BY <1>4, <1>22
  <2>2. spaces'[p] = spaces[p] BY <1>14, <2>1
  <2>3. QED BY <1>1, <1>2, <1>10, <1>16, <1>22, <2>1, <2>2, BeforeKept
<1>24. PlacedBefore' BY <1>23 DEF PlacedBefore
<1>25. Copied' BY <1>2, <1>23 DEF Copied
<1>26. PlacedHere'
  <2>1. ASSUME NEW i \in Loadable(Hs), i < ph PROVE Placed(Pid, Hs[i])'
    <3>1. PICK g : g = Hs[i] OBVIOUS
    <3>2. PICK p : p = Pid OBVIOUS
    <3>3. g \in SegmentHeader /\ g.p_memsz > 0 /\ i \in Nat BY <3>1, HeaderIs DEF Hs
    <3>4. Placed(p, g) BY <1>1, <1>2, <2>1, <3>1, <3>2 DEF PlacedHere
    <3>5. ASSUME NEW v \in SegmentPages(g), v \in DOMAIN spaces[p]
          PROVE  v \in DOMAIN spaces'[p] /\ spaces'[p][v] = spaces[p][v]
      BY <1>12, <1>14, <3>2, <3>5
    <3>6. Placed(p, g)' BY <3>3, <3>4, <3>5, PlacedKept
    <3>7. Pid' = p /\ Hs'[i] = g BY <1>14, <1>18, <3>1, <3>2
    <3>8. QED BY <3>6, <3>7
  <2>2. \E b \in Nat : From(Pid, Hs[ph], b, page - 1)' /\ b + (page' - FirstPage(Hs[ph])') = Used' + 1
    <3>1. PICK b \in Nat : From(Pid, h, b, page - 1) /\ b + (page - FirstPage(h)) = Used + 1
      BY <1>1, <1>2, <1>3, <1>5 DEF PlacedHere
    <3>2. ASSUME NEW v \in FirstPage(h) .. page
          PROVE  v \in DOMAIN spaces'[Pid] /\ spaces'[Pid][v] = [pa |-> b + (v - FirstPage(h)), w |-> h.w]
      <4>1. CASE v = page BY <1>14, <3>1, <4>1
      <4>2. CASE v # page
        <5>1. v \in FirstPage(h) .. page - 1 BY <1>7, <1>9, <4>2
        <5>2. v \in DOMAIN spaces[Pid] /\ spaces[Pid][v] = [pa |-> b + (v - FirstPage(h)), w |-> h.w]
          BY <3>1, <5>1 DEF From
        <5>3. QED BY <1>14, <4>2, <5>2
      <4>3. QED BY <4>1, <4>2
    <3>3. page' - 1 = page BY <1>2, <1>9
    <3>4. FirstPage(Hs[ph])' = FirstPage(h) BY <1>19 DEF FirstPage, PageOf
    <3>5. From(Pid, Hs[ph], b, page - 1)' BY <1>14, <1>19, <3>2, <3>3, <3>4 DEF From
    <3>6. b + (page' - FirstPage(h)) = Used' + 1 BY <1>2, <1>7, <1>9, <1>10, <1>11, <3>1
    <3>7. QED BY <3>4, <3>5, <3>6
  <2>3. QED BY <1>2, <1>18, <2>1, <2>2 DEF PlacedHere
<1>27. MappedHere'
  <2>1. ASSUME NEW v \in DOMAIN spaces'[Pid]
        PROVE  \E i \in Loadable(Hs) : v \in SegmentPages(Hs[i]) /\ (i < ph \/ (i = ph /\ v < page'))
    <3>1. CASE v = page
      <4>1. v \in SegmentPages(Hs[ph]) /\ v < page' BY <1>2, <1>3, <1>7, <1>8, <1>9, <3>1
      <4>2. QED BY <1>5, <4>1
    <3>2. CASE v # page
      <4>1. v \in DOMAIN spaces[Pid] BY <1>14, <3>2
      <4>2. v \in Nat BY <1>1, <1>4, <4>1, PidIs
      <4>3. PICK i \in Loadable(Hs) : v \in SegmentPages(Hs[i]) /\ (i < ph \/ (i = ph /\ v < page))
        BY <1>1, <1>2, <4>1 DEF MappedHere
      <4>4. v < page => v < page' BY <1>2, <1>9, <4>2
      <4>5. QED BY <4>3, <4>4
    <3>3. QED BY <3>1, <3>2
  <2>2. QED BY <1>2, <1>14, <1>18, <2>1 DEF MappedHere, SegmentPages, PageOf
<1>28. QED BY <1>15, <1>16, <1>17, <1>20, <1>21, <1>24, <1>25, <1>26, <1>27 DEF LoaderInv

\* All pages of a segment are there: the next one, or the copying.
LEMMA SetupNextInv == ASSUME LoaderInv, SetupNext PROVE LoaderInv'
<1> DEFINE next == IF present(Hs, ph) THEN fix(Hs, ph + 1) ELSE ph
<1>1. /\ LoaderType /\ InProgram /\ HasRoom /\ PlacedBefore /\ PlacedHere /\ MappedHere /\ Apart
      /\ Copied /\ KernelStays
  BY DEF LoaderInv
<1>2. /\ lpc = "pages" /\ UNCHANGED <<ram, owned, spaces, names>>
      /\ present(Hs, ph) => page * PAGESIZE >= Hs[ph].p_va + Hs[ph].p_memsz
      /\ IF present(Hs, next)
         THEN ph' = next /\ page' = PageOf(Hs[next].p_va) /\ lpc' = lpc
         ELSE ph' = fix(Hs, 1) /\ page' = 0 /\ lpc' = "copy"
  BY DEF SetupNext
<1>3. /\ Pid \in Nat /\ Pid > 0 /\ Pid' = Pid BY <1>1, <1>2, PidIs DEF InProgram, Pid
<1>4. Len(Hs) \in Nat /\ DOMAIN Hs = 1 .. Len(Hs) /\ Loadable(Hs) \subseteq DOMAIN Hs
  BY HeadersAre DEF Hs, Loadable
<1>5. Hs' = Hs BY <1>2, <1>3 DEF Hs, Headers
<1>6. ph \in Loadable(Hs) \/ ph = Len(Hs) + 1 BY <1>1, <1>2 DEF InProgram
<1>7. Used \in Nat /\ Used' = Used BY <1>1, <1>2 DEF LoaderType, Used
<1>8. /\ next \in Loadable(Hs) \/ next = Len(Hs) + 1
      /\ next \in Nat
      /\ \A j \in Loadable(Hs) : j < next => j < ph \/ j = ph
  <2>1. CASE ph \in Loadable(Hs)
    <3>1. ph \in 1 .. Len(Hs) BY <1>4, <2>1
    <3>2. ph + 1 \in 1 .. Len(Hs) + 1 /\ next = fix(Hs, ph + 1) BY <1>4, <3>1 DEF present
    <3>3. /\ next \in Loadable(Hs) \/ next = Len(Hs) + 1
          /\ next \in Nat /\ \A j \in Loadable(Hs) : j < next => j < ph + 1
      BY <3>2, FixIs DEF Hs
    <3>4. \A j \in Loadable(Hs) : j \in Nat BY <1>4
    <3>5. QED BY <3>1, <3>3, <3>4
  <2>2. CASE ph = Len(Hs) + 1
    <3>1. next = ph BY <1>4, <2>2 DEF present
    <3>2. QED BY <1>4, <2>2, <3>1
  <2>3. QED BY <1>6, <2>1, <2>2
<1> HIDE DEF next
<1>9. ASSUME NEW j \in Loadable(Hs), j < ph \/ j = ph PROVE Placed(Pid, Hs[j])
  <2>1. CASE j < ph BY <1>1, <1>2, <2>1 DEF PlacedHere
  <2>2. CASE j = ph
    <3>1. PICK h : h = Hs[ph] OBVIOUS
    <3>2. ph \in Loadable(Hs) BY <2>2
    <3>3. h \in SegmentHeader /\ h.p_memsz > 0 BY <3>1, <3>2, HeaderIs DEF Hs
    <3>4. /\ FirstPage(h) \in Nat /\ LastPage(h) \in Nat /\ h.p_va \in Nat /\ h.p_memsz \in Nat
          /\ \A q \in Nat : q * PAGESIZE < h.p_va + h.p_memsz <=> q <= LastPage(h)
      BY <3>3, SegmentIs
    <3>5. page \in FirstPage(h) .. LastPage(h) + 1 BY <1>1, <1>2, <3>1, <3>2 DEF InProgram, LastPage
    <3>6. page \in Nat /\ page * PAGESIZE \in Int BY <3>4, <3>5, RoomIs
    <3>7. present(Hs, ph) BY <1>4, <3>2 DEF present
    <3>8. ~ (page <= LastPage(h)) BY <1>2, <3>1, <3>4, <3>6, <3>7
    <3>9. page - 1 = LastPage(h) BY <3>4, <3>5, <3>6, <3>8
    <3>10. PICK b \in Nat : From(Pid, h, b, page - 1) BY <1>1, <1>2, <3>1, <3>2 DEF PlacedHere
    <3>11. From(Pid, h, b, LastPage(h)) BY <3>9, <3>10
    <3>12. QED BY <2>2, <3>1, <3>11 DEF Placed, LastPage
  <2>3. QED BY <1>9, <2>1, <2>2
<1>10. lpc' \in {"pages", "copy"} BY <1>2
<1>11. LoaderType' BY <1>1, <1>2, <1>3, <1>7, <1>10 DEF LoaderType, Pid
<1>12. HasRoom' BY <1>1, <1>2, <1>3, <1>7, <1>10 DEF HasRoom, Room, RoomFor
<1>13. Complete' = Complete BY <1>2, <1>3, <1>10 DEF Complete
<1>14. Apart' BY <1>1, <1>2, <1>3, <1>7 DEF Apart
<1>15. KernelStays' BY <1>1, <1>2 DEF KernelStays, PageOf
<1>16. ASSUME NEW p \in Complete'
     PROVE  \A i \in Loadable(Headers(names'[p])) : Placed(p, Headers(names[p])[i])' /\ InPlace(p, i)'
  <2>1. p \in 1 .. Pid /\ p \in Complete BY <1>2, <1>3, <1>13 DEF Complete
  <2>2. Used <= Total BY <1>1, UsedFits
  <2>3. QED BY <1>1, <1>2, <2>1, <2>2, BeforeKept
<1>17. PlacedBefore' BY <1>16 DEF PlacedBefore
<1>18. \A p \in Complete' : \A i \in Loadable(Headers(names'[p])) : InPlace(p, i)' BY <1>16
<1>19. ASSUME NEW j \in Loadable(Hs), Placed(Pid, Hs[j]) PROVE Placed(Pid, Hs[j])'
  BY <1>2, <1>3, <1>5, <1>19 DEF Placed, From, FirstPage, PageOf
<1>20. CASE present(Hs, next)
  <2>1. next \in Loadable(Hs)
    <3>1. next \in 1 .. Len(Hs) BY <1>4, <1>20 DEF present
    <3>2. next # Len(Hs) + 1 BY <1>4, <3>1
    <3>3. QED BY <1>8, <3>2
  <2>2. ph' = next /\ page' = FirstPage(Hs[next]) /\ lpc' = "pages" BY <1>2, <1>20 DEF FirstPage
  <2>3. PICK h : h = Hs[next] OBVIOUS
  <2>4. Hs'[ph'] = h BY <1>5, <2>2, <2>3
  <2>5. FirstPage(Hs[ph])' = FirstPage(h) BY <2>4 DEF FirstPage, PageOf
  <2>6. h \in SegmentHeader /\ h.p_memsz > 0 BY <2>1, <2>3, HeaderIs DEF Hs
  <2>7. FirstPage(h) \in Nat /\ LastPage(h) \in Nat /\ FirstPage(h) <= LastPage(h) BY <2>6, SegmentIs
  <2>8. InProgram'
    <3>1. (PageOf(Hs[ph].p_va + Hs[ph].p_memsz - 1))' = LastPage(h) BY <2>4 DEF LastPage, PageOf
    <3>2. page' \in FirstPage(h) .. LastPage(h) + 1 BY <2>2, <2>3, <2>7
    <3>3. ph' \in Loadable(Hs)' BY <1>5, <2>1, <2>2 DEF Loadable
    <3>4. QED BY <1>3, <2>5, <3>1, <3>2, <3>3 DEF InProgram
  <2>9. PlacedHere'
    <3>1. PICK k : k = Used + 1 OBVIOUS
    <3>2. FirstPage(h) .. page' - 1 = {} BY <2>2, <2>3, <2>7
    <3>3. From(Pid, Hs[ph], k, page - 1)' BY <2>5, <3>2 DEF From
    <3>4. k \in Nat /\ k + (page' - FirstPage(h)) = Used' + 1 BY <1>7, <2>2, <2>3, <2>7, <3>1
    <3>5. \E b \in Nat : From(Pid, Hs[ph], b, page - 1)' /\ b + (page' - FirstPage(Hs[ph])') = Used' + 1
      BY <2>5, <3>3, <3>4
    <3>6. \A i \in Loadable(Hs)' : i < ph' => Placed(Pid, Hs[i])' BY <1>5, <1>8, <1>9, <1>19, <2>2 DEF Loadable
    <3>7. QED BY <2>2, <3>5, <3>6 DEF PlacedHere
  <2>10. MappedHere'
    <3>1. ASSUME NEW v \in DOMAIN spaces[Pid]
          PROVE  \E i \in Loadable(Hs) : v \in SegmentPages(Hs[i]) /\ i < next
      <4>1. PICK i \in Loadable(Hs) : v \in SegmentPages(Hs[i]) /\ (i < ph \/ i = ph)
        BY <1>1, <1>2 DEF MappedHere
      <4>2. ph < next
        <5>1. ph \in Loadable(Hs)
          <6>1. SUFFICES ASSUME ph = Len(Hs) + 1 PROVE FALSE BY <1>6
          <6>2. next = ph BY <1>4, <6>1 DEF next, present
          <6>3. QED BY <1>4, <2>1, <6>1, <6>2
        <5>2. ph \in 1 .. Len(Hs) BY <1>4, <5>1
        <5>3. ph + 1 \in 1 .. Len(Hs) + 1 /\ next = fix(Hs, ph + 1) BY <1>4, <5>2 DEF present, next
        <5>4. next >= ph + 1 BY <5>3, FixIs DEF Hs
        <5>5. QED BY <1>8, <5>2, <5>4
      <4>3. i \in Nat /\ ph \in Nat BY <1>4, <1>6
      <4>4. QED BY <1>8, <4>1, <4>2, <4>3
    <3>2. QED BY <1>2, <1>3, <1>5, <2>2, <3>1 DEF MappedHere, SegmentPages, PageOf, Loadable
  <2>11. Copied' BY <1>18, <2>2 DEF Copied
  <2>12. QED BY <1>11, <1>12, <1>14, <1>15, <1>17, <2>8, <2>9, <2>10, <2>11 DEF LoaderInv
<1>21. CASE ~ present(Hs, next)
  <2>1. next = Len(Hs) + 1 BY <1>4, <1>8, <1>21 DEF present
  <2>2. ph' = fix(Hs, 1) /\ lpc' = "copy" BY <1>2, <1>21
  <2>3. /\ ph' \in Loadable(Hs) \/ ph' = Len(Hs) + 1
        /\ \A j \in Loadable(Hs) : j < ph' => j < 1
    <3>1. 1 \in 1 .. Len(Hs) + 1 BY <1>4
    <3>2. QED BY <2>2, <3>1, FixIs DEF Hs
  <2>4. InProgram' BY <1>3, <1>5, <2>2, <2>3 DEF InProgram, Loadable
  <2>5. \A j \in Loadable(Hs) : j < next BY <1>4, <2>1
  <2>6. PlacedHere' BY <1>5, <1>8, <1>9, <1>19, <2>2, <2>5 DEF PlacedHere, Loadable
  <2>7. MappedHere'
    <3>1. \A v \in DOMAIN spaces[Pid] : \E i \in Loadable(Hs) : v \in SegmentPages(Hs[i])
      BY <1>1, <1>2 DEF MappedHere
    <3>2. QED BY <1>2, <1>3, <1>5, <2>2, <3>1 DEF MappedHere, SegmentPages, PageOf, Loadable
  <2>8. \A j \in Loadable(Hs) : ~ (j < ph') BY <1>4, <2>3
  <2>9. Copied' BY <1>5, <1>18, <2>8 DEF Copied, Loadable
  <2>10. QED BY <1>11, <1>12, <1>14, <1>15, <1>17, <2>4, <2>6, <2>7, <2>9 DEF LoaderInv
<1>22. QED BY <1>20, <1>21

\* A segment is copied to its pages, and to nothing else.
LEMMA SetupCopyInv == ASSUME LoaderInv, SetupCopy PROVE LoaderInv'
<1> DEFINE pa == spaces[Pid][PageOf(Hs[ph].p_va)].pa * PAGESIZE + (Hs[ph].p_va % PAGESIZE)
<1>1. /\ LoaderType /\ InProgram /\ HasRoom /\ PlacedBefore /\ PlacedHere /\ MappedHere /\ Apart
      /\ Copied /\ KernelStays
  BY DEF LoaderInv
<1>2. /\ lpc = "copy" /\ present(Hs, ph) /\ ph' = fix(Hs, ph + 1)
      /\ ram' = [x \in DOMAIN ram |->
                    IF x \in pa .. pa + Hs[ph].p_memsz - 1 THEN Image(ph, x - pa) ELSE ram[x]]
      /\ UNCHANGED <<owned, spaces, names, lpc, page>>
  BY DEF SetupCopy
<1>3. PICK h : h = Hs[ph] OBVIOUS
<1>4. PICK n : n = names[Pid] OBVIOUS
<1>5. /\ Pid \in Nat /\ Pid > 0 /\ Pid \in 1 .. Pid /\ Pid' = Pid BY <1>1, <1>2, PidIs DEF InProgram, Pid
<1>6. Hs = Headers(n) /\ Hs' = Hs BY <1>2, <1>4, <1>5 DEF Hs, Headers
<1>7. Len(Hs) \in Nat /\ DOMAIN Hs = 1 .. Len(Hs) /\ Loadable(Hs) \subseteq DOMAIN Hs
  BY HeadersAre DEF Hs, Loadable
<1>8. ph \in Loadable(Hs) /\ ph \in Nat
  <2>1. ph \in 1 .. Len(Hs) BY <1>2, <1>7 DEF present
  <2>2. ph # Len(Hs) + 1 BY <1>7, <2>1
  <2>3. QED BY <1>1, <1>2, <2>1, <2>2 DEF InProgram
<1>9. h \in SegmentHeader /\ h.p_memsz > 0 BY <1>3, <1>8, HeaderIs DEF Hs
<1>10. Used <= Total /\ Used \in Nat /\ Used' = Used BY <1>1, <1>2, UsedFits DEF Used
<1>11. Placed(Pid, h) BY <1>1, <1>2, <1>3, <1>8 DEF PlacedHere
<1>12. pa = Where(Pid, h.p_va) BY <1>3 DEF Where
<1> HIDE DEF pa
<1>13. h.p_memsz \in Nat /\ h.p_va \in Nat BY <1>9, SegmentIs
<1>14. pa \in Nat
  <2>1. 0 \in 0 .. h.p_memsz - 1 BY <1>9, <1>13
  <2>2. Where(Pid, h.p_va + 0) \in DOMAIN ram BY <1>1, <1>5, <1>9, <1>10, <1>11, <2>1, ByteOf
  <2>3. h.p_va + 0 = h.p_va BY <1>13
  <2>4. DOMAIN ram \subseteq Nat BY <1>1 DEF LoaderType
  <2>5. QED BY <1>12, <2>2, <2>3, <2>4
<1>15. ASSUME NEW x \in pa .. pa + h.p_memsz - 1
       PROVE  /\ x - pa \in 0 .. h.p_memsz - 1
              /\ \E u \in SegmentPages(h) : /\ u \in DOMAIN spaces[Pid] /\ PageOf(x) = spaces[Pid][u].pa
                                            /\ spaces[Pid][u].pa \in 1 .. Total
  <2>1. PICK o : o = x - pa OBVIOUS
  <2>2. o \in 0 .. h.p_memsz - 1 BY <1>13, <1>14, <2>1
  <2> DEFINE u == PageOf(h.p_va + o)
  <2>3. /\ u \in SegmentPages(h) /\ u \in DOMAIN spaces[Pid] /\ spaces[Pid][u].pa \in 1 .. Total
        /\ PageOf(Where(Pid, h.p_va + o)) = spaces[Pid][u].pa
        /\ Where(Pid, h.p_va + o) = Where(Pid, h.p_va) + o
    BY <1>1, <1>5, <1>9, <1>10, <1>11, <2>2, ByteOf
  <2>4. Where(Pid, h.p_va + o) = x BY <1>12, <1>14, <2>1, <2>3
  <2>5. QED BY <2>1, <2>2, <2>3, <2>4
<1>16. /\ DOMAIN ram' = DOMAIN ram
       /\ \A x \in DOMAIN ram : x \notin pa .. pa + h.p_memsz - 1 => ram'[x] = ram[x]
       /\ \A x \in DOMAIN ram : x \in pa .. pa + h.p_memsz - 1 => ram'[x] = Image(ph, x - pa)
  BY <1>2, <1>3
<1>17. ASSUME NEW p \in 1 .. Pid, NEW v \in DOMAIN spaces[p], p # Pid \/ v \notin SegmentPages(h),
              NEW x \in DOMAIN ram, PageOf(x) = spaces[p][v].pa
       PROVE  ram'[x] = ram[x]
  <2>1. SUFFICES ASSUME x \in pa .. pa + h.p_memsz - 1 PROVE FALSE BY <1>16
  <2>2. PICK u \in SegmentPages(h) : u \in DOMAIN spaces[Pid] /\ PageOf(x) = spaces[Pid][u].pa
    BY <1>15, <2>1
  <2>3. spaces[p][v].pa = spaces[Pid][u].pa BY <1>17, <2>2
  <2>4. \A y \in DOMAIN spaces[Pid] : spaces[p][v].pa = spaces[Pid][y].pa => p = Pid /\ v = y
    BY <1>1, <1>5 DEF Apart
  <2>5. p = Pid /\ v = u BY <2>2, <2>3, <2>4
  <2>6. QED BY <1>17, <2>2, <2>5
<1>18. KernelStays'
  <2>1. ASSUME NEW x \in DOMAIN ram, PageOf(x) \notin FreePages PROVE ram'[x] = KernelByte
    <3>1. x \notin pa .. pa + h.p_memsz - 1 BY <1>15, <2>1, TotalIs
    <3>2. QED BY <1>1, <1>16, <2>1, <3>1 DEF KernelStays
  <2>2. QED BY <1>16, <2>1 DEF KernelStays, PageOf
<1>19. LoaderType' BY <1>1, <1>2, <1>5, <1>10, <1>16 DEF LoaderType, Pid
<1>20. HasRoom' BY <1>1, <1>2, <1>5, <1>10 DEF HasRoom, Room, RoomFor
<1>21. Apart' BY <1>1, <1>2, <1>5, <1>10 DEF Apart
<1>22. /\ ph' \in Loadable(Hs) \/ ph' = Len(Hs) + 1
       /\ \A j \in Loadable(Hs) : j < ph' => j < ph \/ j = ph
  <2>1. ph \in 1 .. Len(Hs) BY <1>7, <1>8
  <2>2. ph + 1 \in 1 .. Len(Hs) + 1 BY <1>7, <2>1
  <2>3. /\ ph' \in Loadable(Hs) \/ ph' = Len(Hs) + 1
        /\ \A j \in Loadable(Hs) : j < ph' => j < ph + 1
    BY <1>2, <2>2, FixIs DEF Hs
  <2>4. \A j \in Loadable(Hs) : j \in Nat BY <1>7
  <2>5. QED BY <2>1, <2>3, <2>4
<1>23. InProgram' BY <1>2, <1>5, <1>6, <1>22 DEF InProgram, Loadable
<1>24. Complete' = Complete /\ Complete = 1 .. Pid - 1 BY <1>2, <1>5 DEF Complete
<1>25. ASSUME NEW p \in 1 .. Pid, NEW i \in Loadable(Headers(names[p])),
              Placed(p, Headers(names[p])[i]), InPlace(p, i), p # Pid \/ i # ph
       PROVE  InPlace(p, i)'
  <2>1. PICK g : g = Headers(names[p])[i] OBVIOUS
  <2>2. g \in SegmentHeader /\ g.p_memsz > 0 BY <2>1, HeaderIs
  <2>3. ASSUME NEW v \in SegmentPages(g), NEW x \in DOMAIN ram, PageOf(x) = spaces[p][v].pa
        PROVE  ram'[x] = ram[x]
    <3>1. v \in DOMAIN spaces[p]
      <4>1. PICK b \in Nat : From(p, g, b, LastPage(g)) BY <1>25, <2>1 DEF Placed, LastPage
      <4>2. v \in FirstPage(g) .. LastPage(g) BY <2>2, SegmentIs
      <4>3. QED BY <4>1, <4>2 DEF From
    <3>2. p # Pid \/ v \notin SegmentPages(h)
      <4>1. SUFFICES ASSUME p = Pid PROVE v \notin SegmentPages(h) OBVIOUS
      <4>2. i \in Loadable(Hs) /\ i # ph /\ g = Hs[i] BY <1>25, <2>1, <4>1 DEF Hs
      <4>3. SegmentPages(g) \cap SegmentPages(h) = {} BY <1>3, <1>6, <1>8, <4>2, SegmentsApart
      <4>4. QED BY <4>3
    <3>3. QED BY <1>17, <2>3, <3>1, <3>2
  <2>4. spaces' = spaces /\ names' = names BY <1>2
  <2>5. QED BY <1>1, <1>10, <1>25, <2>1, <2>3, <2>4, InPlaceKept
<1>26. PICK k : k = ph OBVIOUS
<1>27. PICK q : q = Pid OBVIOUS
<1>28. InPlace(q, k)'
  <2>1. ASSUME NEW o \in 0 .. h.p_memsz - 1
        PROVE  Sees(q, h.p_va + o)' = IF o < h.p_filesz THEN <<n, k, o>> ELSE ZeroByte
    <3>1. PICK x : x = Where(Pid, h.p_va + o) OBVIOUS
    <3>2. x \in DOMAIN ram /\ x = pa + o BY <1>1, <1>5, <1>9, <1>10, <1>11, <1>12, <3>1, ByteOf
    <3>3. x \in pa .. pa + h.p_memsz - 1 /\ x - pa = o BY <1>13, <1>14, <3>2
    <3>4. ram'[x] = Image(ph, o) BY <1>16, <3>2, <3>3
    <3>5. Image(ph, o) = IF o < h.p_filesz THEN <<n, k, o>> ELSE ZeroByte
      BY <1>3, <1>4, <1>26 DEF Image
    <3>6. Sees(q, h.p_va + o)' = ram'[x] BY <1>2, <1>27, <3>1 DEF Sees, Where, PageOf
    <3>7. QED BY <3>4, <3>5, <3>6
  <2>2. names'[q] = n /\ Headers(names[q])'[k] = h BY <1>2, <1>3, <1>4, <1>6, <1>26, <1>27 DEF Hs, Headers
  <2>3. QED BY <2>1, <2>2 DEF InPlace
<1>29. ASSUME NEW p \in Complete'
       PROVE  \A i \in Loadable(Headers(names'[p])) : Placed(p, Headers(names[p])[i])' /\ InPlace(p, i)'
  <2>1. p \in 1 .. Pid /\ p # Pid /\ p \in Complete BY <1>5, <1>24
  <2>2. ASSUME NEW i \in Loadable(Headers(names'[p]))
        PROVE  Placed(p, Headers(names[p])[i])' /\ InPlace(p, i)'
    <3>1. i \in Loadable(Headers(names[p])) BY <1>2
    <3>2. PICK g : g = Headers(names[p])[i] OBVIOUS
    <3>3. Placed(p, g) /\ InPlace(p, i) BY <1>1, <2>1, <3>1, <3>2 DEF PlacedBefore, Copied
    <3>4. InPlace(p, i)' BY <1>25, <2>1, <3>1, <3>2, <3>3
    <3>5. Placed(p, g)' BY <1>2, <3>3 DEF Placed, From, FirstPage, PageOf
    <3>6. Headers(names[p])'[i] = g BY <1>2, <3>2 DEF Headers
    <3>7. QED BY <3>4, <3>5, <3>6
  <2>3. QED BY <2>2
<1>30. PlacedBefore' BY <1>29 DEF PlacedBefore
<1>31. Copied'
  <2>1. ASSUME NEW i \in Loadable(Hs), i < ph' PROVE InPlace(q, i)'
    <3>1. CASE i = ph BY <1>26, <1>28, <3>1
    <3>2. CASE i # ph
      <4>1. i < ph BY <1>22, <2>1, <3>2
      <4>2. i \in Loadable(Headers(names[q])) /\ q \in 1 .. Pid BY <1>5, <1>27 DEF Hs
      <4>3. Placed(q, Headers(names[q])[i]) /\ InPlace(q, i)
        BY <1>1, <1>2, <1>27, <4>1 DEF PlacedHere, Copied, Hs
      <4>4. QED BY <1>25, <3>2, <4>2, <4>3
    <3>3. QED BY <3>1, <3>2
  <2>2. \A i \in Loadable(Hs)' : i < ph' => InPlace(Pid, i)'
    BY <1>5, <1>6, <1>27, <2>1 DEF Loadable
  <2>3. QED BY <1>29, <2>2 DEF Copied
<1>32. PlacedHere' /\ MappedHere'
  <2>1. \A i \in Loadable(Hs) : Placed(Pid, Hs[i]) BY <1>1, <1>2 DEF PlacedHere
  <2>2. \A i \in Loadable(Hs)' : Placed(Pid, Hs[i])'
    BY <1>2, <1>5, <1>6, <2>1 DEF Placed, From, FirstPage, PageOf, Loadable
  <2>3. PlacedHere' BY <1>2, <2>2 DEF PlacedHere
  <2>4. MappedHere'
    BY <1>1, <1>2, <1>5, <1>6 DEF MappedHere, SegmentPages, PageOf, Loadable
  <2>5. QED BY <2>3, <2>4
<1>33. QED BY <1>18, <1>19, <1>20, <1>21, <1>23, <1>30, <1>31, <1>32 DEF LoaderInv

\* The stack: the process is set up.
LEMMA SetupStackInv == ASSUME LoaderInv, SetupStack PROVE LoaderInv'
<1>1. /\ LoaderType /\ InProgram /\ HasRoom /\ PlacedBefore /\ PlacedHere /\ MappedHere /\ Apart
      /\ Copied /\ KernelStays
  BY DEF LoaderInv
<1>2. /\ lpc = "copy" /\ ~ present(Hs, ph) /\ lpc' = "root" /\ UNCHANGED <<names, ph, page>>
      /\ owned' = owned \cup {kalloc} /\ ram' = Filled(kalloc, CCByte)
      /\ spaces' = Mapped(StackPage, kalloc, TRUE)
  BY DEF SetupStack
<1>3. /\ Pid \in Nat /\ Pid > 0 /\ Pid \in 1 .. Pid BY <1>1, <1>2, PidIs DEF InProgram
<1>4. Len(Hs) \in Nat /\ DOMAIN Hs = 1 .. Len(Hs) /\ Loadable(Hs) \subseteq DOMAIN Hs
  BY HeadersAre DEF Hs, Loadable
<1>5. \A i \in Loadable(Hs) : i < ph
  <2>1. ph = Len(Hs) + 1 BY <1>1, <1>2, <1>4 DEF InProgram, present
  <2>2. QED BY <1>4, <2>1
<1>6. /\ Used < Total /\ Used \in Nat /\ Used <= Total /\ Used < Pid * (Room + 1)
      /\ DOMAIN spaces[Pid] \subseteq ProgramPages(Hs)
  BY <1>1, <1>2, RoomHere, TotalIs DEF LoaderType
<1>7. kalloc = Used + 1 /\ owned' = 1 .. Used' /\ Used' = Used + 1
  BY <1>1, <1>2, <1>6, Allocates DEF LoaderType
<1>8. StackPage \in Nat BY ProgramAssumption
<1>9. StackPage \notin DOMAIN spaces[Pid]
  <2>1. \A i \in Loadable(Hs) : StackPage \notin SegmentPages(Hs[i]) BY HeaderIs DEF Hs
  <2>2. QED BY <1>1, <1>2, <2>1 DEF MappedHere
<1>10. spaces' = Mapped(StackPage, Used + 1, TRUE) BY <1>2, <1>7
<1>11. /\ spaces' \in Seq(Space) /\ Pid' = Pid
       /\ \A p \in 1 .. Pid : p # Pid => spaces'[p] = spaces[p]
       /\ DOMAIN spaces'[Pid] = DOMAIN spaces[Pid] \cup {StackPage}
       /\ \A u \in DOMAIN spaces[Pid] : u # StackPage => spaces'[Pid][u] = spaces[Pid][u]
  <2>1. Used + 1 \in Nat /\ TRUE \in BOOLEAN BY <1>6
  <2>2. QED BY <1>1, <1>3, <1>8, <1>10, <2>1, MappedIs
<1>12. Apart' BY <1>1, <1>3, <1>7, <1>8, <1>9, <1>10, ApartMapped
<1>13. /\ DOMAIN ram' = DOMAIN ram /\ KernelStays'
       /\ \A x \in DOMAIN ram : PageOf(x) \in 1 .. Used => ram'[x] = ram[x]
  BY <1>1, <1>2, <1>6, FilledKeeps
<1>14. LoaderType'
  <2>1. Len(spaces') = Pid /\ Pid <= Len(names) BY <1>1, <1>11, PidIs DEF Pid
  <2>2. Used' \in Nat BY <1>6, <1>7
  <2>3. QED BY <1>1, <1>2, <1>7, <1>11, <1>13, <2>1, <2>2 DEF LoaderType
<1>15. HasRoom'
  <2>1. Pid * (Room + 1) \in Int BY <1>3, RoomIs
  <2>2. Used' <= Pid * (Room + 1) BY <1>6, <1>7, <2>1
  <2>3. QED BY <1>2, <1>11, <2>2 DEF HasRoom, Room, RoomFor
<1>16. InProgram' /\ PlacedHere' /\ MappedHere' BY <1>2 DEF InProgram, PlacedHere, MappedHere
<1>17. Complete = 1 .. Pid - 1 /\ Complete' = 1 .. Pid BY <1>2, <1>11 DEF Complete
<1>18. ASSUME NEW p \in 1 .. Pid, p # Pid
       PROVE  \A i \in Loadable(Headers(names'[p])) : Placed(p, Headers(names[p])[i])' /\ InPlace(p, i)'
  <2>1. p \in Complete BY <1>3, <1>17, <1>18
  <2>2. spaces'[p] = spaces[p] BY <1>11, <1>18
  <2>3. QED BY <1>1, <1>2, <1>6, <1>13, <2>1, <2>2, BeforeKept
<1>19. PICK q : q = Pid OBVIOUS
<1>20. ASSUME NEW i \in Loadable(Headers(names'[q]))
       PROVE  Placed(q, Headers(names[q])[i])' /\ InPlace(q, i)'
  <2>1. PICK g : g = Headers(names[q])[i] OBVIOUS
  <2>2. i \in Loadable(Headers(names[q])) /\ i \in Loadable(Hs) /\ g = Hs[i] BY <1>2, <1>19, <2>1 DEF Hs
  <2>3. g \in SegmentHeader /\ g.p_memsz > 0 /\ StackPage \notin SegmentPages(g) BY <2>1, <2>2, HeaderIs
  <2>4. Placed(q, g) /\ InPlace(q, i) BY <1>1, <1>2, <1>5, <1>19, <2>2 DEF PlacedHere, Copied
  <2>5. ASSUME NEW v \in SegmentPages(g)
        PROVE  v \in DOMAIN spaces[q] /\ v \in DOMAIN spaces'[q] /\ spaces'[q][v] = spaces[q][v]
    <3>1. PICK b \in Nat : From(q, g, b, LastPage(g)) BY <2>4 DEF Placed, LastPage
    <3>2. v \in FirstPage(g) .. LastPage(g) BY <2>3, SegmentIs
    <3>3. v \in DOMAIN spaces[q] BY <3>1, <3>2 DEF From
    <3>4. QED BY <1>11, <1>19, <2>3, <3>3
  <2>6. Placed(q, g)' BY <2>3, <2>4, <2>5, PlacedKept
  <2>7. Headers(names[q])'[i] = g BY <1>2, <2>1 DEF Headers
  <2>8. ASSUME NEW v \in SegmentPages(g), NEW x \in DOMAIN ram, PageOf(x) = spaces[q][v].pa
        PROVE  ram'[x] = ram[x]
    <3>1. spaces[q][v].pa \in 1 .. Used BY <1>1, <1>3, <1>19, <2>5 DEF Apart
    <3>2. QED BY <1>13, <2>8, <3>1
  <2>9. names'[q] = names[q] /\ q \in 1 .. Pid BY <1>2, <1>3, <1>19
  <2>10. InPlace(q, i)' BY <1>1, <1>6, <2>1, <2>2, <2>4, <2>5, <2>8, <2>9, InPlaceKept
  <2>11. QED BY <2>6, <2>7, <2>10
<1>21. PlacedBefore' BY <1>17, <1>18, <1>19, <1>20 DEF PlacedBefore
<1>22. Copied' BY <1>2, <1>17, <1>18, <1>19, <1>20 DEF Copied
<1>23. QED BY <1>12, <1>13, <1>14, <1>15, <1>16, <1>21, <1>22 DEF LoaderInv

\* Memory as it is before and after.
AtRest ==
    /\ lpc \in {"rest", "root"}
    /\ DOMAIN ram = 0 .. PhysPages * PAGESIZE - 1 /\ \A x \in DOMAIN ram : ram[x] = KernelByte
    /\ owned = {} /\ spaces = <<>> /\ names \in Seq(Known) /\ Len(names) <= MaxStarted

\* Nothing is loaded, so nothing is in the wrong place.
LEMMA RestInv == AtRest => LoaderInv
<1> SUFFICES ASSUME AtRest PROVE LoaderInv
  OBVIOUS
<1> USE DEF AtRest
<1>1. Used = 0 /\ owned = 1 .. Used BY FS_EmptySet DEF Used
<1>2. spaces \in Seq(Space) /\ Pid = 0 /\ Len(names) \in Nat BY DEF Pid
<1>3. LoaderType BY <1>1, <1>2 DEF LoaderType, Pid
<1>4. HasRoom
  <2>1. Pid * (Room + 1) = 0 BY <1>2, RoomIs
  <2>2. QED BY <1>1, <2>1 DEF HasRoom
<1>5. Complete = {} BY <1>2 DEF Complete
<1>6. InProgram /\ PlacedHere /\ MappedHere BY DEF InProgram, PlacedHere, MappedHere
<1>7. PlacedBefore /\ Copied /\ Apart /\ KernelStays
  BY <1>2, <1>5 DEF PlacedBefore, Copied, Apart, KernelStays
<1>8. QED BY <1>3, <1>4, <1>6, <1>7 DEF LoaderInv

\* It starts with nothing loaded.
LEMMA LoaderInvInit == LoaderInit => LoaderInv
<1> SUFFICES ASSUME LoaderInit PROVE LoaderInv
  OBVIOUS
<1>1. DOMAIN ram = 0 .. PhysPages * PAGESIZE - 1 /\ \A x \in DOMAIN ram : ram[x] = KernelByte
  BY DEF LoaderInit
<1>2. names \in Seq(Known) /\ Len(names) <= MaxStarted BY DEF LoaderInit, MaxStarted
<1>3. QED BY <1>1, <1>2, RestInv DEF LoaderInit, AtRest

\* Every step of the loader keeps all of it, and so do starting and ending it.
LEMMA LoaderInvNext ==
    ASSUME LoaderInv,
           \/ LoaderNext \/ StopLoading \/ UNCHANGED loaderVars
           \/ \E programs \in Seq(Known) : Len(programs) <= MaxStarted /\ StartLoading(programs)
    PROVE  LoaderInv'
<1>1. CASE LoaderNext
  BY <1>1, SetupTableInv, SetupPageInv, SetupNextInv, SetupCopyInv, SetupStackInv DEF LoaderNext
<1>2. DOMAIN ram = 0 .. PhysPages * PAGESIZE - 1 BY DEF LoaderInv, LoaderType
<1>3. CASE StopLoading
  <2>1. /\ lpc' = "rest" /\ ram' = [x \in DOMAIN ram |-> KernelByte]
        /\ owned' = {} /\ spaces' = <<>> /\ names' = <<>>
    BY <1>3 DEF StopLoading
  <2>2. DOMAIN ram' = 0 .. PhysPages * PAGESIZE - 1 /\ \A x \in DOMAIN ram' : ram'[x] = KernelByte
    BY <1>2, <2>1
  <2>3. names' \in Seq(Known) /\ Len(names') <= MaxStarted BY <2>1 DEF MaxStarted
  <2>4. AtRest' BY <2>1, <2>2, <2>3 DEF AtRest
  <2>5. QED BY <2>4, RestInv, PTL
<1>4. CASE \E programs \in Seq(Known) : Len(programs) <= MaxStarted /\ StartLoading(programs)
  <2>1. PICK programs \in Seq(Known) : Len(programs) <= MaxStarted /\ StartLoading(programs) BY <1>4
  <2>2. /\ lpc' = "root" /\ ram' = [x \in DOMAIN ram |-> KernelByte]
        /\ owned' = {} /\ spaces' = <<>> /\ names' = programs
    BY <2>1 DEF StartLoading
  <2>3. DOMAIN ram' = 0 .. PhysPages * PAGESIZE - 1 /\ \A x \in DOMAIN ram' : ram'[x] = KernelByte
    BY <1>2, <2>2
  <2>4. AtRest' BY <2>1, <2>2, <2>3 DEF AtRest
  <2>5. QED BY <2>4, RestInv, PTL
<1>5. CASE UNCHANGED loaderVars
  <2>1. UNCHANGED <<ram, owned, spaces, names, lpc, ph, page>> BY <1>5 DEF loaderVars
  <2>2. Used' = Used /\ Pid' = Pid /\ Hs' = Hs /\ Complete' = Complete
    BY <2>1 DEF Used, Pid, Hs, Complete, Headers
  <2>3. (LoaderType /\ InProgram /\ HasRoom /\ MappedHere /\ Apart /\ KernelStays)'
    BY <2>1, <2>2 DEF LoaderInv, LoaderType, InProgram, HasRoom, MappedHere, Apart, KernelStays
  <2>4. PlacedBefore'
    <3>1. SUFFICES ASSUME NEW p \in Complete', NEW i \in Loadable(Headers(names'[p]))
                   PROVE  Placed(p, Headers(names[p])[i])'
      BY DEF PlacedBefore
    <3>2. PICK h : h = Headers(names[p])[i] OBVIOUS
    <3>3. Placed(p, h) BY <2>1, <2>2, <3>2 DEF LoaderInv, PlacedBefore
    <3>4. Placed(p, h)' BY <2>1, <3>3 DEF Placed, From
    <3>5. Headers(names[p])'[i] = h BY <2>1, <3>2 DEF Headers
    <3>6. QED BY <3>4, <3>5
  <2>5. PlacedHere'
    <3>1. CASE lpc \notin {"pages", "copy"} BY <2>1, <3>1 DEF PlacedHere
    <3>2. CASE lpc \in {"pages", "copy"}
      <4>1. ASSUME NEW i \in Loadable(Hs)', lpc' = "copy" \/ i < ph' PROVE Placed(Pid, Hs[i])'
        <5>1. i \in Loadable(Hs) /\ (lpc = "copy" \/ i < ph) BY <2>1, <2>2, <4>1 DEF Loadable
        <5>2. Placed(Pid, Hs[i]) BY <3>2, <5>1 DEF LoaderInv, PlacedHere
        <5>3. QED BY <2>1, <2>2, <5>2 DEF Placed, From, FirstPage, PageOf
      <4>2. ASSUME lpc' = "pages", ph' \in Loadable(Hs)'
            PROVE  \E b \in Nat : (From(Pid, Hs[ph], b, page - 1) /\ b + (page - FirstPage(Hs[ph])) = Used + 1)'
        <5>1. lpc = "pages" /\ ph \in Loadable(Hs) BY <2>1, <2>2, <4>2 DEF Loadable
        <5>2. PICK b \in Nat : From(Pid, Hs[ph], b, page - 1) /\ b + (page - FirstPage(Hs[ph])) = Used + 1
          BY <5>1 DEF LoaderInv, PlacedHere
        <5>3. (From(Pid, Hs[ph], b, page - 1) /\ b + (page - FirstPage(Hs[ph])) = Used + 1)'
          BY <2>1, <2>2, <5>2 DEF From, FirstPage, PageOf
        <5>4. QED BY <5>3
      <4>3. QED BY <4>1, <4>2 DEF PlacedHere
    <3>3. QED BY <3>1, <3>2
  <2>6. Copied'
    <3>1. \A p, i : InPlace(p, i)' <=> InPlace(p, i) BY <2>1 DEF InPlace, Sees
    <3>2. QED BY <2>1, <2>2, <3>1 DEF LoaderInv, Copied
  <2>7. QED BY <2>3, <2>4, <2>5, <2>6 DEF LoaderInv
<1>6. QED BY <1>1, <1>3, <1>4, <1>5

\* All that is promised of a process that is set up.
LEMMA InvInPlace == ASSUME LoaderInv PROVE ProgramsInPlace
<1>1. LoaderType /\ Apart /\ PlacedBefore /\ Copied /\ KernelStays /\ Used <= Total
  BY UsedFits DEF LoaderInv
<1>2. ASSUME lpc = "root", NEW p \in 1 .. Pid, NEW i \in DOMAIN Headers(names[p]), Headers(names[p])[i].load
      PROVE  LET h == Headers(names[p])[i] IN
             \A o \in 0 .. h.p_memsz - 1 :
                /\ PageOf(h.p_va + o) \in DOMAIN spaces[p]
                /\ spaces[p][PageOf(h.p_va + o)].w = h.w
                /\ Sees(p, h.p_va + o) = IF o < h.p_filesz THEN <<names[p], i, o>> ELSE ZeroByte
  <2> DEFINE h == Headers(names[p])[i]
  <2>1. i \in Loadable(Headers(names[p])) /\ p \in Complete BY <1>2 DEF Loadable, Complete
  <2>2. h \in SegmentHeader /\ h.p_memsz > 0 BY <2>1, HeaderIs
  <2>3. Placed(p, h) /\ InPlace(p, i) BY <1>1, <2>1 DEF PlacedBefore, Copied
  <2>4. ASSUME NEW o \in 0 .. h.p_memsz - 1
        PROVE  PageOf(h.p_va + o) \in DOMAIN spaces[p] /\ spaces[p][PageOf(h.p_va + o)].w = h.w
    <3> HIDE DEF h
    <3>1. QED BY <1>1, <2>2, <2>3, ByteOf
  <2>5. QED BY <2>3, <2>4 DEF InPlace
<1>3. QED BY <1>1, <1>2 DEF ProgramsInPlace, KernelStays

-----------------------------------------------------------------------------
(* Which programs are loaded. *)

\* From a key to the restart the old command line is there.
Rebooting == {"timer_off", "temp_pagetable", "load_temp", "restore", "restore_again", "restart"}

CommandOf(c) == CASE c = "a" -> "allocators" [] c = "e" -> "forkexit" [] c = "f" -> "fork"
                  [] OTHER -> "none"

\* The command line is that of the last key, and the programs are those of the
\* command line.
Asks ==
    /\ asked \in {"none", "a", "f", "e"}
    /\ pc \in Rebooting => asked # "none"
    /\ pc \notin Rebooting => command = CommandOf(asked)
    /\ pc = "loading" => names = ProgramsOf(command)

\* An image is found by its name, and there is something in it; what no image is
\* called stands for the allocators.
LEMMA ProgramsAre ==
    /\ ProgramsOf("fork") = <<"fork">> /\ ProgramsOf("forkexit") = <<"forkexit">>
    /\ ProgramsOf("allocators") = Allocators /\ ProgramsOf("none") = Allocators
<1>1. ASSUME NEW c \in {"fork", "forkexit"} PROVE ProgramsOf(c) = <<c>>
  <2> DEFINE same == {i \in DOMAIN ramimages : ramimages[i].name = c}
             n    == program_number(c)
  <2>1. same # {} /\ same \in SUBSET Nat
    <3>1. c \in {ramimages[i].name : i \in DOMAIN ramimages} BY ImagesAssumption
    <3>2. DOMAIN ramimages \subseteq Nat BY ProgramAssumption
    <3>3. QED BY <3>1, <3>2
  <2>2. Min(same) \in same BY <2>1, MinIs
  <2>3. n = Min(same) BY <2>1 DEF program_number
  <2>4. n \in DOMAIN ramimages /\ n # 0 BY <2>2, <2>3, ProgramAssumption
  <2>5. Headers(c) = ramimages[n].ph BY <2>4 DEF Headers
  <2>6. Loadable(Headers(c)) # {} BY <2>4, <2>5, ImagesAssumption
  <2> HIDE DEF n, same
  <2>7. present(Headers(c), fix(Headers(c), 1))
    <3>1. PICK hs : hs = Headers(c) OBVIOUS
    <3>2. hs \in Seq(SegmentHeader) BY <3>1, HeadersAre
    <3>3. PICK j \in Loadable(hs) : TRUE BY <2>6, <3>1
    <3>4. j \in 1 .. Len(hs) /\ hs[j].load BY <3>2, <3>3 DEF Loadable
    <3> DEFINE later == {k \in 1 .. Len(hs) : hs[k].load}
    <3>5. later # {} /\ later \in SUBSET Nat BY <3>2, <3>4
    <3>6. Min(later) \in later BY <3>5, MinIs
    <3>7. fix(hs, 1) = Min(later) BY <3>5 DEF fix
    <3>8. fix(hs, 1) \in DOMAIN hs BY <3>2, <3>6, <3>7
    <3>9. QED BY <3>1, <3>8 DEF present
  <2>8. QED BY <2>7 DEF ProgramsOf
<1>2. ASSUME NEW c \in {"allocators", "none"} PROVE ProgramsOf(c) = Allocators
  <2>1. c \notin {ramimages[i].name : i \in DOMAIN ramimages} BY ImagesAssumption
  <2>2. {i \in DOMAIN ramimages : ramimages[i].name = c} = {} BY <2>1
  <2>3. Headers(c) = <<>> BY <2>2 DEF Headers, program_number
  <2>4. ~ present(Headers(c), fix(Headers(c), 1)) BY <2>3 DEF present
  <2>5. QED BY <2>4 DEF ProgramsOf
<1>3. QED BY <1>1, <1>2

\* Up to four programs are started.
LEMMA AFewPrograms ==
    ASSUME NEW c \in Known PROVE ProgramsOf(c) \in Seq(Known) /\ Len(ProgramsOf(c)) <= MaxStarted
<1>1. <<c>> \in Seq(Known) /\ Len(<<c>>) = 1 OBVIOUS
<1>2. Allocators \in Seq(Known) /\ Len(Allocators) = 4 BY DEF Allocators, Known
<1>3. ProgramsOf(c) = <<c>> \/ ProgramsOf(c) = Allocators BY Zenon DEF ProgramsOf
<1>4. 1 <= MaxStarted /\ 4 <= MaxStarted BY DEF MaxStarted
<1>5. QED BY <1>1, <1>2, <1>3, <1>4, Zenon

\* Nothing else in the machine has a part in loading programs.
LEMMA ProgramLoaderAlone ==
    ASSUME [MachineNext]_allVars
    PROVE  \/ LoaderNext \/ StopLoading \/ UNCHANGED loaderVars
           \/ pc = "load" /\ StartLoading(ProgramsOf(command))
<1>1. CASE boot_start \/ boot BY <1>1, Zenon DEF boot_start, boot
<1>2. CASE kernel
  BY <1>2, Zenon
     DEF kernel, StashData, InitSegments, ClearPagetable, FillPagetable, LoadPagetable, InitInterrupts,
         NoApic, InitCpuState, InitLapic, TimerOn, StartPrograms, LoadProgram, RunFirst
<1>3. CASE reboot
  BY <1>3, Zenon DEF reboot, TimerOff, TempPagetable, LoadTemp, RestoreData, Restart
<1>4. CASE poweroff \/ Halted BY <1>4, Zenon DEF poweroff, Halted
<1>5. CASE Debug BY <1>5, Zenon DEF Debug, BacktraceFrame, BacktraceDone, KernelFault, Quiet
<1>6. CASE Tick \/ Interrupt \/ UserCode
  BY <1>6, Zenon DEF Tick, Interrupt, UserCode, EntersWith, Quiet
<1>7. CASE Trap BY <1>7, Zenon DEF Trap, Syscall, Exception, EntersWith, Quiet
<1>8. CASE Handle
  BY <1>8, Zenon
     DEF Handle, NoKey, HandleTimer, HandleFault, HandleKernelFault, HandleOther, SyscallReturns,
         SyscallSchedules, SyscallPanics, AssertFails, Resume, Working, Quiet
<1>9. CASE Keys BY <1>9, Zenon DEF Keys, OffKey, RebootKey
<1>10. CASE UNCHANGED allVars BY <1>10, Zenon DEF allVars
<1>11. QED
  BY <1>1, <1>2, <1>3, <1>4, <1>5, <1>6, <1>7, <1>8, <1>9, <1>10 DEF MachineNext, Code

\* Every step keeps the three in line.
LEMMA AsksNext == Sound /\ Sound' /\ Asks /\ [MachineNext]_allVars => Asks'
<1> SUFFICES ASSUME Sound, Sound', Asks, [MachineNext]_allVars PROVE Asks'
  OBVIOUS
<1>1. pc' # "dead" BY DEF Sound, MachineType, OnBoot, OnKernel
<1> DEFINE Calm == /\ asked' = asked /\ command' = command
                   /\ pc \notin Rebooting /\ pc' \notin Rebooting \cup {"loading"}
           Still == UNCHANGED <<pc, asked, command, names>>
<1>2. ASSUME Calm PROVE Asks' BY <1>2 DEF Asks
<1>3. ASSUME Still PROVE Asks' BY <1>3 DEF Asks, ProgramsOf, Headers
<1> HIDE DEF Calm, Still
<1>4. CASE boot_start
  <2>1. Calm BY <1>1, <1>4 DEF Calm, boot_start, Goes, Rebooting
  <2>2. QED BY <1>2, <2>1
<1>5. CASE boot
  <2>1. Calm BY <1>1, <1>5, InitOrder DEF Calm, boot, Rebooting
  <2>2. QED BY <1>2, <2>1
<1>6. CASE StashData \/ InitSegments \/ ClearPagetable \/ FillPagetable \/ LoadPagetable
  <2>1. Calm
    BY <1>1, <1>6, InitOrder
       DEF Calm, StashData, InitSegments, ClearPagetable, FillPagetable, LoadPagetable, InitNext, Goes,
           Elsewhere, Rebooting
  <2>2. QED BY <1>2, <2>1
<1>7. CASE InitInterrupts \/ NoApic \/ InitCpuState \/ InitLapic \/ TimerOn
  <2>1. Calm
    BY <1>1, <1>7, InitOrder
       DEF Calm, InitInterrupts, NoApic, InitCpuState, InitLapic, TimerOn, InitNext, Goes,
           Elsewhere, Rebooting
  <2>2. QED BY <1>2, <2>1
<1>8. CASE StartPrograms
  <2>1. pc = "load" /\ pc' = "loading" BY <1>1, <1>8, InitOrder DEF StartPrograms, InitNext, Goes
  <2>2. names' = ProgramsOf(command) /\ asked' = asked /\ command' = command
    BY <1>8 DEF StartPrograms, StartLoading, Elsewhere
  <2>3. QED BY <2>1, <2>2 DEF Asks, Rebooting, ProgramsOf, Headers
<1>9. CASE LoadProgram
  <2>1. names' = names
    BY <1>9 DEF LoadProgram, LoaderNext, SetupTable, SetupPage, SetupNext, SetupCopy, SetupStack
  <2>2. Still BY <1>9, <2>1 DEF Still, LoadProgram, Elsewhere
  <2>3. QED BY <1>3, <2>2
<1>10. CASE RunFirst
  <2>1. Calm BY <1>1, <1>10 DEF Calm, RunFirst, Goes, Rebooting
  <2>2. QED BY <1>2, <2>1
<1>11. CASE TimerOff \/ TempPagetable \/ LoadTemp \/ RestoreData
  <2>1. asked' = asked /\ pc \in Rebooting /\ pc' \in Rebooting
    BY <1>1, <1>11, RebootOrder
       DEF TimerOff, TempPagetable, LoadTemp, RestoreData, RebootNext, Goes, Elsewhere, Rebooting
  <2>2. QED BY <2>1 DEF Asks, Rebooting
<1>12. CASE Restart
  <2>1. pc = "restart" /\ pc' = "stash" /\ asked' = asked
    BY <1>1, <1>12, InitOrder DEF Restart, Goes, Elsewhere
  <2>2. asked \in {"a", "f", "e"} BY <2>1 DEF Asks, Rebooting
  <2>3. command' = CommandOf(asked) BY <1>12, <2>2 DEF Restart, CommandOf
  <2>4. QED BY <2>1, <2>2, <2>3 DEF Asks, Rebooting, CommandOf
<1>13. CASE poweroff \/ Halted
  <2>1. pc' = pc /\ asked' = asked /\ command' = command /\ pc = "poweroff"
    BY <1>13 DEF poweroff, Halted, machineVars
  <2>2. QED BY <1>2, <2>1 DEF Calm, Rebooting
<1>14. CASE Debug
  <2>1. Calm
    BY <1>1, <1>14 DEF Calm, Debug, BacktraceFrame, BacktraceDone, KernelFault, Quiet, Goes, Rebooting
  <2>2. QED BY <1>2, <2>1
<1>15. CASE Tick
  <2>1. Still BY <1>15 DEF Still, Tick, loaderVars
  <2>2. QED BY <1>3, <2>1
<1>16. CASE Interrupt \/ UserCode \/ Trap
  <2>1. Calm
    BY <1>1, <1>16
       DEF Calm, Interrupt, UserCode, Trap, Syscall, Exception, EntersWith, Quiet, Goes, Rebooting
  <2>2. QED BY <1>2, <2>1
<1>17. CASE Handle
  <2>1. asked' = asked /\ command' = command
    BY <1>17, Zenon
       DEF Handle, NoKey, HandleTimer, HandleFault, HandleKernelFault, HandleOther, SyscallReturns,
           SyscallSchedules, SyscallPanics, AssertFails, Resume, Working, Quiet
  <2>2. pc \in {"trap", "handle", "schedule"} /\ pc' \in {"handle", "schedule", "failed", "user", "backtrace"}
    BY <1>1, <1>17
       DEF Handle, NoKey, HandleTimer, HandleFault, HandleKernelFault, HandleOther, SyscallReturns,
           SyscallSchedules, SyscallPanics, AssertFails, Resume, Handling, Goes
  <2>3. QED BY <1>2, <2>1, <2>2 DEF Calm, Rebooting
<1>18. CASE OffKey
  <2>1. pc' = "poweroff" /\ asked' = "none" /\ command' = "none" BY <1>1, <1>18 DEF OffKey, Goes
  <2>2. QED BY <2>1 DEF Asks, Rebooting, CommandOf
<1>19. CASE \E c \in {"a", "f", "e"} : RebootKey(c)
  <2>1. pc' = "timer_off" /\ asked' \in {"a", "f", "e"}
    BY <1>1, <1>19, RebootOrder DEF RebootKey, Goes
  <2>2. QED BY <2>1 DEF Asks, Rebooting
<1>20. CASE UNCHANGED allVars
  <2>1. Still BY <1>20, Zenon DEF Still, allVars, machineVars, loaderVars
  <2>2. QED BY <1>3, <2>1
<1>21. QED
  BY <1>4, <1>5, <1>6, <1>7, <1>8, <1>9, <1>10, <1>11, <1>12, <1>13, <1>14, <1>15, <1>16, <1>17, <1>18,
     <1>19, <1>20
     DEF MachineNext, Code, kernel, reboot, Keys

\* Each key runs the programs that it stands for, whatever their sizes and
\* wherever they are linked, as long as they fit: after any number of reboots
\* out of any state they are in memory byte for byte, and nothing else of the
\* memory has been touched.
THEOREM AskedRuns == MachineSpec => []RunsWhatWasAsked
<1>1. MachineInit => LoaderInv /\ Asks
  <2> SUFFICES ASSUME MachineInit PROVE LoaderInv /\ Asks
    OBVIOUS
  <2>1. LoaderInv BY LoaderInvInit DEF MachineInit
  <2>2. Asks BY DEF MachineInit, Asks, CommandOf, Rebooting
  <2>3. QED BY <2>1, <2>2
<1>2. Asks /\ LoaderInv /\ [MachineNext]_allVars => LoaderInv'
  <2> SUFFICES ASSUME Asks, LoaderInv, [MachineNext]_allVars PROVE LoaderInv'
    OBVIOUS
  <2>1. CASE pc = "load" /\ StartLoading(ProgramsOf(command))
    <3>1. command \in Known BY <2>1 DEF Asks, Rebooting, CommandOf, Known
    <3>2. ProgramsOf(command) \in Seq(Known) /\ Len(ProgramsOf(command)) <= MaxStarted
      BY <3>1, AFewPrograms
    <3>3. QED BY <2>1, <3>2, LoaderInvNext
  <2>2. QED BY <2>1, ProgramLoaderAlone, LoaderInvNext
<1>3. LoaderInv /\ Asks => RunsWhatWasAsked
  <2> SUFFICES ASSUME LoaderInv, Asks PROVE RunsWhatWasAsked
    OBVIOUS
  <2>1. ProgramsInPlace BY InvInPlace
  <2>2. ASSUME pc = "loading"
        PROVE  names = CASE asked = "f" -> <<"fork">> [] asked = "e" -> <<"forkexit">>
                         [] OTHER -> Allocators
    <3>1. names = ProgramsOf(CommandOf(asked)) /\ asked \in {"none", "a", "f", "e"}
      BY <2>2 DEF Asks, Rebooting
    <3>2. QED BY <3>1, ProgramsAre DEF CommandOf
  <2>3. QED BY <2>1, <2>2 DEF RunsWhatWasAsked
<1>4. QED BY <1>1, <1>2, <1>3, SoundInit, SoundNext, AsksNext, PTL DEF MachineSpec
=============================================================================
