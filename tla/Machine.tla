------------------------------ MODULE Machine ------------------------------
(***************************************************************************)
(* The machine from power-on to power-off: the boot loader hands over to   *)
(* kernel(), which sets up page tables, segments, gates and the interrupt  *)
(* controller (init_hardware), loads the first programs and runs them; a   *)
(* key makes the kernel restart itself out of any handler (soft reboot) or *)
(* turn the machine off.  What the processes do is left to Kernel; here    *)
(* they run, trap into the kernel and disappear.                           *)
(*                                                                         *)
(* Memory is what the hardware looks at: the pages 0x1000 and 0x2000 (the  *)
(* boot page table), the kernel's .data and .bss sections, and the stash,  *)
(* a copy of .data outside the memory that page tables of the kernel map.  *)
(***************************************************************************)
EXTENDS Boot, Pci, Backtrace, Loader, Trap

CONSTANTS
    Vectors,    \* exceptions that a process can cause, besides the timer
    Apics       \* which machines there are: with an enabled APIC, without

\* The processor's own exceptions have the first 32 vectors.
ASSUME MachineAssumption == Vectors \subseteq 0 .. 31 /\ Apics \subseteq BOOLEAN

Allocators == <<"allocator", "allocator2", "allocator3", "allocator4">>

\* The programs that are linked into the kernel; there is something in each.
ASSUME ImagesAssumption ==
    /\ {ramimages[i].name : i \in DOMAIN ramimages} =
            {"allocator", "allocator2", "allocator3", "allocator4", "fork", "forkexit"}
    /\ \A i \in DOMAIN ramimages : Loadable(ramimages[i].ph) # {}

VARIABLES
    pc,         \* what the kernel is doing: a step of InitSteps or RebootSteps;
                \*   "power_on", "boot", "loading"; "user"; "trap", "handle",
                \*   "schedule", "backtrace", "failed"; "poweroff"; "dead" after
                \*   a triple fault
    cr3,        \* the page table in use: "boot", "kernel" or "process"
    low,        \* what is at 0x1000: "junk", "map" or "process"
    data,       \* .data: the interrupt gates, and the rest "initial" or "used"
    bss,        \* .bss: [pagetable, symbols, tss, rest]
    stash,      \* the copy of .data, or NoStash
    desc,       \* GDTR and IDTR: [gdt, idt]
    apic,       \* [present, enabled, rate, irr, isr]: is an interrupt requested,
                \*   is one in service?
    command,    \* the command line that kernel() was given
    asked,      \* the last key that asked for a reboot, or "none"
    alive,      \* is "me" runnable, and how many others are: [me, others]
    current,    \* "none", "me" or "other"
    cause,      \* why the kernel was entered: a vector, SYSCALL, KernelPF
    intno,      \* reg_intno and reg_errcode: what it is told
    errcode

hwVars   == <<cr3, low, data, bss, stash, desc, apic>>
procVars == <<alive, current, cause, intno, errcode>>
machineVars == <<pc, hwVars, command, asked, procVars, bt, trapVars>>

Gates == Vectors \cup {Timer, INT_PF}

\* The address of exception_entry_v, as four words of 16 bits.
handler(v) == <<v, 4, 0, 0>>

\* A descriptor, [low, high]; at first its low half is the handler's address.
RawGate(v) == [low |-> handler(v), high |-> <<0, 0>>]
SEGSEL_KERN_CODE == 8

NoCause  == -2
KernelPF == -3      \* a page fault of the kernel's own

RawGates   == [v \in Gates |-> RawGate(v)]
FreshData  == [gates |-> RawGates, rest |-> "initial"]
NoStash    == [gates |-> RawGates, rest |-> "none"]
ZeroBss    == [pagetable |-> "zero", symbols |-> FALSE, tss |-> "zero", rest |-> "zero"]

-----------------------------------------------------------------------------
(* The hardware. *)

\* The page table in use is one.
Translates == /\ cr3' = "boot" => low' = "map"
              /\ cr3' = "kernel" => bss'.pagetable = "map"
              /\ cr3' = "process" => low' = "process"

\* After its changes the code goes on with n, unless that or an access (ok)
\* cannot be translated, or a fault finds no handler: then the machine is dead.
Goes(ok, n) == pc' = IF ok /\ Translates THEN n ELSE "dead"

\* What is beyond 1 GiB, and what is between 2 MiB and that.
LapicMapped == cr3 = "kernel"
StashMapped == cr3 = "boot"

\* Where a gate leads.
Target(g) == <<g.low[1], g.low[4], g.high[1], g.high[2]>>

\* An exception finds its way into the kernel.
Enters(v) == /\ desc.idt /\ desc.gdt = "full" /\ bss.tss = "busy"
             /\ Target(data.gates[v]) = handler(v)
             /\ data.gates[v].low[2] = SEGSEL_KERN_CODE

\* The timer counts.
Tick ==
    /\ apic.enabled /\ apic.rate > 0 /\ ~ apic.irr
    /\ pc \notin {"poweroff", "dead"}
    /\ apic' = [apic EXCEPT !.irr = TRUE]
    /\ UNCHANGED <<pc, cr3, low, data, bss, stash, desc, command, asked, procVars, bt, trapVars,
                   bootVars, pciVars, loaderVars>>

\* What kernel() does, in this order.
InitSteps ==
    <<"stash", "segments", "clear_pagetable", "fill_pagetable", "load_pagetable",
      "gates", "cpu_state", "lapic", "timer_on", "load">>

After(steps, s, last) ==
    LET i == CHOOSE i \in DOMAIN steps : steps[i] = s
    IN  IF i = Len(steps) THEN last ELSE steps[i + 1]

-----------------------------------------------------------------------------
(* From power-on to kernel(). *)

NoTrap    == cause' = NoCause /\ intno' = NoCause /\ errcode' = "none"

MachineInit ==
    /\ BootInit /\ PciInit /\ LoaderInit
    /\ pc = "power_on" /\ cr3 = "none" /\ low = "junk"
    /\ data = FreshData /\ bss = ZeroBss /\ stash = NoStash
    /\ desc = [gdt |-> "none", idt |-> FALSE]
    /\ apic \in [present : Apics, enabled : {FALSE}, rate : {0}, irr : {FALSE}, isr : {FALSE}]
    /\ command = "none" /\ asked = "none"
    /\ alive = [me |-> FALSE, others |-> 0] /\ current = "none"
    /\ cause = NoCause /\ intno = NoCause /\ errcode = "none"
    /\ bt = NoBacktrace
    /\ cpu = Other /\ saved = OwnFrame /\ owed = {}

\* boot_start: the boot page table, 64-bit mode, the boot sector's GDT.
boot_start ==
    /\ pc = "power_on"
    /\ low' = "map" /\ cr3' = "boot"
    /\ desc' = [desc EXCEPT !.gdt = "boot"]
    /\ UNCHANGED <<data, bss, stash, apic, command, asked, procVars, bt, trapVars,
                   bootVars, pciVars, loaderVars>>
    /\ Goes(TRUE, "boot")

\* boot, as in Boot; kernel_entry finds no command line.
boot ==
    /\ pc = "boot"
    /\ BootNext
    /\ pc' = IF bpc' = "done" THEN Head(InitSteps) ELSE "boot"
    /\ UNCHANGED <<hwVars, command, asked, procVars, bt, trapVars, pciVars, loaderVars>>

-----------------------------------------------------------------------------
(* init_hardware, and the rest of kernel(). *)

InitNext(ok) == Goes(ok, After(InitSteps, pc, "loading"))

\* What the steps of kernel() and of a reboot have no part in.
Elsewhere == UNCHANGED <<asked, trapVars, bootVars, pciVars>>

\* init_kernel_memory: stash_kernel_data(false) ...
StashData ==
    /\ pc = "stash"
    /\ stash' = data
    /\ Elsewhere
    /\ UNCHANGED <<cr3, low, data, bss, desc, apic, command, procVars, bt, loaderVars>>
    /\ InitNext(StashMapped)

\* ... the segments, of which the first three are loaded ...
InitSegments ==
    /\ pc = "segments"
    /\ bss' = [bss EXCEPT !.tss = "available"]
    /\ desc' = [desc EXCEPT !.gdt = "early"]
    /\ Elsewhere
    /\ UNCHANGED <<cr3, low, data, stash, apic, command, procVars, bt, loaderVars>>
    /\ InitNext(TRUE)

\* ... kernel_pagetable, cleared and filled ...
ClearPagetable ==
    /\ pc = "clear_pagetable"
    /\ bss' = [bss EXCEPT !.pagetable = "zero", !.symbols = FALSE]
    /\ Elsewhere
    /\ UNCHANGED <<cr3, low, data, stash, desc, apic, command, procVars, bt, loaderVars>>
    /\ InitNext(TRUE)

FillPagetable ==
    /\ pc = "fill_pagetable"
    /\ bss' = [bss EXCEPT !.pagetable = "map"]
    /\ Elsewhere
    /\ UNCHANGED <<cr3, low, data, stash, desc, apic, command, procVars, bt, loaderVars>>
    /\ InitNext(TRUE)

\* ... and loaded.
LoadPagetable ==
    /\ pc = "load_pagetable"
    /\ cr3' = "kernel"
    /\ Elsewhere
    /\ UNCHANGED <<low, data, bss, stash, desc, apic, command, procVars, bt, loaderVars>>
    /\ InitNext(TRUE)

\* set_gate: the address is spread over the descriptor.
set_gate(g, dpl) ==
    [low  |-> <<g.low[1], SEGSEL_KERN_CODE, dpl, g.low[2]>>,
     high |-> <<g.low[3], g.low[4]>>]

GatesSet == [data EXCEPT !.gates = [v \in Gates |-> set_gate(@[v], IF v = INT_BP THEN 3 ELSE 0)]]

\* init_interrupts, then the constructors.  The machine must have an APIC.
InitInterrupts ==
    /\ pc = "gates" /\ apic.present
    /\ data' = GatesSet
    /\ Elsewhere
    /\ UNCHANGED <<cr3, low, bss, stash, desc, apic, command, procVars, bt, loaderVars>>
    /\ InitNext(TRUE)

\* assert_fail begins its backtrace in some frame of the kernel stack.
Frames == StackBottom .. KERNEL_STACK_TOP - 2
StartBacktrace(base) ==
    \E r \in Frames : bt' = [rbp |-> r, rsp |-> StackBottom, base |-> base]

\* kernel_entry left KERNEL_STACK_TOP in rbp.
NoApic ==
    /\ pc = "gates" /\ ~ apic.present
    /\ data' = GatesSet
    /\ StartBacktrace({KERNEL_STACK_TOP})
    /\ Elsewhere
    /\ UNCHANGED <<cr3, low, bss, stash, desc, apic, command, procVars, loaderVars>>
    /\ Goes(TRUE, "backtrace")

\* init_cpu_state: the task register refuses a segment that is busy already.
InitCpuState ==
    /\ pc = "cpu_state"
    /\ bss' = [bss EXCEPT !.tss = "busy", !.rest = "used"]
    /\ desc' = [gdt |-> "full", idt |-> TRUE]
    /\ Elsewhere
    /\ UNCHANGED <<cr3, low, data, stash, apic, command, procVars, bt, loaderVars>>
    /\ InitNext(bss.tss = "available")

\* Mutant of LapicReady: no outstanding interrupt is acknowledged.
LapicReady_NoAck == [apic EXCEPT !.enabled = TRUE, !.rate = 0]

\* enable_lapic, the timer with no count yet, error(), ack().
LapicReady == [apic EXCEPT !.enabled = TRUE, !.rate = 0, !.isr = FALSE]

InitLapic ==
    /\ pc = "lapic"
    /\ apic' = LapicReady
    /\ Elsewhere
    /\ UNCHANGED <<cr3, low, data, bss, stash, desc, command, procVars, bt, loaderVars>>
    /\ InitNext(LapicMapped)

HZ == 100

\* init_timer(HZ); the kernel's variables are in use from now on.
TimerOn ==
    /\ pc = "timer_on"
    /\ apic' = [apic EXCEPT !.rate = HZ]
    /\ data' = [data EXCEPT !.rest = "used"]
    /\ Elsewhere
    /\ UNCHANGED <<cr3, low, bss, stash, desc, command, procVars, bt, loaderVars>>
    /\ InitNext(LapicMapped)

\* The programs to run: the one named by the command, or four.
ProgramsOf(c) == IF present(Headers(c), fix(Headers(c), 1)) THEN <<c>> ELSE Allocators

\* process_setup, as in Loader.  The first page it allocates is 0x1000.
StartPrograms ==
    /\ pc = "load"
    /\ StartLoading(ProgramsOf(command))
    /\ low' = "process"
    /\ Elsewhere
    /\ UNCHANGED <<cr3, data, bss, stash, desc, apic, command, procVars, bt>>
    /\ InitNext(TRUE)

LoadProgram ==
    /\ pc = "loading" /\ LoaderNext
    /\ Elsewhere
    /\ UNCHANGED <<pc, hwVars, command, procVars, bt>>

\* run(&ptable[1]).
RunFirst ==
    /\ pc = "loading" /\ StopLoading
    /\ alive' = [me |-> TRUE, others |-> Len(names) - 1]
    /\ current' = "me" /\ NoTrap
    /\ saved' = OwnFrame /\ cpu' = exception_return(OwnFrame) /\ owed' = Regs
    /\ cr3' = "process"
    /\ UNCHANGED <<low, data, bss, stash, desc, apic, command, asked, bt, bootVars, pciVars>>
    /\ Goes(desc.gdt = "full", "user")

kernel ==
    \/ StashData \/ InitSegments \/ ClearPagetable \/ FillPagetable \/ LoadPagetable
    \/ InitInterrupts \/ NoApic \/ InitCpuState \/ InitLapic \/ TimerOn
    \/ StartPrograms \/ LoadProgram \/ RunFirst

-----------------------------------------------------------------------------
(* Processes run, and trap. *)

Quiet == UNCHANGED <<low, stash, desc, command, asked, bootVars, pciVars, loaderVars>>

\* Its own code gives every register of the process a value it relies on.
UserCode ==
    /\ pc = "user" /\ current = "me" /\ owed # Regs
    /\ cpu' = Own /\ owed' = Regs
    /\ UNCHANGED <<pc, cr3, data, bss, apic, procVars, saved, bt>> /\ Quiet

\* The entry code saves the registers and loads the kernel's page table, and
\* exception() or syscall() copies them to the process descriptor.
EntersWith(c, frame) ==
    /\ cause' = c /\ intno' = Field(frame, "intno") /\ errcode' = Field(frame, "errcode")
    /\ saved' = IF current = "me" THEN frame ELSE saved
    /\ cr3' = "kernel"
    /\ UNCHANGED <<data, bss, alive, current, cpu, bt>> /\ Quiet

Interrupt ==
    /\ pc = "user" /\ apic.irr /\ ~ apic.isr
    /\ apic' = [apic EXCEPT !.irr = FALSE, !.isr = TRUE]
    /\ EntersWith(Timer, ExceptionFrame(Timer))
    /\ UNCHANGED owed
    /\ Goes(Enters(Timer), "trap")

Exception(v) ==
    /\ pc = "user"
    /\ EntersWith(v, ExceptionFrame(v))
    /\ UNCHANGED <<apic, owed>>
    /\ Goes(Enters(v), "trap")

\* The syscall instruction does not use the gates.
Syscall ==
    /\ pc = "user"
    /\ EntersWith(SYSCALL, SyscallFrame)
    /\ owed' = IF current = "me" THEN Regs \ Clobbered ELSE owed
    /\ UNCHANGED apic
    /\ Goes(TRUE, "trap")

\* The kernel's own page fault: what it was doing is lost.
KernelFault ==
    /\ pc = "backtrace" /\ Ok(bt) /\ ~ Readable(bt)
    /\ bt' = NoBacktrace
    /\ cause' = KernelPF /\ intno' = INT_PF /\ errcode' = "kernel"
    /\ UNCHANGED <<cr3, data, bss, apic, alive, current, trapVars>> /\ Quiet
    /\ Goes(Enters(INT_PF) /\ current # "none", "trap")

-----------------------------------------------------------------------------
(* exception() and syscall(), and what they call.  All of them look at the *)
(* keyboard first.                                                         *)

Handling == pc = "handle"
Working  == Quiet /\ UNCHANGED <<data, bss, bt>>

NoKey ==
    /\ pc = "trap" /\ pc' = "handle"
    /\ Working /\ UNCHANGED <<cr3, apic, procVars, trapVars>>

\* Does the process descriptor that was interrupted stay runnable?
Dies  == [alive EXCEPT !.me = @ /\ current # "me",
                       !.others = IF current = "other" THEN @ - 1 ELSE @]

\* The kernel will not return to any process: none is looked at any more.
NoMore ==
    /\ alive' = [me |-> FALSE, others |-> 0]
    /\ cpu' = Other /\ saved' = OwnFrame /\ owed' = {}

\* ++ticks, ack(), schedule().
HandleTimer ==
    /\ Handling /\ intno = Timer
    /\ apic' = [apic EXCEPT !.isr = FALSE]
    /\ Working /\ UNCHANGED <<cr3, procVars, trapVars>>
    /\ Goes(LapicMapped, "schedule")

\* A page fault breaks the process ...
HandleFault ==
    /\ Handling /\ intno = INT_PF /\ errcode = "user"
    /\ alive' = Dies
    /\ Working /\ UNCHANGED <<cr3, apic, current, cause, intno, errcode, trapVars>>
    /\ Goes(TRUE, "schedule")

\* ... or is the kernel's: panic.
HandleKernelFault ==
    /\ Handling /\ intno = INT_PF /\ errcode # "user"
    /\ NoMore /\ NoTrap
    /\ Working /\ UNCHANGED <<cr3, apic, current>>
    /\ Goes(TRUE, "failed")

\* Anything else is unexpected: panic.
HandleOther ==
    /\ Handling /\ intno \notin {Timer, INT_PF, SYSCALL}
    /\ NoMore /\ NoTrap
    /\ Working /\ UNCHANGED <<cr3, apic, current>>
    /\ Goes(TRUE, "failed")

\* A system call that returns to its caller ...
SyscallReturns ==
    /\ Handling /\ intno = SYSCALL
    /\ cr3' = "process"
    /\ cpu' = IF current = "me" THEN syscall_return(saved) ELSE Other
    /\ Working /\ UNCHANGED <<apic, procVars, saved, owed>>
    /\ Goes(desc.gdt = "full", "user")

\* ... that lets others run, with the caller still there or not (yield, exit)
\* ...
SyscallSchedules ==
    /\ Handling /\ intno = SYSCALL
    /\ \/ UNCHANGED alive /\ saved' = IF current = "me" THEN [saved EXCEPT ![1] = "0"] ELSE saved
       \/ alive' = Dies /\ UNCHANGED saved
    /\ Working /\ UNCHANGED <<cr3, apic, current, cause, intno, errcode, cpu, owed>>
    /\ Goes(TRUE, "schedule")

\* ... or that is sys_panic, or unknown: panic.
SyscallPanics ==
    /\ Handling /\ intno = SYSCALL
    /\ NoMore /\ NoTrap
    /\ Working /\ UNCHANGED <<cr3, apic, current>>
    /\ Goes(TRUE, "failed")

\* An assertion of a handler fails.  The bottom frame of its stack holds the rbp
\* that the process had.
AssertFails ==
    /\ Handling
    /\ StartBacktrace(0 .. Words - 1)
    /\ NoMore /\ NoTrap
    /\ Quiet /\ UNCHANGED <<cr3, data, bss, apic, current>>
    /\ Goes(TRUE, "backtrace")

\* One frame of the backtrace: lookup_symbol maps the symbol table, once.
BacktraceFrame ==
    /\ pc = "backtrace" /\ Ok(bt) /\ Readable(bt)
    /\ bss' = [bss EXCEPT !.symbols = TRUE]
    /\ \E v \in SavedRbps(bt) : bt' = Stepped(bt, v)
    /\ Quiet /\ UNCHANGED <<cr3, data, apic, procVars, trapVars>>
    /\ Goes(TRUE, "backtrace")

BacktraceDone ==
    /\ pc = "backtrace" /\ ~ Ok(bt)
    /\ bt' = NoBacktrace
    /\ Quiet /\ UNCHANGED <<cr3, data, bss, apic, procVars, trapVars>>
    /\ Goes(TRUE, "failed")

\* run(p), from schedule(); which runnable process is next is Kernel's subject.
Resume(p) ==
    /\ pc = "schedule"
    /\ IF p = "me" THEN alive.me ELSE alive.others > 0
    /\ current' = p /\ NoTrap
    /\ cpu' = IF p = "me" THEN exception_return(saved) ELSE Other
    /\ cr3' = "process"
    /\ Working /\ UNCHANGED <<apic, alive, saved, owed>>
    /\ Goes(desc.gdt = "full", "user")

Handle ==
    \/ NoKey \/ HandleTimer \/ HandleFault \/ HandleKernelFault \/ HandleOther
    \/ SyscallReturns \/ SyscallSchedules \/ SyscallPanics \/ AssertFails
    \/ \E p \in {"me", "other"} : Resume(p)

-----------------------------------------------------------------------------
(* check_keyboard. *)

\* Where keys are looked at: at the beginning of every handler, in schedule()
\* at each slot that is not runnable (slot 0 never is), and in fail().
Polls == pc \in {"trap", "schedule", "failed"}

\* Mutants of RebootSteps: the timer is turned off under the temporary page
\* table; that is loaded before it is filled.
RebootSteps_TimerLate ==
    <<"temp_pagetable", "load_temp", "timer_off", "restore", "restore_again">>
RebootSteps_LoadFirst ==
    <<"timer_off", "load_temp", "temp_pagetable", "restore", "restore_again">>

RebootSteps == <<"timer_off", "temp_pagetable", "load_temp", "restore", "restore_again">>

RebootNext(ok) == Goes(ok, After(RebootSteps, pc, "restart"))

\* A soft reboot begins; the processes will not be heard of again.
RebootKey(c) ==
    /\ Polls
    /\ asked' = c
    /\ NoMore /\ NoTrap /\ current' = "none"
    /\ UNCHANGED <<hwVars, command, bt, bootVars, pciVars, loaderVars>>
    /\ Goes(TRUE, Head(RebootSteps))

TimerOff ==
    /\ pc = "timer_off"
    /\ apic' = [apic EXCEPT !.rate = 0]
    /\ Elsewhere
    /\ UNCHANGED <<cr3, low, data, bss, stash, desc, command, procVars, bt, loaderVars>>
    /\ RebootNext(LapicMapped)

\* The boot loader's page table once more, where it was.
TempPagetable ==
    /\ pc = "temp_pagetable"
    /\ low' = "map"
    /\ Elsewhere
    /\ UNCHANGED <<cr3, data, bss, stash, desc, apic, command, procVars, bt, loaderVars>>
    /\ RebootNext(cr3 # "boot")

LoadTemp ==
    /\ pc = "load_temp"
    /\ cr3' = "boot"
    /\ Elsewhere
    /\ UNCHANGED <<low, data, bss, stash, desc, apic, command, procVars, bt, loaderVars>>
    /\ RebootNext(TRUE)

\* Mutant of Restored: .bss is taken for part of .data.
Restored_DataOnly == data' = stash /\ UNCHANGED bss

\* stash_kernel_data(true), the first time in the function itself and the
\* second in its caller.
Restored == data' = stash /\ bss' = ZeroBss

RestoreData ==
    /\ pc \in {"restore", "restore_again"}
    /\ Restored
    /\ Elsewhere
    /\ UNCHANGED <<cr3, low, stash, desc, apic, command, procVars, bt, loaderVars>>
    /\ RebootNext(StashMapped /\ stash # NoStash)

\* kernel_entry with a multiboot command line.
Restart ==
    /\ pc = "restart"
    /\ command' = CASE asked = "a" -> "allocators" [] asked = "e" -> "forkexit"
                     [] OTHER -> "fork"
    /\ UNCHANGED <<hwVars, procVars, bt, loaderVars>> /\ Elsewhere
    /\ Goes(TRUE, Head(InitSteps))

reboot == TimerOff \/ TempPagetable \/ LoadTemp \/ RestoreData \/ Restart

\* poweroff, as in Pci; nothing else is looked at any more.
OffKey ==
    /\ Polls /\ PowerOff
    /\ NoMore /\ NoTrap /\ current' = "none"
    /\ command' = "none" /\ asked' = "none"
    /\ apic' = [apic EXCEPT !.irr = FALSE, !.isr = FALSE]
    /\ UNCHANGED <<cr3, low, data, bss, stash, desc, bt, bootVars, loaderVars>>
    /\ Goes(TRUE, "poweroff")

poweroff ==
    /\ pc = "poweroff" /\ PciNext
    /\ UNCHANGED <<machineVars, bootVars, loaderVars>>

\* Off, or in poweroff's endless loop.
Halted ==
    /\ pc = "poweroff" /\ power \in {"off", "spin"}
    /\ UNCHANGED <<machineVars, bootVars, pciVars, loaderVars>>

-----------------------------------------------------------------------------

Trap ==
    \/ Syscall \/ \E v \in Vectors \cup {INT_PF} : Exception(v)

Keys ==
    \/ OffKey \/ \E c \in {"a", "f", "e"} : RebootKey(c)

Debug == BacktraceFrame \/ BacktraceDone \/ KernelFault

\* Code that asks nobody.
Code == boot_start \/ boot \/ kernel \/ reboot \/ poweroff \/ Debug

MachineNext ==
    \/ Code \/ Halted
    \/ Tick \/ Interrupt \/ UserCode \/ Trap \/ Handle \/ Keys

allVars == <<machineVars, bootVars, pciVars, loaderVars>>

MachineSpec == MachineInit /\ [][MachineNext]_allVars

\* The processor goes on, with its code or with an interrupt, and the disk and
\* the timer do their part.  Nobody has to press a key.
MachineFair == WF_allVars(Code) /\ WF_allVars(Interrupt) /\ WF_allVars(Tick)

MachineFairSpec == MachineSpec /\ MachineFair

-----------------------------------------------------------------------------
(* Correctness. *)

\* No step of starting, restarting or handling runs on a page table that is not
\* one, reaches for memory that its page table does not map, loads a task
\* segment that is busy or takes an exception through a gate that is not ready:
\* each of these resets a real machine (k-hardware.cc:736).
NeverDies == pc # "dead"

\* kernel() always finds the same beginning, after any number of soft reboots
\* out of any state: .data as linked (with raw gates), .bss zero, and a page
\* table under which the stash can be reached (k-hardware.cc:763).
FreshStart ==
    pc = Head(InitSteps) =>
        data = FreshData /\ bss = ZeroBss /\ cr3 = "boot" /\ low = "map"

\* Each key runs the programs that kernel.hh:155 promises, through the command
\* line and the names of the linked images, and no key runs the allocators; and
\* the programs that run are in memory as they were linked (ProgramsInPlace).
RunsWhatWasAsked ==
    /\ ProgramsInPlace
    /\ pc = "loading" => names = CASE asked = "f" -> <<"fork">> [] asked = "e" -> <<"forkexit">>
                                [] OTHER -> Allocators

\* A process finds the registers it relies on as it left them: all of them after
\* an interrupt, and after a system call those that make_syscall does not
\* declare as changed, whichever of the two ways out of the kernel was taken and
\* whoever ran in between (k-exception.S:98).
RegistersSurvive ==
    pc = "user" /\ current = "me" => \A r \in owed : cpu[r] = r

\* The kernel handles what happened: whether the processor pushes an error code
\* or not, reg_intno is the vector, and a page fault of a process is never taken
\* for one of the kernel's, which would stop the machine (k-exception.S:46).
HandlesWhatHappened ==
    pc \in {"trap", "handle"} =>
        /\ intno = IF cause = KernelPF THEN INT_PF ELSE cause
        /\ intno = INT_PF => (errcode = "user") = (cause = INT_PF)

\* lookup_symbol finds a symbol that covers the address if there is one, in every
\* table that mkchickadeesymtab leaves: sorted, with and without sizes.  Only
\* where several symbols start, one of them without a size, the search may turn
\* the wrong way (k-hardware.cc:554).
LookupFinds ==
    pc = "power_on" => \A t \in Tables, a \in 0 .. Words - 1 :
        LET covering == {m \in DOMAIN t : Covers(t, m, a)}
            alias    == \E m \in 1 .. Len(t) - 1 :
                            t[m].st_value = a /\ t[m + 1].st_value = a /\ t[m].st_size = 0
        IN  IF covering = {} THEN Lookup(t, a) = 0
            ELSE Lookup(t, a) \in covering \/ alias

\* A process does not keep the processor: the timer interrupts it, also when
\* the kernel was restarted inside a timer interrupt that it had not
\* acknowledged (k-hardware.cc:256).  Nor does a backtrace: it ends whatever the
\* stack holds, and fail() listens to the keys again (k-hardware.cc:648).
KernelRegainsControl ==
    /\ pc = "user" ~> pc # "user"
    /\ pc = "backtrace" ~> pc # "backtrace"

\* Power-on and every soft reboot end with processes running, on a machine that
\* has what the kernel needs.
StartsUp ==
    /\ image.magic /\ apic.present => <>(pc = "user")
    /\ pc = Head(RebootSteps) /\ apic.present ~> pc = "user"
=============================================================================
