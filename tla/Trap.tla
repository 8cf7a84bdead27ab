-------------------------------- MODULE Trap --------------------------------
(***************************************************************************)
(* How registers get into and out of the kernel (k-exception.S, regstate   *)
(* in x86-64.h, make_syscall in u-lib.hh).  One process is observed, "me"; *)
(* register r of it holds the value r, as long as nobody spoils it.        *)
(***************************************************************************)
EXTENDS Integers, SequencesExt

\* regstate, from its lowest address on; intno and swapgs share a word.
regstate == <<"rax", "rcx", "rdx", "rbx", "rbp", "rsi", "rdi", "r8", "r9", "r10", "r11",
              "r12", "r13", "r14", "r15", "fs", "gs", "intno", "errcode",
              "rip", "cs", "rflags", "rsp", "ss">>

\* What iretq takes from the stack, and the other registers.
IretRegs == <<"rip", "cs", "rflags", "rsp", "ss">>
Regs     == ToSet(regstate) \ {"intno", "errcode"}

CalleeSaved == {"rbx", "rbp", "r12", "r13", "r14", "r15"}

\* What make_syscall tells the compiler to be changed.
Clobbered == {"rax", "rcx", "rdx", "rsi", "rdi", "r8", "r9", "r10", "r11"}

INT_DF == 8
INT_TS == 10
INT_GP == 13
INT_PF == 14
INT_AC == 17
INT_BP == 3
Timer  == 32        \* INT_IRQ + IRQ_TIMER
SYSCALL == -1       \* reg_intno of a system call

VARIABLES
    cpu,        \* the registers
    saved,      \* the observed process's ptable[].regs: regstate -> value
    owed        \* the registers that it relies on now

trapVars == <<cpu, saved, owed>>

\* Its registers as it sets them, in the processor and as a regstate.
Own      == [r \in Regs |-> r]
OwnFrame == [i \in DOMAIN regstate |-> IF regstate[i] = "intno" THEN SYSCALL ELSE regstate[i]]
Other    == [r \in Regs |-> "other"]       \* another process's, or the kernel's

Field(rs, name) == rs[CHOOSE i \in DOMAIN regstate : regstate[i] = name]

-----------------------------------------------------------------------------
(* Entry.  A word on the stack is named by what is pushed: a register, the *)
(* vector, an error code, zero, or nothing when it is skipped.             *)

\* The processor: it pushes an error code for some exceptions.
ErrorCodes == {INT_DF, INT_AC} \cup INT_TS .. INT_PF
HardwarePushes(v) == Reverse(IretRegs) \o (IF v \in ErrorCodes THEN <<"errcode">> ELSE <<>>)

\* Mutant of HandlerPushes: page faults get a second error code.
HandlerPushes_PF(v) ==
    (IF v # INT_DF /\ (v < INT_TS \/ v >= INT_PF) /\ v # INT_AC THEN <<"zero">> ELSE <<>>)
    \o <<"intno">>

\* exception_handler pushes one for the others, and the number.
HandlerPushes(v) ==
    (IF v # INT_DF /\ (v < INT_TS \/ v > INT_PF) /\ v # INT_AC THEN <<"zero">> ELSE <<>>)
    \o <<"intno">>

\* exception_entry.
EntryPushes ==
    <<"gs", "fs", "r15", "r14", "r13", "r12", "r11", "r10", "r9", "r8",
      "rdi", "rsi", "rbp", "rbx", "rdx", "rcx", "rax">>

\* syscall_entry.  The stack pointer was stored at KERNEL_STACK_TOP - 16
\* beforehand, the slot below ss.
SyscallPushes ==
    <<"ss", "rsp", "r11", "cs", "rcx", "skip", "intno", "gs", "fs", "r15", "r14", "r13", "r12",
      "skip", "r10", "r9", "r8", "rdi", "rsi", "rbp", "rbx", "rdx", "skip", "rax">>

\* The words as memory shows them, from the stack pointer up.
ExceptionLayout ==
    [v \in 0 .. Timer |-> Reverse(HardwarePushes(v) \o HandlerPushes(v) \o EntryPushes)]
SyscallLayout == Reverse(SyscallPushes)

\* Read as a regstate; beyond the stack's top there is anything.  The error code
\* of a page fault says that it was a process's.
AsRegstate(layout, regs, v) ==
    [i \in DOMAIN regstate |->
        IF i \notin DOMAIN layout THEN "beyond"
        ELSE CASE layout[i] = "intno"   -> v
               [] layout[i] = "errcode" -> "user"
               [] layout[i] = "zero"    -> "0"
               [] layout[i] = "skip"    -> "stale"
               [] OTHER                 -> regs[layout[i]]]

ExceptionFrame(v) == AsRegstate(ExceptionLayout[v], cpu, v)

\* The syscall instruction; ss and cs are pushed as constants, every process's.
SyscallFrame ==
    AsRegstate(SyscallLayout,
               [cpu EXCEPT !["rcx"] = cpu["rip"], !["r11"] = cpu["rflags"],
                           !["ss"] = "ss", !["cs"] = "cs"],
               SYSCALL)

-----------------------------------------------------------------------------
(* Return. *)

\* The registers after popping names off a stack that begins with vals, and
\* the others as they are.
Popped(regs, names, vals) ==
    [r \in Regs |-> LET is == {i \in DOMAIN names : names[i] = r}
                    IN  IF is = {} THEN regs[r] ELSE vals[CHOOSE i \in is : TRUE]]

\* Mutant of PopOrder: two of them are swapped.
PopOrder_Swapped ==
    <<"rax", "rcx", "rdx", "rbp", "rbx", "rsi", "rdi", "r8", "r9", "r10", "r11",
      "r12", "r13", "r14", "r15", "fs", "gs", "skip", "skip">> \o IretRegs

\* exception_return: pops, two words skipped, iretq.
PopOrder ==
    <<"rax", "rcx", "rdx", "rbx", "rbp", "rsi", "rdi", "r8", "r9", "r10", "r11",
      "r12", "r13", "r14", "r15", "fs", "gs", "skip", "skip">> \o IretRegs

exception_return(rs) == Popped(Other, PopOrder, rs)

\* After a system call: the compiled syscall() has kept the callee-saved
\* registers (and no code touches fs and gs), rax is its result; 19 words are
\* skipped and iretq finds its part of the frame.
syscall_return(rs) ==
    Popped([r \in Regs |-> IF r \in CalleeSaved \cup {"fs", "gs"} THEN cpu[r]
                           ELSE IF r = "rax" THEN "result" ELSE "other"],
           IretRegs, SubSeq(rs, 20, Len(rs)))
=============================================================================
