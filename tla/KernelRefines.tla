--------------------------- MODULE KernelRefines ---------------------------
(***************************************************************************)
(* The kernel implements AddressSpaces.  A process exists from the step    *)
(* that makes it runnable to the step with which its exit begins; its      *)
(* memory is what its page table lets it see.                              *)
(***************************************************************************)
EXTENDS Kernel

UVA == PROC_START .. NVA - 1
NoCell == [c |-> "nothing", w |-> FALSE]
Cell(e) == IF e.pa = NoPage THEN NoCell ELSE [c |-> mem[e.pa], w |-> e.w]

Exists(p) == /\ state[p] # "P_FREE"
             /\ ~ (pid = p /\ pc \in {"pfree_va", "pfree_pt"})

aliveBar == [p \in Pid |->
    IF ~ Exists(p) THEN "none"
    ELSE IF state[p] = "P_RUNNABLE" THEN "ok" ELSE "broken"]
spaceBar == [p \in Pid |-> [v \in UVA |->
    IF Exists(p) THEN Cell(pt[p][v]) ELSE NoCell]]

\* A program just loaded: text read-only, a stack nobody has written.
Image == [v \in UVA |->
    IF v \in Text \cup Data THEN [c |-> IMAGE, w |-> v \notin Text]
    ELSE IF v = Stack THEN [c |-> CC, w |-> TRUE] ELSE NoCell]

Abstract == INSTANCE AddressSpaces
    WITH alive <- aliveBar, space <- spaceBar, running <- current, result <- rax

(***************************************************************************)
(* Processes are isolated: every step of the kernel, seen through the page *)
(* tables, is a step of private address spaces or invisible.  In           *)
(* particular fork copies the whole memory, page_alloc gives zeroed memory *)
(* that nobody else sees, a failed fork or page_alloc changes nothing, and *)
(* no reuse of physical pages shows through.                               *)
(***************************************************************************)
Isolation == Abstract!Spec
=============================================================================
