--------------------------- MODULE AddressSpaces ---------------------------
(***************************************************************************)
(* What the kernel promises to processes, without page tables, reference   *)
(* counts or physical memory: every process has an address space of its    *)
(* own, which nobody else can change.                                      *)
(***************************************************************************)
EXTENDS Integers

CONSTANTS
    Pid,        \* process identifiers
    UVA,        \* the pages of an address space
    Val,        \* what can be written
    Image,      \* the address space of a freshly loaded program
    ZERO,       \* a zeroed page
    NoCell      \* an address with no memory

VARIABLES
    alive,      \* "none", "ok" or "broken", for every process
    space,      \* space[p][v]: contents and writability, or NoCell
    running,    \* the process that runs
    result      \* result[p]: what p's last system call returned

svars == <<alive, space, running, result>>

Empty == [v \in UVA |-> NoCell]

Init ==
    /\ alive = [p \in Pid |-> "none"]
    /\ space = [p \in Pid |-> Empty]
    /\ running = 0
    /\ result = [p \in Pid |-> 0]

\* A program is loaded into an unused slot; the last one starts process 1.
Load(p) ==
    /\ alive[p] = "none"
    /\ alive' = [alive EXCEPT ![p] = "ok"]
    /\ space' = [space EXCEPT ![p] = Image]
    /\ running' \in {running, 1}
    /\ UNCHANGED result

Write(v, c) ==
    /\ alive[running] = "ok"
    /\ space[running][v] # NoCell /\ space[running][v].w
    /\ space' = [space EXCEPT ![running][v].c = c]
    /\ UNCHANGED <<alive, running, result>>

\* The system call returns r to the process that made it.
Returns(r) == result' = [result EXCEPT ![running] = r]

PageAlloc(v) ==
    /\ alive[running] = "ok"
    /\ space' = [space EXCEPT ![running][v] = [c |-> ZERO, w |-> TRUE]]
    /\ Returns(0)
    /\ UNCHANGED <<alive, running>>

\* The child starts with a copy of the whole address space, and is told
\* apart by what fork returns.
Fork(child) ==
    /\ alive[running] = "ok" /\ alive[child] = "none"
    /\ alive' = [alive EXCEPT ![child] = "ok"]
    /\ space' = [space EXCEPT ![child] = space[running]]
    /\ result' = [result EXCEPT ![running] = child, ![child] = 0]
    /\ UNCHANGED running

\* A system call that fails, and those that only return a value.
Answer ==
    /\ alive[running] = "ok"
    /\ \E r \in {-1, 0, running} : Returns(r)
    /\ UNCHANGED <<alive, space, running>>

Exit ==
    /\ alive[running] = "ok"
    /\ alive' = [alive EXCEPT ![running] = "none"]
    /\ space' = [space EXCEPT ![running] = Empty]
    /\ UNCHANGED <<running, result>>

\* An illegal access; the memory stays allocated.
Break ==
    /\ alive[running] = "ok"
    /\ alive' = [alive EXCEPT ![running] = "broken"]
    /\ UNCHANGED <<space, running, result>>

Switch(p) ==
    /\ alive[p] = "ok"
    /\ running' = p
    /\ UNCHANGED <<alive, space, result>>

Reset ==
    /\ alive' = [p \in Pid |-> "none"]
    /\ space' = [p \in Pid |-> Empty]
    /\ running' = 0
    /\ result' = [p \in Pid |-> 0]

Next ==
    \/ \E p \in Pid : Load(p) \/ Fork(p) \/ Switch(p)
    \/ \E v \in UVA : PageAlloc(v) \/ \E c \in Val : Write(v, c)
    \/ Answer \/ Exit \/ Break \/ Reset

Spec == Init /\ [][Next]_svars
=============================================================================
