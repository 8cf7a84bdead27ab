------------------------------ MODULE MCKernel ------------------------------
(* Instances of Kernel for TLC. *)
EXTENDS KernelRefines

(***************************************************************************)
(* One particular program: the parent forks whenever its last child is     *)
(* gone and yields otherwise; a child replaces its read-only page with     *)
(* page_alloc and exits.                                                   *)
(***************************************************************************)
ReplaceText ==
    \/ current = 1 /\ state[2] = "P_FREE" /\ Enter("fork", 0)
    \/ current = 1 /\ state[2] # "P_FREE" /\ Enter("yield", 0)
    \/ \E v \in Text : /\ current # 1 /\ ~ Writable(pt[current][v])
                       /\ Enter("page_alloc", v)
    \/ \E v \in Text : /\ current # 1 /\ Writable(pt[current][v])
                       /\ Enter("exit", 0)

ReplaceTextSpec == Init /\ [][KernelStep \/ ReplaceText]_vars
=============================================================================
