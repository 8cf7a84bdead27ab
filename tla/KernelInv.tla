----------------------------- MODULE KernelInv -----------------------------
(***************************************************************************)
(* What makes the safety properties of Kernel inductive.  Handlers take    *)
(* many steps, and in between a slot of ptable may own pages though it is  *)
(* P_FREE, as process_setup and fork set the state last and pfree works    *)
(* for a failed fork as well.  Control says, for every place (pc) in the   *)
(* kernel, which slot that is, how much of its page table there is, and    *)
(* what the kernel's locals hold.                                          *)
(***************************************************************************)
EXTENDS Kernel

\* While process_setup or fork builds a page table, and while pfree takes one
\* apart, the slot pid owns pages although it may be P_FREE.
Building  == {"setup", "setup_stack", "fork_va"}
Freeing   == {"pfree_va", "pfree_pt"}
Dead      == {"wild", "assert", "off"}
Owns(p)   == state[p] # "P_FREE" \/ (p = pid /\ pc \in Building \cup Freeing)

\* A slot that owns nothing has no tables and no mappings.
Slots == pc \notin Dead => \A p \in Pid : ~ Owns(p) => tab[p] = NoTable /\ pt[p] = NoMap

\* The process that called the kernel is runnable until its handler ends;
\* the slot being built is free, and so are those that boot comes to later.
InCall == {"user", "pa_map", "fork_root", "fork_va"} \cup Freeing \cup Ops
Who ==
    /\ pc \in InCall => state[current] = "P_RUNNABLE"
    /\ pc \in {"setup_root", "setup", "setup_stack"} =>
        /\ pid # 0
        /\ \A p \in Pid : p >= pid => state[p] = "P_FREE"
        /\ \A p \in 1 .. pid - 1 : state[p] = "P_RUNNABLE"
    /\ pc \in {"fork_root", "fork_va"} => state[pid] = "P_FREE"
    /\ pc \in Freeing /\ pid # current => state[pid] = "P_FREE"

\* How far the loop over the address space has come.
Progress ==
    /\ pc \in Building => \A v \in VA : v >= va => pt[pid][v] = NoEntry
    /\ pc \in Freeing => \A v \in VA : v \in PROC_START .. va - 1 => ~ User(pt[pid][v])
    /\ pc = "pfree_pt" => va = NVA
    /\ pc = "setup_stack" => va \in {Stack, NVA}

\* A page is in hand only between its allocation and its mapping.
InHand ==
    \/ held = NoPage /\ pc # "pa_map"
    \/ pc = "setup" /\ va \in Text \cup Data
    \/ pc = "setup_stack" /\ va = Stack
    \/ pc = "pa_map"
    \/ pc = "fork_va" /\ va < NVA /\ Private(va, Parent)
    \/ pc \in Freeing /\ pid # current
    \/ pc \in Dead

\* page_alloc maps a page it has, and only in the process's part.
Target == pc = "pa_map" => va \in PROC_START .. NVA - 1 /\ held # NoPage

\* Below PROC_START there are only the kernel's own mappings.
LowMappings ==
    \A p \in Pid, v \in VA : v < PROC_START => pt[p][v] \in {NoEntry, KernelEntry(v)}

\* From PROC_START on there are pages from kalloc, as the one in hand is.
HighMappings ==
    /\ \A p \in Pid, v \in VA : v >= PROC_START => pt[p][v].pa \in Allocatable \cup {NoPage}
    /\ held \in Allocatable \cup {NoPage}

Control == /\ Slots /\ Who /\ Progress /\ InHand /\ Target
           /\ LowMappings /\ HighMappings

\* The kernel is there in every page table that is complete: its memory is
\* mapped as process_setup maps it.  In one that is being built it is there as
\* far as the loop has come.
KernelMapped(p, end) == \A v \in 0 .. PROC_START - 1 : v < end => pt[p][v] = KernelEntry(v)
Linked(p) == \A n \in Path(0) : tab[p][n] # NoPage
Complete(p) == state[p] # "P_FREE" /\ ~ (pc \in Freeing /\ p = pid)

KernelThere ==
    /\ state[0] = "P_FREE"
    /\ \A p \in Pid : Complete(p) => Linked(p) /\ KernelMapped(p, PROC_START)
    /\ pc \in {"fork_root", "fork_va"} => pid # 0
    /\ pc \in Building => KernelMapped(pid, va) /\ (va > 0 => Linked(pid))
-----------------------------------------------------------------------------
(* What the page accounting needs besides, while no program calls          *)
(* page_alloc for an address it has mapped.                                *)

\* Only fork shares a page, and fork maps it where the parent has it.
SameAddress ==
    \A p, q \in Pid, v, w \in VA :
        /\ Counted(v, pt[p][v]) /\ Counted(w, pt[q][w])
        /\ pt[p][v].pa = pt[q][w].pa
        => v = w

\* The memory viewer's page comes from kalloc, and is not the one in hand.
Viewer == /\ mv \in Allocatable \cup {NoPage}
          /\ mv = held => mv = NoPage

\* A page table that is being built or taken apart has its root: pfree's last
\* kfree is of a page.
Rooted == pc \in Building \cup Freeing => tab[pid][0] # NoPage

\* page_alloc overwrites no mapping.
Unmapped ==
    pc \in {"page_alloc", "pa_map"} /\ va \in PROC_START .. NVA - 1
        => pt[current][va].pa = NoPage

Pages == RefcountExact /\ KernelPages /\ PrivatePages /\ SameAddress /\ Viewer
Accounting == Pages /\ Rooted /\ Unmapped
=============================================================================
