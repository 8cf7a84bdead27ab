----------------------------- MODULE MCMachine -----------------------------
(* An instance of Machine for TLC. *)
EXTENDS Machine

\* Boot sector and page table at 0-3, the header's page at 8-15; the kernel from
\* 20 on and the symbol table at 40, with ends that are no ends of sectors.
MCKeep == 0 .. 3
Ph(va, o, f, m) == [p_va |-> va, p_offset |-> o, p_filesz |-> f, p_memsz |-> m]
MCImages ==
    {[magic |-> TRUE, size |-> 30,
      ph |-> <<Ph(20, 8, 9, 15), Ph(40, 20, 10, 10)>>],
     [magic |-> FALSE, size |-> 17, ph |-> <<Ph(20, 8, 9, 10)>>]}

\* Two slots of two functions, of all kinds.
MCConfigs == [0 .. addr_end - 1 -> Function]

\* Tables of a null symbol and up to three others: with sizes that do not reach
\* the next one, or without.
Sym(v, n) == [st_value |-> v, st_size |-> n]
Syms == {Sym(v, n) : v \in {2, 3, 5, 8}, n \in 0 .. 3}
MCTables ==
    {t \in {<<Sym(0, 0)>> \o u : u \in UNION {[1 .. n -> Syms] : n \in 0 .. 3}} : Sorted(t)}

\* Programs with text of more than a page and data that is partly .bss, linked
\* at two addresses; one has a header that is not loaded.
Load(va, f, m, w) == [load |-> TRUE, p_va |-> va, p_filesz |-> f, p_memsz |-> m, w |-> w]
Note == [load |-> FALSE, p_va |-> 0, p_filesz |-> 1, p_memsz |-> 1, w |-> FALSE]
Prog(n, h) == [name |-> n, ph |-> h]
One == <<Load(8, 3, 3, FALSE), Load(12, 1, 2, TRUE)>>
Two == <<Note, Load(10, 2, 2, FALSE), Load(12, 1, 3, TRUE)>>
MCramimages ==
    <<Prog("allocator", One), Prog("allocator2", Two), Prog("allocator3", One),
      Prog("allocator4", Two), Prog("fork", Two), Prog("forkexit", One)>>
=============================================================================
