----------------------------- MODULE Backtrace -----------------------------
(***************************************************************************)
(* What the kernel does for a human when an assertion fails: it follows    *)
(* the saved frame pointers up the stack (backtracer) and looks the return *)
(* addresses up in the symbol table (lookup_symbol).  Addresses are in     *)
(* words of eight bytes, modulo Words.                                     *)
(***************************************************************************)
EXTENDS Integers, Sequences

CONSTANTS
    Words,          \* the address space, in words
    StackBottom,    \* the kernel stack's page
    KERNEL_STACK_TOP,
    MappedTop,      \* the kernel page table maps addresses below
    Tables          \* symbol tables: sequences of [st_value, st_size]

ASSUME StackAssumption ==
    /\ {Words, StackBottom, KERNEL_STACK_TOP, MappedTop} \subseteq Nat
    /\ StackBottom < KERNEL_STACK_TOP /\ KERNEL_STACK_TOP < MappedTop /\ MappedTop < Words

VARIABLE
    bt      \* the backtracer: [rbp, rsp, base]; base is what the first frame on
            \*   the kernel stack saved: the set of its possible values

NoBacktrace == [rbp |-> 0, rsp |-> 0, base |-> {}]

\* backtracer::ok, the difference being unsigned.
Ok(b) == b.rbp >= b.rsp /\ (KERNEL_STACK_TOP - b.rbp) % Words >= 2

\* The frame can be read.
Readable(b) == b.rbp + 1 < MappedTop

\* What may be found there: in the stack, a frame further up or the base of the
\* chain; anything elsewhere.  No address is read twice, as frames go up.
SavedRbps(b) ==
    IF b.rbp \in StackBottom .. KERNEL_STACK_TOP - 2
    THEN b.rbp + 2 .. KERNEL_STACK_TOP - 2 \cup b.base
    ELSE 0 .. Words - 1

\* backtracer::step.
Stepped(b, v) == [b EXCEPT !.rsp = (b.rbp + 2) % Words, !.rbp = v]

-----------------------------------------------------------------------------
(* lookup_symbol. *)

\* A symbol covers an address: by its size, or up to the next symbol.
Covers(t, m, a) ==
    /\ t[m].st_value <= a
    /\ IF t[m].st_size # 0 THEN a < t[m].st_value + t[m].st_size
       ELSE m = Len(t) \/ a < t[m + 1].st_value

\* What mkchickadeesymtab leaves: symbols are sorted, by their sizes where several
\* start, and none reaches into the next one that starts behind it.
Sorted(t) ==
    \A i, j \in DOMAIN t : i < j =>
        \/ t[i].st_value = t[j].st_value /\ t[i].st_size <= t[j].st_size
        \/ /\ t[i].st_value < t[j].st_value
           /\ t[i].st_value + t[i].st_size <= t[j].st_value

ASSUME SymbolAssumption ==
    /\ Tables \subseteq Seq([st_value : Nat, st_size : Nat])
    /\ \A t \in Tables : Sorted(t)

\* Mutant of Lookup: the search goes on to the left where it should go right.
Lookup_AtValue(t, a) ==
    LET Search[w \in (0 .. Len(t)) \X (0 .. Len(t))] ==
            LET l == w[1]
                r == w[2]
                m == l + ((r - l) \div 2) + 1
            IN
            IF l >= r THEN 0
            ELSE IF Covers(t, m, a) THEN m
            ELSE IF t[m].st_value < a /\ t[m].st_size # 0 THEN Search[<<m, r>>]
            ELSE Search[<<l, m - 1>>]
    IN  Search[<<0, Len(t)>>]

\* The index of the symbol found, or 0.  (The code counts from 0: its m is the
\* index minus one.)
Lookup(t, a) ==
    LET Search[w \in (0 .. Len(t)) \X (0 .. Len(t))] ==
            LET l == w[1]
                r == w[2]
                m == l + ((r - l) \div 2) + 1
            IN
            IF l >= r THEN 0
            ELSE IF Covers(t, m, a) THEN m
            ELSE IF t[m].st_value < a THEN Search[<<m, r>>]
            ELSE Search[<<l, m - 1>>]
    IN  Search[<<0, Len(t)>>]
=============================================================================
