--------------------------- MODULE KernelAccounting ---------------------------
(***************************************************************************)
(* The page accounting of Kernel is exact, for every number of processes   *)
(* and pages and every layout of memory, as long as no program calls       *)
(* page_alloc for an address it has mapped already.  Every step changes    *)
(* who refers to one page (or to two, when a fork is undone); the lemmas   *)
(* of the first part say what that does to the number of references, those *)
(* of the second what each kind of change does to the invariant, and those *)
(* of the third which kind each action is.  The last part draws a          *)
(* conclusion about MemViewer, which does not change the kernel.           *)
(***************************************************************************)
EXTENDS KernelSafety, MemViewer, FiniteSetTheorems, WellFoundedInduction

\* The entry of p for v if it is counted.
Own(p, v) == IF Counted(v, pt[p][v]) THEN pt[p][v] ELSE NoEntry

\* The properties about who may share a page, in these terms.
Apart ==
    /\ \A p \in Pid, v \in VA : Own(p, v).pa # NoPage =>
        /\ Own(p, v).pa \in Allocatable \ {mv, held}
        /\ \A q \in Pid, n \in Node : tab[q][n] # Own(p, v).pa
    /\ \A p, q \in Pid, n, m \in Node :
        tab[p][n] # NoPage /\ tab[p][n] = tab[q][m] => p = q /\ n = m
    /\ \A p \in Pid, n \in Node : tab[p][n] # NoPage =>
        tab[p][n] \in Allocatable \ {mv, held}
    /\ \A p, q \in Pid, v, w \in VA :
        Own(p, v).pa # NoPage /\ Own(p, v).pa = Own(q, w).pa
            => v = w /\ (Own(p, v).w => p = q)

-----------------------------------------------------------------------------
(* Counting references. *)

\* Two sets that differ in x only.
LEMMA Toggle ==
    ASSUME NEW S, NEW T, NEW x, IsFiniteSet(S), IsFiniteSet(T), S \ {x} = T \ {x}
    PROVE  /\ Cardinality(S) \in Nat /\ Cardinality(T) \in Nat
           /\ Cardinality(T) = Cardinality(S) - Bit(x \in S) + Bit(x \in T)
<1>1. Cardinality(S) \in Nat /\ Cardinality(T) \in Nat
  BY FS_CardinalityType
<1>2. Cardinality(S \ {x}) = Cardinality(S) - Bit(x \in S)
  BY <1>1, FS_RemoveElement DEF Bit
<1>3. Cardinality(T \ {x}) = Cardinality(T) - Bit(x \in T)
  BY <1>1, FS_RemoveElement DEF Bit
<1>4. Cardinality(T) - Bit(x \in T) = Cardinality(S) - Bit(x \in S)
  BY <1>2, <1>3
<1> QED
  BY <1>1, <1>4 DEF Bit

\* ptable, the address space and the page tables are finite.
LEMMA Finite ==
    ASSUME NEW pa
    PROVE  /\ IsFiniteSet(TabRefs(pa)) /\ IsFiniteSet(TabRefs(pa)')
           /\ IsFiniteSet(MapRefs(pa)) /\ IsFiniteSet(MapRefs(pa)')
           /\ Cardinality(TabRefs(pa)) \in Nat /\ Cardinality(MapRefs(pa)) \in Nat
<1>1. IsFiniteSet(Pid) /\ IsFiniteSet(Node) /\ IsFiniteSet(VA)
  <2>1. NPROC - 1 \in Int /\ 2 + NL1 \in Int /\ NVA - 1 \in Int
    BY SizeAssumption DEF NL1
  <2> QED
    BY <2>1, FS_Interval DEF Pid, Node, VA
<1>2. IsFiniteSet(Pid \X Node) /\ IsFiniteSet(Pid \X VA)
  BY <1>1, FS_Product
<1>3. /\ TabRefs(pa) \in SUBSET (Pid \X Node) /\ TabRefs(pa)' \in SUBSET (Pid \X Node)
      /\ MapRefs(pa) \in SUBSET (Pid \X VA) /\ MapRefs(pa)' \in SUBSET (Pid \X VA)
  BY DEF TabRefs, MapRefs
<1>4. /\ IsFiniteSet(TabRefs(pa)) /\ IsFiniteSet(TabRefs(pa)')
      /\ IsFiniteSet(MapRefs(pa)) /\ IsFiniteSet(MapRefs(pa)')
  BY <1>2, <1>3, FS_Subset
<1> QED
  BY <1>4, FS_CardinalityType

\* One node of one page table changes.
LEMMA TabCount ==
    ASSUME NEW p \in Pid, NEW n \in Node, NEW pa,
           \A q \in Pid, m \in Node : q # p \/ m # n => tab'[q][m] = tab[q][m]
    PROVE  Cardinality(TabRefs(pa)') = Cardinality(TabRefs(pa))
                                       - Bit(tab[p][n] = pa) + Bit(tab'[p][n] = pa)
<1> DEFINE x == <<p, n>>
<1>1. TabRefs(pa) \ {x} = TabRefs(pa)' \ {x}
  BY DEF TabRefs
<1>2. (x \in TabRefs(pa) <=> tab[p][n] = pa) /\ (x \in TabRefs(pa)' <=> tab'[p][n] = pa)
  BY DEF TabRefs
<1> HIDE DEF x
<1> QED
  BY <1>1, <1>2, Finite, Toggle DEF Bit

\* One counted mapping changes.
LEMMA MapCount ==
    ASSUME TypeOK, TypeOK', NEW p \in Pid, NEW v \in VA, NEW pa \in PA,
           \A q \in Pid, w \in VA : q # p \/ w # v => Own(q, w)' = Own(q, w)
    PROVE  Cardinality(MapRefs(pa)') = Cardinality(MapRefs(pa))
                               - Bit(Own(p, v).pa = pa) + Bit(Own(p, v)'.pa = pa)
<1> DEFINE x == <<p, v>>
<1>1. /\ \A y \in Pid \X VA : y \in MapRefs(pa) <=> Own(y[1], y[2]).pa = pa
      /\ \A y \in Pid \X VA : y \in MapRefs(pa)' <=> Own(y[1], y[2])'.pa = pa
  BY Constants DEF MapRefs, Own, NoEntry
<1>2. MapRefs(pa) \ {x} = MapRefs(pa)' \ {x}
  <2>1. MapRefs(pa) \subseteq Pid \X VA /\ MapRefs(pa)' \subseteq Pid \X VA
    BY DEF MapRefs
  <2>2. \A y \in Pid \X VA : y # x => Own(y[1], y[2])' = Own(y[1], y[2])
    OBVIOUS
  <2> QED
    BY <1>1, <2>1, <2>2
<1>3. (x \in MapRefs(pa) <=> Own(p, v).pa = pa) /\ (x \in MapRefs(pa)' <=> Own(p, v)'.pa = pa)
  BY <1>1
<1> HIDE DEF x
<1> QED
  BY <1>2, <1>3, Finite, Toggle DEF Bit

\* A page with no reference, such as one that kalloc finds.
LEMMA Unused ==
    ASSUME TypeOK, Pages, NEW pa \in Allocatable, refcount[pa] = 0
    PROVE  /\ \A p \in Pid, n \in Node : tab[p][n] # pa
           /\ \A p \in Pid, v \in VA : Own(p, v).pa # pa
           /\ mv # pa /\ held # pa
<1>1. Refs(pa) = 0
  BY DEF Pages, RefcountExact
<1>2. /\ Cardinality(TabRefs(pa)) = 0 /\ Cardinality(MapRefs(pa)) = 0
      /\ mv # pa /\ held # pa
  BY <1>1, Finite DEF Refs, Bit
<1>3. TabRefs(pa) = {} /\ MapRefs(pa) = {}
  BY <1>2, Finite, FS_EmptySet
<1>4. \A p \in Pid, n \in Node : tab[p][n] # pa
  <2> SUFFICES ASSUME NEW p \in Pid, NEW n \in Node, tab[p][n] = pa PROVE FALSE
    OBVIOUS
  <2>1. <<p, n>> \in TabRefs(pa)
    BY DEF TabRefs
  <2> QED BY <2>1, <1>3
<1>5. \A p \in Pid, v \in VA : Own(p, v).pa # pa
  <2> SUFFICES ASSUME NEW p \in Pid, NEW v \in VA, Own(p, v).pa = pa PROVE FALSE
    OBVIOUS
  <2>1. <<p, v>> \in MapRefs(pa)
    BY Constants DEF MapRefs, Own, NoEntry
  <2> QED BY <2>1, <1>3
<1> QED
  BY <1>2, <1>4, <1>5

\* Own and Apart say the same as the properties.
LEMMA ApartIff ==
    TypeOK => (Pages <=> RefcountExact /\ Apart /\ Viewer)
<1> SUFFICES ASSUME TypeOK PROVE Pages <=> RefcountExact /\ Apart /\ Viewer
  OBVIOUS
<1>1. \A p \in Pid, v \in VA :
        /\ Counted(v, pt[p][v]) <=> Own(p, v).pa # NoPage
        /\ Counted(v, pt[p][v]) => pt[p][v] = Own(p, v)
  BY DEF Own, Counted, User, NoEntry
<1>2. KernelPages /\ PrivatePages /\ SameAddress => Apart
  <2> SUFFICES ASSUME KernelPages, PrivatePages, SameAddress PROVE Apart
    OBVIOUS
  <2>1. \A p, q \in Pid, v, w \in VA :
            Own(p, v).pa # NoPage /\ Own(p, v).pa = Own(q, w).pa
                => v = w /\ (Own(p, v).w => p = q)
    BY <1>1 DEF PrivatePages, SameAddress, Writable
  <2> QED
    BY <1>1, <2>1 DEF KernelPages, Apart
<1>3. Apart => KernelPages /\ PrivatePages /\ SameAddress
  BY <1>1 DEF KernelPages, PrivatePages, SameAddress, Apart, Writable
<1> QED
  BY <1>2, <1>3 DEF Pages

\* Allocatable pages and absent ones.
LEMMA PageFacts == /\ Allocatable \subseteq PA /\ NoPage \notin Allocatable
                   /\ NULL \notin Allocatable /\ NoPage \notin PA
                   /\ NoEntry.pa = NoPage
BY MemoryAssumption, Constants DEF NoEntry

\* A set of natural numbers has a least one.
LEMMA Least ==
    ASSUME NEW S \in SUBSET Nat, S # {}
    PROVE  \E x \in S : \A y \in S : x <= y
<1>1. PICK x \in S : \A y \in S : ~ (<<y, x>> \in OpToRel(<, Nat))
  BY WFMin, NatLessThanWellFounded
<1>2. \A y \in S : ~ (y < x)
  BY <1>1 DEF OpToRel
<1> QED
  BY <1>2

\* Who refers to a page after a step, given what the step changes.
LEMMA RefsAfter ==
    ASSUME TypeOK, TypeOK', NEW p \in Pid, NEW n \in Node, NEW r \in Pid, NEW v \in VA,
           \A q \in Pid, m \in Node : q # p \/ m # n => tab'[q][m] = tab[q][m],
           \A q \in Pid, w \in VA : q # r \/ w # v => Own(q, w)' = Own(q, w),
           NEW pa \in PA
    PROVE  /\ Refs(pa) \in Nat
           /\ Refs(pa)' = Refs(pa) - Bit(tab[p][n] = pa) + Bit(tab'[p][n] = pa)
                  - Bit(Own(r, v).pa = pa) + Bit(Own(r, v)'.pa = pa)
                  - Bit(mv = pa) + Bit(mv' = pa) - Bit(held = pa) + Bit(held' = pa)
<1>1. /\ Cardinality(TabRefs(pa)') = Cardinality(TabRefs(pa))
                   - Bit(tab[p][n] = pa) + Bit(tab'[p][n] = pa)
      /\ Cardinality(MapRefs(pa)') = Cardinality(MapRefs(pa))
                   - Bit(Own(r, v).pa = pa) + Bit(Own(r, v)'.pa = pa)
  BY TabCount, MapCount
<1>2. \A b : Bit(b) \in Nat
  BY DEF Bit
<1> QED
  BY <1>1, <1>2, Finite DEF Refs

\* The same for a step that changes no page table's nodes ...
LEMMA RefsMap ==
    ASSUME TypeOK, TypeOK', NEW r \in Pid, NEW v \in VA, UNCHANGED tab,
           \A q \in Pid, w \in VA : q # r \/ w # v => Own(q, w)' = Own(q, w),
           NEW pa \in PA
    PROVE  /\ Refs(pa) \in Nat
           /\ Refs(pa)' = Refs(pa) - Bit(Own(r, v).pa = pa) + Bit(Own(r, v)'.pa = pa)
                  - Bit(mv = pa) + Bit(mv' = pa) - Bit(held = pa) + Bit(held' = pa)
<1>1. 0 \in Pid /\ 0 \in Node
  BY Constants
<1>2. /\ Refs(pa) \in Nat
      /\ Refs(pa)' = Refs(pa) - Bit(tab[0][0] = pa) + Bit(tab'[0][0] = pa)
                  - Bit(Own(r, v).pa = pa) + Bit(Own(r, v)'.pa = pa)
                  - Bit(mv = pa) + Bit(mv' = pa) - Bit(held = pa) + Bit(held' = pa)
  BY <1>1, RefsAfter
<1> QED
  BY <1>2 DEF Bit

\* ... and for one that changes no counted mapping either.
LEMMA RefsKept ==
    ASSUME TypeOK, TypeOK', UNCHANGED tab,
           \A q \in Pid, w \in VA : Own(q, w)' = Own(q, w), NEW pa \in PA
    PROVE  /\ Refs(pa) \in Nat
           /\ Refs(pa)' = Refs(pa) - Bit(mv = pa) + Bit(mv' = pa)
                                   - Bit(held = pa) + Bit(held' = pa)
<1>1. 0 \in Pid /\ 0 \in VA
  BY Constants
<1>2. /\ Refs(pa) \in Nat
      /\ Refs(pa)' = Refs(pa) - Bit(Own(0, 0).pa = pa) + Bit(Own(0, 0)'.pa = pa)
                  - Bit(mv = pa) + Bit(mv' = pa) - Bit(held = pa) + Bit(held' = pa)
  BY <1>1, RefsMap
<1> QED
  BY <1>1, <1>2 DEF Bit

-----------------------------------------------------------------------------
(* The kinds of change. *)

\* kalloc's page becomes a page table.
LEMMA NewTable ==
    ASSUME TypeOK, TypeOK', Pages, NEW p \in Pid, NEW n \in Node, NEW pa \in PA, NEW c,
           KallocGets(pa), Claim(pa, c), tab[p][n] = NoPage,
           tab' = [tab EXCEPT ![p][n] = pa], UNCHANGED <<pt, mv, held>>
    PROVE  Pages'
<1>1. /\ pa \in Allocatable /\ refcount[pa] = 0
      /\ refcount' = [refcount EXCEPT ![pa] = 1] /\ refcount \in [PA -> Nat]
  BY Constants DEF KallocGets, Usable, Claim, TypeOK
<1>2. /\ \A q \in Pid, m \in Node : tab[q][m] # pa
      /\ \A q \in Pid, v \in VA : Own(q, v).pa # pa
      /\ mv # pa /\ held # pa
  BY <1>1, Unused
<1>3. /\ tab'[p][n] = pa
      /\ \A q \in Pid, m \in Node : q # p \/ m # n => tab'[q][m] = tab[q][m]
      /\ \A q \in Pid, v \in VA : Own(q, v)' = Own(q, v)
  BY DEF TypeOK, Own
<1>4. RefcountExact'
  <2> SUFFICES ASSUME NEW q \in Allocatable PROVE refcount'[q] = Refs(q)'
    BY DEF RefcountExact
  <2>1. Refs(q) \in Nat /\ Refs(q)' = Refs(q) + Bit(q = pa)
    BY <1>1, <1>2, <1>3, RefsAfter, Constants, PageFacts, SMTT(30) DEF Bit
  <2> QED
    BY <2>1, <1>1, PageFacts DEF Pages, RefcountExact, Bit
<1>5. Apart'
  BY <1>1, <1>2, <1>3, ApartIff DEF Apart
<1>6. Viewer'
  BY DEF Pages, Viewer
<1> QED
  BY <1>4, <1>5, <1>6, ApartIff, PTL

\* kalloc's page is the kernel's to map or to give back.
LEMMA NewHeld ==
    ASSUME TypeOK, TypeOK', Pages, NEW pa \in PA, NEW c, KallocGets(pa), Claim(pa, c),
           held = NoPage, held' = pa, UNCHANGED <<tab, pt, mv>>
    PROVE  Pages'
<1>1. /\ pa \in Allocatable /\ refcount[pa] = 0
      /\ refcount' = [refcount EXCEPT ![pa] = 1] /\ refcount \in [PA -> Nat]
  BY Constants DEF KallocGets, Usable, Claim, TypeOK
<1>2. /\ \A q \in Pid, m \in Node : tab[q][m] # pa
      /\ \A q \in Pid, v \in VA : Own(q, v).pa # pa
      /\ mv # pa /\ held # pa
  BY <1>1, Unused
<1>3. \A q \in Pid, v \in VA : Own(q, v)' = Own(q, v)
  BY DEF Own
<1>4. RefcountExact'
  <2> SUFFICES ASSUME NEW q \in Allocatable PROVE refcount'[q] = Refs(q)'
    BY DEF RefcountExact
  <2>1. Refs(q) \in Nat /\ Refs(q)' = Refs(q) + Bit(q = pa)
    BY <1>1, <1>2, <1>3, RefsKept, PageFacts DEF Bit
  <2> QED
    BY <2>1, <1>1, PageFacts DEF Pages, RefcountExact, Bit
<1>5. Apart'
  BY <1>1, <1>2, <1>3, ApartIff DEF Apart
<1>6. Viewer'
  BY <1>1, <1>2 DEF Pages, Viewer
<1> QED
  BY <1>4, <1>5, <1>6, ApartIff, PTL

\* kalloc's page goes to the memory viewer.
LEMMA NewViewer ==
    ASSUME TypeOK, TypeOK', Pages, NEW pa \in PA, NEW c, KallocGets(pa), Claim(pa, c),
           mv = NoPage, mv' = pa, UNCHANGED <<tab, pt, held>>
    PROVE  Pages'
<1>1. /\ pa \in Allocatable /\ refcount[pa] = 0
      /\ refcount' = [refcount EXCEPT ![pa] = 1] /\ refcount \in [PA -> Nat]
  BY Constants DEF KallocGets, Usable, Claim, TypeOK
<1>2. /\ \A q \in Pid, m \in Node : tab[q][m] # pa
      /\ \A q \in Pid, v \in VA : Own(q, v).pa # pa
      /\ mv # pa /\ held # pa
  BY <1>1, Unused
<1>3. \A q \in Pid, v \in VA : Own(q, v)' = Own(q, v)
  BY DEF Own
<1>4. RefcountExact'
  <2> SUFFICES ASSUME NEW q \in Allocatable PROVE refcount'[q] = Refs(q)'
    BY DEF RefcountExact
  <2>1. Refs(q) \in Nat /\ Refs(q)' = Refs(q) + Bit(q = pa)
    BY <1>1, <1>2, <1>3, RefsKept, PageFacts DEF Bit
  <2> QED
    BY <2>1, <1>1, PageFacts DEF Pages, RefcountExact, Bit
<1>5. Apart'
  BY <1>1, <1>2, <1>3, ApartIff DEF Apart
<1>6. Viewer'
  BY <1>1, <1>2 DEF Pages, Viewer
<1> QED
  BY <1>4, <1>5, <1>6, ApartIff, PTL

\* The page in hand is mapped where nothing was.
LEMMA MapHeld ==
    ASSUME TypeOK, TypeOK', Pages, NEW p \in Pid, NEW v \in VA, NEW e \in Entry,
           held \in Allocatable, e.pa = held, Counted(v, e), Own(p, v).pa = NoPage,
           pt' = [pt EXCEPT ![p][v] = e], held' = NoPage, UNCHANGED <<refcount, tab, mv>>
    PROVE  Pages'
<1>1. /\ Own(p, v)' = e
      /\ \A q \in Pid, w \in VA : q # p \/ w # v => Own(q, w)' = Own(q, w)
  BY DEF TypeOK, Own
<1>2. Apart /\ Viewer
  BY ApartIff DEF Pages
<1>3. RefcountExact'
  <2> SUFFICES ASSUME NEW q \in Allocatable PROVE refcount'[q] = Refs(q)'
    BY DEF RefcountExact
  <2>1. Refs(q) \in Nat /\ Refs(q)' = Refs(q)
    BY <1>1, RefsMap, PageFacts DEF Bit
  <2> QED
    BY <2>1, PageFacts DEF Pages, RefcountExact
<1>4. Apart'
  <2>1. \A q \in Pid, w \in VA : Own(q, w).pa # held
    BY <1>2, PageFacts DEF Apart
  <2>2. \A q \in Pid, n \in Node : tab[q][n] # held
    BY <1>2, PageFacts DEF Apart
  <2>3. mv # held
    BY <1>2, PageFacts DEF Viewer
  <2> QED
    BY <1>1, <1>2, <2>1, <2>2, <2>3, PageFacts DEF Apart
<1>5. Viewer'
  BY <1>2 DEF Viewer
<1> QED
  BY <1>3, <1>4, <1>5, ApartIff, PTL

\* Mappings that are not counted come and go.
LEMMA NotCounted ==
    ASSUME TypeOK, TypeOK', Pages, \A q \in Pid, w \in VA : Own(q, w)' = Own(q, w),
           UNCHANGED <<refcount, tab, mv, held>>
    PROVE  Pages'
<1>1. RefcountExact'
  <2> SUFFICES ASSUME NEW q \in Allocatable PROVE refcount'[q] = Refs(q)'
    BY DEF RefcountExact
  <2>1. Refs(q) \in Nat /\ Refs(q)' = Refs(q)
    BY RefsKept, PageFacts DEF Bit
  <2> QED
    BY <2>1 DEF Pages, RefcountExact
<1>2. Apart' /\ Viewer'
  BY ApartIff DEF Pages, Apart, Viewer
<1> QED
  BY <1>1, <1>2, ApartIff, PTL

\* What kfree does to a page that is in use.
LEMMA KfreeUsed ==
    ASSUME NEW rc \in [PA -> Nat], NEW pa \in Allocatable, rc[pa] > 0
    PROVE  /\ Kfree(rc, pa) \in [PA -> Nat]
           /\ \A q \in PA : Kfree(rc, pa)[q] = rc[q] - Bit(q = pa)
BY PageFacts DEF Kfree, Bit

\* The page in hand is given back.
LEMMA FreeHeld ==
    ASSUME TypeOK, TypeOK', Pages, held \in Allocatable,
           refcount' = Kfree(refcount, held), held' = NoPage, UNCHANGED <<tab, pt, mv>>
    PROVE  Pages'
<1>1. \A q \in Pid, w \in VA : Own(q, w)' = Own(q, w)
  BY DEF Own
<1>2. Apart /\ Viewer
  BY ApartIff DEF Pages
<1>3. \A q \in Allocatable : Refs(q) \in Nat /\ Refs(q)' = Refs(q) - Bit(q = held)
  BY <1>1, RefsKept, PageFacts DEF Bit
<1>4. refcount[held] > 0 /\ refcount \in [PA -> Nat]
  <2>1. Refs(held) > 0
    BY Finite DEF Refs, Bit
  <2> QED
    BY <2>1, <1>3 DEF Pages, RefcountExact, TypeOK
<1>5. RefcountExact'
  BY <1>3, <1>4, KfreeUsed, PageFacts DEF Pages, RefcountExact
<1>6. Apart' /\ Viewer'
  BY <1>1, <1>2, PageFacts DEF Apart, Viewer
<1> QED
  BY <1>5, <1>6, ApartIff, PTL
\* A process maps a page at one address only, so there are no more counted
\* mappings of it than processes.
FewMappings == \A pa \in PA : Cardinality(MapRefs(pa)) <= NPROC

\* Its mappings of the page tell processes apart.
LEMMA Bounded == TypeOK /\ SameAddress => FewMappings
<1> SUFFICES ASSUME TypeOK, SameAddress, NEW pa \in PA PROVE Cardinality(MapRefs(pa)) <= NPROC
  BY DEF FewMappings
<1> DEFINE f == [x \in MapRefs(pa) |-> x[1]]
<1>1. f \in Injection(MapRefs(pa), Pid)
  <2>1. f \in [MapRefs(pa) -> Pid]
    BY DEF MapRefs
  <2>2. ASSUME NEW x \in MapRefs(pa), NEW y \in MapRefs(pa), f[x] = f[y]
        PROVE  x = y
    <3>1. x \in Pid \X VA /\ y \in Pid \X VA /\ x[1] = y[1] /\ x[2] = y[2]
      BY <2>2 DEF MapRefs, SameAddress
    <3> QED
      BY <3>1
  <2> QED
    BY <2>1, <2>2 DEF Injection, IsInjective
<1>2. IsFiniteSet(Pid) /\ Cardinality(Pid) = NPROC
  <2>1. 0 \in Int /\ NPROC - 1 \in Int
    BY SizeAssumption
  <2> QED
    BY <2>1, FS_Interval, SizeAssumption DEF Pid
<1> HIDE DEF f
<1> QED
  BY <1>1, <1>2, FS_Injection

\* fork maps the parent's read-only page for the child and counts it; the
\* counter, which has room for every process, does not wrap.
LEMMA Share ==
    ASSUME TypeOK, TypeOK', Pages, NEW p \in Pid, NEW q \in Pid, NEW v \in VA,
           NEW pa \in PA, pt[p][v].pa = pa, p # q, Own(p, v).pa # NoPage, ~ Own(p, v).w, Own(q, v).pa = NoPage,
           pt' = [pt EXCEPT ![q][v] = pt[p][v]],
           refcount' = [refcount EXCEPT ![pa] = (@ + 1) % RefMod],
           UNCHANGED <<tab, mv, held>>
    PROVE  Pages'
<1>1. Own(p, v) = pt[p][v] /\ Counted(v, pt[p][v])
  BY DEF Own, NoEntry
<1>2. /\ Own(q, v)' = Own(p, v)
      /\ \A r \in Pid, w \in VA : r # q \/ w # v => Own(r, w)' = Own(r, w)
  BY <1>1 DEF TypeOK, Own
<1>3. Apart /\ Viewer
  BY ApartIff DEF Pages
<1>4. /\ pa \in Allocatable /\ pa \notin {mv, held}
      /\ \A r \in Pid, n \in Node : tab[r][n] # pa
  BY <1>1, <1>3 DEF Apart
<1>5. Apart' /\ Viewer'
  BY <1>1, <1>2, <1>3 DEF Apart, Viewer
<1>6. \A r \in Allocatable : Refs(r) \in Nat /\ Refs(r)' = Refs(r) + Bit(r = pa)
  BY <1>1, <1>2, <1>4, RefsMap, PageFacts DEF Bit
<1>7. Refs(pa)' <= NPROC
  <2>1. SameAddress'
    <3>1. \A r \in Pid, w \in VA : Counted(w, pt'[r][w]) => Own(r, w)' = pt'[r][w] /\ Own(r, w)'.pa # NoPage
      BY DEF Own, Counted, User
    <3>2. \A r, x \in Pid, u, w \in VA :
            Own(r, u)'.pa # NoPage /\ Own(r, u)'.pa = Own(x, w)'.pa => u = w
      BY <1>5 DEF Apart
    <3> QED
      BY <3>1, <3>2 DEF SameAddress
  <2>2. Cardinality(MapRefs(pa)') <= NPROC
    <3>1. FewMappings'
      BY <2>1, Bounded, PTL
    <3> QED
      BY <3>1 DEF FewMappings
  <2>3. TabRefs(pa)' = {}
    BY <1>4 DEF TabRefs
  <2> QED
    <3>1. Cardinality(TabRefs(pa)') = 0 /\ Cardinality(MapRefs(pa)') \in Nat
      BY <2>3, FS_EmptySet, Finite, FS_CardinalityType
    <3> QED
      BY <3>1, <2>2, <1>4, SizeAssumption DEF Refs, Bit
<1>8. RefcountExact'
  <2>1. refcount \in [PA -> Nat] /\ \A r \in Allocatable : refcount[r] = Refs(r)
    BY DEF Pages, RefcountExact, TypeOK
  <2>2. refcount[pa] + 1 <= NPROC /\ refcount[pa] \in Nat
    BY <1>4, <1>6, <1>7, <2>1 DEF Bit
  <2>3. (refcount[pa] + 1) % RefMod = refcount[pa] + 1
    BY <2>2, SizeAssumption
  <2> QED
    BY <1>4, <1>6, <2>1, <2>3, PageFacts DEF RefcountExact, Bit
<1> QED
  BY <1>5, <1>8, ApartIff, PTL
\* pfree unmaps a counted page.
LEMMA FreeMap ==
    ASSUME TypeOK, TypeOK', Pages, NEW p \in Pid, NEW v \in VA, Own(p, v).pa # NoPage,
           pt' = [pt EXCEPT ![p][v] = NoEntry],
           refcount' = Kfree(refcount, pt[p][v].pa), UNCHANGED <<tab, mv, held>>
    PROVE  Pages'
<1>1. Apart /\ Viewer
  BY ApartIff DEF Pages
<1>2. /\ Own(p, v) = pt[p][v] /\ Own(p, v).pa \in Allocatable
      /\ <<p, v>> \in MapRefs(pt[p][v].pa)
  BY <1>1 DEF Own, NoEntry, Apart, MapRefs
<1>3. /\ Own(p, v)'.pa = NoPage
      /\ \A q \in Pid, w \in VA : q # p \/ w # v => Own(q, w)' = Own(q, w)
  BY DEF TypeOK, Own, NoEntry
<1>4. PICK pa \in Allocatable : pa = pt[p][v].pa
  BY <1>2
<1>5. \A q \in Allocatable : Refs(q) \in Nat /\ Refs(q)' = Refs(q) - Bit(q = pa)
  BY <1>2, <1>3, <1>4, RefsMap, PageFacts DEF Bit
<1>6. refcount[pa] > 0 /\ refcount \in [PA -> Nat]
  <2>1. Cardinality(MapRefs(pa)) # 0
    BY <1>2, <1>4, Finite, FS_EmptySet
  <2>2. Refs(pa) > 0
    BY <2>1, Finite DEF Refs, Bit
  <2> QED
    BY <2>2, <1>5 DEF Pages, RefcountExact, TypeOK
<1>7. RefcountExact'
  BY <1>4, <1>5, <1>6, KfreeUsed, PageFacts DEF Pages, RefcountExact
<1>8. Apart' /\ Viewer'
  BY <1>1, <1>3 DEF Apart, Viewer
<1> QED
  BY <1>7, <1>8, ApartIff, PTL

\* pfree gives back a page table's page and, when a fork is undone, the kernel
\* the page in hand as well.
LEMMA FreeTable ==
    ASSUME TypeOK, TypeOK', Pages, held \in Allocatable \cup {NoPage},
           NEW p \in Pid, NEW n \in Node, tab[p][n] # NoPage, tab'[p][n] = NoPage,
           \A q \in Pid, m \in Node : q # p \/ m # n => tab'[q][m] = tab[q][m],
           \A q \in Pid, w \in VA : Own(q, w)' = Own(q, w), UNCHANGED mv,
           \/ UNCHANGED held /\ refcount' = Kfree(refcount, tab[p][n])
           \/ /\ held # NoPage /\ held' = NoPage
              /\ refcount' = Kfree(Kfree(refcount, tab[p][n]), held)
    PROVE  Pages'
<1>1. Apart /\ Viewer
  BY ApartIff DEF Pages
<1>2. PICK pa \in Allocatable : pa = tab[p][n]
  BY <1>1 DEF Apart
<1>3. \A q \in Allocatable :
        /\ Refs(q) \in Nat
        /\ Refs(q)' = Refs(q) - Bit(q = pa) - Bit(held = q) + Bit(held' = q)
  <2>1. 0 \in Pid /\ 0 \in VA /\ Own(0, 0)' = Own(0, 0)
    BY Constants
  <2>2. ASSUME NEW q \in Allocatable
        PROVE  /\ Refs(q) \in Nat
               /\ Refs(q)' = Refs(q) - Bit(tab[p][n] = q) + Bit(tab'[p][n] = q)
                    - Bit(Own(0, 0).pa = q) + Bit(Own(0, 0)'.pa = q)
                    - Bit(mv = q) + Bit(mv' = q) - Bit(held = q) + Bit(held' = q)
    BY <2>1, PageFacts, RefsAfter
  <2> QED
    BY <1>2, <2>1, <2>2, PageFacts DEF Bit
<1>4. refcount[pa] > 0 /\ refcount \in [PA -> Nat] /\ \A q \in Allocatable : refcount[q] = Refs(q)
  <2>1. <<p, n>> \in TabRefs(pa)
    BY <1>2 DEF TabRefs
  <2>2. Cardinality(TabRefs(pa)) # 0
    BY <2>1, Finite, FS_EmptySet
  <2>3. Refs(pa) > 0
    BY <2>2, Finite DEF Refs, Bit
  <2> QED
    BY <2>3, <1>3 DEF Pages, RefcountExact, TypeOK
<1>5. RefcountExact'
  <2> DEFINE rc == Kfree(refcount, pa)
  <2>1. rc \in [PA -> Nat] /\ \A q \in PA : rc[q] = refcount[q] - Bit(q = pa)
    BY <1>4, KfreeUsed
  <2>2. CASE UNCHANGED held
    <3>1. refcount' = rc
      BY <1>2, <2>2
    <3> HIDE DEF rc
    <3> QED
      BY <3>1, <2>1, <2>2, <1>3, <1>4, PageFacts DEF RefcountExact, Bit
  <2>3. CASE held # NoPage /\ held' = NoPage
    <3>1. held \in Allocatable /\ held # pa /\ refcount[held] > 0
      <4>1. held \in Allocatable /\ held # pa
        BY <1>1, <1>2, <2>3 DEF Apart
      <4>2. Refs(held) > 0
        BY <1>3, <4>1, Finite DEF Refs, Bit
      <4> QED
        BY <4>1, <4>2, <1>4
    <3>2. refcount' = Kfree(rc, held)
      BY <1>2, <2>3
    <3> HIDE DEF rc
    <3>3. rc[held] > 0
      BY <2>1, <3>1, <1>4, PageFacts DEF Bit
    <3>4. \A q \in PA : refcount'[q] = rc[q] - Bit(q = held)
      BY <3>1, <3>2, <3>3, <2>1, KfreeUsed
    <3> QED
      BY <3>1, <3>4, <2>1, <2>3, <1>3, <1>4, PageFacts DEF RefcountExact, Bit
  <2> QED
    BY <2>2, <2>3
<1>6. Apart' /\ Viewer'
  BY <1>1, PageFacts DEF Apart, Viewer
<1> QED
  BY <1>5, <1>6, ApartIff, PTL

\* Nobody has a page.
Unowned == /\ refcount = [pa \in PA |-> 0] /\ mv = NoPage /\ held = NoPage
           /\ tab = [p \in Pid |-> NoTable] /\ pt = [p \in Pid |-> NoMap]

\* That is what the kernel starts with.
LEMMA NoPages == TypeOK /\ Unowned => Pages
<1> SUFFICES ASSUME TypeOK, Unowned PROVE Pages
  OBVIOUS
<1> USE DEF Unowned
<1>1. \A p \in Pid, v \in VA : Own(p, v).pa = NoPage
  BY DEF Own, NoMap, NoEntry
<1>2. \A p \in Pid, n \in Node : tab[p][n] = NoPage
  BY DEF NoTable
<1>3. Apart /\ Viewer
  BY <1>1, <1>2 DEF Apart, Viewer
<1>4. RefcountExact
  <2> SUFFICES ASSUME NEW pa \in Allocatable PROVE refcount[pa] = Refs(pa)
    BY DEF RefcountExact
  <2>1. TabRefs(pa) = {}
    BY <1>2, PageFacts DEF TabRefs
  <2>2. MapRefs(pa) = {}
    BY PageFacts DEF MapRefs, NoMap, NoEntry, Counted, User
  <2> QED
    BY <2>1, <2>2, FS_EmptySet, PageFacts DEF Refs, Bit
<1> QED
  BY <1>3, <1>4, ApartIff
-----------------------------------------------------------------------------
(* The steps. *)

\* The places that matter to Rooted: a root is there before the table is built
\* on, stays while it is, and is the last to go.
LEMMA RootedNext ==
    ASSUME TypeOK, Control, KernelThere, Rooted, [Next]_vars
    PROVE  Rooted'
<1> USE Constants, Constants2
    DEF TypeOK, Rooted, Building, Freeing, memory, tables, procs, locals
<1>1. CASE SetupRoot \/ ForkRoot
  BY <1>1 DEF SetupRoot, ForkRoot
<1>2. CASE SetupPage \/ SetupNull \/ SetupMap \/ SetupSkip \/ SetupCopy \/ SetupDone
  BY <1>2 DEF SetupPage, SetupNull, SetupMap, SetupSkip, SetupCopy, SetupDone
<1>3. CASE SetupTable \/ ForkTable \/ PageAllocTable
  BY <1>3 DEF SetupTable, ForkTable, PageAllocTable, MapTable, Missing
<1>4. CASE Getpid \/ Yield \/ TimerTick \/ PageFault \/ Panic
  BY <1>4 DEF Getpid, Yield, TimerTick, PageFault, Panic, Return, Schedule
<1>5. CASE PageAllocBad \/ PageAlloc \/ PageAllocFails \/ PageAllocMap
  BY <1>5 DEF PageAllocBad, PageAlloc, PageAllocFails, PageAllocMap, Return
<1>6. CASE Fork \/ ForkNoSlot \/ ForkNoRoot \/ ForkCopy \/ ForkMap \/ ForkSkip
  BY <1>6 DEF Fork, ForkNoSlot, ForkNoRoot, ForkCopy, ForkMap, ForkSkip, Return
<1>7. CASE ForkFails \/ ForkDone \/ ForkUndone
  BY <1>7 DEF ForkFails, ForkMapping, ForkUndo, ForkDone, ForkUndone, Return
<1>8. CASE Exit
  <2>1. Complete(current)
    BY <1>8 DEF Exit, Control, Who, InCall, Ops, Complete
  <2>2. tab[current][0] # NoPage
    BY <2>1 DEF KernelThere, Linked, Path
  <2> QED
    BY <1>8, <2>2 DEF Exit
<1>9. CASE PfreeVa \/ PfreeVaDone \/ PfreeTable
  BY <1>9 DEF PfreeVa, PfreeVaDone, PfreeTable
<1>10. CASE ExitDone \/ SchedTry
  BY <1>10 DEF ExitDone, SchedTry, Schedule
<1>11. CASE UserStep \/ Timer
  BY <1>11 DEF UserStep, UserWrite, Timer, Enter
<1>12. CASE Reboot \/ Poweroff \/ Stopped \/ UNCHANGED vars
  BY <1>12 DEF Reboot, Reset, Poweroff, Stopped, vars
<1> QED
  BY <1>1, <1>2, <1>3, <1>4, <1>5, <1>6, <1>7, <1>8, <1>9, <1>10, <1>11, <1>12
     DEF Next, KernelStep, Boot, PageAllocStep, ForkStep, ExitStep

\* A program that page_allocs fresh addresses only: until page_alloc maps the
\* page, nothing else can map one there.
LEMMA UnmappedNext ==
    ASSUME ~ Remap, TypeOK, Unmapped, [Next]_vars
    PROVE  Unmapped'
<1> USE Constants, Constants2
    DEF TypeOK, Unmapped, memory, tables, procs, locals
<1>1. CASE SetupRoot \/ ForkRoot
  BY <1>1 DEF SetupRoot, ForkRoot
<1>2. CASE SetupPage \/ SetupNull \/ SetupMap \/ SetupSkip \/ SetupCopy \/ SetupDone
  BY <1>2 DEF SetupPage, SetupPageDue, SetupNull, SetupMap, SetupMapping, SetupSkip,
              SetupCopy, SetupDone
<1>3. CASE SetupTable \/ ForkTable \/ PageAllocTable
  BY <1>3 DEF SetupTable, ForkTable, PageAllocTable
<1>4. CASE Getpid \/ Yield \/ TimerTick \/ PageFault \/ Panic
  BY <1>4 DEF Getpid, Yield, TimerTick, PageFault, Panic, Return, Schedule
<1>5. CASE PageAllocBad \/ PageAlloc \/ PageAllocFails \/ PageAllocMap
  BY <1>5 DEF PageAllocBad, PageAlloc, PageAllocFails, PageAllocMap, Return
<1>6. CASE Fork \/ ForkNoSlot \/ ForkNoRoot \/ ForkCopy \/ ForkMap \/ ForkSkip
  BY <1>6 DEF Fork, ForkNoSlot, ForkNoRoot, ForkCopy, ForkMap, ForkMapping, ForkSkip, Return
<1>7. CASE ForkFails \/ ForkDone \/ ForkUndone
  BY <1>7 DEF ForkFails, ForkUndo, ForkDone, ForkUndone, Return
<1>8. CASE Exit \/ PfreeVa \/ PfreeVaDone \/ PfreeTable
  BY <1>8 DEF Exit, PfreeVa, PfreeVaDone, PfreeTable
<1>9. CASE ExitDone \/ SchedTry
  BY <1>9 DEF ExitDone, SchedTry, Schedule
<1>10. CASE UserStep
  BY <1>10 DEF UserStep, UserWrite, Enter, Argument
<1>11. CASE Timer
  BY <1>11 DEF Timer, Enter
<1>12. CASE Reboot \/ Poweroff \/ Stopped \/ UNCHANGED vars
  BY <1>12 DEF Reboot, Reset, Poweroff, Stopped, vars
<1> QED
  BY <1>1, <1>2, <1>3, <1>4, <1>5, <1>6, <1>7, <1>8, <1>9, <1>10, <1>11, <1>12
     DEF Next, KernelStep, Boot, PageAllocStep, ForkStep, ExitStep
\* try_map's new table.
LEMMA MapTablePages ==
    ASSUME TypeOK, TypeOK', Pages, NEW p \in Pid, NEW v \in VA, MapTable(p, v),
           UNCHANGED <<pt, mv, held>>
    PROVE  Pages'
<1>1. L1(v) \in Node /\ Path(v) \subseteq Node
  <2>1. v \div L1Span \in 0 .. NL1 - 1
    BY SizeAssumption DEF VA, NL1
  <2> QED
    BY <2>1, SizeAssumption DEF L1, Path, Node, NL1
<1>2. PICK n \in Missing(p, v), pa \in PA :
        KallocGets(pa) /\ Claim(pa, ZERO) /\ tab' = [tab EXCEPT ![p][n] = pa]
  BY DEF MapTable
<1>3. n \in Node /\ tab[p][n] = NoPage
  BY <1>1, <1>2 DEF Missing
<1> QED
  BY <1>2, <1>3, NewTable

\* The counted entries that a step which writes one entry leaves alone.
LEMMA OwnWritten ==
    ASSUME TypeOK, NEW p \in Pid, NEW v \in VA, NEW e, pt' = [pt EXCEPT ![p][v] = e]
    PROVE  /\ \A q \in Pid, w \in VA : q # p \/ w # v => Own(q, w)' = Own(q, w)
           /\ Own(p, v)' = IF Counted(v, e) THEN e ELSE NoEntry
BY DEF TypeOK, Own

\* The kernel's own mappings and absent ones are not counted.
LEMMA LowOwn ==
    ASSUME TypeOK, Control
    PROVE  /\ \A p \in Pid, v \in VA : v < PROC_START => Own(p, v) = NoEntry
           /\ \A v \in VA : v < PROC_START => ~ Counted(v, KernelEntry(v))
           /\ \A v : ~ Counted(v, NoEntry)
<1>1. /\ \A v \in VA : v < PROC_START => ~ Counted(v, KernelEntry(v))
      /\ \A v : ~ Counted(v, NoEntry)
  BY SizeAssumption, MemoryAssumption DEF Counted, User, KernelEntry, NoEntry
<1> QED
  BY <1>1 DEF Control, LowMappings, Own

\* process_setup maps the kernel's memory, or the page in hand.
LEMMA SetupMapPages ==
    ASSUME TypeOK, TypeOK', Control, Pages, SetupMap
    PROVE  Pages'
<1>1. /\ va \in VA /\ pid \in Pid /\ pt' = [pt EXCEPT ![pid][va] = SetupEntry(va)]
      /\ held' = NoPage /\ UNCHANGED <<refcount, tab, mv>> /\ pc \in Building
      /\ va < PROC_START \/ held # NoPage
  BY Constants DEF SetupMap, SetupMapping, MapEntry, TypeOK, memory, Building
<1>2. Own(pid, va) = NoEntry
  BY <1>1, Constants DEF Control, Progress, Own, Counted, User, NoEntry, VA
<1>3. CASE va < PROC_START
  <2>1. held = NoPage
    BY <1>1, <1>3, SizeAssumption, ProgramAssumption DEF Control, InHand, Building, Freeing, Dead, Stack, SetupMap, SetupMapping
  <2>2. ~ Counted(va, SetupEntry(va))
    BY <1>1, <1>3, LowOwn DEF SetupEntry
  <2> QED
    BY <1>1, <1>2, <2>1, <2>2, OwnWritten, NotCounted
<1>4. CASE ~ (va < PROC_START)
  <2>1. held \in Allocatable
    BY <1>1, <1>4 DEF Control, HighMappings
  <2>2. /\ SetupEntry(va) \in Entry /\ SetupEntry(va).pa = held
        /\ Counted(va, SetupEntry(va))
    <3>1. SetupEntry(va) = [pa |-> held, w |-> va \notin Text, u |-> TRUE]
      BY <1>4 DEF SetupEntry
    <3>2. va # CONSOLE /\ held \in PA /\ held # NoPage
      BY <1>4, <2>1, PageFacts, SizeAssumption, MemoryAssumption
    <3> QED
      BY <3>1, <3>2 DEF Entry, Counted, User
  <2> QED
    BY <1>1, <1>2, <2>1, <2>2, PageFacts, MapHeld
<1> QED
  BY <1>3, <1>4

\* fork maps the copy in hand, shares a read-only page, or copies a mapping
\* of the kernel.
LEMMA ForkMapPages ==
    ASSUME TypeOK, TypeOK', Control, Pages, ForkMap
    PROVE  Pages'
<1>1. /\ va \in VA /\ pid \in Pid /\ current \in Pid /\ pc = "fork_va"
      /\ pt' = [pt EXCEPT ![pid][va] = ForkEntry] /\ refcount' = ForkCount
      /\ held' = NoPage /\ UNCHANGED <<tab, mv>>
      /\ Parent.pa # NoPage /\ (Private(va, Parent) => held # NoPage)
  BY Constants DEF ForkMap, ForkMapping, MapEntry, TypeOK
<1>2. Own(pid, va) = NoEntry /\ pid # current
  BY <1>1, Constants
     DEF Control, Progress, Who, InCall, Building, Own, Counted, User, NoEntry, VA
<1>3. ~ Private(va, Parent) => held = NoPage
  BY <1>1 DEF Control, InHand, Freeing, Dead
<1>4. /\ va < PROC_START /\ va # CONSOLE => ~ User(Parent)
      /\ va = CONSOLE => Writable(Parent)
  BY <1>1, SizeAssumption, MemoryAssumption
     DEF Control, LowMappings, Parent, User, Writable, KernelEntry, NoEntry, VA
<1>5. CASE Private(va, Parent)
  <2>1. held \in Allocatable /\ refcount' = refcount
    BY <1>1, <1>5 DEF Control, HighMappings, ForkCount, Private
  <2>2. Parent \in Entry
    BY <1>1 DEF TypeOK, Parent
  <2>3. ForkEntry \in Entry /\ ForkEntry.pa = held /\ Counted(va, ForkEntry)
    BY <1>1, <1>5, <2>1, <2>2, PageFacts, Constants2 DEF ForkEntry, Private, Counted, User
  <2> QED
    BY <1>1, <1>2, <2>1, <2>3, PageFacts, MapHeld
<1>6. CASE User(Parent) /\ ~ Writable(Parent)
  <2>1. ~ Private(va, Parent) /\ va # CONSOLE
    BY <1>4, <1>6 DEF Private
  <2>2. /\ held = NoPage /\ pt' = [pt EXCEPT ![pid][va] = pt[current][va]]
        /\ refcount' = [refcount EXCEPT ![Parent.pa] = (@ + 1) % RefMod]
    BY <1>1, <1>3, <1>6, <2>1 DEF ForkEntry, ForkCount, Parent
  <2>3. /\ Own(current, va) = Parent /\ ~ Parent.w /\ Parent = pt[current][va]
    BY <1>6, <2>1 DEF Own, Counted, Parent, User, Writable
  <2>4. PICK pa \in PA : pa = Parent.pa
    <3>1. Parent \in Entry
      BY <1>1 DEF TypeOK, Parent
    <3> QED
      BY <1>1, <3>1, Constants2
  <2>5. /\ pt[current][va].pa = pa /\ Own(current, va).pa # NoPage /\ ~ Own(current, va).w
        /\ Own(pid, va).pa = NoPage /\ UNCHANGED <<tab, mv, held>>
        /\ refcount' = [refcount EXCEPT ![pa] = (@ + 1) % RefMod]
    BY <1>1, <1>2, <2>2, <2>3, <2>4, PageFacts
  <2> QED
    BY <1>1, <1>2, <2>2, <2>5, Share
<1>7. CASE ~ Private(va, Parent) /\ ~ (User(Parent) /\ ~ Writable(Parent))
  <2>1. held = NoPage /\ refcount' = refcount /\ ForkEntry = Parent
    BY <1>1, <1>3, <1>7 DEF ForkEntry, ForkCount
  <2>2. ~ Counted(va, Parent)
    BY <1>7 DEF Counted, Private
  <2> QED
    BY <1>1, <1>2, <2>1, <2>2, OwnWritten, NotCounted, ZenonT(60)
<1> QED
  BY <1>5, <1>6, <1>7
\* pfree's loop gives back the counted pages and no other.
LEMMA PfreeVaPages ==
    ASSUME TypeOK, TypeOK', Control, Pages, PfreeVa
    PROVE  Pages'
<1>1. va \in VA /\ pid \in Pid /\ UNCHANGED <<tab, mv, held>>
  BY Constants DEF PfreeVa, TypeOK
<1>2. Freed(pt[pid][va]) <=> Counted(va, pt[pid][va])
  BY <1>1, SizeAssumption, MemoryAssumption, PageFacts
     DEF Freed, Counted, User, Control, LowMappings, HighMappings, KernelEntry, NoEntry, VA
<1>3. CASE Freed(pt[pid][va])
  BY <1>1, <1>2, <1>3, FreeMap DEF PfreeVa, Own, Counted, User
<1>4. CASE ~ Freed(pt[pid][va])
  <2>1. UNCHANGED <<refcount, pt>>
    BY <1>4 DEF PfreeVa
  <2> QED
    BY <2>1, <1>1, NotCounted DEF Own
<1> QED
  BY <1>3, <1>4

\* The last step of exit and of a failed fork gives back the root (and the page
\* in hand); the mappings that go with it are not counted.
LEMMA PfreeRootPages ==
    ASSUME TypeOK, TypeOK', Control, Pages, Rooted, ExitDone \/ ForkUndone
    PROVE  Pages'
<1>1. /\ pid \in Pid /\ pc = "pfree_pt" /\ OnlyRoot /\ tab[pid][0] # NoPage
      /\ tab' = [tab EXCEPT ![pid] = NoTable] /\ pt' = [pt EXCEPT ![pid] = NoMap]
      /\ UNCHANGED mv
  BY DEF ExitDone, ForkUndone, Return, TypeOK, Rooted, Freeing, Schedule
<1>2. /\ \/ UNCHANGED held /\ refcount' = PfreeRoot
         \/ held # NoPage /\ held' = NoPage /\ refcount' = Kfree(PfreeRoot, held)
      /\ held \in Allocatable \cup {NoPage}
  BY DEF ExitDone, ForkUndone, Control, HighMappings
<1>3. /\ tab'[pid][0] = NoPage /\ 0 \in Node
      /\ \A q \in Pid, m \in Node : q # pid \/ m # 0 => tab'[q][m] = tab[q][m]
  BY <1>1, Constants DEF TypeOK, OnlyRoot, NoTable
<1>4. \A q \in Pid, w \in VA : Own(q, w)' = Own(q, w)
  <2>1. \A w \in VA : Own(pid, w) = NoEntry
    <3>1. \A w \in VA : w >= PROC_START => ~ User(pt[pid][w])
      BY <1>1, SizeAssumption DEF Control, Progress, Freeing, VA
    <3>2. \A w \in VA : w < PROC_START => Own(pid, w) = NoEntry
      BY <1>1, LowOwn
    <3> QED
      BY <3>1, <3>2, SizeAssumption DEF VA, Own, Counted
  <2>2. \A q \in Pid, w \in VA : pt'[q][w] = IF q = pid THEN NoEntry ELSE pt[q][w]
    BY <1>1 DEF TypeOK, NoMap
  <2>3. \A w \in VA : ~ Counted(w, NoEntry)
    BY LowOwn
  <2> QED
    BY <2>1, <2>2, <2>3 DEF Own
<1> QED
  BY <1>1, <1>2, <1>3, <1>4, FreeTable DEF PfreeRoot
(***************************************************************************)
(* Every step keeps the accounting.  A page comes from kalloc with no      *)
(* reference and gets one; it changes hands when the kernel maps the page  *)
(* it holds; fork counts the one mapping it adds to a shared page; kfree   *)
(* takes away the reference its caller drops in the same step.             *)
(***************************************************************************)
LEMMA PagesNext ==
    ASSUME TypeOK, Control, Accounting, [Next]_vars
    PROVE  Pages'
<1>1. TypeOK' /\ Pages /\ Rooted /\ Unmapped
  BY TypeNext DEF Accounting
<1> USE DEF memory, tables, procs, locals
<1>2. CASE UNCHANGED <<refcount, tab, pt, mv, held>>
  BY <1>1, <1>2, NotCounted DEF Own
<1>3. CASE SetupNull \/ SetupSkip \/ SetupCopy \/ SetupDone
  <2>1. UNCHANGED <<refcount, tab, pt, mv, held>>
    BY <1>3 DEF SetupNull, SetupSkip, SetupCopy, SetupDone
  <2> QED BY <1>2, <2>1
<1>4. CASE Getpid \/ Yield \/ TimerTick \/ PageFault \/ Panic \/ PageAllocBad \/ SchedTry
  <2>1. UNCHANGED <<refcount, tab, pt, mv, held>>
    BY <1>4 DEF Getpid, Yield, TimerTick, PageFault, Panic, PageAllocBad, SchedTry, Return
  <2> QED BY <1>2, <2>1
<1>5. CASE Fork \/ ForkNoSlot \/ ForkNoRoot \/ ForkSkip \/ ForkFails \/ ForkDone
  <2>1. UNCHANGED <<refcount, tab, pt, mv, held>>
    BY <1>5 DEF Fork, ForkNoSlot, ForkNoRoot, ForkSkip, ForkFails, ForkUndo, ForkDone, Return
  <2> QED BY <1>2, <2>1
<1>6. CASE Exit \/ PfreeVaDone \/ Poweroff \/ Stopped \/ UNCHANGED vars
  <2>1. UNCHANGED <<refcount, tab, pt, mv, held>>
    BY <1>6 DEF Exit, PfreeVaDone, Poweroff, Stopped, vars
  <2> QED BY <1>2, <2>1
<1>7. CASE SetupRoot \/ ForkRoot
  <2>1. PICK pa \in PA : /\ KallocGets(pa) /\ Claim(pa, ZERO)
                         /\ tab' = [tab EXCEPT ![pid][0] = pa]
    BY <1>7 DEF SetupRoot, ForkRoot
  <2>2. UNCHANGED <<pt, mv, held>> /\ pid \in Pid /\ 0 \in Node
    BY <1>7, Constants DEF SetupRoot, ForkRoot, TypeOK
  <2>3. ~ Owns(pid) /\ pc \notin Dead
    BY <1>7 DEF SetupRoot, ForkRoot, Control, Who, Owns, Dead, Building, Freeing, TypeOK, Pid
  <2>4. tab[pid][0] = NoPage
    BY <2>2, <2>3 DEF Control, Slots, NoTable
  <2> QED
    BY <1>1, <2>1, <2>2, <2>4, NewTable
<1>8. CASE SetupTable \/ ForkTable \/ PageAllocTable
  <2>1. \E p \in Pid : MapTable(p, va) /\ va \in VA /\ UNCHANGED <<pt, mv, held>>
    BY <1>8, Constants DEF SetupTable, SetupMapping, ForkTable, ForkMapping, PageAllocTable,
                Control, Target, TypeOK
  <2> QED
    BY <1>1, <2>1, MapTablePages
<1>9. CASE SetupPage \/ PageAlloc \/ ForkCopy
  <2>1. held = NoPage /\ UNCHANGED <<tab, pt, mv>>
    BY <1>9 DEF SetupPage, SetupPageDue, PageAlloc, ForkCopy, Control, InHand, Freeing, Dead
  <2>2. \E pa \in PA : /\ KallocGets(pa) /\ held' = pa
                       /\ Claim(pa, CC) \/ Claim(pa, Cleared) \/ Claim(pa, Copied)
    BY <1>9 DEF SetupPage, PageAlloc, ForkCopy
  <2> QED
    BY <1>1, <2>1, <2>2, NewHeld
<1>10. CASE SetupMap
  BY <1>1, <1>10, SetupMapPages
<1>11. CASE PageAllocMap
  <2>1. /\ current \in Pid /\ va \in PROC_START .. NVA - 1 /\ va \in VA
        /\ pc = "pa_map" /\ held \in Allocatable /\ held' = NoPage
        /\ pt' = [pt EXCEPT ![current][va] = [pa |-> held, w |-> TRUE, u |-> TRUE]]
        /\ UNCHANGED <<refcount, tab, mv>>
    BY <1>11, SizeAssumption
       DEF PageAllocMap, MapEntry, Return, TypeOK, Control, Target, HighMappings, VA
  <2>2. Own(current, va).pa = NoPage
    BY <1>1, <2>1 DEF Unmapped, Own, Counted, User, NoEntry
  <2>3. LET e == [pa |-> held, w |-> TRUE, u |-> TRUE]
        IN  e \in Entry /\ e.pa = held /\ Counted(va, e)
    BY <2>1, PageFacts, SizeAssumption, MemoryAssumption DEF Entry, Counted, User
  <2> QED
    BY <1>1, <2>1, <2>2, <2>3, MapHeld
<1>12. CASE PageAllocFails
  <2>1. /\ held \in Allocatable /\ held' = NoPage /\ refcount' = Kfree(refcount, held)
        /\ UNCHANGED <<tab, pt, mv>>
    BY <1>12 DEF PageAllocFails, GivenBack, Return, Control, Target, HighMappings
  <2> QED
    BY <1>1, <2>1, FreeHeld
<1>13. CASE ForkMap
  BY <1>1, <1>13, ForkMapPages
<1>14. CASE PfreeVa
  BY <1>1, <1>14, PfreeVaPages
<1>15. CASE PfreeTable
  <2>1. PICK n \in Node : /\ tab[pid][n] # NoPage
                          /\ refcount' = Kfree(refcount, tab[pid][n])
                          /\ tab' = [tab EXCEPT ![pid][n] = NoPage]
    BY <1>15 DEF PfreeTable
  <2>2. UNCHANGED <<pt, mv, held>> /\ pid \in Pid /\ held \in Allocatable \cup {NoPage}
    BY <1>15 DEF PfreeTable, TypeOK, Control, HighMappings
  <2>3. /\ tab'[pid][n] = NoPage
        /\ \A q \in Pid, m \in Node : q # pid \/ m # n => tab'[q][m] = tab[q][m]
        /\ \A q \in Pid, w \in VA : Own(q, w)' = Own(q, w)
    BY <2>1, <2>2 DEF TypeOK, Own
  <2> QED
    BY <1>1, <2>1, <2>2, <2>3, FreeTable
<1>16. CASE ExitDone \/ ForkUndone
  BY <1>1, <1>16, PfreeRootPages
<1>17. CASE UserStep \/ Timer
  <2>1. CASE UNCHANGED <<refcount, mv>>
    BY <1>2, <1>17, <2>1 DEF UserStep, UserWrite, Timer, Enter
  <2>2. CASE \E pa \in PA : /\ mv = NoPage /\ KallocGets(pa) /\ Claim(pa, ZERO) /\ mv' = pa
                            /\ UNCHANGED <<tab, pt, held>>
    BY <1>1, <2>2, NewViewer
  <2> QED
    BY <1>17, <2>1, <2>2 DEF UserStep, UserWrite, Timer, Enter
<1>18. CASE Reboot
  <2>1. Unowned'
    BY <1>18 DEF Reboot, Reset, Zeroed, Unowned
  <2> QED
    BY <1>1, <2>1, NoPages, PTL
<1> QED
  BY <1>3, <1>4, <1>5, <1>6, <1>7, <1>8, <1>9, <1>10, <1>11, <1>12, <1>13, <1>14, <1>15,
     <1>16, <1>17, <1>18
     DEF Next, KernelStep, Boot, PageAllocStep, ForkStep, ExitStep

\* The accounting starts from nothing.
LEMMA AccountingInit == Init => Accounting
<1> SUFFICES ASSUME Init PROVE Accounting
  OBVIOUS
<1>1. Pages
  BY TypeInit, NoPages DEF Init, Unowned
<1>2. Rooted /\ Unmapped
  BY DEF Init, Rooted, Unmapped, Building, Freeing
<1> QED
  BY <1>1, <1>2 DEF Accounting

\* All parts of the invariant together.
LEMMA AccountingAlways == ASSUME ~ Remap PROVE Spec => []Accounting
<1>1. Init => TypeOK /\ Control /\ KernelThere /\ Accounting
  BY TypeInit, ControlInit, ThereInit, AccountingInit
<1>2. TypeOK /\ Control /\ KernelThere /\ Accounting /\ [Next]_vars
        => (TypeOK /\ Control /\ KernelThere /\ Accounting)'
  <2> SUFFICES ASSUME TypeOK, Control, KernelThere, Accounting, [Next]_vars
               PROVE  (TypeOK /\ Control /\ KernelThere /\ Accounting)'
    OBVIOUS
  <2>1. TypeOK' /\ Control' /\ KernelThere'
    BY TypeNext, ControlNext, ThereNext
  <2>2. Pages' /\ Rooted' /\ Unmapped'
    BY PagesNext, RootedNext, UnmappedNext DEF Accounting
  <2> QED
    BY <2>1, <2>2 DEF Accounting
<1> QED
  BY <1>1, <1>2, PTL DEF Spec

-----------------------------------------------------------------------------
(***************************************************************************)
(* The page counters are exact in every reachable state, in the middle of  *)
(* every handler as well: refcount of a page is the number of page tables, *)
(* counted mappings and kernel pointers that refer to it.  Hence kalloc    *)
(* (kernel.cc:118-132) never hands out a page somebody uses, kfree never   *)
(* frees twice, and fork, failed forks and exit lose no page.              *)
(***************************************************************************)
THEOREM ExactCounts == ASSUME ~ Remap PROVE Spec => []RefcountExact
<1>1. Accounting => RefcountExact
  BY DEF Accounting, Pages
<1> QED
  BY <1>1, AccountingAlways, PTL

(***************************************************************************)
(* No process can reach a page that is reserved, belongs to the kernel,    *)
(* holds a page table, the viewer's marks or a page in the kernel's hand,  *)
(* and no page is two page tables.                                         *)
(***************************************************************************)
THEOREM KernelIsApart == ASSUME ~ Remap PROVE Spec => []KernelPages
<1>1. Accounting => KernelPages
  BY DEF Accounting, Pages
<1> QED
  BY <1>1, AccountingAlways, PTL

(***************************************************************************)
(* A page that a process can write is mapped nowhere else, in its own or   *)
(* in any other address space: fork shares read-only pages only.           *)
(***************************************************************************)
THEOREM WritableIsPrivate == ASSUME ~ Remap PROVE Spec => []PrivatePages
<1>1. Accounting => PrivatePages
  BY DEF Accounting, Pages
<1> QED
  BY <1>1, AccountingAlways, PTL

-----------------------------------------------------------------------------
(***************************************************************************)
(* The map that the memory viewer computes from the page tables agrees     *)
(* with the counters of the page allocator.                                *)
(***************************************************************************)

\* Every step with the viewer is a step of the kernel.
LEMMA ViewStep == [ViewNext]_vvars => [Next]_vars
BY DEF ViewNext, vvars, Next, KernelStep

LEMMA ViewKernel == ViewSpec => Spec
<1>1. ViewInit => Init
  BY DEF ViewInit
<1> QED BY <1>1, ViewStep, PTL DEF ViewSpec, Spec

(***************************************************************************)
(* Where the map is drawn the kernel has nothing in hand, and the viewer   *)
(* takes those for processes that own something.                           *)
(***************************************************************************)
LEMMA DrawnAlive ==
    ASSUME TypeOK, Control, KernelThere, Drawn
    PROVE  /\ held = NoPage
           /\ \A p \in Pid : ~ Alive(p) => tab[p] = NoTable /\ pt[p] = NoMap
<1>1. /\ pc \notin Dead \cup Building \cup Freeing \cup {"pa_map"}
      /\ held = NoPage
  BY DEF Drawn, Ops, Dead, Building, Freeing, Control, InHand
<1>2. \A p \in Pid : state[p] # "P_FREE" => Alive(p)
  <2> SUFFICES ASSUME NEW p \in Pid, state[p] # "P_FREE" PROVE Alive(p)
    OBVIOUS
  <2>1. p # 0 /\ Complete(p)
    BY <1>1 DEF KernelThere, Complete
  <2>2. Linked(p)
    BY <2>1 DEF KernelThere
  <2> QED BY <2>1, <2>2 DEF Alive, Linked, Path
<1>3. ASSUME NEW p \in Pid, ~ Alive(p) PROVE tab[p] = NoTable /\ pt[p] = NoMap
  BY <1>1, <1>2, <1>3 DEF Control, Slots, Owns
<1> QED BY <1>1, <1>3

\* Hence its marks are the references to the page.
LEMMA Marks ==
    ASSUME TypeOK, Control, KernelThere, Drawn, NEW pa \in PA
    PROVE  /\ \A p \in Pid : p \in TableOf(pa) <=> \E n \in Node : <<p, n>> \in TabRefs(pa)
           /\ pa # CONSOLE =>
                \A p \in Pid : p \in OpenTo(pa) <=> \E v \in VA : <<p, v>> \in MapRefs(pa)
           /\ TableOf(pa) \subseteq Pid /\ OpenTo(pa) \subseteq Pid
<1>1. \A p \in Pid : ~ Alive(p) => tab[p] = NoTable /\ pt[p] = NoMap
  BY DrawnAlive
<1>2. pa # NoPage
  BY PageFacts
<1>3. ASSUME NEW p \in Pid PROVE p \in TableOf(pa) <=> \E n \in Node : <<p, n>> \in TabRefs(pa)
  <2>1. \A n \in Node : tab[p][n] = pa => Alive(p)
    BY <1>1, <1>2 DEF NoTable
  <2> QED BY <2>1 DEF TableOf, TabRefs
<1>4. ASSUME pa # CONSOLE, NEW p \in Pid
      PROVE  p \in OpenTo(pa) <=> \E v \in VA : <<p, v>> \in MapRefs(pa)
  <2>1. \A v \in VA : User(pt[p][v]) => Alive(p)
    BY <1>1 DEF NoMap, NoEntry, User
  <2>2. CONSOLE \in VA /\ CONSOLE < PROC_START
    BY SizeAssumption, MemoryAssumption DEF VA
  <2>3. pt[p][CONSOLE] \in {NoEntry, KernelEntry(CONSOLE)}
    BY <2>2 DEF Control, LowMappings
  <2>4. User(pt[p][CONSOLE]) => pt[p][CONSOLE].pa = CONSOLE
    BY <2>3 DEF User, NoEntry, KernelEntry
  <2>5. \A v \in VA : User(pt[p][v]) /\ pt[p][v].pa = pa => v # CONSOLE
    BY <1>4, <2>4
  <2> QED BY <2>1, <2>5 DEF OpenTo, MapRefs, Counted
<1> QED BY <1>3, <1>4 DEF TableOf, OpenTo

\* A page that is not from kalloc belongs to no process.
LEMMA OthersUnmarked ==
    ASSUME TypeOK, Control, KernelThere, Pages, Drawn, NEW pa \in PA \ Allocatable, pa # CONSOLE
    PROVE  Processes(pa) = {}
<1>1. TabRefs(pa) = {} /\ MapRefs(pa) = {}
  BY PageFacts DEF Pages, KernelPages, TabRefs, MapRefs
<1>2. TableOf(pa) = {} /\ OpenTo(pa) = {}
  BY <1>1, Marks
<1>3. ~ UsedOpen(pa)
  BY ViewerAssumption DEF UsedOpen, PA
<1> QED BY <1>2, <1>3 DEF Processes

\* The three ways in which a page from kalloc can be referred to exclude each
\* other, and a counter above one is a page that several processes can access.
LEMMA Counters ==
    ASSUME TypeOK, Control, KernelThere, Pages, Drawn, NEW pa \in Allocatable
    PROVE  /\ OpenTo(pa) # {} => TableOf(pa) = {} /\ pa # mv
           /\ TableOf(pa) # {} => pa # mv
           /\ refcount[pa] = 0 <=> TableOf(pa) = {} /\ OpenTo(pa) = {} /\ pa # mv
           /\ refcount[pa] > 1 <=> \E p, q \in OpenTo(pa) : p # q
           /\ \A p, q \in TableOf(pa) : p = q
<1> DEFINE T == TabRefs(pa)
           M == MapRefs(pa)
<1>1. pa \in PA /\ pa # CONSOLE /\ held # pa /\ pa # NoPage
  BY PageFacts, MemoryAssumption, DrawnAlive
<1>2. /\ \A p \in Pid : p \in TableOf(pa) <=> \E n \in Node : <<p, n>> \in T
      /\ \A p \in Pid : p \in OpenTo(pa) <=> \E v \in VA : <<p, v>> \in M
      /\ TableOf(pa) \subseteq Pid /\ OpenTo(pa) \subseteq Pid
  BY <1>1, Marks
<1>3. T \subseteq Pid \X Node /\ M \subseteq Pid \X VA
  BY DEF TabRefs, MapRefs
<1>4. /\ IsFiniteSet(T) /\ IsFiniteSet(M) /\ Cardinality(T) \in Nat /\ Cardinality(M) \in Nat
  BY Finite
<1>5. refcount[pa] = Cardinality(T) + Cardinality(M) + Bit(mv = pa)
  BY <1>1, <1>4 DEF Pages, RefcountExact, Refs, Bit
<1>6. \A x, y \in T : x = y
  BY <1>1, <1>3 DEF Pages, KernelPages, TabRefs
<1>7. \A x, y \in M : x[2] = y[2]
  BY <1>3 DEF Pages, SameAddress, MapRefs
<1>8. M # {} => T = {} /\ pa # mv
  BY DEF Pages, KernelPages, MapRefs, TabRefs
<1>9. T # {} => pa # mv
  BY <1>1 DEF Pages, KernelPages, TabRefs
<1> HIDE DEF T, M
<1>10. /\ T = {} <=> TableOf(pa) = {}
       /\ M = {} <=> OpenTo(pa) = {}
  <2>1. ASSUME NEW x \in T PROVE TableOf(pa) # {}
    <3>1. PICK p \in Pid, n \in Node : x = <<p, n>>
      BY <1>3
    <3> QED BY <1>2, <2>1, <3>1
  <2>2. ASSUME NEW x \in M PROVE OpenTo(pa) # {}
    <3>1. PICK p \in Pid, v \in VA : x = <<p, v>>
      BY <1>3
    <3> QED BY <1>2, <2>2, <3>1
  <2>3. T = {} => TableOf(pa) = {}
    BY <1>2
  <2>4. M = {} => OpenTo(pa) = {}
    BY <1>2
  <2> QED BY <2>1, <2>2, <2>3, <2>4
<1>11. (Cardinality(T) = 0 <=> T = {}) /\ (Cardinality(M) = 0 <=> M = {})
  BY <1>4, FS_EmptySet
<1>12. Cardinality(T) <= 1
  <2>1. CASE T = {}
    BY <1>11, <2>1
  <2>2. ASSUME NEW x \in T PROVE Cardinality(T) <= 1
    <3>1. T = {x}
      BY <1>6, <2>2
    <3>2. Cardinality({x}) = 1
      BY FS_Singleton
    <3> QED BY <3>1, <3>2
  <2> QED BY <2>1, <2>2
<1>13. Cardinality(M) > 1 <=> \E x, y \in M : x # y
  <2>1. ASSUME Cardinality(M) > 1 PROVE \E x, y \in M : x # y
    <3>1. PICK x \in M : TRUE
      BY <1>11, <2>1
    <3>2. M # {x}
      BY <2>1, FS_Singleton
    <3> QED BY <3>1, <3>2
  <2>2. ASSUME NEW x \in M, NEW y \in M, x # y PROVE Cardinality(M) > 1
    <3>1. IsFiniteSet(M \ {x}) /\ Cardinality(M \ {x}) = Cardinality(M) - 1
      BY <1>4, FS_RemoveElement
    <3>2. M \ {x} # {}
      BY <2>2
    <3>3. Cardinality(M \ {x}) # 0 /\ Cardinality(M \ {x}) \in Nat
      BY <3>1, <3>2, FS_EmptySet, FS_CardinalityType
    <3> QED BY <1>4, <3>1, <3>3
  <2> QED BY <2>1, <2>2
<1>14. (\E x, y \in M : x # y) <=> \E p, q \in OpenTo(pa) : p # q
  <2>1. ASSUME NEW x \in M, NEW y \in M, x # y PROVE \E p, q \in OpenTo(pa) : p # q
    <3>1. x[1] \in OpenTo(pa) /\ y[1] \in OpenTo(pa)
      BY <1>2, <1>3
    <3>2. x[1] # y[1]
      BY <1>3, <1>7, <2>1
    <3> QED BY <3>1, <3>2
  <2>2. ASSUME NEW p \in OpenTo(pa), NEW q \in OpenTo(pa), p # q PROVE \E x, y \in M : x # y
    <3>1. PICK v \in VA : <<p, v>> \in M
      BY <1>2
    <3>2. PICK w \in VA : <<q, w>> \in M
      BY <1>2
    <3>3. <<p, v>> # <<q, w>>
      BY <2>2
    <3> QED BY <3>1, <3>2, <3>3
  <2> QED BY <2>1, <2>2
<1>15. refcount[pa] = 0 <=> TableOf(pa) = {} /\ OpenTo(pa) = {} /\ pa # mv
  BY <1>4, <1>5, <1>10, <1>11 DEF Bit
<1>16. refcount[pa] > 1 <=> Cardinality(M) > 1
  BY <1>4, <1>5, <1>8, <1>9, <1>11, <1>12 DEF Bit
<1>17. \A p, q \in TableOf(pa) : p = q
  <2> SUFFICES ASSUME NEW p \in TableOf(pa), NEW q \in TableOf(pa) PROVE p = q
    OBVIOUS
  <2>1. PICK n \in Node : <<p, n>> \in T
    BY <1>2
  <2>2. PICK m \in Node : <<q, m>> \in T
    BY <1>2
  <2>3. <<p, n>> = <<q, m>>
    BY <1>6, <2>1, <2>2
  <2> QED BY <2>3
<1> QED BY <1>8, <1>9, <1>10, <1>13, <1>14, <1>15, <1>16, <1>17

\* The signs differ.
LEMMA Signs ==
    /\ \A p : /\ Letter(p) \notin Errors /\ Letter(p) # Sign(".") /\ Letter(p) # Sign("S")
    /\ \A c \in {"C", "R", "K", ".", "S"} : Sign(c) \notin Errors
    /\ \A c \in {"C", "R", "K", "S"} : Sign(c) # Sign(".")
    /\ \A c \in {"C", "R", "K", "."} : Sign(c) # Sign("S")
BY DEF Letter, Sign, Errors

\* One page of the map.
LEMMA Shown ==
    ASSUME TypeOK, Control, KernelThere, Pages, Drawn, NEW pa \in PA
    PROVE  /\ symbol_at(pa) \notin Errors
           /\ pa \in Allocatable => /\ symbol_at(pa) = Sign(".") <=> refcount[pa] = 0 \/ Overlooked(pa)
                                    /\ symbol_at(pa) = Sign("S") <=> refcount[pa] > 1
<1>1. CONSOLE \notin Allocatable /\ Reserved \cap Allocatable = {} /\ CONSOLE \in Reserved
  BY MemoryAssumption, ViewerAssumption
<1>2. CASE pa = CONSOLE
  <2>1. symbol_at(pa) = Sign("C")
    BY <1>1, <1>2 DEF symbol_at, IsKernel
  <2> QED BY <1>1, <1>2, <2>1, Signs
<1>3. CASE pa # CONSOLE /\ pa \notin Allocatable
  <2>1. Processes(pa) = {}
    BY <1>3, OthersUnmarked
  <2>2. symbol_at(pa) = Sign("R") \/ symbol_at(pa) = Sign("K")
    BY <1>1, <1>3, <2>1 DEF symbol_at, IsKernel
  <2> QED BY <1>3, <2>2, Signs
<1>4. CASE pa \in Allocatable
  <2> DEFINE P == Processes(pa)
             m == MarkedPid(pa)
  <2>1. symbol_at(pa) = IF P = {} THEN Sign(IF KernelMark(pa) THEN "K" ELSE ".")
                        ELSE IF KernelMark(pa) /\ UserMark(pa)
                             THEN Sign("kernel allocated page mapped for user")
                        ELSE IF P # {m} THEN Sign("S") ELSE Letter(m)
    BY <1>1, <1>4 DEF symbol_at, IsKernel
  <2>2. /\ OpenTo(pa) # {} => TableOf(pa) = {} /\ pa # mv
        /\ TableOf(pa) # {} => pa # mv
        /\ refcount[pa] = 0 <=> TableOf(pa) = {} /\ OpenTo(pa) = {} /\ pa # mv
        /\ refcount[pa] > 1 <=> \E p, q \in OpenTo(pa) : p # q
        /\ \A p, q \in TableOf(pa) : p = q
    BY <1>4, Counters
  <2>3. AnyAlive => /\ P = TableOf(pa) \cup OpenTo(pa)
                    /\ (KernelMark(pa) <=> TableOf(pa) # {} \/ pa = mv)
                    /\ (UserMark(pa) <=> OpenTo(pa) # {})
                    /\ ~ Overlooked(pa)
    BY DEF Processes, KernelMark, UserMark, Overlooked
  \* Without processes, only the viewer's own page is in use.
  <2>4. CASE ~ AnyAlive
    <3>1. TableOf(pa) = {} /\ OpenTo(pa) = {}
      BY <2>4 DEF AnyAlive, TableOf, OpenTo
    <3>2. (refcount[pa] = 0 <=> pa # mv) /\ ~ refcount[pa] > 1
      BY <2>2, <3>1
    <3>3. ~ KernelMark(pa) /\ P = IF pa >= PROC_START /\ pa = mv THEN {Owner(pa)} ELSE {}
      BY <2>4, <3>2 DEF KernelMark, Processes, UsedOpen
    <3>4. pa \in Int /\ PROC_START \in Int
      BY SizeAssumption DEF PA
    <3> HIDE DEF P
    <3>5. CASE pa >= PROC_START /\ pa = mv
      <4>1. PICK o : o = Owner(pa)
        OBVIOUS
      <4>2. o \in Int
        BY <3>4, <4>1 DEF Owner
      <4>3. Processes(pa) = {o}
        BY <3>3, <3>5, <4>1 DEF P
      <4>4. m = o
        BY <4>2, <4>3 DEF MarkedPid
      <4>5. symbol_at(pa) = Letter(o)
        BY <2>1, <3>3, <3>5, <4>1, <4>4
      <4>6. ~ Overlooked(pa)
        BY <3>4, <3>5 DEF Overlooked
      <4> QED BY <3>2, <3>5, <4>5, <4>6, Signs
    <3>6. CASE ~ (pa >= PROC_START /\ pa = mv)
      <4>1. symbol_at(pa) = Sign(".")
        BY <2>1, <3>3, <3>6
      <4>2. refcount[pa] = 0 \/ Overlooked(pa)
        BY <2>4, <3>2, <3>4, <3>6 DEF Overlooked
      <4> QED BY <3>2, <4>1, <4>2, Signs
    <3> QED BY <3>5, <3>6
  <2> HIDE DEF P
  <2>5. CASE AnyAlive /\ P = {}
    <3>1. symbol_at(pa) = Sign(IF pa = mv THEN "K" ELSE ".")
      BY <2>1, <2>3, <2>5
    <3>2. refcount[pa] = 0 <=> pa # mv
      BY <2>2, <2>3, <2>5
    <3>3. ~ refcount[pa] > 1
      BY <2>2, <2>3, <2>5
    <3> QED BY <2>3, <2>5, <3>1, <3>2, <3>3, Signs
  <2>6. CASE AnyAlive /\ P # {}
    <3>1. m \in P
      <4>1. P \subseteq Nat
        BY <2>3, <2>6, SizeAssumption DEF TableOf, OpenTo, Pid
      <4>2. \E p \in P : \A q \in P : p <= q
        BY <2>6, <4>1, Least
      <4> QED BY <4>2 DEF MarkedPid, P
    <3>2. refcount[pa] # 0 /\ ~ (KernelMark(pa) /\ UserMark(pa))
      BY <2>2, <2>3, <2>6
    <3>3. P # {m} <=> refcount[pa] > 1
      BY <2>2, <2>3, <2>6, <3>1
    <3> HIDE DEF m
    <3>4. symbol_at(pa) = IF refcount[pa] > 1 THEN Sign("S") ELSE Letter(m)
      BY <2>1, <2>6, <3>2, <3>3
    <3> QED BY <2>3, <2>6, <3>2, <3>4, Signs
  <2> QED BY <2>4, <2>5, <2>6
<1> QED BY <1>2, <1>3, <1>4

(***************************************************************************)
(* Whenever memshow() draws, on an entry into the kernel or in schedule(), *)
(* the map of k-memviewer.cc shows a page as free exactly if kalloc may    *)
(* hand it out, as shared exactly if its counter is above one, and reports *)
(* no page table error, for every number of processes and pages and every  *)
(* layout of memory.  The one exception is the viewer's own page when no   *)
(* process is left and that page is below PROC_START (line 124).           *)
(***************************************************************************)
THEOREM TrueMap == ASSUME ~ Remap PROVE ViewSpec => []MapIsTrue
<1>1. TypeOK /\ Control /\ KernelThere /\ Accounting => MapIsTrue
  BY Shown DEF Accounting, MapIsTrue
<1>2. Init => Control /\ KernelThere
  BY ControlInit, ThereInit
<1>3. TypeOK /\ Control /\ KernelThere /\ [Next]_vars => Control' /\ KernelThere'
  BY ControlNext, ThereNext
<1> QED BY <1>1, <1>2, <1>3, ViewKernel, TypeCorrect, AccountingAlways, PTL DEF Spec
=============================================================================
