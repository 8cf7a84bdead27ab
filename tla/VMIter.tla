------------------------------- MODULE VMIter -------------------------------
(***************************************************************************)
(* The page-table iterators of k-vmiter.cc and k-vmiter.hh on one page     *)
(* table: vmiter, which remembers where in the tree it is and walks on     *)
(* from there, and ptiter, which visits the tables so that they can be     *)
(* freed on the way.  Addresses are page numbers; the tree has the four    *)
(* levels of x86-64, with B entries in a table.  A second iterator, made   *)
(* for one try_map as fork makes them, may change the table under the one  *)
(* that is followed here.  (Kernel has the same page tables as functions.) *)
(***************************************************************************)
EXTENDS Integers, FiniteSets

CONSTANTS
    B,          \* entries of a table: 512
    Pages,      \* the pages there are for tables, numbers from 1 on
    Frames,     \* physical pages that are mapped
    Perms,      \* with which permissions
    LARGE       \* the physical address of a large page of the kernel's table

ASSUME TableAssumption ==
    /\ B \in Nat /\ B > 0 /\ B % 2 = 0
    /\ 1 .. 5 \subseteq Pages /\ Pages \subseteq Nat \ {0}
    /\ Perms \subseteq SUBSET {"P", "W", "U"} /\ \A p \in Perms : p # {} => "P" \in p
    /\ Frames \subseteq Nat /\ LARGE \in Nat

VARIABLES
    tables,     \* the contents of the pages that hold tables
    used,       \* which pages do
    flat,       \* history: what was last mapped at each place
    it,         \* the vmiter
    pit,        \* the ptiter
    walk,       \* "idle", or where ptiter's loop is: "down", "at", "done"
    seen        \* the tables it has visited (and its user has freed)

vvars == <<tables, used, flat, it, pit, walk, seen>>

Index  == 0 .. B - 1
PWU    == {"P", "W", "U"}
Flags  == PWU \cup {"PS"}    \* of vmiter::initial_perm
Root   == 1
ZeroPe == 0     \* where vmiter::zero_pe is, in place of a table

Absent == [to |-> 0, perm |-> {}]

-----------------------------------------------------------------------------
(* Addresses. *)

\* The pages that an entry of a table of this level covers: pageoffmask(level)
\* and one more, in pages.
Span[level \in 0 .. 4] == IF level = 0 THEN 1 ELSE B * Span[level - 1]

Places  == Span[4]          \* 2^48: what the indices can tell apart
Space   == 2 * Places       \* uintptr_t, with one bit more instead of 16
LOWEND  == Places \div 2
VA      == 0 .. Space - 1

va_is_canonical(va) == va < LOWEND \/ va >= Space - LOWEND
pageindex(va, level) == (va \div Span[level]) % B

\* (va | pageoffmask(level)) + 1
After(va, level) == ((va \div Span[level] + 1) * Span[level]) % Space

\* Do the addresses lie in different regions of this level?
Apart(a, b, level) == a \div Span[level] # b \div Span[level]

-----------------------------------------------------------------------------
(* vmiter; T are the tables. *)

Pe(T, i) == IF i.tab = ZeroPe THEN Absent ELSE T[i.tab][i.idx]

\* (*pep_ & (PTE_P | PTE_PS)) == PTE_P
IsTable(e) == "P" \in e.perm /\ "PS" \notin e.perm

\* One iteration of vmiter::down, and all of them: there are three levels.
Down1(T, i) ==
    LET e == Pe(T, i) IN
    IF i.level > 0 /\ IsTable(e)
    THEN [i EXCEPT !.level = @ - 1, !.perm = @ \cap e.perm, !.tab = e.to,
                   !.idx = pageindex(i.va, i.level - 1)]
    ELSE i
down(T, i) == Down1(T, Down1(T, Down1(T, i)))

\* Mutant of Far: the table is taken to cover B times as much.
Far_Wide(i, va) == i.level = 3 \/ Apart(i.va, va, i.level + 2)

\* Is va outside of the table that the iterator has reached?
Far(i, va) == i.level = 3 \/ Apart(i.va, va, i.level + 1)

real_find(T, i, va) ==
    down(T, IF ~ Far(i, va) THEN [i EXCEPT !.va = va, !.idx = pageindex(va, i.level)]
            ELSE IF va_is_canonical(va)
            THEN [va |-> va, level |-> 3, tab |-> Root, idx |-> pageindex(va, 3), perm |-> Flags]
            ELSE [va |-> va, level |-> 3, tab |-> ZeroPe, idx |-> 0, perm |-> {}])

\* vmiter::vmiter(pt, va)
New(T, va) ==
    real_find(T, [va |-> 0, level |-> 3, tab |-> Root, idx |-> 0, perm |-> Flags], va)

present(T, i) == "P" \in Pe(T, i).perm
perm(T, i)    == IF present(T, i) THEN Pe(T, i).perm \cap i.perm ELSE {}
pa(T, i)      == IF present(T, i) THEN Pe(T, i).to + (i.va % Span[i.level]) ELSE -1
last_va(i)    == After(i.va, i.level)

\* Mutant of NextLevel: regions are skipped whatever is in them.
NextLevel_Always(T, i) == i.level

\* vmiter::next skips a region only if nothing is there.
NextLevel(T, i) == IF i.level > 0 /\ perm(T, i) = {} THEN i.level ELSE 0
next(T, i)      == real_find(T, i, After(i.va, NextLevel(T, i)))

\* vmiter::perm(last_va, p), which goes from range to range.  (Each find is
\* written from i; by FindsTruth that makes no difference.)
RangeOk(T, i, last, p) ==
    LET ok[a \in i.va .. Space] ==
            a >= last \/ LET j == real_find(T, i, a)
                         IN  p \subseteq Pe(T, j).perm \cap j.perm /\ ok[last_va(j)]
    IN  ok[i.va]

low_perm(T, i, first, last, p) ==
    /\ first <= last /\ last <= LOWEND
    /\ first = last \/ RangeOk(T, real_find(T, i, first), last, p)

\* Mutant of Link: tables that user mode cannot go through.
Link_NoUser(t) == [to |-> t, perm |-> {"P", "W"}]

\* The entry for a new table.
Link(t) == [to |-> t, perm |-> PWU]

\* The first page that is free, and an empty table there, linked in at i.
Free(U) == CHOOSE x \in Pages \ U : \A y \in Pages \ U : x <= y
LinkIn(T, i, t) == [T EXCEPT ![i.tab][i.idx] = Link(t), ![t] = [n \in Index |-> Absent]]

\* One iteration of try_map's loop on s, which is [T, used, i]: a table is
\* allocated and linked, unless there is no page.
Grow(s) ==
    IF s.i.level = 0 \/ Pages \ s.used = {} THEN s
    ELSE LET t == Free(s.used)
             T == LinkIn(s.T, s.i, t)
         IN  [T |-> T, used |-> s.used \cup {t}, i |-> down(T, s.i)]

\* try_map(a, p): the tables there are afterwards, and the iterator.  It has
\* failed if the iterator has not reached level 0.
try_map(i, a, p) ==
    LET s == [T |-> tables, used |-> used, i |-> i]
        t == IF p = {} THEN s ELSE Grow(Grow(Grow(s)))
    IN  IF t.i.level > 0 THEN t
        ELSE [t EXCEPT !.T[t.i.tab][t.i.idx] = [to |-> IF p = {} THEN 0 ELSE a, perm |-> p]]

\* Its assertions: the path permits p, and no large page is in the way.
Mappable(T, i, p) ==
    /\ p \subseteq i.perm
    /\ i.level > 0 /\ p # {} => ~ present(T, i)

-----------------------------------------------------------------------------
(* What kernels do with vmiter. *)

Move(i) == it' = i /\ UNCHANGED <<tables, used, flat, pit, walk, seen>>

\* find, += and -=.
Find(va)  == walk = "idle" /\ Move(real_find(tables, it, va))
Next1     == walk = "idle" /\ Move(next(tables, it))
NextRange == walk = "idle" /\ Move(real_find(tables, it, last_va(it)))

\* Large pages are not mapped over.
InTheWay(va) == "PS" \in Pe(tables, New(tables, va)).perm

Mapped(i, a, p) ==
    LET s == try_map(i, a, p) IN
    /\ walk = "idle" /\ va_is_canonical(i.va) /\ ~ InTheWay(i.va)
    /\ tables' = s.T /\ used' = s.used
    /\ flat' = IF s.i.level > 0 THEN flat
               ELSE [flat EXCEPT ![i.va % Places] =
                       IF p = {} THEN [pa |-> -1, perm |-> {}] ELSE [pa |-> a, perm |-> p]]
    /\ UNCHANGED <<pit, walk, seen>>

\* it.map, where it was just moved to ...
MapHere(a, p) ==
    /\ it = real_find(tables, it, it.va)
    /\ Mapped(it, a, p)
    /\ it' = try_map(it, a, p).i

\* ... or vmiter(pt).find(va).try_map, by another iterator.
MapThere(va, a, p) == Mapped(New(tables, va), a, p) /\ UNCHANGED it

-----------------------------------------------------------------------------
(* ptiter *)

NoWalk == [va |-> 0, level |-> 3, tab |-> Root, idx |-> 0, skip |-> FALSE, stop |-> 1]

\* ptiter::ptiter(pt); the vmiter is not used any more.
PtGo ==
    /\ walk = "idle" /\ walk' = "down"
    /\ pit' = NoWalk /\ seen' = {}
    /\ it' = New(tables, 0)
    /\ UNCHANGED <<tables, used, flat>>

\* Mutant of PtStop: the parents are passed by.
PtStop_Leaves(level) == 1

\* Going up from a level stops one level higher.
PtStop(level) == level + 1

\* One iteration of ptiter::down.
PtDown ==
    LET e  == Pe(tables, pit)
        va == After(pit.va, pit.level)
    IN
    /\ walk = "down"
    /\ \/ /\ IsTable(e) /\ ~ pit.skip /\ pit.level = pit.stop
          /\ walk' = "at" /\ UNCHANGED pit
       \/ /\ IsTable(e) /\ ~ pit.skip /\ pit.level # pit.stop
          /\ pit' = [pit EXCEPT !.level = @ - 1, !.tab = e.to,
                                !.idx = pageindex(pit.va, pit.level - 1)]
          /\ UNCHANGED walk
       \/ /\ ~ IsTable(e) \/ pit.skip
          /\ Apart(va, pit.va, pit.level + 1)
          /\ IF pit.level = 3 THEN pit' = [pit EXCEPT !.va = Places] /\ walk' = "done"
             ELSE /\ pit' = [NoWalk EXCEPT !.va = pit.va, !.idx = pageindex(pit.va, 3),
                                           !.stop = PtStop(pit.level)]
                  /\ UNCHANGED walk
       \/ /\ ~ IsTable(e) \/ pit.skip
          /\ ~ Apart(va, pit.va, pit.level + 1)
          /\ pit' = [pit EXCEPT !.idx = @ + 1, !.va = va, !.skip = FALSE]
          /\ UNCHANGED walk
    /\ UNCHANGED <<tables, used, flat, it, seen>>

\* Mutant of PtNext: the entry is looked at again.
PtNext_Again == pit' = [pit EXCEPT !.stop = 1]

\* ptiter::next
PtNext == pit' = [pit EXCEPT !.skip = TRUE, !.stop = 1]

\* The body of the loop over a ptiter: the table is freed, or marked.
PtVisit ==
    /\ walk = "at" /\ walk' = "down"
    /\ seen' = seen \cup {Pe(tables, pit).to}
    /\ PtNext
    /\ UNCHANGED <<tables, used, flat, it>>

\* A new page table: only the root, cleared.
Empty == [t \in Pages |-> [n \in Index |-> Absent]]
Unmapped == [n \in 0 .. Places - 1 |-> [pa |-> -1, perm |-> {}]]

\* After the loop pfree frees the root too; memusage::refresh frees nothing.
PtEnd ==
    /\ walk = "done" /\ walk' = "idle"
    /\ pit' = NoWalk /\ seen' = {}
    /\ \/ UNCHANGED <<tables, used, flat>>
       \/ tables' = Empty /\ used' = {Root} /\ flat' = Unmapped
    /\ it' = New(tables', 0)

-----------------------------------------------------------------------------
\* init_kernel_memory: five tables, the last two for the first 4 MiB, and
\* large pages above.
KernelTables ==
    [Empty EXCEPT ![1][0] = Link(2), ![2][0] = Link(3), ![3][0] = Link(4), ![3][1] = Link(5),
                  ![2][1] = [to |-> LARGE, perm |-> {"P", "W", "PS"}]]
KernelFlat ==
    [n \in 0 .. Places - 1 |->
        IF n \div Span[2] = 1 THEN [pa |-> LARGE + (n % Span[2]), perm |-> {"P", "W"}]
                              ELSE Unmapped[n]]

Init ==
    /\ \/ tables = Empty /\ used = {Root} /\ flat = Unmapped
       \/ tables = KernelTables /\ used = 1 .. 5 /\ flat = KernelFlat
    /\ it = New(tables, 0)
    /\ pit = NoWalk /\ walk = "idle" /\ seen = {}

PtStep == PtDown \/ PtVisit \/ PtEnd

Next ==
    \/ \E va \in VA : Find(va)
    \/ Next1 \/ NextRange
    \/ \E a \in Frames, p \in Perms : MapHere(a, p)
    \/ \E va \in VA, a \in Frames, p \in Perms : MapThere(va, a, p)
    \/ PtGo \/ PtStep

\* The loop over a ptiter is executed to its end.
Spec == Init /\ [][Next]_vvars /\ WF_vvars(PtStep)

-----------------------------------------------------------------------------
(***************************************************************************)
(* Wherever the iterator stands, and whatever another one has linked in    *)
(* since, find(va) tells what is mapped at va; all of the range that it    *)
(* reports, up to last_va(), is mapped alike; and low_perm(first, last, p) *)
(* holds exactly if every page of the range has all of p, large pages      *)
(* included (k-vmiter.hh:21).                                              *)
(***************************************************************************)
Slot(va) == IF va_is_canonical(va) THEN flat[va % Places] ELSE Unmapped[0]
TellsTruth(va) ==
    LET j == real_find(tables, it, va) IN
    /\ pa(tables, j) = Slot(va).pa /\ perm(tables, j) = Slot(va).perm
    /\ \A o \in 0 .. Span[j.level] - 1 :
        va + o < Space /\ ~ Apart(va, va + o, j.level)
            => Slot(va + o).perm = Slot(va).perm
RangeTold(first, last, p) ==
    low_perm(tables, it, first, last, p) <=>
        /\ first <= last /\ last <= LOWEND
        /\ \A va \in first .. last - 1 : p \subseteq Slot(va).perm
FindsTruth ==
    walk = "idle" =>
        /\ \A va \in VA : TellsTruth(va)
        /\ \A first \in 0 .. LOWEND, last \in 0 .. LOWEND + 1, p \in Perms \ {{}} :
            RangeTold(first, last, p)

(***************************************************************************)
(* "Never skips present pages": from wherever the iterator stands, next()  *)
(* passes over nothing, also if a page was mapped nearby in the meantime.  *)
(***************************************************************************)
NextSkipsNothing ==
    walk = "idle" =>
        LET j == next(tables, it) IN
        \A va \in it.va + 1 .. (IF j.va = 0 THEN Space ELSE j.va) - 1 : Slot(va).perm = {}

(***************************************************************************)
(* The assertions of try_map hold for every mapping within the canonical   *)
(* addresses, except over a large page.                                    *)
(***************************************************************************)
MapNeverAsserts ==
    walk = "idle" => \A va \in VA, p \in Perms :
        va_is_canonical(va) /\ ~ InTheWay(va) => Mappable(tables, real_find(tables, it, va), p)

(***************************************************************************)
(* A loop that frees what ptiter visits frees every table but the root     *)
(* exactly once, after the tables below it, and the iterator never reads a *)
(* table that is freed already.                                            *)
(***************************************************************************)
Below(t, level) == IF level = 0 THEN {}
                   ELSE {tables[t][n].to : n \in {x \in Index : IsTable(tables[t][x])}}
FreesTheTree ==
    /\ walk \in {"down", "at"} => pit.tab \notin seen
    /\ walk = "at" => LET t == Pe(tables, pit).to IN
                      t \notin seen \cup {Root} /\ Below(t, pit.level - 1) \subseteq seen
    /\ walk = "done" => seen = used \ {Root}

\* The loop over a ptiter ends.
WalkEnds == walk # "idle" ~> walk = "idle"
=============================================================================
