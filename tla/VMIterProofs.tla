------------------------------ MODULE VMIterProofs ------------------------------
(***************************************************************************)
(* What the page-table iterators promise, for every size of table, every   *)
(* number of pages for tables and every set of frames and permissions.     *)
(* The tables are a tree: there is for every table a level and a place     *)
(* that it is for, such that its entries lead to the tables for parts of   *)
(* its region, or are what is mapped there.                                *)
(***************************************************************************)
EXTENDS VMIter, WellFoundedInduction, TLAPS

Place  == 0 .. Places - 1
Levels == 0 .. 3
Entry  == [to : Nat, perm : SUBSET Flags]

\* The region of this level that an address is in.
Q(va, level) == va \div Span[level]

\* Nothing, and what an entry of this level says of an address.
Nothing == [pa |-> -1, perm |-> {}]
Says(e, va, level) ==
    IF "P" \in e.perm THEN [pa |-> e.to + (va % Span[level]), perm |-> e.perm \cap PWU]
                      ELSE Nothing

\* A table t of level L[t] is for the region of place S[t].
Covers(L, S, t, a) == Q(a, L[t] + 1) = Q(S[t], L[t] + 1)

\* What there is at an entry above level 0: a table for the part of the
\* region, a large page (not in the root), or nothing.
IsLink(U, L, S, t, n, e) ==
    \E c \in U : /\ e = Link(c) /\ L[c] = L[t] - 1
                 /\ Covers(L, S, t, S[c]) /\ pageindex(S[c], L[t]) = n
IsLarge(e) == e.perm = {"P", "W", "PS"}
Inner(U, L, S, t, n, e) ==
    \/ e = Absent
    \/ IsLarge(e) /\ L[t] < 3
    \/ IsLink(U, L, S, t, n, e)
IsLeaf(e) == e.perm \subseteq PWU /\ (e.perm # {} => "P" \in e.perm)

Typed(T, U, L, S) ==
    /\ T \in [Pages -> [Index -> Entry]]
    /\ U \subseteq Pages /\ Root \in U
    /\ L \in [Pages -> Levels] /\ S \in [Pages -> Place]
    /\ \A t \in U : L[t] = 3 <=> t = Root
Linked(T, U, L, S) ==
    \A t \in U, n \in Index :
        IF L[t] = 0 THEN IsLeaf(T[t][n]) ELSE Inner(U, L, S, t, n, T[t][n])

\* No two tables are for the same region, and every table but the root is
\* reached.
Distinct(U, L, S) ==
    \A s, t \in U : L[s] = L[t] /\ Covers(L, S, s, S[t]) => s = t
Reached(T, U, L, S) ==
    \A c \in U \ {Root} : \E t \in U :
        /\ L[t] = L[c] + 1 /\ Covers(L, S, t, S[c])
        /\ T[t][pageindex(S[c], L[t])] = Link(c)
Tree(T, U, L, S) ==
    Typed(T, U, L, S) /\ Linked(T, U, L, S) /\ Distinct(U, L, S) /\ Reached(T, U, L, S)

\* The entries that lead no further say what is mapped.
Final(e, level) == level = 0 \/ ~ IsTable(e)
Faithful(T, U, L, S, F) ==
    /\ F \in [Place -> [pa : Int, perm : SUBSET PWU]]
    /\ \A t \in U, a \in Place :
        LET e == T[t][pageindex(a, L[t])] IN
        Covers(L, S, t, a) /\ Final(e, L[t]) => F[a] = Says(e, a, L[t])

\* A vmiter is in a table that is for its address; or at an address that no
\* table is for.
Iters == [va : VA, level : Levels, tab : Nat, idx : Nat, perm : SUBSET Flags]
Good(U, L, S, i) ==
    /\ i \in Iters
    /\ IF va_is_canonical(i.va)
       THEN /\ i.tab \in U /\ i.level = L[i.tab]
            /\ Covers(L, S, i.tab, i.va % Places) /\ i.idx = pageindex(i.va, i.level)
            /\ i.perm = IF i.level = 3 THEN Flags ELSE PWU
       ELSE i.tab = ZeroPe /\ i.level = 3 /\ i.idx = 0 /\ i.perm = {}

-----------------------------------------------------------------------------
(* The walk of a ptiter p. *)

\* The tables below this level are visited in the entry that the ptiter is at.
Depth(p) == IF p.skip THEN p.level ELSE p.stop - 1
Visited(L, S, p, t) ==
    \/ Q(S[t], L[t] + 1) < Q(p.va, L[t] + 1)
    \/ Q(S[t], L[t] + 1) = Q(p.va, L[t] + 1) /\ L[t] < Depth(p)

\* Where it is.
PtIters == [va : Place, level : 1 .. 3, tab : Pages, idx : Index, skip : BOOLEAN, stop : 1 .. 3]
Standing(U, L, S, p) ==
    /\ p \in PtIters
    /\ p.tab \in U /\ p.level = L[p.tab] /\ p.stop <= p.level
    /\ Covers(L, S, p.tab, p.va) /\ p.idx = pageindex(p.va, p.level)
    /\ p.skip => p.stop = 1

\* Below its depth, no table of the entry lies behind the ptiter's address.
Behind(U, L, S, p) ==
    \A t \in U : L[t] < Depth(p) /\ Q(S[t], Depth(p)) = Q(p.va, Depth(p))
        => Q(S[t], L[t] + 1) <= Q(p.va, L[t] + 1)

\* On the way up from a table, the ptiter is at the table's end.
Rising(U, L, S, p) ==
    p.stop > 1 =>
        /\ pageindex(p.va, p.stop - 1) = B - 1
        /\ \E t \in U : L[t] = p.stop - 1 /\ Covers(L, S, t, p.va)

\* It has visited what it has passed; V are the tables that it has visited.
Passing(U, L, S, p, V) ==
    /\ Standing(U, L, S, p) /\ Behind(U, L, S, p) /\ Rising(U, L, S, p)
    /\ V = {t \in U \ {Root} : Visited(L, S, p, t)}
Walking(T, U, L, S, w, p, V) ==
    /\ w \in {"down", "at"} => Passing(U, L, S, p, V)
    /\ w = "at" => ~ p.skip /\ p.level = p.stop /\ IsTable(Pe(T, p))
    /\ w = "done" => V = U \ {Root}

IterInv ==
    /\ walk \in {"idle", "down", "at", "done"}
    /\ \E L \in [Pages -> Levels], S \in [Pages -> Place] :
        /\ Tree(tables, used, L, S) /\ Faithful(tables, used, L, S, flat)
        /\ Good(used, L, S, it)
        /\ Walking(tables, used, L, S, walk, pit, seen)

-----------------------------------------------------------------------------
(* Regions. *)

\* What division gives.
LEMMA DivMod ==
    ASSUME NEW x \in Int, NEW d \in Nat, d > 0
    PROVE  /\ x \div d \in Int /\ x % d \in 0 .. d - 1 /\ x = d * (x \div d) + (x % d)
           /\ x >= 0 => x \div d >= 0
  BY Z3

\* There is one quotient.
LEMMA DivOne ==
    ASSUME NEW x \in Int, NEW d \in Nat, d > 0, NEW q \in Int, NEW r \in 0 .. d - 1,
           x = d * q + r
    PROVE  x \div d = q /\ x % d = r
<1> DEFINE y == x \div d
           s == x % d
<1>1. y \in Int /\ s \in 0 .. d - 1 /\ x = d * y + s
  BY DivMod
<1> HIDE DEF y, s
<1>2. d * (y - q) = r - s
  BY <1>1, Z3
<1>3. ~ (y > q) /\ ~ (y < q)
  <2>1. ASSUME y > q PROVE FALSE
    <3>1. y - q >= 1 BY <1>1, <2>1
    <3>2. d * (y - q) >= d BY <3>1, <1>1, Z3
    <3>3. QED BY <1>1, <1>2, <3>2
  <2>2. ASSUME y < q PROVE FALSE
    <3>1. q - y >= 1 BY <1>1, <2>2
    <3>2. d * (q - y) >= d BY <3>1, <1>1, Z3
    <3>3. d * (q - y) = - (d * (y - q)) BY <1>1, Z3
    <3>4. QED BY <1>1, <1>2, <3>2, <3>3
  <2>3. QED BY <2>1, <2>2
<1>4. y = q BY <1>1, <1>3
<1>5. s = r BY <1>1, <1>4
<1>6. QED BY <1>4, <1>5 DEF y, s

\* A part of a part.
LEMMA DivDiv ==
    ASSUME NEW x \in Nat, NEW d \in Nat, d > 0, NEW b \in Nat, b > 0
    PROVE  d * b \in Nat /\ d * b > 0 /\ (x \div d) \div b = x \div (b * d)
<1> DEFINE q == x \div d
           r == x % d
           p == q \div b
           s == q % b
<1>1. q \in Nat /\ r \in 0 .. d - 1 /\ x = d * q + r
  BY DivMod
<1>2. p \in Nat /\ s \in 0 .. b - 1 /\ q = b * p + s
  <2> HIDE DEF q
  <2>1. QED BY <1>1, DivMod
<1>3. x \div (b * d) = p
  <2> HIDE DEF q, r, p, s
  <2>1. b * d \in Nat /\ b * d > 0 BY Z3
  <2>2. x = (b * d) * p + (d * s + r) BY <1>1, <1>2, Z3
  <2>3. d * s + r >= 0 BY <1>1, <1>2, Z3
  <2>4. d * s + r < b * d
    <3>1. d * s <= d * (b - 1) BY <1>2, Z3
    <3>2. d * (b - 1) = b * d - d BY Z3
    <3>3. d * s \in Int BY <1>2
    <3>4. QED BY <1>1, <3>1, <3>2, <3>3, <2>1
  <2>5. d * s + r \in Int BY <1>1, <1>2
  <2>6. d * s + r \in 0 .. (b * d) - 1 BY <2>1, <2>3, <2>4, <2>5
  <2>7. QED BY <2>1, <2>2, <2>6, <1>1, <1>2, DivOne
<1>4. d * b \in Nat /\ d * b > 0 BY Z3
<1>5. QED BY <1>3, <1>4

\* The regions of the five levels: the recursive function has the values that
\* it is meant to have.
LEMMA Spans ==
    /\ Span[0] = 1 /\ Span[1] = B /\ Span[2] = B * Span[1]
    /\ Span[3] = B * Span[2] /\ Span[4] = B * Span[3]
    /\ \A l \in 0 .. 3 : Span[l + 1] = B * Span[l]
    /\ \A l \in 0 .. 4 : Span[l] \in Nat /\ Span[l] > 0
<1> DEFINE H(f) == [l \in 0 .. 4 |-> IF l = 0 THEN 1 ELSE B * f[l - 1]]
           g == [l \in 0 .. 4 |-> IF l = 0 THEN 1 ELSE IF l = 1 THEN B ELSE IF l = 2 THEN B * B
                                  ELSE IF l = 3 THEN B * (B * B) ELSE B * (B * (B * B))]
<1>0. B \in Nat /\ B > 0
  BY TableAssumption
<1>1. g = H(g)
  <2>1. ASSUME NEW l \in 0 .. 4 PROVE g[l] = H(g)[l]
    <3>1. l = 0 \/ l = 1 \/ l = 2 \/ l = 3 \/ l = 4 OBVIOUS
    <3>2. l # 0 => l - 1 \in 0 .. 4 OBVIOUS
    <3>3. QED BY <1>0, <3>1, <3>2
  <2>2. QED BY <2>1
<1>2. Span = H(Span)
  BY <1>1 DEF Span
<1>3. \A l \in 0 .. 4 : Span[l] = IF l = 0 THEN 1 ELSE B * Span[l - 1]
  BY <1>2
<1> HIDE DEF H, g
<1>4. Span[0] = 1 BY <1>3
<1>5. Span[1] = B BY <1>0, <1>3, <1>4
<1>6. Span[2] = B * Span[1] BY <1>3
<1>7. Span[3] = B * Span[2] BY <1>3
<1>8. Span[4] = B * Span[3] BY <1>3
<1>9. \A l \in 0 .. 3 : Span[l + 1] = B * Span[l] BY <1>3
<1>10. ASSUME NEW x \in Nat, x > 0 PROVE B * x \in Nat /\ B * x > 0
  BY <1>0, <1>10, DivDiv
<1>11. Span[2] \in Nat /\ Span[2] > 0 BY <1>0, <1>5, <1>6, <1>10
<1>12. Span[3] \in Nat /\ Span[3] > 0 BY <1>7, <1>11, <1>10
<1>13. Span[4] \in Nat /\ Span[4] > 0 BY <1>8, <1>12, <1>10
<1>14. ASSUME NEW l \in 0 .. 4 PROVE Span[l] \in Nat /\ Span[l] > 0
  <2>1. l = 0 \/ l = 1 \/ l = 2 \/ l = 3 \/ l = 4 OBVIOUS
  <2>2. QED BY <2>1, <1>0, <1>4, <1>5, <1>11, <1>12, <1>13
<1>15. QED BY <1>4, <1>5, <1>6, <1>7, <1>8, <1>9, <1>14

\* A region and the part of it that a table's index tells.
LEMMA Parts ==
    ASSUME NEW a \in Nat, NEW l \in 0 .. 3
    PROVE  /\ Q(a, l) \in Nat /\ Q(a, l + 1) \in Nat /\ pageindex(a, l) \in Index
           /\ Q(a, l) = B * Q(a, l + 1) + pageindex(a, l)
<1> DEFINE d == Span[l]
           q == a \div d
<1>1. B \in Nat /\ B > 0 /\ d \in Nat /\ d > 0 /\ Span[l + 1] = B * d
  BY Spans, TableAssumption
<1>2. q \in Nat
  BY <1>1, DivMod
<1>3. q \div B = a \div Span[l + 1]
  <2> HIDE DEF d
  <2>1. d > 0 /\ B > 0 /\ d \in Nat /\ B \in Nat BY <1>1
  <2>2. (a \div d) \div B = a \div (B * d) BY ONLY a \in Nat, <2>1, DivDiv
  <2>3. B * d = Span[l + 1] BY <1>1
  <2>4. QED BY <2>2, <2>3
<1> HIDE DEF q
<1>4. q \div B \in Nat /\ q % B \in 0 .. B - 1 /\ q = B * (q \div B) + (q % B)
  BY <1>1, <1>2, DivMod
<1>5. Q(a, l) = q /\ Q(a, l + 1) = q \div B /\ pageindex(a, l) = q % B
  BY <1>3 DEF Q, pageindex, q
<1>6. QED BY <1>2, <1>4, <1>5 DEF Index

\* Regions are numbered from 0 on.
LEMMA RegionType == ASSUME NEW a \in Nat, NEW l \in 0 .. 4 PROVE Q(a, l) \in Nat
<1>1. l \in 0 .. 3 \/ l = 4 OBVIOUS
<1>2. l \in 0 .. 3 => Q(a, l) \in Nat BY Parts
<1>3. Q(a, 3 + 1) \in Nat BY Parts
<1>4. QED BY <1>1, <1>2, <1>3

\* Regions lie in the order of the addresses, ...
LEMMA RegionUp ==
    ASSUME NEW a \in Nat, NEW b \in Nat, NEW l \in 0 .. 3, Q(a, l) <= Q(b, l)
    PROVE  Q(a, l + 1) <= Q(b, l + 1)
<1> DEFINE p == Q(a, l + 1)
           q == Q(b, l + 1)
           x == pageindex(a, l)
           y == pageindex(b, l)
<1>1. p \in Nat /\ q \in Nat /\ x \in 0 .. B - 1 /\ y \in 0 .. B - 1 /\ B * p + x <= B * q + y
  BY Parts DEF Index
<1>2. B \in Nat /\ B > 0 BY TableAssumption
<1> HIDE DEF p, q, x, y
<1>3. ASSUME p > q PROVE FALSE
  <2>1. p - q >= 1 BY <1>1, <1>3
  <2>2. B * (p - q) >= B BY <1>1, <1>2, <2>1, Z3
  <2>3. B * p - B * q = B * (p - q) BY <1>1, <1>2, Z3
  <2>4. B * p \in Int /\ B * q \in Int BY <1>1, <1>2
  <2>5. QED BY <1>1, <1>2, <2>2, <2>3, <2>4
<1>4. p <= q BY <1>1, <1>3
<1>5. QED BY <1>4 DEF p, q

\* ... at every level above.
LEMMA RegionMono ==
    ASSUME NEW a \in Nat, NEW b \in Nat, NEW l \in 0 .. 4, NEW m \in 0 .. 4, l <= m
    PROVE  /\ Q(a, l) <= Q(b, l) => Q(a, m) <= Q(b, m)
           /\ Q(a, l) = Q(b, l) => Q(a, m) = Q(b, m)
           /\ Q(a, m) < Q(b, m) => Q(a, l) < Q(b, l)
<1> DEFINE P(x, y, i, j) == Q(x, i) <= Q(y, i) => Q(x, j) <= Q(y, j)
<1>1. ASSUME NEW x \in Nat, NEW y \in Nat PROVE P(x, y, l, m)
  <2>1. ASSUME NEW k \in 0 .. 3 PROVE P(x, y, k, k + 1)
    BY RegionUp
  <2>2. P(x, y, 0, 1) /\ P(x, y, 1, 2) /\ P(x, y, 2, 3) /\ P(x, y, 3, 4)
    <3>1. P(x, y, 0, 0 + 1) /\ P(x, y, 1, 1 + 1) /\ P(x, y, 2, 2 + 1) /\ P(x, y, 3, 3 + 1)
      <4> HIDE DEF P
      <4>1. QED BY <2>1
    <3>2. QED BY <3>1
  <2>3. l = 0 \/ l = 1 \/ l = 2 \/ l = 3 \/ l = 4 OBVIOUS
  <2>4. m = 0 \/ m = 1 \/ m = 2 \/ m = 3 \/ m = 4 OBVIOUS
  <2>5. QED BY <2>2, <2>3, <2>4
<1>2. Q(a, l) \in Nat /\ Q(b, l) \in Nat /\ Q(a, m) \in Nat /\ Q(b, m) \in Nat
  BY RegionType
<1>3. P(a, b, l, m) /\ P(b, a, l, m) BY <1>1
<1>4. QED BY <1>2, <1>3

\* The index tells the parts of one region apart, in their order.
LEMMA RegionIndex ==
    ASSUME NEW a \in Nat, NEW b \in Nat, NEW l \in 0 .. 3, Q(a, l + 1) = Q(b, l + 1)
    PROVE  /\ Q(a, l) = Q(b, l) <=> pageindex(a, l) = pageindex(b, l)
           /\ Q(a, l) < Q(b, l) <=> pageindex(a, l) < pageindex(b, l)
<1>0. B \in Nat BY TableAssumption
<1>1. B * Q(b, l + 1) \in Int
  <2>1. Q(b, l + 1) \in Nat BY Parts
  <2>2. QED BY <1>0, <2>1
<1>2. pageindex(a, l) \in Int /\ pageindex(b, l) \in Int
  <2>1. pageindex(a, l) \in Index /\ pageindex(b, l) \in Index BY Parts
  <2>2. QED BY <1>0, <2>1 DEF Index
<1>3. Q(a, l) = B * Q(b, l + 1) + pageindex(a, l) /\ Q(b, l) = B * Q(b, l + 1) + pageindex(b, l)
  BY Parts
<1>4. QED BY <1>1, <1>2, <1>3

\* Regions of a level fill the region of a level above.
LEMMA SpanTimes ==
    ASSUME NEW l \in 0 .. 3
    PROVE  Span[3] = Span[3 - l] * Span[l] /\ Span[4] = Span[4 - l] * Span[l]
<1>1. B \in Nat /\ Span[1] \in Nat /\ Span[2] \in Nat /\ Span[3] \in Nat /\ Span[4] \in Nat
  BY Spans, TableAssumption
<1>2. l = 0 \/ l = 1 \/ l = 2 \/ l = 3 OBVIOUS
<1>3. CASE l = 0 BY <1>1, <1>3, Spans
<1>4. CASE l = 1
  <2>1. Span[3] = Span[2] * Span[1] /\ Span[4] = Span[3] * Span[1] BY <1>1, Spans, Z3
  <2>2. QED BY <1>4, <2>1
<1>5. CASE l = 2
  <2>1. Span[3] = Span[1] * Span[2] /\ Span[4] = Span[2] * Span[2] BY <1>1, Spans, Z3
  <2>2. QED BY <1>5, <2>1
<1>6. CASE l = 3
  <2>1. Span[3] = Span[0] * Span[3] /\ Span[4] = Span[1] * Span[3] BY <1>1, Spans, Z3
  <2>2. QED BY <1>6, <2>1
<1>7. QED BY <1>2, <1>3, <1>4, <1>5, <1>6

\* What lies before the k-th region.
LEMMA RegionBound ==
    ASSUME NEW a \in Nat, NEW l \in 0 .. 4, NEW k \in Nat
    PROVE  k * Span[l] \in Nat /\ (a < k * Span[l] <=> Q(a, l) < k)
<1> DEFINE d == Span[l]
           q == a \div d
           r == a % d
<1>1. d \in Nat /\ d > 0 BY Spans
<1> HIDE DEF d
<1>2. q \in Nat /\ r \in 0 .. d - 1 /\ a = d * q + r
  BY <1>1, DivMod
<1>3. Q(a, l) = q BY DEF Q, d
<1> HIDE DEF q, r
<1>4. k * d \in Nat BY <1>1
<1>5. ASSUME q < k PROVE a < k * d
  <2>1. k - q >= 1 BY <1>2, <1>5
  <2>2. d * (k - q) >= d BY <1>1, <1>2, <2>1, Z3
  <2>3. k * d - d * q = d * (k - q) BY <1>1, <1>2, Z3
  <2>4. d * q \in Int BY <1>1, <1>2
  <2>5. QED BY <1>1, <1>2, <1>4, <2>2, <2>3, <2>4
<1>6. ASSUME q >= k PROVE ~ (a < k * d)
  <2>1. q - k >= 0 BY <1>2, <1>6
  <2>2. d * (q - k) >= 0 BY <1>1, <1>2, <2>1, Z3
  <2>3. d * q - k * d = d * (q - k) BY <1>1, <1>2, Z3
  <2>4. d * q \in Int BY <1>1, <1>2
  <2>5. QED BY <1>1, <1>2, <1>4, <2>2, <2>3, <2>4
<1>7. QED BY <1>2, <1>3, <1>4, <1>5, <1>6 DEF d

\* Half of the root's entries are for the lower half of the addresses.
Half == B \div 2

\* The bounds of the address space, in regions of the root's entries: va_is_canonical
\* is a matter of the root's index.
LEMMA Bounds ==
    /\ Places \in Nat /\ Places > 0 /\ Space = 2 * Places /\ LOWEND \in Nat
    /\ Half \in Nat /\ Half > 0 /\ B = 2 * Half
    /\ Space - LOWEND \in Nat
    /\ LOWEND = Half * Span[3] /\ Space - LOWEND = (3 * Half) * Span[3]
    /\ 2 * LOWEND = Places
<1>1. B \in Nat /\ B > 0 /\ B % 2 = 0 BY TableAssumption
<1>2. Half \in Int /\ B = 2 * Half /\ Half >= 0
  BY <1>1, DivMod DEF Half
<1>3. Half > 0 BY <1>1, <1>2
<1>4. Places \in Nat /\ Places > 0 /\ Span[3] \in Nat BY Spans DEF Places
<1>5. Half * Span[3] \in Nat BY <1>2, <1>4, Z3
<1>6. Places = 2 * (Half * Span[3]) + 0
  <2>1. Places = B * Span[3] BY Spans DEF Places
  <2>2. QED BY <1>2, <1>4, <2>1, Z3
<1>7. LOWEND = Half * Span[3]
  <2> DEFINE x == Half * Span[3]
  <2> HIDE DEF x
  <2>1. x \in Nat /\ Places = 2 * x + 0 BY <1>5, <1>6 DEF x
  <2>2. Places \div 2 = x BY <1>4, <2>1, DivOne
  <2>3. QED BY <2>2 DEF x, LOWEND
<1>8. Space = 2 * Places BY DEF Space
<1>9. Space - LOWEND = 3 * LOWEND /\ 2 * LOWEND = Places BY <1>4, <1>5, <1>6, <1>7, <1>8
<1>10. 3 * (Half * Span[3]) = (3 * Half) * Span[3] BY <1>2, <1>4, Z3
<1>11. QED BY <1>2, <1>3, <1>4, <1>5, <1>7, <1>8, <1>9, <1>10

\* Is the address canonical?  Its region of level 3 tells.
LEMMA Canonical ==
    ASSUME NEW a \in VA
    PROVE  /\ a \in Nat /\ a < LOWEND <=> Q(a, 3) < Half
           /\ va_is_canonical(a) <=> Q(a, 3) < Half \/ Q(a, 3) >= 3 * Half
<1>1. a \in Nat BY Bounds DEF VA
<1>2. a < LOWEND <=> Q(a, 3) < Half BY <1>1, Bounds, RegionBound
<1>3. a < Space - LOWEND <=> Q(a, 3) < 3 * Half BY <1>1, Bounds, RegionBound
<1>4. Q(a, 3) \in Nat BY <1>1, RegionType
<1>5. QED BY <1>1, <1>2, <1>3, <1>4, Bounds DEF va_is_canonical

\* The upper half of the addresses repeats the lower one.
LEMMA Upper ==
    ASSUME NEW a \in Nat, NEW l \in 0 .. 3
    PROVE  /\ Span[4 - l] \in Nat /\ Q(a + Places, l) = Q(a, l) + Span[4 - l]
           /\ pageindex(a + Places, l) = pageindex(a, l)
           /\ (a + Places) % Span[l] = a % Span[l]
<1> DEFINE d == Span[l]
           k == Span[4 - l]
           c == Span[3 - l]
           q == a \div d
           r == a % d
<1>1. d \in Nat /\ d > 0 /\ k \in Nat /\ Places = k * d /\ B \in Nat /\ B > 0
  <2>1. 4 - l \in 0 .. 4 OBVIOUS
  <2>2. QED BY <2>1, Spans, SpanTimes, TableAssumption DEF Places
<1>2. c \in Nat /\ k = B * c
  <2>1. 3 - l \in 0 .. 3 /\ (3 - l) + 1 = 4 - l OBVIOUS
  <2>2. QED BY <2>1, Spans
<1> HIDE DEF d, k, c
<1>3. q \in Nat /\ r \in 0 .. d - 1 /\ a = d * q + r
  BY <1>1, DivMod
<1> HIDE DEF q, r
<1>4. (a + Places) \div d = q + k /\ (a + Places) % d = r
  <2>1. a + Places = d * (q + k) + r BY <1>1, <1>3, Z3
  <2>2. a + Places \in Int /\ q + k \in Int BY <1>1, <1>3, Z3
  <2>3. QED BY <1>1, <1>3, <2>1, <2>2, DivOne
<1>5. (q + k) % B = q % B
  <2> DEFINE x == q \div B
             y == q % B
  <2>1. x \in Int /\ y \in 0 .. B - 1 /\ q = B * x + y BY <1>1, <1>3, DivMod
  <2> HIDE DEF x, y
  <2>2. q + k = B * (x + c) + y BY <1>1, <1>2, <2>1, Z3
  <2>3. q + k \in Int /\ x + c \in Int BY <1>1, <1>2, <1>3, <2>1
  <2>4. (q + k) % B = y BY <1>1, <2>1, <2>2, <2>3, DivOne
  <2>5. QED BY <2>4 DEF y
<1>6. QED BY <1>1, <1>4, <1>5 DEF Q, pageindex, d, k, q, r

\* The place of an address: its region decides about its place's region, and
\* the indices are the same.
LEMMA PlaceOf ==
    ASSUME NEW a \in VA
    PROVE  /\ a % Places \in Place
           /\ a % Places = IF a < Places THEN a ELSE a - Places
           /\ \A l \in 0 .. 3 : /\ pageindex(a, l) = pageindex(a % Places, l)
                                /\ a % Span[l] = (a % Places) % Span[l]
<1>1. a \in Nat /\ a < 2 * Places /\ Places \in Nat /\ Places > 0 BY Bounds DEF VA
<1>2. CASE a < Places
  <2>1. a = Places * 0 + a /\ a \in 0 .. Places - 1 BY <1>1, <1>2
  <2>2. a % Places = a BY <1>1, <2>1, DivOne
  <2>3. QED BY <1>2, <2>1, <2>2 DEF Place
<1>3. CASE a >= Places
  <2> DEFINE b == a - Places
  <2>1. a = Places * 1 + b /\ b \in 0 .. Places - 1 BY <1>1, <1>3
  <2>2. a % Places = b
    <3> HIDE DEF b
    <3>1. QED BY <1>1, <2>1, DivOne
  <2>3. b \in Nat /\ a = b + Places BY <1>1, <1>3
  <2> HIDE DEF b
  <2>4. \A l \in 0 .. 3 : pageindex(a, l) = pageindex(b, l) /\ a % Span[l] = b % Span[l]
    BY <2>3, Upper
  <2>5. QED BY <1>1, <1>3, <2>1, <2>2, <2>4 DEF Place, b
<1>4. QED BY <1>1, <1>2, <1>3

\* Two addresses of one region are both canonical or both not, and their
\* places are of one region.
LEMMA SameRegion ==
    ASSUME NEW a \in VA, NEW b \in VA, NEW l \in 0 .. 3, Q(a, l) = Q(b, l)
    PROVE  /\ va_is_canonical(a) <=> va_is_canonical(b)
           /\ Q(a % Places, l) = Q(b % Places, l)
<1>1. a \in Nat /\ b \in Nat /\ Places \in Nat BY Bounds DEF VA
<1>2. Q(a, 3) = Q(b, 3) BY <1>1, RegionMono
<1>3. va_is_canonical(a) <=> va_is_canonical(b) BY <1>2, Canonical
<1>4. Span[4 - l] \in Nat /\ (a < Places <=> Q(a, l) < Span[4 - l]) /\ (b < Places <=> Q(b, l) < Span[4 - l])
  <2>1. 4 - l \in 0 .. 4 /\ l \in 0 .. 4 OBVIOUS
  <2>2. Span[4 - l] \in Nat BY <2>1, Spans
  <2>3. Places = Span[4 - l] * Span[l] BY SpanTimes DEF Places
  <2>4. QED BY <1>1, <2>1, <2>2, <2>3, RegionBound
<1>5. CASE a < Places
  <2>1. a % Places = a /\ b % Places = b BY <1>4, <1>5, PlaceOf
  <2>2. QED BY <1>3, <2>1
<1>6. CASE ~ (a < Places)
  <2> DEFINE x == a - Places
             y == b - Places
  <2>1. a % Places = x /\ b % Places = y BY <1>4, <1>6, PlaceOf
  <2>2. x \in Nat /\ y \in Nat /\ a = x + Places /\ b = y + Places BY <1>1, <1>4, <1>6
  <2> HIDE DEF x, y
  <2>3. Q(a, l) = Q(x, l) + Span[4 - l] /\ Q(b, l) = Q(y, l) + Span[4 - l] BY <2>2, Upper
  <2>4. Q(x, l) \in Nat /\ Q(y, l) \in Nat BY <2>2, RegionType
  <2>5. \A u, v, k \in Nat : u + k = v + k => u = v OBVIOUS
  <2>6. Q(x, l) + Span[4 - l] = Q(y, l) + Span[4 - l] BY <2>3
  <2>7. Q(x, l) = Q(y, l) BY <1>4, <2>4, <2>5, <2>6
  <2>8. QED BY <1>3, <2>1, <2>7
<1>7. QED BY <1>3, <1>5, <1>6

\* The end of an address's region.
End(a, l) == (Q(a, l) + 1) * Span[l]

\* What lies before the end of a region, and what After gives: the end, or 0 when
\* (va | pageoffmask(level)) + 1 wraps around.
LEMMA Ends ==
    ASSUME NEW a \in VA, NEW l \in 0 .. 3
    PROVE  /\ End(a, l) \in Nat /\ a < End(a, l) /\ End(a, l) <= Space
           /\ \A b \in Nat : b < End(a, l) <=> Q(b, l) <= Q(a, l)
           /\ Q(End(a, l), l) = Q(a, l) + 1
           /\ a < Places => End(a, l) <= Places
           /\ a < LOWEND => End(a, l) <= LOWEND
           /\ After(a, l) = IF End(a, l) = Space THEN 0 ELSE End(a, l)
<1> DEFINE s == End(a, l)
           q == Q(a, l)
           d == Span[l]
<1>1. a \in Nat /\ a < Space /\ Space \in Nat /\ Space > 0 BY Bounds DEF VA
<1>2. q \in Nat /\ d \in Nat /\ d > 0
  <2>1. l \in 0 .. 4 OBVIOUS
  <2>2. q \in Nat BY <1>1, <2>1, RegionType
  <2>3. d \in Nat /\ d > 0 BY <2>1, Spans
  <2>4. QED BY <2>2, <2>3
<1>3. s = (q + 1) * d BY DEF End
<1> HIDE DEF s, q, d
<1>4. s \in Nat BY <1>2, <1>3
<1>5. ASSUME NEW b \in Nat PROVE b < s <=> Q(b, l) <= q
  <2>1. Q(b, l) \in Nat BY RegionType
  <2>2. b < s <=> Q(b, l) < q + 1 BY <1>2, <1>3, RegionBound DEF d
  <2>3. QED BY <1>2, <2>1, <2>2
<1>6. a < s BY <1>1, <1>2, <1>5 DEF q
<1>7. ASSUME NEW k \in Nat, a < k * d PROVE s <= k * d
  <2>1. q < k BY <1>1, <1>7, RegionBound DEF q, d
  <2>2. k - (q + 1) >= 0 BY <1>2, <2>1
  <2>3. d * (k - (q + 1)) >= 0 BY <1>2, <2>2, Z3
  <2>4. k * d - (q + 1) * d = d * (k - (q + 1)) BY <1>2, Z3
  <2>5. k * d \in Int BY <1>2
  <2>6. QED BY <1>3, <1>4, <2>3, <2>4, <2>5
<1>8. Q(s, l) = q + 1
  <2>1. s = d * (q + 1) + 0 BY <1>2, <1>3, Z3
  <2>2. s \div d = q + 1 BY <1>2, <1>4, <2>1, DivOne
  <2>3. QED BY <2>2 DEF Q, d
<1>9. Places = Span[4 - l] * d /\ Span[4 - l] \in Nat
  <2>1. 4 - l \in 0 .. 4 OBVIOUS
  <2>2. QED BY <2>1, Spans, SpanTimes DEF Places, d
<1>10. a < Places => s <= Places BY <1>7, <1>9
<1>11. s <= Space
  <2>1. (2 * Span[4 - l]) * d = 2 * (Span[4 - l] * d) BY <1>2, <1>9, Z3
  <2>2. 2 * Span[4 - l] \in Nat BY <1>9
  <2>3. Space = (2 * Span[4 - l]) * d BY <1>9, <2>1, Bounds
  <2>4. QED BY <1>1, <1>7, <2>2, <2>3
<1>12. a < LOWEND => s <= LOWEND
  <2>1. Span[3] = Span[3 - l] * d /\ Span[3 - l] \in Nat
    <3>1. 3 - l \in 0 .. 4 OBVIOUS
    <3>2. QED BY <3>1, Spans, SpanTimes DEF d
  <2>2. Half \in Nat /\ LOWEND = Half * Span[3] BY Bounds
  <2>3. Half * (Span[3 - l] * d) = (Half * Span[3 - l]) * d /\ Half * Span[3 - l] \in Nat
    BY <1>2, <2>1, <2>2, Z3
  <2>4. QED BY <1>7, <2>1, <2>2, <2>3
<1>13. After(a, l) = s % Space
  BY <1>3 DEF After, Q, q, d
<1>14. s < Space => s % Space = s
  <2>1. s = Space * 0 + s BY <1>1, <1>4
  <2>2. s < Space => s \in 0 .. Space - 1 BY <1>1, <1>4
  <2>3. QED BY <1>1, <1>4, <2>1, <2>2, DivOne
<1>15. s = Space => s % Space = 0
  <2>1. s = Space => s = Space * 1 + 0 BY <1>1, <1>4
  <2>2. 0 \in 0 .. Space - 1 BY <1>1
  <2>3. QED BY <1>1, <1>4, <2>1, <2>2, DivOne
<1>16. After(a, l) = IF s = Space THEN 0 ELSE s
  BY <1>1, <1>4, <1>11, <1>13, <1>14, <1>15
<1>17. QED BY <1>4, <1>5, <1>6, <1>8, <1>10, <1>11, <1>12, <1>16 DEF s, q
-----------------------------------------------------------------------------
(* The tree. *)

\* The sets of the model, as sets of numbers.
LEMMA Constants ==
    /\ B \in Nat /\ B > 0 /\ Index \subseteq Nat /\ 0 \in Index
    /\ Pages \subseteq Nat /\ 0 \notin Pages /\ Root \in Pages
    /\ Place \subseteq Nat /\ Place \subseteq VA /\ VA \subseteq Nat /\ 0 \in Place
<1>1. B \in Nat /\ B > 0 /\ 1 .. 5 \subseteq Pages /\ Pages \subseteq Nat \ {0}
  BY TableAssumption
<1>2. 1 \in 1 .. 5 OBVIOUS
<1>3. Places \in Nat /\ Places > 0 /\ Space = 2 * Places BY Bounds
<1>4. QED BY <1>1, <1>2, <1>3 DEF Index, Root, Place, VA

\* The whole tree is for all places.
LEMMA Whole == ASSUME NEW a \in Place PROVE Q(a, 4) = 0
<1>1. a \in Nat /\ a < 1 * Span[4]
  BY Constants, Bounds DEF Place, Places
<1>2. Q(a, 4) < 1 BY <1>1, RegionBound
<1>3. Q(a, 4) \in Nat BY <1>1, RegionType
<1>4. QED BY <1>2, <1>3

\* The index is the same in all of a region.
LEMMA IndexOf ==
    ASSUME NEW a, NEW b, NEW l, Q(a, l) = Q(b, l) PROVE pageindex(a, l) = pageindex(b, l)
  BY DEF Q, pageindex

\* What try_map links is followed by down.
LEMMA LinkIsTable == ASSUME NEW c PROVE IsTable(Link(c))
  BY DEF IsTable, Link, PWU

\* Two places in one region are covered by the same tables from there up.
LEMMA CoversSame ==
    ASSUME NEW L \in [Pages -> Levels], NEW S \in [Pages -> Place], NEW t \in Pages,
           NEW a \in Place, NEW b \in Place, NEW l \in 0 .. 4, l <= L[t] + 1,
           Q(a, l) = Q(b, l)
    PROVE  Covers(L, S, t, a) <=> Covers(L, S, t, b)
<1>1. L[t] + 1 \in 0 .. 4 BY DEF Levels
<1>2. a \in Nat /\ b \in Nat BY Constants
<1>3. Q(a, L[t] + 1) = Q(b, L[t] + 1) BY <1>1, <1>2, RegionMono
<1>4. QED BY <1>3 DEF Covers

\* A table is reached from every level above it.
LEMMA Above ==
    ASSUME NEW T, NEW U, NEW L, NEW S, Tree(T, U, L, S), NEW c \in U, NEW m \in Levels, L[c] < m
    PROVE  \E t \in U : /\ L[t] = m /\ Covers(L, S, t, S[c])
                        /\ IsTable(T[t][pageindex(S[c], m)])
<1> DEFINE X(d) == \E t \in U : /\ L[t] = m /\ Covers(L, S, t, S[d])
                                /\ IsTable(T[t][pageindex(S[d], m)])
<1>1. U \subseteq Pages /\ L \in [Pages -> Levels] /\ S \in [Pages -> Place]
  BY DEF Tree, Typed
<1>2. ASSUME NEW d \in U, L[d] < m, \A p \in U : L[p] = L[d] + 1 /\ L[p] < m => X(p)
      PROVE  X(d)
  <2>1. d # Root
    <3>1. L[d] # 3 BY <1>1, <1>2 DEF Levels
    <3>2. QED BY <3>1 DEF Tree, Typed
  <2>2. PICK p \in U : /\ L[p] = L[d] + 1 /\ Covers(L, S, p, S[d])
                       /\ T[p][pageindex(S[d], L[p])] = Link(d)
    BY <2>1 DEF Tree, Reached
  <2>3. CASE L[p] = m
    BY <2>2, <2>3, LinkIsTable
  <2>4. CASE L[p] # m
    <3>1. L[p] < m /\ L[p] + 1 <= m /\ L[p] + 1 \in 0 .. 4 /\ m + 1 \in 0 .. 4 /\ m \in 0 .. 4
      BY <1>1, <1>2, <2>2, <2>4 DEF Levels
    <3>2. PICK t \in U : /\ L[t] = m /\ Covers(L, S, t, S[p])
                         /\ IsTable(T[t][pageindex(S[p], m)])
      BY <1>2, <2>2, <3>1
    <3>3. S[p] \in Nat /\ S[d] \in Nat BY <1>1, Constants
    <3>4. Q(S[d], L[p] + 1) = Q(S[p], L[p] + 1) BY <2>2 DEF Covers
    <3>5. Q(S[d], m) = Q(S[p], m) BY <3>1, <3>3, <3>4, RegionMono
    <3>6. Q(S[d], m + 1) = Q(S[p], m + 1) BY <3>1, <3>3, <3>4, RegionMono
    <3>7. pageindex(S[d], m) = pageindex(S[p], m) BY <3>5, IndexOf
    <3>8. Covers(L, S, t, S[d]) BY <3>2, <3>6 DEF Covers
    <3>9. QED BY <3>2, <3>7, <3>8
  <2>5. QED BY <2>3, <2>4
<1> HIDE DEF X
<1>3. \A d \in U : L[d] \in Levels BY <1>1
<1>4. ASSUME NEW d \in U, L[d] = 2, L[d] < m PROVE X(d)
  BY <1>2, <1>3, <1>4 DEF Levels
<1>5. ASSUME NEW d \in U, L[d] = 1, L[d] < m PROVE X(d)
  BY <1>2, <1>3, <1>4, <1>5 DEF Levels
<1>6. ASSUME NEW d \in U, L[d] = 0, L[d] < m PROVE X(d)
  BY <1>2, <1>3, <1>5, <1>6 DEF Levels
<1>7. L[c] = 0 \/ L[c] = 1 \/ L[c] = 2 BY <1>3 DEF Levels
<1>8. X(c) BY <1>4, <1>5, <1>6, <1>7
<1>9. QED BY <1>8 DEF X

\* One table of a level is for a place.
LEMMA Alone ==
    ASSUME NEW T, NEW U, NEW L, NEW S, Tree(T, U, L, S), NEW s \in U, NEW t \in U, NEW a,
           L[s] = L[t], Covers(L, S, s, a), Covers(L, S, t, a)
    PROVE  s = t
<1>1. Covers(L, S, s, S[t]) BY DEF Covers
<1>2. QED BY <1>1 DEF Tree, Distinct

\* If there is a table further down for a place, the way there is linked.
LEMMA Through ==
    ASSUME NEW T, NEW U, NEW L, NEW S, Tree(T, U, L, S), NEW c \in U, NEW t \in U,
           NEW a \in Place, L[c] < L[t], Covers(L, S, c, a), Covers(L, S, t, a)
    PROVE  IsTable(T[t][pageindex(a, L[t])])
<1> DEFINE m == L[t]
<1>1. U \subseteq Pages /\ L \in [Pages -> Levels] /\ S \in [Pages -> Place]
  BY DEF Tree, Typed
<1>2. m \in Levels /\ L[c] \in Levels BY <1>1
<1>3. PICK p \in U : L[p] = m /\ Covers(L, S, p, S[c]) /\ IsTable(T[p][pageindex(S[c], m)])
  BY <1>2, Above
<1>4. Q(a, L[c] + 1) = Q(S[c], L[c] + 1) BY DEF Covers
<1>5. L[c] + 1 <= m /\ L[c] + 1 \in 0 .. 4 /\ m \in 0 .. 4 /\ L[c] + 1 <= L[p] + 1
  BY <1>2, <1>3 DEF Levels
<1>6. S[c] \in Place /\ a \in Nat /\ S[c] \in Nat /\ p \in Pages BY <1>1, Constants
<1>7. Q(a, m) = Q(S[c], m) BY <1>4, <1>5, <1>6, RegionMono
<1>8. pageindex(a, m) = pageindex(S[c], m) BY <1>7, IndexOf
<1>9. Covers(L, S, p, a) BY <1>1, <1>3, <1>4, <1>5, <1>6, CoversSame
<1>10. p = t BY <1>3, <1>9, Alone
<1>11. QED BY <1>3, <1>8, <1>10
-----------------------------------------------------------------------------
(* vmiter. *)

\* What a vmiter in a table reads there.
LEMMA GoodPe ==
    ASSUME NEW T, NEW U, NEW L, NEW S, Tree(T, U, L, S), NEW i, Good(U, L, S, i),
           va_is_canonical(i.va)
    PROVE  /\ i.tab \in Pages /\ Pe(T, i) = T[i.tab][i.idx] /\ i.idx \in Index
           /\ i.va % Places \in Place /\ i.idx = pageindex(i.va % Places, i.level)
           /\ i.level \in 0 .. 3 /\ i.va \in VA /\ T[i.tab][i.idx] \in Entry
<1>1. i.tab \in U /\ i.idx = pageindex(i.va, i.level) /\ i \in Iters
  BY DEF Good
<1>2. i.va \in VA /\ i.level \in 0 .. 3 BY <1>1 DEF Iters, Levels
<1>3. i.tab \in Pages /\ i.tab # 0 BY <1>1, Constants DEF Tree, Typed
<1>4. Pe(T, i) = T[i.tab][i.idx] BY <1>3 DEF Pe, ZeroPe
<1>5. i.va % Places \in Place BY <1>2, PlaceOf
<1>6. pageindex(i.va, i.level) = pageindex(i.va % Places, i.level) BY <1>2, PlaceOf
<1>7. i.va \in Nat BY <1>2, Constants
<1>8. i.idx \in Index BY <1>1, <1>2, <1>7, Parts
<1>9. T[i.tab][i.idx] \in Entry BY <1>3, <1>8 DEF Tree, Typed
<1>10. QED BY <1>1, <1>2, <1>3, <1>4, <1>5, <1>6, <1>8, <1>9

\* An entry that is a table, above level 0, leads to the table for the part.
LEMMA LinkAt ==
    ASSUME NEW T, NEW U, NEW L, NEW S, Tree(T, U, L, S), NEW t \in U, NEW a \in Place,
           L[t] > 0, Covers(L, S, t, a), IsTable(T[t][pageindex(a, L[t])])
    PROVE  \E c \in U : /\ T[t][pageindex(a, L[t])] = Link(c) /\ L[c] = L[t] - 1
                        /\ Covers(L, S, c, a) /\ Covers(L, S, t, S[c])
<1> DEFINE n == pageindex(a, L[t])
<1>1. U \subseteq Pages /\ L \in [Pages -> Levels] /\ S \in [Pages -> Place]
  BY DEF Tree, Typed
<1>2. L[t] \in 0 .. 3 /\ a \in Nat BY <1>1, Constants DEF Levels
<1>3. n \in Index BY <1>2, Parts
<1>4. Inner(U, L, S, t, n, T[t][n]) BY <1>3 DEF Tree, Linked
<1>5. IsLink(U, L, S, t, n, T[t][n])
  BY <1>4 DEF Inner, IsLarge, IsTable, Absent
<1>6. PICK c \in U : /\ T[t][n] = Link(c) /\ L[c] = L[t] - 1
                     /\ Covers(L, S, t, S[c]) /\ pageindex(S[c], L[t]) = n
  BY <1>5 DEF IsLink
<1>7. S[c] \in Nat BY <1>1, Constants
<1>8. Q(S[c], L[t] + 1) = Q(a, L[t] + 1) BY <1>6 DEF Covers
<1>9. Q(S[c], L[t]) = Q(a, L[t]) BY <1>2, <1>6, <1>7, <1>8, RegionIndex
<1>10. L[c] + 1 = L[t] BY <1>2, <1>6
<1>11. Covers(L, S, c, a) BY <1>9, <1>10 DEF Covers
<1>12. QED BY <1>6, <1>11

FinalAt(T, i) == Final(Pe(T, i), i.level)

\* A step down goes to the table below, if there is one, and is for the same
\* address.
LEMMA Down1Good ==
    ASSUME NEW T, NEW U, NEW L, NEW S, Tree(T, U, L, S), NEW i, Good(U, L, S, i)
    PROVE  LET j == Down1(T, i) IN
           /\ Good(U, L, S, j) /\ j.va = i.va
           /\ IF FinalAt(T, i) THEN j = i ELSE j.level = i.level - 1
<1> DEFINE j == Down1(T, i)
<1>0. i.level \in Levels BY DEF Good, Iters
<1>1. CASE FinalAt(T, i)
  <2>1. j = i BY <1>0, <1>1 DEF FinalAt, Final, Down1, Levels
  <2>2. QED BY <1>1, <2>1
<1>2. CASE ~ FinalAt(T, i)
  <2> DEFINE e == Pe(T, i)
  <2>1. i.level > 0 /\ IsTable(e) BY <1>0, <1>2 DEF FinalAt, Final, Levels
  <2>2. va_is_canonical(i.va)
    <3>1. ASSUME ~ va_is_canonical(i.va) PROVE FALSE
      <4>1. e = Absent BY <3>1 DEF Good, Pe
      <4>2. QED BY <2>1, <4>1 DEF IsTable, Absent
    <3>2. QED BY <3>1
  <2>3. /\ i.tab \in U /\ i.level = L[i.tab] /\ Covers(L, S, i.tab, i.va % Places)
        /\ i.perm = IF i.level = 3 THEN Flags ELSE PWU
    BY <2>2 DEF Good
  <2>4. /\ i.va % Places \in Place /\ i.idx = pageindex(i.va % Places, i.level)
        /\ e = T[i.tab][i.idx] /\ i.va \in VA /\ i.level \in 0 .. 3
    BY <2>2, GoodPe
  <2>5. PICK c \in U : e = Link(c) /\ L[c] = L[i.tab] - 1 /\ Covers(L, S, c, i.va % Places)
    BY <2>1, <2>3, <2>4, LinkAt
  <2>6. e.to = c /\ e.perm = PWU BY <2>5 DEF Link
  <2> HIDE DEF e
  <2>7. j = [i EXCEPT !.level = @ - 1, !.perm = @ \cap PWU, !.tab = c,
                      !.idx = pageindex(i.va, i.level - 1)]
    BY <2>1, <2>6 DEF Down1, e
  <2>8. i.perm \cap PWU = PWU BY <2>3 DEF Flags
  <2>9. i \in Iters BY DEF Good
  <2>10. /\ j.va = i.va /\ j.level = i.level - 1 /\ j.tab = c /\ j.perm = PWU
         /\ j.idx = pageindex(i.va, i.level - 1)
    <3>1. /\ j.va = i.va /\ j.level = i.level - 1 /\ j.tab = c /\ j.perm = i.perm \cap PWU
          /\ j.idx = pageindex(i.va, i.level - 1)
      BY <2>7, <2>9 DEF Iters
    <3>2. QED BY <2>8, <3>1
  <2>11. i.level - 1 \in 0 .. 3 /\ i.level - 1 # 3 BY <2>1, <2>4
  <2>12. pageindex(i.va, i.level - 1) \in Nat
    <3>1. i.va \in Nat BY <2>4, Constants
    <3>2. QED BY <2>11, <3>1, Parts, Constants
  <2>13. c \in Nat BY Constants DEF Tree, Typed
  <2>14. j \in Iters
    BY <2>7, <2>8, <2>9, <2>11, <2>12, <2>13 DEF Iters, Levels, Flags
  <2>15. Good(U, L, S, j)
    <3> HIDE DEF j
    <3>1. j.level = L[j.tab] BY <2>3, <2>5, <2>10
    <3>2. QED BY <2>2, <2>5, <2>10, <2>11, <2>14, <3>1 DEF Good
  <2>16. QED BY <1>2, <2>10, <2>15
<1>3. QED BY <1>1, <1>2

\* vmiter::down goes as far down as there are tables.
LEMMA DownGood ==
    ASSUME NEW T, NEW U, NEW L, NEW S, Tree(T, U, L, S), NEW i, Good(U, L, S, i)
    PROVE  LET j == down(T, i) IN Good(U, L, S, j) /\ j.va = i.va /\ FinalAt(T, j)
<1> DEFINE x == Down1(T, i)
           y == Down1(T, x)
           z == Down1(T, y)
<1>1. /\ Good(U, L, S, x) /\ x.va = i.va
      /\ IF FinalAt(T, i) THEN x = i ELSE x.level = i.level - 1
  BY Down1Good
<1>2. /\ Good(U, L, S, y) /\ y.va = i.va
      /\ IF FinalAt(T, x) THEN y = x ELSE y.level = x.level - 1
  <2> HIDE DEF x
  <2>1. QED BY <1>1, Down1Good
<1>3. /\ Good(U, L, S, z) /\ z.va = i.va
      /\ IF FinalAt(T, y) THEN z = y ELSE z.level = y.level - 1
  <2> HIDE DEF y
  <2>1. QED BY <1>2, Down1Good
<1>4. down(T, i) = z BY DEF down
<1> HIDE DEF x, y, z
<1>5. FinalAt(T, z)
  <2>1. i.level \in 0 .. 3 /\ x.level \in 0 .. 3 /\ y.level \in 0 .. 3 /\ z.level \in 0 .. 3
    BY <1>1, <1>2, <1>3 DEF Good, Iters, Levels
  <2>2. z.level = 0 => FinalAt(T, z) BY DEF FinalAt, Final
  <2>3. FinalAt(T, y) => FinalAt(T, z) BY <1>3
  <2>4. FinalAt(T, x) => FinalAt(T, y) BY <1>2
  <2>5. FinalAt(T, i) => FinalAt(T, x) BY <1>1
  <2>6. ~ FinalAt(T, i) /\ ~ FinalAt(T, x) /\ ~ FinalAt(T, y) => z.level = 0
    BY <1>1, <1>2, <1>3, <2>1
  <2>7. QED BY <2>2, <2>3, <2>4, <2>5, <2>6
<1>6. QED BY <1>3, <1>4, <1>5

\* find, from wherever the vmiter is.
LEMMA FindGood ==
    ASSUME NEW T, NEW U, NEW L, NEW S, Tree(T, U, L, S), NEW i, Good(U, L, S, i), NEW va \in VA
    PROVE  LET j == real_find(T, i, va) IN Good(U, L, S, j) /\ j.va = va /\ FinalAt(T, j)
<1> DEFINE near  == [i EXCEPT !.va = va, !.idx = pageindex(va, i.level)]
           top   == [va |-> va, level |-> 3, tab |-> Root, idx |-> pageindex(va, 3), perm |-> Flags]
           none  == [va |-> va, level |-> 3, tab |-> ZeroPe, idx |-> 0, perm |-> {}]
           start == IF ~ Far(i, va) THEN near ELSE IF va_is_canonical(va) THEN top ELSE none
<1>1. real_find(T, i, va) = down(T, start)
  BY DEF real_find
<1>2. i \in Iters /\ U \subseteq Pages /\ Root \in U /\ L \in [Pages -> Levels] /\ S \in [Pages -> Place]
  BY DEF Good, Tree, Typed
<1>3. va \in Nat /\ va % Places \in Place BY Constants, PlaceOf
<1>4. ASSUME ~ Far(i, va) PROVE Good(U, L, S, near) /\ near.va = va
  <2>1. i.level \in 0 .. 2 /\ Q(i.va, i.level + 1) = Q(va, i.level + 1)
    BY <1>2, <1>4 DEF Far, Apart, Q, Iters, Levels
  <2>2. va_is_canonical(i.va) BY <2>1 DEF Good
  <2>3. /\ i.tab \in U /\ i.level = L[i.tab] /\ Covers(L, S, i.tab, i.va % Places)
        /\ i.perm = IF i.level = 3 THEN Flags ELSE PWU
    BY <2>2 DEF Good
  <2>4. i.va \in VA /\ i.level + 1 \in 0 .. 3 BY <1>2, <2>1 DEF Iters
  <2>5. va_is_canonical(va) /\ Q(i.va % Places, i.level + 1) = Q(va % Places, i.level + 1)
    BY <2>1, <2>2, <2>4, SameRegion
  <2>6. Covers(L, S, i.tab, va % Places) BY <2>3, <2>5 DEF Covers
  <2>7. pageindex(va, i.level) \in Nat
    <3>1. i.level \in 0 .. 3 BY <2>1
    <3>2. QED BY <1>3, <3>1, Parts, Constants
  <2>8. /\ near.va = va /\ near.level = i.level /\ near.tab = i.tab /\ near.perm = i.perm
        /\ near.idx = pageindex(va, i.level)
    BY <1>2 DEF Iters
  <2>9. near \in Iters BY <1>2, <2>7 DEF Iters
  <2> HIDE DEF near
  <2>10. QED BY <2>3, <2>5, <2>6, <2>8, <2>9 DEF Good
<1>5. ASSUME va_is_canonical(va) PROVE Good(U, L, S, top) /\ top.va = va
  <2>1. L[Root] = 3 BY <1>2 DEF Tree, Typed
  <2>2. S[Root] \in Place BY <1>2
  <2>3. Q(va % Places, 4) = Q(S[Root], 4) BY <1>3, <2>2, Whole
  <2>4. Covers(L, S, Root, va % Places) BY <2>1, <2>3 DEF Covers
  <2>5. pageindex(va, 3) \in Nat
    <3>1. pageindex(va, 3) \in Index BY <1>3, Parts
    <3>2. QED BY <3>1, Constants
  <2>6. top \in Iters BY <2>5 DEF Iters, Levels, Root
  <2>7. QED BY <1>2, <1>5, <2>1, <2>4, <2>6 DEF Good
<1>6. ASSUME ~ va_is_canonical(va) PROVE Good(U, L, S, none) /\ none.va = va
  <2>1. none \in Iters BY DEF Iters, Levels, ZeroPe
  <2>2. QED BY <1>6, <2>1 DEF Good
<1>7. Good(U, L, S, start) /\ start.va = va
  <2> HIDE DEF near, top, none
  <2>1. QED BY <1>4, <1>5, <1>6
<1> HIDE DEF start
<1>8. QED BY <1>1, <1>7, DownGood

\* A new vmiter.
LEMMA NewGood ==
    ASSUME NEW T, NEW U, NEW L, NEW S, Tree(T, U, L, S), NEW va \in VA
    PROVE  LET j == New(T, va) IN Good(U, L, S, j) /\ j.va = va /\ FinalAt(T, j)
<1> DEFINE i == [va |-> 0, level |-> 3, tab |-> Root, idx |-> 0, perm |-> Flags]
<1>1. Good(U, L, S, i)
  <2>1. Root \in U /\ L[Root] = 3 /\ S[Root] \in Place BY DEF Tree, Typed
  <2>2. 0 \in VA /\ 0 \in Nat /\ 0 \in Place BY Constants
  <2>3. va_is_canonical(0)
    <3>1. LOWEND \in Nat /\ 2 * LOWEND = Places /\ Places > 0 BY Bounds
    <3>2. QED BY <3>1 DEF va_is_canonical
  <2>4. 0 % Places \in Place BY <2>2, PlaceOf
  <2>5. Covers(L, S, Root, 0 % Places)
    <3>1. Q(0 % Places, 4) = Q(S[Root], 4) BY <2>1, <2>4, Whole
    <3>2. QED BY <2>1, <3>1 DEF Covers
  <2>6. pageindex(0, 3) = 0
    <3>1. Span[3] \in Nat /\ Span[3] > 0 /\ B \in Nat /\ B > 0 BY Spans, Constants
    <3>2. 0 = Span[3] * 0 + 0 /\ 0 = B * 0 + 0 /\ 0 \in 0 .. Span[3] - 1 /\ 0 \in 0 .. B - 1
      BY <3>1
    <3>3. 0 \div Span[3] = 0 /\ 0 % B = 0 BY <3>1, <3>2, DivOne
    <3>4. QED BY <3>3 DEF pageindex
  <2>7. i \in Iters BY <2>2 DEF Iters, Levels, Root
  <2>8. QED BY <2>1, <2>3, <2>5, <2>6, <2>7 DEF Good
<1>2. New(T, va) = real_find(T, i, va) BY DEF New
<1> HIDE DEF i
<1>3. QED BY <1>1, <1>2, FindGood

\* Where the tables end for an address, there is one state a vmiter can be in.
LEMMA OneEnd ==
    ASSUME NEW T, NEW U, NEW L, NEW S, Tree(T, U, L, S), NEW i, NEW j,
           Good(U, L, S, i), Good(U, L, S, j), i.va = j.va, FinalAt(T, i), FinalAt(T, j)
    PROVE  i = j
<1>1. ASSUME NEW x \in Iters, NEW y \in Iters, x.va = y.va, x.level = y.level, x.tab = y.tab,
             x.idx = y.idx, x.perm = y.perm
      PROVE  x = y
  BY <1>1 DEF Iters
<1>2. i \in Iters /\ j \in Iters BY DEF Good
<1>3. CASE ~ va_is_canonical(i.va)
  BY <1>1, <1>2, <1>3 DEF Good
<1>4. CASE va_is_canonical(i.va)
  <2> DEFINE a == i.va % Places
  <2>1. /\ i.tab \in U /\ i.level = L[i.tab] /\ Covers(L, S, i.tab, a)
        /\ i.idx = pageindex(i.va, i.level) /\ i.perm = IF i.level = 3 THEN Flags ELSE PWU
        /\ j.tab \in U /\ j.level = L[j.tab] /\ Covers(L, S, j.tab, a)
        /\ j.idx = pageindex(j.va, j.level) /\ j.perm = IF j.level = 3 THEN Flags ELSE PWU
    BY <1>4 DEF Good
  <2>2. /\ Pe(T, i) = T[i.tab][i.idx] /\ i.idx = pageindex(a, i.level)
        /\ i.level \in 0 .. 3 /\ a \in Place
    BY <1>4, GoodPe
  <2>3. Pe(T, j) = T[j.tab][j.idx] /\ j.idx = pageindex(a, j.level) /\ j.level \in 0 .. 3
    BY <1>4, GoodPe
  <2> HIDE DEF a
  <2>4. ~ (j.level < i.level)
    <3>1. ASSUME j.level < i.level PROVE FALSE
      <4>1. IsTable(Pe(T, i)) BY <2>1, <2>2, <3>1, Through
      <4>2. i.level # 0 BY <2>2, <2>3, <3>1
      <4>3. QED BY <4>1, <4>2 DEF FinalAt, Final
    <3>2. QED BY <3>1
  <2>5. ~ (i.level < j.level)
    <3>1. ASSUME i.level < j.level PROVE FALSE
      <4>1. IsTable(Pe(T, j)) BY <2>1, <2>2, <2>3, <3>1, Through
      <4>2. j.level # 0 BY <2>2, <2>3, <3>1
      <4>3. QED BY <4>1, <4>2 DEF FinalAt, Final
    <3>2. QED BY <3>1
  <2>6. i.level = j.level BY <2>2, <2>3, <2>4, <2>5
  <2>7. i.tab = j.tab
    <3>1. L[i.tab] = L[j.tab] BY <2>1, <2>6
    <3>2. QED BY <2>1, <3>1, Alone
  <2>8. QED BY <1>1, <1>2, <2>1, <2>6, <2>7
<1>5. QED BY <1>3, <1>4

\* What a vmiter reads where the tables end is what is mapped, throughout the
\* region of the entry.
LEMMA Truth ==
    ASSUME NEW U, NEW L, NEW S, Tree(tables, U, L, S), Faithful(tables, U, L, S, flat),
           NEW i, Good(U, L, S, i), FinalAt(tables, i)
    PROVE  /\ pa(tables, i) = Slot(i.va).pa
           /\ \A b \in VA : Q(b, i.level) = Q(i.va, i.level) => Slot(b).perm = perm(tables, i)
<1> DEFINE e == Pe(tables, i)
<1>0. i.va \in VA /\ i.level \in 0 .. 3 BY DEF Good, Iters, Levels
<1>1. CASE ~ va_is_canonical(i.va)
  <2>1. e = Absent BY <1>1 DEF Good, Pe
  <2>2. ~ present(tables, i) BY <2>1 DEF present, Absent
  <2>3. pa(tables, i) = -1 /\ perm(tables, i) = {} BY <2>2 DEF pa, perm
  <2>4. 0 \in 0 .. Places - 1 BY Constants DEF Place
  <2>5. Unmapped[0] = Nothing BY <2>4 DEF Unmapped, Nothing
  <2>6. \A b \in VA : ~ va_is_canonical(b) => Slot(b) = Nothing BY <2>5 DEF Slot
  <2>7. ASSUME NEW b \in VA, Q(b, i.level) = Q(i.va, i.level) PROVE ~ va_is_canonical(b)
    BY <1>0, <1>1, <2>7, SameRegion
  <2>8. QED BY <1>0, <1>1, <2>3, <2>6, <2>7 DEF Nothing
<1>2. CASE va_is_canonical(i.va)
  <2> DEFINE t == i.tab
             l == i.level
             n == i.idx
  <2>1. t \in U /\ l = L[t] /\ Covers(L, S, t, i.va % Places) /\ i.perm = IF l = 3 THEN Flags ELSE PWU
    BY <1>2 DEF Good
  <2>2. /\ t \in Pages /\ e = tables[t][n] /\ n \in Index /\ i.va % Places \in Place
        /\ n = pageindex(i.va % Places, l) /\ e \in Entry
    BY <1>2, GoodPe
  <2>3. L \in [Pages -> Levels] /\ S \in [Pages -> Place] BY DEF Tree, Typed
  <2>4. Final(e, l) BY DEF FinalAt
  <2> HIDE DEF e
  <2>5. ASSUME NEW b \in VA, Q(b, l) = Q(i.va, l) PROVE Slot(b) = Says(e, b % Places, l)
    <3>1. va_is_canonical(b) /\ Q(b % Places, l) = Q(i.va % Places, l)
      BY <1>0, <1>2, <2>5, SameRegion
    <3>2. b % Places \in Place BY PlaceOf
    <3>3. pageindex(b % Places, l) = n BY <2>2, <3>1, IndexOf
    <3>4. l \in 0 .. 4 /\ l <= L[t] + 1 BY <1>0, <2>1
    <3>5. Covers(L, S, t, b % Places) BY <2>1, <2>2, <2>3, <3>1, <3>2, <3>4, CoversSame
    <3>6. flat[b % Places] = Says(e, b % Places, l)
      BY <2>1, <2>2, <2>4, <3>2, <3>3, <3>5 DEF Faithful
    <3>7. QED BY <3>1, <3>6 DEF Slot
  <2>6. perm(tables, i) = IF "P" \in e.perm THEN e.perm \cap PWU ELSE {}
    <3>1. perm(tables, i) = IF "P" \in e.perm THEN e.perm \cap i.perm ELSE {}
      BY DEF perm, present, e
    <3>2. CASE l # 3 BY <2>1, <3>1, <3>2
    <3>3. CASE l = 3
      <4>1. Inner(U, L, S, t, n, e)
        <5>1. L[t] # 0 BY <2>1, <3>3
        <5>2. Inner(U, L, S, t, n, tables[t][n]) BY <2>1, <2>2, <5>1 DEF Tree, Linked
        <5>3. QED BY <2>2, <5>2
      <4>2. ~ IsTable(e) BY <2>4, <3>3 DEF Final
      <4>3. ~ IsLink(U, L, S, t, n, e) BY <4>2, LinkIsTable DEF IsLink
      <4>4. e = Absent BY <2>1, <3>3, <4>1, <4>3 DEF Inner
      <4>5. QED BY <3>1, <4>4 DEF Absent
    <3>4. QED BY <3>2, <3>3
  <2>7. pa(tables, i) = IF "P" \in e.perm THEN e.to + (i.va % Span[l]) ELSE -1
    BY DEF pa, present, e
  <2>8. i.va % Span[l] = (i.va % Places) % Span[l] BY <1>0, PlaceOf
  <2>9. Slot(i.va) = Says(e, i.va % Places, l) BY <1>0, <2>5
  <2>10. pa(tables, i) = Slot(i.va).pa BY <2>7, <2>8, <2>9 DEF Says, Nothing
  <2>11. \A b \in VA : Says(e, b % Places, l).perm = perm(tables, i)
    BY <2>6 DEF Says, Nothing
  <2>12. QED BY <2>5, <2>10, <2>11
<1>3. QED BY <1>1, <1>2

\* Above level 0, where the tables end there is a large page or nothing.
LEMMA EndInner ==
    ASSUME NEW T, NEW U, NEW L, NEW S, Tree(T, U, L, S), NEW i, Good(U, L, S, i),
           FinalAt(T, i), i.level > 0
    PROVE  Pe(T, i) = Absent \/ IsLarge(Pe(T, i))
<1> DEFINE e == Pe(T, i)
<1>1. CASE ~ va_is_canonical(i.va) BY <1>1 DEF Good, Pe
<1>2. CASE va_is_canonical(i.va)
  <2>1. i.tab \in U /\ i.level = L[i.tab] /\ i.level \in Levels BY <1>2 DEF Good, Iters
  <2>2. e = T[i.tab][i.idx] /\ i.idx \in Index BY <1>2, GoodPe
  <2>3. Inner(U, L, S, i.tab, i.idx, e) BY <2>1, <2>2 DEF Tree, Linked, Levels
  <2>4. ~ IsTable(e) BY <2>1 DEF FinalAt, Final, Levels
  <2>5. ~ IsLink(U, L, S, i.tab, i.idx, e) BY <2>4, LinkIsTable DEF IsLink
  <2>6. QED BY <2>3, <2>5 DEF Inner
<1>3. QED BY <1>1, <1>2
-----------------------------------------------------------------------------
(* What the invariant says of vmiter. *)

\* A set of numbers has a least one.
LEMMA LeastOne ==
    ASSUME NEW D \in SUBSET Nat, D # {}
    PROVE  \E x \in D : \A y \in D : x <= y
<1>1. PICK x \in D : \A y \in D : ~ (<<y, x>> \in OpToRel(<, Nat))
  BY NatLessThanWellFounded, WFMin
<1>2. \A y \in D : ~ (y < x)
  BY <1>1 DEF OpToRel
<1>3. QED BY <1>2

\* Whether a range has the permissions, range by range, and page by page.
LEMMA Ranges ==
    ASSUME NEW U, NEW L, NEW S, Tree(tables, U, L, S), Faithful(tables, U, L, S, flat),
           NEW j, Good(U, L, S, j), NEW last \in Nat, j.va < last, last <= LOWEND,
           NEW p \in Perms, p # {}
    PROVE  RangeOk(tables, j, last, p) <=> \A b \in j.va .. last - 1 : p \subseteq Slot(b).perm
<1> DEFINE first == j.va
           k(a) == real_find(tables, j, a)
           H(f) == [a \in first .. Space |->
                       a >= last \/ (p \subseteq Pe(tables, k(a)).perm \cap k(a).perm /\ f[last_va(k(a))])]
           ok == CHOOSE f : f = H(f)
           G(a) == a >= last \/ \A b \in a .. last - 1 : p \subseteq Slot(b).perm
           g == [a \in first .. Space |-> G(a)]
<1>1. RangeOk(tables, j, last, p) <=> ok[first]
  BY DEF RangeOk
<1>2. first \in Nat /\ last \in Nat /\ Space \in Nat /\ LOWEND \in Nat /\ LOWEND < Space
  <2>1. j.va \in VA BY DEF Good, Iters
  <2>2. Places \in Nat /\ Places > 0 /\ Space = 2 * Places /\ LOWEND \in Nat /\ 2 * LOWEND = Places
    BY Bounds
  <2>3. j.va \in Nat BY <2>1, Constants
  <2>4. QED BY <2>2, <2>3
<1>3. "P" \in p BY TableAssumption
\* At an address of the range: the entry permits p if the page has it, and
\* the next range begins further on.
<1>4. ASSUME NEW a \in first .. last - 1
      PROVE  /\ last_va(k(a)) \in a + 1 .. Space
             /\ p \subseteq Pe(tables, k(a)).perm \cap k(a).perm <=> p \subseteq Slot(a).perm
             /\ \A b \in a .. last_va(k(a)) - 1 : Slot(b).perm = Slot(a).perm
  <2> DEFINE i == k(a)
             l == i.level
  <2>1. a \in VA /\ a \in Nat /\ a < LOWEND BY <1>2 DEF VA
  <2>2. Good(U, L, S, i) /\ i.va = a /\ FinalAt(tables, i) BY <2>1, FindGood
  <2> HIDE DEF i
  <2>3. l \in 0 .. 3 BY <2>2 DEF Good, Iters, Levels
  <2>4. \A b \in VA : Q(b, l) = Q(a, l) => Slot(b).perm = perm(tables, i) BY <2>2, Truth
  <2>5. Slot(a).perm = perm(tables, i) BY <2>1, <2>4
  <2>6. /\ End(a, l) \in Nat /\ a < End(a, l) /\ End(a, l) <= LOWEND
        /\ \A b \in Nat : b < End(a, l) <=> Q(b, l) <= Q(a, l)
        /\ After(a, l) = IF End(a, l) = Space THEN 0 ELSE End(a, l)
    BY <2>1, <2>3, Ends
  <2>7. last_va(i) = End(a, l) BY <1>2, <2>2, <2>6 DEF last_va
  <2>8. ASSUME NEW b \in a .. End(a, l) - 1 PROVE Slot(b).perm = Slot(a).perm
    <3>1. b \in Nat /\ b \in VA /\ a <= b /\ b < End(a, l) BY <1>2, <2>1, <2>6 DEF VA
    <3>2. Q(a, 0) <= Q(b, 0)
      <4>1. \A x \in Nat : Q(x, 0) = x BY Spans DEF Q
      <4>2. QED BY <2>1, <3>1, <4>1
    <3>3. Q(a, l) <= Q(b, l) BY <2>1, <2>3, <3>1, <3>2, RegionMono
    <3>4. Q(b, l) <= Q(a, l) BY <2>6, <3>1
    <3>5. Q(a, l) \in Nat /\ Q(b, l) \in Nat
      <4>1. l \in 0 .. 4 BY <2>3
      <4>2. a \in Nat BY <2>1
      <4>3. QED BY <3>1, <4>1, <4>2, RegionType
    <3>6. Q(b, l) = Q(a, l) BY <3>3, <3>4, <3>5
    <3>7. QED BY <2>4, <2>5, <3>1, <3>6
  <2>9. p \subseteq Pe(tables, i).perm \cap i.perm <=> p \subseteq Slot(a).perm
    BY <1>3, <2>5 DEF perm, present
  <2>10. last_va(i) \in a + 1 .. Space BY <1>2, <2>1, <2>6, <2>7
  <2>11. QED BY <2>7, <2>8, <2>9, <2>10 DEF i
<1> HIDE DEF k
\* Page by page, the condition satisfies the equation of the loop.
<1>5. ASSUME NEW a \in first .. last - 1
      PROVE  G(a) <=> p \subseteq Pe(tables, k(a)).perm \cap k(a).perm /\ G(last_va(k(a)))
  <2> DEFINE n == last_va(k(a))
  <2>1. n \in a + 1 .. Space /\ \A b \in a .. n - 1 : Slot(b).perm = Slot(a).perm BY <1>4
  <2>2. p \subseteq Pe(tables, k(a)).perm \cap k(a).perm <=> p \subseteq Slot(a).perm BY <1>4
  <2> HIDE DEF n
  <2>3. G(a) <=> \A b \in a .. last - 1 : p \subseteq Slot(b).perm BY <1>2
  <2>4. a \in a .. last - 1 /\ a \in Nat /\ n \in Nat BY <1>2, <2>1
  <2>5. ASSUME G(a) PROVE p \subseteq Slot(a).perm /\ G(n)
    <3>1. \A b \in n .. last - 1 : b \in a .. last - 1 BY <1>2, <2>1, <2>4
    <3>2. QED BY <2>3, <2>4, <2>5, <3>1
  <2>6. ASSUME p \subseteq Slot(a).perm, G(n) PROVE G(a)
    <3>1. ASSUME NEW b \in a .. last - 1 PROVE p \subseteq Slot(b).perm
      <4>1. CASE b < n
        <5>1. b \in a .. n - 1 BY <1>2, <2>4, <4>1
        <5>2. QED BY <2>1, <2>6, <5>1
      <4>2. CASE b >= n
        <5>1. b \in n .. last - 1 /\ ~ (n >= last) BY <1>2, <2>4, <4>2
        <5>2. QED BY <2>6, <5>1
      <4>3. QED BY <1>2, <2>4, <4>1, <4>2
    <3>2. QED BY <2>3, <3>1
  <2>7. QED BY <2>2, <2>5, <2>6 DEF n
<1>6. g = H(g)
  <2>1. ASSUME NEW a \in first .. Space PROVE g[a] = H(g)[a]
    <3>1. CASE a >= last BY <3>1
    <3>2. CASE ~ (a >= last)
      <4>1. a \in first .. last - 1 BY <1>2, <3>2
      <4>2. last_va(k(a)) \in first .. Space
        <5>1. last_va(k(a)) \in a + 1 .. Space BY <1>4, <4>1
        <5>2. QED BY <1>2, <4>1, <5>1
      <4>3. g[last_va(k(a))] = G(last_va(k(a))) BY <4>2
      <4>4. g[a] = G(a) OBVIOUS
      <4>5. G(a) <=> p \subseteq Pe(tables, k(a)).perm \cap k(a).perm /\ G(last_va(k(a)))
        BY <1>5, <4>1
      <4>6. H(g)[a] = (a >= last \/ (p \subseteq Pe(tables, k(a)).perm \cap k(a).perm /\ g[last_va(k(a))]))
        OBVIOUS
      <4> HIDE DEF g, H
      <4>7. H(g)[a] = (a >= last \/ (p \subseteq Pe(tables, k(a)).perm \cap k(a).perm /\ G(last_va(k(a)))))
        BY <4>3, <4>6
      <4>8. G(a) = (a >= last \/ (p \subseteq Pe(tables, k(a)).perm \cap k(a).perm /\ G(last_va(k(a)))))
        BY <3>2, <4>5
      <4>9. QED BY <4>4, <4>7, <4>8
    <3>3. QED BY <3>1, <3>2
  <2>2. QED BY <2>1
<1>7. ok = H(ok)
  <2> HIDE DEF g
  <2>1. \E f : f = H(f) BY <1>6
  <2>2. QED BY <2>1
<1>8. \A a \in first .. Space :
        ok[a] = (a >= last \/ (p \subseteq Pe(tables, k(a)).perm \cap k(a).perm /\ ok[last_va(k(a))]))
  BY <1>7
<1>9. \A a \in first .. Space :
        g[a] = (a >= last \/ (p \subseteq Pe(tables, k(a)).perm \cap k(a).perm /\ g[last_va(k(a))]))
  <2> HIDE DEF g
  <2>1. QED BY <1>6
<1>10. \A a \in first .. Space : g[a] = G(a)
  OBVIOUS
<1> HIDE DEF ok, H, g, G
\* The equation has one solution: take the largest address where two differ.
<1>11. ok[first] = g[first]
  <2> DEFINE D == {x \in 0 .. Space - first : ok[Space - x] # g[Space - x]}
  <2>1. ASSUME D # {} PROVE FALSE
    <3>1. PICK x \in D : \A y \in D : x <= y
      <4>1. D \in SUBSET Nat BY <1>2
      <4>2. QED BY <2>1, <4>1, LeastOne
    <3> DEFINE a == Space - x
    <3>2. x \in 0 .. Space - first /\ a \in first .. Space /\ ok[a] # g[a] BY <1>2, <3>1
    <3> HIDE DEF a
    <3>3. CASE a >= last BY <1>8, <1>9, <3>2, <3>3
    <3>4. CASE ~ (a >= last)
      <4> DEFINE n == last_va(k(a))
      <4>1. a \in first .. last - 1 BY <1>2, <3>2, <3>4
      <4>2. n \in a + 1 .. Space BY <1>4, <4>1
      <4> HIDE DEF n
      <4>3. Space - n \in 0 .. Space - first /\ Space - (Space - n) = n /\ ~ (x <= Space - n)
        BY <1>2, <3>2, <4>1, <4>2 DEF a
      <4>4. Space - n \notin D BY <3>1, <4>3
      <4>5. ok[n] = g[n] BY <4>3, <4>4
      <4>6. QED BY <1>8, <1>9, <3>2, <4>5 DEF n
    <3>5. QED BY <3>3, <3>4
  <2>2. Space - first \in 0 .. Space - first /\ Space - (Space - first) = first
    BY <1>2
  <2>3. QED BY <2>1, <2>2
<1>12. first \in first .. Space /\ ~ (first >= last) BY <1>2
<1>13. ok[first] = G(first) BY <1>10, <1>11, <1>12
<1>14. G(first) <=> \A b \in first .. last - 1 : p \subseteq Slot(b).perm
  BY <1>12 DEF G
<1>15. QED BY <1>1, <1>13, <1>14

\* find tells what is mapped, and whether a range has the permissions.
LEMMA InvFindsTruth == ASSUME IterInv PROVE FindsTruth
<1>1. PICK L \in [Pages -> Levels], S \in [Pages -> Place] :
        /\ Tree(tables, used, L, S) /\ Faithful(tables, used, L, S, flat) /\ Good(used, L, S, it)
  BY DEF IterInv
<1>2. ASSUME NEW va \in VA PROVE TellsTruth(va)
  <2> DEFINE j == real_find(tables, it, va)
  <2>1. Good(used, L, S, j) /\ j.va = va /\ FinalAt(tables, j) BY <1>1, FindGood
  <2> HIDE DEF j
  <2>2. /\ pa(tables, j) = Slot(va).pa
        /\ \A b \in VA : Q(b, j.level) = Q(va, j.level) => Slot(b).perm = perm(tables, j)
    BY <1>1, <2>1, Truth
  <2>3. perm(tables, j) = Slot(va).perm BY <2>2
  <2>4. ASSUME NEW o \in 0 .. Span[j.level] - 1, va + o < Space, ~ Apart(va, va + o, j.level)
        PROVE  Slot(va + o).perm = Slot(va).perm
    <3>1. va + o \in VA
      <4>1. va \in Nat /\ o \in Nat
        <5>1. j.level \in 0 .. 4 BY <2>1 DEF Good, Iters, Levels
        <5>2. Span[j.level] \in Nat BY <5>1, Spans
        <5>3. QED BY <5>2, Constants
      <4>2. Space \in Nat BY Bounds
      <4>3. QED BY <2>4, <4>1, <4>2 DEF VA
    <3>2. Q(va + o, j.level) = Q(va, j.level) BY <2>4 DEF Apart, Q
    <3>3. QED BY <2>2, <2>3, <3>1, <3>2
  <2>5. QED BY <2>2, <2>3, <2>4 DEF TellsTruth, j
<1>3. ASSUME NEW first \in 0 .. LOWEND, NEW last \in 0 .. LOWEND + 1, NEW p \in Perms \ {{}}
      PROVE  RangeTold(first, last, p)
  <2>1. LOWEND \in Nat /\ Space \in Nat /\ LOWEND < Space
    <3>1. Places \in Nat /\ Places > 0 /\ Space = 2 * Places /\ LOWEND \in Nat /\ 2 * LOWEND = Places
      BY Bounds
    <3>2. QED BY <3>1
  <2>2. first \in VA BY <2>1 DEF VA
  <2> DEFINE j == real_find(tables, it, first)
  <2>3. Good(used, L, S, j) /\ j.va = first BY <1>1, <2>2, FindGood
  <2>4. low_perm(tables, it, first, last, p) <=>
            first <= last /\ last <= LOWEND /\ (first = last \/ RangeOk(tables, j, last, p))
    BY DEF low_perm
  <2> HIDE DEF j
  <2>5. ASSUME first < last, last <= LOWEND
        PROVE  RangeOk(tables, j, last, p) <=> \A b \in first .. last - 1 : p \subseteq Slot(b).perm
    <3>1. last \in Nat BY <2>1
    <3>2. QED BY <1>1, <2>3, <2>5, <3>1, Ranges
  <2>6. first = last => first .. last - 1 = {} BY <2>1
  <2>7. CASE first < last /\ last <= LOWEND BY <2>1, <2>4, <2>5, <2>7 DEF RangeTold
  <2>8. CASE first = last BY <2>1, <2>4, <2>6, <2>8 DEF RangeTold
  <2>9. CASE ~ (first <= last /\ last <= LOWEND) BY <2>4, <2>9 DEF RangeTold
  <2>10. QED BY <2>1, <2>7, <2>8, <2>9
<1>4. QED BY <1>2, <1>3 DEF FindsTruth

\* next passes over nothing.
LEMMA InvNextSkipsNothing == ASSUME IterInv PROVE NextSkipsNothing
<1>1. PICK L \in [Pages -> Levels], S \in [Pages -> Place] :
        /\ Tree(tables, used, L, S) /\ Faithful(tables, used, L, S, flat) /\ Good(used, L, S, it)
  BY DEF IterInv
<1> DEFINE l == NextLevel(tables, it)
           n == After(it.va, l)
           j == next(tables, it)
<1>2. it.va \in VA /\ it.va \in Nat /\ it.level \in 0 .. 3
  BY <1>1, Constants DEF Good, Iters, Levels
<1>3. l \in 0 .. 3 /\ (l = it.level \/ l = 0) BY <1>2 DEF NextLevel
<1> HIDE DEF l
<1>4. Space \in Nat /\ Space > 0 BY Bounds
<1>5. /\ End(it.va, l) \in Nat /\ it.va < End(it.va, l) /\ End(it.va, l) <= Space
      /\ \A b \in Nat : b < End(it.va, l) <=> Q(b, l) <= Q(it.va, l)
      /\ n = IF End(it.va, l) = Space THEN 0 ELSE End(it.va, l)
  BY <1>2, <1>3, Ends
<1>6. n \in VA BY <1>4, <1>5 DEF VA
<1>7. j.va = n
  <2>1. j = real_find(tables, it, n) BY DEF next, l
  <2> HIDE DEF n, j
  <2>2. QED BY <1>1, <1>6, <2>1, FindGood
<1>8. (IF j.va = 0 THEN Space ELSE j.va) = End(it.va, l)
  <2> HIDE DEF n, j
  <2>1. End(it.va, l) # 0 BY <1>2, <1>5
  <2>2. QED BY <1>5, <1>7, <2>1
<1>9. ASSUME NEW va \in it.va + 1 .. End(it.va, l) - 1 PROVE Slot(va).perm = {}
  <2>1. va \in Nat /\ va \in VA /\ it.va < va /\ va < End(it.va, l)
    BY <1>2, <1>4, <1>5 DEF VA
  <2>2. Q(va, l) <= Q(it.va, l) BY <1>5, <2>1
  <2>3. \A x \in Nat : Q(x, 0) = x BY Spans DEF Q
  <2>4. l # 0
    <3>1. l = 0 => va <= it.va BY <1>2, <2>1, <2>2, <2>3
    <3>2. QED BY <1>2, <2>1, <3>1
  <2>5. l = it.level /\ it.level > 0 /\ perm(tables, it) = {}
    BY <1>3, <2>4 DEF NextLevel, l
  <2>6. FinalAt(tables, it)
    <3> DEFINE e == Pe(tables, it)
    <3>1. ASSUME IsTable(e) PROVE FALSE
      <4>1. CASE ~ va_is_canonical(it.va)
        <5>1. e = Absent BY <1>1, <4>1 DEF Good, Pe
        <5>2. QED BY <3>1, <5>1 DEF IsTable, Absent
      <4>2. CASE va_is_canonical(it.va)
        <5>1. "P" \in it.perm BY <1>1, <4>2 DEF Good, Flags, PWU
        <5>2. "P" \in e.perm BY <3>1 DEF IsTable
        <5>3. QED BY <2>5, <5>1, <5>2 DEF perm, present
      <4>3. QED BY <4>1, <4>2
    <3>2. QED BY <3>1 DEF FinalAt, Final
  <2>7. Q(it.va, l) <= Q(va, l)
    <3>1. Q(it.va, 0) <= Q(va, 0) BY <1>2, <2>1, <2>3
    <3>2. QED BY <1>2, <1>3, <2>1, <3>1, RegionMono
  <2>8. Q(it.va, l) \in Nat /\ Q(va, l) \in Nat BY <1>2, <1>3, <2>1, RegionType
  <2>9. Q(va, l) = Q(it.va, l) BY <2>2, <2>7, <2>8
  <2>10. Slot(va).perm = perm(tables, it) BY <1>1, <2>1, <2>5, <2>6, <2>9, Truth
  <2>11. QED BY <2>5, <2>10
<1>10. QED BY <1>8, <1>9 DEF NextSkipsNothing

\* The assertions of try_map hold.
LEMMA InvMapNeverAsserts == ASSUME IterInv PROVE MapNeverAsserts
<1>1. PICK L \in [Pages -> Levels], S \in [Pages -> Place] :
        Tree(tables, used, L, S) /\ Good(used, L, S, it)
  BY DEF IterInv
<1>2. ASSUME NEW va \in VA, NEW p \in Perms, va_is_canonical(va), ~ InTheWay(va)
      PROVE  Mappable(tables, real_find(tables, it, va), p)
  <2> DEFINE i == real_find(tables, it, va)
             j == New(tables, va)
  <2>1. Good(used, L, S, i) /\ i.va = va /\ FinalAt(tables, i) BY <1>1, FindGood
  <2>2. Good(used, L, S, j) /\ j.va = va /\ FinalAt(tables, j) BY <1>1, NewGood
  <2>3. "PS" \notin Pe(tables, j).perm BY <1>2 DEF InTheWay
  <2> HIDE DEF i, j
  <2>4. i = j BY <1>1, <2>1, <2>2, OneEnd
  <2>5. p \subseteq i.perm
    <3>1. p \subseteq PWU BY TableAssumption DEF PWU
    <3>2. PWU \subseteq i.perm BY <1>2, <2>1 DEF Good, Flags
    <3>3. QED BY <3>1, <3>2
  <2>6. ASSUME i.level > 0 PROVE ~ present(tables, i)
    <3>1. Pe(tables, i) = Absent \/ IsLarge(Pe(tables, i)) BY <1>1, <2>1, <2>6, EndInner
    <3>2. QED BY <2>3, <2>4, <3>1 DEF IsLarge, present, Absent
  <2>7. QED BY <2>5, <2>6 DEF Mappable, i
<1>3. QED BY <1>2 DEF MapNeverAsserts
-----------------------------------------------------------------------------
(* What the invariant says of ptiter. *)

\* A ptiter stands at an entry of a table.
LEMMA PitPe ==
    ASSUME NEW T, NEW U, NEW L, NEW S, Tree(T, U, L, S), NEW p, Standing(U, L, S, p)
    PROVE  /\ Pe(T, p) = T[p.tab][p.idx] /\ p.idx \in Index
           /\ p.level \in 1 .. 3 /\ p.stop \in 1 .. 3 /\ p.va \in Place /\ p.va \in Nat
           /\ p.tab \in U /\ p.tab \in Pages /\ Depth(p) \in 0 .. 3
<1>1. /\ p.idx \in Index /\ p.level \in 1 .. 3 /\ p.stop \in 1 .. 3 /\ p.va \in Place
      /\ p.tab \in U /\ p.tab \in Pages
  BY DEF Standing, PtIters
<1>2. p.tab # 0 /\ p.va \in Nat BY <1>1, Constants
<1>3. Depth(p) \in 0 .. 3 BY <1>1 DEF Depth
<1>4. QED BY <1>1, <1>2, <1>3 DEF Pe, ZeroPe

\* The table that is visited, and where it lies.
LEMMA PitLink ==
    ASSUME NEW T, NEW U, NEW L, NEW S, Tree(T, U, L, S), NEW p, Standing(U, L, S, p), IsTable(Pe(T, p))
    PROVE  LET c == Pe(T, p).to IN
           /\ c \in U /\ Pe(T, p) = Link(c) /\ L[c] = p.level - 1 /\ Covers(L, S, c, p.va)
           /\ c # Root
<1>1. /\ Pe(T, p) = T[p.tab][p.idx] /\ p.va \in Place /\ p.level \in 1 .. 3
      /\ p.tab \in U
  BY PitPe
<1>2. p.level = L[p.tab] /\ Covers(L, S, p.tab, p.va) /\ p.idx = pageindex(p.va, p.level)
  BY DEF Standing
<1>3. PICK c \in U : /\ Pe(T, p) = Link(c) /\ L[c] = L[p.tab] - 1
                     /\ Covers(L, S, c, p.va)
  BY <1>1, <1>2, LinkAt
<1>4. Pe(T, p).to = c BY <1>3 DEF Link
<1>5. L[c] # 3 BY <1>1, <1>2, <1>3
<1>6. c # Root BY <1>5 DEF Tree, Typed
<1>7. QED BY <1>2, <1>3, <1>4, <1>6

\* At the end of a table, every place of the table's region is at or before
\* the last entry.
LEMMA AtEnd ==
    ASSUME NEW a \in Nat, NEW b \in Nat, NEW l \in 0 .. 3, Q(a, l + 1) = Q(b, l + 1),
           pageindex(b, l) = B - 1
    PROVE  Q(a, l) <= Q(b, l)
<1>1. pageindex(a, l) \in 0 .. B - 1 BY Parts DEF Index
<1>2. ~ (pageindex(b, l) < pageindex(a, l)) BY <1>1, Constants
<1>3. ~ (Q(b, l) < Q(a, l)) BY <1>2, RegionIndex
<1>4. Q(a, l) \in Nat /\ Q(b, l) \in Nat BY Parts
<1>5. QED BY <1>3, <1>4

\* ptiter never goes through a table that its user has freed, and has visited every
\* table but the root when it ends: exit_process can free what it visits.
LEMMA InvFreesTheTree == ASSUME IterInv PROVE FreesTheTree
<1>1. PICK L \in [Pages -> Levels], S \in [Pages -> Place] :
        Tree(tables, used, L, S) /\ Walking(tables, used, L, S, walk, pit, seen)
  BY DEF IterInv
<1>2. ASSUME walk \in {"down", "at"} PROVE pit.tab \notin seen
  <2>1. Standing(used, L, S, pit) /\ seen = {t \in used \ {Root} : Visited(L, S, pit, t)}
    BY <1>1, <1>2 DEF Walking, Passing
  <2>2. pit.level = L[pit.tab] /\ pit.stop <= pit.level /\ Covers(L, S, pit.tab, pit.va)
    BY <2>1 DEF Standing
  <2>3. pit.level \in 1 .. 3 /\ pit.stop \in 1 .. 3 /\ pit.tab \in Pages /\ pit.va \in Nat
    BY <1>1, <2>1, PitPe
  <2>4. ~ (L[pit.tab] < Depth(pit)) BY <2>2, <2>3 DEF Depth
  <2>5. Q(pit.va, L[pit.tab] + 1) \in Nat
    <3>1. L[pit.tab] + 1 \in 0 .. 4 BY <2>2, <2>3
    <3>2. QED BY <2>3, <3>1, RegionType
  <2>6. ~ Visited(L, S, pit, pit.tab) BY <2>2, <2>4, <2>5 DEF Visited, Covers
  <2>7. QED BY <2>1, <2>6
<1>3. ASSUME walk = "at"
      PROVE  LET t == Pe(tables, pit).to IN
             t \notin seen \cup {Root} /\ Below(t, pit.level - 1) \subseteq seen
  <2> DEFINE c == Pe(tables, pit).to
  <2>1. /\ Standing(used, L, S, pit) /\ Rising(used, L, S, pit)
        /\ seen = {t \in used \ {Root} : Visited(L, S, pit, t)}
        /\ ~ pit.skip /\ pit.level = pit.stop /\ IsTable(Pe(tables, pit))
    BY <1>1, <1>3 DEF Walking, Passing
  <2>2. /\ Pe(tables, pit) = tables[pit.tab][pit.idx] /\ pit.level \in 1 .. 3
        /\ pit.va \in Place /\ pit.va \in Nat
    BY <1>1, <2>1, PitPe
  <2>3. c \in used /\ L[c] = pit.level - 1 /\ Covers(L, S, c, pit.va) /\ c # Root
    BY <1>1, <2>1, <2>2, PitLink
  <2> HIDE DEF c
  <2>4. Depth(pit) = pit.level - 1 BY <2>1 DEF Depth
  <2>5. used \subseteq Pages BY <1>1 DEF Tree, Typed
  <2>6. L[c] + 1 = pit.level /\ Q(pit.va, pit.level) = Q(S[c], pit.level) /\ Q(pit.va, pit.level) \in Nat
    <3>1. L[c] + 1 = pit.level BY <2>2, <2>3
    <3>2. pit.level \in 0 .. 4 BY <2>2
    <3>3. QED BY <2>2, <2>3, <3>1, <3>2, RegionType DEF Covers
  <2>7. c \notin seen
    <3>1. ~ Visited(L, S, pit, c) BY <2>2, <2>3, <2>4, <2>6 DEF Visited
    <3>2. QED BY <2>1, <3>1
  <2>8. ASSUME NEW n \in Index, IsTable(tables[c][n]), pit.level - 1 # 0
        PROVE  tables[c][n].to \in seen
    <3>1. L[c] > 0 /\ L[c] \in 0 .. 3 BY <2>2, <2>3, <2>8
    <3>2. Inner(used, L, S, c, n, tables[c][n]) BY <1>1, <2>3, <3>1 DEF Tree, Linked
    <3>3. IsLink(used, L, S, c, n, tables[c][n])
      BY <2>8, <3>2 DEF Inner, IsLarge, IsTable, Absent
    <3>4. PICK d \in used : /\ tables[c][n] = Link(d) /\ L[d] = L[c] - 1 /\ Covers(L, S, c, S[d])
      BY <3>3 DEF IsLink
    <3>5. tables[c][n].to = d BY <3>4 DEF Link
    <3>6. S[d] \in Nat /\ S[c] \in Nat BY <2>3, <2>5, Constants
    <3>7. pageindex(pit.va, L[c]) = B - 1
      BY <2>1, <2>2, <2>3, <2>8 DEF Rising
    <3>8. Q(S[d], L[c] + 1) = Q(pit.va, L[c] + 1) BY <2>3, <3>4 DEF Covers
    <3>9. Q(S[d], L[c]) <= Q(pit.va, L[c]) BY <2>2, <3>1, <3>6, <3>7, <3>8, AtEnd
    <3>10. Q(S[d], L[c]) \in Nat /\ Q(pit.va, L[c]) \in Nat BY <2>2, <3>1, <3>6, Parts
    <3>11. L[d] + 1 = L[c] /\ L[d] < Depth(pit) BY <2>3, <2>4, <3>1, <3>4
    <3>12. Visited(L, S, pit, d) BY <3>9, <3>10, <3>11 DEF Visited
    <3>13. d # Root
      <4>1. L[d] # 3 BY <3>1, <3>4
      <4>2. QED BY <1>1, <4>1 DEF Tree, Typed
    <3>14. QED BY <2>1, <3>5, <3>12, <3>13
  <2>9. Below(c, pit.level - 1) \subseteq seen BY <2>8 DEF Below
  <2>10. QED BY <2>3, <2>7, <2>9 DEF c
<1>4. walk = "done" => seen = used \ {Root} BY <1>1 DEF Walking, Passing
<1>5. QED BY <1>2, <1>3, <1>4 DEF FreesTheTree
-----------------------------------------------------------------------------
(* try_map. *)

\* Where a page can be mapped: above level 0 there is nothing yet.
Clear(T, i) == i.level > 0 => Pe(T, i) = Absent

\* What try_map's loop keeps, k being any other vmiter on the tables.
Sound(T, U, L, S, F, i, k) ==
    /\ Tree(T, U, L, S) /\ Faithful(T, U, L, S, F) /\ Good(U, L, S, i) /\ Good(U, L, S, k)
    /\ va_is_canonical(i.va) /\ Clear(T, i)

\* A page linked in where nothing was is a table of the tree, which says the same as
\* before; both vmiters stay where they are.
LEMMA LinkTree ==
    ASSUME NEW T, NEW U, NEW L, NEW S, NEW F, NEW i, NEW k, Sound(T, U, L, S, F, i, k),
           i.level > 0, NEW c \in Pages \ U
    PROVE  LET L2 == [L EXCEPT ![c] = i.level - 1]
               S2 == [S EXCEPT ![c] = i.va % Places]
               U2 == U \cup {c}
               T2 == LinkIn(T, i, c)
           IN  /\ Tree(T2, U2, L2, S2) /\ Faithful(T2, U2, L2, S2, F)
               /\ Good(U2, L2, S2, i) /\ Good(U2, L2, S2, k)
<1> DEFINE t == i.tab
           l == i.level
           x == i.idx
           a == i.va % Places
           L2 == [L EXCEPT ![c] = l - 1]
           S2 == [S EXCEPT ![c] = a]
           U2 == U \cup {c}
           T2 == LinkIn(T, i, c)
<1>1. Tree(T, U, L, S) /\ Faithful(T, U, L, S, F) BY DEF Sound
<1>2. /\ T \in [Pages -> [Index -> Entry]] /\ U \subseteq Pages /\ Root \in U
      /\ L \in [Pages -> Levels] /\ S \in [Pages -> Place]
      /\ \A u \in U : L[u] = 3 <=> u = Root
  BY <1>1 DEF Tree, Typed
<1>3. t \in U /\ l = L[t] /\ Covers(L, S, t, a) BY DEF Sound, Good
<1>4. /\ t \in Pages /\ Pe(T, i) = T[t][x] /\ x \in Index /\ a \in Place
      /\ x = pageindex(a, l) /\ l \in 0 .. 3
  BY <1>1, GoodPe DEF Sound
<1>5. T[t][x] = Absent BY <1>4 DEF Sound, Clear
<1>6. c # t /\ c \in Pages /\ c \notin U /\ c \in Nat BY <1>3, Constants
<1>7. l - 1 \in 0 .. 2 BY <1>4
<1> HIDE DEF t, l, x, a
<1>8. /\ T2[c] = [n \in Index |-> Absent] /\ T2[t][x] = Link(c)
      /\ \A u \in Pages, n \in Index : u # c /\ (u # t \/ n # x) => T2[u][n] = T[u][n]
  BY <1>2, <1>4, <1>6 DEF LinkIn, t, x
<1>9. T2 \in [Pages -> [Index -> Entry]]
  <2>1. Absent \in Entry /\ Link(c) \in Entry
    BY <1>6 DEF Absent, Link, Entry, Flags
  <2>2. QED BY <1>2, <1>4, <2>1 DEF LinkIn, t, x
<1>10. /\ L2 \in [Pages -> Levels] /\ S2 \in [Pages -> Place]
       /\ L2[c] = l - 1 /\ S2[c] = a
       /\ \A u \in Pages : u # c => L2[u] = L[u] /\ S2[u] = S[u]
  BY <1>2, <1>4, <1>6, <1>7 DEF Levels
<1> HIDE DEF L2, S2, T2
<1>11. \A u \in U : u \in Pages /\ u # c /\ L2[u] = L[u] /\ S2[u] = S[u]
  BY <1>2, <1>6, <1>10
<1>12. \A u \in U : \A b : Covers(L2, S2, u, b) <=> Covers(L, S, u, b)
  BY <1>11 DEF Covers
<1>13. \A b : Covers(L2, S2, c, b) <=> Q(b, l) = Q(a, l)
  <2>1. L2[c] + 1 = l BY <1>7, <1>10
  <2>2. QED BY <1>10, <2>1 DEF Covers
<1>14. Typed(T2, U2, L2, S2)
  <2>1. \A u \in U2 : L2[u] = 3 <=> u = Root BY <1>2, <1>7, <1>10, <1>11
  <2>2. QED BY <1>2, <1>6, <1>9, <1>10, <2>1 DEF Typed
<1>15. Linked(T2, U2, L2, S2)
  <2> SUFFICES ASSUME NEW u \in U2, NEW n \in Index
               PROVE  IF L2[u] = 0 THEN IsLeaf(T2[u][n]) ELSE Inner(U2, L2, S2, u, n, T2[u][n])
    BY DEF Linked
  <2>1. CASE u = c
    <3>1. T2[u][n] = Absent BY <1>8, <2>1
    <3>2. QED BY <3>1 DEF IsLeaf, Inner, Absent
  <2>2. CASE u = t /\ n = x
    <3>1. T2[u][n] = Link(c) /\ L2[u] = l /\ L2[u] # 0
      BY <1>3, <1>7, <1>8, <1>11, <2>2 DEF l
    <3>2. L2[c] = L2[u] - 1 /\ S2[c] = a /\ pageindex(S2[c], L2[u]) = n
      BY <1>4, <1>10, <2>2, <3>1
    <3>3. Covers(L2, S2, u, S2[c]) BY <1>3, <1>12, <2>2, <3>2
    <3>4. QED BY <3>1, <3>2, <3>3 DEF Inner, IsLink
  <2>3. CASE u # c /\ (u # t \/ n # x)
    <3>1. u \in U /\ u \in Pages /\ L2[u] = L[u] /\ T2[u][n] = T[u][n] BY <1>8, <1>11, <2>3
    <3>2. IF L[u] = 0 THEN IsLeaf(T[u][n]) ELSE Inner(U, L, S, u, n, T[u][n])
      BY <1>1, <3>1 DEF Tree, Linked
    <3>3. ASSUME IsLink(U, L, S, u, n, T[u][n]) PROVE IsLink(U2, L2, S2, u, n, T[u][n])
      <4>1. PICK d \in U : /\ T[u][n] = Link(d) /\ L[d] = L[u] - 1
                           /\ Covers(L, S, u, S[d]) /\ pageindex(S[d], L[u]) = n
        BY <3>3 DEF IsLink
      <4>2. Covers(L2, S2, u, S2[d]) /\ L2[d] = L2[u] - 1 /\ pageindex(S2[d], L2[u]) = n
        BY <1>11, <1>12, <3>1, <4>1
      <4>3. QED BY <4>1, <4>2 DEF IsLink
    <3>4. Inner(U, L, S, u, n, T[u][n]) => Inner(U2, L2, S2, u, n, T[u][n])
      BY <3>1, <3>3 DEF Inner
    <3>5. QED BY <3>1, <3>2, <3>4
  <2>4. QED BY <2>1, <2>2, <2>3
\* No table was for this region: it would have been linked here.
<1>16. ASSUME NEW u \in U, L[u] = l - 1, Covers(L, S, u, a) PROVE FALSE
  <2>1. L[u] < L[t] BY <1>3, <1>7, <1>16 DEF l
  <2>2. IsTable(T[t][pageindex(a, L[t])]) BY <1>1, <1>3, <1>4, <1>16, <2>1, Through
  <2>3. IsTable(Absent) BY <1>3, <1>4, <1>5, <2>2 DEF l
  <2>4. QED BY <2>3 DEF IsTable, Absent
<1>17. Distinct(U2, L2, S2)
  <2> SUFFICES ASSUME NEW s \in U2, NEW u \in U2, L2[s] = L2[u], Covers(L2, S2, s, S2[u])
               PROVE  s = u
    BY DEF Distinct
  <2>1. CASE s \in U /\ u \in U
    <3>1. L[s] = L[u] /\ Covers(L, S, s, S[u]) BY <1>11, <1>12, <2>1
    <3>2. QED BY <1>1, <2>1, <3>1 DEF Tree, Distinct
  <2>2. CASE s = c /\ u \in U
    <3>1. L[u] = l - 1 /\ L[u] + 1 = l BY <1>7, <1>10, <1>11, <2>2
    <3>2. Q(S[u], l) = Q(a, l) BY <1>11, <1>13, <2>2
    <3>3. Covers(L, S, u, a) BY <3>1, <3>2 DEF Covers
    <3>4. QED BY <1>16, <2>2, <3>1, <3>3
  <2>3. CASE s \in U /\ u = c
    <3>1. L[s] = l - 1 BY <1>10, <1>11, <2>3
    <3>2. Covers(L, S, s, a) BY <1>10, <1>12, <2>3
    <3>3. QED BY <1>16, <2>3, <3>1, <3>2
  <2>4. QED BY <2>1, <2>2, <2>3
<1>18. Reached(T2, U2, L2, S2)
  <2> SUFFICES ASSUME NEW d \in U2 \ {Root}
               PROVE  \E u \in U2 : /\ L2[u] = L2[d] + 1 /\ Covers(L2, S2, u, S2[d])
                                    /\ T2[u][pageindex(S2[d], L2[u])] = Link(d)
    BY DEF Reached
  <2>1. CASE d = c
    <3>1. t \in U2 /\ L2[t] = l /\ l = L2[d] + 1 BY <1>3, <1>7, <1>10, <1>11, <2>1 DEF l
    <3>2. Covers(L2, S2, t, S2[d]) BY <1>3, <1>10, <1>12, <2>1
    <3>3. T2[t][pageindex(S2[d], L2[t])] = Link(d) BY <1>4, <1>8, <1>10, <2>1, <3>1
    <3>4. QED BY <3>1, <3>2, <3>3
  <2>2. CASE d # c
    <3>1. d \in U \ {Root} BY <2>2
    <3>2. PICK u \in U : /\ L[u] = L[d] + 1 /\ Covers(L, S, u, S[d])
                         /\ T[u][pageindex(S[d], L[u])] = Link(d)
      BY <1>1, <3>1 DEF Tree, Reached
    <3>3. L2[u] = L2[d] + 1 /\ Covers(L2, S2, u, S2[d]) /\ u \in Pages /\ u # c
      BY <1>11, <1>12, <3>1, <3>2
    <3> DEFINE n == pageindex(S[d], L[u])
    <3>4. n \in Index
      <4>1. S[d] \in Nat /\ L[u] \in 0 .. 3 BY <1>2, <3>1, <3>2, Constants DEF Levels
      <4>2. QED BY <4>1, Parts
    <3>5. Absent # Link(d) BY DEF Absent, Link, PWU
    <3>6. u # t \/ n # x BY <1>5, <3>2, <3>5
    <3>7. T2[u][n] = Link(d) BY <1>8, <3>2, <3>3, <3>4, <3>6
    <3>8. n = pageindex(S2[d], L2[u]) BY <1>11, <3>1, <3>2
    <3>9. QED BY <3>2, <3>3, <3>7, <3>8
  <2>3. QED BY <2>1, <2>2
<1>19. Tree(T2, U2, L2, S2) BY <1>14, <1>15, <1>17, <1>18 DEF Tree
<1>20. Faithful(T2, U2, L2, S2, F)
  <2> SUFFICES ASSUME NEW u \in U2, NEW b \in Place, Covers(L2, S2, u, b),
                      Final(T2[u][pageindex(b, L2[u])], L2[u])
               PROVE  F[b] = Says(T2[u][pageindex(b, L2[u])], b, L2[u])
    BY <1>1 DEF Faithful
  <2> DEFINE n == pageindex(b, L2[u])
  <2>0. n \in Index
    <3>1. b \in Nat /\ L2[u] \in 0 .. 3 BY <1>2, <1>6, <1>10, Constants DEF Levels
    <3>2. QED BY <3>1, Parts
  <2>1. CASE u = c
    <3>1. Q(b, l) = Q(a, l) BY <1>13, <2>1
    <3>2. pageindex(b, l) = x BY <1>4, <3>1, IndexOf
    <3>3. l \in 0 .. 4 /\ l <= L[t] + 1 BY <1>3, <1>4 DEF l
    <3>4. Covers(L, S, t, b) BY <1>2, <1>3, <1>4, <3>1, <3>3, CoversSame
    <3>5. Final(T[t][x], l) BY <1>5 DEF Final, IsTable, Absent
    <3>6. F[b] = Says(Absent, b, l) BY <1>1, <1>3, <1>5, <3>2, <3>4, <3>5 DEF Faithful, l
    <3>7. T2[u][n] = Absent BY <1>8, <2>0, <2>1
    <3>8. Says(Absent, b, l) = Says(Absent, b, L2[u]) BY DEF Says, Absent
    <3>9. QED BY <3>6, <3>7, <3>8
  <2>2. CASE u = t /\ n = x
    <3>1. L2[u] # 0 /\ T2[u][n] = Link(c) BY <1>3, <1>7, <1>8, <1>11, <2>2 DEF l
    <3>2. QED BY <3>1, LinkIsTable DEF Final
  <2>3. CASE u # c /\ (u # t \/ n # x)
    <3>1. u \in U /\ u \in Pages /\ L2[u] = L[u] /\ T2[u][n] = T[u][n] /\ Covers(L, S, u, b)
      BY <1>8, <1>11, <1>12, <2>0, <2>3
    <3>2. QED BY <1>1, <3>1 DEF Faithful
  <2>4. QED BY <2>1, <2>2, <2>3
<1>21. ASSUME NEW y, Good(U, L, S, y) PROVE Good(U2, L2, S2, y)
  <2>1. CASE va_is_canonical(y.va)
    <3>1. y.tab \in U BY <1>21, <2>1 DEF Good
    <3>2. L2[y.tab] = L[y.tab] /\ (Covers(L2, S2, y.tab, y.va % Places) <=> Covers(L, S, y.tab, y.va % Places))
      BY <1>11, <1>12, <3>1
    <3>3. QED BY <1>21, <2>1, <3>1, <3>2 DEF Good
  <2>2. CASE ~ va_is_canonical(y.va) BY <1>21, <2>2 DEF Good
  <2>3. QED BY <2>1, <2>2
<1>22. Good(U2, L2, S2, i) /\ Good(U2, L2, S2, k) BY <1>21 DEF Sound
<1>23. QED BY <1>19, <1>20, <1>22 DEF L2, S2, T2, l, a

\* One iteration of try_map's loop: it is over, or there is no page ...
LEMMA GrowStays ==
    ASSUME NEW s, s.i.level = 0 \/ Pages \ s.used = {} PROVE Grow(s) = s
  BY DEF Grow

\* ... or a table is linked in, and vmiter goes down to it.
LEMMA GrowLinks ==
    ASSUME NEW s, ~ (s.i.level = 0 \/ Pages \ s.used = {})
    PROVE  Grow(s) = [T    |-> LinkIn(s.T, s.i, Free(s.used)),
                      used |-> s.used \cup {Free(s.used)},
                      i    |-> down(LinkIn(s.T, s.i, Free(s.used)), s.i)]
  BY DEF Grow

\* It keeps the tree sound.
LEMMA GrowSound ==
    ASSUME NEW s, s = [T |-> s.T, used |-> s.used, i |-> s.i], NEW F, NEW k, NEW L, NEW S,
           Sound(s.T, s.used, L, S, F, s.i, k)
    PROVE  LET g == Grow(s) IN
           /\ g = [T |-> g.T, used |-> g.used, i |-> g.i] /\ g.i.va = s.i.va
           /\ \E L2 \in [Pages -> Levels], S2 \in [Pages -> Place] :
                Sound(g.T, g.used, L2, S2, F, g.i, k)
<1> DEFINE T == s.T
           U == s.used
           i == s.i
           g == Grow(s)
<1>1. CASE i.level = 0 \/ Pages \ U = {}
  <2>1. g = s BY <1>1, GrowStays
  <2>2. L \in [Pages -> Levels] /\ S \in [Pages -> Place] BY DEF Sound, Tree, Typed
  <2>3. QED BY <2>1, <2>2
<1>2. CASE ~ (i.level = 0 \/ Pages \ U = {})
  <2> DEFINE c == Free(U)
             T2 == LinkIn(T, i, c)
             U2 == U \cup {c}
             j == down(T2, i)
             L2 == [L EXCEPT ![c] = i.level - 1]
             S2 == [S EXCEPT ![c] = i.va % Places]
  <2>1. c \in Pages \ U
    <3>1. Pages \ U \in SUBSET Nat BY Constants
    <3>2. \E x \in Pages \ U : \A y \in Pages \ U : x <= y BY <1>2, <3>1, LeastOne
    <3>3. QED BY <3>2 DEF Free
  <2>2. g = [T |-> T2, used |-> U2, i |-> j]
    <3>1. ~ (s.i.level = 0 \/ Pages \ s.used = {}) BY <1>2
    <3>2. QED BY <3>1, GrowLinks
  <2> HIDE DEF c
  <2>3. i.level > 0 /\ i.level \in 0 .. 3 BY <1>2 DEF Sound, Good, Iters, Levels
  <2>4. Tree(T2, U2, L2, S2) /\ Faithful(T2, U2, L2, S2, F) /\ Good(U2, L2, S2, i) /\ Good(U2, L2, S2, k)
    BY <2>1, <2>3, LinkTree
  <2> HIDE DEF T2
  <2>5. Good(U2, L2, S2, j) /\ j.va = i.va /\ FinalAt(T2, j) BY <2>4, DownGood
  <2>6. va_is_canonical(j.va) BY <2>5 DEF Sound
  <2>7. L2 \in [Pages -> Levels] /\ S2 \in [Pages -> Place] BY <2>4 DEF Tree, Typed
  \* The new table is where the way down ends.
  <2>8. j.tab = c
    <3> DEFINE a == i.va % Places
    <3>1. /\ j.tab \in U2 /\ j.level = L2[j.tab] /\ Covers(L2, S2, j.tab, a)
      BY <2>5, <2>6 DEF Good
    <3>2. Pe(T2, j) = T2[j.tab][j.idx] /\ j.idx = pageindex(a, j.level) /\ a \in Place /\ j.level \in 0 .. 3
      BY <2>4, <2>5, <2>6, GoodPe
    <3>3. L2[c] = i.level - 1 /\ S2[c] = a /\ c \in U2
      BY <2>1 DEF Sound, Tree, Typed
    <3>4. Covers(L2, S2, c, a) BY <3>3 DEF Covers
    <3> HIDE DEF a, j, L2, S2, U2
    <3>5. ~ (L2[c] < L2[j.tab])
      <4>1. ASSUME L2[c] < L2[j.tab] PROVE FALSE
        <5>1. IsTable(Pe(T2, j)) BY <2>4, <3>1, <3>2, <3>3, <3>4, <4>1, Through
        <5>2. j.level # 0 BY <2>3, <3>1, <3>2, <3>3, <4>1
        <5>3. QED BY <2>5, <5>1, <5>2 DEF FinalAt, Final
      <4>2. QED BY <4>1
    <3>6. ~ (L2[j.tab] < L2[c])
      <4>1. ASSUME L2[j.tab] < L2[c] PROVE FALSE
        <5>1. IsTable(T2[c][pageindex(a, L2[c])]) BY <2>4, <3>1, <3>2, <3>3, <3>4, <4>1, Through
        <5>2. pageindex(a, L2[c]) \in Index
          <6>1. a \in Nat /\ L2[c] \in 0 .. 3 BY <2>3, <3>2, <3>3, Constants
          <6>2. QED BY <6>1, Parts
        <5>3. T2[c][pageindex(a, L2[c])] = Absent
          <6>1. T2[c] = [n \in Index |-> Absent] BY <2>1 DEF T2, LinkIn, Sound, Tree, Typed
          <6>2. QED BY <5>2, <6>1
        <5>4. QED BY <5>1, <5>3 DEF IsTable, Absent
      <4>2. QED BY <4>1
    <3>7. L2[c] = L2[j.tab] BY <2>3, <3>1, <3>2, <3>3, <3>5, <3>6
    <3>8. QED BY <2>4, <3>1, <3>3, <3>4, <3>7, Alone
  <2>9. Pe(T2, j) = Absent
    <3>1. Pe(T2, j) = T2[c][j.idx] /\ j.idx \in Index BY <2>4, <2>5, <2>6, <2>8, GoodPe
    <3>2. T2[c] = [n \in Index |-> Absent] BY <2>1 DEF T2, LinkIn, Sound, Tree, Typed
    <3>3. QED BY <3>1, <3>2
  <2> HIDE DEF j, L2, S2, U2
  <2>10. Sound(T2, U2, L2, S2, F, j, k) BY <2>4, <2>5, <2>6, <2>9 DEF Sound, Clear
  <2>11. QED BY <2>2, <2>5, <2>7, <2>10
<1>3. QED BY <1>1, <1>2

\* A page is mapped, or unmapped, in a table of level 0.
LEMMA WriteSound ==
    ASSUME NEW T, NEW U, NEW L, NEW S, NEW F, NEW i, NEW k, Sound(T, U, L, S, F, i, k),
           i.level = 0, NEW e \in Entry, IsLeaf(e)
    PROVE  LET T2 == [T EXCEPT ![i.tab][i.idx] = e]
               F2 == [F EXCEPT ![i.va % Places] = Says(e, i.va % Places, 0)]
           IN  Tree(T2, U, L, S) /\ Faithful(T2, U, L, S, F2)
<1> DEFINE t == i.tab
           x == i.idx
           a == i.va % Places
           T2 == [T EXCEPT ![i.tab][i.idx] = e]
           F2 == [F EXCEPT ![i.va % Places] = Says(e, i.va % Places, 0)]
<1>1. Tree(T, U, L, S) /\ Faithful(T, U, L, S, F) BY DEF Sound
<1>2. /\ T \in [Pages -> [Index -> Entry]] /\ U \subseteq Pages
      /\ L \in [Pages -> Levels] /\ S \in [Pages -> Place]
  BY <1>1 DEF Tree, Typed
<1>3. t \in U /\ L[t] = 0 /\ Covers(L, S, t, a) BY DEF Sound, Good
<1>4. t \in Pages /\ x \in Index /\ a \in Place /\ x = pageindex(a, 0)
  BY <1>1, GoodPe DEF Sound
<1>5. F \in [Place -> [pa : Int, perm : SUBSET PWU]] BY <1>1 DEF Faithful
<1> HIDE DEF t, x, a
<1>6. /\ T2 \in [Pages -> [Index -> Entry]] /\ T2[t][x] = e
      /\ \A u \in Pages, n \in Index : u # t \/ n # x => T2[u][n] = T[u][n]
  BY <1>2, <1>4 DEF t, x
<1>7. Says(e, a, 0) \in [pa : Int, perm : SUBSET PWU]
  <2>1. e.to \in Nat BY DEF Entry
  <2>2. a \in Nat BY <1>4, Constants
  <2>3. Span[0] = 1 BY Spans
  <2>4. a % Span[0] \in Int BY <2>2, <2>3
  <2>5. e.to + (a % Span[0]) \in Int BY <2>1, <2>4
  <2>6. QED BY <2>5 DEF Says, Nothing
<1>8. /\ F2 \in [Place -> [pa : Int, perm : SUBSET PWU]] /\ F2[a] = Says(e, a, 0)
      /\ \A b \in Place : b # a => F2[b] = F[b]
  BY <1>4, <1>5, <1>7 DEF a
<1> HIDE DEF T2, F2
<1>9. Typed(T2, U, L, S) BY <1>1, <1>6 DEF Tree, Typed
<1>10. Linked(T2, U, L, S)
  <2> SUFFICES ASSUME NEW u \in U, NEW n \in Index
               PROVE  IF L[u] = 0 THEN IsLeaf(T2[u][n]) ELSE Inner(U, L, S, u, n, T2[u][n])
    BY DEF Linked
  <2>1. CASE u = t /\ n = x BY <1>3, <1>6, <2>1
  <2>2. CASE u # t \/ n # x
    <3>1. T2[u][n] = T[u][n] BY <1>2, <1>6, <2>2
    <3>2. QED BY <1>1, <3>1 DEF Tree, Linked
  <2>3. QED BY <2>1, <2>2
<1>11. Reached(T2, U, L, S)
  <2> SUFFICES ASSUME NEW d \in U \ {Root}
               PROVE  \E u \in U : /\ L[u] = L[d] + 1 /\ Covers(L, S, u, S[d])
                                   /\ T2[u][pageindex(S[d], L[u])] = Link(d)
    BY DEF Reached
  <2>1. PICK u \in U : /\ L[u] = L[d] + 1 /\ Covers(L, S, u, S[d])
                       /\ T[u][pageindex(S[d], L[u])] = Link(d)
    BY <1>1 DEF Tree, Reached
  <2>2. L[d] \in 0 .. 3 /\ L[u] \in 0 .. 3 /\ S[d] \in Nat BY <1>2, Constants DEF Levels
  <2>3. u # t BY <1>3, <2>1, <2>2
  <2>4. pageindex(S[d], L[u]) \in Index BY <2>2, Parts
  <2>5. T2[u][pageindex(S[d], L[u])] = Link(d) BY <1>2, <1>6, <2>1, <2>3, <2>4
  <2>6. QED BY <2>1, <2>5
<1>12. Tree(T2, U, L, S) BY <1>1, <1>9, <1>10, <1>11 DEF Tree
<1>13. Faithful(T2, U, L, S, F2)
  <2> SUFFICES ASSUME NEW u \in U, NEW b \in Place, Covers(L, S, u, b),
                      Final(T2[u][pageindex(b, L[u])], L[u])
               PROVE  F2[b] = Says(T2[u][pageindex(b, L[u])], b, L[u])
    BY <1>8 DEF Faithful
  <2> DEFINE n == pageindex(b, L[u])
  <2>0. n \in Index /\ b \in Nat /\ a \in Nat /\ L[u] \in 0 .. 3
    <3>1. b \in Nat /\ a \in Nat /\ L[u] \in 0 .. 3 BY <1>2, <1>4, Constants DEF Levels
    <3>2. QED BY <3>1, Parts
  <2>1. CASE u = t /\ n = x
    <3>1. Q(b, 0 + 1) = Q(a, 0 + 1) BY <1>3, <2>1 DEF Covers
    <3>2. pageindex(b, 0) = pageindex(a, 0) BY <1>3, <1>4, <2>1
    <3>3. Q(b, 0) = Q(a, 0) BY <2>0, <3>1, <3>2, RegionIndex
    <3>4. \A y \in Nat : Q(y, 0) = y BY Spans DEF Q
    <3>5. b = a BY <2>0, <3>3, <3>4
    <3>6. QED BY <1>3, <1>6, <1>8, <2>1, <3>5
  <2>2. CASE u # t \/ n # x
    <3>1. T2[u][n] = T[u][n] BY <1>2, <1>6, <2>0, <2>2
    <3>2. b # a
      <4>1. CASE u = t BY <1>3, <1>4, <2>2, <4>1
      <4>2. CASE u # t
        <5>1. ASSUME b = a PROVE FALSE
          <6>1. CASE L[u] = 0
            <7>1. L[u] = L[t] BY <1>3, <6>1
            <7>2. u = t BY <1>1, <1>3, <5>1, <7>1, Alone
            <7>3. QED BY <4>2, <7>2
          <6>2. CASE L[u] # 0
            <7>1. L[t] < L[u] BY <1>3, <2>0, <6>2
            <7>2. IsTable(T[u][n]) BY <1>1, <1>3, <1>4, <5>1, <7>1, Through
            <7>3. QED BY <3>1, <6>2, <7>2 DEF Final
          <6>3. QED BY <6>1, <6>2
        <5>2. QED BY <5>1
      <4>3. QED BY <4>1, <4>2
    <3>3. F[b] = Says(T[u][n], b, L[u]) BY <1>1, <3>1 DEF Faithful
    <3>4. QED BY <1>8, <3>1, <3>2, <3>3
  <2>3. QED BY <2>1, <2>2
<1>14. QED BY <1>12, <1>13 DEF T2, F2

\* try_map as a whole.
LEMMA MapSound ==
    ASSUME NEW L, NEW S, Tree(tables, used, L, S), Faithful(tables, used, L, S, flat),
           NEW i, Good(used, L, S, i), FinalAt(tables, i), NEW k, Good(used, L, S, k),
           va_is_canonical(i.va), ~ InTheWay(i.va), NEW a \in Frames, NEW p \in Perms
    PROVE  LET s == try_map(i, a, p)
               F == IF s.i.level > 0 THEN flat
                    ELSE [flat EXCEPT ![i.va % Places] =
                            IF p = {} THEN [pa |-> -1, perm |-> {}] ELSE [pa |-> a, perm |-> p]]
           IN  \E L2 \in [Pages -> Levels], S2 \in [Pages -> Place] :
                /\ Tree(s.T, s.used, L2, S2) /\ Faithful(s.T, s.used, L2, S2, F)
                /\ Good(s.used, L2, S2, s.i) /\ Good(s.used, L2, S2, k)
<1> DEFINE r == [T |-> tables, used |-> used, i |-> i]
           t == IF p = {} THEN r ELSE Grow(Grow(Grow(r)))
           e == [to |-> IF p = {} THEN 0 ELSE a, perm |-> p]
           s == try_map(i, a, p)
           G == [flat EXCEPT ![i.va % Places] =
                   IF p = {} THEN [pa |-> -1, perm |-> {}] ELSE [pa |-> a, perm |-> p]]
           F == IF s.i.level > 0 THEN flat ELSE G
<1>1. s = IF t.i.level > 0 THEN t ELSE [t EXCEPT !.T[t.i.tab][t.i.idx] = e]
  BY DEF try_map
<1>2. i.va \in VA BY DEF Good, Iters
<1>3. Clear(tables, i)
  <2> SUFFICES ASSUME i.level > 0 PROVE Pe(tables, i) = Absent
    BY DEF Clear
  <2> DEFINE j == New(tables, i.va)
  <2>1. Good(used, L, S, j) /\ j.va = i.va /\ FinalAt(tables, j) BY <1>2, NewGood
  <2>2. "PS" \notin Pe(tables, j).perm BY DEF InTheWay
  <2> HIDE DEF j
  <2>3. i = j BY <2>1, OneEnd
  <2>4. Pe(tables, i) = Absent \/ IsLarge(Pe(tables, i)) BY EndInner
  <2>5. QED BY <2>2, <2>3, <2>4 DEF IsLarge
<1>4. L \in [Pages -> Levels] /\ S \in [Pages -> Place] BY DEF Tree, Typed
<1> DEFINE Ok(x) == /\ x = [T |-> x.T, used |-> x.used, i |-> x.i] /\ x.i.va = i.va
                    /\ \E L2 \in [Pages -> Levels], S2 \in [Pages -> Place] :
                        Sound(x.T, x.used, L2, S2, flat, x.i, k)
<1>5. Ok(r) BY <1>3, <1>4 DEF Sound
<1>6. ASSUME NEW x, Ok(x) PROVE Ok(Grow(x))
  <2>1. PICK L2 \in [Pages -> Levels], S2 \in [Pages -> Place] :
          Sound(x.T, x.used, L2, S2, flat, x.i, k)
    BY <1>6
  <2>2. x = [T |-> x.T, used |-> x.used, i |-> x.i] BY <1>6
  <2>3. QED BY <1>6, <2>1, <2>2, GrowSound
<1>7. Ok(t)
  <2> DEFINE g == Grow(r)
             h == Grow(g)
  <2> HIDE DEF Ok, r
  <2>1. Ok(g) BY <1>5, <1>6
  <2> HIDE DEF g
  <2>2. Ok(h) BY <1>6, <2>1
  <2> HIDE DEF h
  <2>3. Ok(Grow(h)) BY <1>6, <2>2
  <2>4. QED BY <1>5, <2>3 DEF g, h
<1> HIDE DEF r, t
<1>8. PICK L2 \in [Pages -> Levels], S2 \in [Pages -> Place] :
        Sound(t.T, t.used, L2, S2, flat, t.i, k)
  BY <1>7
<1>9. t = [T |-> t.T, used |-> t.used, i |-> t.i] /\ t.i.va = i.va BY <1>7
<1>10. t.i.level \in 0 .. 3 BY <1>8 DEF Sound, Good, Iters, Levels
<1> HIDE DEF s, e
<1>11. CASE t.i.level > 0
  <2>1. s = t /\ F = flat BY <1>1, <1>11
  <2>2. QED BY <1>8, <2>1 DEF Sound, s
<1>12. CASE ~ (t.i.level > 0)
  <2> DEFINE T2 == [t.T EXCEPT ![t.i.tab][t.i.idx] = e]
  <2>1. s.T = T2 /\ s.used = t.used /\ s.i = t.i
    <3>1. s = [t EXCEPT !.T[t.i.tab][t.i.idx] = e] BY <1>1, <1>12
    <3> DEFINE x == t.T
               y == t.used
               z == t.i
    <3>2. t = [T |-> x, used |-> y, i |-> z] BY <1>9
    <3>3. s = [[T |-> x, used |-> y, i |-> z] EXCEPT !.T[z.tab][z.idx] = e] BY <3>1, <3>2
    <3> HIDE DEF x, y, z
    <3>4. s.T = [x EXCEPT ![z.tab][z.idx] = e] /\ s.used = y /\ s.i = z BY <3>3
    <3>5. QED BY <3>4 DEF x, y, z
  <2>2. t.i.level = 0 BY <1>10, <1>12
  <2>3. a \in Nat /\ p \subseteq PWU /\ (p # {} => "P" \in p)
    BY TableAssumption DEF PWU
  <2>4. e \in Entry /\ IsLeaf(e) BY <2>3 DEF e, Entry, IsLeaf, Flags
  <2>5. Says(e, t.i.va % Places, 0) = IF p = {} THEN [pa |-> -1, perm |-> {}] ELSE [pa |-> a, perm |-> p]
    <3>1. t.i.va % Places \in Nat BY <1>2, <1>9, PlaceOf, Constants
    <3>2. Span[0] = 1 BY Spans
    <3>3. a + ((t.i.va % Places) % Span[0]) = a BY <2>3, <3>1, <3>2
    <3>4. p \cap PWU = p BY <2>3
    <3>5. QED BY <2>3, <3>3, <3>4 DEF Says, e, Nothing
  <2>6. Tree(T2, t.used, L2, S2)
        /\ Faithful(T2, t.used, L2, S2, [flat EXCEPT ![t.i.va % Places] = Says(e, t.i.va % Places, 0)])
    BY <1>8, <2>2, <2>4, WriteSound
  <2>7. G = [flat EXCEPT ![t.i.va % Places] = Says(e, t.i.va % Places, 0)]
    BY <1>9, <2>5
  <2>8. F = G BY <1>12, <2>1
  <2>9. Good(t.used, L2, S2, t.i) /\ Good(t.used, L2, S2, k) BY <1>8 DEF Sound
  <2> HIDE DEF T2, F, G
  <2>10. Tree(s.T, s.used, L2, S2) /\ Faithful(s.T, s.used, L2, S2, F)
    BY <2>1, <2>6, <2>7, <2>8
  <2>11. Good(s.used, L2, S2, s.i) /\ Good(s.used, L2, S2, k) BY <2>1, <2>9
  <2>12. QED BY <2>10, <2>11 DEF F, G, s
<1>13. QED BY <1>11, <1>12

\* The tables as the kernel's operations leave them, without a walk.
LEMMA IdleInv ==
    ASSUME NEW L \in [Pages -> Levels], NEW S \in [Pages -> Place], Tree(tables', used', L, S),
           Faithful(tables', used', L, S, flat'), Good(used', L, S, it'), walk' = "idle"
    PROVE  IterInv'
<1>1. Walking(tables', used', L, S, walk', pit', seen') BY DEF Walking
<1>2. QED BY <1>1 DEF IterInv
-----------------------------------------------------------------------------
(* The steps of a ptiter. *)

\* The walk begins at the root, with nothing visited.
LEMMA PassingStart ==
    ASSUME NEW T, NEW U, NEW L, NEW S, Tree(T, U, L, S)
    PROVE  Passing(U, L, S, NoWalk, {})
<1>1. /\ U \subseteq Pages /\ Root \in U /\ Root \in Pages /\ L[Root] = 3 /\ S[Root] \in Place
      /\ L \in [Pages -> Levels] /\ S \in [Pages -> Place]
  BY DEF Tree, Typed
<1>2. \A l \in 0 .. 4 : Q(0, l) = 0
  <2> SUFFICES ASSUME NEW l \in 0 .. 4 PROVE Q(0, l) = 0
    OBVIOUS
  <2>1. Span[l] \in Nat /\ Span[l] > 0 BY Spans
  <2>2. 0 = Span[l] * 0 + 0 /\ 0 \in 0 .. Span[l] - 1 BY <2>1
  <2>3. QED BY <2>1, <2>2, DivOne DEF Q
<1>3. pageindex(0, 3) = 0
  <2>1. B \in Nat /\ B > 0 BY Constants
  <2>2. 0 = B * 0 + 0 /\ 0 \in 0 .. B - 1 BY <2>1
  <2>3. 0 % B = 0 BY <2>1, <2>2, DivOne
  <2>4. 0 \div Span[3] = 0 BY <1>2 DEF Q
  <2>5. QED BY <2>3, <2>4 DEF pageindex
<1>4. Covers(L, S, Root, 0)
  <2>1. Q(S[Root], 4) = 0 /\ Q(0, 4) = 0 BY <1>1, <1>2, Whole
  <2>2. QED BY <1>1, <2>1 DEF Covers
<1>5. Depth(NoWalk) = 0 BY DEF Depth, NoWalk
<1>6. Standing(U, L, S, NoWalk)
  <2>1. 0 \in Place /\ 0 \in Index BY Constants
  <2>2. NoWalk \in PtIters BY <1>1, <2>1 DEF NoWalk, PtIters
  <2>3. QED BY <1>1, <1>3, <1>4, <2>2 DEF NoWalk, Standing
<1>7. \A t \in U : L[t] \in 0 .. 3 /\ S[t] \in Nat BY <1>1, Constants DEF Levels
<1>8. Behind(U, L, S, NoWalk) BY <1>5, <1>7 DEF Behind
<1>9. Rising(U, L, S, NoWalk) BY DEF Rising, NoWalk
<1>10. ASSUME NEW t \in U PROVE ~ Visited(L, S, NoWalk, t)
  <2>1. L[t] + 1 \in 0 .. 4 BY <1>7
  <2>2. Q(S[t], L[t] + 1) \in Nat BY <1>7, <2>1, RegionType
  <2>3. Q(NoWalk.va, L[t] + 1) = 0 BY <1>2, <2>1 DEF NoWalk
  <2>4. ~ (L[t] < Depth(NoWalk)) BY <1>5, <1>7
  <2>5. QED BY <2>2, <2>3, <2>4 DEF Visited
<1>11. QED BY <1>6, <1>8, <1>9, <1>10 DEF Passing

\* If an entry is not a table, no table is for the entry's region.
LEMMA NoneBelow ==
    ASSUME NEW T, NEW U, NEW L, NEW S, Tree(T, U, L, S), NEW p, Standing(U, L, S, p),
           ~ IsTable(Pe(T, p)), NEW t \in U, L[t] < p.level, Q(S[t], p.level) = Q(p.va, p.level)
    PROVE  FALSE
<1>1. /\ Pe(T, p) = T[p.tab][p.idx] /\ p.level \in 1 .. 3 /\ p.va \in Place /\ p.va \in Nat
      /\ p.tab \in U
  BY PitPe
<1>2. p.level = L[p.tab] /\ Covers(L, S, p.tab, p.va) /\ p.idx = pageindex(p.va, p.level)
  BY DEF Standing
<1>3. U \subseteq Pages /\ L \in [Pages -> Levels] /\ S \in [Pages -> Place] BY DEF Tree, Typed
<1>4. PICK s \in U : /\ L[s] = p.level /\ Covers(L, S, s, S[t])
                     /\ IsTable(T[s][pageindex(S[t], p.level)])
  BY <1>1, Above DEF Levels
<1>5. p.level \in 0 .. 4 /\ p.level <= L[p.tab] + 1 BY <1>1, <1>2
<1>6. S[t] \in Place BY <1>3
<1>7. Covers(L, S, p.tab, S[t]) BY <1>1, <1>2, <1>3, <1>5, <1>6, CoversSame
<1>8. L[s] = L[p.tab] BY <1>2, <1>4
<1>9. s = p.tab BY <1>1, <1>4, <1>7, <1>8, Alone
<1>10. pageindex(S[t], p.level) = p.idx BY <1>2, IndexOf
<1>11. QED BY <1>1, <1>4, <1>9, <1>10

\* When the ptiter leaves an entry, it has visited all tables in the entry's
\* region, and none further on.
LEMMA Leaving ==
    ASSUME NEW T, NEW U, NEW L, NEW S, Tree(T, U, L, S), NEW p, NEW V, Passing(U, L, S, p, V),
           ~ IsTable(Pe(T, p)) \/ p.skip, NEW t \in U
    PROVE  /\ p.stop = 1 /\ L[t] \in 0 .. 3 /\ S[t] \in Place /\ S[t] \in Nat
           /\ Q(S[t], L[t] + 1) \in Nat /\ Q(p.va, L[t] + 1) \in Nat
           /\ Q(S[t], p.level) \in Nat /\ Q(p.va, p.level) \in Nat
           /\ L[t] < p.level /\ Q(S[t], p.level) = Q(p.va, p.level)
                => Q(S[t], L[t] + 1) <= Q(p.va, L[t] + 1)
           /\ Visited(L, S, p, t) <=>
                \/ Q(S[t], L[t] + 1) < Q(p.va, L[t] + 1)
                \/ L[t] < p.level /\ Q(S[t], p.level) = Q(p.va, p.level)
<1>1. Standing(U, L, S, p) /\ Behind(U, L, S, p) /\ Rising(U, L, S, p) BY DEF Passing
<1>2. p.level \in 1 .. 3 /\ p.stop \in 1 .. 3 /\ p.va \in Place /\ p.va \in Nat
  BY <1>1, PitPe
<1>3. p.stop <= p.level /\ (p.skip => p.stop = 1) BY <1>1 DEF Standing
<1>4. \A u \in U : L[u] \in 0 .. 3 /\ S[u] \in Place /\ S[u] \in Nat
  <2>1. U \subseteq Pages /\ L \in [Pages -> Levels] /\ S \in [Pages -> Place] BY DEF Tree, Typed
  <2>2. QED BY <2>1, Constants DEF Levels
<1>5. p.stop = 1
  <2>1. ASSUME p.stop > 1, ~ p.skip PROVE FALSE
    <3>1. PICK u \in U : L[u] = p.stop - 1 /\ Covers(L, S, u, p.va) BY <1>1, <2>1 DEF Rising
    <3>2. L[u] + 1 = p.stop /\ L[u] < p.level BY <1>2, <1>3, <3>1
    <3>3. Q(p.va, p.stop) = Q(S[u], p.stop) BY <3>1, <3>2 DEF Covers
    <3>4. p.stop \in 0 .. 4 /\ p.level \in 0 .. 4 BY <1>2
    <3>5. Q(p.va, p.level) = Q(S[u], p.level) BY <1>2, <1>3, <1>4, <3>3, <3>4, RegionMono
    <3>6. ~ IsTable(Pe(T, p)) BY <2>1
    <3>7. QED BY <1>1, <3>2, <3>5, <3>6, NoneBelow
  <2>2. QED BY <1>2, <1>3, <2>1
<1>6. L[t] + 1 \in 0 .. 4 /\ p.level \in 0 .. 4 BY <1>2, <1>4
<1>7. /\ Q(S[t], L[t] + 1) \in Nat /\ Q(p.va, L[t] + 1) \in Nat
      /\ Q(S[t], p.level) \in Nat /\ Q(p.va, p.level) \in Nat
  BY <1>2, <1>4, <1>6, RegionType
<1>8. L[t] < p.level /\ Q(S[t], L[t] + 1) = Q(p.va, L[t] + 1) => Q(S[t], p.level) = Q(p.va, p.level)
  <2>1. L[t] < p.level => L[t] + 1 <= p.level BY <1>2, <1>4
  <2>2. QED BY <1>2, <1>4, <1>6, <2>1, RegionMono
<1>9. CASE p.skip
  <2>1. Depth(p) = p.level BY <1>9 DEF Depth
  <2>2. L[t] < p.level /\ Q(S[t], p.level) = Q(p.va, p.level) => Q(S[t], L[t] + 1) <= Q(p.va, L[t] + 1)
    BY <1>1, <2>1 DEF Behind
  <2>3. Visited(L, S, p, t) <=> \/ Q(S[t], L[t] + 1) < Q(p.va, L[t] + 1)
                                \/ Q(S[t], L[t] + 1) = Q(p.va, L[t] + 1) /\ L[t] < p.level
    BY <2>1 DEF Visited
  <2>4. QED BY <1>4, <1>5, <1>7, <1>8, <2>2, <2>3
<1>10. CASE ~ p.skip
  <2>1. Depth(p) = 0 BY <1>5, <1>10 DEF Depth
  <2>2. ~ (L[t] < p.level /\ Q(S[t], p.level) = Q(p.va, p.level)) BY <1>1, <1>10, NoneBelow
  <2>3. ~ (L[t] < Depth(p)) BY <1>4, <2>1
  <2>4. Visited(L, S, p, t) <=> Q(S[t], L[t] + 1) < Q(p.va, L[t] + 1)
    BY <2>3 DEF Visited
  <2>5. QED BY <1>4, <1>5, <1>7, <2>2, <2>4
<1>11. QED BY <1>9, <1>10

\* The end of the region of the entry that the ptiter is at.
LEMMA PitEnd ==
    ASSUME NEW T, NEW U, NEW L, NEW S, Tree(T, U, L, S), NEW p, Standing(U, L, S, p)
    PROVE  LET n == After(p.va, p.level)
               l == p.level
           IN  /\ n \in Nat /\ n <= Places /\ p.va < n
               /\ \A b \in Nat : b < n <=> Q(b, l) <= Q(p.va, l)
               /\ Q(n, l) = Q(p.va, l) + 1
               /\ IF Apart(n, p.va, l + 1) THEN pageindex(p.va, l) = B - 1
                  ELSE n \in Place /\ pageindex(n, l) = pageindex(p.va, l) + 1
<1> DEFINE l == p.level
           v == p.va
           n == After(p.va, p.level)
<1>1. l \in 0 .. 3 /\ v \in Place /\ v \in Nat /\ v \in VA
  <2>1. p.level \in 1 .. 3 /\ p.va \in Place /\ p.va \in Nat BY PitPe
  <2>2. QED BY <2>1, Constants
<1>2. Places \in Nat /\ Places > 0 /\ Space = 2 * Places /\ v < Places BY <1>1, Bounds DEF Place
<1>3. /\ End(v, l) \in Nat /\ v < End(v, l) /\ End(v, l) <= Places
      /\ \A b \in Nat : b < End(v, l) <=> Q(b, l) <= Q(v, l)
      /\ Q(End(v, l), l) = Q(v, l) + 1
      /\ n = IF End(v, l) = Space THEN 0 ELSE End(v, l)
  BY <1>1, <1>2, Ends
<1>4. n = End(v, l) BY <1>2, <1>3
<1>5. /\ n \in Nat /\ n <= Places /\ v < n /\ \A b \in Nat : b < n <=> Q(b, l) <= Q(v, l)
      /\ Q(n, l) = Q(v, l) + 1
  BY <1>3, <1>4
<1> HIDE DEF n, l, v
<1> DEFINE x == pageindex(v, l)
           y == pageindex(n, l)
           q == Q(v, l + 1)
           r == Q(n, l + 1)
<1>6. x \in 0 .. B - 1 /\ q \in Nat /\ Q(v, l) = B * q + x BY <1>1, Parts DEF Index
<1>7. y \in 0 .. B - 1 /\ r \in Nat /\ Q(n, l) = B * r + y BY <1>1, <1>5, Parts DEF Index
<1>8. B \in Nat /\ B > 0 BY Constants
<1>9. Apart(n, v, l + 1) <=> r # q BY DEF Apart, Q
<1>10. r # q => x = B - 1
  <2> HIDE DEF x, y, q, r
  <2>1. ASSUME x # B - 1 PROVE r = q
    <3>1. x + 1 \in 0 .. B - 1 BY <1>6, <1>8, <2>1
    <3>2. B * q \in Int /\ B * r \in Int BY <1>6, <1>7, <1>8
    <3>3. B * r + y = B * q + (x + 1) BY <1>5, <1>6, <1>7, <3>2
    <3>4. B * r + y \in Int BY <1>7, <3>2
    <3>5. (B * r + y) \div B = r BY <1>7, <1>8, <3>4, DivOne
    <3>6. (B * r + y) \div B = q BY <1>6, <1>8, <3>1, <3>3, <3>4, DivOne
    <3>7. QED BY <3>5, <3>6
  <2>2. QED BY <2>1
<1>11. r = q => y = x + 1
  <2> HIDE DEF x, y, q, r
  <2>1. B * q \in Int BY <1>6, <1>8
  <2>2. QED BY <1>5, <1>6, <1>7, <2>1
<1>12. r = q => n \in Place
  <2> SUFFICES ASSUME r = q, ~ (n < Places) PROVE FALSE
    BY <1>2, <1>5 DEF Place
  <2>1. Q(n, 4) = Q(v, 4)
    <3>1. l + 1 \in 0 .. 4 /\ l + 1 <= 4 BY <1>1
    <3>2. QED BY <1>1, <1>5, <3>1, RegionMono
  <2>2. Q(v, 4) = 0 BY <1>1, Whole
  <2>3. n < 1 * Span[4] <=> Q(n, 4) < 1 BY <1>5, RegionBound
  <2>4. 1 * Span[4] = Places BY <1>2 DEF Places
  <2>5. QED BY <2>1, <2>2, <2>3, <2>4
<1>13. QED BY <1>5, <1>9, <1>10, <1>11, <1>12 DEF n, l, v

\* On to the next entry of the table.
LEMMA StepOn ==
    ASSUME NEW T, NEW U, NEW L, NEW S, Tree(T, U, L, S), NEW p, NEW V, Passing(U, L, S, p, V),
           ~ IsTable(Pe(T, p)) \/ p.skip, ~ Apart(After(p.va, p.level), p.va, p.level + 1)
    PROVE  Passing(U, L, S,
                   [p EXCEPT !.idx = @ + 1, !.va = After(p.va, p.level), !.skip = FALSE], V)
<1> DEFINE n == After(p.va, p.level)
           l == p.level
           v == p.va
           p2 == [p EXCEPT !.idx = @ + 1, !.va = After(p.va, p.level), !.skip = FALSE]
<1>1. Standing(U, L, S, p) /\ V = {t \in U \ {Root} : Visited(L, S, p, t)} BY DEF Passing
<1>2. /\ l \in 1 .. 3 /\ v \in Place /\ v \in Nat /\ p.tab \in U /\ p.tab \in Pages /\ p.idx \in Index
  BY <1>1, PitPe
<1>3. /\ n \in Nat /\ v < n /\ (\A b \in Nat : b < n <=> Q(b, l) <= Q(v, l))
      /\ Q(n, l) = Q(v, l) + 1 /\ n \in Place /\ pageindex(n, l) = pageindex(v, l) + 1
  BY <1>1, PitEnd
<1>4. p \in PtIters /\ l = L[p.tab] /\ Covers(L, S, p.tab, v) /\ p.idx = pageindex(v, l)
  BY <1>1 DEF Standing
<1>5. p.stop = 1
  BY <1>2, Leaving
<1>6. /\ p2.va = n /\ p2.level = l /\ p2.tab = p.tab /\ p2.idx = p.idx + 1 /\ p2.skip = FALSE
      /\ p2.stop = 1
  BY <1>4, <1>5 DEF PtIters
<1>7. pageindex(n, l) \in Index
  <2>1. l \in 0 .. 3 /\ n \in Nat BY <1>2, <1>3
  <2>2. QED BY <2>1, Parts
<1>8. p2 \in PtIters BY <1>3, <1>4, <1>7 DEF PtIters
<1>9. Q(n, l + 1) = Q(v, l + 1) BY DEF Apart, Q
<1> HIDE DEF p2, n, l, v
<1>10. Standing(U, L, S, p2)
  <2>1. Covers(L, S, p.tab, n) BY <1>4, <1>9 DEF Covers
  <2>2. 1 <= l BY <1>2
  <2>3. QED BY <1>2, <1>3, <1>4, <1>6, <1>8, <2>1, <2>2 DEF Standing
<1>11. Depth(p2) = 0 BY <1>6 DEF Depth
<1>12. \A t \in U : L[t] \in 0 .. 3 /\ S[t] \in Nat BY Leaving
<1>13. Behind(U, L, S, p2) BY <1>11, <1>12 DEF Behind
<1>14. Rising(U, L, S, p2) BY <1>6 DEF Rising
<1>15. ASSUME NEW t \in U PROVE Visited(L, S, p2, t) <=> Visited(L, S, p, t)
  <2> DEFINE m == L[t] + 1
  <2>1. /\ L[t] \in 0 .. 3 /\ S[t] \in Nat /\ Q(S[t], m) \in Nat /\ Q(v, m) \in Nat
        /\ Q(S[t], l) \in Nat /\ Q(v, l) \in Nat
        /\ Visited(L, S, p, t) <=> \/ Q(S[t], m) < Q(v, m)
                                   \/ L[t] < l /\ Q(S[t], l) = Q(v, l)
    BY Leaving DEF l, v
  <2>2. m \in 0 .. 4 /\ l \in 0 .. 4 BY <1>2, <2>1
  <2>3. Q(n, m) \in Nat /\ Q(n, l) \in Nat BY <1>3, <2>2, RegionType
  <2>4. Visited(L, S, p2, t) <=> Q(S[t], m) < Q(n, m)
    <3>1. ~ (L[t] < Depth(p2)) BY <1>11, <2>1
    <3>2. QED BY <1>6, <3>1 DEF Visited
  <2> HIDE DEF m
  <2>5. CASE L[t] >= l
    <3>1. l + 1 \in 0 .. 4 /\ l + 1 <= m BY <1>2, <2>1, <2>5 DEF m
    <3>2. Q(n, m) = Q(v, m) BY <1>2, <1>3, <1>9, <2>2, <3>1, RegionMono
    <3>3. ~ (L[t] < l) BY <1>2, <2>1, <2>5
    <3>4. QED BY <2>1, <2>4, <3>2, <3>3
  <2>6. CASE ~ (L[t] >= l)
    <3>1. L[t] < l /\ m <= l BY <1>2, <2>1, <2>6 DEF m
    <3>2. \A x \in Nat : Q(x, 0) = x BY Spans DEF Q
    <3>3. ASSUME Q(S[t], m) < Q(n, m) PROVE Visited(L, S, p, t)
      <4>1. S[t] < n
        <5>1. ASSUME n <= S[t] PROVE FALSE
          <6>1. Q(n, 0) <= Q(S[t], 0) BY <1>3, <2>1, <3>2, <5>1
          <6>2. 0 \in 0 .. 4 /\ 0 <= m BY <2>2
          <6>3. Q(n, m) <= Q(S[t], m) BY <1>3, <2>1, <2>2, <6>1, <6>2, RegionMono
          <6>4. QED BY <2>1, <2>3, <3>3, <6>3
        <5>2. QED BY <1>3, <2>1, <5>1
      <4>2. Q(S[t], l) <= Q(v, l) BY <1>3, <2>1, <4>1
      <4>3. Q(S[t], l) < Q(v, l) => Q(S[t], m) < Q(v, m)
        BY <1>2, <2>1, <2>2, <3>1, RegionMono
      <4>4. QED BY <2>1, <3>1, <4>2, <4>3
    <3>4. ASSUME Q(S[t], m) < Q(v, m) PROVE Q(S[t], m) < Q(n, m)
      <4>1. Q(v, 0) <= Q(n, 0) BY <1>2, <1>3, <3>2
      <4>2. 0 \in 0 .. 4 /\ 0 <= m BY <2>2
      <4>3. Q(v, m) <= Q(n, m) BY <1>2, <1>3, <2>2, <4>1, <4>2, RegionMono
      <4>4. QED BY <2>1, <2>3, <3>4, <4>3
    <3>5. ASSUME Q(S[t], l) = Q(v, l) PROVE Q(S[t], m) < Q(n, m)
      <4>1. Q(S[t], l) < Q(n, l) BY <1>3, <2>1, <3>5
      <4>2. QED BY <1>3, <2>1, <2>2, <3>1, <4>1, RegionMono
    <3>6. QED BY <2>1, <2>4, <3>3, <3>4, <3>5
  <2>7. QED BY <2>5, <2>6
<1>16. V = {t \in U \ {Root} : Visited(L, S, p2, t)} BY <1>1, <1>15
<1>17. QED BY <1>10, <1>13, <1>14, <1>16 DEF Passing, p2

\* Up from the end of a table, by way of the root.
LEMMA StepUp ==
    ASSUME NEW T, NEW U, NEW L, NEW S, Tree(T, U, L, S), NEW p, NEW V, Passing(U, L, S, p, V),
           ~ IsTable(Pe(T, p)) \/ p.skip, Apart(After(p.va, p.level), p.va, p.level + 1)
    PROVE  /\ p.level = 3 => V = U \ {Root}
           /\ p.level # 3 =>
                Passing(U, L, S, [NoWalk EXCEPT !.va = p.va, !.idx = pageindex(p.va, 3),
                                                !.stop = PtStop(p.level)], V)
<1> DEFINE l == p.level
           v == p.va
           p2 == [NoWalk EXCEPT !.va = p.va, !.idx = pageindex(p.va, 3), !.stop = PtStop(p.level)]
<1>1. Standing(U, L, S, p) /\ V = {t \in U \ {Root} : Visited(L, S, p, t)} BY DEF Passing
<1>2. l \in 1 .. 3 /\ v \in Place /\ v \in Nat /\ p.tab \in U /\ p.tab \in Pages
  BY <1>1, PitPe
<1>3. pageindex(v, l) = B - 1 BY <1>1, PitEnd
<1>4. l = L[p.tab] /\ Covers(L, S, p.tab, v) BY <1>1 DEF Standing
<1>5. /\ U \subseteq Pages /\ Root \in U /\ Root \in Pages /\ S[Root] \in Place
      /\ \A t \in U : L[t] = 3 <=> t = Root
  BY DEF Tree, Typed
<1>6. ASSUME l = 3 PROVE V = U \ {Root}
  <2> SUFFICES ASSUME NEW t \in U \ {Root} PROVE Visited(L, S, p, t)
    BY <1>1
  <2>1. /\ L[t] \in 0 .. 3 /\ S[t] \in Place /\ S[t] \in Nat
        /\ Q(S[t], 3) \in Nat /\ Q(v, 3) \in Nat
        /\ Visited(L, S, p, t) <=> \/ Q(S[t], L[t] + 1) < Q(v, L[t] + 1)
                                   \/ L[t] < 3 /\ Q(S[t], 3) = Q(v, 3)
    BY <1>6, Leaving
  <2>2. L[t] < 3 /\ L[t] + 1 \in 0 .. 4 /\ L[t] + 1 <= 3 BY <1>5, <2>1
  <2>3. Q(S[t], 3 + 1) = Q(v, 3 + 1)
    <3>1. Q(S[t], 4) = 0 /\ Q(v, 4) = 0 BY <1>2, <2>1, Whole
    <3>2. QED BY <3>1
  <2>4. Q(S[t], 3) <= Q(v, 3) BY <1>2, <1>3, <1>6, <2>1, <2>3, AtEnd
  <2>5. Q(S[t], 3) < Q(v, 3) => Q(S[t], L[t] + 1) < Q(v, L[t] + 1)
    BY <1>2, <2>1, <2>2, RegionMono
  <2>6. QED BY <2>1, <2>2, <2>4, <2>5
<1>7. ASSUME l # 3 PROVE Passing(U, L, S, p2, V)
  <2>1. /\ p2.va = v /\ p2.level = 3 /\ p2.tab = Root /\ p2.idx = pageindex(v, 3)
        /\ p2.skip = FALSE /\ p2.stop = l + 1
    BY DEF NoWalk, PtStop
  <2>2. l + 1 \in 2 .. 3 BY <1>2, <1>7
  <2>3. pageindex(v, 3) \in Index BY <1>2, Parts
  <2>4. p2 \in PtIters
    <3>1. NoWalk \in PtIters
      <4>1. Passing(U, L, S, NoWalk, {}) BY PassingStart
      <4>2. QED BY <4>1 DEF Passing, Standing
    <3>2. [NoWalk EXCEPT !.va = v] \in PtIters BY <1>2, <3>1 DEF PtIters
    <3>3. \A q \in PtIters : [q EXCEPT !.idx = pageindex(v, 3)] \in PtIters BY <2>3 DEF PtIters
    <3>4. \A q \in PtIters : [q EXCEPT !.stop = PtStop(l)] \in PtIters
      <4>1. PtStop(l) \in 1 .. 3 BY <2>2 DEF PtStop
      <4>2. QED BY <4>1 DEF PtIters
    <3>5. p2 = [[[NoWalk EXCEPT !.va = v] EXCEPT !.idx = pageindex(v, 3)] EXCEPT !.stop = PtStop(l)]
      OBVIOUS
    <3> HIDE DEF p2, v, l
    <3>6. [[NoWalk EXCEPT !.va = v] EXCEPT !.idx = pageindex(v, 3)] \in PtIters BY <3>2, <3>3
    <3>7. QED BY <3>4, <3>5, <3>6
  <2> HIDE DEF p2, l, v
  <2>5. Standing(U, L, S, p2)
    <3>1. L[Root] = 3 BY <1>5
    <3>2. Q(S[Root], 4) = Q(v, 4)
      <4>1. Q(S[Root], 4) = 0 /\ Q(v, 4) = 0 BY <1>2, <1>5, Whole
      <4>2. QED BY <4>1
    <3>3. Covers(L, S, Root, v) BY <3>1, <3>2 DEF Covers
    <3>4. p2.stop <= p2.level BY <2>1, <2>2
    <3>5. QED BY <1>5, <2>1, <2>4, <3>1, <3>3, <3>4 DEF Standing
  <2>6. Depth(p2) = l BY <1>2, <2>1 DEF Depth
  <2>7. Behind(U, L, S, p2)
    <3>1. ASSUME NEW t \in U, L[t] < l, Q(S[t], l) = Q(v, l) PROVE Q(S[t], L[t] + 1) <= Q(v, L[t] + 1)
      BY <3>1, Leaving DEF l, v
    <3>2. QED BY <2>1, <2>6, <3>1 DEF Behind
  <2>8. Rising(U, L, S, p2)
    <3>1. p2.stop - 1 = l BY <1>2, <2>1
    <3>2. QED BY <1>2, <1>3, <1>4, <2>1, <3>1 DEF Rising
  <2>9. ASSUME NEW t \in U PROVE Visited(L, S, p2, t) <=> Visited(L, S, p, t)
    <3>1. /\ L[t] \in 0 .. 3 /\ S[t] \in Nat /\ Q(S[t], L[t] + 1) \in Nat /\ Q(v, L[t] + 1) \in Nat
          /\ L[t] < l /\ Q(S[t], l) = Q(v, l) => Q(S[t], L[t] + 1) <= Q(v, L[t] + 1)
          /\ Visited(L, S, p, t) <=> \/ Q(S[t], L[t] + 1) < Q(v, L[t] + 1)
                                     \/ L[t] < l /\ Q(S[t], l) = Q(v, l)
      BY Leaving DEF l, v
    <3>2. Visited(L, S, p2, t) <=> \/ Q(S[t], L[t] + 1) < Q(v, L[t] + 1)
                                   \/ Q(S[t], L[t] + 1) = Q(v, L[t] + 1) /\ L[t] < l
      BY <2>1, <2>6 DEF Visited
    <3>3. L[t] < l /\ Q(S[t], L[t] + 1) = Q(v, L[t] + 1) => Q(S[t], l) = Q(v, l)
      <4>1. L[t] < l => L[t] + 1 <= l BY <1>2, <3>1
      <4>2. L[t] + 1 \in 0 .. 4 /\ l \in 0 .. 4 BY <1>2, <3>1
      <4>3. QED BY <1>2, <3>1, <4>1, <4>2, RegionMono
    <3>4. QED BY <3>1, <3>2, <3>3
  <2>10. V = {t \in U \ {Root} : Visited(L, S, p2, t)} BY <1>1, <2>9
  <2>11. QED BY <2>5, <2>7, <2>8, <2>10 DEF Passing
<1>8. QED BY <1>6, <1>7

\* Down into a table.
LEMMA StepDown ==
    ASSUME NEW T, NEW U, NEW L, NEW S, Tree(T, U, L, S), NEW p, NEW V, Passing(U, L, S, p, V),
           IsTable(Pe(T, p)), ~ p.skip, p.level # p.stop
    PROVE  Passing(U, L, S, [p EXCEPT !.level = @ - 1, !.tab = Pe(T, p).to,
                                      !.idx = pageindex(p.va, p.level - 1)], V)
<1> DEFINE c == Pe(T, p).to
           p2 == [p EXCEPT !.level = @ - 1, !.tab = c, !.idx = pageindex(p.va, p.level - 1)]
<1>1. /\ Standing(U, L, S, p) /\ Behind(U, L, S, p) /\ Rising(U, L, S, p)
      /\ V = {t \in U \ {Root} : Visited(L, S, p, t)}
  BY DEF Passing
<1>2. p.level \in 1 .. 3 /\ p.stop \in 1 .. 3 /\ p.va \in Nat BY <1>1, PitPe
<1>3. c \in U /\ L[c] = p.level - 1 /\ Covers(L, S, c, p.va) BY <1>1, PitLink
<1> HIDE DEF c
<1>4. p.stop <= p.level /\ p \in PtIters BY <1>1 DEF Standing
<1>5. p.level - 1 \in 1 .. 3 /\ p.level - 1 \in 0 .. 3 /\ p.stop <= p.level - 1 BY <1>2, <1>4
<1>6. pageindex(p.va, p.level - 1) \in Index BY <1>2, <1>5, Parts
<1>7. c \in Pages BY <1>3 DEF Tree, Typed
<1>8. /\ p2.va = p.va /\ p2.level = p.level - 1 /\ p2.tab = c /\ p2.skip = p.skip /\ p2.stop = p.stop
      /\ p2.idx = pageindex(p.va, p.level - 1)
  BY <1>4 DEF PtIters
<1>9. p2 \in PtIters BY <1>4, <1>5, <1>6, <1>7 DEF PtIters
<1> HIDE DEF p2
<1>10. Standing(U, L, S, p2) BY <1>3, <1>5, <1>8, <1>9 DEF Standing
<1>11. Depth(p2) = Depth(p) BY <1>8 DEF Depth
<1>12. Behind(U, L, S, p2) /\ Rising(U, L, S, p2) BY <1>1, <1>8, <1>11 DEF Behind, Rising
<1>13. \A t \in U : Visited(L, S, p2, t) <=> Visited(L, S, p, t) BY <1>8, <1>11 DEF Visited
<1>14. QED BY <1>1, <1>10, <1>12, <1>13 DEF Passing, p2, c

\* A table is visited, after the tables below it.
LEMMA StepVisit ==
    ASSUME NEW T, NEW U, NEW L, NEW S, Tree(T, U, L, S), NEW p, NEW V, Passing(U, L, S, p, V),
           IsTable(Pe(T, p)), ~ p.skip, p.level = p.stop
    PROVE  Passing(U, L, S, [p EXCEPT !.skip = TRUE, !.stop = 1], V \cup {Pe(T, p).to})
<1> DEFINE c == Pe(T, p).to
           p2 == [p EXCEPT !.skip = TRUE, !.stop = 1]
           l == p.level
           v == p.va
<1>1. /\ Standing(U, L, S, p) /\ Behind(U, L, S, p) /\ Rising(U, L, S, p)
      /\ V = {t \in U \ {Root} : Visited(L, S, p, t)}
  BY DEF Passing
<1>2. l \in 1 .. 3 /\ v \in Nat BY <1>1, PitPe
<1>3. c \in U /\ L[c] = l - 1 /\ Covers(L, S, c, v) /\ c # Root BY <1>1, PitLink
<1> HIDE DEF c
<1>4. p \in PtIters /\ p.level = L[p.tab] /\ p.tab \in U BY <1>1 DEF Standing
<1>5. /\ p2.va = v /\ p2.level = l /\ p2.tab = p.tab /\ p2.skip = TRUE /\ p2.stop = 1 /\ p2.idx = p.idx
  BY <1>4 DEF PtIters
<1>6. p2 \in PtIters
  <2>1. [p EXCEPT !.skip = TRUE] \in PtIters BY <1>4 DEF PtIters
  <2>2. \A q \in PtIters : [q EXCEPT !.stop = 1] \in PtIters BY DEF PtIters
  <2>3. p2 = [[p EXCEPT !.skip = TRUE] EXCEPT !.stop = 1] OBVIOUS
  <2> HIDE DEF p2
  <2>4. QED BY <2>1, <2>2, <2>3
<1> HIDE DEF p2
<1>7. Standing(U, L, S, p2) BY <1>1, <1>2, <1>5, <1>6 DEF Standing
<1>8. Depth(p2) = l /\ Depth(p) = l - 1 BY <1>2, <1>5 DEF Depth
<1>9. \A t \in U : L[t] \in 0 .. 3 /\ S[t] \in Nat
  <2>1. U \subseteq Pages /\ L \in [Pages -> Levels] /\ S \in [Pages -> Place] BY DEF Tree, Typed
  <2>2. QED BY <2>1, Constants DEF Levels
<1> HIDE DEF l, v
<1>10. Behind(U, L, S, p2)
  <2> SUFFICES ASSUME NEW t \in U, L[t] < l, Q(S[t], l) = Q(v, l)
               PROVE  Q(S[t], L[t] + 1) <= Q(v, L[t] + 1)
    BY <1>5, <1>8 DEF Behind
  <2>1. L[t] \in 0 .. 3 /\ S[t] \in Nat BY <1>9
  <2>2. L[t] + 1 \in 0 .. 4 /\ l \in 0 .. 4 /\ l - 1 \in 0 .. 3 /\ (l - 1) + 1 = l BY <1>2, <2>1
  <2>3. Q(S[t], L[t] + 1) \in Nat /\ Q(v, L[t] + 1) \in Nat BY <1>2, <2>1, <2>2, RegionType
  <2>4. CASE L[t] = l - 1
    <3>1. L[t] + 1 = l BY <1>2, <2>4
    <3>2. QED BY <2>3, <3>1
  <2>5. CASE L[t] # l - 1
    <3>1. L[t] < l - 1 /\ L[t] + 1 <= l - 1 /\ l > 1 BY <1>2, <2>1, <2>5
    <3>2. pageindex(v, l - 1) = B - 1 BY <1>1, <3>1 DEF Rising, l, v
    <3>3. Q(S[t], (l - 1) + 1) = Q(v, (l - 1) + 1) BY <2>2
    <3>4. Q(S[t], l - 1) <= Q(v, l - 1) BY <1>2, <2>1, <2>2, <3>2, <3>3, AtEnd
    <3>5. l - 1 \in 0 .. 4 BY <2>2
    <3>6. Q(S[t], l - 1) \in Nat /\ Q(v, l - 1) \in Nat BY <1>2, <2>1, <3>5, RegionType
    <3>7. Q(S[t], l - 1) < Q(v, l - 1) => Q(S[t], L[t] + 1) < Q(v, L[t] + 1)
      BY <1>2, <2>1, <2>2, <3>1, <3>5, RegionMono
    <3>8. Q(S[t], l - 1) = Q(v, l - 1) => Q(S[t], L[t] + 1) <= Q(v, L[t] + 1)
      BY <1>1, <1>8, <3>1 DEF Behind, v
    <3>9. QED BY <2>3, <3>4, <3>6, <3>7, <3>8
  <2>6. QED BY <2>4, <2>5
<1>11. Rising(U, L, S, p2) BY <1>5 DEF Rising
<1>12. ASSUME NEW t \in U PROVE Visited(L, S, p2, t) <=> Visited(L, S, p, t) \/ t = c
  <2>1. L[t] \in 0 .. 3 /\ S[t] \in Nat BY <1>9
  <2>2. L[t] + 1 \in 0 .. 4 BY <2>1
  <2>3. Q(S[t], L[t] + 1) \in Nat /\ Q(v, L[t] + 1) \in Nat BY <1>2, <2>1, <2>2, RegionType
  <2>4. Visited(L, S, p2, t) <=> \/ Q(S[t], L[t] + 1) < Q(v, L[t] + 1)
                                 \/ Q(S[t], L[t] + 1) = Q(v, L[t] + 1) /\ L[t] < l
    BY <1>5, <1>8 DEF Visited
  <2>5. Visited(L, S, p, t) <=> \/ Q(S[t], L[t] + 1) < Q(v, L[t] + 1)
                                \/ Q(S[t], L[t] + 1) = Q(v, L[t] + 1) /\ L[t] < l - 1
    BY <1>8 DEF Visited, v
  <2>6. ASSUME Q(S[t], L[t] + 1) = Q(v, L[t] + 1), L[t] = l - 1 PROVE t = c
    <3>1. Covers(L, S, t, v) BY <2>6 DEF Covers
    <3>2. L[t] = L[c] BY <1>3, <2>6
    <3>3. QED BY <1>3, <3>1, <3>2, Alone
  <2>7. t = c => Q(S[t], L[t] + 1) = Q(v, L[t] + 1) /\ L[t] = l - 1
    BY <1>3 DEF Covers
  <2>8. L[t] < l <=> L[t] < l - 1 \/ L[t] = l - 1 BY <1>2, <2>1
  <2>9. QED BY <2>3, <2>4, <2>5, <2>6, <2>7, <2>8
<1>13. V \cup {c} = {t \in U \ {Root} : Visited(L, S, p2, t)} BY <1>1, <1>3, <1>12
<1>14. QED BY <1>7, <1>10, <1>11, <1>13 DEF Passing, p2, c
-----------------------------------------------------------------------------
(* The tables to begin with. *)

\* A cleared root is a tree for which nothing is mapped.
LEMMA EmptyTree ==
    \E L \in [Pages -> Levels], S \in [Pages -> Place] :
        Tree(Empty, {Root}, L, S) /\ Faithful(Empty, {Root}, L, S, Unmapped)
<1> DEFINE L == [t \in Pages |-> 3]
           S == [t \in Pages |-> 0]
<1>1. Root \in Pages /\ 0 \in Place BY Constants
<1>2. L \in [Pages -> Levels] /\ S \in [Pages -> Place] /\ L[Root] = 3 BY <1>1 DEF Levels
<1>3. Absent \in Entry BY DEF Absent, Entry
<1>4. Empty \in [Pages -> [Index -> Entry]] /\ \A n \in Index : Empty[Root][n] = Absent
  BY <1>1, <1>3 DEF Empty
<1> HIDE DEF L, S
<1>5. Typed(Empty, {Root}, L, S) BY <1>1, <1>2, <1>4 DEF Typed
<1>6. Linked(Empty, {Root}, L, S) BY <1>2, <1>4 DEF Linked, Inner
<1>7. Tree(Empty, {Root}, L, S) BY <1>5, <1>6 DEF Tree, Distinct, Reached
<1>8. Unmapped \in [Place -> [pa : Int, perm : SUBSET PWU]] /\ \A a \in Place : Unmapped[a] = Nothing
  BY DEF Unmapped, Place, Nothing
<1>9. Faithful(Empty, {Root}, L, S, Unmapped)
  <2>1. ASSUME NEW a \in Place PROVE Empty[Root][pageindex(a, L[Root])] = Absent
    <3>1. pageindex(a, 3) \in Index BY Parts, Constants
    <3>2. QED BY <1>2, <1>4, <3>1
  <2>2. \A a \in Place : \A l : Says(Absent, a, l) = Nothing BY DEF Says, Absent
  <2>3. QED BY <1>8, <2>1, <2>2 DEF Faithful
<1>10. QED BY <1>2, <1>7, <1>9

\* Early regions are early parts of the first region above.
LEMMA FirstRegion ==
    ASSUME NEW a \in Nat, NEW l \in 0 .. 3, Q(a, l) < B
    PROVE  Q(a, l + 1) = 0 /\ pageindex(a, l) = Q(a, l)
<1> DEFINE q == Q(a, l + 1)
           x == pageindex(a, l)
<1>1. q \in Nat /\ x \in 0 .. B - 1 /\ Q(a, l) = B * q + x /\ Q(a, l) \in Nat BY Parts DEF Index
<1>2. B \in Nat /\ B > 0 BY Constants
<1> HIDE DEF q, x
<1>3. ASSUME q >= 1 PROVE FALSE
  <2>1. B * q >= B BY <1>1, <1>2, <1>3, Z3
  <2>2. B * q \in Int BY <1>1, <1>2
  <2>3. QED BY <1>1, <1>2, <2>1, <2>2
<1>4. q = 0 BY <1>1, <1>3
<1>5. QED BY <1>1, <1>2, <1>4 DEF q, x

\* The levels and places of the kernel's tables.
KernelLevel == [t \in Pages |-> IF t = 1 THEN 3 ELSE IF t = 2 THEN 2 ELSE IF t = 3 THEN 1 ELSE 0]
KernelPlace == [t \in Pages |-> IF t = 5 THEN B ELSE 0]

\* The places of the kernel's tables, and where they are in the tables above.
LEMMA KernelNumbers ==
    /\ B >= 2 /\ B \in Place /\ 0 \in Index /\ 1 \in Index /\ 1 .. 5 \subseteq Pages
    /\ \A l \in 0 .. 4 : Q(0, l) = 0
    /\ Q(B, 1) = 1 /\ Q(B, 2) = 0 /\ Q(B, 3) = 0 /\ Q(B, 4) = 0
    /\ pageindex(0, 1) = 0 /\ pageindex(0, 2) = 0 /\ pageindex(0, 3) = 0 /\ pageindex(B, 1) = 1
    /\ KernelLevel \in [Pages -> Levels] /\ KernelPlace \in [Pages -> Place]
    /\ KernelLevel[1] = 3 /\ KernelLevel[2] = 2 /\ KernelLevel[3] = 1
    /\ KernelLevel[4] = 0 /\ KernelLevel[5] = 0
    /\ KernelPlace[1] = 0 /\ KernelPlace[2] = 0 /\ KernelPlace[3] = 0
    /\ KernelPlace[4] = 0 /\ KernelPlace[5] = B
<1>1. B \in Nat /\ B >= 2 /\ 1 .. 5 \subseteq Pages
  <2>1. B \in Nat /\ B > 0 /\ B = 2 * Half /\ Half \in Nat BY Bounds, Constants
  <2>2. QED BY <2>1, TableAssumption
<1>2. 0 \in Index /\ 1 \in Index BY <1>1 DEF Index
<1>3. \A l \in 0 .. 4 : Q(0, l) = 0
  <2> SUFFICES ASSUME NEW l \in 0 .. 4 PROVE Q(0, l) = 0
    OBVIOUS
  <2>1. Span[l] \in Nat /\ Span[l] > 0 BY Spans
  <2>2. 0 = Span[l] * 0 + 0 /\ 0 \in 0 .. Span[l] - 1 BY <2>1
  <2>3. QED BY <2>1, <2>2, DivOne DEF Q
<1>4. Q(B, 1) = 1
  <2>1. Span[1] = B BY Spans
  <2>2. B = B * 1 + 0 /\ 0 \in 0 .. B - 1 BY <1>1
  <2>3. B \div B = 1 BY <1>1, <2>2, DivOne
  <2>4. QED BY <2>1, <2>3 DEF Q
<1>5. Q(B, 1 + 1) = 0 /\ pageindex(B, 1) = 1 BY <1>1, <1>4, FirstRegion
<1>6. Q(B, 2) = 0 BY <1>5
<1>7. Q(B, 2 + 1) = 0 BY <1>1, <1>6, FirstRegion
<1>8. Q(B, 3) = 0 BY <1>7
<1>9. Q(B, 3 + 1) = 0 BY <1>1, <1>8, FirstRegion
<1>10. Q(B, 4) = 0 BY <1>9
<1>11. B \in Place
  <2>1. B < 1 * Span[4] BY <1>1, <1>10, RegionBound
  <2>2. Span[4] \in Nat BY Spans
  <2>3. QED BY <1>1, <2>1, <2>2 DEF Place, Places
<1>12. pageindex(0, 1) = 0 /\ pageindex(0, 2) = 0 /\ pageindex(0, 3) = 0
  <2>1. ASSUME NEW l \in 0 .. 3 PROVE pageindex(0, l) = 0
    <3>1. Q(0, l) = 0 BY <1>3
    <3>2. QED BY <1>1, <3>1, FirstRegion
  <2>2. QED BY <2>1
<1>13. 0 \in Place BY Constants
<1>14. KernelLevel \in [Pages -> Levels] /\ KernelPlace \in [Pages -> Place]
  BY <1>11, <1>13 DEF KernelLevel, KernelPlace, Levels
<1>15. 1 \in Pages /\ 2 \in Pages /\ 3 \in Pages /\ 4 \in Pages /\ 5 \in Pages
  <2>1. 1 \in 1 .. 5 /\ 2 \in 1 .. 5 /\ 3 \in 1 .. 5 /\ 4 \in 1 .. 5 /\ 5 \in 1 .. 5 OBVIOUS
  <2>2. QED BY <1>1, <2>1
<1>16. /\ KernelLevel[1] = 3 /\ KernelLevel[2] = 2 /\ KernelLevel[3] = 1
       /\ KernelLevel[4] = 0 /\ KernelLevel[5] = 0
  BY <1>15 DEF KernelLevel
<1>17. /\ KernelPlace[1] = 0 /\ KernelPlace[2] = 0 /\ KernelPlace[3] = 0
       /\ KernelPlace[4] = 0 /\ KernelPlace[5] = B
  BY <1>15 DEF KernelPlace
<1>18. QED
  BY <1>1, <1>2, <1>3, <1>4, <1>5, <1>6, <1>8, <1>10, <1>11, <1>12, <1>14, <1>16, <1>17

\* What the entries of the kernel's tables are.
LEMMA KernelEntries ==
    /\ KernelTables \in [Pages -> [Index -> Entry]]
    /\ KernelTables[1][0] = Link(2) /\ KernelTables[2][0] = Link(3)
    /\ KernelTables[3][0] = Link(4) /\ KernelTables[3][1] = Link(5)
    /\ KernelTables[2][1] = [to |-> LARGE, perm |-> {"P", "W", "PS"}]
    /\ \A n \in Index : /\ n # 0 => KernelTables[1][n] = Absent
                        /\ n # 0 /\ n # 1 => KernelTables[2][n] = Absent /\ KernelTables[3][n] = Absent
                        /\ KernelTables[4][n] = Absent /\ KernelTables[5][n] = Absent
<1> DEFINE Big == [to |-> LARGE, perm |-> {"P", "W", "PS"}]
<1>1. /\ Absent \in Entry /\ Big \in Entry /\ Link(2) \in Entry /\ Link(3) \in Entry
      /\ Link(4) \in Entry /\ Link(5) \in Entry
  BY TableAssumption DEF Absent, Entry, Link, Flags, PWU
<1>2. 0 \in Index /\ 1 \in Index BY KernelNumbers
<1>3. 1 \in Pages /\ 2 \in Pages /\ 3 \in Pages /\ 4 \in Pages /\ 5 \in Pages
  <2>1. 1 \in 1 .. 5 /\ 2 \in 1 .. 5 /\ 3 \in 1 .. 5 /\ 4 \in 1 .. 5 /\ 5 \in 1 .. 5 OBVIOUS
  <2>2. QED BY <2>1, KernelNumbers
<1>4. Empty \in [Pages -> [Index -> Entry]] /\ \A t \in Pages, n \in Index : Empty[t][n] = Absent
  BY <1>1 DEF Empty
<1> DEFINE Put(T, t, n, e) == [T EXCEPT ![t][n] = e]
<1> DEFINE T1 == Put(Empty, 1, 0, Link(2))
           T2 == Put(T1, 2, 0, Link(3))
           T3 == Put(T2, 3, 0, Link(4))
           T4 == Put(T3, 3, 1, Link(5))
           T5 == Put(T4, 2, 1, Big)
<1>6. KernelTables = T5 BY DEF KernelTables
<1> HIDE DEF Put, Big
<1>7. /\ T1 \in [Pages -> [Index -> Entry]] /\ T1[1][0] = Link(2)
      /\ \A u \in Pages, m \in Index : u # 1 \/ m # 0 => T1[u][m] = Absent
  BY <1>1, <1>2, <1>3, <1>4 DEF Put
<1> HIDE DEF T1
<1>8. /\ T2 \in [Pages -> [Index -> Entry]] /\ T2[2][0] = Link(3)
      /\ \A u \in Pages, m \in Index : u # 2 \/ m # 0 => T2[u][m] = T1[u][m]
  BY <1>1, <1>2, <1>3, <1>7 DEF Put
<1> HIDE DEF T2
<1>9. /\ T3 \in [Pages -> [Index -> Entry]] /\ T3[3][0] = Link(4)
      /\ \A u \in Pages, m \in Index : u # 3 \/ m # 0 => T3[u][m] = T2[u][m]
  BY <1>1, <1>2, <1>3, <1>8 DEF Put
<1> HIDE DEF T3
<1>10. /\ T4 \in [Pages -> [Index -> Entry]] /\ T4[3][1] = Link(5)
       /\ \A u \in Pages, m \in Index : u # 3 \/ m # 1 => T4[u][m] = T3[u][m]
  BY <1>1, <1>2, <1>3, <1>9 DEF Put
<1> HIDE DEF T4
<1>11. /\ T5 \in [Pages -> [Index -> Entry]] /\ T5[2][1] = Big
       /\ \A u \in Pages, m \in Index : u # 2 \/ m # 1 => T5[u][m] = T4[u][m]
  BY <1>1, <1>2, <1>3, <1>10 DEF Put
<1> HIDE DEF T5
<1>12. T5[1][0] = Link(2)
  <2>1. T2[1][0] = T1[1][0] BY <1>2, <1>3, <1>8
  <2>2. T3[1][0] = T2[1][0] BY <1>2, <1>3, <1>9
  <2>3. T4[1][0] = T3[1][0] BY <1>2, <1>3, <1>10
  <2>4. T5[1][0] = T4[1][0] BY <1>2, <1>3, <1>11
  <2>5. QED BY <1>7, <2>1, <2>2, <2>3, <2>4
<1>13. T5[2][0] = Link(3)
  <2>1. T3[2][0] = T2[2][0] BY <1>2, <1>3, <1>9
  <2>2. T4[2][0] = T3[2][0] BY <1>2, <1>3, <1>10
  <2>3. T5[2][0] = T4[2][0] BY <1>2, <1>3, <1>11
  <2>4. QED BY <1>8, <2>1, <2>2, <2>3
<1>14. T5[3][0] = Link(4) BY <1>2, <1>3, <1>9, <1>10, <1>11
<1>15. T5[3][1] = Link(5) BY <1>2, <1>3, <1>10, <1>11
<1>16. ASSUME NEW n \in Index
       PROVE  /\ n # 0 => T5[1][n] = Absent
              /\ n # 0 /\ n # 1 => T5[2][n] = Absent /\ T5[3][n] = Absent
              /\ T5[4][n] = Absent /\ T5[5][n] = Absent
  BY <1>3, <1>7, <1>8, <1>9, <1>10, <1>11
<1>17. QED BY <1>6, <1>11, <1>12, <1>13, <1>14, <1>15, <1>16 DEF Big

\* The tables that init_kernel_memory makes are a tree.
LEMMA KernelTree ==
    /\ Tree(KernelTables, 1 .. 5, KernelLevel, KernelPlace)
    /\ Faithful(KernelTables, 1 .. 5, KernelLevel, KernelPlace, KernelFlat)
<1> DEFINE T == KernelTables
           U == 1 .. 5
           L == KernelLevel
           S == KernelPlace
           F == KernelFlat
<1>1. \A t \in U : t = 1 \/ t = 2 \/ t = 3 \/ t = 4 \/ t = 5 OBVIOUS
<1>2. 1 \in U /\ 2 \in U /\ 3 \in U /\ 4 \in U /\ 5 \in U OBVIOUS
<1>3. L[1] = 3 /\ L[2] = 2 /\ L[3] = 1 /\ L[4] = 0 /\ L[5] = 0 BY KernelNumbers
<1>4. S[1] = 0 /\ S[2] = 0 /\ S[3] = 0 /\ S[4] = 0 /\ S[5] = B BY KernelNumbers
<1>5. /\ T[1][0] = Link(2) /\ T[2][0] = Link(3) /\ T[3][0] = Link(4) /\ T[3][1] = Link(5)
      /\ T[2][1] = [to |-> LARGE, perm |-> {"P", "W", "PS"}]
      /\ \A n \in Index : /\ n # 0 => T[1][n] = Absent
                          /\ n # 0 /\ n # 1 => T[2][n] = Absent /\ T[3][n] = Absent
                          /\ T[4][n] = Absent /\ T[5][n] = Absent
  BY KernelEntries
<1>6. /\ \A l \in 0 .. 4 : Q(0, l) = 0
      /\ Q(B, 1) = 1 /\ Q(B, 2) = 0 /\ Q(B, 3) = 0 /\ Q(B, 4) = 0
      /\ pageindex(0, 1) = 0 /\ pageindex(0, 2) = 0 /\ pageindex(0, 3) = 0 /\ pageindex(B, 1) = 1
  BY KernelNumbers
<1>7. Typed(T, U, L, S)
  <2>1. \A t \in U : L[t] = 3 <=> t = Root BY <1>1, <1>3 DEF Root
  <2>2. QED BY <1>2, <2>1, KernelNumbers, KernelEntries DEF Typed, Root
<1> HIDE DEF T, U, L, S, F
<1>8. /\ \A b : Covers(L, S, 1, b) <=> Q(b, 4) = 0
      /\ \A b : Covers(L, S, 2, b) <=> Q(b, 3) = 0
      /\ \A b : Covers(L, S, 3, b) <=> Q(b, 2) = 0
      /\ \A b : Covers(L, S, 4, b) <=> Q(b, 1) = 0
      /\ \A b : Covers(L, S, 5, b) <=> Q(b, 1) = 1
  <2>1. Q(0, 1) = 0 /\ Q(0, 2) = 0 /\ Q(0, 3) = 0 /\ Q(0, 4) = 0 BY <1>6
  <2>2. QED BY <1>3, <1>4, <1>6, <2>1 DEF Covers
<1>9. Q(0, 2) = 0 /\ Q(0, 3) = 0 /\ Q(0, 4) = 0 BY <1>6
<1>10. /\ IsLink(U, L, S, 1, 0, Link(2)) /\ IsLink(U, L, S, 2, 0, Link(3))
       /\ IsLink(U, L, S, 3, 0, Link(4)) /\ IsLink(U, L, S, 3, 1, Link(5))
  <2>1. IsLink(U, L, S, 1, 0, Link(2)) BY <1>2, <1>3, <1>4, <1>6, <1>8, <1>9 DEF IsLink
  <2>2. IsLink(U, L, S, 2, 0, Link(3)) BY <1>2, <1>3, <1>4, <1>6, <1>8, <1>9 DEF IsLink
  <2>3. IsLink(U, L, S, 3, 0, Link(4)) BY <1>2, <1>3, <1>4, <1>6, <1>8, <1>9 DEF IsLink
  <2>4. IsLink(U, L, S, 3, 1, Link(5)) BY <1>2, <1>3, <1>4, <1>6, <1>8, <1>9 DEF IsLink
  <2>5. QED BY <2>1, <2>2, <2>3, <2>4
<1>11. Linked(T, U, L, S)
  <2> SUFFICES ASSUME NEW t \in U, NEW n \in Index
               PROVE  IF L[t] = 0 THEN IsLeaf(T[t][n]) ELSE Inner(U, L, S, t, n, T[t][n])
    BY DEF Linked
  <2>1. CASE t = 1
    <3>1. T[t][n] = Absent \/ (n = 0 /\ T[t][n] = Link(2)) BY <1>5, <2>1
    <3>2. QED BY <1>3, <1>10, <2>1, <3>1 DEF Inner
  <2>2. CASE t = 2
    <3>1. \/ T[t][n] = Absent \/ (n = 0 /\ T[t][n] = Link(3))
          \/ T[t][n] = [to |-> LARGE, perm |-> {"P", "W", "PS"}]
      BY <1>5, <2>2
    <3>2. IsLarge([to |-> LARGE, perm |-> {"P", "W", "PS"}]) BY DEF IsLarge
    <3>3. L[t] = 2 /\ L[t] < 3 /\ L[t] # 0 BY <1>3, <2>2
    <3>4. QED BY <1>10, <2>2, <3>1, <3>2, <3>3 DEF Inner
  <2>3. CASE t = 3
    <3>1. T[t][n] = Absent \/ (n = 0 /\ T[t][n] = Link(4)) \/ (n = 1 /\ T[t][n] = Link(5))
      BY <1>5, <2>3
    <3>2. QED BY <1>3, <1>10, <2>3, <3>1 DEF Inner
  <2>4. CASE t = 4 \/ t = 5
    <3>1. T[t][n] = Absent /\ L[t] = 0 BY <1>3, <1>5, <2>4
    <3>2. QED BY <3>1 DEF IsLeaf, Absent
  <2>5. QED BY <1>1, <2>1, <2>2, <2>3, <2>4 DEF U
<1>12. Distinct(U, L, S)
  <2> SUFFICES ASSUME NEW s \in U, NEW t \in U, L[s] = L[t], Covers(L, S, s, S[t])
               PROVE  s = t
    BY DEF Distinct
  <2>1. s = t \/ (s = 4 /\ t = 5) \/ (s = 5 /\ t = 4) BY <1>1, <1>3 DEF U
  <2>2. Q(0, 1) = 0 BY <1>6
  <2>3. ~ (s = 4 /\ t = 5) BY <1>4, <1>6, <1>8
  <2>4. ~ (s = 5 /\ t = 4) BY <1>4, <1>8, <2>2
  <2>5. QED BY <2>1, <2>3, <2>4
<1>13. Reached(T, U, L, S)
  <2> SUFFICES ASSUME NEW c \in U \ {Root}
               PROVE  \E t \in U : /\ L[t] = L[c] + 1 /\ Covers(L, S, t, S[c])
                                   /\ T[t][pageindex(S[c], L[t])] = Link(c)
    BY DEF Reached
  <2>1. CASE c = 2 BY <1>2, <1>3, <1>4, <1>5, <1>6, <1>8, <1>9, <2>1
  <2>2. CASE c = 3 BY <1>2, <1>3, <1>4, <1>5, <1>6, <1>8, <1>9, <2>2
  <2>3. CASE c = 4 BY <1>2, <1>3, <1>4, <1>5, <1>6, <1>8, <1>9, <2>3
  <2>4. CASE c = 5 BY <1>2, <1>3, <1>4, <1>5, <1>6, <1>8, <1>9, <2>4
  <2>5. QED BY <1>1, <2>1, <2>2, <2>3, <2>4 DEF U, Root
<1>14. Tree(T, U, L, S) BY <1>7, <1>11, <1>12, <1>13 DEF Tree
<1>15. ASSUME NEW a \in Place
       PROVE  F[a] = IF Q(a, 2) = 1 THEN [pa |-> LARGE + (a % Span[2]), perm |-> {"P", "W"}] ELSE Nothing
  BY DEF F, KernelFlat, Place, Q, Unmapped, Nothing
<1>16. F \in [Place -> [pa : Int, perm : SUBSET PWU]]
  <2>1. ASSUME NEW a \in Place PROVE F[a] \in [pa : Int, perm : SUBSET PWU]
    <3>1. LARGE \in Nat /\ a \in Nat /\ Span[2] \in Nat /\ Span[2] > 0 BY TableAssumption, Constants, Spans
    <3>2. a % Span[2] \in Int BY <3>1, DivMod
    <3>3. LARGE + (a % Span[2]) \in Int BY <3>1, <3>2
    <3>4. [pa |-> LARGE + (a % Span[2]), perm |-> {"P", "W"}] \in [pa : Int, perm : SUBSET PWU]
      BY <3>3 DEF PWU
    <3>5. Nothing \in [pa : Int, perm : SUBSET PWU] BY DEF Nothing
    <3>6. CASE Q(a, 2) = 1
      <4>1. F[a] = [pa |-> LARGE + (a % Span[2]), perm |-> {"P", "W"}] BY <1>15, <3>6
      <4>2. QED BY <3>4, <4>1
    <3>7. CASE Q(a, 2) # 1
      <4>1. F[a] = Nothing BY <1>15, <3>7
      <4>2. QED BY <3>5, <4>1
    <3>8. QED BY <3>6, <3>7
  <2>2. F = [a \in Place |-> F[a]] BY DEF F, KernelFlat, Place
  <2>3. QED BY <2>1, <2>2
<1>17. Faithful(T, U, L, S, F)
  <2> SUFFICES ASSUME NEW t \in U, NEW a \in Place, Covers(L, S, t, a),
                      Final(T[t][pageindex(a, L[t])], L[t])
               PROVE  F[a] = Says(T[t][pageindex(a, L[t])], a, L[t])
    BY <1>16 DEF Faithful
  <2> DEFINE n == pageindex(a, L[t])
  <2>1. a \in Nat /\ Q(a, 4) = 0 BY Constants, Whole
  <2>2. n \in Index
    <3>1. L[t] \in 0 .. 3 BY <1>1, <1>3 DEF U
    <3>2. QED BY <2>1, <3>1, Parts
  <2>3. B \in Nat /\ B >= 2 BY Constants, KernelNumbers
  <2>4. Q(a, 1) \in Nat /\ Q(a, 2) \in Nat /\ Q(a, 3) \in Nat BY <2>1, RegionType
  <2>5. \A l : Says(Absent, a, l) = Nothing BY DEF Says, Absent
  <2>6. CASE t = 1
    <3>1. n = pageindex(a, 3) /\ L[t] = 3 BY <1>3, <2>6
    <3>2. n # 0
      <4>1. ASSUME n = 0 PROVE FALSE
        <5>1. T[t][n] = Link(2) BY <1>5, <2>6, <4>1
        <5>2. QED BY <3>1, <5>1, LinkIsTable DEF Final
      <4>2. QED BY <4>1
    <3>3. T[t][n] = Absent BY <1>5, <2>2, <2>6, <3>2
    <3>4. Q(a, 2) # 1
      <4>1. ASSUME Q(a, 2) = 1 PROVE FALSE
        <5>1. Q(a, 2 + 1) = 0 BY <2>1, <2>3, <4>1, FirstRegion
        <5>2. Q(a, 3) = 0 BY <5>1
        <5>3. pageindex(a, 3) = 0 BY <2>1, <2>3, <5>2, FirstRegion
        <5>4. QED BY <3>1, <3>2, <5>3
      <4>2. QED BY <4>1
    <3>5. QED BY <1>15, <2>5, <3>3, <3>4
  <2>7. CASE t = 2
    <3>1. L[t] = 2 /\ Q(a, 3) = 0 /\ n = pageindex(a, 2) BY <1>3, <1>8, <2>7
    <3>2. n = Q(a, 2)
      <4>1. Q(a, 2) = B * Q(a, 2 + 1) + pageindex(a, 2) BY <2>1, Parts
      <4>2. Q(a, 2) = B * 0 + n BY <3>1, <4>1
      <4>3. n \in Nat BY <2>2, Constants
      <4>4. QED BY <2>3, <4>2, <4>3
    <3>3. n # 0
      <4>1. ASSUME n = 0 PROVE FALSE
        <5>1. T[t][n] = Link(3) BY <1>5, <2>7, <4>1
        <5>2. QED BY <3>1, <5>1, LinkIsTable DEF Final
      <4>2. QED BY <4>1
    <3>4. CASE n = 1
      <4>1. T[t][n] = [to |-> LARGE, perm |-> {"P", "W", "PS"}] BY <1>5, <2>7, <3>4
      <4>2. {"P", "W", "PS"} \cap PWU = {"P", "W"} BY DEF PWU
      <4>3. Says(T[t][n], a, L[t]) = [pa |-> LARGE + (a % Span[2]), perm |-> {"P", "W"}]
        <5> DEFINE e == [to |-> LARGE, perm |-> {"P", "W", "PS"}]
        <5>1. e.to = LARGE /\ e.perm = {"P", "W", "PS"} /\ "P" \in e.perm OBVIOUS
        <5>2. e.perm \cap PWU = {"P", "W"} BY <4>2, <5>1
        <5> HIDE DEF e
        <5>3. Says(e, a, 2) = [pa |-> LARGE + (a % Span[2]), perm |-> {"P", "W"}]
          BY <5>1, <5>2 DEF Says
        <5>4. T[t][n] = e BY <4>1 DEF e
        <5>5. QED BY <3>1, <5>3, <5>4
      <4>4. QED BY <1>15, <3>2, <3>4, <4>3
    <3>5. CASE n # 1
      <4>1. T[t][n] = Absent BY <1>5, <2>2, <2>7, <3>3, <3>5
      <4>2. Q(a, 2) # 1 BY <3>2, <3>5
      <4>3. F[a] = Nothing BY <1>15, <4>2
      <4>4. QED BY <2>5, <4>1, <4>3
    <3>6. QED BY <3>4, <3>5
  <2>8. CASE t = 3
    <3>1. L[t] = 1 /\ Q(a, 2) = 0 BY <1>3, <1>8, <2>8
    <3>2. n # 0 /\ n # 1
      <4>1. ASSUME n = 0 \/ n = 1 PROVE FALSE
        <5>1. T[t][n] = Link(4) \/ T[t][n] = Link(5) BY <1>5, <2>8, <4>1
        <5>2. QED BY <3>1, <5>1, LinkIsTable DEF Final
      <4>2. QED BY <4>1
    <3>3. T[t][n] = Absent BY <1>5, <2>2, <2>8, <3>2
    <3>4. Q(a, 2) # 1 BY <3>1
    <3>5. F[a] = Nothing BY <1>15, <3>4
    <3>6. QED BY <2>5, <3>3, <3>5
  <2>9. CASE t = 4 \/ t = 5
    <3>1. T[t][n] = Absent BY <1>5, <2>2, <2>9
    <3>2. Q(a, 1) = 0 \/ Q(a, 1) = 1 BY <1>8, <2>9
    <3>3. Q(a, 1 + 1) = 0 BY <2>1, <2>3, <3>2, FirstRegion
    <3>4. Q(a, 2) = 0 BY <3>3
    <3>5. Q(a, 2) # 1 BY <3>4
    <3>6. F[a] = Nothing BY <1>15, <3>5
    <3>7. QED BY <2>5, <3>1, <3>6
  <2>10. QED BY <1>1, <2>6, <2>7, <2>8, <2>9 DEF U
<1>18. QED BY <1>14, <1>17 DEF T, U, L, S, F
-----------------------------------------------------------------------------
(* The invariant is inductive. *)

\* An empty table and the kernel's are where it starts.
LEMMA IterInit == Init => IterInv
<1> SUFFICES ASSUME Init PROVE IterInv
  OBVIOUS
<1>1. \E L \in [Pages -> Levels], S \in [Pages -> Place] :
        Tree(tables, used, L, S) /\ Faithful(tables, used, L, S, flat)
  <2>1. CASE tables = Empty /\ used = {Root} /\ flat = Unmapped
    BY <2>1, EmptyTree
  <2>2. CASE tables = KernelTables /\ used = 1 .. 5 /\ flat = KernelFlat
    <3>1. KernelLevel \in [Pages -> Levels] /\ KernelPlace \in [Pages -> Place] BY KernelNumbers
    <3>2. QED BY <2>2, <3>1, KernelTree
  <2>3. QED BY <2>1, <2>2 DEF Init
<1>2. PICK L \in [Pages -> Levels], S \in [Pages -> Place] :
        Tree(tables, used, L, S) /\ Faithful(tables, used, L, S, flat)
  BY <1>1
<1>3. 0 \in VA BY Constants
<1>4. Good(used, L, S, it) BY <1>2, <1>3, NewGood DEF Init
<1>5. walk = "idle" BY DEF Init
<1>6. Walking(tables, used, L, S, walk, pit, seen) BY <1>5 DEF Walking
<1>7. QED BY <1>2, <1>4, <1>5, <1>6 DEF IterInv

\* A vmiter moves.
LEMMA MoveInv ==
    ASSUME IterInv, walk = "idle", NEW va \in VA, Move(real_find(tables, it, va))
    PROVE  IterInv'
<1>1. PICK L \in [Pages -> Levels], S \in [Pages -> Place] :
        /\ Tree(tables, used, L, S) /\ Faithful(tables, used, L, S, flat) /\ Good(used, L, S, it)
  BY DEF IterInv
<1>2. Good(used, L, S, it') BY <1>1, FindGood DEF Move
<1>3. /\ tables' = tables /\ used' = used /\ flat' = flat /\ walk' = "idle" BY DEF Move
<1>4. QED BY <1>1, <1>2, <1>3, IdleInv

\* Where next and last_va lead is an address.
LEMMA AfterVA ==
    ASSUME NEW va \in VA, NEW l \in 0 .. 3 PROVE After(va, l) \in VA
<1>1. End(va, l) \in Nat /\ End(va, l) <= Space /\ After(va, l) = IF End(va, l) = Space THEN 0 ELSE End(va, l)
  BY Ends
<1>2. Space \in Nat /\ Space > 0 BY Bounds
<1>3. QED BY <1>1, <1>2 DEF VA

\* Every step keeps the invariant.
LEMMA IterNext == IterInv /\ [Next]_vvars => IterInv'
<1> SUFFICES ASSUME IterInv, [Next]_vvars PROVE IterInv'
  OBVIOUS
<1>1. PICK L \in [Pages -> Levels], S \in [Pages -> Place] :
        /\ Tree(tables, used, L, S) /\ Faithful(tables, used, L, S, flat) /\ Good(used, L, S, it)
        /\ Walking(tables, used, L, S, walk, pit, seen)
  BY DEF IterInv
<1>2. it.va \in VA /\ it.level \in 0 .. 3 BY <1>1 DEF Good, Iters, Levels
<1>3. ASSUME NEW va \in VA, Find(va) PROVE IterInv'
  BY <1>3, MoveInv DEF Find
<1>4. CASE Next1
  <2>1. NextLevel(tables, it) \in 0 .. 3 BY <1>2 DEF NextLevel
  <2>2. After(it.va, NextLevel(tables, it)) \in VA BY <1>2, <2>1, AfterVA
  <2>3. QED BY <1>4, <2>2, MoveInv DEF Next1, next
<1>5. CASE NextRange
  <2>1. last_va(it) \in VA BY <1>2, AfterVA DEF last_va
  <2>2. QED BY <1>5, <2>1, MoveInv DEF NextRange
<1>6. ASSUME NEW a \in Frames, NEW p \in Perms, MapHere(a, p) PROVE IterInv'
  <2> DEFINE s == try_map(it, a, p)
  <2>1. FinalAt(tables, it)
    <3>1. it = real_find(tables, it, it.va) BY <1>6 DEF MapHere
    <3>2. FinalAt(tables, real_find(tables, it, it.va)) BY <1>1, <1>2, FindGood
    <3>3. QED BY <3>1, <3>2
  <2>2. /\ va_is_canonical(it.va) /\ ~ InTheWay(it.va)
        /\ tables' = s.T /\ used' = s.used /\ it' = s.i /\ walk' = "idle"
        /\ flat' = IF s.i.level > 0 THEN flat
                   ELSE [flat EXCEPT ![it.va % Places] =
                           IF p = {} THEN [pa |-> -1, perm |-> {}] ELSE [pa |-> a, perm |-> p]]
    BY <1>6 DEF MapHere, Mapped
  <2>3. PICK L2 \in [Pages -> Levels], S2 \in [Pages -> Place] :
          Tree(tables', used', L2, S2) /\ Faithful(tables', used', L2, S2, flat') /\ Good(used', L2, S2, it')
    BY <1>1, <2>1, <2>2, MapSound
  <2>4. QED BY <2>2, <2>3, IdleInv
<1>7. ASSUME NEW va \in VA, NEW a \in Frames, NEW p \in Perms, MapThere(va, a, p) PROVE IterInv'
  <2> DEFINE i == New(tables, va)
             s == try_map(i, a, p)
  <2>1. Good(used, L, S, i) /\ i.va = va /\ FinalAt(tables, i) BY <1>1, NewGood
  <2>2. /\ va_is_canonical(i.va) /\ ~ InTheWay(i.va)
        /\ tables' = s.T /\ used' = s.used /\ it' = it /\ walk' = "idle"
        /\ flat' = IF s.i.level > 0 THEN flat
                   ELSE [flat EXCEPT ![i.va % Places] =
                           IF p = {} THEN [pa |-> -1, perm |-> {}] ELSE [pa |-> a, perm |-> p]]
    BY <1>7 DEF MapThere, Mapped
  <2> HIDE DEF i
  <2>3. PICK L2 \in [Pages -> Levels], S2 \in [Pages -> Place] :
          Tree(tables', used', L2, S2) /\ Faithful(tables', used', L2, S2, flat') /\ Good(used', L2, S2, it')
    BY <1>1, <2>1, <2>2, MapSound
  <2>4. QED BY <2>2, <2>3, IdleInv
<1>8. CASE PtGo
  <2>1. /\ walk' = "down" /\ pit' = NoWalk /\ seen' = {} /\ it' = New(tables, 0)
        /\ tables' = tables /\ used' = used /\ flat' = flat
    BY <1>8 DEF PtGo
  <2>2. Good(used, L, S, it') BY <1>1, <2>1, NewGood, Constants
  <2>3. Passing(used, L, S, pit', seen') BY <1>1, <2>1, PassingStart
  <2>4. Walking(tables', used', L, S, walk', pit', seen') BY <2>1, <2>3 DEF Walking
  <2>5. QED BY <1>1, <2>1, <2>2, <2>4 DEF IterInv
<1>9. CASE PtDown
  <2>1. tables' = tables /\ used' = used /\ flat' = flat /\ it' = it /\ seen' = seen /\ walk = "down"
    BY <1>9 DEF PtDown
  <2>2. Passing(used, L, S, pit, seen) BY <1>1, <2>1 DEF Walking
  <2> DEFINE e  == Pe(tables, pit)
             va == After(pit.va, pit.level)
  <2>3. walk' \in {"down", "at", "done"} /\ Walking(tables, used, L, S, walk', pit', seen)
    <3>1. CASE IsTable(e) /\ ~ pit.skip /\ pit.level = pit.stop /\ walk' = "at" /\ pit' = pit
      BY <2>2, <3>1 DEF Walking
    <3>2. CASE /\ IsTable(e) /\ ~ pit.skip /\ pit.level # pit.stop /\ walk' = walk
               /\ pit' = [pit EXCEPT !.level = @ - 1, !.tab = e.to, !.idx = pageindex(pit.va, pit.level - 1)]
      <4>1. Passing(used, L, S, pit', seen) BY <1>1, <2>2, <3>2, StepDown
      <4>2. QED BY <2>1, <3>2, <4>1 DEF Walking
    <3>3. CASE /\ ~ IsTable(e) \/ pit.skip
               /\ Apart(va, pit.va, pit.level + 1)
               /\ IF pit.level = 3 THEN pit' = [pit EXCEPT !.va = Places] /\ walk' = "done"
                  ELSE /\ pit' = [NoWalk EXCEPT !.va = pit.va, !.idx = pageindex(pit.va, 3),
                                                !.stop = PtStop(pit.level)]
                       /\ walk' = walk
      <4>1. /\ pit.level = 3 => seen = used \ {Root}
            /\ pit.level # 3 =>
                 Passing(used, L, S, [NoWalk EXCEPT !.va = pit.va, !.idx = pageindex(pit.va, 3),
                                                    !.stop = PtStop(pit.level)], seen)
        BY <1>1, <2>2, <3>3, StepUp
      <4>2. CASE pit.level = 3 BY <3>3, <4>1, <4>2 DEF Walking
      <4>3. CASE pit.level # 3
        <5>1. Passing(used, L, S, pit', seen) /\ walk' = "down" BY <2>1, <3>3, <4>1, <4>3
        <5>2. QED BY <5>1 DEF Walking
      <4>4. QED BY <4>2, <4>3
    <3>4. CASE /\ ~ IsTable(e) \/ pit.skip
               /\ ~ Apart(va, pit.va, pit.level + 1)
               /\ pit' = [pit EXCEPT !.idx = @ + 1, !.va = va, !.skip = FALSE] /\ walk' = walk
      <4>1. Passing(used, L, S, pit', seen) BY <1>1, <2>2, <3>4, StepOn
      <4>2. QED BY <2>1, <3>4, <4>1 DEF Walking
    <3>5. QED BY <1>9, <3>1, <3>2, <3>3, <3>4 DEF PtDown
  <2>4. QED BY <1>1, <2>1, <2>3 DEF IterInv
<1>10. CASE PtVisit
  <2>1. /\ walk = "at" /\ walk' = "down" /\ seen' = seen \cup {Pe(tables, pit).to}
        /\ pit' = [pit EXCEPT !.skip = TRUE, !.stop = 1]
        /\ tables' = tables /\ used' = used /\ flat' = flat /\ it' = it
    BY <1>10 DEF PtVisit, PtNext
  <2>2. Passing(used, L, S, pit, seen) /\ ~ pit.skip /\ pit.level = pit.stop /\ IsTable(Pe(tables, pit))
    BY <1>1, <2>1 DEF Walking
  <2>3. Passing(used, L, S, pit', seen') BY <1>1, <2>1, <2>2, StepVisit
  <2>4. Walking(tables', used', L, S, walk', pit', seen') BY <2>1, <2>3 DEF Walking
  <2>5. QED BY <1>1, <2>1, <2>4 DEF IterInv
<1>11. CASE PtEnd
  <2>1. \E L2 \in [Pages -> Levels], S2 \in [Pages -> Place] :
          Tree(tables', used', L2, S2) /\ Faithful(tables', used', L2, S2, flat')
    <3>1. CASE tables' = tables /\ used' = used /\ flat' = flat BY <1>1, <3>1
    <3>2. CASE tables' = Empty /\ used' = {Root} /\ flat' = Unmapped BY <3>2, EmptyTree
    <3>3. QED BY <1>11, <3>1, <3>2 DEF PtEnd
  <2>2. PICK L2 \in [Pages -> Levels], S2 \in [Pages -> Place] :
          Tree(tables', used', L2, S2) /\ Faithful(tables', used', L2, S2, flat')
    BY <2>1
  <2>3. it' = New(tables', 0) /\ walk' = "idle" BY <1>11 DEF PtEnd
  <2>4. Good(used', L2, S2, it') BY <2>2, <2>3, NewGood, Constants
  <2>5. QED BY <2>2, <2>3, <2>4, IdleInv
<1>12. CASE UNCHANGED vvars
  <2>1. /\ tables' = tables /\ used' = used /\ flat' = flat /\ it' = it /\ pit' = pit
        /\ walk' = walk /\ seen' = seen
    BY <1>12 DEF vvars
  <2>2. QED BY <1>1, <2>1 DEF IterInv
<1>13. QED
  BY <1>3, <1>4, <1>5, <1>6, <1>7, <1>8, <1>9, <1>10, <1>11, <1>12 DEF Next, PtStep

\* The invariant: the tables are a tree, what they say is what was mapped,
\* every iterator is where it may be, and a walk has visited what it passed.
THEOREM IterInvariant == Spec => []IterInv
  BY IterInit, IterNext, PTL DEF Spec

\* vmiter::find tells what is mapped at an address, wherever the iterator has
\* been and whatever another one has mapped since; and low_perm tells whether
\* a range permits an access.
THEOREM FindIsTrue == Spec => []FindsTruth
<1>1. IterInv => FindsTruth BY InvFindsTruth
<1>2. QED BY <1>1, IterInvariant, PTL

\* vmiter::next skips no page that is mapped.
THEOREM NextIsSafe == Spec => []NextSkipsNothing
<1>1. IterInv => NextSkipsNothing BY InvNextSkipsNothing
<1>2. QED BY <1>1, IterInvariant, PTL

\* The assertions of vmiter::try_map hold.
THEOREM MapIsSafe == Spec => []MapNeverAsserts
<1>1. IterInv => MapNeverAsserts BY InvMapNeverAsserts
<1>2. QED BY <1>1, IterInvariant, PTL

\* ptiter visits every table but the root once, children first, and never
\* goes on from a table that was freed.
THEOREM TreeIsFreed == Spec => []FreesTheTree
<1>1. IterInv => FreesTheTree BY InvFreesTheTree
<1>2. QED BY <1>1, IterInvariant, PTL
=============================================================================
