--------------------------- MODULE TerminalProofs ---------------------------
(***************************************************************************)
(* The console's positions and what it shows, what is printed into buffers *)
(* and read back, and the keyboard's modifiers: for screens, buffers and   *)
(* words of every size, any number of processes that print, and every      *)
(* keyboard.                                                               *)
(***************************************************************************)
EXTENDS Terminal, SequenceTheorems, WellFoundedInduction, TLAPS

-----------------------------------------------------------------------------
(* The console. *)

\* Nothing, or a print somewhere on the screen or just behind it.
IsJob(j) == \/ j = Idle
            \/ /\ j = [text |-> j.text, cell |-> j.cell, scroll |-> j.scroll]
               /\ j.cell \in 0 .. End

\* Every print has a position on the screen or just behind it.
OnScreen ==
    /\ cursorpos \in 0 .. End
    /\ DOMAIN job = Printers
    /\ \A p \in Printers : IsJob(job[p])

\* The screen has at least two rows, and a row ends on the screen.
LEMMA Rows ==
    /\ CONSOLE_COLUMNS \in 0 .. End /\ CPOS(CONSOLE_ROWS - 2, 0) \in 0 .. End /\ End \in Nat
    /\ \A c \in 0 .. End - 1 : /\ CCOL(c) \in 0 .. CONSOLE_COLUMNS - 1
                               /\ c + CONSOLE_COLUMNS - CCOL(c) \in 0 .. End
<1> DEFINE R == CONSOLE_ROWS
           C == CONSOLE_COLUMNS
<1>1. R \in Nat /\ C \in Nat /\ R > 1 /\ C > 0 /\ End = R * C
  BY ConsoleAssumption DEF End
<1>2. CPOS(R - 2, 0) = (R - 2) * C /\ \A c : CCOL(c) = c % C
  BY <1>1 DEF CPOS, CCOL
<1> HIDE DEF R, C
<1>3. C \in 0 .. End /\ (R - 2) * C \in 0 .. End /\ End \in Nat
  <2>1. (R - 2) * C = R * C - 2 * C /\ R * C = C + (R - 1) * C
    BY <1>1
  <2>2. (R - 1) * C \in Nat /\ (R - 2) * C \in Nat /\ R * C \in Nat
    <3>1. R - 1 \in Nat /\ R - 2 \in Nat
      BY <1>1
    <3> QED BY <1>1, <3>1
  <2> QED BY <1>1, <2>1, <2>2
<1>4. ASSUME NEW c \in 0 .. End - 1
      PROVE  c % C \in 0 .. C - 1 /\ c + C - (c % C) \in 0 .. End
  <2> DEFINE q == c \div C
             r == c % C
  <2>1. c = C * q + r /\ r \in 0 .. C - 1 /\ q \in Int
    BY <1>1, <1>3
  <2> HIDE DEF q, r
  <2>2. q < R
    <3> SUFFICES ASSUME q >= R PROVE FALSE
      BY <1>1, <2>1
    <3>1. C * q >= C * R
      BY <1>1, <2>1
    <3> QED BY <1>1, <2>1, <3>1
  <2>3. C * (q + 1) <= C * R /\ C * (q + 1) = C * q + C
    BY <1>1, <2>1, <2>2
  <2>4. c + C - r \in 0 .. End
    BY <1>1, <2>1, <2>3
  <2> QED BY <2>1, <2>4 DEF r
<1> QED
  BY <1>2, <1>3, <1>4 DEF R, C

\* What a character fills ends on the screen.
LEMMA StoredFits ==
    ASSUME NEW ch, NEW c \in 0 .. End - 1
    PROVE  c + Len(Stored(ch, c)) \in 0 .. End
<1>1. CASE ch = "nl"
  <2> DEFINE n == CONSOLE_COLUMNS - CCOL(c)
  <2>1. n \in Nat /\ c + n \in 0 .. End
    BY Rows, ConsoleAssumption
  <2> HIDE DEF n
  <2>2. Len([i \in 1 .. n |-> SPACE]) = n
    BY <2>1
  <2> QED BY <1>1, <2>1, <2>2 DEF Stored, Repeat, n
<1>2. CASE ch # "nl"
  BY <1>2, Rows DEF Stored
<1> QED
  BY <1>1, <1>2

\* One printer goes on.
LEMMA JobKept ==
    ASSUME OnScreen, NEW p \in Printers, NEW t, NEW c \in 0 .. End, NEW s, NEW j,
           j = Idle \/ j = [text |-> t, cell |-> c, scroll |-> s],
           job' = [job EXCEPT ![p] = j], cursorpos' \in 0 .. End
    PROVE  OnScreen'
<1>1. IsJob(j)
  BY DEF IsJob
<1> QED
  BY <1>1 DEF OnScreen

\* Every step of a print.
LEMMA PrintKeeps ==
    ASSUME OnScreen, NEW p \in Printers, Begin(p) \/ PrintStep(p)
    PROVE  OnScreen'
<1>1. CASE Begin(p)
  <2>1. PICK cpos \in Positions, format \in Messages :
            job' = [job EXCEPT ![p] = [text   |-> vprintf(format),
                                       cell   |-> console_printer(cpos),
                                       scroll |-> cpos < 0]]
    BY <1>1 DEF Begin
  <2>2. console_printer(cpos) \in 0 .. End
    BY Rows, ConsoleAssumption DEF console_printer, OnScreen
  <2>3. cursorpos' = cursorpos
    BY <1>1 DEF Begin
  <2>4. cursorpos' \in 0 .. End
    BY <2>3 DEF OnScreen
  <2> QED BY <2>1, <2>2, <2>4, JobKept
<1>2. CASE Scroll(p)
  <2>1. cursorpos' = cursorpos /\ job[p].text # <<>> /\ job[p].cell >= End
    BY <1>2 DEF Scroll, Waiting
  <2> DEFINE t == job[p].text
             c == job[p].cell
             s == job[p].scroll
  <2>2. job[p] = [text |-> t, cell |-> c, scroll |-> s] /\ c \in 0 .. End
    BY <2>1 DEF OnScreen, IsJob, Idle
  <2>3. cursorpos' \in 0 .. End
    BY <2>1 DEF OnScreen
  <2>4. c = End
    BY <2>1, <2>2, Rows
  <2>5. \/ job' = [job EXCEPT ![p] = [text |-> t, cell |-> c - CONSOLE_COLUMNS, scroll |-> s]]
        \/ job' = [job EXCEPT ![p] = [text |-> t, cell |-> 0, scroll |-> s]]
    BY <1>2, <2>2 DEF Scroll, OnScreen
  <2>6. c - CONSOLE_COLUMNS \in 0 .. End /\ 0 \in 0 .. End
    BY <2>4, Rows
  <2> HIDE DEF t, c, s
  <2> QED BY <2>3, <2>5, <2>6, JobKept
<1>3. CASE Putc(p)
  <2>1. cursorpos' = cursorpos /\ job[p].text # <<>> /\ job[p].cell < End
    BY <1>3 DEF Putc, Waiting
  <2> DEFINE t == job[p].text
             c == job[p].cell
             s == job[p].scroll
  <2>2. job[p] = [text |-> t, cell |-> c, scroll |-> s] /\ c \in 0 .. End
    BY <2>1 DEF OnScreen, IsJob, Idle
  <2>3. cursorpos' \in 0 .. End
    BY <2>1 DEF OnScreen
  <2> DEFINE n == c + Len(Stored(Head(t), c))
  <2>4. n \in 0 .. End
    <3>1. c \in 0 .. End - 1
      BY <2>1, <2>2, Rows
    <3> HIDE DEF c, t
    <3> QED BY <3>1, StoredFits
  <2>5. job' = [job EXCEPT ![p].cell = n, ![p].text = Tail(t)]
    BY <1>3 DEF Putc
  <2> HIDE DEF n
  <2>6. job' = [job EXCEPT ![p] = [text |-> Tail(t), cell |-> n, scroll |-> s]]
    <3>1. [job EXCEPT ![p].cell = n, ![p].text = Tail(t)] =
              [job EXCEPT ![p] = [[job[p] EXCEPT !.cell = n] EXCEPT !.text = Tail(t)]]
      BY DEF OnScreen
    <3>2. [job[p] EXCEPT !.cell = n] = [text |-> t, cell |-> n, scroll |-> s]
      BY <2>2
    <3> HIDE DEF t, s
    <3>3. \A v : [[text |-> t, cell |-> n, scroll |-> s] EXCEPT !.text = v]
                    = [text |-> v, cell |-> n, scroll |-> s]
      OBVIOUS
    <3> QED BY <2>5, <3>1, <3>2, <3>3, Zenon
  <2> HIDE DEF t, c, s
  <2> QED BY <2>3, <2>4, <2>6, JobKept
<1>4. CASE Finish(p)
  <2>1. job' = [job EXCEPT ![p] = Idle] /\ cursorpos' \in {cursorpos, job[p].cell} /\ job[p] # Idle
    BY <1>4 DEF Finish, move_cursor, Printing
  <2>2. job[p].cell \in 0 .. End
    BY <2>1 DEF OnScreen, IsJob
  <2>3. cursorpos' \in 0 .. End
    BY <2>1, <2>2 DEF OnScreen
  <2> QED BY <2>1, <2>2, <2>3, JobKept
<1> QED
  BY <1>1, <1>2, <1>3, <1>4 DEF PrintStep

\* Every step of the terminal.
LEMMA OnScreenNext ==
    OnScreen /\ [TerminalNext]_<<printerVars, keyVars>> => OnScreen'
<1> SUFFICES ASSUME OnScreen, [TerminalNext]_<<printerVars, keyVars>> PROVE OnScreen'
  OBVIOUS
<1>1. CASE UNCHANGED screen
  BY <1>1 DEF screen, OnScreen
<1>2. CASE console_clear
  <2>1. IsJob(Idle) /\ 0 \in 0 .. End
    BY Rows DEF IsJob
  <2> QED BY <1>2, <2>1 DEF console_clear, OnScreen
<1>3. CASE KernelPanic \/ PanicNewline
  <2>1. cursorpos' \in 0 .. End
    BY <1>3, Rows DEF KernelPanic, PanicNewline, OnScreen
  <2>2. \E t : job' = [job EXCEPT ![KERNEL] = [text |-> t, cell |-> cursorpos', scroll |-> TRUE]]
    BY <1>3 DEF KernelPanic, PanicNewline, error_printf
  <2>3. KERNEL \in Printers
    BY DEF Printers
  <2> QED BY <2>1, <2>2, <2>3, JobKept
<1>4. CASE \E p \in Printers : Begin(p) \/ PrintStep(p)
  BY <1>4, PrintKeeps
<1>5. CASE Fail \/ Snprintf \/ UserPanic \/ Returned
  BY <1>1, <1>5 DEF Fail, Snprintf, UserPanic, Returned, printerVars
<1> QED
  BY <1>1, <1>2, <1>3, <1>4, <1>5 DEF TerminalNext, PrinterNext, printerVars

(***************************************************************************)
(* Nobody prints beyond the console, on a screen of any size and with any  *)
(* number of processes that are interrupted between any two characters     *)
(* while others print, scroll and move the cursor (lib.cc, console_puts).  *)
(***************************************************************************)
THEOREM PrintsOnScreen == TerminalSpec => []StaysOnScreen
<1>1. TerminalInit => OnScreen
  <2>1. IsJob(Idle) /\ 0 \in 0 .. End
    BY Rows DEF IsJob
  <2> QED BY <2>1 DEF TerminalInit, ConsoleInit, OnScreen
<1>2. OnScreen => StaysOnScreen
  BY DEF OnScreen, StaysOnScreen, Printing, IsJob
<1> QED
  BY <1>1, <1>2, OnScreenNext, PTL DEF TerminalSpec
-----------------------------------------------------------------------------
(* scroll moves the rows up. *)

\* A set of numbers that is not empty has a least one.
LEMMA LeastOne ==
    ASSUME NEW D \in SUBSET Nat, D # {}
    PROVE  \E x \in D : \A y \in D : x <= y
<1>1. PICK x \in D : \A y \in D : ~ (<<y, x>> \in OpToRel(<, Nat))
  BY NatLessThanWellFounded, WFMin
<1>2. \A y \in D : ~ (y < x)
  BY <1>1 DEF OpToRel
<1>3. QED BY <1>2

\* The first n bytes become those from s on.
Moved(m, s, n) == [a \in DOMAIN m |-> IF a \in 0 .. n - 1 THEN m[s + a] ELSE m[a]]

\* Copying upwards to below overwrites no byte before it is copied.
LEMMA MovedDown ==
    ASSUME NEW m, m = [a \in DOMAIN m |-> m[a]], NEW s \in Nat, NEW n \in Nat, s > 0,
           0 .. n - 1 \subseteq DOMAIN m, s .. s + n - 1 \subseteq DOMAIN m
    PROVE  memmove(m, 0, s, n) = Moved(m, s, n)
<1> DEFINE D == DOMAIN m
           Part(k) == [a \in D |-> IF a \in 0 .. k - 1 THEN m[s + a] ELSE m[a]]
           order == Upwards(n)
           Turn(f, k) == IF k = 0 THEN m
                         ELSE [f[k - 1] EXCEPT ![0 + order[k]] = f[k - 1][s + order[k]]]
           Is(f) == f = [k \in 0 .. Len(order) |-> Turn(f, k)]
           g == [k \in 0 .. n |-> Part(k)]
           after == CHOOSE f : Is(f)
<1>1. \A i \in 0 .. n - 1 : i \in D /\ s + i \in D OBVIOUS
<1>2. m = [a \in D |-> m[a]] OBVIOUS
<1> HIDE DEF D
<1>3. Len(order) = n /\ \A k \in 1 .. n : order[k] = k - 1
  BY DEF Upwards
<1>4. memmove(m, 0, s, n) = after[Len(order)]
  <2>1. ~ (s < 0) OBVIOUS
  <2>2. memmove(m, 0, s, n) = Copied(m, 0, s, order) BY <2>1, Zenon DEF memmove
  <2>3. QED BY <2>2, Zenon DEF Copied
<1> HIDE DEF order
<1>5. Part(0) = m
  <2>1. \A a : ~ (a \in 0 .. 0 - 1) OBVIOUS
  <2>2. QED BY <1>2, <2>1
<1>6. ASSUME NEW k \in 1 .. n
      PROVE  [Part(k - 1) EXCEPT ![0 + order[k]] = Part(k - 1)[s + order[k]]] = Part(k)
  <2>1. order[k] = k - 1 /\ k - 1 \in 0 .. n - 1 BY <1>3
  <2>2. 0 + order[k] = k - 1 /\ k - 1 \in D /\ s + order[k] = s + (k - 1) /\ s + (k - 1) \in D BY <1>1, <2>1
  <2>3. Part(k - 1)[s + (k - 1)] = m[s + (k - 1)]
    <3>1. s + (k - 1) \notin 0 .. (k - 1) - 1 OBVIOUS
    <3>2. QED BY <2>2, <3>1
  <2>4. \A a \in D : a \in 0 .. k - 1 <=> a \in 0 .. (k - 1) - 1 \/ a = k - 1 OBVIOUS
  <2>5. ASSUME NEW a \in D
        PROVE  [Part(k - 1) EXCEPT ![k - 1] = m[s + (k - 1)]][a] = Part(k)[a]
    <3>1. CASE a = k - 1 BY <2>2, <2>4, <3>1
    <3>2. CASE a # k - 1 BY <2>4, <3>2
    <3>3. QED BY <3>1, <3>2
  <2>6. [Part(k - 1) EXCEPT ![k - 1] = m[s + (k - 1)]] = Part(k) BY <2>5
  <2>7. QED BY <2>2, <2>3, <2>6
<1> HIDE DEF Part
<1>7. ASSUME NEW k \in 0 .. n PROVE Part(k) = Turn(g, k)
  <2>1. CASE k = 0 BY <1>5, <2>1
  <2>2. CASE k # 0
    <3>1. k \in 1 .. n /\ k - 1 \in 0 .. n BY <2>2
    <3>2. g[k - 1] = Part(k - 1) BY <3>1
    <3>3. QED BY <1>6, <2>2, <3>1, <3>2
  <2>3. QED BY <2>1, <2>2
<1>8. Is(g)
  <2> HIDE DEF Turn
  <2>1. QED BY <1>3, <1>7, Zenon
<1>9. Is(after)
  <2> HIDE DEF Is, g
  <2>1. QED BY <1>8 DEF after
<1>10. \A k \in 0 .. n : after[k] = Turn(after, k)
  <2> HIDE DEF after, Turn
  <2>1. QED BY <1>3, <1>9
<1> HIDE DEF after
<1> DEFINE Bad == {k \in 0 .. n : after[k] # Part(k)}
<1>11. ASSUME Bad # {} PROVE FALSE
  <2>1. Bad \in SUBSET Nat OBVIOUS
  <2>2. PICK k \in Bad : \A y \in Bad : k <= y BY <1>11, <2>1, LeastOne
  <2>3. CASE k = 0 BY <1>5, <1>10, <2>2, <2>3
  <2>4. CASE k # 0
    <3>1. k \in 1 .. n /\ k - 1 \in 0 .. n /\ k - 1 \notin Bad BY <2>2, <2>4
    <3>2. after[k - 1] = Part(k - 1) BY <3>1
    <3>3. after[k] = Part(k) BY <1>6, <1>10, <2>4, <3>1, <3>2
    <3>4. QED BY <2>2, <3>3
  <2>5. QED BY <2>3, <2>4
<1>12. after[n] = Part(n) BY <1>11
<1>13. Moved(m, s, n) = Part(n) BY DEF Moved, Part, D
<1>14. QED BY <1>3, <1>4, <1>12, <1>13

-----------------------------------------------------------------------------
(* The screen shows the tail of the paper. *)

\* It prints, and may go on.
Active(p) == Printing(p) /\ Runs(p)

\* The cells in front of a position are the paper's last ones.
Tails(c, t, col, pos) ==
    /\ pos % CONSOLE_COLUMNS = col
    /\ Len(t) >= pos
    /\ \A k \in 1 .. pos : c[k - 1] = t[Len(t) - pos + k]
    /\ pos < Len(t) => pos > End - CONSOLE_COLUMNS - 1

\* The cells are there.
PaperType == \E V : SPACE \in V /\ console \in [0 .. End - 1 -> V] /\ tape \in Seq(V)

\* Unless prints are mixed one goes on at a time, and at the cursor; after a
\* panic it is the kernel's.
OneByOne ==
    /\ ~ mixed /\ panicking = "no" =>
        /\ ~ Printing(KERNEL)
        /\ \A p, q \in Printers : Printing(p) /\ Printing(q) => p = q
        /\ \A p \in Printers : Printing(p) => job[p].scroll
    /\ panicking # "no" /\ Printing(KERNEL) => job[KERNEL].scroll

\* The position is that of the one that prints, or else the cursor's.
InFront ==
    ~ mixed =>
        /\ (\A p \in Printers : ~ Active(p)) => Tails(console, tape, column, cursorpos)
        /\ \A p \in Printers : Active(p) => Tails(console, tape, column, job[p].cell)

PaperInv == PaperType /\ OneByOne /\ InFront
-----------------------------------------------------------------------------
\* What \div and % are.
LEMMA DivMod ==
    ASSUME NEW x \in Int, NEW d \in Nat, d > 0
    PROVE  /\ x \div d \in Int /\ x % d \in 0 .. d - 1 /\ x = d * (x \div d) + (x % d)
           /\ x >= 0 => x \div d >= 0
  BY Z3

\* ... and there is one of each.
LEMMA DivOne ==
    ASSUME NEW x \in Int, NEW d \in Nat, d > 0, NEW q \in Int, NEW r \in 0 .. d - 1,
           x = d * q + r
    PROVE  x \div d = q /\ x % d = r
<1> DEFINE y == x \div d
           s == x % d
<1>1. y \in Int /\ s \in 0 .. d - 1 /\ x = d * y + s
  BY DivMod
<1> HIDE DEF y, s
<1>2. d * (y - q) = r - s
  BY <1>1, Z3
<1>3. ~ (y > q) /\ ~ (y < q)
  <2>1. ASSUME y > q PROVE FALSE
    <3>1. y - q >= 1 BY <1>1, <2>1
    <3>2. d * (y - q) >= d BY <3>1, <1>1, Z3
    <3>3. QED BY <1>1, <1>2, <3>2
  <2>2. ASSUME y < q PROVE FALSE
    <3>1. q - y >= 1 BY <1>1, <2>2
    <3>2. d * (q - y) >= d BY <3>1, <1>1, Z3
    <3>3. d * (q - y) = - (d * (y - q)) BY <1>1, Z3
    <3>4. QED BY <1>1, <1>2, <3>2, <3>3
  <2>3. QED BY <2>1, <2>2
<1>4. y = q BY <1>1, <1>3
<1>5. s = r BY <1>1, <1>4
<1>6. QED BY <1>4, <1>5 DEF y, s

\* Columns: a row further is the same column, and so is the sum with the column
\* instead of the position.
LEMMA Columns ==
    /\ CONSOLE_COLUMNS \in Nat /\ CONSOLE_COLUMNS > 0 /\ End \in Nat /\ End >= CONSOLE_COLUMNS
    /\ End % CONSOLE_COLUMNS = 0 /\ (End - CONSOLE_COLUMNS) % CONSOLE_COLUMNS = 0
    /\ \A pos, n \in Nat :
        /\ CCOL(pos) \in 0 .. CONSOLE_COLUMNS - 1 /\ CCOL(CCOL(pos)) = CCOL(pos)
        /\ (CCOL(pos) + n) % CONSOLE_COLUMNS = (pos + n) % CONSOLE_COLUMNS
<1> DEFINE C == CONSOLE_COLUMNS
           R == CONSOLE_ROWS
<1>1. C \in Nat /\ C > 0 /\ R \in Nat /\ R > 1 /\ End = R * C BY ConsoleAssumption DEF End
<1> HIDE DEF C, R
<1>2. End \in Nat /\ End = C * R + 0 /\ End - C = C * (R - 1) + 0 /\ End >= C
  <2>1. R * C = C * R /\ C * R \in Nat /\ C * (R - 1) = C * R - C BY <1>1, Z3
  <2>2. C * R >= C BY <1>1, Z3
  <2>3. QED BY <1>1, <2>1, <2>2
<1>3. End % C = 0 /\ (End - C) % C = 0
  <2>1. R \in Int /\ R - 1 \in Int /\ 0 \in 0 .. C - 1 /\ End \in Int /\ End - C \in Int BY <1>1, <1>2
  <2>2. QED BY <1>1, <1>2, <2>1, DivOne
<1>4. ASSUME NEW pos \in Nat, NEW n \in Nat
      PROVE  /\ pos % C \in 0 .. C - 1 /\ (pos % C) % C = pos % C
             /\ ((pos % C) + n) % C = (pos + n) % C
  <2> DEFINE q == pos \div C
             r == pos % C
             x == r + n
             q2 == x \div C
             r2 == x % C
  <2>1. q \in Int /\ r \in 0 .. C - 1 /\ pos = C * q + r BY <1>1, DivMod
  <2>2. r % C = r
    <3> HIDE DEF q, r
    <3>1. r \in Int /\ 0 \in Int /\ r = C * 0 + r BY <1>1, <2>1
    <3>2. QED BY <1>1, <2>1, <3>1, DivOne
  <2>3. x \in Int
    <3> HIDE DEF r
    <3>1. QED BY <2>1
  <2>4. q2 \in Int /\ r2 \in 0 .. C - 1 /\ x = C * q2 + r2
    <3> HIDE DEF x
    <3>1. QED BY <1>1, <2>3, DivMod
  <2> HIDE DEF q, r, q2, r2
  <2>5. pos + n = C * (q + q2) + r2 /\ q + q2 \in Int /\ pos + n \in Int
    <3>1. C * (q + q2) = C * q + C * q2 BY <1>1, <2>1, <2>4, Z3
    <3>2. C * q \in Int /\ C * q2 \in Int BY <1>1, <2>1, <2>4
    <3>3. QED BY <2>1, <2>4, <3>1, <3>2
  <2>6. (pos + n) % C = r2 BY <1>1, <2>4, <2>5, DivOne
  <2>7. QED BY <2>1, <2>2, <2>6 DEF r, r2
<1>5. QED BY <1>1, <1>2, <1>3, <1>4 DEF C, CCOL

\* What a character fills, seen from the position or from its column.
LEMMA StoredIs ==
    ASSUME NEW V, SPACE \in V, NEW ch \in V, NEW pos \in 0 .. End - 1
    PROVE  /\ Stored(ch, pos) \in Seq(V) /\ pos + Len(Stored(ch, pos)) \in 0 .. End
           /\ Stored(ch, CCOL(pos)) = Stored(ch, pos)
           /\ (CCOL(pos) + Len(Stored(ch, pos))) % CONSOLE_COLUMNS
                        = (pos + Len(Stored(ch, pos))) % CONSOLE_COLUMNS
<1>1. pos \in Nat /\ CCOL(pos) \in 0 .. CONSOLE_COLUMNS - 1 /\ CCOL(CCOL(pos)) = CCOL(pos)
  BY Columns
<1>2. Stored(ch, CCOL(pos)) = Stored(ch, pos) BY <1>1 DEF Stored
<1>3. Stored(ch, pos) \in Seq(V)
  <2>1. PICK n \in Nat : n = CONSOLE_COLUMNS - CCOL(pos) BY <1>1, Columns
  <2>2. [i \in 1 .. n |-> SPACE] \in Seq(V) BY <2>1
  <2>3. CASE ch = "nl" BY <2>1, <2>2, <2>3 DEF Stored, Repeat
  <2>4. CASE ch # "nl" BY <2>4 DEF Stored
  <2>5. QED BY <2>3, <2>4
<1>4. Len(Stored(ch, pos)) \in Nat BY <1>3
<1>5. pos + Len(Stored(ch, pos)) \in 0 .. End BY StoredFits
<1>6. QED BY <1>1, <1>2, <1>3, <1>4, <1>5, Columns

\* A character goes onto the screen and onto the paper.
LEMMA TailsPut ==
    ASSUME NEW V, SPACE \in V, NEW c \in [0 .. End - 1 -> V], NEW t \in Seq(V), NEW col,
           NEW pos \in 0 .. End - 1, Tails(c, t, col, pos), NEW ch \in V
    PROVE  LET cells == Stored(ch, pos)
               more  == Stored(ch, col)
           IN  Tails([i \in 0 .. End - 1 |->
                        IF i \in pos .. pos + Len(cells) - 1 THEN cells[i - pos + 1] ELSE c[i]],
                     Kept(t \o more), (col + Len(more)) % CONSOLE_COLUMNS, pos + Len(cells))
<1> DEFINE cells == Stored(ch, pos)
           d == [i \in 0 .. End - 1 |->
                   IF i \in pos .. pos + Len(cells) - 1 THEN cells[i - pos + 1] ELSE c[i]]
           n == Len(cells)
           L == Len(t)
           u == t \o cells
           k0 == IF Len(u) > End THEN Len(u) - End ELSE 0
<1>1. /\ cells \in Seq(V) /\ n \in Nat /\ pos + n \in 0 .. End /\ col = CCOL(pos)
      /\ Stored(ch, col) = cells
      /\ (col + n) % CONSOLE_COLUMNS = (pos + n) % CONSOLE_COLUMNS
  BY StoredIs DEF Tails, CCOL
<1>2. /\ L \in Nat /\ L >= pos /\ pos \in Nat /\ End \in Nat
      /\ \A k \in 1 .. pos : c[k - 1] = t[L - pos + k]
      /\ pos < L => pos > End - CONSOLE_COLUMNS - 1
  BY Columns DEF Tails
<1> HIDE DEF cells
<1>3. /\ u \in Seq(V) /\ Len(u) = L + n
      /\ \A k \in 1 .. L + n : u[k] = IF k <= L THEN t[k] ELSE cells[k - L]
  BY <1>1, <1>2, ConcatProperties
<1> HIDE DEF u, L, n
<1>4. k0 \in 0 .. Len(u) /\ Len(u) \in Nat /\ Len(u) - k0 >= pos + n /\ Len(u) - k0 <= End
      /\ (k0 > 0 => Len(u) > End)
  BY <1>1, <1>2, <1>3
<1>5. Kept(u) = SubSeq(u, k0 + 1, Len(u)) BY <1>1, <1>2, <1>3 DEF Kept
<1> HIDE DEF k0
<1>6. /\ Len(Kept(u)) = Len(u) - k0
      /\ \A k \in 1 .. Len(u) - k0 : Kept(u)[k] = u[k0 + k]
  BY <1>3, <1>4, <1>5, SubSeqProperties
<1>7. ASSUME NEW k \in 1 .. pos + n PROVE d[k - 1] = Kept(u)[Len(Kept(u)) - (pos + n) + k]
  <2>1. k - 1 \in 0 .. End - 1 BY <1>1, <1>2
  <2>2. Kept(u)[Len(Kept(u)) - (pos + n) + k] = u[L - pos + k]
    <3>1. Len(u) - k0 - (pos + n) + k \in 1 .. Len(u) - k0 BY <1>1, <1>2, <1>4
    <3>2. k0 + (Len(u) - k0 - (pos + n) + k) = L - pos + k BY <1>1, <1>2, <1>3, <1>4
    <3>3. QED BY <1>6, <3>1, <3>2
  <2>3. CASE k <= pos
    <3>1. d[k - 1] = c[k - 1] BY <1>1, <1>2, <2>1, <2>3
    <3>2. L - pos + k \in 1 .. L BY <1>1, <1>2, <2>3
    <3>3. k \in 1 .. pos /\ L - pos + k \in 1 .. L + n /\ L - pos + k <= L BY <1>1, <1>2, <2>3, <3>2
    <3>4. u[L - pos + k] = t[L - pos + k] BY <1>3, <3>3
    <3>5. c[k - 1] = t[L - pos + k] BY <1>2, <3>3
    <3>6. QED BY <2>2, <3>1, <3>4, <3>5
  <2>4. CASE k > pos
    <3>1. k - 1 \in pos .. pos + n - 1 /\ (k - 1) - pos + 1 = k - pos BY <1>1, <1>2, <2>4
    <3>2. d[k - 1] = cells[k - pos] BY <2>1, <3>1 DEF n
    <3>3. L - pos + k \in L + 1 .. L + n /\ (L - pos + k) - L = k - pos BY <1>1, <1>2, <2>4
    <3>4. L - pos + k \in 1 .. L + n /\ ~ (L - pos + k <= L) BY <1>1, <1>2, <3>3
    <3>5. u[L - pos + k] = cells[k - pos] BY <1>3, <3>3, <3>4
    <3>6. QED BY <2>2, <3>2, <3>5
  <2>5. QED BY <1>1, <1>2, <2>3, <2>4
<1>8. ASSUME pos + n < Len(Kept(u)) PROVE pos + n > End - CONSOLE_COLUMNS - 1
  <2>1. pos < L
    <3>1. SUFFICES ASSUME pos = L PROVE FALSE BY <1>2
    <3>2. QED BY <1>1, <1>2, <1>3, <1>4, <1>6, <1>8, <3>1
  <2>2. QED BY <1>1, <1>2, <2>1, Columns
<1>9. Len(Kept(u)) >= pos + n BY <1>4, <1>6
<1>10. Tails(d, Kept(u), (col + n) % CONSOLE_COLUMNS, pos + n)
  <2> HIDE DEF d
  <2>1. QED BY <1>1, <1>7, <1>8, <1>9 DEF Tails
<1>11. QED BY <1>1, <1>10 DEF u, n, cells

\* The rows move up.
LEMMA ScrollIs ==
    ASSUME NEW V, NEW c \in [0 .. End - 1 -> V]
    PROVE  /\ scroll(c) \in [0 .. End - 1 -> V \cup {NUL}]
           /\ \A a \in 0 .. End - CONSOLE_COLUMNS - 1 : scroll(c)[a] = c[CONSOLE_COLUMNS + a]
<1> DEFINE C == CONSOLE_COLUMNS
           n == End - C
           D == 0 .. End - 1
           up == [a \in D |-> IF a \in 0 .. n - 1 THEN c[C + a] ELSE c[a]]
<1>1. C \in Nat /\ C > 0 /\ n \in Nat /\ End \in Nat /\ (CONSOLE_ROWS - 1) * C = n
  <2>1. (CONSOLE_ROWS - 1) * C = CONSOLE_ROWS * C - C BY ConsoleAssumption
  <2>2. C \in Nat /\ C > 0 /\ End \in Nat /\ End >= C BY Columns
  <2>3. End = CONSOLE_ROWS * C BY DEF End
  <2>4. QED BY <2>1, <2>2, <2>3
<1> HIDE DEF C, n
<1>2. End = C + n BY <1>1 DEF n
<1>3. memmove(c, 0, C, n) = up
  <2>1. C \in Nat /\ n \in Nat /\ C > 0 BY <1>1
  <2>2. 0 .. n - 1 \subseteq DOMAIN c /\ C .. C + n - 1 \subseteq DOMAIN c BY <1>1, <1>2
  <2>3. c = [a \in DOMAIN c |-> c[a]] OBVIOUS
  <2>4. memmove(c, 0, C, n) = Moved(c, C, n) BY <2>1, <2>2, <2>3, MovedDown
  <2>5. DOMAIN c = D OBVIOUS
  <2>6. QED BY <2>4, <2>5 DEF Moved
<1>4. scroll(c) = memset(up, n, NUL, C) BY <1>1, <1>3 DEF scroll, C
<1>5. scroll(c) = [a \in D |-> IF a \in n .. n + C - 1 THEN NUL ELSE up[a]]
  <2>1. DOMAIN up = D OBVIOUS
  <2> HIDE DEF up
  <2>2. QED BY <1>4, <2>1 DEF memset
<1>6. ASSUME NEW a \in 0 .. n - 1 PROVE scroll(c)[a] = c[C + a]
  <2>1. a \in D /\ a \notin n .. n + C - 1 BY <1>1, <1>2
  <2>2. QED BY <1>5, <2>1
<1>7. scroll(c) \in [D -> V \cup {NUL}]
  <2>1. up \in [D -> V]
    <3>1. \A a \in 0 .. n - 1 : C + a \in D BY <1>1, <1>2
    <3>2. QED BY <3>1
  <2> HIDE DEF up
  <2>2. QED BY <1>5, <2>1
<1>8. QED BY <1>6, <1>7 DEF n, C

\* What was in front of the position still is, less a row.
LEMMA TailsScroll ==
    ASSUME NEW V, NEW c \in [0 .. End - 1 -> V], NEW t \in Seq(V), NEW col, Tails(c, t, col, End)
    PROVE  Tails(scroll(c), t, col, End - CONSOLE_COLUMNS)
<1> DEFINE C == CONSOLE_COLUMNS
           n == End - C
<1>1. /\ C \in Nat /\ C > 0 /\ n \in Nat /\ End \in Nat /\ End = C + n /\ End % C = 0 /\ n % C = 0
  BY Columns
<1>2. \A a \in 0 .. n - 1 : scroll(c)[a] = c[C + a] BY ScrollIs
<1> HIDE DEF C, n
<1>3. Len(t) \in Nat /\ Len(t) >= End /\ col = 0 /\ \A k \in 1 .. End : c[k - 1] = t[Len(t) - End + k]
  BY <1>1 DEF Tails, C
<1>4. ASSUME NEW k \in 1 .. n PROVE scroll(c)[k - 1] = t[Len(t) - n + k]
  <2>1. k - 1 \in 0 .. n - 1 BY <1>1
  <2>2. C + k \in 1 .. End /\ (C + k) - 1 = C + (k - 1) BY <1>1
  <2>3. Len(t) - End + (C + k) = Len(t) - n + k BY <1>1, <1>3
  <2>4. QED BY <1>2, <1>3, <2>1, <2>2, <2>3
<1>5. Len(t) >= n /\ n > End - C - 1 BY <1>1, <1>3
<1>6. Tails(scroll(c), t, col, n) BY <1>1, <1>3, <1>4, <1>5 DEF Tails, C
<1>7. QED BY <1>6 DEF n, C

\* A new paper is what is on the screen.
LEMMA TailsNew ==
    ASSUME NEW V, NEW c \in [0 .. End - 1 -> V], NEW pos \in 0 .. End
    PROVE  Tails(c, Shown(c, pos), CCOL(pos), pos) /\ Shown(c, pos) \in Seq(V)
<1>1. pos \in Nat /\ End \in Nat BY Columns
<1>2. \A i \in 1 .. pos : i - 1 \in 0 .. End - 1 BY <1>1
<1>3. Shown(c, pos) = [i \in 1 .. pos |-> c[i - 1]] BY DEF Shown
<1>4. Shown(c, pos) \in Seq(V) /\ Len(Shown(c, pos)) = pos BY <1>1, <1>2, <1>3
<1>5. \A k \in 1 .. pos : c[k - 1] = Shown(c, pos)[pos - pos + k] BY <1>1, <1>3
<1>6. QED BY <1>1, <1>4, <1>5 DEF Tails, CCOL

-----------------------------------------------------------------------------
\* Unless prints are mixed there is at most one that goes on, at the cursor.
LEMMA OneActive ==
    ASSUME OneByOne, ~ mixed
    PROVE  /\ \A p, q \in Printers : Active(p) /\ Active(q) => p = q
           /\ \A p \in Printers : Active(p) => job[p].scroll
<1>1. CASE panicking = "no" BY <1>1 DEF OneByOne, Active
<1>2. CASE panicking # "no"
  <2>1. \A p : Active(p) => p = KERNEL BY <1>2 DEF Active, Runs
  <2>2. QED BY <1>2, <2>1 DEF OneByOne, Active
<1>3. QED BY <1>1, <1>2

\* So the position is the one that ShowsTail takes.
LEMMA PaperShown == OnScreen /\ PaperInv => ShowsTail
<1> SUFFICES ASSUME OnScreen, PaperInv, ~ mixed PROVE ShowsTail
  BY DEF ShowsTail
<1> DEFINE active == {p \in Printers : Printing(p) /\ Runs(p)}
           pos == IF active = {} THEN cursorpos ELSE job[CHOOSE p \in active : TRUE].cell
<1>1. pos \in 0 .. End /\ Tails(console, tape, column, pos)
  <2>1. CASE active = {}
    <3>1. \A p \in Printers : ~ Active(p) BY <2>1 DEF Active
    <3>2. QED BY <2>1, <3>1 DEF PaperInv, InFront, OnScreen
  <2>2. CASE active # {}
    <3>1. PICK p : p = CHOOSE x \in active : TRUE OBVIOUS
    <3>2. p \in active BY <2>2, <3>1, Zenon
    <3>3. p \in Printers /\ Active(p) /\ pos = job[p].cell BY <2>2, <3>1, <3>2 DEF Active
    <3>4. job[p].cell \in 0 .. End BY <3>3 DEF OnScreen, IsJob, Active, Printing
    <3>5. QED BY <3>3, <3>4 DEF PaperInv, InFront
  <2>3. QED BY <2>1, <2>2
<1> HIDE DEF pos
<1>2. Shown(console, pos) = SubSeq(tape, Len(tape) - pos + 1, Len(tape))
  <2> DEFINE L == Len(tape)
             w == SubSeq(tape, L - pos + 1, L)
  <2>1. PICK V : tape \in Seq(V) BY DEF PaperInv, PaperType
  <2>2. L \in Nat /\ pos \in Nat /\ L >= pos BY <1>1, <2>1, Columns DEF Tails
  <2>3. w \in Seq(V) /\ Len(w) = pos /\ \A k \in 1 .. pos : w[k] = tape[L - pos + k]
    <3>1. L - pos + 1 \in Int /\ L \in Int /\ \A i \in L - pos + 1 .. L : i \in 1 .. L BY <2>2
    <3>2. \A i \in L - pos + 1 .. L : tape[i] \in V BY <2>1, <3>1, ElementOfSeq
    <3>3. /\ w \in Seq(V) /\ Len(w) = (IF L - pos + 1 <= L THEN L - (L - pos + 1) + 1 ELSE 0)
          /\ \A i \in 1 .. L - (L - pos + 1) + 1 : w[i] = tape[(L - pos + 1) + i - 1]
      <4> HIDE DEF L
      <4>1. QED BY <3>1, <3>2, SubSeqProperties
    <3> HIDE DEF L, w
    <3>4. /\ L - (L - pos + 1) + 1 = pos /\ (L - pos + 1 <= L <=> 1 <= pos)
          /\ \A k \in 1 .. pos : (L - pos + 1) + k - 1 = L - pos + k
      BY <2>2
    <3>5. QED BY <2>2, <3>3, <3>4
  <2>4. \A k \in 1 .. pos : console[k - 1] = tape[L - pos + k] BY <1>1 DEF Tails
  <2>5. Shown(console, pos) = [k \in 1 .. pos |-> console[k - 1]] BY DEF Shown
  <2> HIDE DEF w, L
  <2>6. \A k \in 1 .. pos : Shown(console, pos)[k] = w[k] BY <2>3, <2>4, <2>5
  <2>7. w = [k \in 1 .. pos |-> w[k]] BY <2>3
  <2>8. QED BY <2>5, <2>6, <2>7 DEF w, L
<1>3. /\ pos % CONSOLE_COLUMNS = column /\ Len(tape) >= pos
      /\ pos < Len(tape) => pos > End - CONSOLE_COLUMNS - 1
  BY <1>1 DEF Tails
<1>4. QED BY <1>2, <1>3 DEF ShowsTail, pos, active

\* A new paper is begun while nobody prints, or by the kernel's panic.
LEMMA PaperBegins ==
    ASSUME PaperType', NEW pos \in 0 .. End, NewPaper(console', pos), cursorpos' = pos,
           \A p \in Printers : Active(p)' => job'[p].cell = pos, OneByOne'
    PROVE  PaperInv'
<1>1. PICK V : console' \in [0 .. End - 1 -> V] BY DEF PaperType
<1>2. tape' = Shown(console', pos) /\ column' = CCOL(pos) BY DEF NewPaper
<1>3. Tails(console', tape', column', pos) BY <1>1, <1>2, TailsNew
<1>4. InFront' BY <1>3 DEF InFront, Tails
<1>5. QED BY <1>4 DEF PaperInv

\* A print begins: at the cursor while nobody else prints, or prints are mixed.
LEMMA BeginPaper ==
    ASSUME OnScreen, PaperInv, NEW p \in Printers, Begin(p)
    PROVE  PaperInv'
<1>1. /\ panicking = "no" /\ panicking' = "no" /\ cursorpos' = cursorpos /\ console' = console
      /\ ~ Printing(p) /\ Runs(p)
  BY DEF Begin
<1>2. PICK cpos \in Positions, format \in Messages :
        /\ p = KERNEL => cpos >= 0
        /\ job' = [job EXCEPT ![p] = [text   |-> vprintf(format),
                                      cell   |-> console_printer(cpos),
                                      scroll |-> cpos < 0]]
        /\ IF mixed \/ cpos >= 0 \/ \E q \in Printers : Printing(q)
           THEN Mix
           ELSE UNCHANGED history
  BY DEF Begin
<1>3. CASE mixed \/ cpos >= 0 \/ \E q \in Printers : Printing(q)
  <2>1. mixed' = TRUE /\ tape' = <<>> BY <1>2, <1>3 DEF Mix
  <2>2. PaperType' BY <1>1, <2>1 DEF PaperInv, PaperType
  <2>3. QED BY <1>1, <2>1, <2>2 DEF PaperInv, OneByOne, InFront
<1>4. CASE ~ (mixed \/ cpos >= 0 \/ \E q \in Printers : Printing(q))
  <2>1. ~ mixed /\ cpos < 0 /\ p # KERNEL /\ \A q \in Printers : ~ Printing(q)
    BY <1>2, <1>4, ConsoleAssumption
  <2>2. mixed' = mixed /\ tape' = tape /\ column' = column BY <1>2, <1>4 DEF history
  <2>3. PICK j : /\ job' = [job EXCEPT ![p] = j] /\ j.cell = cursorpos /\ j.scroll = TRUE
    <3>1. console_printer(cpos) = cursorpos BY <2>1 DEF console_printer
    <3>2. (cpos < 0) = TRUE BY <2>1
    <3>3. PICK k : k = [text |-> vprintf(format), cell |-> cursorpos, scroll |-> TRUE] OBVIOUS
    <3>4. job' = [job EXCEPT ![p] = k] BY <1>2, <3>1, <3>2, <3>3
    <3>5. k.cell = cursorpos /\ k.scroll = TRUE BY <3>3
    <3>6. QED BY <3>4, <3>5
  <2>4. /\ job'[p] = j /\ \A q \in Printers : q # p => job'[q] = job[q]
    BY <2>3 DEF OnScreen
  <2>5. \A q \in Printers : Printing(q)' => q = p BY <2>1, <2>4 DEF Printing
  <2>6. Tails(console, tape, column, cursorpos) BY <2>1 DEF PaperInv, InFront, Active
  <2>7. PaperType' BY <1>1, <2>2 DEF PaperInv, PaperType
  <2>8. KERNEL \in Printers BY DEF Printers
  <2>9. OneByOne' BY <1>1, <2>1, <2>3, <2>4, <2>5, <2>8 DEF OneByOne
  <2>10. InFront' BY <1>1, <2>2, <2>3, <2>4, <2>5, <2>6 DEF InFront, Active
  <2>11. QED BY <2>7, <2>9, <2>10 DEF PaperInv
<1>5. QED BY <1>3, <1>4

\* A print goes on: the same one is active, if prints are not mixed.
LEMMA GoesOn ==
    ASSUME OnScreen, PaperInv, NEW p \in Printers, Active(p), NEW j, j # Idle,
           job' = [job EXCEPT ![p] = j], j.scroll = job[p].scroll,
           UNCHANGED <<panicking, mixed, cursorpos>>, PaperType',
           ~ mixed => Tails(console', tape', column', j.cell)
    PROVE  PaperInv'
<1>1. /\ job'[p] = j /\ \A q \in Printers : q # p => job'[q] = job[q] BY DEF OnScreen
<1>2. \A q \in Printers : Printing(q)' <=> Printing(q) BY <1>1 DEF Printing, Active
<1>3. KERNEL \in Printers BY DEF Printers
<1>4. \A q \in Printers : Active(q)' <=> Active(q) BY <1>2, <1>3 DEF Active, Runs
<1>5. \A q \in Printers : job'[q].scroll = job[q].scroll BY <1>1
<1>6. OneByOne' BY <1>2, <1>3, <1>5 DEF PaperInv, OneByOne
<1>7. InFront'
  <2>1. SUFFICES ASSUME ~ mixed PROVE InFront' BY DEF InFront
  <2>2. \A q \in Printers : Active(q) => q = p BY <2>1, OneActive DEF PaperInv
  <2>3. QED BY <1>1, <1>4, <2>1, <2>2 DEF InFront, Tails
<1>8. QED BY <1>6, <1>7 DEF PaperInv

\* The cells of a print that waits.
LEMMA WaitingIs ==
    ASSUME OnScreen, NEW p \in Printers, Waiting(p)
    PROVE  /\ Active(p) /\ job[p].cell \in 0 .. End
           /\ job[p] = [text |-> job[p].text, cell |-> job[p].cell, scroll |-> job[p].scroll]
<1>1. job[p] # Idle BY DEF Waiting, Idle
<1>2. QED BY <1>1 DEF OnScreen, IsJob, Active, Waiting, Printing

\* It scrolls, or starts over at the top.
LEMMA ScrollPaper ==
    ASSUME OnScreen, PaperInv, NEW p \in Printers, Scroll(p)
    PROVE  PaperInv'
<1>1. /\ Active(p) /\ job[p].cell \in 0 .. End
      /\ job[p] = [text |-> job[p].text, cell |-> job[p].cell, scroll |-> job[p].scroll]
  BY WaitingIs DEF Scroll
<1>2. job[p].cell = End /\ job[p].text # <<>> BY <1>1, Columns DEF Scroll, Waiting
<1>3. UNCHANGED <<cursorpos, panicking, tape, column, mixed>> BY DEF Scroll, history
<1>4. PICK V : SPACE \in V /\ console \in [0 .. End - 1 -> V] /\ tape \in Seq(V)
  BY DEF PaperInv, PaperType
<1>5. CASE job[p].scroll
  <2>1. console' = scroll(console) /\ job' = [job EXCEPT ![p].cell = @ - CONSOLE_COLUMNS]
    BY <1>5 DEF Scroll
  <2> DEFINE j == [job[p] EXCEPT !.cell = End - CONSOLE_COLUMNS]
  <2>2. job' = [job EXCEPT ![p] = j] BY <1>2, <2>1
  <2>3. j.scroll = job[p].scroll /\ j.cell = End - CONSOLE_COLUMNS /\ j.text # <<>>
    BY <1>1, <1>2
  <2> HIDE DEF j
  <2>4. j # Idle BY <2>3 DEF Idle
  <2>5. ASSUME NEW col, Tails(console, tape, col, End)
        PROVE  Tails(scroll(console), tape, col, End - CONSOLE_COLUMNS)
    BY <1>4, <2>5, TailsScroll
  <2>6. ASSUME ~ mixed PROVE Tails(console', tape', column', j.cell)
    <3>1. Tails(console, tape, column, End) BY <1>1, <1>2, <2>6 DEF PaperInv, InFront
    <3>2. QED BY <1>3, <2>1, <2>3, <2>5, <3>1
  <2>7. PaperType'
    <3>1. scroll(console) \in [0 .. End - 1 -> V \cup {NUL}] BY <1>4, ScrollIs
    <3>2. tape' \in Seq(V \cup {NUL}) /\ SPACE \in V \cup {NUL} BY <1>3, <1>4
    <3>3. QED BY <2>1, <3>1, <3>2 DEF PaperType
  <2>8. QED BY <1>1, <1>3, <2>2, <2>3, <2>4, <2>6, <2>7, GoesOn
<1>6. CASE ~ job[p].scroll
  <2>1. console' = console /\ job' = [job EXCEPT ![p].cell = 0] BY <1>6 DEF Scroll
  <2> DEFINE j == [job[p] EXCEPT !.cell = 0]
  <2>2. job' = [job EXCEPT ![p] = j] BY <2>1
  <2>3. j.scroll = job[p].scroll /\ j.text # <<>> BY <1>1, <1>2
  <2> HIDE DEF j
  <2>4. j # Idle BY <2>3 DEF Idle
  <2>5. mixed BY <1>1, <1>6, OneActive DEF PaperInv
  <2>6. PaperType' BY <1>3, <2>1 DEF PaperInv, PaperType
  <2>7. QED BY <1>1, <1>3, <2>2, <2>3, <2>4, <2>5, <2>6, GoesOn
<1>7. QED BY <1>5, <1>6

\* It puts a character onto the screen, and onto the paper.
LEMMA PutcPaper ==
    ASSUME OnScreen, PaperInv, NEW p \in Printers, Putc(p)
    PROVE  PaperInv'
<1> DEFINE cell == job[p].cell
           ch == Head(job[p].text)
           cells == Stored(ch, cell)
           n == cell + Len(cells)
           j == [[job[p] EXCEPT !.cell = n] EXCEPT !.text = Tail(job[p].text)]
<1>1. /\ Active(p) /\ cell \in 0 .. End
      /\ job[p] = [text |-> job[p].text, cell |-> cell, scroll |-> job[p].scroll]
  BY WaitingIs DEF Putc
<1>2. cell \in 0 .. End - 1 BY <1>1, Columns DEF Putc
<1>3. UNCHANGED <<cursorpos, panicking, mixed>> BY DEF Putc
<1>4. PICK W : SPACE \in W /\ console \in [0 .. End - 1 -> W] /\ tape \in Seq(W)
  BY DEF PaperInv, PaperType
<1>5. PICK V : V = W \cup {ch} OBVIOUS
<1>6. SPACE \in V /\ ch \in V /\ console \in [0 .. End - 1 -> V] /\ tape \in Seq(V) BY <1>4, <1>5
<1>7. cells \in Seq(V) /\ n \in 0 .. End BY <1>2, <1>6, StoredIs
<1>8. console' = [i \in 0 .. End - 1 |->
                    IF i \in cell .. cell + Len(cells) - 1 THEN cells[i - cell + 1] ELSE console[i]]
  BY <1>6 DEF Putc
<1>9. job' = [job EXCEPT ![p].cell = n, ![p].text = Tail(job[p].text)] BY DEF Putc
<1>10. IF mixed THEN UNCHANGED <<tape, column>>
       ELSE /\ tape' = Kept(tape \o Stored(ch, column))
            /\ column' = (column + Len(Stored(ch, column))) % CONSOLE_COLUMNS
  BY DEF Putc
<1>11. job' = [job EXCEPT ![p] = j]
  <2> HIDE DEF n
  <2>1. QED BY <1>9 DEF OnScreen
<1> HIDE DEF n
<1>12. j.cell = n /\ j.scroll = job[p].scroll
  <2>1. PICK t, c, b : job[p] = [text |-> t, cell |-> c, scroll |-> b] BY <1>1
  <2>2. [job[p] EXCEPT !.cell = n] = [text |-> t, cell |-> n, scroll |-> b] BY <2>1
  <2>3. QED BY <2>1, <2>2
<1> HIDE DEF j, ch, cell, cells
<1>13. j # Idle
  <2>1. Idle.cell = -1 BY DEF Idle
  <2>2. n # -1 BY <1>7, Columns
  <2>3. QED BY <1>12, <2>1, <2>2
<1>14. ASSUME ~ mixed PROVE Tails(console', tape', column', j.cell)
  <2>1. Tails(console, tape, column, cell) BY <1>1, <1>14 DEF PaperInv, InFront, cell
  <2>2. QED BY <1>2, <1>6, <1>8, <1>10, <1>12, <1>14, <2>1, TailsPut DEF n, cells
<1>15. PaperType'
  <2>1. console' \in [0 .. End - 1 -> V]
    <3>1. ASSUME NEW i \in 0 .. End - 1, i \in cell .. cell + Len(cells) - 1
          PROVE  cells[i - cell + 1] \in V
      <4>1. i - cell + 1 \in 1 .. Len(cells) BY <1>2, <1>7, <3>1
      <4>2. QED BY <1>7, <4>1, ElementOfSeq
    <3>2. QED BY <1>6, <1>8, <3>1
  <2>2. tape' \in Seq(V)
    <3>1. CASE mixed BY <1>6, <1>10, <3>1
    <3>2. CASE ~ mixed
      <4>1. column = CCOL(cell) BY <1>1, <3>2 DEF PaperInv, InFront, Tails, CCOL, cell
      <4>2. Stored(ch, column) \in Seq(V) BY <1>2, <1>6, <1>7, <4>1, StoredIs DEF cells
      <4>3. PICK u : u = tape \o Stored(ch, column) OBVIOUS
      <4>4. u \in Seq(V) BY <1>6, <4>2, <4>3, ConcatProperties
      <4>5. Kept(u) \in Seq(V)
        <5>1. PICK m \in 1 .. Len(u) + 1 : Kept(u) = SubSeq(u, m, Len(u))
          <6>1. Len(u) \in Nat /\ End \in Nat BY <4>4, Columns, LenProperties
          <6>2. (IF Len(u) > End THEN Len(u) - End + 1 ELSE 1) \in 1 .. Len(u) + 1 BY <6>1
          <6>3. QED BY <6>2 DEF Kept
        <5>2. PICK L \in Nat : L = Len(u) BY <4>4, LenProperties
        <5>3. \A i \in m .. L : u[i] \in V BY <4>4, <5>1, <5>2, ElementOfSeq
        <5>4. SubSeq(u, m, L) \in Seq(V) BY <5>1, <5>2, <5>3, SubSeqProperties
        <5>5. QED BY <5>1, <5>2, <5>4
      <4>6. QED BY <1>10, <3>2, <4>3, <4>5
    <3>3. QED BY <3>1, <3>2
  <2>3. QED BY <1>6, <2>1, <2>2 DEF PaperType
<1>16. QED BY <1>1, <1>3, <1>11, <1>12, <1>13, <1>14, <1>15, GoesOn

\* A print ends: its position becomes the cursor's if it was at the cursor.
LEMMA FinishPaper ==
    ASSUME OnScreen, OnScreen', PaperInv, NEW p \in Printers, Finish(p)
    PROVE  PaperInv'
<1>1. /\ Active(p) /\ job' = [job EXCEPT ![p] = Idle] /\ UNCHANGED <<console, panicking>>
      /\ cursorpos' = IF job[p].scroll THEN job[p].cell ELSE cursorpos
  BY DEF Finish, Active, move_cursor
<1>2. /\ job'[p] = Idle /\ \A q \in Printers : q # p => job'[q] = job[q]
  BY <1>1 DEF OnScreen
<1>3. KERNEL \in Printers /\ cursorpos' \in 0 .. End BY DEF Printers, OnScreen
<1>4. \A q \in Printers : Printing(q)' <=> q # p /\ Printing(q) BY <1>2 DEF Printing
<1>5. CASE mixed /\ \A q \in Printers \ {p} : ~ Printing(q)
  <2>1. NewPaper(console', cursorpos') BY <1>1, <1>5 DEF Finish
  <2>2. \A q \in Printers : ~ Printing(q)' BY <1>4, <1>5
  <2>3. OneByOne' BY <1>3, <2>2 DEF OneByOne
  <2>4. PICK V : SPACE \in V /\ console' \in [0 .. End - 1 -> V] BY <1>1 DEF PaperInv, PaperType
  <2>5. tape' \in Seq(V) BY <1>3, <2>1, <2>4, TailsNew DEF NewPaper
  <2>6. PaperType' BY <2>4, <2>5 DEF PaperType
  <2>7. QED BY <1>3, <2>1, <2>2, <2>3, <2>6, PaperBegins DEF Active
<1>6. CASE ~ (mixed /\ \A q \in Printers \ {p} : ~ Printing(q))
  <2>1. UNCHANGED <<tape, column, mixed>> BY <1>6 DEF Finish, history
  <2>2. PaperType' BY <1>1, <2>1 DEF PaperInv, PaperType
  <2>3. OneByOne' BY <1>1, <1>2, <1>3, <1>4, <2>1 DEF PaperInv, OneByOne
  <2>4. ASSUME ~ mixed PROVE InFront'
    <3>1. job[p].scroll /\ Tails(console, tape, column, job[p].cell)
      BY <1>1, <2>4, OneActive DEF PaperInv, InFront
    <3>2. \A q \in Printers : ~ Active(q)'
      <4>1. CASE panicking = "no" BY <1>1, <1>4, <2>4, <4>1 DEF PaperInv, OneByOne, Active
      <4>2. CASE panicking # "no" BY <1>1, <1>4, <4>2 DEF Active, Runs
      <4>3. QED BY <4>1, <4>2
    <3>3. QED BY <1>1, <2>1, <3>1, <3>2 DEF InFront, Tails
  <2>5. QED BY <2>1, <2>2, <2>3, <2>4 DEF PaperInv, InFront
<1>7. QED BY <1>5, <1>6

\* A reboot, and the kernel's panic.
LEMMA KernelPaper ==
    ASSUME OnScreen, OnScreen', PaperInv, console_clear \/ KernelPanic \/ PanicNewline
    PROVE  PaperInv'
<1>1. KERNEL \in Printers /\ cursorpos' \in 0 .. End BY DEF Printers, OnScreen
<1>2. PICK V : SPACE \in V /\ console \in [0 .. End - 1 -> V] /\ tape \in Seq(V)
  BY DEF PaperInv, PaperType
<1>3. CASE console_clear
  <2>1. /\ console' = [i \in 0 .. End - 1 |-> SPACE] /\ cursorpos' = 0 /\ panicking' = "no"
        /\ job' = [p \in Printers |-> Idle] /\ NewPaper(console', 0)
    BY <1>3 DEF console_clear
  <2>2. \A p \in Printers : ~ Printing(p)' BY <2>1 DEF Printing
  <2>3. console' \in [0 .. End - 1 -> V] BY <1>2, <2>1
  <2>4. tape' \in Seq(V) BY <1>1, <2>1, <2>3, TailsNew DEF NewPaper
  <2>5. PaperType' BY <1>2, <2>3, <2>4 DEF PaperType
  <2>6. OneByOne' BY <1>1, <2>2 DEF OneByOne
  <2>7. QED BY <1>1, <2>1, <2>2, <2>5, <2>6, PaperBegins DEF Active
<1>4. CASE KernelPanic
  <2>1. /\ console' = console /\ panicking' # "no" /\ NewPaper(console', cursorpos')
        /\ \E text : job' = [job EXCEPT ![KERNEL] = error_printf(text, cursorpos')]
    BY <1>4 DEF KernelPanic
  <2>2. job'[KERNEL].cell = cursorpos' /\ job'[KERNEL].scroll = TRUE
    BY <1>1, <2>1 DEF OnScreen, error_printf
  <2>3. tape' \in Seq(V) BY <1>1, <1>2, <2>1, TailsNew DEF NewPaper
  <2>4. PaperType' BY <1>2, <2>1, <2>3 DEF PaperType
  <2>5. OneByOne' BY <2>1, <2>2 DEF OneByOne
  <2>6. \A p \in Printers : Active(p)' => job'[p].cell = cursorpos' BY <2>1, <2>2 DEF Active, Runs
  <2>7. QED BY <1>1, <2>1, <2>4, <2>5, <2>6, PaperBegins
<1>5. CASE PanicNewline
  <2>1. /\ panicking = "format" /\ ~ Printing(KERNEL)
        /\ UNCHANGED <<console, cursorpos, panicking, tape, column, mixed>>
        /\ job' = [job EXCEPT ![KERNEL] = error_printf(<<"nl">>, cursorpos)]
    BY <1>5 DEF PanicNewline, history
  <2>2. job'[KERNEL].cell = cursorpos /\ job'[KERNEL].scroll = TRUE
    BY <1>1, <2>1 DEF OnScreen, error_printf
  <2>3. \A p \in Printers : (Active(p) => p = KERNEL) /\ (Active(p)' => p = KERNEL) BY <2>1 DEF Active, Runs
  <2>4. ~ mixed => Tails(console, tape, column, cursorpos)
    BY <2>1, <2>3 DEF PaperInv, InFront, Active
  <2>5. InFront' BY <2>1, <2>2, <2>3, <2>4 DEF InFront, Tails
  <2>6. OneByOne' BY <2>1, <2>2 DEF OneByOne
  <2>7. PaperType' BY <1>2, <2>1 DEF PaperType
  <2>8. QED BY <2>5, <2>6, <2>7 DEF PaperInv
<1>6. QED BY <1>3, <1>4, <1>5

\* Every step of the terminal.
LEMMA PaperNext ==
    OnScreen /\ OnScreen' /\ PaperInv /\ [TerminalNext]_<<printerVars, keyVars>> => PaperInv'
<1> SUFFICES ASSUME OnScreen, OnScreen', PaperInv, [TerminalNext]_<<printerVars, keyVars>>
             PROVE  PaperInv'
  OBVIOUS
<1>1. CASE UNCHANGED <<screen, history>>
  <2>1. UNCHANGED <<console, cursorpos, job, panicking, tape, column, mixed>>
    BY <1>1 DEF screen, history
  <2>2. \A p : (Printing(p)' <=> Printing(p)) /\ (Active(p)' <=> Active(p))
    BY <2>1 DEF Printing, Active, Runs
  <2>3. PaperType' BY <2>1 DEF PaperInv, PaperType
  <2>4. OneByOne' BY <2>1, <2>2 DEF PaperInv, OneByOne
  <2>5. InFront' BY <2>1, <2>2 DEF PaperInv, InFront, Tails
  <2>6. QED BY <2>3, <2>4, <2>5 DEF PaperInv
<1>2. CASE console_clear \/ KernelPanic \/ PanicNewline BY <1>2, KernelPaper
<1>3. CASE \E p \in Printers : Begin(p) \/ PrintStep(p)
  BY <1>3, BeginPaper, ScrollPaper, PutcPaper, FinishPaper DEF PrintStep
<1>4. CASE Fail \/ Snprintf \/ UserPanic \/ Returned
  BY <1>1, <1>4 DEF Fail, Snprintf, UserPanic, Returned, printerVars
<1>5. QED BY <1>1, <1>2, <1>3, <1>4 DEF TerminalNext, PrinterNext, printerVars

(***************************************************************************)
(* On a screen of any size the cells in front of the position are the last *)
(* ones of what was printed, in order and in their columns, and no row has *)
(* been scrolled away too early, whatever is printed and wherever prints   *)
(* are interrupted, panics and reboots included (lib.cc, console_printer). *)
(***************************************************************************)
THEOREM TailIsShown == TerminalSpec => []ShowsTail
<1>1. TerminalInit => OnScreen /\ PaperInv
  <2> SUFFICES ASSUME TerminalInit PROVE OnScreen /\ PaperInv
    OBVIOUS
  <2>1. IsJob(Idle) /\ 0 \in 0 .. End BY Rows DEF IsJob
  <2>2. OnScreen BY <2>1 DEF TerminalInit, ConsoleInit, OnScreen
  <2>3. /\ console = [i \in 0 .. End - 1 |-> SPACE] /\ tape = <<>> /\ column = 0 /\ cursorpos = 0
        /\ panicking = "no" /\ \A p \in Printers : job[p] = Idle
    BY DEF TerminalInit, ConsoleInit
  <2>4. \A p \in Printers : ~ Printing(p) BY <2>3 DEF Printing
  <2>5. console \in [0 .. End - 1 -> {SPACE}] /\ tape \in Seq({SPACE}) BY <2>3
  <2>6. PaperType BY <2>5 DEF PaperType
  <2>7. KERNEL \in Printers BY DEF Printers
  <2>8. OneByOne BY <2>3, <2>4, <2>7 DEF OneByOne
  <2>9. Tails(console, tape, column, cursorpos)
    <3>1. 0 % CONSOLE_COLUMNS = 0 BY Columns
    <3>2. QED BY <2>3, <3>1 DEF Tails
  <2>10. InFront BY <2>4, <2>9 DEF InFront, Active
  <2>11. QED BY <2>2, <2>6, <2>8, <2>10 DEF PaperInv
<1>2. QED BY <1>1, OnScreenNext, PaperNext, PaperShown, PTL DEF TerminalSpec

-----------------------------------------------------------------------------
(* Printing into a buffer. *)

\* string_printer keeps as much of the text as the buffer has room for, and
\* counts all of it.
LEMMA VsnprintfIs ==
    ASSUME NEW V, NEW format, vprintf(format) \in Seq(V), NEW size \in Nat
    PROVE  LET text == vprintf(format)
           IN  vsnprintf(size, format)
                 = [s |-> Terminated(SubSeq(text, 1, IF Len(text) < size THEN Len(text) ELSE size), size),
                    n |-> Len(text)]
<1> DEFINE text == vprintf(format)
           n == Len(text)
           Room(k) == IF k < size THEN k ELSE size
           Part(k) == [s |-> SubSeq(text, 1, Room(k)), n |-> k]
           Turn(f, k) == IF k = 0 THEN [s |-> <<>>, n |-> 0]
                         ELSE StringPut(f[k - 1], text[k], size)
           Is(f) == f = [k \in 0 .. Len(text) |-> Turn(f, k)]
           g == [k \in 0 .. n |-> Part(k)]
           sp == CHOOSE f : Is(f)
<1>1. vsnprintf(size, format) = [s |-> Terminated(sp[n].s, size), n |-> sp[n].n]
  BY Zenon DEF vsnprintf
<1>2. text \in Seq(V) /\ n \in Nat BY LenProperties
<1> HIDE DEF text
<1>3. Part(0) = [s |-> <<>>, n |-> 0]
  <2>1. Room(0) = 0 OBVIOUS
  <2>2. SubSeq(text, 1, 0) = <<>> BY <1>2
  <2>3. QED BY <2>1, <2>2
<1>4. ASSUME NEW k \in 1 .. n PROVE StringPut(Part(k - 1), text[k], size) = Part(k)
  <2>1. Part(k - 1).s = SubSeq(text, 1, Room(k - 1)) /\ Part(k - 1).n = k - 1 OBVIOUS
  <2>2. Room(k - 1) \in 0 .. n /\ k - 1 \in 0 .. n BY <1>2
  <2>3. Len(SubSeq(text, 1, Room(k - 1))) = Room(k - 1)
    <3>1. \A i \in 1 .. Room(k - 1) : text[i] \in V BY <1>2, <2>2, ElementOfSeq
    <3> HIDE DEF Room, n
    <3>2. QED BY <2>2, <3>1, SubSeqProperties
  <2>4. (IF Room(k - 1) < size THEN Append(SubSeq(text, 1, Room(k - 1)), text[k])
         ELSE SubSeq(text, 1, Room(k - 1))) = SubSeq(text, 1, Room(k))
    <3>1. CASE Room(k - 1) < size
      <4>1. Room(k - 1) = k - 1 /\ Room(k) = k BY <1>2, <3>1
      <4>2. SubSeq(text, 1, k) = Append(SubSeq(text, 1, k - 1), text[k])
        BY <1>2, SubSeqRecursiveSecond
      <4>3. QED BY <3>1, <4>1, <4>2
    <3>2. CASE ~ (Room(k - 1) < size)
      <4>1. Room(k - 1) = size /\ Room(k) = size BY <1>2, <3>2
      <4>2. QED BY <3>2, <4>1
    <3>3. QED BY <3>1, <3>2
  <2>5. k - 1 + 1 = k BY <1>2
  <2> HIDE DEF Room
  <2>6. StringPut(Part(k - 1), text[k], size)
          = [s |-> IF Room(k - 1) < size THEN Append(SubSeq(text, 1, Room(k - 1)), text[k])
                   ELSE SubSeq(text, 1, Room(k - 1)),
             n |-> k]
    BY <2>1, <2>3, <2>5 DEF StringPut
  <2>7. QED BY <2>4, <2>6
<1> HIDE DEF Part
<1>5. ASSUME NEW k \in 0 .. n PROVE Part(k) = Turn(g, k)
  <2>1. CASE k = 0 BY <1>3, <2>1
  <2>2. CASE k # 0
    <3>1. k \in 1 .. n /\ k - 1 \in 0 .. n BY <1>2, <2>2
    <3>2. g[k - 1] = Part(k - 1) BY <3>1
    <3>3. QED BY <1>4, <2>2, <3>1, <3>2
  <2>3. QED BY <2>1, <2>2
<1>6. Is(g)
  <2> HIDE DEF Turn
  <2>1. QED BY <1>5, Zenon
<1>7. Is(sp)
  <2> HIDE DEF Is, g
  <2>1. QED BY <1>6 DEF sp
<1>8. \A k \in 0 .. n : sp[k] = Turn(sp, k)
  <2> HIDE DEF sp, Turn
  <2>1. QED BY <1>7
<1> HIDE DEF sp
<1> DEFINE Bad == {k \in 0 .. n : sp[k] # Part(k)}
<1>9. ASSUME Bad # {} PROVE FALSE
  <2>1. Bad \in SUBSET Nat BY <1>2
  <2>2. PICK k \in Bad : \A y \in Bad : k <= y BY <1>9, <2>1, LeastOne
  <2>3. CASE k = 0 BY <1>3, <1>8, <2>2, <2>3
  <2>4. CASE k # 0
    <3>1. k \in 1 .. n /\ k - 1 \in 0 .. n /\ k - 1 \notin Bad BY <1>2, <2>2, <2>4
    <3>2. sp[k - 1] = Part(k - 1) BY <3>1
    <3>3. sp[k] = Part(k) BY <1>4, <1>8, <2>4, <3>1, <3>2
    <3>4. QED BY <2>2, <3>3
  <2>5. QED BY <2>3, <2>4
<1>10. sp[n] = Part(n) BY <1>2, <1>9
<1>11. sp[n].s = SubSeq(text, 1, Room(n)) /\ sp[n].n = n BY <1>10 DEF Part
<1>12. QED BY <1>1, <1>11 DEF text

\* One item is printed as its field.
LEMMA OneField == ASSUME NEW d PROVE vprintf(<<d>>) = Field(d)
<1> DEFINE seqs == [i \in DOMAIN <<d>> |-> Field(<<d>>[i])]
           Turn(f, i) == IF i = 1 THEN seqs[i] ELSE f[i - 1] \o seqs[i]
           flatten == CHOOSE f : f = [i \in 1 .. Len(seqs) |-> Turn(f, i)]
           g == [i \in 1 .. 1 |-> Field(d)]
<1>1. DOMAIN <<d>> = 1 .. 1 /\ <<d>>[1] = d OBVIOUS
<1>2. Len(seqs) = 1 /\ seqs[1] = Field(d) BY <1>1
<1>3. vprintf(<<d>>) = IF Len(seqs) = 0 THEN seqs ELSE flatten[Len(seqs)]
  BY Zenon DEF vprintf, FlattenSeq
<1> HIDE DEF seqs
<1>4. g = [i \in 1 .. Len(seqs) |-> Turn(g, i)] BY <1>2
<1>5. flatten = [i \in 1 .. Len(seqs) |-> Turn(flatten, i)]
  <2> HIDE DEF g, Turn
  <2>1. QED BY <1>4, Zenon
<1>6. flatten[1] = Field(d)
  <2> HIDE DEF flatten
  <2>1. flatten[1] = Turn(flatten, 1) BY <1>2, <1>5
  <2>2. QED BY <1>2, <2>1
<1>7. QED BY <1>2, <1>3, <1>6

-----------------------------------------------------------------------------
(* Numbers and digits. *)

\* Without its last digit a number is smaller.
LEMMA Smaller ==
    ASSUME NEW v \in Nat, NEW base \in Nat, base > 1, v >= base
    PROVE  v \div base \in 1 .. v - 1
<1> DEFINE q == v \div base
           r == v % base
<1>1. q \in Int /\ r \in 0 .. base - 1 /\ v = base * q + r /\ q >= 0 BY DivMod
<1> HIDE DEF q, r
<1>2. q # 0 BY <1>1
<1>3. base * q >= 2 * q BY <1>1, Z3
<1>4. QED BY <1>1, <1>2, <1>3 DEF q

\* The values of the front parts of a numeral with L digits.
Chain(ch, L, v, base) ==
    /\ L \in Nat /\ L > 0 /\ ch \in [1 .. L -> 0 .. Word - 1]
    /\ ch[1] < base /\ ch[L] = v
    /\ \A i \in 2 .. L : ch[i] \div base = ch[i - 1]

\* The last digits of the front parts.
Written(ch, L, base, digits) == [i \in 1 .. L |-> digits[(ch[i] % base) + 1]]

\* One step of fill_numbuf.
NumbufTurn(f, v, base, digits) ==
    IF v < base THEN <<digits[v + 1]>>
    ELSE Append(f[v \div base], digits[(v % base) + 1])

\* Its recursion ends.
LEMMA NumbufIs ==
    ASSUME NEW base \in Nat, base > 1, NEW digits
    PROVE  \E f : /\ \A v \in 0 .. Word - 1 : f[v] = NumbufTurn(f, v, base, digits)
                  /\ \A v : fill_numbuf(v, base, digits) = f[v]
<1> DEFINE W == Word - 1
           Turn(f, v) == IF v < base THEN <<digits[v + 1]>>
                         ELSE Append(f[v \div base], digits[(v % base) + 1])
           Is(f) == f = [v \in 0 .. Word - 1 |-> Turn(f, v)]
           Up(n) == \E f : f = [v \in 0 .. n |-> Turn(f, v)]
           Bad == {n \in 0 .. W : ~ Up(n)}
<1>1. W \in Nat BY BitsAssumption
<1>2. ASSUME Bad # {} PROVE FALSE
  <2>1. Bad \in SUBSET Nat BY <1>1
  <2>2. PICK n \in Bad : \A y \in Bad : n <= y BY <1>2, <2>1, LeastOne
  <2>3. n \in 0 .. W /\ ~ Up(n) BY <2>2
  <2>4. CASE n = 0
    <3> DEFINE g == [v \in 0 .. 0 |-> <<digits[v + 1]>>]
    <3>1. \A v \in 0 .. 0 : v < base OBVIOUS
    <3>2. g = [v \in 0 .. 0 |-> Turn(g, v)] BY <3>1
    <3> HIDE DEF g, Turn
    <3>3. Up(0) BY <3>2
    <3>4. QED BY <2>3, <2>4, <3>3
  <2>5. CASE n # 0
    <3>1. n - 1 \in 0 .. W /\ n - 1 \notin Bad
      <4> HIDE DEF Up, W
      <4>1. QED BY <1>1, <2>2, <2>3, <2>5
    <3>2. Up(n - 1) BY <3>1
    <3>3. PICK f : f = [v \in 0 .. n - 1 |-> Turn(f, v)] BY <3>2
    <3> DEFINE g == [v \in 0 .. n |-> IF v < n THEN f[v] ELSE Turn(f, n)]
    <3>4. ASSUME NEW v \in 0 .. n, ~ (v < base) PROVE v \div base \in 0 .. n - 1
      <4>1. v \in Nat /\ v >= base /\ n \in Nat BY <1>1, <2>3, <3>4
      <4>2. PICK w : w = v \div base OBVIOUS
      <4>3. w \in 1 .. v - 1 BY <4>1, <4>2, Smaller
      <4>4. w \in 0 .. n - 1 BY <4>1, <4>3
      <4>5. QED BY <4>2, <4>4
    <3>5. ASSUME NEW v \in 0 .. n PROVE Turn(f, v) = Turn(g, v)
      <4>1. CASE v < base BY <4>1
      <4>2. CASE ~ (v < base)
        <5>1. v \div base \in 0 .. n - 1 BY <3>4, <4>2
        <5>2. g[v \div base] = f[v \div base]
          <6>1. PICK w \in 0 .. n - 1 : w = v \div base BY <5>1
          <6>2. g[w] = f[w] BY <2>3
          <6>3. QED BY <6>1, <6>2
        <5> HIDE DEF g
        <5>3. QED BY <4>2, <5>2
      <4>3. QED BY <4>1, <4>2
    <3>6. ASSUME NEW v \in 0 .. n PROVE g[v] = Turn(f, v)
      <4> HIDE DEF Turn
      <4>1. CASE v < n
        <5>1. v \in 0 .. n - 1 BY <2>3, <4>1
        <5>2. f[v] = Turn(f, v) BY <3>3, <5>1
        <5>3. QED BY <4>1, <5>2
      <4>2. CASE ~ (v < n)
        <5>1. v = n BY <2>3, <4>2
        <5>2. QED BY <4>2, <5>1
      <4>3. QED BY <4>1, <4>2
    <3>7. g = [v \in 0 .. n |-> Turn(g, v)]
      <4>1. \A v \in 0 .. n : g[v] = Turn(g, v) BY <3>5, <3>6
      <4>2. g = [v \in 0 .. n |-> g[v]] OBVIOUS
      <4> HIDE DEF g, Turn
      <4>3. QED BY <4>1, <4>2
    <3> HIDE DEF g, Turn
    <3>8. QED BY <2>3, <3>7
  <2>6. QED BY <2>4, <2>5
<1>3. Up(W)
  <2> HIDE DEF Up, W
  <2>1. QED BY <1>1, <1>2
<1>4. \E f : Is(f) BY <1>3
<1> DEFINE numbuf == CHOOSE f : Is(f)
<1>5. Is(numbuf)
  <2> HIDE DEF Is
  <2>1. QED BY <1>4
<1>6. \A v : fill_numbuf(v, base, digits) = numbuf[v] BY Zenon DEF fill_numbuf
<1>7. \A v \in 0 .. Word - 1 : numbuf[v] = Turn(numbuf, v)
  <2> HIDE DEF numbuf, Turn
  <2>1. QED BY <1>5
<1> HIDE DEF numbuf
<1>8. \A v \in 0 .. Word - 1 : numbuf[v] = NumbufTurn(numbuf, v, base, digits)
  BY <1>7, Zenon DEF NumbufTurn
<1>9. QED BY <1>6, <1>8

\* A numeral is the last digits of its front parts.
LEMMA Numeral ==
    ASSUME NEW base \in Nat, base > 1, NEW digits, NEW val \in 0 .. Word - 1
    PROVE  \E L, ch : /\ Chain(ch, L, val, base)
                      /\ fill_numbuf(val, base, digits) = Written(ch, L, base, digits)
<1>1. PICK f : /\ \A v \in 0 .. Word - 1 : f[v] = NumbufTurn(f, v, base, digits)
               /\ \A v : fill_numbuf(v, base, digits) = f[v]
  BY NumbufIs
<1> DEFINE W == Word - 1
           Good(v) == \E L, ch : Chain(ch, L, v, base) /\ f[v] = Written(ch, L, base, digits)
           Bad == {v \in 0 .. W : ~ Good(v)}
<1>2. W \in Nat BY BitsAssumption
<1>3. ASSUME Bad # {} PROVE FALSE
  <2>1. Bad \in SUBSET Nat BY <1>2
  <2>2. PICK v \in Bad : \A y \in Bad : v <= y BY <1>3, <2>1, LeastOne
  <2>3. v \in 0 .. W /\ v \in Nat /\ ~ Good(v)
    <3> HIDE DEF Good, W
    <3>1. QED BY <1>2, <2>2
  <2>4. CASE v < base
    <3> DEFINE ch == [i \in 1 .. 1 |-> v]
    <3>1. Chain(ch, 1, v, base) BY <2>3, <2>4 DEF Chain
    <3>2. v % base = v
      <4>1. v = base * 0 + v /\ v \in 0 .. base - 1 BY <2>3, <2>4
      <4>2. QED BY <2>3, <4>1, DivOne
    <3>3. f[v] = <<digits[v + 1]>> BY <1>1, <2>3, <2>4 DEF NumbufTurn
    <3>4. <<digits[v + 1]>> = [i \in 1 .. 1 |-> digits[v + 1]] OBVIOUS
    <3>5. Written(ch, 1, base, digits) = [i \in 1 .. 1 |-> digits[v + 1]]
      <4>1. \A i \in 1 .. 1 : ch[i] = v OBVIOUS
      <4> HIDE DEF ch
      <4>2. QED BY <3>2, <4>1 DEF Written
    <3> HIDE DEF ch
    <3>6. QED BY <2>3, <3>1, <3>3, <3>4, <3>5
  <2>5. CASE ~ (v < base)
    <3>1. PICK w : w = v \div base OBVIOUS
    <3>2. w \in 1 .. v - 1
      <4>1. v \in Nat /\ v >= base BY <2>3, <2>5
      <4>2. QED BY <3>1, <4>1, Smaller
    <3>3. w \in 0 .. W /\ w \notin Bad
      <4> HIDE DEF Good, W
      <4>1. QED BY <1>2, <2>2, <2>3, <3>2
    <3>4. Good(w) BY <3>3
    <3>5. PICK L, ch : Chain(ch, L, w, base) /\ f[w] = Written(ch, L, base, digits) BY <3>4
    <3> DEFINE more == [i \in 1 .. L + 1 |-> IF i <= L THEN ch[i] ELSE v]
    <3>6. L \in Nat /\ L > 0 /\ ch \in [1 .. L -> 0 .. W] /\ ch[1] < base /\ ch[L] = w
          /\ \A i \in 2 .. L : ch[i] \div base = ch[i - 1]
      BY <3>5 DEF Chain
    <3>7. \A i \in 1 .. L : more[i] = ch[i] BY <3>6
    <3>8. more[L + 1] = v BY <3>6
    <3>9. Chain(more, L + 1, v, base)
      <4>1. more \in [1 .. L + 1 -> 0 .. W] BY <2>3, <3>6
      <4> HIDE DEF more
      <4>2. more[1] < base BY <3>6, <3>7
      <4>3. ASSUME NEW i \in 2 .. L + 1 PROVE more[i] \div base = more[i - 1]
        <5>1. i - 1 \in 1 .. L BY <3>6
        <5>2. CASE i <= L
          <6>1. i \in 1 .. L /\ i \in 2 .. L BY <3>6, <5>2
          <6>2. more[i] = ch[i] /\ more[i - 1] = ch[i - 1] BY <3>7, <5>1, <6>1
          <6>3. QED BY <3>6, <6>1, <6>2
        <5>3. CASE ~ (i <= L)
          <6>1. i = L + 1 /\ i - 1 = L BY <3>6, <5>3
          <6>2. more[i] = v /\ more[i - 1] = w BY <3>6, <3>7, <3>8, <5>1, <6>1
          <6>3. QED BY <3>1, <6>2
        <5>4. QED BY <5>2, <5>3
      <4>4. QED BY <3>6, <3>8, <4>1, <4>2, <4>3 DEF Chain
    <3>10. f[v] = Append(f[w], digits[(v % base) + 1]) BY <1>1, <2>3, <2>5, <3>1 DEF NumbufTurn
    <3>11. Append(Written(ch, L, base, digits), digits[(v % base) + 1]) = Written(more, L + 1, base, digits)
      <4>1. PICK x : x = digits[(v % base) + 1] OBVIOUS
      <4>2. Append([i \in 1 .. L |-> digits[(ch[i] % base) + 1]], x)
              = [i \in 1 .. L + 1 |-> IF i <= L THEN digits[(ch[i] % base) + 1] ELSE x]
        BY <3>6
      <4>3. ASSUME NEW i \in 1 .. L + 1
            PROVE  (IF i <= L THEN digits[(ch[i] % base) + 1] ELSE x) = digits[(more[i] % base) + 1]
        <5> HIDE DEF more
        <5>1. CASE i <= L
          <6>1. i \in 1 .. L BY <3>6, <5>1
          <6>2. QED BY <3>7, <5>1, <6>1
        <5>2. CASE ~ (i <= L)
          <6>1. i = L + 1 BY <3>6, <5>2
          <6>2. QED BY <3>8, <4>1, <5>2, <6>1
        <5>3. QED BY <5>1, <5>2
      <4> HIDE DEF more
      <4>4. QED BY <4>1, <4>2, <4>3 DEF Written
    <3> HIDE DEF more
    <3>12. QED BY <2>3, <3>5, <3>9, <3>10, <3>11
  <2>6. QED BY <2>4, <2>5
<1>4. Good(val) BY <1>3
<1>5. QED BY <1>1, <1>4

\* No two digits look alike.
LEMMA Distinct ==
    /\ \A i, j \in 1 .. 16 : lower_digits[i] = lower_digits[j] => i = j
    /\ \A i, j \in 1 .. 16 : upper_digits[i] = upper_digits[j] => i = j
    /\ \A i, j \in 1 .. 16 : lower_digits[i] = upper_digits[j] => i = j
<1>1. \A i, j \in 1 .. 16 : lower_digits[i] = lower_digits[j] => i = j BY DEF lower_digits
<1>2. \A i, j \in 1 .. 16 : upper_digits[i] = upper_digits[j] => i = j BY DEF upper_digits
<1>3. \A i, j \in 1 .. 16 : lower_digits[i] = upper_digits[j] => i = j
  BY DEF lower_digits, upper_digits
<1>4. QED BY <1>1, <1>2, <1>3

\* The digits vprintf has to choose from.
Alphabets == {lower_digits, upper_digits}

\* So a digit has one value.
LEMMA DigitOf ==
    ASSUME NEW base \in 1 .. 16, NEW e \in 0 .. base - 1, NEW digits \in Alphabets
    PROVE  (CHOOSE v \in DigitValues(digits[e + 1], base) : TRUE) = e
<1>1. \A v \in 0 .. base - 1 :
        lower_digits[v + 1] = digits[e + 1] \/ upper_digits[v + 1] = digits[e + 1] <=> v = e
  <2>1. ASSUME NEW v \in 0 .. base - 1
        PROVE  lower_digits[v + 1] = digits[e + 1] \/ upper_digits[v + 1] = digits[e + 1] => v = e
    <3>1. PICK i \in 1 .. 16, j \in 1 .. 16 : i = v + 1 /\ j = e + 1 OBVIOUS
    <3>2. i = j => v = e BY <3>1
    <3>3. CASE digits = lower_digits BY <3>1, <3>2, <3>3, Distinct
    <3>4. CASE digits = upper_digits BY <3>1, <3>2, <3>4, Distinct
    <3>5. QED BY <3>3, <3>4 DEF Alphabets
  <2>2. lower_digits[e + 1] = digits[e + 1] \/ upper_digits[e + 1] = digits[e + 1] BY DEF Alphabets
  <2>3. QED BY <2>1, <2>2
<1>2. DigitValues(digits[e + 1], base) = {e} BY <1>1 DEF DigitValues
<1>3. QED BY <1>2

\* A digit is added as long as the number is one.
LEMMA Fits ==
    ASSUME NEW x \in Nat, NEW e \in Nat, NEW base \in Nat, base > 0, x * base + e <= Word - 1
    PROVE  AddDigit([x |-> x, overflow |-> FALSE], e, base) = [x |-> x * base + e, overflow |-> FALSE]
<1>1. PICK W \in Nat : W = Word - 1 BY BitsAssumption
<1>2. PICK y : y = x * base OBVIOUS
<1>3. y \in Nat /\ y + e <= W BY <1>1, <1>2
<1>4. W - e \in Int BY <1>1
<1>5. PICK q \in Int, r \in 0 .. base - 1 : q = (W - e) \div base /\ W - e = base * q + r
  BY <1>4, DivMod
<1>6. ~ (x > q)
  <2>1. ASSUME x > q PROVE FALSE
    <3>1. x >= q + 1 BY <2>1
    <3>2. x * base >= (q + 1) * base BY <3>1, Z3
    <3>3. (q + 1) * base = base * q + base BY Z3
    <3>4. QED BY <1>1, <1>2, <1>3, <1>5, <3>2, <3>3
  <2>2. QED BY <2>1
<1>7. ~ (x > (Word - 1 - e) \div base) BY <1>1, <1>5, <1>6
<1>8. QED BY <1>7 DEF AddDigit

\* What a numeral with zeros in front of it amounts to.
LEMMA ValueIs ==
    ASSUME NEW base \in 2 .. 16, NEW digits \in Alphabets, NEW val \in 0 .. Word - 1, NEW z \in Nat
    PROVE  Value(Repeat("0", z) \o fill_numbuf(val, base, digits), base)
             = [x |-> val, overflow |-> FALSE]
<1> DEFINE text == Repeat("0", z) \o fill_numbuf(val, base, digits)
           n == Len(text)
<1>1. PICK L, ch : /\ Chain(ch, L, val, base)
                   /\ fill_numbuf(val, base, digits) = Written(ch, L, base, digits)
  <2>1. base \in Nat /\ base > 1 OBVIOUS
  <2>2. QED BY <2>1, Numeral
<1>2. L \in Nat /\ L > 0 /\ ch \in [1 .. L -> 0 .. Word - 1] /\ ch[1] < base /\ ch[L] = val
      /\ \A i \in 2 .. L : ch[i] \div base = ch[i - 1]
  BY <1>1 DEF Chain
<1>3. /\ n = z + L
      /\ \A k \in 1 .. z + L : text[k] = IF k <= z THEN "0" ELSE digits[(ch[k - z] % base) + 1]
  <2>1. PICK num : num = [i \in 1 .. L |-> digits[(ch[i] % base) + 1]] OBVIOUS
  <2>2. text = [i \in 1 .. z |-> "0"] \o num BY <1>1, <2>1 DEF Repeat, Written
  <2>3. Len(num) = L /\ \A i \in 1 .. L : num[i] = digits[(ch[i] % base) + 1] BY <1>2, <2>1
  <2>4. PICK zs : zs = [i \in 1 .. z |-> "0"] OBVIOUS
  <2>5. Len(zs) = z /\ \A i \in 1 .. z : zs[i] = "0" BY <2>4
  <2>6. PICK S : S = {"0"} \cup {num[i] : i \in 1 .. L} OBVIOUS
  <2>7. zs \in Seq(S) BY <2>4, <2>6
  <2>8. num \in Seq(S) BY <1>2, <2>1, <2>6
  <2>9. /\ Len(zs \o num) = z + L
        /\ \A k \in 1 .. z + L : (zs \o num)[k] = IF k <= z THEN zs[k] ELSE num[k - z]
    BY <2>3, <2>5, <2>7, <2>8, ConcatProperties
  <2>10. ASSUME NEW k \in 1 .. z + L
         PROVE  (zs \o num)[k] = IF k <= z THEN "0" ELSE digits[(ch[k - z] % base) + 1]
    <3>1. CASE k <= z BY <2>5, <2>9, <3>1
    <3>2. CASE ~ (k <= z)
      <4>1. k - z \in 1 .. L BY <1>2, <3>2
      <4>2. QED BY <2>3, <2>9, <3>2, <4>1
    <3>3. QED BY <3>1, <3>2
  <2>11. QED BY <2>2, <2>4, <2>9, <2>10
<1> HIDE DEF text
<1>4. n \in Nat BY <1>2, <1>3
<1> DEFINE Part(k) == [x |-> IF k <= z THEN 0 ELSE ch[k - z], overflow |-> FALSE]
           Digit(k) == CHOOSE v \in DigitValues(text[k], base) : TRUE
           Turn(f, k) == IF k = 0 THEN [x |-> 0, overflow |-> FALSE]
                         ELSE AddDigit(f[k - 1], CHOOSE v \in DigitValues(text[k], base) : TRUE, base)
           Is(f) == f = [k \in 0 .. Len(text) |-> Turn(f, k)]
           g == [k \in 0 .. n |-> Part(k)]
           acc == CHOOSE f : Is(f)
<1>5. Value(text, base) = acc[n] BY Zenon DEF Value
<1>6. Part(0) = [x |-> 0, overflow |-> FALSE] OBVIOUS
<1>7. ASSUME NEW k \in 1 .. n PROVE AddDigit(Part(k - 1), Digit(k), base) = Part(k)
  <2> DEFINE x == IF k - 1 <= z THEN 0 ELSE ch[k - 1 - z]
             y == IF k <= z THEN 0 ELSE ch[k - z]
             e == IF k <= z THEN 0 ELSE ch[k - z] % base
  <2>1. e \in 0 .. base - 1 /\ text[k] = digits[e + 1]
    <3>1. CASE k <= z
      <4>1. text[k] = "0" BY <1>3, <3>1
      <4>2. digits[1] = "0" BY DEF Alphabets, lower_digits, upper_digits
      <4>3. QED BY <3>1, <4>1, <4>2
    <3>2. CASE ~ (k <= z)
      <4>1. k - z \in 1 .. L BY <1>2, <1>3, <3>2
      <4>2. ch[k - z] \in Int BY <1>2, <4>1, BitsAssumption
      <4>3. ch[k - z] % base \in 0 .. base - 1 BY <4>2, DivMod
      <4>4. QED BY <1>3, <3>2, <4>3
    <3>3. QED BY <3>1, <3>2
  <2>2. Digit(k) = e
    <3> HIDE DEF e
    <3>1. base \in 1 .. 16 OBVIOUS
    <3>2. (CHOOSE v \in DigitValues(digits[e + 1], base) : TRUE) = e BY <2>1, <3>1, DigitOf
    <3>3. QED BY <2>1, <3>2, Zenon
  <2>3. x \in Nat /\ x * base + e = y /\ y <= Word - 1
    <3>1. CASE k <= z
      <4>1. x = 0 /\ e = 0 /\ y = 0 BY <3>1
      <4> HIDE DEF x, e, y
      <4>2. QED BY <4>1, BitsAssumption
    <3>2. CASE k = z + 1
      <4>1. x = 0 /\ e = ch[1] % base /\ y = ch[1] BY <3>2
      <4>2. ch[1] \in 0 .. Word - 1 BY <1>2
      <4> HIDE DEF x, e, y
      <4>3. PICK c : c = ch[1] OBVIOUS
      <4>4. c \in 0 .. base - 1 /\ c \in 0 .. Word - 1 BY <1>2, <4>2, <4>3, BitsAssumption
      <4>5. c % base = c
        <5>1. c = base * 0 + c BY <4>4
        <5>2. QED BY <4>4, <5>1, DivOne
      <4>6. QED BY <4>1, <4>3, <4>4, <4>5, BitsAssumption
    <3>3. CASE k > z + 1
      <4>1. PICK i \in 2 .. L : i = k - z BY <1>2, <1>3, <3>3
      <4>2. x = ch[i - 1] /\ e = ch[i] % base /\ y = ch[i] BY <3>3, <4>1
      <4>3. PICK c, b : c = ch[i] /\ b = ch[i - 1] OBVIOUS
      <4>4. c \in 0 .. Word - 1 /\ b \in 0 .. Word - 1 /\ c \div base = b BY <1>2, <4>1, <4>3
      <4>5. c \in Int BY <4>4, BitsAssumption
      <4>6. c = base * b + (c % base) /\ c % base \in Int BY <4>4, <4>5, DivMod
      <4>7. base * b = b * base BY <4>4, BitsAssumption
      <4> HIDE DEF x, e, y
      <4>8. QED BY <4>2, <4>3, <4>4, <4>6, <4>7, BitsAssumption
    <3>4. QED BY <3>1, <3>2, <3>3
  <2>4. Part(k - 1) = [x |-> x, overflow |-> FALSE] /\ Part(k) = [x |-> y, overflow |-> FALSE] OBVIOUS
  <2> HIDE DEF x, e, y, Part, Digit
  <2>5. AddDigit([x |-> x, overflow |-> FALSE], e, base) = [x |-> x * base + e, overflow |-> FALSE]
    BY <2>1, <2>3, Fits
  <2>6. QED BY <2>2, <2>3, <2>4, <2>5
<1> HIDE DEF Part
<1>8. ASSUME NEW k \in 0 .. n PROVE Part(k) = Turn(g, k)
  <2>1. CASE k = 0 BY <1>6, <2>1
  <2>2. CASE k # 0
    <3>1. k \in 1 .. n /\ k - 1 \in 0 .. n BY <1>4, <2>2
    <3>2. g[k - 1] = Part(k - 1) BY <3>1
    <3>3. QED BY <1>7, <2>2, <3>1, <3>2
  <2>3. QED BY <2>1, <2>2
<1>9. Is(g)
  <2> HIDE DEF Turn
  <2>1. QED BY <1>8, Zenon
<1>10. Is(acc)
  <2> HIDE DEF Is, g
  <2>1. QED BY <1>9 DEF acc
<1>11. \A k \in 0 .. n : acc[k] = Turn(acc, k)
  <2> HIDE DEF acc, Turn
  <2>1. QED BY <1>10
<1> HIDE DEF acc
<1> DEFINE Bad == {k \in 0 .. n : acc[k] # Part(k)}
<1>12. ASSUME Bad # {} PROVE FALSE
  <2>1. Bad \in SUBSET Nat BY <1>4
  <2>2. PICK k \in Bad : \A y \in Bad : k <= y BY <1>12, <2>1, LeastOne
  <2>3. CASE k = 0 BY <1>6, <1>11, <2>2, <2>3
  <2>4. CASE k # 0
    <3>1. k \in 1 .. n /\ k - 1 \in 0 .. n /\ k - 1 \notin Bad BY <1>4, <2>2, <2>4
    <3>2. acc[k - 1] = Part(k - 1) BY <3>1
    <3>3. acc[k] = Part(k) BY <1>7, <1>11, <2>4, <3>1, <3>2
    <3>4. QED BY <2>2, <3>3
  <2>5. QED BY <2>3, <2>4
<1>13. acc[n] = Part(n) BY <1>4, <1>12
<1>14. Part(n) = [x |-> val, overflow |-> FALSE]
  <2>1. ~ (n <= z) /\ n - z = L BY <1>2, <1>3
  <2>2. QED BY <1>2, <2>1 DEF Part
<1>15. QED BY <1>5, <1>13, <1>14 DEF text

-----------------------------------------------------------------------------
(* The characters of a field. *)

\* What signs and digits are not.
LEMMA Spaces ==
    /\ SPACE \notin {"0", "1", "2", "3", "4", "5", "6", "7", "8", "9", "a", "b", "c", "d", "e", "f",
                     "A", "B", "C", "D", "E", "F"}
    /\ SPACE \notin {"-", "+", "x", "X", "nul"}
  BY Zenon DEF SPACE

\* The digits of a base are digits; none is a space, a sign or the end.
LEMMA FiguresAre ==
    ASSUME NEW base \in 1 .. 16, NEW c \in Figures(base)
    PROVE  /\ c \in Figures(16) /\ c \notin isspace
           /\ c # "-" /\ c # "+" /\ c # "x" /\ c # "X" /\ c # NUL
<1>1. PICK i \in 1 .. 16 : c = lower_digits[i] \/ c = upper_digits[i] BY DEF Figures
<1>2. c \in Figures(16) BY <1>1 DEF Figures
<1>3. c \in {"0", "1", "2", "3", "4", "5", "6", "7", "8", "9", "a", "b", "c", "d", "e", "f",
             "A", "B", "C", "D", "E", "F"}
  BY <1>1 DEF lower_digits, upper_digits
<1>4. c # "-" /\ c # "+" /\ c # "x" /\ c # "X" /\ c # "nl" /\ c # "nul" BY <1>3
<1>5. c # SPACE BY <1>3, Spaces
<1>6. QED BY <1>2, <1>4, <1>5 DEF isspace, NUL

\* What a number's digits are.
Base(d)     == IF d.conv \in {"d", "u"} THEN 10 ELSE 16
Alphabet(d) == IF d.conv \in {"x", "p"} THEN lower_digits ELSE upper_digits

\* A numeral's digits.
LEMMA NumeralIs ==
    ASSUME NEW base \in 2 .. 16, NEW digits \in Alphabets, NEW val \in 0 .. Word - 1
    PROVE  /\ fill_numbuf(val, base, digits) \in Seq(Figures(base))
           /\ Len(fill_numbuf(val, base, digits)) > 0
<1>1. PICK L, ch : /\ Chain(ch, L, val, base)
                   /\ fill_numbuf(val, base, digits) = Written(ch, L, base, digits)
  <2>1. base \in Nat /\ base > 1 OBVIOUS
  <2>2. QED BY <2>1, Numeral
<1>2. L \in Nat /\ L > 0 /\ ch \in [1 .. L -> 0 .. Word - 1] BY <1>1 DEF Chain
<1>3. ASSUME NEW i \in 1 .. L PROVE digits[(ch[i] % base) + 1] \in Figures(base)
  <2>1. ch[i] \in Int BY <1>2, BitsAssumption
  <2>2. PICK e : e = ch[i] % base OBVIOUS
  <2>3. e \in 0 .. base - 1 BY <2>1, <2>2, DivMod
  <2>4. PICK j \in 1 .. base : j = e + 1 BY <2>3
  <2>5. digits[j] \in Figures(base) BY DEF Figures, Alphabets
  <2>6. QED BY <2>2, <2>4, <2>5
<1>4. QED BY <1>1, <1>2, <1>3 DEF Written

\* What a number is printed as.
LEMMA NumberIs ==
    ASSUME NEW d, IsItem(d), IsNumeral(d)
    PROVE  /\ Num(d) \in 0 .. Word - 1
           /\ Negative(d) => Num(d) = - d.arg /\ d.arg \in - MaxLong - 1 .. -1
           /\ ~ Negative(d) => Num(d) = d.arg
           /\ Base(d) \in {10, 16} /\ Alphabet(d) \in Alphabets
           /\ Data(d) = fill_numbuf(Num(d), Base(d), Alphabet(d))
           /\ Data(d) \in Seq(Figures(Base(d))) /\ Len(Data(d)) > 0
           /\ Datalen(d) = Len(Data(d))
<1>1. d.conv \in Numerals BY DEF IsNumeral
<1>2. /\ Num(d) \in 0 .. Word - 1
      /\ Negative(d) => Num(d) = - d.arg /\ d.arg \in - MaxLong - 1 .. -1
      /\ ~ Negative(d) => Num(d) = d.arg
  <2>1. CASE Negative(d)
    <3>1. d.conv = "d" /\ d.arg < 0 BY <2>1 DEF Negative
    <3>2. PICK m : m = - d.arg OBVIOUS
    <3>3. m \in 1 .. MaxLong + 1 /\ d.arg \in - MaxLong - 1 .. -1 /\ m \in 0 .. Word - 1
          /\ Word \in Nat /\ Word > 0
      BY <3>1, <3>2, BitsAssumption DEF IsItem
    <3>4. m % Word = m
      <4>1. m = Word * 0 + m BY <3>3
      <4>2. QED BY <3>3, <4>1, DivOne
    <3>5. Num(d) = m BY <2>1, <3>2, <3>4 DEF Num
    <3>6. QED BY <2>1, <3>2, <3>3, <3>5
  <2>2. CASE ~ Negative(d)
    <3>1. Num(d) = d.arg BY <2>2 DEF Num
    <3>2. CASE d.conv = "d"
      <4>1. d.arg \in - MaxLong - 1 .. MaxLong BY <3>2 DEF IsItem
      <4>2. d.arg \in 0 .. Word - 1 BY <2>2, <3>2, <4>1, BitsAssumption DEF Negative
      <4>3. QED BY <2>2, <3>1, <4>2
    <3>3. CASE d.conv # "d"
      <4>1. d.arg \in 0 .. Word - 1 BY <1>1, <3>3 DEF IsItem
      <4>2. QED BY <2>2, <3>1, <4>1
    <3>4. QED BY <3>2, <3>3
  <2>3. QED BY <2>1, <2>2
<1>3. Base(d) \in {10, 16} /\ Alphabet(d) \in Alphabets BY DEF Base, Alphabet, Alphabets
<1>4. Data(d) = fill_numbuf(Num(d), Base(d), Alphabet(d))
  <2>1. CASE d.conv \in {"d", "u"}
    <3>1. Base(d) = 10 /\ Alphabet(d) = upper_digits BY <2>1 DEF Base, Alphabet
    <3>2. Data(d) = fill_numbuf(Num(d), 10, upper_digits) BY <2>1 DEF Data
    <3>3. QED BY <3>1, <3>2
  <2>2. CASE d.conv \in {"x", "p"}
    <3>1. Base(d) = 16 /\ Alphabet(d) = lower_digits BY <2>2 DEF Base, Alphabet
    <3>2. Data(d) = fill_numbuf(Num(d), 16, lower_digits) BY <2>2 DEF Data
    <3>3. QED BY <3>1, <3>2
  <2>3. CASE d.conv = "X"
    <3>1. Base(d) = 16 /\ Alphabet(d) = upper_digits BY <2>3 DEF Base, Alphabet
    <3>2. Data(d) = fill_numbuf(Num(d), 16, upper_digits) BY <2>3 DEF Data
    <3>3. QED BY <3>1, <3>2
  <2>4. QED BY <1>1, <2>1, <2>2, <2>3 DEF Numerals
<1>5. Data(d) \in Seq(Figures(Base(d))) /\ Len(Data(d)) > 0
  <2>1. Base(d) \in 2 .. 16 BY <1>3
  <2>2. QED BY <1>2, <1>3, <1>4, <2>1, NumeralIs
<1>6. Datalen(d) = Len(Data(d)) BY DEF Datalen
<1>7. QED BY <1>2, <1>3, <1>4, <1>5, <1>6

\* The characters a field may have.
Letters == (STRING \ {NUL}) \cup Figures(16) \cup {SPACE, "-", "+", "x", "X"}

\* None of them is NUL.
LEMMA LettersAre ==
    /\ NUL \notin Letters /\ SPACE \in Letters /\ "-" \in Letters /\ "+" \in Letters
    /\ "x" \in Letters /\ "X" \in Letters /\ "0" \in Figures(8)
    /\ \A base \in 1 .. 16 : Figures(base) \subseteq Letters
    /\ \A S : S \subseteq Letters => Seq(S) \subseteq Seq(Letters)
<1>1. NUL \notin Letters
  <2>1. NUL \notin Figures(16) BY FiguresAre
  <2>2. NUL # SPACE /\ NUL # "-" /\ NUL # "+" /\ NUL # "x" /\ NUL # "X" BY Spaces DEF NUL
  <2>3. QED BY <2>1, <2>2 DEF Letters
<1>2. SPACE \in Letters /\ "-" \in Letters /\ "+" \in Letters /\ "x" \in Letters /\ "X" \in Letters
  BY DEF Letters
<1>3. "0" \in Figures(8)
  <2>1. lower_digits[1] = "0" BY DEF lower_digits
  <2>2. QED BY <2>1 DEF Figures
<1>4. \A base \in 1 .. 16 : Figures(base) \subseteq Letters BY FiguresAre DEF Letters
<1>5. \A S : S \subseteq Letters => Seq(S) \subseteq Seq(Letters) OBVIOUS
<1>6. QED BY <1>1, <1>2, <1>3, <1>4, <1>5

\* What is in front of a number.
LEMMA PrefixIs ==
    ASSUME NEW d
    PROVE  /\ Prefix(d) \in {<<>>, <<"-">>, <<"+">>, <<SPACE>>, <<"0", "x">>, <<"0", "X">>}
           /\ d.conv = "d" => /\ Negative(d) <=> Prefix(d) = <<"-">>
                              /\ Prefix(d) \in {<<>>, <<"-">>, <<"+">>, <<SPACE>>}
           /\ d.conv = "u" => Prefix(d) = <<>>
           /\ d.conv \in {"x", "X", "p"} => Prefix(d) \in {<<>>, <<"0", "x">>, <<"0", "X">>}
           /\ d.conv \in {"x", "X", "p"} /\ (d.conv = "p" \/ "#" \in d.flags) /\ Num(d) # 0
                => Prefix(d) \in {<<"0", "x">>, <<"0", "X">>}
<1>1. CASE d.conv = "d"
  <2>1. CASE Negative(d)
    <3>1. Prefix(d) = <<"-">> BY <1>1, <2>1 DEF Prefix
    <3>2. QED BY <1>1, <2>1, <3>1
  <2>2. CASE ~ Negative(d)
    <3>1. Prefix(d) \in {<<>>, <<"+">>, <<SPACE>>} BY <1>1, <2>2 DEF Prefix
    <3>2. <<"+">> # <<"-">> /\ <<>> # <<"-">> OBVIOUS
    <3>3. <<SPACE>> # <<"-">>
      <4>1. <<SPACE>>[1] = SPACE /\ <<"-">>[1] = "-" OBVIOUS
      <4>2. QED BY <4>1, Spaces
    <3>4. QED BY <1>1, <2>2, <3>1, <3>2, <3>3
  <2>3. QED BY <2>1, <2>2
<1>2. CASE d.conv = "p"
  <2>1. Prefix(d) = <<"0", "x">> BY <1>2 DEF Prefix
  <2>2. QED BY <1>2, <2>1
<1>3. CASE d.conv = "x"
  <2>1. CASE "#" \in d.flags /\ Num(d) # 0
    <3>1. Prefix(d) = <<"0", "x">> BY <1>3, <2>1 DEF Prefix
    <3>2. QED BY <1>3, <3>1
  <2>2. CASE ~ ("#" \in d.flags /\ Num(d) # 0)
    <3>1. Prefix(d) = <<>> BY <1>3, <2>2 DEF Prefix
    <3>2. QED BY <1>3, <2>2, <3>1
  <2>3. QED BY <2>1, <2>2
<1>4. CASE d.conv = "X"
  <2>1. CASE "#" \in d.flags /\ Num(d) # 0
    <3>1. Prefix(d) = <<"0", "X">> BY <1>4, <2>1 DEF Prefix
    <3>2. QED BY <1>4, <3>1
  <2>2. CASE ~ ("#" \in d.flags /\ Num(d) # 0)
    <3>1. Prefix(d) = <<>> BY <1>4, <2>2 DEF Prefix
    <3>2. QED BY <1>4, <2>2, <3>1
  <2>3. QED BY <2>1, <2>2
<1>5. CASE d.conv \notin {"d", "p", "x", "X"}
  <2>1. Prefix(d) = <<>> BY <1>5 DEF Prefix
  <2>2. QED BY <1>5, <2>1
<1>6. QED BY <1>1, <1>2, <1>3, <1>4, <1>5

\* A character many times.
LEMMA RepeatIs ==
    ASSUME NEW c, NEW n \in Nat
    PROVE  /\ Repeat(c, n) \in Seq({c}) /\ Len(Repeat(c, n)) = n
           /\ \A i \in 1 .. n : Repeat(c, n)[i] = c
  BY DEF Repeat

\* What is printed of the argument.
LEMMA DataIs ==
    ASSUME NEW d, IsItem(d)
    PROVE  Data(d) \in Seq(Letters) /\ Datalen(d) \in 0 .. Len(Data(d))
<1>1. CASE IsNumeral(d)
  <2>1. Base(d) \in 1 .. 16 /\ Data(d) \in Seq(Figures(Base(d))) /\ Datalen(d) = Len(Data(d))
    BY <1>1, NumberIs
  <2>2. Seq(Figures(Base(d))) \subseteq Seq(Letters)
    <3>1. PICK S : S = Figures(Base(d)) OBVIOUS
    <3>2. S \subseteq Letters BY <2>1, <3>1, LettersAre
    <3>3. QED BY <3>1, <3>2, LettersAre
  <2>3. Data(d) \in Seq(Letters) BY <2>1, <2>2
  <2>4. Len(Data(d)) \in Nat BY <2>3, LenProperties
  <2>5. QED BY <2>1, <2>3, <2>4
<1>2. CASE ~ IsNumeral(d)
  <2>1. d.conv \notin Numerals BY <1>2 DEF IsNumeral
  <2>2. Data(d) = d.arg BY <2>1 DEF Data, Numerals
  <2>3. d.arg \in Seq(STRING \ {NUL}) BY <2>1 DEF IsItem
  <2>4. PICK S : S = STRING \ {NUL} OBVIOUS
  <2>5. S \subseteq Letters BY <2>4 DEF Letters
  <2>6. Seq(S) \subseteq Seq(Letters) BY <2>5, LettersAre
  <2>7. d.arg \in Seq(Letters) BY <2>3, <2>4, <2>6
  <2>8. PICK n \in Nat : n = Len(d.arg) BY <2>7, LenProperties
  <2>9. Datalen(d) \in 0 .. n
    <3>1. PICK k \in Int : k = d.precision BY DEF IsItem
    <3>2. CASE k >= 0
      <4>1. Datalen(d) = strnlen(d.arg, k) BY <1>2, <3>1, <3>2 DEF Datalen
      <4>2. QED BY <2>8, <3>2, <4>1 DEF strnlen
    <3>3. CASE ~ (k >= 0)
      <4>1. Datalen(d) = n BY <2>2, <2>8, <3>1, <3>3 DEF Datalen
      <4>2. QED BY <4>1
    <3>4. QED BY <3>2, <3>3
  <2>10. QED BY <2>2, <2>7, <2>8, <2>9
<1>3. QED BY <1>1, <1>2

\* The parts of a field, and that they fill it.
LEMMA FieldIs ==
    ASSUME NEW d, IsItem(d)
    PROVE  \E a \in Nat, b \in Nat :
             /\ Zeros(d) \in Nat
             /\ Field(d) = Repeat(SPACE, a) \o Prefix(d) \o Repeat("0", Zeros(d))
                             \o SubSeq(Data(d), 1, Datalen(d)) \o Repeat(SPACE, b)
             /\ Len(Prefix(d)) \in Nat
             /\ a + Len(Prefix(d)) + Zeros(d) + Datalen(d) + b >= d.width
<1> DEFINE p == Len(Prefix(d))
<1>1. p \in Nat
  <2>1. Len(<<>>) = 0 /\ Len(<<"-">>) = 1 /\ Len(<<"+">>) = 1 /\ Len(<<SPACE>>) = 1
        /\ Len(<<"0", "x">>) = 2 /\ Len(<<"0", "X">>) = 2
    OBVIOUS
  <2>2. QED BY <2>1, PrefixIs
<1>2. PICK n \in Nat : n = Datalen(d)
  <2>1. Len(Data(d)) \in Nat BY DataIs, LenProperties
  <2>2. QED BY <2>1, DataIs
<1>3. d.width \in Int /\ d.precision \in Int BY DEF IsItem
<1>4. \A x \in Int : AtLeastZero(x) \in Nat /\ AtLeastZero(x) >= x BY DEF AtLeastZero
<1> HIDE DEF p
<1>5. Zeros(d) \in Nat
  <2>1. d.precision - n \in Int /\ d.width - n - p \in Int BY <1>1, <1>2, <1>3
  <2>2. AtLeastZero(d.precision - n) \in Nat /\ AtLeastZero(d.width - n - p) \in Nat BY <1>4, <2>1
  <2>3. Zeros(d) \in {0, AtLeastZero(d.precision - n), AtLeastZero(d.width - n - p)}
    BY <1>2 DEF Zeros, p
  <2>4. QED BY <2>2, <2>3
<1>6. PICK z \in Nat : z = Zeros(d) BY <1>5
<1>7. PICK y : y = Padding(d) OBVIOUS
<1>8. y \in Nat /\ y >= d.width - n - z - p
  <2>1. d.width - n - z - p \in Int BY <1>1, <1>2, <1>3, <1>6
  <2>2. y = AtLeastZero(d.width - n - z - p) BY <1>2, <1>6, <1>7 DEF Padding, p
  <2>3. QED BY <1>4, <2>1, <2>2
<1>9. PICK a \in Nat, b \in Nat :
        /\ a = IF "-" \in d.flags THEN 0 ELSE y
        /\ b = IF "-" \in d.flags THEN y ELSE 0
  BY <1>8
<1>10. Field(d) = Repeat(SPACE, a) \o Prefix(d) \o Repeat("0", Zeros(d))
                    \o SubSeq(Data(d), 1, Datalen(d)) \o Repeat(SPACE, b)
  BY <1>7, <1>9, Zenon DEF Field
<1>11. a + b = y BY <1>8, <1>9
<1>12. a + p + z + n + b >= d.width BY <1>1, <1>3, <1>8, <1>11
<1>13. QED BY <1>1, <1>2, <1>5, <1>6, <1>10, <1>12 DEF p

\* A field has no NUL in it, and is as wide as it should be.
LEMMA FieldFills ==
    ASSUME NEW d, IsItem(d)
    PROVE  Field(d) \in Seq(Letters) /\ Len(Field(d)) \in Nat /\ Len(Field(d)) >= d.width
<1>1. PICK a \in Nat, b \in Nat :
        /\ Zeros(d) \in Nat
        /\ Field(d) = Repeat(SPACE, a) \o Prefix(d) \o Repeat("0", Zeros(d))
                        \o SubSeq(Data(d), 1, Datalen(d)) \o Repeat(SPACE, b)
        /\ Len(Prefix(d)) \in Nat
        /\ a + Len(Prefix(d)) + Zeros(d) + Datalen(d) + b >= d.width
  BY FieldIs
<1>2. "0" \in Letters BY LettersAre
<1>3. PICK s1 : s1 = Repeat(SPACE, a) OBVIOUS
<1>4. PICK s2 : s2 = Prefix(d) OBVIOUS
<1>5. PICK s3 : s3 = Repeat("0", Zeros(d)) OBVIOUS
<1>6. PICK s4 : s4 = SubSeq(Data(d), 1, Datalen(d)) OBVIOUS
<1>7. PICK s5 : s5 = Repeat(SPACE, b) OBVIOUS
<1>8. s1 \in Seq(Letters) /\ Len(s1) = a /\ s5 \in Seq(Letters) /\ Len(s5) = b
  <2>1. SPACE \in Letters BY LettersAre
  <2>2. {SPACE} \subseteq Letters BY <2>1
  <2>3. QED BY <1>3, <1>7, <2>2, RepeatIs, LettersAre
<1>9. s3 \in Seq(Letters) /\ Len(s3) = Zeros(d)
  <2>1. {"0"} \subseteq Letters BY <1>2
  <2>2. QED BY <1>1, <1>5, <2>1, RepeatIs, LettersAre
<1>10. s2 \in Seq(Letters)
  <2>1. SPACE \in Letters /\ "-" \in Letters /\ "+" \in Letters /\ "x" \in Letters /\ "X" \in Letters
    BY LettersAre
  <2>2. <<>> \in Seq(Letters) /\ <<"-">> \in Seq(Letters) /\ <<"+">> \in Seq(Letters)
        /\ <<SPACE>> \in Seq(Letters) /\ <<"0", "x">> \in Seq(Letters) /\ <<"0", "X">> \in Seq(Letters)
    BY <1>2, <2>1
  <2>3. QED BY <1>4, <2>2, PrefixIs
<1>11. PICK n \in Nat : n = Datalen(d)
  <2>1. Len(Data(d)) \in Nat BY DataIs, LenProperties
  <2>2. QED BY <2>1, DataIs
<1>12. s4 \in Seq(Letters) /\ Len(s4) = n
  <2>1. Data(d) \in Seq(Letters) /\ n \in 0 .. Len(Data(d)) BY <1>11, DataIs
  <2>2. \A i \in 1 .. n : Data(d)[i] \in Letters
    <3>1. Len(Data(d)) \in Nat BY <2>1, LenProperties
    <3>2. \A i \in 1 .. n : i \in 1 .. Len(Data(d)) BY <2>1, <3>1
    <3>3. QED BY <2>1, <3>2, ElementOfSeq
  <2>3. s4 = SubSeq(Data(d), 1, n) BY <1>6, <1>11
  <2>4. QED BY <2>2, <2>3, SubSeqProperties
<1>13. Field(d) = (((s1 \o s2) \o s3) \o s4) \o s5 BY <1>1, <1>3, <1>4, <1>5, <1>6, <1>7
<1>14. PICK u : u = s1 \o s2 OBVIOUS
<1>15. u \in Seq(Letters) /\ Len(u) = a + Len(s2)
  <2>1. s1 \o s2 \in Seq(Letters) /\ Len(s1 \o s2) = Len(s1) + Len(s2) BY <1>8, <1>10, ConcatProperties
  <2>2. QED BY <1>8, <1>14, <2>1
<1>16. PICK v : v = u \o s3 OBVIOUS
<1>17. v \in Seq(Letters) /\ Len(v) = a + Len(s2) + Zeros(d)
  <2>1. u \o s3 \in Seq(Letters) /\ Len(u \o s3) = Len(u) + Len(s3) BY <1>9, <1>15, ConcatProperties
  <2>2. QED BY <1>9, <1>15, <1>16, <2>1
<1>18. PICK w : w = v \o s4 OBVIOUS
<1>19. w \in Seq(Letters) /\ Len(w) = a + Len(s2) + Zeros(d) + n
  <2>1. v \o s4 \in Seq(Letters) /\ Len(v \o s4) = Len(v) + Len(s4) BY <1>12, <1>17, ConcatProperties
  <2>2. QED BY <1>12, <1>17, <1>18, <2>1
<1>20. w \o s5 \in Seq(Letters) /\ Len(w \o s5) = a + Len(s2) + Zeros(d) + n + b
  <2>1. w \o s5 \in Seq(Letters) /\ Len(w \o s5) = Len(w) + Len(s5) BY <1>8, <1>19, ConcatProperties
  <2>2. QED BY <1>8, <1>19, <2>1
<1>21. Field(d) = w \o s5 BY <1>13, <1>14, <1>16, <1>18
<1>22. Len(Field(d)) \in Nat BY <1>20, <1>21, LenProperties
<1>23. QED BY <1>1, <1>4, <1>11, <1>20, <1>21, <1>22

\* A buffer with NUL at its end only.
LEMMA TextIs ==
    ASSUME NEW V, NUL \notin V, NEW s, NEW k \in Nat, s \in Seq(V \cup {NUL}), Len(s) = k + 1,
           s[k + 1] = NUL, \A i \in 1 .. k : s[i] \in V
    PROVE  Text(s) = SubSeq(s, 1, k) /\ Len(Text(s)) = k /\ Last(s) = NUL
<1>1. DOMAIN s = 1 .. k + 1 BY LenProperties
<1>2. {i \in DOMAIN s : s[i] = NUL} = {k + 1}
  <2>1. ASSUME NEW i \in 1 .. k + 1 PROVE s[i] = NUL <=> i = k + 1
    <3>1. CASE i = k + 1 BY <3>1
    <3>2. CASE i # k + 1
      <4>1. i \in 1 .. k BY <3>2
      <4>2. QED BY <3>2, <4>1
    <3>3. QED BY <3>1, <3>2
  <2>2. QED BY <1>1, <2>1
<1>3. (CHOOSE i \in {k + 1} : \A j \in {k + 1} : i <= j) = k + 1 OBVIOUS
<1>4. k + 1 - 1 = k OBVIOUS
<1>5. Text(s) = SubSeq(s, 1, k)
  <2>1. PICK ends : ends = {i \in DOMAIN s : s[i] = NUL} OBVIOUS
  <2>2. ends # {} BY <1>2, <2>1
  <2>3. Text(s) = SubSeq(s, 1, (CHOOSE i \in ends : \A j \in ends : i <= j) - 1)
    BY <2>1, <2>2, Zenon DEF Text
  <2>4. QED BY <1>2, <1>3, <1>4, <2>1, <2>3
<1>6. Len(SubSeq(s, 1, k)) = k BY SubSeqProperties
<1>7. Last(s) = NUL BY DEF Last
<1>8. QED BY <1>5, <1>6, <1>7

\* What snprintf writes and returns.
LEMMA Printed ==
    ASSUME NEW d, IsItem(d), NEW size \in Nat
    PROVE  LET o == vsnprintf(size, <<d>>)
           IN  /\ o.n = Len(Field(d)) /\ Len(o.s) <= size
               /\ size > 0 => Last(o.s) = NUL /\ Len(Text(o.s)) = Len(o.s) - 1
               /\ o.n < size => o.s = Append(Field(d), NUL) /\ Text(o.s) = Field(d)
<1> DEFINE o == vsnprintf(size, <<d>>)
           V == Letters
<1>1. PICK F : F = Field(d) OBVIOUS
<1>2. F \in Seq(V) /\ Len(F) \in Nat BY <1>1, FieldFills
<1>3. NUL \notin V BY LettersAre
<1> HIDE DEF V
<1>4. PICK n \in Nat : n = Len(F) BY <1>2
<1>5. PICK m \in 0 .. n : m = IF n < size THEN n ELSE size BY <1>4
<1>6. PICK t : t = SubSeq(F, 1, m) OBVIOUS
<1>7. vsnprintf(size, <<d>>) = [s |-> Terminated(t, size), n |-> n]
  <2>1. vprintf(<<d>>) = F BY <1>1, OneField
  <2>2. vprintf(<<d>>) \in Seq(V) BY <1>2, <2>1
  <2>3. vsnprintf(size, <<d>>)
          = [s |-> Terminated(SubSeq(vprintf(<<d>>), 1,
                                     IF Len(vprintf(<<d>>)) < size THEN Len(vprintf(<<d>>)) ELSE size), size),
             n |-> Len(vprintf(<<d>>))]
    BY <2>2, VsnprintfIs
  <2>4. QED BY <1>4, <1>5, <1>6, <2>1, <2>3
<1>8. o.s = Terminated(t, size) /\ o.n = n BY <1>7
<1> HIDE DEF o
<1>9. /\ t \in Seq(V) /\ Len(t) = m
      /\ \A i \in 1 .. m : t[i] \in V /\ t[i] = F[i]
  <2>1. \A i \in 1 .. m : F[i] \in V BY <1>2, <1>4, ElementOfSeq
  <2>2. t \in Seq(V) /\ Len(t) = m /\ \A i \in 1 .. m : t[i] = F[i] BY <1>6, <2>1, SubSeqProperties
  <2>3. QED BY <2>1, <2>2
<1>10. CASE size = 0
  <2>1. o.s = t /\ m = 0 BY <1>4, <1>5, <1>8, <1>10 DEF Terminated
  <2>2. QED BY <1>1, <1>4, <1>8, <1>9, <1>10, <2>1 DEF o
<1>11. CASE size > 0 /\ n < size
  <2>1. m = n /\ o.s = Append(t, NUL) BY <1>4, <1>5, <1>8, <1>9, <1>11 DEF Terminated
  <2>2. PICK W : W = V \cup {NUL} OBVIOUS
  <2>3. t \in Seq(W) /\ NUL \in W BY <1>9, <2>2
  <2>4. PICK s : s = Append(t, NUL) OBVIOUS
  <2>5. s \in Seq(W) /\ Len(s) = m + 1 /\ s[m + 1] = NUL /\ \A i \in 1 .. m : s[i] = t[i]
    BY <1>9, <2>3, <2>4, AppendProperties
  <2>6. Text(s) = SubSeq(s, 1, m) /\ Len(Text(s)) = m /\ Last(s) = NUL
    <3>1. m \in Nat /\ s \in Seq(V \cup {NUL}) BY <2>2, <2>5
    <3>2. \A i \in 1 .. m : s[i] \in V BY <1>9, <2>5
    <3>3. QED BY <1>3, <2>5, <3>1, <3>2, TextIs
  <2>7. t = F BY <1>2, <1>4, <1>6, <2>1, SubSeqFull
  <2>8. SubSeq(s, 1, m) = F
    <3>1. \A i \in 1 .. m : s[i] \in V BY <1>9, <2>5
    <3>2. SubSeq(s, 1, m) \in Seq(V) /\ Len(SubSeq(s, 1, m)) = m
          /\ \A i \in 1 .. m : SubSeq(s, 1, m)[i] = s[i]
      BY <3>1, SubSeqProperties
    <3>3. PICK r : r = SubSeq(s, 1, m) OBVIOUS
    <3>4. r \in Seq(V) /\ Len(r) = Len(F) /\ \A i \in 1 .. Len(r) : r[i] = F[i]
      BY <1>4, <1>9, <2>1, <2>5, <3>2, <3>3
    <3>5. QED BY <1>2, <3>3, <3>4, SeqEqual
  <2>9. o.s = s /\ Len(s) <= size /\ Len(s) - 1 = m BY <1>11, <2>1, <2>4, <2>5
  <2>10. QED BY <1>1, <1>4, <1>8, <1>11, <2>4, <2>6, <2>7, <2>8, <2>9 DEF o
<1>12. CASE size > 0 /\ ~ (n < size)
  <2>1. m = size /\ o.s = [t EXCEPT ![size] = NUL] BY <1>4, <1>5, <1>8, <1>9, <1>12 DEF Terminated
  <2>2. PICK W : W = V \cup {NUL} OBVIOUS
  <2>3. t \in Seq(W) /\ NUL \in W /\ size \in 1 .. Len(t) BY <1>9, <1>12, <2>1, <2>2
  <2>4. PICK s : s = [t EXCEPT ![size] = NUL] OBVIOUS
  <2>5. s \in Seq(W) /\ Len(s) = size /\ s[size] = NUL /\ \A i \in 1 .. size : i # size => s[i] = t[i]
    <3>1. DOMAIN t = 1 .. Len(t) BY <2>3, LenProperties
    <3>2. s \in Seq(W) /\ Len(s) = Len(t) BY <2>3, <2>4, ExceptSeq
    <3>3. QED BY <1>9, <2>1, <2>3, <2>4, <3>1, <3>2
  <2>6. PICK k \in Nat : size = k + 1
    <3>1. size - 1 \in Nat /\ size = (size - 1) + 1 BY <1>12
    <3>2. QED BY <3>1
  <2>7. \A i \in 1 .. k : s[i] \in V BY <1>9, <2>1, <2>5, <2>6
  <2>8. Text(s) = SubSeq(s, 1, k) /\ Len(Text(s)) = k /\ Last(s) = NUL
    BY <1>3, <2>2, <2>5, <2>6, <2>7, TextIs
  <2>9. o.s = s /\ Len(s) <= size /\ Len(s) - 1 = k BY <2>1, <2>4, <2>5, <2>6
  <2>10. QED BY <1>1, <1>4, <1>8, <1>12, <2>8, <2>9 DEF o
<1>13. QED BY <1>4, <1>10, <1>11, <1>12

\* What panic of a process makes of its buffer.
LEMMA Panicked ==
    ASSUME NEW d, IsItem(d), Len(Field(d)) + 1 < PanicSize
    PROVE  LET s == PanicBuffer(<<d>>)
           IN  /\ Len(s) <= PanicSize /\ Last(s) = NUL /\ Len(Text(s)) = Len(s) - 1
               /\ s[Len(s) - 1] = "nl" /\ Head(s) = PANIC /\ MessageIn(s, Field(d))
<1>1. PanicSize \in Nat /\ PanicSize > 2 BY ConsoleAssumption
<1>2. PICK size \in Nat : size = PanicSize - 1 BY <1>1
<1>3. PICK o : o = vsnprintf(PanicSize - 1, <<d>>) OBVIOUS
<1>4. PICK F : F = Field(d) OBVIOUS
<1>5. F \in Seq(Letters) /\ Len(F) \in Nat BY <1>4, FieldFills
<1>6. PICK n \in Nat : n = Len(F) BY <1>5
<1>7. n < size BY <1>1, <1>2, <1>4, <1>6
<1>8. o.n = n /\ o.s = Append(F, NUL)
  <2>1. o = vsnprintf(size, <<d>>) BY <1>2, <1>3
  <2>2. QED BY <1>4, <1>6, <1>7, <2>1, Printed
<1>9. PICK V : V = Letters \cup {PANIC, "nl"} OBVIOUS
<1>10. NUL \notin V /\ PANIC \in V /\ "nl" \in V /\ F \in Seq(V)
  <2>1. NUL # PANIC /\ NUL # "nl" BY DEF NUL, PANIC
  <2>2. NUL \notin Letters BY LettersAre
  <2>3. QED BY <1>5, <1>9, <2>1, <2>2
<1>11. PICK W : W = V \cup {NUL} OBVIOUS
<1>12. NUL \in W /\ F \in Seq(W) /\ PANIC \in W /\ "nl" \in W BY <1>10, <1>11
<1>13. PICK a : a = Append(F, NUL) OBVIOUS
<1>14. a \in Seq(W) /\ Len(a) = n + 1 /\ a[n + 1] = NUL /\ \A i \in 1 .. n : a[i] = F[i]
  BY <1>6, <1>12, <1>13, AppendProperties
<1>15. PICK buf : buf = <<PANIC>> \o a OBVIOUS
<1>16. buf \in Seq(W) /\ Len(buf) = n + 2 /\ buf[1] = PANIC /\ buf[n + 2] = NUL
       /\ \A i \in 2 .. n + 1 : buf[i] = F[i - 1]
  <2>1. PICK p : p = <<PANIC>> OBVIOUS
  <2>2. p \in Seq(W) /\ Len(p) = 1 /\ p[1] = PANIC BY <1>12, <2>1
  <2>3. /\ p \o a \in Seq(W) /\ Len(p \o a) = 1 + (n + 1)
        /\ \A i \in 1 .. 1 + (n + 1) : (p \o a)[i] = IF i <= 1 THEN p[i] ELSE a[i - 1]
    <3>1. /\ p \o a \in Seq(W) /\ Len(p \o a) = Len(p) + Len(a)
          /\ \A i \in 1 .. Len(p) + Len(a) : (p \o a)[i] = IF i <= Len(p) THEN p[i] ELSE a[i - Len(p)]
      BY <1>14, <2>2, ConcatProperties
    <3>2. QED BY <1>14, <2>2, <3>1
  <2>4. buf = p \o a BY <1>15, <2>1
  <2>5. ASSUME NEW i \in 2 .. n + 1 PROVE buf[i] = F[i - 1]
    <3>1. i - 1 \in 1 .. n /\ i \in 1 .. 1 + (n + 1) /\ ~ (i <= 1) OBVIOUS
    <3>2. QED BY <1>14, <2>3, <2>4, <3>1
  <2>6. buf[n + 2] = a[n + 1]
    <3>1. n + 2 \in 1 .. 1 + (n + 1) /\ ~ (n + 2 <= 1) /\ n + 2 - 1 = n + 1 OBVIOUS
    <3>2. QED BY <2>3, <2>4, <3>1
  <2>7. QED BY <1>14, <2>2, <2>3, <2>4, <2>5, <2>6
<1>17. \A i \in 1 .. n + 1 : buf[i] \in V
  <2>1. ASSUME NEW i \in 1 .. n + 1 PROVE buf[i] \in V
    <3>1. CASE i = 1 BY <1>10, <1>16, <3>1
    <3>2. CASE i # 1
      <4>1. i \in 2 .. n + 1 /\ i - 1 \in 1 .. Len(F) BY <1>6, <3>2
      <4>2. F[i - 1] \in V BY <1>10, <4>1, ElementOfSeq
      <4>3. QED BY <1>16, <4>1, <4>2
    <3>3. QED BY <3>1, <3>2
  <2>2. QED BY <2>1
<1>18. PICK s : s = PanicBuffer(<<d>>) OBVIOUS
<1>19. s = IF buf[n + 1] = "nl" THEN buf ELSE SubSeq(buf, 1, NewlineAt(n + 1)) \o <<"nl", NUL>>
  BY <1>3, <1>8, <1>13, <1>15, <1>18 DEF PanicBuffer
<1>20. CASE buf[n + 1] = "nl"
  <2>1. s = buf /\ Len(s) = (n + 1) + 1 /\ Len(s) - 1 = n + 1 BY <1>16, <1>19, <1>20
  <2>2. s \in Seq(V \cup {NUL}) /\ s[(n + 1) + 1] = NUL /\ n + 1 \in Nat BY <1>11, <1>16, <2>1
  <2>3. Len(Text(s)) = n + 1 /\ Last(s) = NUL BY <1>10, <1>17, <2>1, <2>2, TextIs
  <2>4. Head(s) = PANIC BY <1>16, <2>1
  <2>5. Len(s) <= PanicSize BY <1>1, <1>2, <1>7, <2>1
  <2>6. MessageIn(s, F)
    <3>1. ASSUME NEW j \in 1 .. n PROVE s[j + 1] = F[j]
      <4>1. j + 1 \in 2 .. n + 1 /\ (j + 1) - 1 = j OBVIOUS
      <4>2. QED BY <1>16, <2>1, <4>1
    <3>2. Len(s) >= n + 2 BY <2>1
    <3>3. QED BY <1>6, <3>1, <3>2 DEF MessageIn
  <2>7. QED BY <1>4, <1>18, <1>20, <2>1, <2>3, <2>4, <2>5, <2>6
<1>21. CASE buf[n + 1] # "nl"
  <2>1. PICK k \in 1 .. n + 1 : k = NewlineAt(n + 1) /\ k + 2 <= PanicSize
    <3>1. CASE n + 1 = PanicSize - 1
      <4>1. NewlineAt(n + 1) = n BY <3>1 DEF NewlineAt
      <4>2. n \in 1 .. n + 1 /\ n + 2 <= PanicSize BY <1>1, <3>1
      <4>3. QED BY <4>1, <4>2
    <3>2. CASE n + 1 # PanicSize - 1
      <4>1. NewlineAt(n + 1) = n + 1 BY <3>2 DEF NewlineAt
      <4>2. n + 1 \in 1 .. n + 1 /\ n + 1 + 2 <= PanicSize BY <1>1, <1>2, <1>7, <3>2
      <4>3. QED BY <4>1, <4>2
    <3>3. QED BY <3>1, <3>2
  <2>2. PICK h, e : h = SubSeq(buf, 1, k) /\ e = <<"nl", NUL>> OBVIOUS
  <2>3. h \in Seq(V) /\ Len(h) = k /\ \A i \in 1 .. k : h[i] = buf[i]
    <3>1. \A i \in 1 .. k : buf[i] \in V BY <1>17
    <3>2. h \in Seq(V) /\ Len(h) = k /\ \A i \in 1 .. k : h[i] = buf[i] BY <2>2, <3>1, SubSeqProperties
    <3>3. QED BY <3>2
  <2>4. h \in Seq(W) BY <1>11, <2>3
  <2>5. e \in Seq(W) /\ Len(e) = 2 /\ e[1] = "nl" /\ e[2] = NUL BY <1>12, <2>2
  <2>6. s = h \o e BY <1>19, <1>21, <2>1, <2>2
  <2>7. /\ s \in Seq(W) /\ Len(s) = k + 2
        /\ \A i \in 1 .. k + 2 : s[i] = IF i <= k THEN h[i] ELSE e[i - k]
    <3>1. /\ h \o e \in Seq(W) /\ Len(h \o e) = Len(h) + Len(e)
          /\ \A i \in 1 .. Len(h) + Len(e) : (h \o e)[i] = IF i <= Len(h) THEN h[i] ELSE e[i - Len(h)]
      BY <2>4, <2>5, ConcatProperties
    <3>2. QED BY <2>3, <2>5, <2>6, <3>1
  <2>8. s[1] = PANIC BY <1>16, <2>3, <2>7
  <2>9. s[k + 1] = "nl"
    <3>1. k + 1 \in 1 .. k + 2 /\ ~ (k + 1 <= k) /\ k + 1 - k = 1 OBVIOUS
    <3>2. QED BY <2>5, <2>7, <3>1
  <2>10. s[(k + 1) + 1] = NUL
    <3>1. (k + 1) + 1 \in 1 .. k + 2 /\ ~ ((k + 1) + 1 <= k) /\ (k + 1) + 1 - k = 2 OBVIOUS
    <3>2. QED BY <2>5, <2>7, <3>1
  <2>11. ASSUME NEW i \in 1 .. k + 1 PROVE s[i] \in V
    <3>1. CASE i = k + 1 BY <1>10, <2>9, <3>1
    <3>2. CASE i # k + 1
      <4>1. i \in 1 .. k /\ i \in 1 .. k + 2 /\ i <= k BY <3>2
      <4>2. s[i] = buf[i] BY <2>3, <2>7, <4>1
      <4>3. QED BY <1>17, <4>1, <4>2
    <3>3. QED BY <3>1, <3>2
  <2>12. s \in Seq(V \cup {NUL}) /\ Len(s) = (k + 1) + 1 /\ k + 1 \in Nat /\ Len(s) - 1 = k + 1
    BY <1>11, <2>7
  <2>13. Len(Text(s)) = k + 1 /\ Last(s) = NUL BY <1>10, <2>10, <2>11, <2>12, TextIs
  <2>14. Head(s) = PANIC BY <2>8
  <2>15. k = n + 1 \/ (k = n /\ Len(s) = PanicSize)
    <3>1. CASE n + 1 = PanicSize - 1
      <4>1. k = n BY <2>1, <3>1 DEF NewlineAt
      <4>2. n + 2 = PanicSize BY <1>1, <3>1
      <4>3. QED BY <2>7, <4>1, <4>2
    <3>2. CASE n + 1 # PanicSize - 1 BY <2>1, <3>2 DEF NewlineAt
    <3>3. QED BY <3>1, <3>2
  <2>16. MessageIn(s, F)
    <3>1. ASSUME NEW j \in 1 .. n PROVE s[j + 1] = F[j] \/ (j = n /\ Len(s) = PanicSize)
      <4>1. CASE j + 1 <= k
        <5>1. j + 1 \in 1 .. k /\ j + 1 \in 1 .. k + 2 /\ j + 1 \in 2 .. n + 1 /\ (j + 1) - 1 = j
          BY <4>1
        <5>2. s[j + 1] = buf[j + 1] BY <2>3, <2>7, <4>1, <5>1
        <5>3. QED BY <1>16, <5>1, <5>2
      <4>2. CASE ~ (j + 1 <= k)
        <5>1. k = n /\ j = n BY <2>15, <4>2
        <5>2. QED BY <2>15, <5>1
      <4>3. QED BY <4>1, <4>2
    <3>2. Len(s) >= n + 2 BY <2>7, <2>15
    <3>3. QED BY <1>6, <3>1, <3>2 DEF MessageIn
  <2>17. QED BY <1>4, <1>18, <2>1, <2>9, <2>12, <2>13, <2>14, <2>16
<1>22. QED BY <1>20, <1>21

-----------------------------------------------------------------------------
(* Reading numbers. *)

\* Skip leaves what is behind the characters of the set.
LEMMA SkipIs ==
    ASSUME NEW V, NEW C, NEW a \in Seq(V), NEW b \in Seq(V), \A i \in 1 .. Len(a) : a[i] \in C,
           b # <<>> => b[1] \notin C
    PROVE  Skip(a \o b, C) = b
<1>1. PICK n \in Nat, m \in Nat : n = Len(a) /\ m = Len(b) BY LenProperties
<1>2. PICK s : s = a \o b OBVIOUS
<1>3. /\ s \in Seq(V) /\ Len(s) = n + m
      /\ \A i \in 1 .. n + m : s[i] = IF i <= n THEN a[i] ELSE b[i - n]
  <2>1. /\ a \o b \in Seq(V) /\ Len(a \o b) = Len(a) + Len(b)
        /\ \A i \in 1 .. Len(a) + Len(b) : (a \o b)[i] = IF i <= Len(a) THEN a[i] ELSE b[i - Len(a)]
    BY ConcatProperties
  <2>2. QED BY <1>1, <1>2, <2>1
<1>4. DOMAIN s = 1 .. n + m BY <1>3, LenProperties
<1> DEFINE stops == {i \in DOMAIN s : s[i] \notin C}
           least == CHOOSE i \in stops : \A j \in stops : i <= j
<1>5. Skip(s, C) = IF stops = {} THEN <<>> ELSE SubSeq(s, least, Len(s)) BY Zenon DEF Skip
<1>6. \A i \in stops : i \in 1 .. n + m /\ i > n
  <2>1. ASSUME NEW i \in stops, i <= n PROVE FALSE
    <3>1. i \in 1 .. n + m /\ s[i] \notin C BY <1>4
    <3>2. i \in 1 .. n /\ s[i] = a[i] BY <1>3, <2>1, <3>1
    <3>3. QED BY <1>1, <3>1, <3>2
  <2>2. ASSUME NEW i \in stops PROVE i \in 1 .. n + m BY <1>4
  <2>3. QED BY <2>1, <2>2
<1>7. \A i \in 1 .. n + m : s[i] \notin C => i \in stops BY <1>4
<1> HIDE DEF stops
<1>8. CASE b = <<>>
  <2>1. m = 0 BY <1>1, <1>8
  <2>2. stops = {} BY <1>6, <2>1
  <2>3. QED BY <1>2, <1>5, <1>8, <2>2
<1>9. CASE b # <<>>
  <2>1. m > 0 BY <1>1, <1>9, EmptySeq
  <2>2. n + 1 \in 1 .. n + m /\ s[n + 1] = b[1]
    <3>1. n + 1 \in 1 .. n + m /\ ~ (n + 1 <= n) /\ n + 1 - n = 1 BY <2>1
    <3>2. QED BY <1>3, <3>1
  <2>3. n + 1 \in stops BY <1>7, <1>9, <2>2
  <2>4. \A i \in stops : n + 1 <= i /\ i \in Int BY <1>6
  <2>5. least \in stops /\ \A j \in stops : least <= j BY <2>3, <2>4
  <2> HIDE DEF least
  <2>6. least = n + 1 BY <2>3, <2>4, <2>5
  <2>7. Skip(s, C) = SubSeq(s, n + 1, n + m) BY <1>3, <1>5, <2>3, <2>6
  <2>8. SubSeq(s, n + 1, n + m) = b
    <3>1. \A i \in n + 1 .. n + m : s[i] \in V
      <4>1. \A i \in n + 1 .. n + m : i \in 1 .. n + m OBVIOUS
      <4>2. QED BY <1>3, <4>1, ElementOfSeq
    <3>2. PICK r : r = SubSeq(s, n + 1, n + m) OBVIOUS
    <3>3. r \in Seq(V) /\ Len(r) = m /\ \A i \in 1 .. m : r[i] = s[n + i]
      <4>1. /\ r \in Seq(V) /\ Len(r) = IF n + 1 <= n + m THEN n + m - (n + 1) + 1 ELSE 0
            /\ \A i \in 1 .. n + m - (n + 1) + 1 : r[i] = s[n + 1 + i - 1]
        <5>1. PICK p \in Int, q \in Int : p = n + 1 /\ q = n + m OBVIOUS
        <5>2. /\ SubSeq(s, p, q) \in Seq(V) /\ Len(SubSeq(s, p, q)) = IF p <= q THEN q - p + 1 ELSE 0
              /\ \A i \in 1 .. q - p + 1 : SubSeq(s, p, q)[i] = s[p + i - 1]
          BY <3>1, <5>1, SubSeqProperties
        <5>3. QED BY <3>2, <5>1, <5>2
      <4>2. n + m - (n + 1) + 1 = m /\ n + 1 <= n + m /\ \A i \in Int : n + 1 + i - 1 = n + i BY <2>1
      <4>3. QED BY <4>1, <4>2
    <3>4. ASSUME NEW i \in 1 .. m PROVE r[i] = b[i]
      <4>1. n + i \in 1 .. n + m /\ ~ (n + i <= n) /\ n + i - n = i OBVIOUS
      <4>2. QED BY <1>3, <3>3, <4>1
    <3>5. r = b BY <1>1, <3>3, <3>4, SeqEqual
    <3>6. QED BY <3>2, <3>5
  <2>9. QED BY <1>2, <2>7, <2>8
<1>10. QED BY <1>8, <1>9

\* The digits are those in front of what is left.
LEMMA FrontIs ==
    ASSUME NEW V, NEW a \in Seq(V), NEW b \in Seq(V)
    PROVE  SubSeq(a \o b, 1, Len(a \o b) - Len(b)) = a
<1>1. PICK n \in Nat, m \in Nat : n = Len(a) /\ m = Len(b) BY LenProperties
<1>2. /\ Len(a \o b) = n + m
      /\ \A i \in 1 .. n + m : (a \o b)[i] = IF i <= n THEN a[i] ELSE b[i - n]
  <2>1. /\ a \o b \in Seq(V) /\ Len(a \o b) = Len(a) + Len(b)
        /\ \A i \in 1 .. Len(a) + Len(b) : (a \o b)[i] = IF i <= Len(a) THEN a[i] ELSE b[i - Len(a)]
    BY ConcatProperties
  <2>2. QED BY <1>1, <2>1
<1>3. PICK s : s = a \o b OBVIOUS
<1>4. \A i \in 1 .. n : s[i] = a[i] /\ s[i] \in V
  <2>1. \A i \in 1 .. n : i \in 1 .. n + m /\ i <= n OBVIOUS
  <2>2. \A i \in 1 .. n : s[i] = a[i] BY <1>2, <1>3, <2>1
  <2>3. QED BY <1>1, <2>2, ElementOfSeq
<1>5. PICK r : r = SubSeq(s, 1, n) OBVIOUS
<1>6. r \in Seq(V) /\ Len(r) = n /\ \A i \in 1 .. n : r[i] = s[i] BY <1>4, <1>5, SubSeqProperties
<1>7. r = a BY <1>1, <1>4, <1>6, SeqEqual
<1>8. Len(s) - Len(b) = n BY <1>1, <1>2, <1>3
<1>9. QED BY <1>3, <1>5, <1>7, <1>8

\* What strtoul reads from a text once it knows the base.
Amount(u, base) == Value(SubSeq(u, 1, Len(u) - Len(Skip(u, Figures(base)))), base)

\* A number with spaces behind it.
LEMMA AmountIs ==
    ASSUME NEW base \in 2 .. 16, NEW digits \in Alphabets, NEW val \in 0 .. Word - 1,
           NEW z \in Nat, NEW b \in Nat
    PROVE  Amount((Repeat("0", z) \o fill_numbuf(val, base, digits)) \o Repeat(SPACE, b), base)
             = [x |-> val, overflow |-> FALSE]
<1>1. PICK F : F = Figures(base) OBVIOUS
<1>2. PICK zs, num, e : zs = Repeat("0", z) /\ num = fill_numbuf(val, base, digits) /\ e = Repeat(SPACE, b)
  OBVIOUS
<1>3. "0" \in F
  <2>1. lower_digits[1] = "0" BY DEF lower_digits
  <2>2. QED BY <1>1, <2>1 DEF Figures
<1>4. zs \in Seq(F)
  <2>1. zs \in Seq({"0"}) BY <1>2, RepeatIs
  <2>2. QED BY <1>3, <2>1
<1>5. num \in Seq(F) BY <1>1, <1>2, NumeralIs
<1>6. PICK t : t = zs \o num OBVIOUS
<1>7. t \in Seq(F) BY <1>4, <1>5, <1>6, ConcatProperties
<1>8. \A i \in 1 .. Len(t) : t[i] \in F BY <1>7, ElementOfSeq
<1>9. PICK V : V = F \cup {SPACE} OBVIOUS
<1>10. t \in Seq(V) BY <1>7, <1>9
<1>11. e \in Seq(V)
  <2>1. e \in Seq({SPACE}) BY <1>2, RepeatIs
  <2>2. QED BY <1>9, <2>1
<1>12. SPACE \notin F
  <2>1. base \in 1 .. 16 OBVIOUS
  <2>2. SPACE \in isspace BY DEF isspace
  <2>3. QED BY <1>1, <2>1, <2>2, FiguresAre
<1>13. e # <<>> => e[1] \notin F
  <2>1. ASSUME e # <<>> PROVE e[1] = SPACE
    <3>1. Len(e) = b /\ \A i \in 1 .. b : e[i] = SPACE BY <1>2, RepeatIs
    <3>2. b \in Nat \ {0} BY <1>11, <2>1, <3>1, EmptySeq
    <3>3. QED BY <3>1, <3>2
  <2>2. QED BY <1>12, <2>1
<1>14. Skip(t \o e, F) = e BY <1>8, <1>10, <1>11, <1>13, SkipIs
<1>15. SubSeq(t \o e, 1, Len(t \o e) - Len(e)) = t BY <1>10, <1>11, FrontIs
<1>16. Value(t, base) = [x |-> val, overflow |-> FALSE] BY <1>2, <1>6, ValueIs
<1>17. Amount(t \o e, base) = Value(t, base) BY <1>1, <1>14, <1>15 DEF Amount
<1>18. QED BY <1>2, <1>6, <1>16, <1>17

\* strtoul without the hexadecimal prefix,
LEMMA StrtoulPlain ==
    ASSUME NEW str, NEW radix, NEW s, NEW t, NEW base, NEW val,
           s = Skip(str, isspace), ~ Starts(s, {"-"}),
           t = IF Starts(s, {"-", "+"}) THEN Tail(s) ELSE s,
           ~ (Starts(t, {"0"}) /\ Starts(Tail(t), {"x", "X"})),
           base = IF radix # 0 THEN radix ELSE IF Starts(t, {"0"}) THEN 8 ELSE 10,
           Amount(t, base) = [x |-> val, overflow |-> FALSE]
    PROVE  strtoul(str, radix) = val
<1>1. PICK acc : acc = Value(SubSeq(t, 1, Len(t) - Len(Skip(t, Figures(base)))), base) OBVIOUS
<1>2. acc.overflow = FALSE /\ acc.x = val
  <2>1. acc = Amount(t, base) BY <1>1, Zenon DEF Amount
  <2>2. acc = [x |-> val, overflow |-> FALSE] BY <2>1
  <2>3. QED BY <2>2
<1>3. strtoul(str, radix) = IF acc.overflow THEN Word - 1 ELSE acc.x
  BY <1>1 DEF strtoul
<1>4. QED BY <1>2, <1>3

\* and with it.
LEMMA StrtoulHex ==
    ASSUME NEW str, NEW radix \in {0, 16}, NEW s, NEW val,
           s = Skip(str, isspace), Starts(s, {"0"}), Starts(Tail(s), {"x", "X"}),
           Amount(Tail(Tail(s)), 16) = [x |-> val, overflow |-> FALSE]
    PROVE  strtoul(str, radix) = val
<1>1. PICK u : u = Tail(Tail(s)) OBVIOUS
<1>2. PICK acc : acc = Value(SubSeq(u, 1, Len(u) - Len(Skip(u, Figures(16)))), 16) OBVIOUS
<1>3. acc.overflow = FALSE /\ acc.x = val BY <1>1, <1>2 DEF Amount
<1>4. ~ Starts(s, {"-"}) /\ ~ Starts(s, {"-", "+"}) BY DEF Starts
<1>5. strtoul(str, radix) = IF acc.overflow THEN Word - 1 ELSE acc.x
  BY <1>1, <1>2, <1>4 DEF strtoul
<1>6. QED BY <1>3, <1>5

\* Concatenation, as an operator of its own.
Cat(p, q) == p \o q

\* It is associative.
LEMMA CatIs ==
    ASSUME NEW V, NEW p \in Seq(V), NEW q \in Seq(V), NEW r \in Seq(V)
    PROVE  Cat(p, q) \in Seq(V) /\ Cat(Cat(p, q), r) = Cat(p, Cat(q, r))
<1>1. p \o q \in Seq(V) BY ConcatProperties
<1>2. (p \o q) \o r = p \o (q \o r) BY ConcatAssociative
<1>3. QED BY <1>1, <1>2, Zenon DEF Cat

\* Parts, from the left or from the right.
LEMMA FiveParts ==
    ASSUME NEW V, NEW p \in Seq(V), NEW q \in Seq(V), NEW r \in Seq(V), NEW s \in Seq(V), NEW t \in Seq(V)
    PROVE  Cat(Cat(Cat(Cat(p, q), r), s), t) = Cat(p, Cat(q, Cat(Cat(r, s), t)))
<1>1. PICK pq \in Seq(V) : pq = Cat(p, q) BY CatIs
<1>2. PICK rs \in Seq(V) : rs = Cat(r, s) BY CatIs
<1>3. PICK rst \in Seq(V) : rst = Cat(rs, t) BY CatIs
<1>4. Cat(Cat(pq, r), s) = Cat(pq, rs) BY <1>2, CatIs
<1>5. Cat(Cat(pq, rs), t) = Cat(pq, rst) BY <1>3, CatIs
<1>6. Cat(pq, rst) = Cat(p, Cat(q, rst)) BY <1>1, CatIs
<1>7. QED BY <1>1, <1>2, <1>3, <1>4, <1>5, <1>6

\* A number's digits and what is behind them.
Digits(d, z, b) == (Repeat("0", z) \o Data(d)) \o Repeat(SPACE, b)

\* How they begin, and what they amount to.
LEMMA DigitsAre ==
    ASSUME NEW d, IsItem(d), IsNumeral(d), NEW z \in Nat, NEW b \in Nat
    PROVE  LET U == Digits(d, z, b)
           IN  /\ U \in Seq(Letters) /\ U # <<>> /\ Head(U) = U[1]
               /\ U[1] \notin isspace /\ U[1] \notin {"-", "+"}
               /\ ~ Starts(Tail(U), {"x", "X"})
               /\ Amount(U, Base(d)) = [x |-> Num(d), overflow |-> FALSE]
               /\ Num(d) = 0 => U[1] = "0" /\ Amount(U, 8) = [x |-> 0, overflow |-> FALSE]
<1>1. /\ Num(d) \in 0 .. Word - 1 /\ Base(d) \in {10, 16} /\ Alphabet(d) \in Alphabets
      /\ Data(d) = fill_numbuf(Num(d), Base(d), Alphabet(d))
      /\ Data(d) \in Seq(Figures(Base(d))) /\ Len(Data(d)) > 0
  BY NumberIs
<1>2. PICK U : U = Digits(d, z, b) OBVIOUS
<1>3. PICK F : F = Figures(16) OBVIOUS
<1>4. PICK zs, num, e : zs = Repeat("0", z) /\ num = Data(d) /\ e = Repeat(SPACE, b) OBVIOUS
<1>5. zs \in Seq(F) /\ Len(zs) = z /\ \A i \in 1 .. z : zs[i] = "0"
  <2>1. zs \in Seq({"0"}) /\ Len(zs) = z /\ \A i \in 1 .. z : zs[i] = "0" BY <1>4, RepeatIs
  <2>2. "0" \in F BY <1>3, LettersAre, FiguresAre
  <2>3. QED BY <2>1, <2>2
<1>6. num \in Seq(F) /\ Len(num) \in Nat /\ Len(num) > 0
  <2>1. PICK G : G = Figures(Base(d)) OBVIOUS
  <2>2. G \subseteq F
    <3>1. Base(d) \in 1 .. 16 BY <1>1
    <3>2. QED BY <1>3, <2>1, <3>1, FiguresAre
  <2>3. num \in Seq(G) BY <1>1, <1>4, <2>1
  <2>4. num \in Seq(F) BY <2>2, <2>3
  <2>5. QED BY <1>1, <1>4, <2>4, LenProperties
<1>7. PICK t : t = zs \o num OBVIOUS
<1>8. /\ t \in Seq(F) /\ Len(t) = z + Len(num) /\ Len(t) \in Nat /\ Len(t) > 0
      /\ \A i \in 1 .. Len(t) : t[i] = IF i <= z THEN zs[i] ELSE num[i - z]
  <2>1. /\ zs \o num \in Seq(F) /\ Len(zs \o num) = Len(zs) + Len(num)
        /\ \A i \in 1 .. Len(zs) + Len(num) : (zs \o num)[i] = IF i <= Len(zs) THEN zs[i] ELSE num[i - Len(zs)]
    BY <1>5, <1>6, ConcatProperties
  <2>2. QED BY <1>5, <1>6, <1>7, <2>1
<1>9. e \in Seq({SPACE}) BY <1>4, RepeatIs
<1>10. PICK V : V = F \cup {SPACE} OBVIOUS
<1>11. t \in Seq(V) /\ e \in Seq(V) BY <1>8, <1>9, <1>10
<1>12. U = t \o e BY <1>2, <1>4, <1>7 DEF Digits
<1>13. PICK n \in Nat : n = Len(t) + Len(e) BY <1>11, LenProperties
<1>14. /\ U \in Seq(V) /\ Len(U) = n /\ n > 0
       /\ \A i \in 1 .. n : U[i] = IF i <= Len(t) THEN t[i] ELSE e[i - Len(t)]
  <2>1. /\ t \o e \in Seq(V) /\ Len(t \o e) = Len(t) + Len(e)
        /\ \A i \in 1 .. Len(t) + Len(e) : (t \o e)[i] = IF i <= Len(t) THEN t[i] ELSE e[i - Len(t)]
    BY <1>11, ConcatProperties
  <2>2. Len(e) \in Nat BY <1>9, LenProperties
  <2>3. QED BY <1>8, <1>12, <1>13, <2>1, <2>2
<1>15. U \in Seq(Letters)
  <2>1. V \subseteq Letters
    <3>1. F \subseteq Letters BY <1>3, LettersAre
    <3>2. QED BY <1>10, <3>1, LettersAre
  <2>2. QED BY <1>14, <2>1, LettersAre
<1>16. U # <<>> /\ Head(U) = U[1] BY <1>14
<1>17. U[1] = t[1] /\ t[1] \in F
  <2>1. 1 \in 1 .. n /\ 1 <= Len(t) /\ 1 \in 1 .. Len(t) BY <1>8, <1>14
  <2>2. t[1] \in F BY <1>8, <2>1, ElementOfSeq
  <2>3. QED BY <1>14, <2>1, <2>2
<1>18. U[1] \notin isspace /\ U[1] \notin {"-", "+"}
  <2>1. 16 \in 1 .. 16 /\ U[1] \in Figures(16) BY <1>3, <1>17
  <2>2. QED BY <2>1, FiguresAre
<1>19. ~ Starts(Tail(U), {"x", "X"})
  <2>1. ASSUME Tail(U) # <<>>, Head(Tail(U)) \in {"x", "X"} PROVE FALSE
    <3>1. /\ Tail(U) \in Seq(V) /\ Len(Tail(U)) = Len(U) - 1
          /\ \A i \in 1 .. Len(Tail(U)) : Tail(U)[i] = U[i + 1]
      BY <1>14, <1>16, HeadTailProperties
    <3>2. PICK w : w = Tail(U) OBVIOUS
    <3>3. w \in Seq(V) /\ w # <<>> BY <2>1, <3>1, <3>2
    <3>4. Head(w) \in V BY <3>3, HeadTailProperties
    <3>5. Head(w) \in F \/ Head(w) = SPACE BY <1>10, <3>4
    <3>6. \A c \in F : c # "x" /\ c # "X" BY <1>3, FiguresAre
    <3>7. SPACE # "x" /\ SPACE # "X" BY Spaces
    <3>8. QED BY <2>1, <3>2, <3>5, <3>6, <3>7
  <2>2. QED BY <2>1 DEF Starts
<1>20. Amount(U, Base(d)) = [x |-> Num(d), overflow |-> FALSE]
  <2>1. Base(d) \in 2 .. 16 BY <1>1
  <2>2. U = (Repeat("0", z) \o fill_numbuf(Num(d), Base(d), Alphabet(d))) \o Repeat(SPACE, b)
    BY <1>1, <1>2 DEF Digits
  <2>3. Amount((Repeat("0", z) \o fill_numbuf(Num(d), Base(d), Alphabet(d))) \o Repeat(SPACE, b), Base(d))
          = [x |-> Num(d), overflow |-> FALSE]
    BY <1>1, <2>1, AmountIs
  <2>4. QED BY <2>2, <2>3
<1>21. ASSUME Num(d) = 0 PROVE U[1] = "0" /\ Amount(U, 8) = [x |-> 0, overflow |-> FALSE]
  <2>1. PICK digits \in Alphabets : digits = Alphabet(d) BY <1>1
  <2>2. digits[1] = "0" BY DEF Alphabets, lower_digits, upper_digits
  <2>3. \A base \in 2 .. 16 : fill_numbuf(0, base, digits) = <<"0">>
    <3>1. ASSUME NEW base \in 2 .. 16 PROVE fill_numbuf(0, base, digits) = <<"0">>
      <4>1. base \in Nat /\ base > 1 /\ 0 \in 0 .. Word - 1 /\ 0 + 1 = 1 /\ 0 < base
        BY BitsAssumption
      <4>2. PICK f : /\ \A v \in 0 .. Word - 1 : f[v] = NumbufTurn(f, v, base, digits)
                     /\ \A v : fill_numbuf(v, base, digits) = f[v]
        BY <4>1, NumbufIs
      <4>3. f[0] = <<digits[0 + 1]>> BY <4>1, <4>2 DEF NumbufTurn
      <4>4. QED BY <2>2, <4>1, <4>2, <4>3
    <3>2. QED BY <3>1
  <2>4. num = <<"0">>
    <3>1. Base(d) \in 2 .. 16 BY <1>1
    <3>2. QED BY <1>1, <1>4, <1>21, <2>1, <2>3, <3>1
  <2>5. num = fill_numbuf(0, 8, digits) BY <2>3, <2>4
  <2>6. U = (Repeat("0", z) \o fill_numbuf(0, 8, digits)) \o Repeat(SPACE, b)
    BY <1>2, <1>4, <2>5 DEF Digits
  <2>7. 0 \in 0 .. Word - 1 /\ 8 \in 2 .. 16 BY BitsAssumption
  <2>8. Amount(U, 8) = [x |-> 0, overflow |-> FALSE] BY <2>6, <2>7, AmountIs
  <2>9. t[1] = "0"
    <3>1. num[1] = "0" BY <2>4
    <3>2. 1 \in 1 .. Len(t) BY <1>8
    <3>3. CASE z = 0 BY <1>8, <3>1, <3>2, <3>3
    <3>4. CASE z # 0 BY <1>5, <1>8, <3>2, <3>4
    <3>5. QED BY <3>3, <3>4
  <2>10. QED BY <1>17, <2>8, <2>9
<1>22. QED BY <1>2, <1>15, <1>16, <1>18, <1>19, <1>20, <1>21

\* A number's field, as it is read: spaces, prefix, digits.
LEMMA NumberField ==
    ASSUME NEW d, IsItem(d), IsNumeral(d)
    PROVE  \E a \in Nat, z \in Nat, b \in Nat :
             Field(d) = Repeat(SPACE, a) \o (Prefix(d) \o Digits(d, z, b))
<1>1. PICK a \in Nat, b \in Nat :
        /\ Zeros(d) \in Nat
        /\ Field(d) = Repeat(SPACE, a) \o Prefix(d) \o Repeat("0", Zeros(d))
                        \o SubSeq(Data(d), 1, Datalen(d)) \o Repeat(SPACE, b)
  BY FieldIs
<1>2. PICK z \in Nat : z = Zeros(d) BY <1>1
<1>3. Data(d) \in Seq(Letters) /\ SubSeq(Data(d), 1, Datalen(d)) = Data(d)
  <2>1. Data(d) \in Seq(Letters) BY DataIs
  <2>2. Datalen(d) = Len(Data(d)) BY NumberIs
  <2>3. QED BY <2>1, <2>2, SubSeqFull
<1>4. PICK s1, s2, s3, s4, s5 :
        /\ s1 = Repeat(SPACE, a) /\ s2 = Prefix(d) /\ s3 = Repeat("0", z) /\ s4 = Data(d)
        /\ s5 = Repeat(SPACE, b)
  OBVIOUS
<1>5. "0" \in Letters BY LettersAre
<1>6. s1 \in Seq(Letters) /\ s5 \in Seq(Letters) /\ s3 \in Seq(Letters)
  <2>1. SPACE \in Letters BY LettersAre
  <2>2. {SPACE} \subseteq Letters /\ {"0"} \subseteq Letters BY <1>5, <2>1
  <2>3. QED BY <1>4, <2>2, RepeatIs, LettersAre
<1>7. s2 \in Seq(Letters)
  <2>1. SPACE \in Letters /\ "-" \in Letters /\ "+" \in Letters /\ "x" \in Letters /\ "X" \in Letters
    BY LettersAre
  <2>2. <<>> \in Seq(Letters) /\ <<"-">> \in Seq(Letters) /\ <<"+">> \in Seq(Letters)
        /\ <<SPACE>> \in Seq(Letters) /\ <<"0", "x">> \in Seq(Letters) /\ <<"0", "X">> \in Seq(Letters)
    BY <1>5, <2>1
  <2>3. QED BY <1>4, <2>2, PrefixIs
<1>8. s4 \in Seq(Letters) BY <1>3, <1>4
<1>9. Field(d) = s1 \o s2 \o s3 \o s4 \o s5 BY <1>1, <1>2, <1>3, <1>4
<1>10. Field(d) = s1 \o (s2 \o ((s3 \o s4) \o s5))
  <2>1. Cat(Cat(Cat(Cat(s1, s2), s3), s4), s5) = Cat(s1, Cat(s2, Cat(Cat(s3, s4), s5)))
    BY <1>6, <1>7, <1>8, FiveParts
  <2>2. s1 \o s2 \o s3 \o s4 \o s5 = s1 \o (s2 \o ((s3 \o s4) \o s5)) BY <2>1, Zenon DEF Cat
  <2>3. QED BY <1>9, <2>2
<1>11. Field(d) = Repeat(SPACE, a) \o (Prefix(d) \o Digits(d, z, b)) BY <1>4, <1>10 DEF Digits
<1>12. QED BY <1>11

\* Nothing to skip.
LEMMA NoSkip ==
    ASSUME NEW V, NEW C, NEW s \in Seq(V), s # <<>> => s[1] \notin C
    PROVE  Skip(s, C) = s
<1>1. PICK e \in Seq(V) : e = <<>> BY EmptySeq
<1>2. \A i \in 1 .. Len(e) : e[i] \in C BY <1>1
<1>3. Skip(e \o s, C) = s BY <1>2, SkipIs
<1>4. e \o s = s BY <1>1, ConcatEmptySeq
<1>5. QED BY <1>3, <1>4

\* A character in front of a text.
LEMMA OneInFront ==
    ASSUME NEW V, NEW c \in V, NEW u \in Seq(V)
    PROVE  LET s == <<c>> \o u
           IN  s \in Seq(V) /\ s # <<>> /\ Head(s) = c /\ s[1] = c /\ Tail(s) = u
<1>1. PICK e \in Seq(V) : e = <<c>>
  <2>1. <<c>> \in Seq(V) OBVIOUS
  <2>2. QED BY <2>1
<1>2. Len(e) = 1 /\ e[1] = c BY <1>1
<1>3. PICK s : s = e \o u OBVIOUS
<1>4. PICK n \in Nat : n = Len(u) BY LenProperties
<1>5. /\ s \in Seq(V) /\ Len(s) = 1 + n
      /\ \A i \in 1 .. 1 + n : s[i] = IF i <= 1 THEN e[i] ELSE u[i - 1]
  <2>1. /\ e \o u \in Seq(V) /\ Len(e \o u) = Len(e) + Len(u)
        /\ \A i \in 1 .. Len(e) + Len(u) : (e \o u)[i] = IF i <= Len(e) THEN e[i] ELSE u[i - Len(e)]
    BY ConcatProperties
  <2>2. QED BY <1>2, <1>3, <1>4, <2>1
<1>6. s # <<>> /\ s[1] = c BY <1>2, <1>4, <1>5
<1>7. Head(s) = c BY <1>5, <1>6
<1>8. PICK t : t = Tail(s) OBVIOUS
<1>9. /\ t \in Seq(V) /\ Len(t) = n
      /\ \A i \in 1 .. n : t[i] = s[i + 1]
  <2>1. /\ Tail(s) \in Seq(V) /\ Len(Tail(s)) = Len(s) - 1
        /\ \A i \in 1 .. Len(Tail(s)) : Tail(s)[i] = s[i + 1]
    BY <1>5, <1>6, HeadTailProperties
  <2>2. Len(s) - 1 = n BY <1>5
  <2>3. QED BY <1>8, <2>1, <2>2
<1>10. ASSUME NEW i \in 1 .. n PROVE t[i] = u[i]
  <2>1. i + 1 \in 1 .. 1 + n /\ ~ (i + 1 <= 1) /\ i + 1 - 1 = i OBVIOUS
  <2>2. QED BY <1>5, <1>9, <2>1
<1>11. t = u BY <1>4, <1>9, <1>10, SeqEqual
<1>12. QED BY <1>1, <1>3, <1>5, <1>6, <1>7, <1>8, <1>11

\* What is left of a number's field behind its spaces.
LEMMA FieldSkipped ==
    ASSUME NEW d, IsItem(d), IsNumeral(d)
    PROVE  \E z \in Nat, b \in Nat :
             Skip(Field(d), isspace) = IF Prefix(d) \in {<<>>, <<SPACE>>} THEN Digits(d, z, b)
                                       ELSE Prefix(d) \o Digits(d, z, b)
<1>1. PICK a \in Nat, z \in Nat, b \in Nat :
        Field(d) = Repeat(SPACE, a) \o (Prefix(d) \o Digits(d, z, b))
  BY NumberField
<1>2. PICK U : U = Digits(d, z, b) OBVIOUS
<1>3. U \in Seq(Letters) /\ U # <<>> /\ U[1] \notin isspace BY <1>2, DigitsAre
<1>4. PICK sp : sp = Repeat(SPACE, a) OBVIOUS
<1>5. sp \in Seq(Letters) /\ \A i \in 1 .. Len(sp) : sp[i] \in isspace
  <2>1. sp \in Seq({SPACE}) /\ Len(sp) = a /\ \A i \in 1 .. a : sp[i] = SPACE BY <1>4, RepeatIs
  <2>2. SPACE \in Letters /\ SPACE \in isspace BY LettersAre DEF isspace
  <2>3. QED BY <2>1, <2>2
<1>6. /\ SPACE \in Letters /\ "-" \in Letters /\ "+" \in Letters /\ "x" \in Letters /\ "X" \in Letters
      /\ "0" \in Letters
  BY LettersAre
<1>7. "-" \notin isspace /\ "+" \notin isspace /\ "0" \notin isspace BY Spaces DEF isspace
<1>8. CASE Prefix(d) = <<>>
  <2>1. Prefix(d) \o U = U BY <1>3, <1>8, ConcatEmptySeq
  <2>2. Field(d) = sp \o U BY <1>1, <1>2, <1>4, <2>1
  <2>3. Skip(sp \o U, isspace) = U BY <1>3, <1>5, SkipIs
  <2>4. QED BY <1>2, <1>8, <2>2, <2>3
<1>9. CASE Prefix(d) = <<SPACE>>
  <2>1. PICK e \in Seq(Letters) : e = <<SPACE>>
    <3>1. <<SPACE>> \in Seq(Letters) BY <1>6
    <3>2. QED BY <3>1
  <2>2. Field(d) = Cat(sp, Cat(e, U)) BY <1>1, <1>2, <1>4, <1>9, <2>1, Zenon DEF Cat
  <2>3. Cat(sp, Cat(e, U)) = Cat(Cat(sp, e), U)
    <3>1. sp \in Seq(Letters) /\ e \in Seq(Letters) /\ U \in Seq(Letters) BY <1>3, <1>5
    <3>2. QED BY <3>1, CatIs
  <2>4. PICK w : w = sp \o e OBVIOUS
  <2>5. Field(d) = w \o U BY <2>2, <2>3, <2>4, Zenon DEF Cat
  <2>6. Len(e) = 1 /\ e[1] = SPACE BY <2>1
  <2>7. w \in Seq(Letters) /\ \A i \in 1 .. Len(w) : w[i] \in isspace
    <3>1. /\ w \in Seq(Letters) /\ Len(w) = Len(sp) + Len(e)
          /\ \A i \in 1 .. Len(sp) + Len(e) : w[i] = IF i <= Len(sp) THEN sp[i] ELSE e[i - Len(sp)]
      BY <1>5, <2>1, <2>4, ConcatProperties
    <3>2. PICK n \in Nat : n = Len(sp) BY <1>5, LenProperties
    <3>3. ASSUME NEW i \in 1 .. n + 1 PROVE w[i] \in isspace
      <4>1. CASE i <= n BY <1>5, <2>6, <3>1, <3>2, <4>1
      <4>2. CASE ~ (i <= n)
        <5>1. i - n = 1 BY <4>2
        <5>2. w[i] = SPACE BY <2>6, <3>1, <3>2, <4>2, <5>1
        <5>3. QED BY <5>2 DEF isspace
      <4>3. QED BY <4>1, <4>2
    <3>4. QED BY <2>6, <3>1, <3>2, <3>3
  <2>8. Skip(w \o U, isspace) = U BY <1>3, <2>7, SkipIs
  <2>9. QED BY <1>2, <1>9, <2>5, <2>8
<1>10. CASE Prefix(d) \notin {<<>>, <<SPACE>>}
  <2>1. PICK s : s = Prefix(d) \o U OBVIOUS
  <2>2. s \in Seq(Letters) /\ s[1] \notin isspace
    <3>1. CASE Prefix(d) = <<"-">> BY <1>3, <1>6, <1>7, <2>1, <3>1, OneInFront
    <3>2. CASE Prefix(d) = <<"+">> BY <1>3, <1>6, <1>7, <2>1, <3>2, OneInFront
    <3>3. ASSUME NEW x \in {"x", "X"}, Prefix(d) = <<"0", x>> PROVE s \in Seq(Letters) /\ s[1] \notin isspace
      <4>1. PICK p \in Seq(Letters) : p = <<"0", x>>
        <5>1. <<"0", x>> \in Seq(Letters) BY <1>6
        <5>2. QED BY <5>1
      <4>2. Len(p) = 2 /\ p[1] = "0" BY <4>1
      <4>3. s = p \o U BY <2>1, <3>3, <4>1
      <4>4. Len(U) \in Nat BY <1>3, LenProperties
      <4>5. /\ s \in Seq(Letters) /\ \A i \in 1 .. Len(p) + Len(U) : s[i] = IF i <= Len(p) THEN p[i] ELSE U[i - Len(p)]
        BY <1>3, <4>3, ConcatProperties
      <4>6. s[1] = "0" BY <4>2, <4>4, <4>5
      <4>7. QED BY <1>7, <4>5, <4>6
    <3>4. QED BY <1>10, <3>1, <3>2, <3>3, PrefixIs
  <2>3. Field(d) = sp \o s BY <1>1, <1>2, <1>4, <2>1
  <2>4. Skip(sp \o s, isspace) = s BY <1>5, <2>2, SkipIs
  <2>5. QED BY <1>2, <1>10, <2>1, <2>3, <2>4
<1>11. QED BY <1>8, <1>9, <1>10

\* strtoul of the digits, or of a sign and digits.
LEMMA ReadsDigits ==
    ASSUME NEW d, IsItem(d), IsNumeral(d), NEW z \in Nat, NEW b \in Nat, NEW str,
           \/ Skip(str, isspace) = Digits(d, z, b)
           \/ Skip(str, isspace) = <<"+">> \o Digits(d, z, b)
    PROVE  /\ strtoul(str, Base(d)) = Num(d)
           /\ Num(d) = 0 => strtoul(str, 0) = 0
<1>1. PICK U : U = Digits(d, z, b) OBVIOUS
<1>2. /\ U \in Seq(Letters) /\ U # <<>> /\ Head(U) = U[1]
      /\ U[1] \notin isspace /\ U[1] \notin {"-", "+"}
      /\ ~ Starts(Tail(U), {"x", "X"})
      /\ Amount(U, Base(d)) = [x |-> Num(d), overflow |-> FALSE]
      /\ Num(d) = 0 => U[1] = "0" /\ Amount(U, 8) = [x |-> 0, overflow |-> FALSE]
  BY <1>1, DigitsAre
<1>3. PICK s : s = Skip(str, isspace) OBVIOUS
<1>4. ~ Starts(s, {"-"}) /\ U = IF Starts(s, {"-", "+"}) THEN Tail(s) ELSE s
  <2>1. CASE s = U
    <3>1. ~ Starts(U, {"-"}) /\ ~ Starts(U, {"-", "+"}) BY <1>2 DEF Starts
    <3>2. QED BY <2>1, <3>1
  <2>2. CASE s = <<"+">> \o U
    <3>1. "+" \in Letters BY LettersAre
    <3>2. s # <<>> /\ Head(s) = "+" /\ Tail(s) = U BY <1>2, <2>2, <3>1, OneInFront
    <3>3. ~ Starts(s, {"-"}) /\ Starts(s, {"-", "+"}) BY <3>2 DEF Starts
    <3>4. QED BY <3>2, <3>3
  <2>3. QED BY <1>1, <1>3, <2>1, <2>2
<1>5. ~ (Starts(U, {"0"}) /\ Starts(Tail(U), {"x", "X"})) BY <1>2
<1>6. strtoul(str, Base(d)) = Num(d)
  <2>1. PICK base : base = Base(d) OBVIOUS
  <2>2. base # 0 BY <2>1, NumberIs
  <2>3. base = IF base # 0 THEN base ELSE IF Starts(U, {"0"}) THEN 8 ELSE 10 BY <2>2
  <2>4. Amount(U, base) = [x |-> Num(d), overflow |-> FALSE] BY <1>2, <2>1
  <2>5. strtoul(str, base) = Num(d) BY <1>3, <1>4, <1>5, <2>3, <2>4, StrtoulPlain
  <2>6. QED BY <2>1, <2>5
<1>7. ASSUME Num(d) = 0 PROVE strtoul(str, 0) = 0
  <2>1. Starts(U, {"0"}) BY <1>2, <1>7 DEF Starts
  <2>2. PICK radix, base, val : radix = 0 /\ base = 8 /\ val = 0 OBVIOUS
  <2>3. base = IF radix # 0 THEN radix ELSE IF Starts(U, {"0"}) THEN 8 ELSE 10 BY <2>1, <2>2
  <2>4. Amount(U, base) = [x |-> val, overflow |-> FALSE] BY <1>2, <1>7, <2>2
  <2>5. strtoul(str, radix) = val BY <1>3, <1>4, <1>5, <2>3, <2>4, StrtoulPlain
  <2>6. QED BY <2>2, <2>5
<1>8. QED BY <1>6, <1>7

\* What was printed is read back.
LEMMA ReadBack ==
    ASSUME NEW d, IsItem(d), IsNumeral(d)
    PROVE  /\ d.conv = "d" => strtol(Field(d), 10) = d.arg
           /\ d.conv = "u" => strtoul(Field(d), 10) = d.arg
           /\ d.conv \notin {"d", "u"} =>
                /\ strtoul(Field(d), 16) = d.arg
                /\ (d.conv = "p" \/ "#" \in d.flags) => strtoul(Field(d), 0) = d.arg
<1>1. /\ Num(d) \in 0 .. Word - 1
      /\ Negative(d) => Num(d) = - d.arg /\ d.arg \in - MaxLong - 1 .. -1
      /\ ~ Negative(d) => Num(d) = d.arg
  BY NumberIs
<1>2. PICK z \in Nat, b \in Nat :
        Skip(Field(d), isspace) = IF Prefix(d) \in {<<>>, <<SPACE>>} THEN Digits(d, z, b)
                                  ELSE Prefix(d) \o Digits(d, z, b)
  BY FieldSkipped
<1>3. PICK U : U = Digits(d, z, b) OBVIOUS
<1>4. /\ U \in Seq(Letters) /\ U # <<>> /\ Head(U) = U[1]
      /\ U[1] \notin isspace /\ U[1] \notin {"-", "+"}
  BY <1>3, DigitsAre
<1>5. PICK s : s = Skip(Field(d), isspace) OBVIOUS
<1>6. "-" \in Letters /\ "+" \in Letters /\ "0" \in Letters /\ "x" \in Letters /\ "X" \in Letters
      /\ "+" \notin isspace
  <2>1. "+" \notin isspace BY Spaces DEF isspace
  <2>2. QED BY <2>1, LettersAre
<1>7. CASE d.conv = "d"
  <2>1. Base(d) = 10 BY <1>7 DEF Base
  <2>2. CASE Negative(d)
    <3>1. Prefix(d) = <<"-">> /\ Prefix(d) \notin {<<>>, <<SPACE>>}
      <4>1. Prefix(d) = <<"-">> BY <1>7, <2>2, PrefixIs
      <4>2. <<"-">> # <<>> OBVIOUS
      <4>3. <<"-">> # <<SPACE>>
        <5>1. <<SPACE>>[1] = SPACE /\ <<"-">>[1] = "-" OBVIOUS
        <5>2. QED BY <5>1, Spaces
      <4>4. QED BY <4>1, <4>2, <4>3
    <3>2. s = <<"-">> \o U BY <1>2, <1>3, <1>5, <3>1
    <3>3. s # <<>> /\ Head(s) = "-" /\ Tail(s) = U BY <1>4, <1>6, <3>2, OneInFront
    <3>4. Starts(s, {"-"}) BY <3>3 DEF Starts
    <3>5. strtoul(U, 10) = Num(d)
      <4>1. Skip(U, isspace) = U BY <1>4, NoSkip
      <4>2. QED BY <1>3, <2>1, <4>1, ReadsDigits
    <3>6. PICK u : u = strtoul(U, 10) OBVIOUS
    <3>7. u = - d.arg /\ d.arg \in - MaxLong - 1 .. -1 /\ MaxLong \in Nat
      BY <1>1, <2>2, <3>5, <3>6, BitsAssumption
    <3>8. strtol(Field(d), 10) = - (IF u > MaxLong + 1 THEN MaxLong + 1 ELSE u)
      BY <1>5, <3>3, <3>4, <3>6 DEF strtol
    <3>9. ~ (u > MaxLong + 1) /\ - u = d.arg BY <3>7
    <3>10. QED BY <1>7, <3>8, <3>9
  <2>3. CASE ~ Negative(d)
    <3>1. s = U \/ s = <<"+">> \o U
      <4>1. Prefix(d) \in {<<>>, <<SPACE>>} \/ Prefix(d) = <<"+">> BY <1>7, <2>3, PrefixIs
      <4>2. CASE Prefix(d) \in {<<>>, <<SPACE>>} BY <1>2, <1>3, <1>5, <4>2
      <4>3. CASE ~ (Prefix(d) \in {<<>>, <<SPACE>>})
        <5>1. Prefix(d) = <<"+">> BY <4>1, <4>3
        <5>2. QED BY <1>2, <1>3, <1>5, <4>3, <5>1
      <4>4. QED BY <4>2, <4>3
    <3>2. ~ Starts(s, {"-"}) /\ Skip(s, isspace) = s
      <4>1. CASE s = U
        <5>1. Skip(U, isspace) = U BY <1>4, NoSkip
        <5>2. QED BY <1>4, <4>1, <5>1 DEF Starts
      <4>2. CASE s = <<"+">> \o U
        <5>1. s \in Seq(Letters) /\ s # <<>> /\ Head(s) = "+" /\ s[1] = "+" BY <1>4, <1>6, <4>2, OneInFront
        <5>2. Skip(s, isspace) = s BY <1>6, <5>1, NoSkip
        <5>3. QED BY <5>1, <5>2 DEF Starts
      <4>3. QED BY <3>1, <4>1, <4>2
    <3>3. strtoul(s, 10) = Num(d)
      <4>1. Skip(s, isspace) = Digits(d, z, b) \/ Skip(s, isspace) = <<"+">> \o Digits(d, z, b)
        BY <1>3, <3>1, <3>2
      <4>2. strtoul(s, Base(d)) = Num(d) BY <4>1, ReadsDigits
      <4>3. QED BY <2>1, <4>2
    <3>4. PICK u : u = strtoul(s, 10) OBVIOUS
    <3>5. u = d.arg /\ d.arg \in - MaxLong - 1 .. MaxLong /\ MaxLong \in Nat
      BY <1>1, <1>7, <2>3, <3>3, <3>4, BitsAssumption DEF IsItem
    <3>6. strtol(Field(d), 10) = IF u > MaxLong THEN MaxLong ELSE u
      BY <1>5, <3>2, <3>4 DEF strtol
    <3>7. ~ (u > MaxLong) BY <3>5
    <3>8. QED BY <1>7, <3>5, <3>6, <3>7
  <2>4. QED BY <2>2, <2>3
<1>8. CASE d.conv = "u"
  <2>1. Base(d) = 10 /\ ~ Negative(d) BY <1>8 DEF Base, Negative
  <2>2. s = U BY <1>2, <1>3, <1>5, <1>8, PrefixIs
  <2>3. strtoul(Field(d), Base(d)) = Num(d) BY <1>3, <1>5, <2>2, ReadsDigits
  <2>4. QED BY <1>1, <1>8, <2>1, <2>3
<1>9. CASE d.conv \notin {"d", "u"}
  <2>1. Base(d) = 16 /\ ~ Negative(d) /\ d.conv \in {"x", "X", "p"}
    BY <1>9 DEF Base, Negative, IsNumeral, Numerals
  <2>2. CASE Prefix(d) = <<>>
    <3>1. s = U BY <1>2, <1>3, <1>5, <2>2
    <3>2. strtoul(Field(d), Base(d)) = Num(d) /\ (Num(d) = 0 => strtoul(Field(d), 0) = 0)
      BY <1>3, <1>5, <3>1, ReadsDigits
    <3>3. <<>> \notin {<<"0", "x">>, <<"0", "X">>} OBVIOUS
    <3>4. (d.conv = "p" \/ "#" \in d.flags) => Num(d) = 0 BY <2>1, <2>2, <3>3, PrefixIs
    <3>5. QED BY <1>1, <1>9, <2>1, <3>2, <3>4
  <2>3. CASE Prefix(d) # <<>>
    <3>1. PICK x \in {"x", "X"} : Prefix(d) = <<"0", x>> BY <2>1, <2>3, PrefixIs
    <3>2. Prefix(d) \notin {<<>>, <<SPACE>>}
      <4>1. Len(<<"0", x>>) = 2 /\ Len(<<SPACE>>) = 1 OBVIOUS
      <4>2. QED BY <2>3, <3>1, <4>1
    <3>3. s = <<"0", x>> \o U BY <1>2, <1>3, <1>5, <3>1, <3>2
    <3>4. PICK o \in Seq(Letters), e \in Seq(Letters) : o = <<"0">> /\ e = <<x>>
      <4>1. <<"0">> \in Seq(Letters) /\ <<x>> \in Seq(Letters) BY <1>6
      <4>2. QED BY <4>1
    <3>5. <<"0", x>> = o \o e BY <3>4
    <3>6. Cat(Cat(o, e), U) = Cat(o, Cat(e, U))
      <4>1. o \in Seq(Letters) /\ e \in Seq(Letters) /\ U \in Seq(Letters) BY <1>4
      <4>2. QED BY <4>1, CatIs
    <3>7. s = <<"0">> \o (<<x>> \o U) BY <3>3, <3>4, <3>5, <3>6, Zenon DEF Cat
    <3>8. PICK t : t = <<x>> \o U OBVIOUS
    <3>9. x \in Letters BY <1>6
    <3>10. t \in Seq(Letters) /\ t # <<>> /\ Head(t) = x /\ Tail(t) = U BY <1>4, <3>8, <3>9, OneInFront
    <3>11. s = <<"0">> \o t BY <3>7, <3>8
    <3>12. s # <<>> /\ Head(s) = "0" /\ Tail(s) = t BY <1>6, <3>10, <3>11, OneInFront
    <3>13. Starts(s, {"0"}) /\ Starts(Tail(s), {"x", "X"}) /\ Tail(Tail(s)) = U
      BY <3>10, <3>12 DEF Starts
    <3>14. Amount(U, 16) = [x |-> Num(d), overflow |-> FALSE] BY <1>3, <2>1, DigitsAre
    <3>15. \A radix \in {0, 16} : strtoul(Field(d), radix) = Num(d)
      <4>1. ASSUME NEW radix \in {0, 16} PROVE strtoul(Field(d), radix) = Num(d)
        BY <1>5, <3>13, <3>14, StrtoulHex
      <4>2. QED BY <4>1
    <3>16. QED BY <1>1, <1>9, <2>1, <3>15
  <2>4. QED BY <2>2, <2>3
<1>10. QED BY <1>7, <1>8, <1>9

-----------------------------------------------------------------------------
\* Only calls that print into buffers have results.
LEMMA ResultNext ==
    [TerminalNext]_<<printerVars, keyVars>> => Snprintf \/ UserPanic \/ result' = result
<1> SUFFICES ASSUME [TerminalNext]_<<printerVars, keyVars>>, ~ Snprintf, ~ UserPanic
             PROVE  result' = result
  OBVIOUS
<1>1. CASE UNCHANGED printerVars BY <1>1 DEF printerVars
<1>2. CASE console_clear \/ KernelPanic \/ PanicNewline \/ Fail \/ Returned
  BY <1>2 DEF console_clear, KernelPanic, PanicNewline, Fail, Returned, printerVars
<1>3. CASE \E p \in Printers : Begin(p) \/ PrintStep(p)
  BY <1>3 DEF Begin, PrintStep, Scroll, Putc, Finish
<1>4. QED BY <1>1, <1>2, <1>3 DEF TerminalNext, PrinterNext

(***************************************************************************)
(* For every size of a buffer and whatever is printed into it, vsnprintf   *)
(* writes no more than fits, its terminator included, and returns the      *)
(* length of the whole text, all of which is there if it fits; and panic   *)
(* of a process leaves its message as one line.                            *)
(***************************************************************************)
THEOREM BuffersHold == TerminalSpec => []BufferHolds
<1>1. TerminalInit => BufferHolds BY DEF TerminalInit, ConsoleInit, BufferHolds
<1>2. BufferHolds /\ [TerminalNext]_<<printerVars, keyVars>> => BufferHolds'
  <2> SUFFICES ASSUME BufferHolds, [TerminalNext]_<<printerVars, keyVars>> PROVE BufferHolds'
    OBVIOUS
  <2>1. CASE result' = result BY <2>1 DEF BufferHolds
  <2>2. CASE Snprintf
    <3>1. PICK d \in Items, size \in Sizes :
            result' = [call |-> "snprintf", item |-> d, size |-> size,
                       out |-> vsnprintf(size, <<d>>)]
      BY <2>2 DEF Snprintf
    <3>2. PICK o : o = vsnprintf(size, <<d>>) OBVIOUS
    <3>3. IsItem(d) /\ size \in Nat BY ConsoleAssumption
    <3>4. /\ o.n = Len(Field(d)) /\ Len(o.s) <= size
          /\ size > 0 => Last(o.s) = NUL /\ Len(Text(o.s)) = Len(o.s) - 1
          /\ o.n < size => Text(o.s) = Field(d)
      BY <3>2, <3>3, Printed
    <3>5. Len(Field(d)) >= d.width BY <3>3, FieldFills
    <3>6. /\ result'.call = "snprintf" /\ result'.item = d /\ result'.size = size /\ result'.out = o
      BY <3>1, <3>2
    <3>7. QED BY <3>4, <3>5, <3>6 DEF BufferHolds
  <2>3. CASE UserPanic
    <3>1. PICK d \in Items :
            /\ Len(Field(d)) + 1 < PanicSize
            /\ result' = [call |-> "panic", item |-> d, size |-> PanicSize,
                          out |-> [s |-> PanicBuffer(<<d>>), n |-> Len(PanicBuffer(<<d>>))]]
      BY <2>3 DEF UserPanic
    <3>2. PICK s : s = PanicBuffer(<<d>>) OBVIOUS
    <3>3. IsItem(d) BY ConsoleAssumption
    <3>4. /\ Len(s) <= PanicSize /\ Last(s) = NUL /\ Len(Text(s)) = Len(s) - 1
          /\ s[Len(s) - 1] = "nl" /\ Head(s) = PANIC /\ MessageIn(s, Field(d))
      BY <3>1, <3>2, <3>3, Panicked
    <3>5. /\ result'.call = "panic" /\ result'.size = PanicSize /\ result'.out.s = s
          /\ result'.item = d
      BY <3>1, <3>2
    <3>6. QED BY <3>4, <3>5 DEF BufferHolds
  <2>4. QED BY <2>1, <2>2, <2>3, ResultNext
<1>3. QED BY <1>1, <1>2, PTL DEF TerminalSpec

(***************************************************************************)
(* For words of every width: strtol and strtoul read back what vprintf     *)
(* wrote, whatever the flags, the width and the precision, the largest and *)
(* the smallest numbers included.                                          *)
(***************************************************************************)
THEOREM NumbersReadBack == TerminalSpec => []ParsesBack
<1>1. TerminalInit => ParsesBack BY DEF TerminalInit, ConsoleInit, ParsesBack
<1>2. ParsesBack /\ [TerminalNext]_<<printerVars, keyVars>> => ParsesBack'
  <2> SUFFICES ASSUME ParsesBack, [TerminalNext]_<<printerVars, keyVars>> PROVE ParsesBack'
    OBVIOUS
  <2>1. CASE result' = result BY <2>1 DEF ParsesBack
  <2>2. CASE Snprintf
    <3>1. PICK d \in Items, size \in Sizes :
            result' = [call |-> "snprintf", item |-> d, size |-> size,
                       out |-> vsnprintf(size, <<d>>)]
      BY <2>2 DEF Snprintf
    <3>2. PICK o : o = vsnprintf(size, <<d>>) OBVIOUS
    <3>3. IsItem(d) /\ size \in Nat BY ConsoleAssumption
    <3>4. o.n < size => Text(o.s) = Field(d) BY <3>2, <3>3, Printed
    <3>5. /\ result'.call = "snprintf" /\ result'.item = d /\ result'.size = size /\ result'.out = o
      BY <3>1, <3>2
    <3>6. ASSUME IsNumeral(d), o.n < size
          PROVE  CASE d.conv = "d" -> strtol(Field(d), 10) = d.arg
                   [] d.conv = "u" -> strtoul(Field(d), 10) = d.arg
                   [] OTHER        -> /\ strtoul(Field(d), 16) = d.arg
                                      /\ (d.conv = "p" \/ "#" \in d.flags) => strtoul(Field(d), 0) = d.arg
      BY <3>3, <3>6, ReadBack
    <3>7. QED BY <3>4, <3>5, <3>6 DEF ParsesBack
  <2>3. CASE UserPanic
    <3>1. result'.call = "panic" BY <2>3 DEF UserPanic
    <3>2. QED BY <3>1 DEF ParsesBack
  <2>4. QED BY <2>1, <2>2, <2>3, ResultNext
<1>3. QED BY <1>1, <1>2, PTL DEF TerminalSpec

-----------------------------------------------------------------------------
(* The keyboard. *)

\* A byte of a key: the prefix, or its code, plus 128 when it was released.
KeyBytes == [data : 1 .. 255, key : Keys, held : SUBSET Keys]
Escapes(b) == b.data = 224
Sent(b) == \/ b.data \in {b.key.code, b.key.code + 128}
           \/ Escapes(b) /\ b.key.ext

\* The keys that are down once a byte has told of its key.
Following(b) ==
    IF Escapes(b) THEN b.held ELSE IF b.data >= 128 THEN b.held \ {b.key} ELSE b.held \cup {b.key}

\* The keys that are down as far as the bytes read have told.
Told == IF queue = <<>> THEN down ELSE queue[1].held

\* Each byte in the controller follows the one before it.
InOrder(i) ==
    /\ Sent(queue[i])
    /\ Escapes(queue[i]) => i < Len(queue) /\ ~ Escapes(queue[i + 1])
    /\ ~ Escapes(queue[i]) =>
            (queue[i].key.ext <=> IF i = 1 THEN last_escape = 128 ELSE Escapes(queue[i - 1]))
    /\ Following(queue[i]) = IF i = Len(queue) THEN down ELSE queue[i + 1].held

KeyType ==
    /\ down \subseteq Keys /\ queue \in Seq(KeyBytes)
    /\ modifiers \subseteq 0 .. 5 /\ last_escape \in {0, 128}

BytesInOrder ==
    /\ \A i \in 1 .. Len(queue) : InOrder(i)
    /\ last_escape = 128 => queue # <<>> /\ ~ Escapes(queue[1])

\* A modifier is on only while a key of it is down, as far as has been told.
ModifierHeld == \A m \in modifiers \cap 0 .. 2 : \E k \in Told : Kind(k) = KEY_SHIFT + m

KeysInv == KeyType /\ BytesInOrder /\ ModifierHeld /\ OffOnPurpose

\* Every key has a kind; none is 3, the character of control-C, by itself.
LEMMA Kinds ==
    /\ \A c \in 0 .. 255 : At(c) \in 0 .. 255 \ {3}
    /\ \A k \in Keys : /\ k.code \in 1 .. 127 \ {96} /\ k.ext \in BOOLEAN
                       /\ Kind(k) \in 0 .. 255 \ {3}
                       /\ Kind(k) = At(k.code + (IF k.ext THEN 128 ELSE 0))
<1> DEFINE S == 0 .. 255 \ {3}
<1>1. \A n \in Nat : Zero(n) \in Seq(S)
  BY DEF Zero
<1>2. \A s, t \in Seq(S) : s \o t \in Seq(S)
  BY ConcatProperties, Zenon
<1>3. keymap \in Seq(S)
  <2> DEFINE r0 == <<0, 27, 128, 129, 130, 131, 132, 133, 134, 135, 136, 137, 138, 139, 8, 9>>
             r1 == <<113, 119, 101, 114, 116, 121, 117, 105, 111, 112, 140, 141, 142, 251, 97, 115>>
             r2 == <<100, 102, 103, 104, 106, 107, 108, 143, 144, 145, 250, 146, 122, 120, 99, 118>>
             r3 == <<98, 110, 109, 147, 148, 149, 250, 42, 252, 32, 253, 0, 0, 0, 0, 0>>
             r4 == <<0, 0, 0, 0, 0, 254, 255, 55, 56, 57, 45, 52, 53, 54, 43, 49>>
             r5 == <<50, 51, 48, 46>>
             r6 == <<142, 251, 0, 0>>
             r7 == <<47, 0, 0, 252>>
             r8 == <<196, 192, 198, 0, 195, 0, 193, 0, 197>>
             r9 == <<194, 199, 200, 201>>
             k1 == r0 \o r1 \o r2 \o r3 \o r4
             k2 == k1 \o r5 \o Zero(12) \o Zero(48) \o Zero(12)
             k3 == k2 \o r6 \o Zero(16) \o Zero(5) \o r7
             k4 == k3 \o Zero(7) \o Zero(7) \o r8 \o r9
  <2>1. /\ r0 \in Seq(S) /\ r1 \in Seq(S) /\ r2 \in Seq(S) /\ r3 \in Seq(S) /\ r4 \in Seq(S)
        /\ r5 \in Seq(S) /\ r6 \in Seq(S) /\ r7 \in Seq(S) /\ r8 \in Seq(S) /\ r9 \in Seq(S)
    OBVIOUS
  <2>2. /\ Zero(12) \in Seq(S) /\ Zero(48) \in Seq(S) /\ Zero(16) \in Seq(S) /\ Zero(5) \in Seq(S)
        /\ Zero(7) \in Seq(S) /\ Zero(44) \in Seq(S)
    BY <1>1
  <2>3. keymap = k4 \o Zero(44)
    BY Zenon DEF keymap
  <2> HIDE DEF S, r0, r1, r2, r3, r4, r5, r6, r7, r8, r9
  <2>4. ASSUME NEW a \in Seq(S), NEW b \in Seq(S), NEW c \in Seq(S), NEW d \in Seq(S), NEW e \in Seq(S)
        PROVE  a \o b \o c \o d \o e \in Seq(S)
    BY <1>2, Zenon
  <2>5. k1 \in Seq(S)
    BY <2>1, <2>4, Zenon
  <2> HIDE DEF k1
  <2>6. k2 \in Seq(S)
    BY <2>1, <2>2, <2>4, <2>5, Zenon
  <2> HIDE DEF k2
  <2>7. k3 \in Seq(S)
    BY <2>1, <2>2, <2>4, <2>6, Zenon
  <2> HIDE DEF k3
  <2>8. k4 \in Seq(S)
    BY <2>1, <2>2, <2>4, <2>7, Zenon
  <2> HIDE DEF k4
  <2> QED BY <1>2, <2>2, <2>3, <2>8, Zenon
<1>4. \A c \in 0 .. 255 : At(c) \in S
  <2> HIDE DEF S
  <2>1. \A i \in 1 .. 256 : keymap[i] \in S
    <3>1. Len(keymap) = 256
      BY KeymapAssumption
    <3>2. \A i \in 1 .. Len(keymap) : keymap[i] \in S
      BY <1>3, ElementOfSeq, Zenon
    <3> QED BY <3>1, <3>2
  <2> QED BY <2>1 DEF At
<1>5. \A k \in Keys : k.code \in 1 .. 127 \ {96} /\ k.ext \in BOOLEAN
  BY KeyboardAssumption
<1>6. \A k \in Keys : Kind(k) = At(k.code + (IF k.ext THEN 128 ELSE 0))
  BY DEF Kind
<1>7. \A k \in Keys : k.code + (IF k.ext THEN 128 ELSE 0) \in 0 .. 255
  BY <1>5
<1>8. \A k \in Keys : Kind(k) \in S
  <2> HIDE DEF S
  <2> QED BY <1>4, <1>6, <1>7
<1> QED
  BY <1>4, <1>5, <1>6, <1>8

\* The user presses or releases a key, and the controller keeps its bytes.
LEMMA SendKeeps ==
    ASSUME KeysInv, NEW k \in Keys, NEW data \in {k.code, k.code + 128}, Send(Bytes(k, data)),
           down' = IF data < 128 THEN down \cup {k} ELSE down \ {k}
    PROVE  KeysInv'
<1> DEFINE bs == Bytes(k, data)
           last == [data |-> data, key |-> k, held |-> down]
           first == [data |-> 224, key |-> k, held |-> down]
           n == Len(queue)
<1>1. /\ power = "on" /\ queue' = queue \o bs
      /\ UNCHANGED <<modifiers, last_escape, power>>
  BY DEF Send
<1>2. k.code \in 1 .. 127 \ {96} /\ k.ext \in BOOLEAN /\ data \in 1 .. 255 /\ data # 224
  <2>1. k.code \in 1 .. 127 \ {96} /\ k.ext \in BOOLEAN
    BY Kinds, Zenon
  <2>2. data = k.code \/ data = k.code + 128
    OBVIOUS
  <2>3. data \in 1 .. 255 /\ data # 224
    BY <2>1, <2>2
  <2> QED BY <2>1, <2>3
<1>3. last \in KeyBytes /\ first \in KeyBytes
  BY <1>2 DEF KeyBytes, KeysInv, KeyType
<1>4. bs = IF k.ext THEN <<first, last>> ELSE <<last>>
  BY DEF Bytes
<1>5. bs \in Seq(KeyBytes)
  BY <1>3, <1>4
<1> DEFINE l == IF k.ext THEN 2 ELSE 1
<1>6. Len(bs) = l /\ bs[l] = last /\ (k.ext => bs[1] = first)
  BY <1>4
<1> HIDE DEF bs
<1>7. /\ queue' \in Seq(KeyBytes) /\ Len(queue') = n + l /\ n \in Nat
      /\ \A i \in 1 .. n + l : queue'[i] = IF i <= n THEN queue[i] ELSE bs[i - n]
  <2>1. queue \in Seq(KeyBytes)
    BY DEF KeysInv, KeyType
  <2>2. /\ queue \o bs \in Seq(KeyBytes) /\ Len(queue \o bs) = Len(queue) + Len(bs)
        /\ \A i \in 1 .. Len(queue) + Len(bs) :
                (queue \o bs)[i] = IF i <= Len(queue) THEN queue[i] ELSE bs[i - Len(queue)]
    BY <1>5, <2>1, ConcatProperties, ZenonT(60)
  <2>3. n \in Nat
    BY <2>1
  <2> QED BY <1>1, <1>6, <2>3, <2>2, Zenon
<1>8. Told' = Told
  <2>1. queue' # <<>>
    BY <1>7
  <2>2. CASE queue = <<>>
    <3>1. n = 0 /\ queue'[1] = bs[1]
      BY <1>7, <2>2
    <3> QED BY <1>6, <2>1, <2>2, <3>1 DEF Told
  <2>3. CASE queue # <<>>
    <3>1. n > 0
      BY <2>3 DEF KeysInv, KeyType
    <3>2. queue'[1] = queue[1]
      BY <1>7, <3>1
    <3> QED BY <2>1, <2>3, <3>2 DEF Told
  <2> QED BY <2>2, <2>3
<1>9. \A i \in 1 .. n : queue'[i] = queue[i]
  BY <1>7
<1>10. queue'[n + l] = last /\ (k.ext => queue'[n + 1] = first)
  BY <1>6, <1>7
<1>11. queue'[n + 1].held = down
  BY <1>10
<1>12. /\ ~ Escapes(last) /\ Sent(last) /\ Following(last) = down' /\ last.key = k
       /\ k.ext => Sent(first) /\ Escapes(first) /\ Following(first) = down
  <2>1. /\ last.data = data /\ last.key = k /\ last.held = down
        /\ first.data = 224 /\ first.key = k /\ first.held = down
    OBVIOUS
  <2>2. data < 128 <=> data = k.code
    BY <1>2
  <2> HIDE DEF last, first
  <2>3. ~ Escapes(last) /\ Sent(last) /\ last.key = k
    BY <1>2, <2>1 DEF Escapes, Sent
  <2>4. Following(last) = down'
    BY <1>2, <2>1, <2>3 DEF Following
  <2>5. k.ext => Sent(first) /\ Escapes(first) /\ Following(first) = down
    BY <2>1 DEF Escapes, Sent, Following
  <2> QED BY <2>3, <2>4, <2>5
<1> HIDE DEF last, first, n
<1>13. n > 0 => ~ Escapes(queue[n]) /\ Following(queue[n]) = down
  BY <1>7 DEF KeysInv, BytesInOrder, InOrder, n
<1>14. n = 0 => last_escape # 128
  BY DEF KeysInv, BytesInOrder, KeyType, n
<1>15. ASSUME NEW i \in 1 .. n + l PROVE InOrder(i)'
  <2>1. CASE i < n
    <3>1. InOrder(i)
      BY <1>7, <2>1 DEF KeysInv, BytesInOrder, n
    <3>2. /\ i \in 1 .. n /\ i + 1 \in 1 .. n /\ (i # 1 => i - 1 \in 1 .. n)
          /\ i < Len(queue') /\ i < Len(queue) /\ i # Len(queue') /\ i # Len(queue)
      BY <1>7, <2>1 DEF n
    <3> QED BY <1>1, <1>9, <3>1, <3>2 DEF InOrder
  <2>2. CASE i = n
    <3>1. InOrder(i)
      BY <1>7, <2>2 DEF KeysInv, BytesInOrder, n
    <3>2. /\ i \in 1 .. n /\ (i # 1 => i - 1 \in 1 .. n) /\ i < Len(queue') /\ i # Len(queue')
      BY <1>7, <2>2
    <3>3. ~ Escapes(queue[i]) /\ Following(queue[i]) = queue'[i + 1].held
      BY <1>11, <1>13, <2>2, <3>2
    <3> QED BY <1>1, <1>9, <3>1, <3>2, <3>3 DEF InOrder
  <2>3. CASE i > n /\ ~ k.ext
    <3>1. i = n + 1 /\ i = Len(queue') /\ queue'[i] = last
      BY <1>7, <1>10, <2>3
    <3>2. ~ IF i = 1 THEN last_escape' = 128 ELSE Escapes(queue'[i - 1])
      <4>1. CASE n = 0
        BY <1>1, <1>14, <3>1, <4>1
      <4>2. CASE n > 0
        BY <1>7, <1>9, <1>13, <3>1, <4>2
      <4> QED BY <1>7, <4>1, <4>2
    <3> QED BY <1>12, <2>3, <3>1, <3>2 DEF InOrder
  <2>4. CASE i = n + 1 /\ k.ext
    <3>1. i # Len(queue') /\ i < Len(queue') /\ queue'[i] = first /\ queue'[i + 1] = last
      BY <1>7, <1>10, <2>4
    <3>2. last.held = down
      BY DEF last
    <3> QED BY <1>12, <2>4, <3>1, <3>2 DEF InOrder
  <2>5. CASE i = n + 2 /\ k.ext
    <3>1. i = Len(queue') /\ i # 1 /\ queue'[i] = last /\ queue'[i - 1] = first
      BY <1>7, <1>10, <2>5
    <3> QED BY <1>12, <2>5, <3>1 DEF InOrder
  <2> QED BY <1>7, <2>1, <2>2, <2>3, <2>4, <2>5
<1>16. BytesInOrder'
  <2>1. last_escape' = 128 => queue' # <<>> /\ ~ Escapes(queue'[1])
    <3> SUFFICES ASSUME last_escape = 128 PROVE queue' # <<>> /\ ~ Escapes(queue'[1])
      BY <1>1
    <3>1. n > 0 /\ ~ Escapes(queue[1])
      BY <1>7, <1>14 DEF KeysInv, BytesInOrder
    <3> QED BY <1>7, <1>9, <3>1
  <2> QED BY <1>7, <1>15, <2>1 DEF BytesInOrder
<1>17. KeyType'
  BY <1>1, <1>7 DEF KeysInv, KeyType
<1>18. ModifierHeld'
  BY <1>1, <1>8 DEF KeysInv, ModifierHeld
<1>19. OffOnPurpose'
  BY <1>1 DEF OffOnPurpose
<1> QED
  BY <1>16, <1>17, <1>18, <1>19 DEF KeysInv

\* There is a byte.
Pending == queue # <<>>

\* What keyboard_readc makes of the next byte: it takes the key for what it is.
LEMMA ReadsByte ==
    ASSUME KeysInv, Pending
    PROVE  LET b == queue[1]
               r == keyboard_readc
           IN  /\ Escapes(b) => r = Result(0, modifiers, 128)
               /\ ~ Escapes(b) => r.last_escape = 0
               /\ ~ Escapes(b) /\ b.data >= 128 =>
                    /\ r.ret = 0
                    /\ r.modifiers = IF Kind(b.key) \in 250 .. 252
                                     THEN modifiers \ {Kind(b.key) - 250} ELSE modifiers
               /\ b.data < 128 =>
                    /\ r.modifiers = IF Kind(b.key) >= 253 THEN Toggled(Kind(b.key) - 250)
                                     ELSE IF Kind(b.key) >= 250 THEN modifiers \cup {Kind(b.key) - 250}
                                     ELSE modifiers
                    /\ r.ret \in {3, 113} =>
                        Kind(b.key) = 113 \/ (Kind(b.key) = 99 /\ MOD_CONTROL \in modifiers)
<1> DEFINE b == queue[1]
           r == keyboard_readc
           ch == Kind(b.key)
<1>1. Head(queue) = b /\ b \in KeyBytes /\ InOrder(1)
  BY DEF KeysInv, KeyType, BytesInOrder, Pending
<1>2. ~ queue = <<>>
  BY DEF Pending
<1>3. b.data \in 1 .. 255 /\ b.key \in Keys
  BY <1>1 DEF KeyBytes
<1>4. /\ b.key.code \in 1 .. 127 \ {96} /\ b.key.ext \in BOOLEAN /\ ch \in 0 .. 255 \ {3}
      /\ ch = At(b.key.code + (IF b.key.ext THEN 128 ELSE 0))
  BY <1>3, Kinds, Zenon
<1>5. b.key.code \in 1 .. 127
  BY <1>4
<1>6. ch \in 0 .. 255 /\ ch # 3
  BY <1>4
<1>7. b.data \in 1 .. 255
  BY <1>3
<1> HIDE DEF ch
<1>8. ~ Escapes(b) => last_escape = IF b.key.ext THEN 128 ELSE 0
  BY <1>1 DEF InOrder, KeysInv, KeyType
<1>9. ~ Escapes(b) => Escaped(b.key.code) = ch
  BY <1>4, <1>8 DEF Escaped
<1>10. ~ Escapes(b) => b.key.code = IF b.data >= 128 THEN b.data - 128 ELSE b.data
  <2>1. ~ Escapes(b) => b.data \in {b.key.code, b.key.code + 128}
    BY <1>1 DEF InOrder, Sent
  <2>2. \A d \in 1 .. 255, c \in 1 .. 127 :
            d \in {c, c + 128} => c = IF d >= 128 THEN d - 128 ELSE d
    OBVIOUS
  <2> QED BY <1>5, <1>7, <2>1, <2>2, SMTT(30)
<1>11. r = IF Escapes(b) THEN Result(0, modifiers, 128)
           ELSE IF b.data >= 128 THEN Released(b.data) ELSE Pressed(b.data)
  BY <1>1, <1>2 DEF keyboard_readc, Escapes
<1> HIDE DEF r, b
<1>12. \A c, m, e : /\ Result(c, m, e).ret = c /\ Result(c, m, e).modifiers = m
                    /\ Result(c, m, e).last_escape = e
  BY DEF Result
<1>13. ASSUME ~ Escapes(b), b.data >= 128
       PROVE  r = Result(0, IF ch \in 250 .. 252 THEN modifiers \ {ch - 250} ELSE modifiers, 0)
  <2>1. Escaped(b.data - 128) = ch
    BY <1>9, <1>10, <1>13
  <2>2. r = Released(b.data)
    BY <1>11, <1>13
  <2>3. r = Result(0, IF ch \in KEY_SHIFT .. KEY_CAPSLOCK - 1 THEN modifiers \ {Bit(ch)} ELSE modifiers, 0)
    BY <2>1, <2>2, Zenon DEF Released
  <2> QED BY <2>3 DEF KEY_SHIFT, KEY_CAPSLOCK, Bit
<1>14. b.data < 128 => ~ Escapes(b)
  BY <1>3 DEF Escapes
<1>15. b.data < 128 => ~ b.data >= 128
  BY <1>7
<1>16. ASSUME b.data < 128
       PROVE  /\ r.last_escape = 0
              /\ r.modifiers = IF ch >= 253 THEN Toggled(ch - 250)
                               ELSE IF ch >= 250 THEN modifiers \cup {ch - 250} ELSE modifiers
              /\ r.ret \in {3, 113} => ch = 113 \/ (ch = 99 /\ MOD_CONTROL \in modifiers)
  <2>1. Escaped(b.data) = ch
    BY <1>15, <1>9, <1>10, <1>14, <1>16, Zenon
  <2>2. r = Pressed(b.data)
    BY <1>15, <1>11, <1>14, <1>16, Zenon
  <2>3. r = IF ch \in 97 .. 122 THEN Result(Letter(ch), modifiers, 0)
            ELSE IF ch >= KEY_SHIFT THEN Modifier(ch)
            ELSE IF ch \in CKEY(0) .. CKEY(21)
            THEN Result(complex_keymap[ch - CKEY(0) + 1][Column], modifiers, 0)
            ELSE IF ch < 128 /\ MOD_CONTROL \in modifiers THEN Result(0, modifiers, 0)
            ELSE Result(ch, modifiers, 0)
    BY <2>1, <2>2, Zenon DEF Pressed
  <2>4. KEY_SHIFT = 250 /\ KEY_CAPSLOCK = 253 /\ CKEY(0) = 128 /\ CKEY(21) = 149
    BY DEF KEY_SHIFT, KEY_CAPSLOCK, CKEY
  <2>5. CASE ch \in 97 .. 122
    <3>1. Letter(ch) \in {3, 113} => ch = 113 \/ (ch = 99 /\ MOD_CONTROL \in modifiers)
      BY <2>5 DEF Letter
    <3>2. r = Result(Letter(ch), modifiers, 0)
      BY <2>3, <2>5, Zenon
    <3>3. ~ ch >= 250 /\ ~ ch >= 253
      BY <2>5
    <3>4. /\ r.ret = Letter(ch) /\ r.modifiers = modifiers /\ r.last_escape = 0
      BY <1>12, <3>2
    <3> QED BY <3>1, <3>3, <3>4, Zenon
  <2>6. CASE ch >= 250
    <3>1. ch \notin 97 .. 122
      BY <2>6
    <3>2. r = Modifier(ch)
      BY <2>3, <2>4, <2>6, <3>1, Zenon
    <3>3. r = Result(0, IF ch >= 253 THEN Toggled(ch - 250) ELSE modifiers \cup {ch - 250}, 0)
      BY <3>2 DEF Modifier, Bit, KEY_SHIFT, KEY_CAPSLOCK
    <3> QED BY <1>12, <2>6, <3>3
  <2>7. CASE ch \in 128 .. 149
    <3> DEFINE x == complex_keymap[ch - CKEY(0) + 1][Column]
    <3>1. x \notin {3, 113}
      <4>1. \A i \in 1 .. 22 : i \in {1, 2, 3, 4, 5, 6, 7, 8, 9, 10, 11, 12, 13, 14, 15, 16, 17,
                                      18, 19, 20, 21, 22}
        OBVIOUS
      <4>2. Column \in {1, 2, 3, 4}
        BY DEF Column
      <4>3. \A i \in 1 .. 22 : \A c \in {1, 2, 3, 4} : complex_keymap[i][c] \notin {3, 113}
        <5> SUFFICES ASSUME NEW i \in 1 .. 22, NEW c \in {1, 2, 3, 4}
                     PROVE  complex_keymap[i][c] # 3 /\ complex_keymap[i][c] # 113
          OBVIOUS
        <5> QED BY <4>1 DEF complex_keymap
      <4>4. ch - CKEY(0) + 1 \in 1 .. 22
        BY <2>4, <2>7
      <4> QED BY <4>2, <4>3, <4>4, Zenon
    <3>2. r = Result(x, modifiers, 0) /\ ~ ch >= 250
      BY <2>3, <2>4, <2>7
    <3> HIDE DEF x
    <3> QED BY <1>12, <1>6, <3>1, <3>2
  <2>8. CASE ch \notin 97 .. 122 /\ ~ ch >= 250 /\ ch \notin 128 .. 149
    <3>1. r = Result(0, modifiers, 0) \/ r = Result(ch, modifiers, 0)
      BY <2>3, <2>4, <2>8
    <3>2. ch # 3 /\ ch # 113 /\ ch \in Int /\ ~ ch >= 253
      BY <1>6, <2>8
    <3>3. r.last_escape = 0 /\ r.modifiers = modifiers /\ r.ret \in {0, ch}
      BY <1>12, <3>1
    <3> QED BY <2>8, <3>2, <3>3
  <2> QED BY <2>5, <2>6, <2>7, <2>8
<1>17. Escapes(b) => r = Result(0, modifiers, 128)
  BY <1>11, Zenon
<1>18. ~ Escapes(b) /\ b.data >= 128 =>
            /\ r.ret = 0 /\ r.last_escape = 0
            /\ r.modifiers = IF ch \in 250 .. 252 THEN modifiers \ {ch - 250} ELSE modifiers
  BY <1>12, <1>13
<1>19. b.data < 128 \/ b.data >= 128
  BY <1>7
<1> QED
  BY <1>16, <1>17, <1>18, <1>19, Zenon DEF ch, b, r

\* The kernel looks at the next byte.
LEMMA CheckKeeps == ASSUME KeysInv, check_keyboard PROVE KeysInv'
<1> DEFINE b == queue[1]
           r == keyboard_readc
<1>1. CASE queue = <<>>
  <2>1. r = Result(-1, modifiers, last_escape)
    BY <1>1 DEF keyboard_readc
  <2>2. r.ret = -1 /\ r.modifiers = modifiers /\ r.last_escape = last_escape
    BY <2>1 DEF Result
  <2>3. queue' = queue /\ down' = down /\ modifiers' = modifiers /\ last_escape' = last_escape /\ power' = "on"
    BY <1>1, <2>2 DEF check_keyboard
  <2> QED BY <2>3 DEF KeysInv, KeyType, BytesInOrder, InOrder, ModifierHeld, Told, OffOnPurpose
<1>2. CASE queue # <<>>
  <2> DEFINE n == Len(queue)
  <2>1. /\ queue' = Tail(queue) /\ read' = b /\ down' = down
        /\ ret' = r.ret /\ power' = (IF ret' \in {3, 113} THEN "off" ELSE "on")
    BY <1>2 DEF check_keyboard, KeysInv, KeyType
  <2>2. /\ queue' \in Seq(KeyBytes) /\ Len(queue') = n - 1 /\ n \in Nat \ {0}
        /\ \A i \in 1 .. n - 1 : queue'[i] = queue[i + 1]
    BY <1>2, <2>1 DEF KeysInv, KeyType
  <2>3. /\ Escapes(b) => r = Result(0, modifiers, 128)
        /\ ~ Escapes(b) => r.last_escape = 0
        /\ ~ Escapes(b) /\ b.data >= 128 =>
             /\ r.ret = 0
             /\ r.modifiers = IF Kind(b.key) \in 250 .. 252
                              THEN modifiers \ {Kind(b.key) - 250} ELSE modifiers
        /\ b.data < 128 =>
             /\ r.modifiers = IF Kind(b.key) >= 253 THEN Toggled(Kind(b.key) - 250)
                              ELSE IF Kind(b.key) >= 250 THEN modifiers \cup {Kind(b.key) - 250}
                              ELSE modifiers
             /\ r.ret \in {3, 113} =>
                 Kind(b.key) = 113 \/ (Kind(b.key) = 99 /\ MOD_CONTROL \in modifiers)
    BY <1>2, ReadsByte DEF Pending
  <2>4. b \in KeyBytes /\ InOrder(1) /\ b.key \in Keys /\ b.data \in 1 .. 255 /\ b.held \subseteq Keys
    <3>1. queue \in Seq(KeyBytes) /\ 1 \in 1 .. n
      BY <2>2 DEF KeysInv, KeyType
    <3>2. b \in KeyBytes
      BY <3>1, ElementOfSeq
    <3>3. InOrder(1)
      BY <3>1 DEF KeysInv, BytesInOrder
    <3> QED BY <3>2, <3>3 DEF KeyBytes
  <2>5. Kind(b.key) \in 0 .. 255
    BY <2>4, Kinds
  <2>6. Told' = Following(b)
    <3>1. CASE n = 1
      <4>1. queue' = <<>>
        BY <2>2, <3>1
      <4> QED BY <2>1, <2>4, <3>1, <4>1 DEF Told, InOrder
    <3>2. CASE n > 1
      <4>1. queue' # <<>> /\ queue'[1] = queue[2]
        BY <2>2, <3>2
      <4> QED BY <2>4, <3>2, <4>1 DEF Told, InOrder
    <3> QED BY <2>2, <3>1, <3>2
  <2>7. \A m \in modifiers \cap 0 .. 2 : \E k \in b.held : Kind(k) = 250 + m
    BY <1>2 DEF KeysInv, ModifierHeld, Told, KEY_SHIFT
  <2>8. b = queue[1] /\ queue # <<>>
    BY <1>2
  <2> DEFINE kd == Kind(b.key)
             Reset == r.ret \in {97, 102, 101}
  <2>9. /\ modifiers' = (IF Reset THEN {} ELSE r.modifiers)
        /\ last_escape' = (IF Reset THEN 0 ELSE r.last_escape)
    BY <1>2 DEF check_keyboard
  <2> HIDE DEF r, b, kd
  <2>10. /\ kd \in 0 .. 255 /\ modifiers \subseteq 0 .. 5
         /\ Escapes(b) => r.ret = 0 /\ r.modifiers = modifiers /\ r.last_escape = 128
         /\ ~ Escapes(b) /\ b.data >= 128 => r.modifiers = IF kd \in 250 .. 252 THEN modifiers \ {kd - 250} ELSE modifiers
         /\ b.data < 128 => r.modifiers = IF kd >= 253 THEN Toggled(kd - 250)
                                          ELSE IF kd >= 250 THEN modifiers \cup {kd - 250} ELSE modifiers
         /\ b.data < 128 \/ b.data >= 128
         /\ b.data >= 128 => ~ b.data < 128
         /\ Escapes(b) => b.data >= 128
    <3>1. Escapes(b) => r.ret = 0 /\ r.modifiers = modifiers /\ r.last_escape = 128
      BY <2>3 DEF Result
    <3>2. b.data \in 1 .. 255
      BY <2>4
    <3>3. /\ b.data < 128 \/ b.data >= 128
          /\ b.data >= 128 => ~ b.data < 128
          /\ Escapes(b) => b.data >= 128
      BY <3>2 DEF Escapes
    <3>4. kd \in 0 .. 255 /\ modifiers \subseteq 0 .. 5
      BY <2>5 DEF kd, KeysInv, KeyType
    <3> QED BY <2>3, <3>1, <3>3, <3>4, Zenon DEF kd
  <2>11. last_escape' = IF Escapes(b) THEN 128 ELSE 0
    BY <2>3, <2>9, <2>10
  <2>12. KeyType'
    <3>1. r.modifiers \subseteq 0 .. 5
      BY <2>10 DEF Toggled
    <3> QED BY <2>1, <2>2, <2>9, <2>11, <3>1 DEF KeysInv, KeyType
  <2>13. BytesInOrder'
    <3>1. ASSUME NEW i \in 1 .. n - 1 PROVE InOrder(i)'
      <4>1. /\ i + 1 \in 1 .. n /\ queue'[i] = queue[i + 1] /\ (i + 1 = n <=> i = Len(queue')) /\ i + 1 # 1
            /\ (i < Len(queue') <=> i + 1 < n) /\ (i < Len(queue') => queue'[i + 1] = queue[i + 1 + 1])
            /\ (i # Len(queue') => queue'[i + 1] = queue[i + 1 + 1])
            /\ (i # 1 => queue'[i - 1] = queue[i]) /\ i + 1 - 1 = i
        BY <2>2
      <4>2. InOrder(i + 1)
        BY <2>2, <4>1 DEF KeysInv, BytesInOrder
      <4>3. (IF i = 1 THEN last_escape' = 128 ELSE Escapes(queue'[i - 1])) <=> Escapes(queue[i])
        BY <2>11, <2>8, <4>1
      <4> QED BY <2>1, <4>1, <4>2, <4>3 DEF InOrder
    <3>2. last_escape' = 128 => queue' # <<>> /\ ~ Escapes(queue'[1])
      <4> SUFFICES ASSUME Escapes(b) PROVE queue' # <<>> /\ ~ Escapes(queue'[1])
        BY <2>11
      <4>1. 1 < n /\ ~ Escapes(queue[1 + 1])
        BY <2>4, <2>8 DEF InOrder
      <4> QED BY <2>2, <4>1
    <3> QED BY <2>2, <3>1, <3>2 DEF BytesInOrder
  <2>14. ModifierHeld'
    <3> SUFFICES ASSUME NEW m \in modifiers' \cap 0 .. 2
                 PROVE  \E k \in Following(b) : Kind(k) = 250 + m
      BY <2>6 DEF ModifierHeld, KEY_SHIFT
    <3>1. m \in r.modifiers /\ m \in 0 .. 2
      BY <2>9
    <3>2. CASE Escapes(b)
      BY <2>7, <2>10, <3>1, <3>2 DEF Following
    <3>3. CASE ~ Escapes(b) /\ b.data >= 128
      <4>1. m \in modifiers /\ kd # 250 + m
        BY <2>10, <3>1, <3>3
      <4>2. PICK k \in b.held : Kind(k) = 250 + m
        BY <2>7, <3>1, <4>1
      <4>3. k # b.key
        BY <4>1, <4>2 DEF kd
      <4> QED BY <3>3, <4>2, <4>3 DEF Following
    <3>4. CASE b.data < 128
      <4>1. m \in modifiers \/ kd = 250 + m
        BY <2>10, <3>1, <3>4 DEF Toggled
      <4>2. Following(b) = b.held \cup {b.key}
        BY <2>10, <3>4 DEF Following
      <4> QED BY <2>7, <3>1, <4>1, <4>2 DEF kd
    <3> QED BY <2>10, <3>2, <3>3, <3>4
  <2>15. OffOnPurpose'
    <3> SUFFICES ASSUME r.ret \in {3, 113}
                 PROVE  /\ b.data < 128
                        /\ \/ Kind(b.key) = 113
                           \/ Kind(b.key) = 99 /\ \E k \in b.held : Kind(k) = KEY_SHIFT + MOD_CONTROL
      BY <2>1 DEF OffOnPurpose
    <3>1. b.data < 128
      BY <2>3, <2>10
    <3>2. MOD_CONTROL \in modifiers => \E k \in b.held : Kind(k) = KEY_SHIFT + MOD_CONTROL
      BY <2>7 DEF MOD_CONTROL, KEY_SHIFT
    <3> QED BY <2>3, <3>1, <3>2
  <2> QED BY <2>12, <2>13, <2>14, <2>15 DEF KeysInv
<1> QED
  BY <1>1, <1>2

\* Every step keeps it.
LEMMA KeysNext == ASSUME KeysInv, [TerminalNext]_<<printerVars, keyVars>> PROVE KeysInv'
<1>1. CASE UNCHANGED keyVars
  BY <1>1 DEF keyVars, KeysInv, KeyType, BytesInOrder, InOrder, ModifierHeld, Told, OffOnPurpose
<1>2. ASSUME NEW k \in Keys, Press(k) PROVE KeysInv'
  <2>1. k.code \in {k.code, k.code + 128} /\ k.code < 128
    <3>1. k.code \in 1 .. 127
      BY Kinds
    <3> QED BY <3>1
  <2>2. Send(Bytes(k, k.code)) /\ down' = IF k.code < 128 THEN down \cup {k} ELSE down \ {k}
    BY <1>2, <2>1 DEF Press
  <2> QED BY <2>1, <2>2, SendKeeps
<1>3. ASSUME NEW k \in Keys, Release(k) PROVE KeysInv'
  <2>1. k.code + 128 \in {k.code, k.code + 128} /\ ~ k.code + 128 < 128
    <3>1. k.code \in 1 .. 127
      BY Kinds
    <3> QED BY <3>1
  <2>2. Send(Bytes(k, k.code + 128)) /\ down' = IF k.code + 128 < 128 THEN down \cup {k} ELSE down \ {k}
    BY <1>3, <2>1 DEF Release
  <2> QED BY <2>1, <2>2, SendKeeps
<1>4. CASE KeyNext
  BY <1>1, <1>2, <1>3, <1>4, CheckKeeps DEF KeyNext, Off
<1> QED
  BY <1>1, <1>4 DEF TerminalNext, keyVars

\* It holds when the machine starts.
LEMMA KeysStart == KeyInit => KeysInv
  BY DEF KeyInit, KeysInv, KeyType, BytesInOrder, ModifierHeld, OffOnPurpose

(***************************************************************************)
(* Once keyboard_readc has read what the controller had, shift, control or *)
(* alt is on only while a key of that kind is down, however the user's     *)
(* presses and releases came between the reads.                            *)
(***************************************************************************)
THEOREM NoModifierStuck == TerminalSpec => []NoStuckModifier
<1>1. TerminalInit => KeysInv
  BY KeysStart DEF TerminalInit
<1>2. KeysInv => NoStuckModifier
  BY DEF KeysInv, ModifierHeld, Told, NoStuckModifier
<1>3. KeysInv /\ [TerminalNext]_<<printerVars, keyVars>> => KeysInv'
  BY KeysNext
<1> QED
  BY <1>1, <1>2, <1>3, PTL DEF TerminalSpec

(***************************************************************************)
(* check_keyboard turns the machine off only for 'q', or for 'c' pressed   *)
(* while a control key was down, however late the byte is read.            *)
(***************************************************************************)
THEOREM OffMeant == TerminalSpec => []OffOnPurpose
<1>1. TerminalInit => KeysInv
  BY KeysStart DEF TerminalInit
<1>2. KeysInv => OffOnPurpose
  BY DEF KeysInv
<1>3. KeysInv /\ [TerminalNext]_<<printerVars, keyVars>> => KeysInv'
  BY KeysNext
<1> QED
  BY <1>1, <1>2, <1>3, PTL DEF TerminalSpec
=============================================================================
