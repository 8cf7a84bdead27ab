--------------------------- MODULE ProgramsProofs ---------------------------
(***************************************************************************)
(* Proof about Programs: a test program that exits with 0 has written what *)
(* it is for, or has met a failure that it does not test, or was stride_cat *)
(* with blocks longer than the stride.                                     *)
(***************************************************************************)
EXTENDS Programs, SequenceTheorems, FiniteSetTheorems, TLAPS

\* So far the program has noticed no failure and missed none, and it was given
\* what it can deal with.
Good == status = 0 /\ arg > 0 /\ ~ Unnoticed /\ ~ Overlapping

\* A program that got what it needs, and met no failure.
Served == failed = {} /\ arg > 0 /\ filesize > 0 /\ (prog = "rot13" \/ Opens)

\* What the program is to write.
Wanted == CASE prog = "rot13" -> [k \in 1 .. filesize |-> rot13(input[k])]
            [] prog \in CopyByByte \cup CopyBlocks -> input
            [] prog = "stride_cat" -> Strided
            [] OTHER -> Reverse(input)

\* How much of it is written.
Done == CASE prog \in CopyByByte \cup {"rot13"} -> i
          [] prog = "reverse_byte_cat"  -> filesize - 1 - i
          [] prog = "reverse_block_cat" -> IF i = FirstBlock THEN 0 ELSE filesize - (i + size)
          [] prog = "stride_cat" -> count
          [] OTHER -> out.pos

Least(a, b) == IF a < b THEN a ELSE b

\* The block at the position, or what there is of it.
HereBlock == SubSeq(input, i + 1, i + Least(size, filesize - i))

(***************************************************************************)
(* The loops, by program: where they are in the input.                     *)
(***************************************************************************)
ByteLoop ==
    /\ pc \in {"seek", "read", "away", "back", "write", "close", "exit"}
    /\ pc = "seek" => prog \in {"reverse_byte_cat", "rot13"}
    /\ pc = "away" => prog = "diabolical_byte_cat"
    /\ pc = "back" => prog \in {"diabolical_byte_cat", "rot13"}
    /\ i \in Int /\ size = arg
    /\ pc \notin {"close", "exit"} => i \in 0 .. filesize - 1
    /\ pc = "read" => in.pos = i
    /\ pc \in {"away", "back", "write"} => buffer = <<input[i + 1]>>
    /\ pc = "write" => /\ prog \in CopyByByte => in.pos = i + 1
                       /\ prog = "rot13" => in.pos = i
    /\ pc \in {"close", "exit"} => i = IF prog = "reverse_byte_cat" THEN -1 ELSE filesize

CopyLoop ==
    /\ pc \in {"read", "write", "close", "exit"}
    /\ in.pos \in 0 .. filesize /\ out.pos \in 0 .. filesize
    /\ size = arg
    /\ pc = "read" => in.pos = out.pos
    /\ pc = "write" => out.pos <= in.pos /\ buffer = SubSeq(input, out.pos + 1, in.pos)
    /\ pc \in {"close", "exit"} => out.pos = filesize

ReverseLoop ==
    /\ pc \in {"seek", "read", "write", "close", "exit"}
    /\ size = arg
    /\ i \in Int /\ i <= FirstBlock /\ i % size = 0
    /\ pc \notin {"close", "exit"} => i >= 0
    /\ pc = "read" => in.pos = i
    /\ pc = "write" => buffer = HereBlock
    /\ pc \in {"close", "exit"} => i = -size

\* The bytes before p in the blocks of the given size at the offset, and those of
\* all blocks before them.
Behind(offset, n, p) ==
    {y \in 0 .. filesize - 1 : y % stride < offset \/ (y % stride < offset + n /\ y < p)}

\* The next block begins at i.
AtBlock ==
    /\ arg \in 1 .. stride
    /\ i \in 0 .. filesize - 1
    /\ (i % stride) % arg = 0
    /\ size = Least(arg, stride - (i % stride))
    /\ count = Cardinality(Behind(i % stride, size, i))

StrideLoop ==
    /\ pc \in {"read", "write", "stride", "close", "exit"}
    /\ i \in Nat /\ count \in 0 .. filesize
    /\ pc \in {"read", "write"} => AtBlock
    /\ pc = "read" => in.pos = i
    /\ pc = "write" => buffer = HereBlock
    /\ pc = "stride" => ~ Huge(i) /\ (count = filesize \/ AtBlock)
    /\ pc \in {"close", "exit"} => count = filesize

\* stride_cat with longer blocks: it has read at least up to where it begins, so
\* it stops before its sizes go wrong.
AtStart == i \in 0 .. filesize - 1 /\ size = arg /\ count \in Nat /\ count >= i

LongLoop ==
    /\ pc \in {"read", "write", "stride", "close", "exit"}
    /\ in \in [data : {input}, pos : Nat]
    /\ pc \in {"read", "write"} => AtStart
    /\ pc = "read" => in.pos = i
    /\ pc = "write" => Len(buffer) = Least(size, filesize - i)
    /\ pc = "stride" => /\ i \in Nat /\ ~ Huge(i)
                        /\ count \in Nat /\ (count >= filesize \/ AtStart)

Loop == CASE prog \in ByByte     -> ByteLoop
          [] prog \in CopyBlocks -> CopyLoop
          [] prog = "stride_cat" -> StrideLoop
          [] OTHER               -> ReverseLoop

\* What is written is what is wanted, and the rest is as it was.
Copied ==
    /\ in \in [data : Seq(Byte), pos : Nat]
    /\ Done \in 0 .. filesize
    /\ IF prog = "rot13" THEN in.data = Kept(Wanted, input, Done)
       ELSE in.data = input /\ out = [data |-> Kept(Wanted, old, Done), pos |-> Done]

Given ==
    /\ prog \in ByByte \cup ByBlock
    /\ input \in Seq(Byte) /\ old \in Seq(Byte)
    /\ arg \in Nat /\ stride \in Nat
    /\ prog \in ByByte => arg = 1
    /\ prog = "random_block_cat" => arg = MAX_BLOCK_SIZE
    /\ WORD \in Nat /\ 4 * filesize < WORD /\ 4 * arg < WORD /\ 4 * stride < WORD

Fresh ==
    /\ in = Open(input) /\ out = Open(old) /\ size = arg /\ i = 0 /\ count = 0
    /\ status = 0 /\ failed = {}

\* The inductive invariant.
ProgramsInv ==
    /\ Given
    /\ pc = "open" => Fresh
    /\ pc # "open" /\ Good => Loop /\ Copied
    /\ Served => status = 0
    /\ pc # "open" /\ Served /\ Overlapping => LongLoop

-----------------------------------------------------------------------------
(* Sequences: the parts of a file, and the file after a write. *)

\* A part of a sequence, by where it begins and ends ...
LEMMA PartOf ==
    ASSUME NEW S, NEW s \in Seq(S), NEW a \in Nat, NEW b \in Nat, b <= Len(s)
    PROVE  LET t == SubSeq(s, a + 1, b)
           IN  /\ t \in Seq(S)
               /\ Len(t) = IF a <= b THEN b - a ELSE 0
               /\ \A k \in 1 .. Len(t) : t[k] = s[a + k]
<1>1. a + 1 \in Int /\ b \in Int OBVIOUS
<1>2. \A k \in a + 1 .. b : s[k] \in S
  <2>1. Len(s) \in Nat BY LenProperties
  <2>2. \A k \in a + 1 .. b : k \in 1 .. Len(s) BY <2>1
  <2>3. QED BY <2>2, ElementOfSeq
<1>3. /\ SubSeq(s, a + 1, b) \in Seq(S)
      /\ Len(SubSeq(s, a + 1, b)) = IF a + 1 <= b THEN b - (a + 1) + 1 ELSE 0
      /\ \A k \in 1 .. b - (a + 1) + 1 : SubSeq(s, a + 1, b)[k] = s[(a + 1) + k - 1]
  BY <1>1, <1>2, SubSeqProperties
<1>4. QED
  <2>1. \A k \in 1 .. b - a : k \in 1 .. b - (a + 1) + 1 /\ (a + 1) + k - 1 = a + k OBVIOUS
  <2>2. 1 .. Len(SubSeq(s, a + 1, b)) \subseteq 1 .. b - a BY <1>3
  <2>3. QED BY <1>3, <2>1, <2>2

\* ... and by its length.
LEMMA PartFrom ==
    ASSUME NEW S, NEW s \in Seq(S), NEW a \in Nat, NEW m \in Nat, a + m <= Len(s)
    PROVE  LET t == SubSeq(s, a + 1, a + m)
           IN  t \in Seq(S) /\ Len(t) = m /\ \A k \in 1 .. m : t[k] = s[a + k]
<1>1. PICK b \in Nat : b = a + m OBVIOUS
<1>2. PICK t : t = SubSeq(s, a + 1, b) OBVIOUS
<1>3. b <= Len(s) BY <1>1
<1>4. /\ t \in Seq(S) /\ Len(t) = IF a <= b THEN b - a ELSE 0
      /\ \A k \in 1 .. Len(t) : t[k] = s[a + k]
  BY <1>2, <1>3, PartOf
<1>5. Len(t) = m BY <1>1, <1>4
<1>6. QED BY <1>1, <1>2, <1>4, <1>5

\* A file of which the first k bytes are written.
LEMMA KeptIs ==
    ASSUME NEW S, NEW data \in Seq(S), NEW was \in Seq(S), NEW k \in 0 .. Len(data)
    PROVE  /\ Kept(data, was, k) \in Seq(S)
           /\ Len(Kept(data, was, k)) = IF k < Len(was) THEN Len(was) ELSE k
           /\ \A x \in 1 .. Len(Kept(data, was, k)) :
                Kept(data, was, k)[x] = IF x <= k THEN data[x] ELSE was[x]
<1>1. Len(data) \in Nat /\ Len(was) \in Nat BY LenProperties
<1>2. PICK a : a = SubSeq(data, 1, k) OBVIOUS
<1>3. PICK b : b = SubSeq(was, k + 1, Len(was)) OBVIOUS
<1>4. a \in Seq(S) /\ Len(a) = k /\ \A x \in 1 .. k : a[x] = data[x]
  <2>1. SubSeq(data, 0 + 1, k) = SubSeq(data, 1, k) OBVIOUS
  <2>2. QED BY <1>1, <1>2, <2>1, PartOf
<1>5. /\ b \in Seq(S) /\ Len(b) = IF k <= Len(was) THEN Len(was) - k ELSE 0
      /\ \A x \in 1 .. Len(b) : b[x] = was[k + x]
  BY <1>1, <1>3, PartOf
<1>6. PICK c : c = a \o b OBVIOUS
<1>7. Kept(data, was, k) = c BY <1>2, <1>3, <1>6 DEF Kept
<1>8. /\ c \in Seq(S) /\ Len(c) = Len(a) + Len(b)
      /\ \A x \in 1 .. Len(a) + Len(b) : c[x] = IF x <= Len(a) THEN a[x] ELSE b[x - Len(a)]
  BY <1>4, <1>5, <1>6, ConcatProperties
<1>9. Len(c) = IF k < Len(was) THEN Len(was) ELSE k BY <1>1, <1>4, <1>5, <1>8
<1>10. ASSUME NEW x \in 1 .. Len(c) PROVE c[x] = IF x <= k THEN data[x] ELSE was[x]
  <2>1. CASE x <= k
    BY <1>1, <1>4, <1>8, <1>9, <2>1
  <2>2. CASE x > k
    <3>1. x - k \in 1 .. Len(b) /\ k + (x - k) = x BY <1>1, <1>4, <1>5, <1>8, <1>9, <2>2
    <3>2. c[x] = b[x - k] BY <1>1, <1>4, <1>5, <1>8, <1>9, <2>2
    <3>3. b[x - k] = was[k + (x - k)] BY <1>5, <3>1
    <3>4. ~ (x <= k) BY <1>1, <1>9, <2>2
    <3>5. QED BY <3>1, <3>2, <3>3, <3>4, Zenon
  <2>3. QED BY <1>1, <2>1, <2>2
<1>11. QED BY <1>7, <1>8, <1>9, <1>10

\* With nothing written, the file is as it was.
LEMMA KeptNothing ==
    ASSUME NEW S, NEW data \in Seq(S), NEW was \in Seq(S)
    PROVE  Kept(data, was, 0) = was
<1>1. 0 \in 0 .. Len(data) /\ Len(was) \in Nat BY LenProperties
<1>2. /\ Kept(data, was, 0) \in Seq(S)
      /\ Len(Kept(data, was, 0)) = Len(was)
      /\ \A x \in 1 .. Len(was) : Kept(data, was, 0)[x] = was[x]
  BY <1>1, KeptIs
<1>3. QED BY <1>2, SeqEqual

\* A file whose first n bytes are written gets the next ones, up to e.
LEMMA WriteNext ==
    ASSUME NEW S, NEW data \in Seq(S), NEW was \in Seq(S),
           NEW n \in Nat, NEW e \in Nat, n <= e, e <= Len(data),
           NEW f, f.data = Kept(data, was, n), f.pos = n
    PROVE  io300_write(f, SubSeq(data, n + 1, e)) = [data |-> Kept(data, was, e), pos |-> e]
<1>1. Len(data) \in Nat /\ Len(was) \in Nat BY LenProperties
<1>2. PICK d : d = Kept(data, was, n) OBVIOUS
<1>3. n \in 0 .. Len(data) /\ e \in 0 .. Len(data) BY <1>1
<1>4. /\ d \in Seq(S)
      /\ Len(d) = IF n < Len(was) THEN Len(was) ELSE n
      /\ \A x \in 1 .. Len(d) : d[x] = IF x <= n THEN data[x] ELSE was[x]
  <2>1. /\ Kept(data, was, n) \in Seq(S)
        /\ Len(Kept(data, was, n)) = IF n < Len(was) THEN Len(was) ELSE n
        /\ \A x \in 1 .. Len(Kept(data, was, n)) :
             Kept(data, was, n)[x] = IF x <= n THEN data[x] ELSE was[x]
    BY <1>3, KeptIs
  <2>2. QED BY <1>2, <2>1, Zenon
<1>5. PICK bs : bs = SubSeq(data, n + 1, e) OBVIOUS
<1>6. bs \in Seq(S) /\ Len(bs) = e - n /\ \A x \in 1 .. e - n : bs[x] = data[n + x]
  <2>1. /\ bs \in Seq(S) /\ Len(bs) = IF n <= e THEN e - n ELSE 0
        /\ \A x \in 1 .. Len(bs) : bs[x] = data[n + x]
    BY <1>1, <1>5, PartOf
  <2>2. QED BY <2>1
<1>7. PICK a : a = SubSeq(d, 1, n) OBVIOUS
<1>8. a \in Seq(S) /\ Len(a) = n /\ \A x \in 1 .. n : a[x] = d[x]
  <2>1. SubSeq(d, 0 + 1, n) = SubSeq(d, 1, n) OBVIOUS
  <2>2. QED BY <1>1, <1>4, <1>7, <2>1, PartOf
<1>9. PICK c : c = SubSeq(d, e + 1, Len(d)) OBVIOUS
<1>10. /\ c \in Seq(S) /\ Len(c) = IF e <= Len(d) THEN Len(d) - e ELSE 0
       /\ \A x \in 1 .. Len(c) : c[x] = d[e + x]
  <2>1. Len(d) \in Nat /\ Len(d) <= Len(d) BY <1>1, <1>4
  <2>2. QED BY <1>4, <1>9, <2>1, PartOf
<1>11. PICK ab : ab = a \o bs OBVIOUS
<1>12. /\ ab \in Seq(S) /\ Len(ab) = e
       /\ \A x \in 1 .. e : ab[x] = IF x <= n THEN a[x] ELSE bs[x - n]
  <2>1. /\ ab \in Seq(S) /\ Len(ab) = Len(a) + Len(bs)
        /\ \A x \in 1 .. Len(a) + Len(bs) : ab[x] = IF x <= Len(a) THEN a[x] ELSE bs[x - Len(a)]
    <3>1. a \in Seq(S) /\ bs \in Seq(S) BY <1>6, <1>8
    <3>2. QED BY <1>11, <3>1, ConcatProperties
  <2>2. Len(a) + Len(bs) = e BY <1>6, <1>8
  <2>3. QED BY <1>8, <2>1, <2>2
<1>13. PICK r : r = ab \o c OBVIOUS
<1>14. /\ r \in Seq(S) /\ Len(r) = e + Len(c)
       /\ \A x \in 1 .. e + Len(c) : r[x] = IF x <= e THEN ab[x] ELSE c[x - e]
  <2>1. /\ r \in Seq(S) /\ Len(r) = Len(ab) + Len(c)
        /\ \A x \in 1 .. Len(ab) + Len(c) : r[x] = IF x <= Len(ab) THEN ab[x] ELSE c[x - Len(ab)]
    <3>1. ab \in Seq(S) /\ c \in Seq(S) BY <1>10, <1>12
    <3>2. QED BY <1>13, <3>1, ConcatProperties
  <2>2. QED BY <1>12, <2>1
<1>15. PICK k : k = Kept(data, was, e) OBVIOUS
<1>16. /\ k \in Seq(S)
       /\ Len(k) = IF e < Len(was) THEN Len(was) ELSE e
       /\ \A x \in 1 .. Len(k) : k[x] = IF x <= e THEN data[x] ELSE was[x]
  <2>1. /\ Kept(data, was, e) \in Seq(S)
        /\ Len(Kept(data, was, e)) = IF e < Len(was) THEN Len(was) ELSE e
        /\ \A x \in 1 .. Len(Kept(data, was, e)) :
             Kept(data, was, e)[x] = IF x <= e THEN data[x] ELSE was[x]
    <3>1. e \in 0 .. Len(data) BY <1>3
    <3>2. QED BY <3>1, KeptIs
  <2>2. QED BY <1>15, <2>1, Zenon
<1>17. Len(r) = Len(k) BY <1>1, <1>4, <1>10, <1>14, <1>16
<1>18. ASSUME NEW x \in 1 .. Len(r) PROVE r[x] = k[x]
  <2>1. x \in Nat /\ x >= 1 /\ x \in 1 .. Len(k) /\ x \in 1 .. e + Len(c)
    BY <1>1, <1>10, <1>14, <1>16, <1>17
  <2>2. CASE x <= n
    <3>1. r[x] = a[x] /\ x \in 1 .. n BY <1>12, <1>14, <2>1, <2>2
    <3>2. x \in 1 .. Len(d) BY <1>1, <1>4, <2>1, <2>2
    <3>3. k[x] = data[x] BY <1>16, <2>1, <2>2
    <3>4. QED BY <1>4, <1>8, <2>2, <3>1, <3>2, <3>3
  <2>3. CASE n < x /\ x <= e
    <3>1. r[x] = bs[x - n] BY <1>12, <1>14, <2>1, <2>3
    <3>2. x - n \in 1 .. e - n /\ n + (x - n) = x BY <2>1, <2>3
    <3>3. k[x] = data[x] BY <1>16, <2>1, <2>3
    <3>4. QED BY <1>6, <3>1, <3>2, <3>3
  <2>4. CASE e < x
    <3>1. r[x] = c[x - e] BY <1>14, <2>1, <2>4
    <3>2. x - e \in 1 .. Len(c) /\ e + (x - e) = x
      BY <1>1, <1>4, <1>10, <2>1, <2>4
    <3>3. c[x - e] = d[x] BY <1>10, <3>2
    <3>4. x \in 1 .. Len(d) /\ ~ (x <= n) BY <1>1, <1>4, <1>10, <2>1, <3>2, <2>4
    <3>5. k[x] = was[x] BY <1>16, <2>1, <2>4
    <3>6. QED BY <1>4, <3>1, <3>3, <3>4, <3>5
  <2>5. QED BY <2>1, <2>2, <2>3, <2>4
<1>19. r = k BY <1>14, <1>16, <1>17, <1>18, SeqEqual
<1>20. io300_write(f, bs) = [data |-> r, pos |-> e]
  <2>1. n + Len(bs) = e BY <1>6
  <2>2. QED BY <1>2, <1>7, <1>9, <1>11, <1>13, <2>1 DEF io300_write
<1>21. QED BY <1>5, <1>15, <1>19, <1>20

\* A read takes what there is, up to what is asked for.
LEMMA ReadTakes ==
    ASSUME NEW f \in [data : Seq(Byte), pos : Nat], NEW n \in Nat, f.pos <= Len(f.data)
    PROVE  LET m == Least(n, Len(f.data) - f.pos)
           IN  /\ m \in Nat /\ f.pos + m <= Len(f.data)
               /\ io300_read(f, n) = SubSeq(f.data, f.pos + 1, f.pos + m)
               /\ io300_read(f, n) \in Seq(Byte)
               /\ Len(io300_read(f, n)) = m
               /\ \A k \in 1 .. m : io300_read(f, n)[k] = f.data[f.pos + k]
               /\ Advanced(f, n) = [data |-> f.data, pos |-> f.pos + m]
<1> DEFINE m == Least(n, Len(f.data) - f.pos)
<1>1. f.data \in Seq(Byte) /\ f.pos \in Nat /\ Len(f.data) \in Nat OBVIOUS
<1>2. m \in Nat /\ f.pos + m <= Len(f.data) /\ Available(f, n) = m
  BY <1>1 DEF Least, Available
<1>3. io300_read(f, n) = SubSeq(f.data, f.pos + 1, f.pos + m) BY <1>2 DEF io300_read
<1>4. /\ SubSeq(f.data, f.pos + 1, f.pos + m) \in Seq(Byte)
      /\ Len(SubSeq(f.data, f.pos + 1, f.pos + m)) = m
      /\ \A k \in 1 .. m : SubSeq(f.data, f.pos + 1, f.pos + m)[k] = f.data[f.pos + k]
  <2> HIDE DEF m
  <2>1. PICK a \in Nat : a = f.pos BY <1>1
  <2>2. PICK d \in Seq(Byte) : d = f.data BY <1>1
  <2>3. PICK l \in Nat : l = m BY <1>2
  <2>4. a + l <= Len(d) BY <1>2, <2>1, <2>2, <2>3
  <2>5. LET t == SubSeq(d, a + 1, a + l)
        IN  t \in Seq(Byte) /\ Len(t) = l /\ \A k \in 1 .. l : t[k] = d[a + k]
    BY <2>4, PartFrom
  <2>6. QED BY <2>1, <2>2, <2>3, <2>5
<1>5. Advanced(f, n) = [data |-> f.data, pos |-> f.pos + m] BY <1>1, <1>2 DEF Advanced
<1>6. QED BY <1>2, <1>3, <1>4, <1>5
-----------------------------------------------------------------------------
(* Remainders. *)

\* Quotient and remainder ...
LEMMA DivMod ==
    ASSUME NEW x \in Int, NEW d \in Nat, d > 0
    PROVE  /\ x \div d \in Int /\ x % d \in 0 .. d - 1 /\ x = d * (x \div d) + (x % d)
           /\ x >= 0 => x \div d >= 0
  BY Z3

\* ... are the only ones.
LEMMA DivOne ==
    ASSUME NEW x \in Int, NEW d \in Nat, d > 0, NEW q \in Int, NEW r \in 0 .. d - 1,
           x = d * q + r
    PROVE  x \div d = q /\ x % d = r
<1>1. PICK y : y = x \div d OBVIOUS
<1>2. PICK s : s = x % d OBVIOUS
<1>3. y \in Int /\ s \in 0 .. d - 1 /\ x = d * y + s BY <1>1, <1>2, DivMod
<1>4. d * (y - q) = r - s BY <1>3, Z3
<1>5. ASSUME y > q PROVE FALSE
  <2>1. y - q >= 1 BY <1>3, <1>5
  <2>2. d * (y - q) >= d BY <2>1, <1>3, Z3
  <2>3. QED BY <1>3, <1>4, <2>2
<1>6. ASSUME y < q PROVE FALSE
  <2>1. q - y >= 1 BY <1>3, <1>6
  <2>2. d * (q - y) >= d BY <2>1, <1>3, Z3
  <2>3. d * (q - y) = - (d * (y - q)) BY <1>3, Z3
  <2>4. QED BY <1>3, <1>4, <2>2, <2>3
<1>7. y = q BY <1>3, <1>5, <1>6
<1>8. s = r BY <1>3, <1>7
<1>9. QED BY <1>1, <1>2, <1>7, <1>8

\* Positions that are m apart have the same remainder.
LEMMA ModShift ==
    ASSUME NEW a \in Int, NEW m \in Nat, m > 0
    PROVE  /\ a % m \in 0 .. m - 1
           /\ (a + m) % m = a % m /\ (a - m) % m = a % m
           /\ a \in 0 .. m - 1 => a % m = a
<1>1. PICK q : q = a \div m OBVIOUS
<1>2. PICK r : r = a % m OBVIOUS
<1>3. q \in Int /\ r \in 0 .. m - 1 /\ a = m * q + r BY <1>1, <1>2, DivMod
<1>4. a + m \in Int /\ a - m \in Int /\ q + 1 \in Int /\ q - 1 \in Int BY <1>3
<1>5. a + m = m * (q + 1) + r /\ a - m = m * (q - 1) + r BY <1>3, Z3
<1>6. (a + m) % m = r BY <1>3, <1>4, <1>5, DivOne
<1>7. (a - m) % m = r BY <1>3, <1>4, <1>5, DivOne
<1>8. ASSUME a \in 0 .. m - 1 PROVE a % m = a
  <2>1. a = m * 0 + a OBVIOUS
  <2>2. QED BY <1>8, <2>1, DivOne
<1>9. QED BY <1>2, <1>3, <1>6, <1>7, <1>8

\* A sum that fits into a size_t is one.
LEMMA Fits ==
    ASSUME Given, NEW a \in Nat, a < WORD
    PROVE  SizeT(a) = a
<1>1. WORD \in Nat /\ WORD > 0 /\ a \in 0 .. WORD - 1 BY DEF Given
<1>2. QED BY <1>1, ModShift DEF SizeT

\* Where the last part of n that is shorter than m begins.
LEMMA LastPart ==
    ASSUME NEW n \in Nat, NEW m \in Nat, m > 0, NEW b, b = n - (n % m)
    PROVE  b \in Nat /\ b <= n /\ n - b < m /\ b % m = 0
<1>1. PICK q : q = n \div m OBVIOUS
<1>2. PICK r : r = n % m OBVIOUS
<1>3. q \in Int /\ r \in 0 .. m - 1 /\ n = m * q + r /\ q >= 0 BY <1>1, <1>2, DivMod
<1>4. b = n - r BY <1>2
<1>5. PICK p \in Int : p = m * q BY <1>3
<1>6. p >= 0 BY <1>3, <1>5, Z3
<1>7. b \in Nat /\ b <= n /\ n - b < m /\ b = p BY <1>3, <1>4, <1>5, <1>6
<1>8. b % m = 0
  <2>1. b \in Int /\ b = m * q + 0 /\ 0 \in 0 .. m - 1 BY <1>5, <1>7
  <2>2. QED BY <1>3, <2>1, DivOne
<1>9. QED BY <1>7, <1>8

\* Multiples of m are m apart.
LEMMA Apart ==
    ASSUME NEW a \in Int, NEW b \in Int, NEW m \in Nat, m > 0, a % m = 0, b % m = 0, a < b
    PROVE  a + m <= b
<1>1. PICK p : p = a \div m OBVIOUS
<1>2. PICK q : q = b \div m OBVIOUS
<1>3. p \in Int /\ a = m * p BY <1>1, DivMod
<1>4. q \in Int /\ b = m * q BY <1>2, DivMod
<1>5. p < q
  <2> SUFFICES ASSUME q <= p PROVE FALSE BY <1>3, <1>4
  <2>1. m * q <= m * p BY <1>3, <1>4, Z3
  <2>2. QED BY <1>3, <1>4, <2>1
<1>6. p + 1 <= q BY <1>3, <1>4, <1>5
<1>7. m * (p + 1) <= m * q BY <1>3, <1>4, <1>6, Z3
<1>8. m * (p + 1) = m * p + m BY <1>3, Z3
<1>9. QED BY <1>3, <1>4, <1>7, <1>8

\* The remainder of a position less than m further on.
LEMMA ModFurther ==
    ASSUME NEW a \in Int, NEW m \in Nat, m > 0, NEW d \in 0 .. m - 1
    PROVE  /\ (a % m) + d < m => (a + d) % m = (a % m) + d
           /\ (a % m) + d >= m => (a + d) % m = (a % m) + d - m
<1>1. PICK q : q = a \div m OBVIOUS
<1>2. PICK r : r = a % m OBVIOUS
<1>3. q \in Int /\ r \in 0 .. m - 1 /\ a = m * q + r BY <1>1, <1>2, DivMod
<1>4. a + d \in Int BY <1>3
<1>5. CASE r + d < m
  <2>1. a + d = m * q + (r + d) /\ r + d \in 0 .. m - 1 BY <1>3, <1>5, Z3
  <2>2. (a + d) % m = r + d BY <1>3, <1>4, <2>1, DivOne
  <2>3. QED BY <1>2, <1>5, <2>2
<1>6. CASE r + d >= m
  <2>1. a + d = m * (q + 1) + (r + d - m) BY <1>3, Z3
  <2>2. r + d - m \in 0 .. m - 1 /\ q + 1 \in Int BY <1>3, <1>6
  <2>3. (a + d) % m = r + d - m BY <1>3, <1>4, <2>1, <2>2, DivOne
  <2>4. QED BY <1>2, <1>6, <2>3
<1>7. QED BY <1>2, <1>3, <1>5, <1>6

\* The numbers that are in the same part of m as a multiple of m, or in an earlier one.
LEMMA SamePart ==
    ASSUME NEW m \in Nat, m > 0, NEW a \in Nat, a % m = 0, NEW r \in Nat
    PROVE  /\ r \div m \in Int /\ a \div m \in Int
           /\ r \div m = a \div m <=> a <= r /\ r < a + m
           /\ r \div m < a \div m <=> r < a
<1>1. PICK q : q = a \div m OBVIOUS
<1>2. PICK p : p = r \div m OBVIOUS
<1>3. PICK t : t = r % m OBVIOUS
<1>4. q \in Int /\ a = m * q BY <1>1, DivMod
<1>5. p \in Int /\ t \in 0 .. m - 1 /\ r = m * p + t BY <1>2, <1>3, DivMod
<1>6. ASSUME p < q PROVE r < a
  <2>1. p + 1 <= q BY <1>4, <1>5, <1>6
  <2>2. m * (p + 1) <= m * q BY <2>1, <1>4, <1>5, Z3
  <2>3. m * (p + 1) = m * p + m BY <1>5, Z3
  <2>4. QED BY <1>4, <1>5, <2>2, <2>3
<1>7. ASSUME p > q PROVE r >= a + m
  <2>1. q + 1 <= p BY <1>4, <1>5, <1>7
  <2>2. m * (q + 1) <= m * p BY <2>1, <1>4, <1>5, Z3
  <2>3. m * (q + 1) = m * q + m BY <1>4, Z3
  <2>4. QED BY <1>4, <1>5, <2>2, <2>3
<1>8. ASSUME p = q PROVE a <= r /\ r < a + m BY <1>4, <1>5, <1>8
<1>9. QED BY <1>1, <1>2, <1>4, <1>5, <1>6, <1>7, <1>8

-----------------------------------------------------------------------------
(* The order of stride_cat's output. *)

\* One byte has each rank.
LEMMA OneRank ==
    ASSUME Given, arg > 0, stride > 0, NEW x \in 0 .. filesize - 1, NEW y \in 0 .. filesize - 1,
           Rank(x) = Rank(y)
    PROVE  x = y
<1>1. filesize \in Nat /\ arg \in Nat /\ stride \in Nat /\ stride > 0 BY DEF Given, filesize
<1>2. ASSUME NEW z \in 0 .. filesize - 1 PROVE Block(z) \in Int
  <2>1. z \in Int /\ z % stride \in Int BY <1>1, DivMod
  <2>2. QED BY <1>1, <2>1, DivMod DEF Block
<1>3. ASSUME NEW a \in 0 .. filesize - 1, NEW b \in 0 .. filesize - 1, Before(a, b)
      PROVE  Rank(a) # Rank(b)
  <2>1. PICK A : A = {z \in 0 .. filesize - 1 : Before(z, a)} OBVIOUS
  <2>2. PICK B : B = {z \in 0 .. filesize - 1 : Before(z, b)} OBVIOUS
  <2>3. A \subseteq B
    <3> SUFFICES ASSUME NEW z \in A PROVE z \in B OBVIOUS
    <3>1. z \in 0 .. filesize - 1 /\ Before(z, a) BY <2>1
    <3>2. Block(z) \in Int /\ Block(a) \in Int /\ Block(b) \in Int BY <1>2, <3>1
    <3>3. Before(z, b) BY <1>1, <1>3, <3>1, <3>2 DEF Before
    <3>4. QED BY <2>2, <3>1, <3>3
  <2>4. a \in B /\ a \notin A
    <3>1. Block(a) \in Int /\ a \in Int BY <1>1, <1>2
    <3>2. ~ Before(a, a) BY <3>1 DEF Before
    <3>3. QED BY <1>3, <2>1, <2>2, <3>2
  <2>5. IsFiniteSet(B)
    <3>1. 0 \in Int /\ filesize - 1 \in Int BY <1>1
    <3>2. IsFiniteSet(0 .. filesize - 1) BY <3>1, FS_Interval
    <3>3. B \in SUBSET (0 .. filesize - 1) BY <2>2
    <3>4. QED BY <3>2, <3>3, FS_Subset
  <2>6. A \in SUBSET B BY <2>3
  <2>7. Cardinality(B) = Cardinality(A) => B = A BY <2>5, <2>6, FS_Subset
  <2>8. Rank(a) = Cardinality(A) /\ Rank(b) = Cardinality(B) BY <2>1, <2>2 DEF Rank
  <2>9. QED BY <2>4, <2>7, <2>8
<1>4. Before(x, y) \/ Before(y, x) \/ x = y
  <2>1. Block(x) \in Int /\ Block(y) \in Int BY <1>2
  <2>2. QED BY <1>1, <2>1 DEF Before
<1>5. QED BY <1>3, <1>4

\* The block at i is read: what is behind the next position.
LEMMA BehindGrows ==
    ASSUME Given, prog = "stride_cat", AtBlock, NEW j \in 0 .. Least(size, filesize - i)
    PROVE  /\ Behind(i % stride, size, i + j) = Behind(i % stride, size, i) \cup (i .. i + j - 1)
           /\ Cardinality(Behind(i % stride, size, i + j)) = count + j
<1>1. /\ filesize \in Nat /\ arg \in Nat /\ arg > 0 /\ stride \in Nat /\ stride > 0
      /\ i \in Nat /\ i < filesize
  BY DEF Given, filesize, AtBlock
<1>2. PICK o : o = i % stride OBVIOUS
<1>3. o \in 0 .. stride - 1 BY <1>1, <1>2, ModShift
<1>4. size \in Nat /\ size > 0 /\ o + size <= stride BY <1>1, <1>2, <1>3 DEF AtBlock, Least
<1>5. j \in Nat /\ j <= size /\ i + j <= filesize BY <1>1, <1>4 DEF Least
<1>6. ASSUME NEW y \in i .. i + j - 1
      PROVE  y \in 0 .. filesize - 1 /\ y % stride >= o /\ y % stride < o + size
  <2>1. PICK d \in 0 .. stride - 1 : y = i + d /\ d < j
    <3>1. y - i \in 0 .. stride - 1 /\ y = i + (y - i) /\ y - i < j BY <1>1, <1>3, <1>4, <1>5
    <3>2. QED BY <3>1
  <2>2. o + d < stride => (i + d) % stride = o + d
    <3>1. i \in Int BY <1>1
    <3>2. QED BY <1>1, <1>2, <3>1, ModFurther
  <2>3. QED BY <1>1, <1>2, <1>3, <1>4, <1>5, <2>1, <2>2
<1>7. PICK A : A = Behind(o, size, i) OBVIOUS
<1>8. Behind(o, size, i + j) = A \cup (i .. i + j - 1)
  <2>1. ASSUME NEW y \in Behind(o, size, i + j) PROVE y \in A \cup (i .. i + j - 1)
    <3>1. /\ y \in 0 .. filesize - 1
          /\ y % stride < o \/ (y % stride < o + size /\ y < i + j)
      BY <2>1 DEF Behind
    <3>2. CASE y % stride < o \/ (y % stride < o + size /\ y < i)
      BY <1>7, <3>1, <3>2 DEF Behind
    <3>3. CASE y < i + j /\ ~ (y < i)
      BY <1>1, <1>5, <3>1, <3>3
    <3>4. QED BY <3>1, <3>2, <3>3
  <2>2. ASSUME NEW y \in A PROVE y \in Behind(o, size, i + j)
    <3>1. /\ y \in 0 .. filesize - 1
          /\ y % stride < o \/ (y % stride < o + size /\ y < i)
      BY <1>7, <2>2 DEF Behind
    <3>2. y < i => y < i + j BY <1>1, <1>5, <3>1
    <3>3. QED BY <3>1, <3>2 DEF Behind
  <2>3. ASSUME NEW y \in i .. i + j - 1 PROVE y \in Behind(o, size, i + j)
    <3>1. y < i + j BY <1>1, <1>5
    <3>2. QED BY <1>6, <3>1 DEF Behind
  <2>4. QED BY <2>1, <2>2, <2>3
<1>9. A \cap (i .. i + j - 1) = {}
  <2> SUFFICES ASSUME NEW y \in A, y \in i .. i + j - 1 PROVE FALSE OBVIOUS
  <2>1. y % stride < o \/ y < i BY <1>7 DEF Behind
  <2>2. y >= i /\ y \in Int BY <1>1, <1>5
  <2>3. y % stride >= o /\ y % stride \in Int
    <3>1. y % stride \in 0 .. stride - 1 BY <1>1, <2>2, ModShift
    <3>2. QED BY <1>1, <1>6, <3>1
  <2>4. QED BY <1>1, <1>3, <2>1, <2>2, <2>3
<1>10. IsFiniteSet(A)
  <2>1. 0 \in Int /\ filesize - 1 \in Int BY <1>1
  <2>2. IsFiniteSet(0 .. filesize - 1) BY <2>1, FS_Interval
  <2>3. A \in SUBSET (0 .. filesize - 1) BY <1>7 DEF Behind
  <2>4. QED BY <2>2, <2>3, FS_Subset
<1>11. IsFiniteSet(i .. i + j - 1) /\ Cardinality(i .. i + j - 1) = j
  <2>1. i \in Int /\ i + j - 1 \in Int BY <1>1, <1>5
  <2>2. /\ IsFiniteSet(i .. i + j - 1)
        /\ Cardinality(i .. i + j - 1) = IF i > i + j - 1 THEN 0 ELSE i + j - 1 - i + 1
    BY <2>1, FS_Interval
  <2>3. QED BY <1>1, <1>5, <2>2
<1>12. Cardinality(A) = count BY <1>2, <1>7 DEF AtBlock
<1>13. Cardinality(A) \in Nat BY <1>10, FS_CardinalityType
<1>14. Cardinality(A \cup (i .. i + j - 1))
         = Cardinality(A) + Cardinality(i .. i + j - 1) - Cardinality(A \cap (i .. i + j - 1))
  BY <1>10, <1>11, FS_Union
<1>15. Cardinality({}) = 0 BY FS_EmptySet
<1>16. Cardinality(A \cup (i .. i + j - 1)) = count + j
  <2>1. Cardinality(A \cap (i .. i + j - 1)) = 0 BY <1>9, <1>15
  <2>2. Cardinality(A \cup (i .. i + j - 1)) = count + j - 0 BY <1>11, <1>12, <1>14, <2>1
  <2>3. QED BY <1>5, <1>12, <1>13, <2>2
<1>17. QED BY <1>2, <1>7, <1>8, <1>16

\* The ranks of the bytes of the block at i.
LEMMA BlockRanks ==
    ASSUME Given, prog = "stride_cat", AtBlock, NEW j \in Nat, j < Least(size, filesize - i)
    PROVE  i + j \in 0 .. filesize - 1 /\ Rank(i + j) = count + j
<1>1. /\ filesize \in Nat /\ arg \in Nat /\ arg > 0 /\ stride \in Nat /\ stride > 0
      /\ i \in Nat /\ i < filesize
  BY DEF Given, filesize, AtBlock
<1>2. PICK o : o = i % stride OBVIOUS
<1>3. o \in 0 .. stride - 1 /\ o \in Nat BY <1>1, <1>2, ModShift
<1>4. /\ o % arg = 0 /\ size = Least(arg, stride - o)
      /\ size \in Nat /\ size > 0 /\ size <= arg /\ o + size <= stride
      /\ size < arg => o + size = stride
  BY <1>1, <1>2, <1>3 DEF AtBlock, Least
<1>5. j < size /\ i + j < filesize BY <1>1, <1>4 DEF Least
<1>6. PICK x : x = i + j OBVIOUS
<1>7. x \in 0 .. filesize - 1 BY <1>1, <1>5, <1>6
<1>8. x % stride = o + j
  <2>1. j \in 0 .. stride - 1 BY <1>1, <1>3, <1>4, <1>5
  <2>2. o + j < stride => (i + j) % stride = o + j
    <3>1. i \in Int BY <1>1
    <3>2. QED BY <1>1, <1>2, <2>1, <3>1, ModFurther
  <2>3. QED BY <1>1, <1>3, <1>4, <1>5, <1>6, <2>2
<1>9. ASSUME NEW r \in 0 .. stride - 1
      PROVE  /\ r \div arg \in Int /\ o \div arg \in Int
             /\ r \div arg = o \div arg <=> o <= r /\ r < o + size
             /\ r \div arg < o \div arg <=> r < o
  <2>1. r \in Nat BY <1>1
  <2>2. /\ r \div arg \in Int /\ o \div arg \in Int
        /\ r \div arg = o \div arg <=> o <= r /\ r < o + arg
        /\ r \div arg < o \div arg <=> r < o
    BY <1>1, <1>3, <1>4, <2>1, SamePart
  <2>3. r < o + arg <=> r < o + size BY <1>1, <1>3, <1>4, <2>1
  <2>4. QED BY <2>2, <2>3
<1>10. Block(x) = o \div arg
  <2>1. o + j \in 0 .. stride - 1 /\ o <= o + j /\ o + j < o + size BY <1>1, <1>3, <1>4, <1>5
  <2>2. (o + j) \div arg = o \div arg BY <1>9, <2>1
  <2>3. QED BY <1>8, <2>2 DEF Block
<1>11. ASSUME NEW y \in 0 .. filesize - 1
       PROVE  Before(y, x) <=> y % stride < o \/ (y % stride < o + size /\ y < i + j)
  <2>1. PICK r : r = y % stride OBVIOUS
  <2>2. y \in Int /\ r \in 0 .. stride - 1 /\ r \in Int BY <1>1, <2>1, ModShift
  <2>3. Before(y, x) <=> r \div arg < o \div arg \/ (r \div arg = o \div arg /\ y < x)
    BY <1>10, <2>1 DEF Before, Block
  <2>4. Before(y, x) <=> r < o \/ (o <= r /\ r < o + size /\ y < x) BY <1>9, <2>2, <2>3
  <2>5. QED BY <1>3, <1>4, <1>6, <2>1, <2>2, <2>4
<1>12. {y \in 0 .. filesize - 1 : Before(y, x)} = Behind(o, size, i + j)
  BY <1>11 DEF Behind
<1>13. j \in 0 .. Least(size, filesize - i) BY <1>1, <1>4 DEF Least
<1>14. Cardinality(Behind(o, size, i + j)) = count + j BY <1>2, <1>13, BehindGrows
<1>15. QED BY <1>6, <1>7, <1>12, <1>14 DEF Rank
\* The block at i is done: the next one begins where stride_cat goes, or there is none.
LEMMA BlockDone ==
    ASSUME Given, prog = "stride_cat", AtBlock,
           NEW c, c = count + Least(size, filesize - i),
           NEW p, p = NextPos, NEW n, n = NextBlock(p)
    PROVE  /\ c \in 0 .. filesize
           /\ p \in Nat /\ 2 * p < WORD
           /\ \/ c = filesize
              \/ /\ p \in 0 .. filesize - 1
                 /\ (p % stride) % arg = 0
                 /\ n = Least(arg, stride - (p % stride))
                 /\ c = Cardinality(Behind(p % stride, n, p))
<1>1. /\ filesize \in Nat /\ arg \in Nat /\ arg > 0 /\ stride \in Nat /\ stride > 0
      /\ i \in Nat /\ i \in Int /\ i < filesize
      /\ WORD \in Nat /\ 4 * filesize < WORD /\ 4 * arg < WORD /\ 4 * stride < WORD
  BY DEF Given, filesize, AtBlock
<1>2. PICK o : o = i % stride OBVIOUS
<1>3. o \in 0 .. stride - 1 /\ o \in Nat /\ (i + stride) % stride = o BY <1>1, <1>2, ModShift
<1>4. /\ o % arg = 0 /\ size = Least(arg, stride - o)
      /\ size \in Nat /\ size > 0 /\ size <= arg /\ o + size <= stride
      /\ size < arg => o + size = stride
  BY <1>1, <1>2, <1>3 DEF AtBlock, Least
<1>5. PICK l : l = Least(size, filesize - i) OBVIOUS
<1>6. /\ l \in Nat /\ l <= size /\ i + l <= filesize /\ (l = size \/ i + l = filesize)
      /\ l \in 0 .. Least(size, filesize - i)
  BY <1>1, <1>4, <1>5 DEF Least
<1>7. PICK B : B = Behind(o, size, i + l) OBVIOUS
<1>8. Cardinality(B) = c BY <1>2, <1>5, <1>6, <1>7, BehindGrows
<1>9. IsFiniteSet(0 .. filesize - 1) /\ Cardinality(0 .. filesize - 1) = filesize
  <2>1. 0 \in Int /\ filesize - 1 \in Int BY <1>1
  <2>2. /\ IsFiniteSet(0 .. filesize - 1)
        /\ Cardinality(0 .. filesize - 1) = IF 0 > filesize - 1 THEN 0 ELSE filesize - 1 - 0 + 1
    BY <2>1, FS_Interval
  <2>3. QED BY <1>1, <2>2
<1>10. c \in 0 .. filesize
  <2>1. B \in SUBSET (0 .. filesize - 1) BY <1>7 DEF Behind
  <2>2. IsFiniteSet(B) /\ Cardinality(B) <= Cardinality(0 .. filesize - 1)
    BY <1>9, <2>1, FS_Subset
  <2>3. Cardinality(B) \in Nat BY <2>2, FS_CardinalityType
  <2>4. QED BY <1>1, <1>8, <1>9, <2>2, <2>3
<1>11. ASSUME NEW y \in 0 .. filesize - 1
       PROVE  y \in Int /\ y % stride \in 0 .. stride - 1
  <2>1. y \in Int BY <1>1
  <2>2. QED BY <1>1, <2>1, ModShift
<1>12. ASSUME NEW y \in 0 .. filesize - 1, y >= i + l, y < i + stride
       PROVE  y % stride < o \/ y % stride >= o + size
  <2>1. y \in Int BY <1>11
  <2>2. l = size BY <1>1, <1>6, <1>12, <2>1
  <2>3. PICK d \in 0 .. stride - 1 : y = i + d /\ d >= size
    <3>1. y - i \in 0 .. stride - 1 /\ y = i + (y - i) /\ y - i >= size
      BY <1>1, <1>4, <1>12, <2>1, <2>2
    <3>2. QED BY <3>1
  <2>4. /\ o + d < stride => (i + d) % stride = o + d
        /\ o + d >= stride => (i + d) % stride = o + d - stride
    BY <1>1, <1>2, ModFurther
  <2>5. QED BY <1>1, <1>3, <1>4, <2>3, <2>4
<1>13. CASE i + stride < filesize
  <2>1. p = i + stride /\ n = size BY <1>13, <1>1 DEF NextPos, NextBlock
  <2>2. p \in 0 .. filesize - 1 BY <1>1, <1>13, <2>1
  <2>3. p % stride = o BY <1>3, <2>1
  <2>4. Behind(o, size, p) = B
    <3>1. ASSUME NEW y \in Behind(o, size, p) PROVE y \in B
      <4>1. y \in 0 .. filesize - 1 /\ (y % stride < o \/ (y % stride < o + size /\ y < p))
        BY <3>1 DEF Behind
      <4>2. y \in Int /\ y % stride \in 0 .. stride - 1 BY <4>1, <1>11
      <4>3. y % stride < o \/ (y % stride < o + size /\ y < i + l)
        BY <1>1, <1>3, <1>4, <1>6, <1>12, <2>1, <4>1, <4>2
      <4>4. QED BY <1>7, <4>1, <4>3 DEF Behind
    <3>2. ASSUME NEW y \in B PROVE y \in Behind(o, size, p)
      <4>1. y \in 0 .. filesize - 1 /\ (y % stride < o \/ (y % stride < o + size /\ y < i + l))
        BY <1>7, <3>2 DEF Behind
      <4>2. y < i + l => y < p
        <5>1. y \in Int /\ l <= stride BY <1>3, <1>4, <1>6, <1>1, <4>1
        <5>2. QED BY <1>1, <1>6, <2>1, <5>1
      <4>3. QED BY <4>1, <4>2 DEF Behind
    <3>3. QED BY <3>1, <3>2
  <2>5. p \in Nat /\ 2 * p < WORD BY <1>1, <2>2
  <2>6. QED BY <1>4, <1>8, <1>10, <2>1, <2>2, <2>3, <2>4, <2>5
<1>14. CASE i + stride >= filesize
  <2>1. p = o + size /\ p \in Nat /\ 2 * p < WORD
    <3>1. o + size \in Nat /\ o + size < WORD BY <1>1, <1>3, <1>4
    <3>2. SizeT(o + size) = o + size BY <3>1, Fits
    <3>3. p = o + size BY <1>1, <1>3, <1>14, <3>2 DEF NextPos
    <3>4. QED BY <1>1, <1>3, <1>4, <3>3
  <2>2. n = IF p + size > stride THEN stride - p ELSE size
    <3>1. /\ p + size \in Nat /\ p + size < WORD
          /\ stride - p \in Nat /\ stride - p < WORD
      BY <1>1, <1>3, <1>4, <2>1
    <3>2. SizeT(p + size) = p + size /\ SizeT(stride - p) = stride - p BY <3>1, Fits
    <3>3. QED BY <1>14, <3>2 DEF NextBlock
  <2>3. B = {y \in 0 .. filesize - 1 : y % stride < p}
    <3>1. ASSUME NEW y \in B PROVE y \in 0 .. filesize - 1 /\ y % stride < p
      <4>1. y \in 0 .. filesize - 1 /\ (y % stride < o \/ y % stride < o + size)
        BY <1>7, <3>1 DEF Behind
      <4>2. y % stride \in 0 .. stride - 1 BY <4>1, <1>11
      <4>3. QED BY <1>3, <1>4, <2>1, <4>1, <4>2
    <3>2. ASSUME NEW y \in 0 .. filesize - 1, y % stride < p PROVE y \in B
      <4>1. y \in Int /\ y % stride \in 0 .. stride - 1 BY <1>11
      <4>2. y < i + stride BY <1>1, <1>14, <4>1
      <4>3. y % stride < o \/ y < i + l BY <1>1, <1>3, <1>4, <1>6, <1>12, <2>1, <3>2, <4>1, <4>2
      <4>4. QED BY <1>7, <2>1, <3>2, <4>3 DEF Behind
    <3>3. QED BY <3>1, <3>2
  <2>4. CASE p < stride /\ p < filesize
    <3>1. p \in 0 .. filesize - 1 /\ p \in 0 .. stride - 1 /\ p \in Int BY <1>1, <1>3, <1>4, <2>1, <2>4
    <3>2. p % stride = p BY <1>1, <3>1, ModShift
    <3>3. size = arg BY <1>1, <1>3, <1>4, <2>1, <2>4
    <3>4. p % arg = 0
      <4>1. (o + arg) % arg = o % arg
        <5>1. o \in Int BY <1>3
        <5>2. QED BY <1>1, <5>1, ModShift
      <4>2. QED BY <1>4, <2>1, <3>3, <4>1
    <3>5. n = Least(arg, stride - p) BY <1>1, <2>2, <3>1, <3>3 DEF Least
    <3>6. n \in Nat BY <1>1, <3>1, <3>5, <2>4 DEF Least
    <3>7. Behind(p, n, p) = B
      <4>1. ASSUME NEW y \in Behind(p, n, p) PROVE y \in B
        <5>1. y \in 0 .. filesize - 1 /\ (y % stride < p \/ y < p) BY <4>1 DEF Behind
        <5>2. y < p => y % stride = y
          <6>1. y \in Int /\ (y < p => y \in 0 .. stride - 1) BY <1>1, <3>1, <5>1
          <6>2. QED BY <1>1, <6>1, ModShift
        <5>3. QED BY <2>3, <5>1, <5>2
      <4>2. ASSUME NEW y \in B PROVE y \in Behind(p, n, p)
        BY <2>3, <4>2 DEF Behind
      <4>3. QED BY <4>1, <4>2
    <3>8. QED BY <1>8, <1>10, <2>1, <3>1, <3>2, <3>4, <3>5, <3>7
  <2>5. CASE ~ (p < stride /\ p < filesize)
    <3>1. p \in Int /\ p <= stride BY <1>1, <1>3, <1>4, <2>1
    <3>2. ASSUME NEW y \in 0 .. filesize - 1 PROVE y % stride < p
      <4>1. y \in Int /\ y % stride \in 0 .. stride - 1 BY <1>11
      <4>2. CASE p = stride BY <1>1, <4>1, <4>2
      <4>3. CASE p # stride
        <5>1. y < p /\ y \in 0 .. stride - 1 BY <1>1, <2>5, <3>1, <4>1, <4>3
        <5>2. y % stride = y BY <1>1, <4>1, <5>1, ModShift
        <5>3. QED BY <5>1, <5>2
      <4>4. QED BY <4>2, <4>3
    <3>3. B = 0 .. filesize - 1 BY <2>3, <3>2
    <3>4. QED BY <1>8, <1>9, <1>10, <2>1, <3>3
  <2>6. QED BY <2>4, <2>5
<1>15. QED BY <1>1, <1>13, <1>14

\* The next bytes of stride_cat's output are the block at i.
LEMMA StridedBlock ==
    ASSUME Given, prog = "stride_cat", AtBlock, NEW j \in Nat, j < Least(size, filesize - i),
           count \in Nat, count + j + 1 <= filesize
    PROVE  Strided[count + j + 1] = input[i + j + 1]
<1>1. filesize \in Nat /\ arg > 0 /\ stride > 0 /\ i \in Nat BY DEF Given, filesize, AtBlock
<1>2. PICK x : x = i + j OBVIOUS
<1>3. PICK k : k = count + j + 1 OBVIOUS
<1>4. x \in 0 .. filesize - 1 /\ Rank(x) = k - 1
  <2>1. i + j \in 0 .. filesize - 1 /\ Rank(i + j) = count + j BY BlockRanks
  <2>2. k - 1 = count + j BY <1>3
  <2>3. QED BY <1>2, <2>1, <2>2
<1>5. PICK z : z = CHOOSE w \in 0 .. filesize - 1 : Rank(w) = k - 1 OBVIOUS
<1>6. z \in 0 .. filesize - 1 /\ Rank(z) = k - 1 BY <1>4, <1>5
<1>7. z = x BY <1>1, <1>4, <1>6, OneRank
<1>8. k \in 1 .. filesize BY <1>1, <1>3
<1>9. Strided[k] = input[1 + z] BY <1>5, <1>8 DEF Strided
<1>10. 1 + z = i + j + 1 BY <1>1, <1>2, <1>7
<1>11. QED BY <1>3, <1>9, <1>10

-----------------------------------------------------------------------------
(* What is wanted. *)

\* The letters: rot13 is its own inverse, and keeps their case.
LEMMA Rotates ==
    ASSUME NEW a \in Byte
    PROVE  LET b == rot13(a)
           IN  /\ b \in Byte
               /\ rot13(b) = a /\ IsUpper(b) = IsUpper(a) /\ IsLower(b) = IsLower(a)
               /\ IsUpper(a) \/ IsLower(a) <=> a # b
<1> DEFINE b == rot13(a)
<1>1. CASE a \in 65 .. 77
  <2>1. b = a + 13 BY <1>1 DEF rot13, IsUpper
  <2>2. rot13(b) = a BY <1>1, <2>1 DEF rot13, IsUpper
  <2>3. QED BY <1>1, <2>1, <2>2 DEF IsUpper, IsLower, Byte
<1>2. CASE a \in 78 .. 90
  <2>1. b = a - 13 BY <1>2 DEF rot13, IsUpper
  <2>2. rot13(b) = a BY <1>2, <2>1 DEF rot13, IsUpper
  <2>3. QED BY <1>2, <2>1, <2>2 DEF IsUpper, IsLower, Byte
<1>3. CASE a \in 97 .. 109
  <2>1. b = a + 13 BY <1>3 DEF rot13, IsUpper, IsLower
  <2>2. rot13(b) = a BY <1>3, <2>1 DEF rot13, IsUpper, IsLower
  <2>3. QED BY <1>3, <2>1, <2>2 DEF IsUpper, IsLower, Byte
<1>4. CASE a \in 110 .. 122
  <2>1. b = a - 13 BY <1>4 DEF rot13, IsUpper, IsLower
  <2>2. rot13(b) = a BY <1>4, <2>1 DEF rot13, IsUpper, IsLower
  <2>3. QED BY <1>4, <2>1, <2>2 DEF IsUpper, IsLower, Byte
<1>5. CASE ~ IsUpper(a) /\ ~ IsLower(a)
  <2>1. b = a BY <1>5 DEF rot13
  <2>2. QED BY <1>5, <2>1 DEF rot13
<1>6. a \in 65 .. 77 \/ a \in 78 .. 90 \/ a \in 97 .. 109 \/ a \in 110 .. 122
      \/ (~ IsUpper(a) /\ ~ IsLower(a))
  BY DEF IsUpper, IsLower, Byte
<1>7. QED BY <1>1, <1>2, <1>3, <1>4, <1>5, <1>6

\* It is as long as the input.
LEMMA WantedLength ==
    ASSUME Given
    PROVE  /\ \E S : Wanted \in Seq(S) /\ input \in Seq(S) /\ old \in Seq(S)
           /\ Len(Wanted) = filesize /\ filesize \in Nat
           /\ prog = "rot13" => Wanted \in Seq(Byte)
<1>1. input \in Seq(Byte) /\ old \in Seq(Byte) /\ filesize \in Nat /\ filesize = Len(input)
  BY DEF Given, filesize
<1>2. \A k \in 1 .. filesize : input[k] \in Byte BY <1>1
<1>3. CASE prog = "rot13"
  <2>1. Wanted = [k \in 1 .. filesize |-> rot13(input[k])] BY <1>3 DEF Wanted, CopyByByte, CopyBlocks
  <2>2. \A k \in 1 .. filesize : rot13(input[k]) \in Byte BY <1>2, Rotates
  <2>3. Wanted \in Seq(Byte) /\ Len(Wanted) = filesize BY <1>1, <2>1, <2>2
  <2>4. QED BY <1>1, <2>3
<1>4. CASE prog \in CopyByByte \cup CopyBlocks
  <2>1. Wanted = input BY <1>4 DEF Wanted, CopyByByte, CopyBlocks
  <2>2. QED BY <1>1, <1>4, <2>1 DEF CopyByByte, CopyBlocks
<1>5. CASE prog = "stride_cat"
  <2>1. Wanted = Strided BY <1>5 DEF Wanted, CopyByByte, CopyBlocks
  <2>2. PICK e : e = [k \in 1 .. filesize |-> Strided[k]] OBVIOUS
  <2>3. Strided = e BY <2>2 DEF Strided
  <2>4. PICK S : S = Byte \cup {e[k] : k \in 1 .. filesize} OBVIOUS
  <2>5. e \in [1 .. filesize -> S] BY <2>2, <2>3, <2>4
  <2>6. e \in Seq(S) /\ Len(e) = filesize BY <1>1, <2>5
  <2>7. input \in Seq(S) /\ old \in Seq(S)
    <3>1. Byte \subseteq S BY <2>4
    <3>2. QED BY <1>1, <3>1, SeqMonotonic
  <2>8. QED BY <1>1, <1>5, <2>1, <2>3, <2>6, <2>7
<1>6. CASE prog \in {"reverse_byte_cat", "reverse_block_cat"}
  <2>1. Wanted = [k \in 1 .. filesize |-> input[filesize - k + 1]]
    BY <1>1, <1>6 DEF Wanted, Reverse, CopyByByte, CopyBlocks
  <2>2. \A k \in 1 .. filesize : filesize - k + 1 \in 1 .. filesize BY <1>1
  <2>3. \A k \in 1 .. filesize : input[filesize - k + 1] \in Byte BY <1>2, <2>2
  <2>4. Wanted \in Seq(Byte) /\ Len(Wanted) = filesize BY <1>1, <2>1, <2>3
  <2>5. QED BY <1>1, <1>6, <2>4
<1>7. QED BY <1>3, <1>4, <1>5, <1>6 DEF Given, ByByte, ByBlock
-----------------------------------------------------------------------------
(* The steps. *)

\* A step leaves the command line and the files as they were given ...
LEMMA StepArgs ==
    ASSUME [Run \/ Exited]_pvars
    PROVE  UNCHANGED args
BY DEF Run, Exited, open, seek, read, write, close, args, pvars

\* ... and with them what is wanted.
LEMMA SameArgs ==
    ASSUME UNCHANGED args
    PROVE  /\ prog' = prog /\ input' = input /\ old' = old /\ arg' = arg /\ stride' = stride
           /\ filesize' = filesize /\ Wanted' = Wanted /\ Given' = Given /\ Opens' = Opens
           /\ impl' = impl /\ Overlapping' = Overlapping
<1>1. /\ prog' = prog /\ input' = input /\ old' = old /\ arg' = arg /\ stride' = stride
      /\ impl' = impl /\ exists' = exists
  BY DEF args
<1>2. filesize' = filesize BY <1>1 DEF filesize
<1>3. Strided' = Strided BY <1>1, <1>2 DEF Strided, Rank, Before, Block
<1>4. QED BY <1>1, <1>2, <1>3 DEF Wanted, Given, Opens, Overlapping

\* Failures stay.
LEMMA FailuresStay ==
    ASSUME Run
    PROVE  failed \subseteq failed' /\ (Good' => Good) /\ (Served' => Served)
<1>1. UNCHANGED args BY StepArgs
<1>2. /\ prog' = prog /\ arg' = arg /\ filesize' = filesize /\ Opens' = Opens
      /\ Overlapping' = Overlapping
  BY <1>1, SameArgs
<1>3. failed \subseteq failed'
  BY DEF Run, open, seek, read, write, close, Fails, Transfers
<1>4. status' = 0 => status = 0
  <2>1. open => (status' = 0 => status = 0) BY DEF open, Exits, SIGSEGV
  <2>2. seek => (status' = 0 => status = 0) BY DEF seek, Closes
  <2>3. read => (status' = 0 => status = 0)
    <3>1. read => status' \in {status, 1, SIGSEGV} BY DEF read, Closes, Exits
    <3>2. QED BY <3>1 DEF SIGSEGV
  <2>4. write => (status' = 0 => status = 0)
    <3>1. write => status' \in {status, 1} BY DEF write, Closes
    <3>2. QED BY <3>1
  <2>5. close => (status' = 0 => status = 0) BY DEF close
  <2>6. QED BY <2>1, <2>2, <2>3, <2>4, <2>5 DEF Run
<1>5. QED BY <1>2, <1>3, <1>4 DEF Good, Served, Unnoticed

\* The kinds of programs.
LEMMA Kinds ==
    ASSUME Given
    PROVE  /\ prog \in ByByte \/ prog \in CopyBlocks \/ prog = "stride_cat" \/ prog = "reverse_block_cat"
           /\ prog \in ByByte => Loop = ByteLoop
           /\ prog \in CopyBlocks => Loop = CopyLoop
           /\ prog = "stride_cat" => Loop = StrideLoop
           /\ prog = "reverse_block_cat" => Loop = ReverseLoop
<1>1. prog \in ByByte \/ prog \in CopyBlocks \/ prog = "stride_cat" \/ prog = "reverse_block_cat"
  BY DEF Given, ByByte, ByBlock
<1>2. prog \in ByByte => Loop = ByteLoop BY DEF Loop, ByByte, CopyByByte, CopyBlocks
<1>3. prog \in CopyBlocks => Loop = CopyLoop BY DEF Loop, ByByte, CopyByByte, CopyBlocks
<1>4. prog = "stride_cat" => Loop = StrideLoop BY DEF Loop, ByByte, CopyByByte, CopyBlocks
<1>5. prog = "reverse_block_cat" => Loop = ReverseLoop BY DEF Loop, ByByte, CopyByByte, CopyBlocks
<1>6. QED BY <1>1, <1>2, <1>3, <1>4, <1>5

\* They stay the same.
LEMMA KindsNext ==
    ASSUME Given'
    PROVE  /\ prog' \in ByByte => Loop' = ByteLoop'
           /\ prog' \in CopyBlocks => Loop' = CopyLoop'
           /\ prog' = "stride_cat" => Loop' = StrideLoop'
           /\ prog' = "reverse_block_cat" => Loop' = ReverseLoop'
<1>1. prog' \in ByByte => Loop' = ByteLoop' BY DEF Loop, ByByte, CopyByByte, CopyBlocks
<1>2. prog' \in CopyBlocks => Loop' = CopyLoop' BY DEF Loop, ByByte, CopyByByte, CopyBlocks
<1>3. prog' = "stride_cat" => Loop' = StrideLoop' BY DEF Loop, ByByte, CopyByByte, CopyBlocks
<1>4. prog' = "reverse_block_cat" => Loop' = ReverseLoop' BY DEF Loop, ByByte, CopyByByte, CopyBlocks
<1>5. QED BY <1>1, <1>2, <1>3, <1>4

\* Nothing is written.
LEMMA CopiedStays ==
    ASSUME Given, Copied, UNCHANGED args, UNCHANGED out, Done' = Done,
           NEW q \in Nat, in' = [data |-> in.data, pos |-> q]
    PROVE  Copied'
<1>1. /\ prog' = prog /\ input' = input /\ old' = old /\ filesize' = filesize /\ Wanted' = Wanted
  BY SameArgs
<1>2. in.data \in Seq(Byte) BY DEF Copied
<1>3. in' \in [data : Seq(Byte), pos : Nat] /\ in'.data = in.data BY <1>2
<1>4. Kept(Wanted, input, Done)' = Kept(Wanted, input, Done)
      /\ Kept(Wanted, old, Done)' = Kept(Wanted, old, Done)
  BY <1>1 DEF Kept
<1>5. QED BY <1>1, <1>3, <1>4 DEF Copied

\* What is wanted next is written.
LEMMA WritesNext ==
    ASSUME Given, Copied, NEW e \in Nat, Done <= e, e <= filesize,
           Writes(SubSeq(Written, 1, Len(Written))),
           Written = SubSeq(Wanted, Done + 1, e), prog = "rot13" => in.pos = Done
    PROVE  IF prog = "rot13" THEN in' = [data |-> Kept(Wanted, input, e), pos |-> e] /\ out' = out
           ELSE out' = [data |-> Kept(Wanted, old, e), pos |-> e] /\ in' = in
<1>1. PICK S : Wanted \in Seq(S) /\ input \in Seq(S) /\ old \in Seq(S) BY WantedLength
<1>2. PICK n : n = Done OBVIOUS
<1>3. n \in Nat /\ n <= e /\ e <= Len(Wanted) BY <1>2, WantedLength DEF Copied
<1>4. PICK W : W = Wanted OBVIOUS
<1>5. Writes(SubSeq(W, n + 1, e))
  <2>1. Written = SubSeq(W, n + 1, e) BY <1>2, <1>4
  <2>2. SubSeq(W, n + 1, e) \in Seq(S) BY <1>1, <1>3, <1>4, PartOf
  <2>3. SubSeq(Written, 1, Len(Written)) = Written BY <2>1, <2>2, SubSeqFull
  <2>4. QED BY <2>1, <2>3
<1>6. CASE prog = "rot13"
  <2>1. in.data = Kept(W, input, n) /\ in.pos = n BY <1>2, <1>4, <1>6 DEF Copied
  <2>2. io300_write(in, SubSeq(W, n + 1, e)) = [data |-> Kept(W, input, e), pos |-> e]
    BY <1>1, <1>3, <1>4, <2>1, WriteNext
  <2>3. in' = io300_write(in, SubSeq(W, n + 1, e)) /\ out' = out BY <1>5, <1>6 DEF Writes
  <2>4. QED BY <1>4, <1>6, <2>2, <2>3
<1>7. CASE prog # "rot13"
  <2>1. out.data = Kept(W, old, n) /\ out.pos = n BY <1>2, <1>4, <1>7 DEF Copied
  <2>2. io300_write(out, SubSeq(W, n + 1, e)) = [data |-> Kept(W, old, e), pos |-> e]
    BY <1>1, <1>3, <1>4, <2>1, WriteNext
  <2>3. out' = io300_write(out, SubSeq(W, n + 1, e)) /\ in' = in BY <1>5, <1>7 DEF Writes
  <2>4. QED BY <1>4, <1>7, <2>2, <2>3
<1>8. QED BY <1>6, <1>7

\* After that, so much more is written.
LEMMA CopiedNext ==
    ASSUME Given, Copied, UNCHANGED args, NEW e \in Nat, e <= filesize, Done' = e,
           IF prog = "rot13" THEN in' = [data |-> Kept(Wanted, input, e), pos |-> e] /\ out' = out
           ELSE out' = [data |-> Kept(Wanted, old, e), pos |-> e] /\ in' = in
    PROVE  Copied'
<1>1. prog' = prog /\ input' = input /\ old' = old /\ filesize' = filesize /\ Wanted' = Wanted
  BY SameArgs
<1>2. /\ Kept(Wanted, input, Done)' = Kept(Wanted, input, e)
      /\ Kept(Wanted, old, Done)' = Kept(Wanted, old, e)
  BY <1>1 DEF Kept
<1>3. filesize \in Nat BY WantedLength
<1>4. in' \in [data : Seq(Byte), pos : Nat]
  <2>1. CASE prog = "rot13"
    <3>1. Wanted \in Seq(Byte) /\ input \in Seq(Byte) /\ e \in 0 .. Len(Wanted)
      BY <2>1, <1>3, WantedLength DEF Given
    <3>2. Kept(Wanted, input, e) \in Seq(Byte) BY <3>1, KeptIs
    <3>3. QED BY <2>1, <3>2
  <2>2. CASE prog # "rot13" BY <2>2 DEF Copied
  <2>3. QED BY <2>1, <2>2
<1>5. QED BY <1>1, <1>2, <1>3, <1>4 DEF Copied

\* A part of one byte.
LEMMA OneByte ==
    ASSUME NEW S, NEW s \in Seq(S), NEW n \in Nat, n < Len(s)
    PROVE  SubSeq(s, n + 1, n + 1) = <<s[n + 1]>>
<1>1. PICK t : t = SubSeq(s, n + 1, n + 1) OBVIOUS
<1>2. n + 1 \in Nat /\ n + 1 <= Len(s) BY LenProperties
<1>3. t \in Seq(S) /\ Len(t) = 1 /\ t[1] = s[n + 1]
  <2>1. t \in Seq(S) /\ Len(t) = 1 /\ \A k \in 1 .. 1 : t[k] = s[n + k]
    <3>1. PICK m \in Nat : m = 1 OBVIOUS
    <3>2. n + m <= Len(s) /\ t = SubSeq(s, n + 1, n + m) BY <1>1, <1>2, <3>1
    <3>3. t \in Seq(S) /\ Len(t) = m /\ \A k \in 1 .. m : t[k] = s[n + k] BY <3>2, PartFrom
    <3>4. QED BY <3>1, <3>3
  <2>2. 1 \in 1 .. 1 OBVIOUS
  <2>3. QED BY <2>1, <2>2
<1>4. t = <<s[n + 1]>> BY <1>3
<1>5. QED BY <1>1, <1>4

-----------------------------------------------------------------------------
\* Where a round begins, or none.
LEMMA OpenStep ==
    ASSUME ProgramsInv, open
    PROVE  /\ Good' => Loop' /\ Copied'
           /\ Served' => status' = 0
           /\ Served' /\ Overlapping' => LongLoop'
           /\ pc' # "open"
<1>1. UNCHANGED args BY StepArgs DEF Run
<1>2. /\ prog' = prog /\ input' = input /\ old' = old /\ arg' = arg /\ stride' = stride
      /\ filesize' = filesize /\ Wanted' = Wanted /\ Given' /\ Opens' = Opens
      /\ Overlapping' = Overlapping
  BY <1>1, SameArgs DEF ProgramsInv
<1>3. pc = "open" /\ Given /\ Fresh BY DEF ProgramsInv, open
<1>4. filesize \in Nat /\ arg \in Nat /\ stride \in Nat /\ filesize = Len(input)
      /\ input \in Seq(Byte) /\ old \in Seq(Byte)
  BY <1>3 DEF Given, filesize
<1>5. in' = in /\ out' = out /\ size' = arg /\ failed' = failed BY <1>3 DEF open, Fresh
<1>6. pc' # "open" BY DEF open, Exits, Round, Begins
<1>7. ASSUME Served' PROVE status' = 0 /\ (Overlapping' => LongLoop')
  <2>1. arg > 0 /\ filesize > 0 /\ (prog = "rot13" \/ Opens) BY <1>2, <1>7 DEF Served
  <2>2. ~ Refuses BY <1>3, <1>4, <2>1 DEF Refuses, Fresh
  <2>3. status' = 0 /\ Round(First, 0) BY <1>3, <2>1, <2>2 DEF open, Fresh
  <2>4. ASSUME Overlapping' PROVE LongLoop'
    <3>1. prog = "stride_cat" BY <1>2, <2>4 DEF Overlapping
    <3>2. i' = 0 /\ count' = 0 /\ pc' = "read"
      BY <2>1, <2>3, <3>1 DEF Round, First, Goes, Begins, CopyByByte
    <3>3. in' = [data |-> input, pos |-> 0] BY <1>3, <1>5 DEF Fresh, Open
    <3>4. AtStart' BY <1>2, <1>4, <1>5, <2>1, <3>2 DEF AtStart
    <3>5. QED BY <1>2, <3>2, <3>3, <3>4 DEF LongLoop
  <2>5. QED BY <2>3, <2>4
<1>8. ASSUME Good' PROVE Loop' /\ Copied'
  <2>1. arg > 0 /\ status' = 0 /\ ~ Overlapping BY <1>2, <1>8 DEF Good
  <2>2. ~ Refuses /\ Round(First, 0) BY <2>1 DEF open, Exits, SIGSEGV
  <2>3. i' = First /\ count' = 0 /\ pc' = IF Goes(First, 0) THEN Begins ELSE "close"
    BY <2>2 DEF Round
  <2>4. FirstBlock' = FirstBlock BY <1>2, <1>3, <1>5 DEF FirstBlock, Fresh
  <2>5. filesize % arg \in 0 .. arg - 1 BY <1>4, <2>1, ModShift
  <2>6. Done' = 0
    BY <1>2, <1>3, <1>4, <1>5, <2>3, <2>4
    DEF Done, First, Fresh, Open, CopyByByte, ByByte, Given, ByBlock, CopyBlocks
  <2>7. Copied'
    <3>1. PICK S : Wanted \in Seq(S) /\ input \in Seq(S) /\ old \in Seq(S) BY <1>3, WantedLength
    <3>2. Kept(Wanted, input, 0) = input /\ Kept(Wanted, old, 0) = old BY <3>1, KeptNothing
    <3>3. Kept(Wanted, input, Done)' = input /\ Kept(Wanted, old, Done)' = old
      BY <1>2, <2>6, <3>2 DEF Kept
    <3>4. in' = [data |-> input, pos |-> 0] /\ out' = [data |-> old, pos |-> 0]
      BY <1>3, <1>5 DEF Fresh, Open
    <3>5. in' \in [data : Seq(Byte), pos : Nat] BY <1>4, <3>4
    <3>6. QED BY <1>2, <1>4, <2>6, <3>3, <3>4, <3>5 DEF Copied
  <2>8. in'.pos = 0 /\ out'.pos = 0 BY <1>3, <1>5 DEF Fresh, Open
  <2>9. CASE prog \in ByByte
    <3>1. filesize > 0 \/ prog = "rot13" BY <1>4, <2>2, <2>9 DEF Refuses, ByByte, CopyByByte
    <3>2. ByteLoop'
      BY <1>2, <1>4, <1>5, <2>3, <2>8, <2>9, <3>1
      DEF ByteLoop, First, Goes, Begins, ByByte, CopyByByte
    <3>3. QED BY <1>2, <2>7, <2>9, <3>2, KindsNext
  <2>10. CASE prog \in CopyBlocks
    <3>1. CopyLoop'
      BY <1>2, <1>4, <1>5, <2>3, <2>8, <2>10 DEF CopyLoop, Goes, Begins, CopyByByte, CopyBlocks
    <3>2. QED BY <1>2, <2>7, <2>10, <3>1, KindsNext
  <2>11. CASE prog = "stride_cat"
    <3>1. i' = 0 /\ pc' = IF 0 < filesize THEN "read" ELSE "close"
      BY <2>3, <2>11 DEF First, Goes, Begins, CopyByByte
    <3>2. ASSUME 0 < filesize PROVE AtBlock'
      <4>0. arg \in 1 .. stride /\ stride > 0 BY <1>4, <2>1, <2>11 DEF Overlapping
      <4>1. 0 % stride = 0 /\ 0 % arg = 0 BY <1>4, <2>1, <4>0, ModShift
      <4>2. Behind(0, arg, 0) = {}
        <5>1. ASSUME NEW y \in 0 .. filesize - 1 PROVE ~ (y % stride < 0) /\ ~ (y < 0)
          <6>1. y \in Int /\ y >= 0 BY <1>4
          <6>2. y % stride \in 0 .. stride - 1 BY <1>4, <4>0, <6>1, ModShift
          <6>3. QED BY <6>1, <6>2
        <5>2. QED BY <5>1 DEF Behind
      <4>3. Behind(i % stride, size, i)' = {}
        BY <1>2, <1>5, <3>1, <4>1, <4>2 DEF Behind
      <4>4. Cardinality({}) = 0 BY FS_EmptySet
      <4>5. size' = Least(arg', stride' - (i' % stride'))
        BY <1>2, <1>4, <1>5, <3>1, <4>0, <4>1 DEF Least
      <4>6. count' = Cardinality(Behind(i % stride, size, i)') BY <2>3, <4>3, <4>4
      <4>7. i' \in 0 .. filesize' - 1 BY <1>2, <1>4, <3>1, <3>2
      <4>8. (i' % stride') % arg' = 0 BY <1>2, <3>1, <4>1
      <4>9. QED BY <1>2, <4>0, <4>5, <4>6, <4>7, <4>8 DEF AtBlock
    <3>3. StrideLoop' BY <1>2, <1>4, <2>3, <2>8, <3>1, <3>2 DEF StrideLoop
    <3>4. QED BY <1>2, <2>7, <2>11, <3>3, KindsNext
  <2>12. CASE prog = "reverse_block_cat"
    <3>1. i' = FirstBlock /\ pc' = IF FirstBlock >= 0 THEN "seek" ELSE "close"
      BY <2>3, <2>12 DEF First, Goes, Begins, CopyByByte
    <3>2. PICK b : b = FirstBlock OBVIOUS
    <3>3. b \in Int /\ b >= 0 /\ b % arg = 0
      <4>1. b = filesize - (filesize % arg) BY <1>3, <3>2 DEF FirstBlock, Fresh
      <4>2. b \in Nat /\ b % arg = 0 BY <1>4, <2>1, <4>1, LastPart
      <4>3. QED BY <4>2
    <3>4. ReverseLoop' BY <1>2, <1>5, <2>4, <3>1, <3>2, <3>3 DEF ReverseLoop
    <3>5. QED BY <1>2, <2>7, <2>12, <3>4, KindsNext
  <2>13. QED BY <1>3, <2>9, <2>10, <2>11, <2>12, Kinds
<1>9. QED BY <1>6, <1>7, <1>8

\* Where the program seeks to.
LEMMA SeekStep ==
    ASSUME Given, Good, Loop, Copied, seek
    PROVE  /\ Good' => Loop' /\ Copied'
           /\ failed' = {} => status' = 0
           /\ pc' # "open"
<1>1. UNCHANGED args BY StepArgs DEF Run
<1>2. /\ prog' = prog /\ input' = input /\ old' = old /\ arg' = arg /\ stride' = stride
      /\ filesize' = filesize /\ Wanted' = Wanted /\ Given'
  BY <1>1, SameArgs
<1>3. filesize \in Nat BY DEF Given, filesize
<1>4. out' = out /\ size' = size /\ i' = i /\ buffer' = buffer BY DEF seek
<1>5. FirstBlock' = FirstBlock BY <1>2, <1>4 DEF FirstBlock
<1>6. pc' # "open" BY DEF seek, Closes
<1>7. failed' = {} => status' = 0
  <2>1. Where \in Int /\ 2 * Where < WORD
    <3>1. pc \in {"seek", "away", "back", "stride"} BY DEF seek
    <3>2. WORD \in Nat /\ 4 * filesize < WORD /\ arg \in Nat /\ arg > 0 BY DEF Given, Good
    <3>3. CASE prog \in ByByte
      <4>1. ByteLoop BY <3>3, Kinds
      <4>2. i \in 0 .. filesize - 1 BY <3>1, <4>1 DEF ByteLoop
      <4>3. Where \in {0, filesize - 1, i + 1, i} BY DEF Where
      <4>4. QED BY <1>3, <3>2, <4>2, <4>3
    <3>4. CASE prog \in CopyBlocks BY <3>1, <3>4, Kinds DEF CopyLoop
    <3>5. CASE prog = "stride_cat"
      <4>1. pc = "stride" /\ i \in Nat /\ ~ Huge(i) BY <3>1, <3>5, Kinds DEF StrideLoop
      <4>2. QED BY <3>2, <4>1 DEF Where, Huge
    <3>6. CASE prog = "reverse_block_cat"
      <4>1. pc = "seek" /\ i \in Int /\ i <= FirstBlock /\ size = arg
        BY <3>1, <3>6, Kinds DEF ReverseLoop
      <4>2. PICK b : b = FirstBlock OBVIOUS
      <4>3. b = filesize - (filesize % arg) BY <4>1, <4>2 DEF FirstBlock
      <4>4. b \in Nat /\ b <= filesize BY <1>3, <3>2, <4>3, LastPart
      <4>5. QED BY <1>3, <3>2, <4>1, <4>2, <4>4 DEF Where
    <3>7. QED BY <3>3, <3>4, <3>5, <3>6, Kinds
  <2>2. ~ Huge(Where)
    <3>1. WORD \in Nat BY DEF Given
    <3>2. QED BY <2>1, <3>1 DEF Huge
  <2>3. QED BY <2>2 DEF seek, Fails, Good
<1>8. ASSUME Good' PROVE Loop' /\ Copied'
  <2>1. status' = 0 BY <1>8 DEF Good
  <2>2. /\ in' = [in EXCEPT !.pos = Where]
        /\ count' = IF pc = "away" THEN count + 1 ELSE IF pc = "back" THEN 0 ELSE count
        /\ pc = "away" => pc' \in {"back", "away"}
        /\ pc = "seek" => pc' = "read"
        /\ pc = "back" => pc' = "write"
        /\ pc = "stride" => pc' = IF Goes(i, count) THEN "read" ELSE "close"
        /\ pc \in {"seek", "away", "back", "stride"}
    BY <2>1 DEF seek, Closes
  <2>3. in \in [data : Seq(Byte), pos : Nat] BY DEF Copied
  <2>4. in' = [data |-> in.data, pos |-> Where] BY <2>2, <2>3
  <2>5. CASE prog \in ByByte
    <3>1. ByteLoop BY <2>5, Kinds
    <3>2. Where \in Nat BY <1>3, <2>2, <3>1 DEF Where, ByteLoop
    <3>3. Done' = Done
      BY <1>2, <1>4, <2>5 DEF Done, ByByte, CopyByByte
    <3>4. Copied' BY <1>1, <1>4, <2>4, <3>2, <3>3, CopiedStays
    <3>5. pc = "seek" => in'.pos = i BY <2>4 DEF Where
    <3>6. pc = "back" => in'.pos = IF prog = "diabolical_byte_cat" THEN i + 1 ELSE i
      BY <2>4 DEF Where
    <3>7. ByteLoop'
      BY <1>2, <1>4, <2>2, <2>5, <3>1, <3>5, <3>6 DEF ByteLoop, ByByte, CopyByByte
    <3>8. QED BY <1>2, <2>5, <3>4, <3>7, KindsNext
  <2>6. CASE prog \in CopyBlocks
    <3>1. CopyLoop BY <2>6, Kinds
    <3>2. QED BY <2>2, <3>1 DEF CopyLoop
  <2>7. CASE prog = "stride_cat"
    <3>1. StrideLoop BY <2>7, Kinds
    <3>2. pc = "stride" BY <2>2, <3>1 DEF StrideLoop
    <3>3. Where = i /\ i \in Nat BY <3>1, <3>2 DEF StrideLoop, Where
    <3>4. count' = count /\ in'.pos = i BY <2>2, <2>4, <3>2, <3>3
    <3>5. Done' = Done BY <1>2, <2>7, <3>4 DEF Done, CopyByByte
    <3>6. Copied' BY <1>1, <1>4, <2>4, <3>3, <3>5, CopiedStays
    <3>7. pc' = IF count < filesize THEN "read" ELSE "close"
      BY <2>2, <2>7, <3>2 DEF Goes, CopyByByte
    <3>8. AtBlock => AtBlock' BY <1>2, <1>4, <3>4 DEF AtBlock, Behind
    <3>9. StrideLoop' BY <1>2, <1>3, <1>4, <3>1, <3>2, <3>4, <3>7, <3>8 DEF StrideLoop
    <3>10. QED BY <1>2, <2>7, <3>6, <3>9, KindsNext
  <2>8. CASE prog = "reverse_block_cat"
    <3>1. ReverseLoop BY <2>8, Kinds
    <3>2. pc = "seek" /\ pc' = "read" BY <2>2, <3>1 DEF ReverseLoop
    <3>3. Where = i /\ i \in Nat BY <3>1, <3>2 DEF ReverseLoop, Where
    <3>4. in'.pos = i BY <2>4, <3>3
    <3>5. Done' = Done BY <1>2, <1>4, <1>5, <2>8 DEF Done, CopyByByte
    <3>6. Copied' BY <1>1, <1>4, <2>4, <3>3, <3>5, CopiedStays
    <3>7. ReverseLoop' BY <1>2, <1>4, <1>5, <3>1, <3>2, <3>4 DEF ReverseLoop
    <3>8. QED BY <1>2, <2>8, <3>6, <3>7, KindsNext
  <2>9. QED BY <2>5, <2>6, <2>7, <2>8, Kinds
<1>9. QED BY <1>6, <1>7, <1>8

\* After the last round the files are closed.
LEMMA CloseStep ==
    ASSUME Given, Good, Loop, Copied, close
    PROVE  /\ Good' => Loop' /\ Copied'
           /\ failed' = {} => status' = 0
           /\ pc' # "open"
<1>1. UNCHANGED args BY StepArgs DEF Run
<1>2. /\ prog' = prog /\ input' = input /\ old' = old /\ arg' = arg /\ stride' = stride
      /\ filesize' = filesize /\ Wanted' = Wanted /\ Given'
  BY <1>1, SameArgs
<1>3. /\ size' = size /\ i' = i /\ count' = count /\ buffer' = buffer /\ status' = status
      /\ pc = "close" /\ pc' = "exit"
  BY DEF close
<1>4. FirstBlock' = FirstBlock BY <1>2, <1>3 DEF FirstBlock
<1>5. ASSUME Good' PROVE Loop' /\ Copied'
  <2>1. in' = in /\ out' = out BY <1>5 DEF close, Fails, Good, Unnoticed
  <2>2. Done' = Done BY <1>2, <1>3, <1>4, <2>1 DEF Done
  <2>3. Copied'
    <3>1. in' = [data |-> in.data, pos |-> in.pos] /\ in.pos \in Nat BY <2>1 DEF Copied
    <3>2. QED BY <1>1, <2>1, <2>2, <3>1, CopiedStays
  <2>4. CASE prog \in ByByte
    <3>1. ByteLoop BY <2>4, Kinds
    <3>2. ByteLoop' BY <1>2, <1>3, <2>1, <3>1 DEF ByteLoop
    <3>3. QED BY <1>2, <2>3, <2>4, <3>2, KindsNext
  <2>5. CASE prog \in CopyBlocks
    <3>1. CopyLoop BY <2>5, Kinds
    <3>2. CopyLoop' BY <1>2, <1>3, <2>1, <3>1 DEF CopyLoop
    <3>3. QED BY <1>2, <2>3, <2>5, <3>2, KindsNext
  <2>6. CASE prog = "stride_cat"
    <3>1. StrideLoop BY <2>6, Kinds
    <3>2. StrideLoop' BY <1>2, <1>3, <2>1, <3>1 DEF StrideLoop
    <3>3. QED BY <1>2, <2>3, <2>6, <3>2, KindsNext
  <2>7. CASE prog = "reverse_block_cat"
    <3>1. ReverseLoop BY <2>7, Kinds
    <3>2. ReverseLoop' BY <1>2, <1>3, <1>4, <2>1, <3>1 DEF ReverseLoop
    <3>3. QED BY <1>2, <2>3, <2>7, <3>2, KindsNext
  <2>8. QED BY <2>4, <2>5, <2>6, <2>7, Kinds
<1>6. QED BY <1>3, <1>5 DEF Good

\* Where the program reads.
LEMMA ReadStep ==
    ASSUME Given, Good, Loop, Copied, read
    PROVE  /\ Good' => Loop' /\ Copied'
           /\ failed' = {} => status' = 0
           /\ pc' # "open"
<1>1. UNCHANGED args BY StepArgs DEF Run
<1>2. /\ prog' = prog /\ input' = input /\ old' = old /\ arg' = arg /\ stride' = stride
      /\ filesize' = filesize /\ Wanted' = Wanted /\ Given'
  BY <1>1, SameArgs
<1>3. filesize \in Nat /\ input \in Seq(Byte) /\ filesize = Len(input) /\ arg \in Nat /\ arg > 0
  BY DEF Given, filesize, Good
<1>4. out' = out /\ size' = size /\ i' = i /\ count' = count /\ pc = "read" BY DEF read
<1>5. FirstBlock' = FirstBlock BY <1>2, <1>4 DEF FirstBlock
<1>6. pc' # "open"
  <2>1. pc' \in {"close", "exit", AfterRead} BY DEF read, Closes, Exits
  <2>2. QED BY <2>1 DEF AfterRead
<1>7. Done' = Done BY <1>2, <1>4, <1>5 DEF Done
<1>8. in \in [data : Seq(Byte), pos : Nat] BY DEF Copied
<1>9. ASSUME ~ Good' /\ failed' # {} PROVE (Good' => Loop' /\ Copied') /\ (failed' = {} => status' = 0)
  BY <1>9
<1>10. CASE Good' \/ failed' = {}
  <2>1. PICK n \in Asked, k \in Nat :
          /\ n \in Nat /\ k <= Available(in, n)
          /\ k = Available(in, n) \/ (k > 0 /\ prog \in ByByte \cup CopyBlocks)
          /\ IF prog \in ByByte /\ io300_read(in, k) = <<>> THEN Closes(1)
             ELSE IF prog \in ByBlock /\ EndOfInput(Len(io300_read(in, k))) THEN Closes(status)
             ELSE pc' = AfterRead /\ UNCHANGED status
          /\ in' = Advanced(in, k) /\ buffer' = io300_read(in, k)
    <3>1. ASSUME Fails("read"), Closes(IF prog \in ByByte THEN 1 ELSE status) PROVE FALSE
      <4>1. failed' # {} /\ "read" \in failed' BY <3>1 DEF Fails
      <4>2. Good' BY <1>10, <4>1
      <4>3. CASE prog \in ByByte BY <3>1, <4>2, <4>3 DEF Closes, Good
      <4>4. CASE prog \notin ByByte BY <1>2, <4>1, <4>2, <4>4 DEF Good, Unnoticed, Given
      <4>5. QED BY <4>3, <4>4
    <3>2. ASSUME NEW n \in Asked PROVE n \in Nat /\ n <= arg
      <4>1. CASE prog = "random_block_cat" BY <1>3, <4>1 DEF Asked, Given
      <4>2. CASE prog # "random_block_cat"
        <5>1. n = size BY <4>2 DEF Asked
        <5>2. prog \in ByByte => size = arg BY Kinds DEF ByteLoop
        <5>3. prog \in CopyBlocks => size = arg BY Kinds DEF CopyLoop
        <5>4. prog = "reverse_block_cat" => size = arg BY Kinds DEF ReverseLoop
        <5>5. ASSUME prog = "stride_cat" PROVE size \in Nat /\ size <= arg
          <6>1. AtBlock BY <1>4, <5>5, Kinds DEF StrideLoop
          <6>2. stride \in Nat /\ stride > 0 /\ i \in Int BY <1>3, <6>1 DEF Given, AtBlock
          <6>3. i % stride \in 0 .. stride - 1 BY <6>2, ModShift
          <6>4. QED BY <1>3, <6>1, <6>2, <6>3 DEF AtBlock, Least
        <5>6. QED BY <1>3, <5>1, <5>2, <5>3, <5>4, <5>5, Kinds
      <4>3. QED BY <4>1, <4>2
    <3>3. ASSUME NEW n \in Asked PROVE ~ TooLong(n) /\ ~ Overruns(n) /\ Available(in, n) \in Nat
      <4>1. n \in Nat /\ n <= arg BY <3>2
      <4>2. WORD \in Nat /\ 4 * arg < WORD BY DEF Given
      <4>3. ~ Huge(n) BY <1>3, <4>1, <4>2 DEF Huge
      <4>4. Available(in, n) \in Nat /\ Available(in, n) <= n BY <1>8, <4>1 DEF Available
      <4>5. QED BY <1>3, <4>1, <4>3, <4>4 DEF TooLong, Overruns
    <3>4. ASSUME NEW m, NEW k, Transfers(k, m, "short read")
          PROVE  k = m \/ (k \in 1 .. m - 1 /\ prog \in ByByte \cup CopyBlocks)
      <4>1. SUFFICES ASSUME Fails("short read"), prog \notin ByByte \cup CopyBlocks PROVE FALSE
        BY <3>4 DEF Transfers
      <4>2. "short read" \in failed' /\ prog \in ByBlock \ CopyBlocks BY <4>1 DEF Fails, Given
      <4>3. QED BY <1>2, <1>10, <4>2 DEF Good, Unnoticed
    <3>5. PICK n \in Asked : \E k \in 0 .. Available(in, n) :
            /\ Transfers(k, Available(in, n), "short read")
            /\ IF prog \in ByByte /\ io300_read(in, k) = <<>> THEN Closes(1)
               ELSE IF prog \in ByBlock /\ EndOfInput(Len(io300_read(in, k))) THEN Closes(status)
               ELSE pc' = AfterRead /\ UNCHANGED status
            /\ in' = Advanced(in, k) /\ buffer' = io300_read(in, k)
      BY <3>1, <3>3 DEF read
    <3>6. n \in Nat /\ Available(in, n) \in Nat BY <3>2, <3>3
    <3>7. PICK k \in 0 .. Available(in, n) :
            /\ Transfers(k, Available(in, n), "short read")
            /\ IF prog \in ByByte /\ io300_read(in, k) = <<>> THEN Closes(1)
               ELSE IF prog \in ByBlock /\ EndOfInput(Len(io300_read(in, k))) THEN Closes(status)
               ELSE pc' = AfterRead /\ UNCHANGED status
            /\ in' = Advanced(in, k) /\ buffer' = io300_read(in, k)
      BY <3>5
    <3>8. k = Available(in, n) \/ (k > 0 /\ prog \in ByByte \cup CopyBlocks)
      <4>1. \/ k = Available(in, n)
            \/ k \in 1 .. Available(in, n) - 1 /\ prog \in ByByte \cup CopyBlocks
        BY <3>4, <3>7, Zenon
      <4>2. QED BY <3>6, <4>1
    <3>9. k \in Nat /\ k <= Available(in, n) BY <3>6
    <3>10. QED BY <3>6, <3>7, <3>8, <3>9
  <2>2. PICK bs : bs = io300_read(in, k) OBVIOUS
  <2>3. PICK m : m = Least(k, Len(in.data) - in.pos) OBVIOUS
  <2>4. ASSUME in.pos <= Len(in.data)
        PROVE  /\ m \in Nat /\ in.pos + m <= Len(in.data)
               /\ bs = SubSeq(in.data, in.pos + 1, in.pos + m)
               /\ bs \in Seq(Byte) /\ Len(bs) = m
               /\ \A x \in 1 .. m : bs[x] = in.data[in.pos + x]
               /\ in' = [data |-> in.data, pos |-> in.pos + m]
    BY <1>8, <2>1, <2>2, <2>3, <2>4, ReadTakes
  <2>5. CASE prog \in ByByte
    <3>1. ByteLoop BY <2>5, Kinds
    <3>2. i \in 0 .. filesize - 1 /\ in.pos = i /\ size = 1 BY <1>4, <2>5, <3>1 DEF ByteLoop, Given
    <3>3. n = 1 BY <2>5, <3>2 DEF Asked, ByByte, CopyByByte
    <3>4. Len(in.data) = filesize /\ in.data[i + 1] = input[i + 1]
      <4>1. CASE prog = "rot13"
        <5>1. Done = i BY <4>1 DEF Done
        <5>2. in.data = Kept(Wanted, input, i) BY <4>1, <5>1 DEF Copied
        <5>3. Wanted \in Seq(Byte) /\ i \in 0 .. Len(Wanted) BY <1>3, <3>2, <4>1, WantedLength
        <5>4. /\ Len(Kept(Wanted, input, i)) = IF i < Len(input) THEN Len(input) ELSE i
              /\ \A x \in 1 .. Len(Kept(Wanted, input, i)) :
                   Kept(Wanted, input, i)[x] = IF x <= i THEN Wanted[x] ELSE input[x]
          BY <1>3, <5>3, KeptIs
        <5>5. Len(in.data) = filesize BY <1>3, <3>2, <5>2, <5>4
        <5>6. i + 1 \in 1 .. Len(in.data) /\ ~ (i + 1 <= i) BY <1>3, <3>2, <5>5
        <5>7. QED BY <5>2, <5>4, <5>5, <5>6
      <4>2. CASE prog # "rot13" BY <1>3, <4>2 DEF Copied
      <4>3. QED BY <4>1, <4>2
    <3>5. in.pos <= Len(in.data) /\ m = 1
      <4>1. Available(in, n) = 1 BY <1>3, <3>2, <3>3, <3>4 DEF Available
      <4>2. k = 1 BY <2>1, <4>1
      <4>3. QED BY <1>3, <2>3, <3>2, <3>4, <4>2 DEF Least
    <3>6. bs \in Seq(Byte) /\ Len(bs) = 1 /\ bs[1] = input[i + 1]
          /\ in' = [data |-> in.data, pos |-> i + 1]
      <4>1. 1 \in 1 .. m /\ in.pos + 1 = i + 1 BY <3>2, <3>5
      <4>2. QED BY <2>4, <3>2, <3>4, <3>5, <4>1
    <3>7. bs = <<input[i + 1]>> /\ bs # <<>>
      <4>1. bs = <<bs[1]>> BY <3>6
      <4>2. Len(<<>>) = 0 OBVIOUS
      <4>3. bs # <<>> BY <3>6, <4>2
      <4>4. bs[1] = input[i + 1] BY <3>6
      <4>5. QED BY <4>1, <4>3, <4>4, Zenon
    <3>8. prog \notin ByBlock BY <2>5 DEF ByByte, ByBlock, CopyByByte, CopyBlocks
    <3>9. pc' = AfterRead /\ status' = status BY <2>1, <2>2, <3>7, <3>8
    <3>10. Copied'
      <4>1. i + 1 \in Nat BY <3>2
      <4>2. QED BY <1>1, <1>4, <1>7, <3>6, <4>1, CopiedStays
    <3>11. buffer' = <<input[i + 1]>> BY <2>1, <2>2, <3>7
    <3>12. in'.pos = i + 1 BY <3>6
    <3>13. ByteLoop'
      BY <1>2, <1>4, <2>5, <3>1, <3>2, <3>9, <3>11, <3>12 DEF ByteLoop, AfterRead, ByByte, CopyByByte
    <3>14. QED BY <1>2, <1>6, <2>5, <3>9, <3>10, <3>13, KindsNext DEF Good
  <2>6. CASE prog # "rot13" /\ prog \in ByBlock
    <3>1. in.data = input /\ status = 0 BY <2>6 DEF Copied, Good
    <3>2. status' = 0 BY <2>1, <2>6, <3>1 DEF Closes, ByByte, ByBlock, CopyByByte, CopyBlocks
    <3>3. prog \notin ByByte BY <2>6 DEF ByByte, ByBlock, CopyByByte, CopyBlocks
    <3>4. pc' = IF EndOfInput(Len(bs)) THEN "close" ELSE "write"
      BY <2>1, <2>2, <2>6, <3>3 DEF Closes, AfterRead, ByBlock, CopyBlocks
    <3>5. ASSUME in.pos + m \in Nat, in' = [data |-> in.data, pos |-> in.pos + m] PROVE Copied'
      BY <1>1, <1>4, <1>7, <3>5, CopiedStays
    <3>6. CASE prog \in CopyBlocks
      <4>1. CopyLoop BY <3>6, Kinds
      <4>2. n > 0
        <5>1. prog = "random_block_cat" => n \in 1 .. MAX_BLOCK_SIZE BY DEF Asked
        <5>2. prog # "random_block_cat" => n = arg BY <4>1 DEF Asked, CopyLoop
        <5>3. QED BY <1>3, <5>1, <5>2, ProgramsAssumption
      <4>3. in.pos = out.pos /\ in.pos \in 0 .. filesize BY <1>4, <4>1 DEF CopyLoop
      <4>4. in.pos <= Len(in.data) BY <1>3, <3>1, <4>3
      <4>5. /\ m \in Nat /\ in.pos + m <= filesize /\ Len(bs) = m
            /\ bs = SubSeq(input, in.pos + 1, in.pos + m)
            /\ in' = [data |-> in.data, pos |-> in.pos + m]
        BY <1>3, <2>4, <3>1, <4>4
      <4>6. m = 0 => in.pos = filesize
        <5>1. k = 0 => in.pos = filesize BY <1>3, <2>1, <3>1, <4>2, <4>3 DEF Available
        <5>2. QED BY <1>3, <2>1, <2>3, <3>1, <4>3, <5>1 DEF Least
      <4>7. EndOfInput(m) <=> m = 0 BY <3>6, <4>5 DEF EndOfInput, CopyBlocks
      <4>8. in'.pos = in.pos + m /\ in'.pos \in 0 .. filesize BY <1>3, <4>3, <4>5
      <4>9. buffer' = SubSeq(input, out.pos + 1, in'.pos) BY <2>1, <2>2, <4>3, <4>5, <4>8
      <4>10. pc' = IF m = 0 THEN "close" ELSE "write" BY <3>4, <4>5, <4>7
      <4>11. out'.pos = in.pos /\ out'.pos \in 0 .. filesize /\ out'.pos <= in'.pos
        BY <1>3, <1>4, <4>3, <4>5, <4>8
      <4>12. buffer' = SubSeq(input', out'.pos + 1, in'.pos) BY <1>2, <1>4, <4>9
      <4>13. m = 0 => out'.pos = filesize' BY <1>2, <4>6, <4>11
      <4>14. size' = arg' BY <1>2, <1>4, <4>1 DEF CopyLoop
      <4>15. CopyLoop' BY <1>2, <4>8, <4>10, <4>11, <4>12, <4>13, <4>14 DEF CopyLoop
      <4>16. in.pos + m \in Nat BY <4>3, <4>5
      <4>17. QED BY <1>2, <1>6, <3>2, <3>5, <3>6, <4>5, <4>15, <4>16, KindsNext
    <3>7. ASSUME prog \in {"stride_cat", "reverse_block_cat"}, i \in Nat, i <= filesize, size \in Nat,
                 in.pos = i
          PROVE  /\ m = Least(size, filesize - i) /\ m \in Nat /\ Len(bs) = m /\ buffer' = HereBlock'
                 /\ Copied'
      <4>1. n = size BY <3>7 DEF Asked
      <4>2. in.pos <= Len(in.data) BY <1>3, <3>1, <3>7
      <4>3. m = Least(size, filesize - i)
        <5>1. k = Available(in, size)
          BY <2>1, <3>7, <4>1 DEF ByByte, CopyByByte, CopyBlocks
        <5>2. QED BY <1>3, <2>3, <3>1, <3>7, <5>1 DEF Least, Available
      <4>4. /\ m \in Nat /\ Len(bs) = m /\ bs = SubSeq(input, i + 1, i + m)
            /\ in' = [data |-> in.data, pos |-> in.pos + m]
        BY <2>4, <3>1, <3>7, <4>2
      <4>5. HereBlock' = SubSeq(input, i + 1, i + m) BY <1>2, <1>4, <4>3 DEF HereBlock, Least
      <4>6. in.pos + m \in Nat BY <3>7, <4>4
      <4>7. QED BY <2>1, <2>2, <3>5, <4>3, <4>4, <4>5, <4>6
    <3>8. CASE prog = "stride_cat"
      <4>1. StrideLoop BY <3>8, Kinds
      <4>2. AtBlock /\ in.pos = i BY <1>4, <4>1 DEF StrideLoop
      <4>3. i \in Nat /\ i < filesize /\ size \in Nat /\ size > 0
        <5>1. stride \in Nat /\ stride > 0 /\ i \in Int BY <4>2 DEF Given, AtBlock
        <5>2. i % stride \in 0 .. stride - 1 BY <5>1, ModShift
        <5>3. QED BY <1>3, <4>2, <5>1, <5>2 DEF AtBlock, Least
      <4>4. m = Least(size, filesize - i) /\ Len(bs) = m /\ buffer' = HereBlock' /\ Copied'
        BY <1>3, <3>7, <3>8, <4>2, <4>3
      <4>5. m > 0 BY <1>3, <4>3, <4>4 DEF Least
      <4>6. pc' = "write" BY <1>3, <3>4, <4>3, <4>4, <4>5 DEF EndOfInput, Least
      <4>7. AtBlock' BY <1>2, <1>4, <4>2 DEF AtBlock, Behind
      <4>8. StrideLoop' BY <1>2, <1>4, <4>1, <4>4, <4>6, <4>7 DEF StrideLoop
      <4>9. QED BY <1>2, <1>6, <3>2, <3>8, <4>4, <4>8, KindsNext
    <3>9. CASE prog = "reverse_block_cat"
      <4>1. ReverseLoop BY <3>9, Kinds
      <4>2. i \in Nat /\ in.pos = i /\ size = arg /\ i <= FirstBlock BY <1>4, <4>1 DEF ReverseLoop
      <4>3. i <= filesize
        <5>1. filesize % size \in 0 .. size - 1 BY <1>3, <4>2, ModShift
        <5>2. QED BY <1>3, <4>2, <5>1 DEF FirstBlock
      <4>4. Len(bs) = m /\ m \in Nat /\ buffer' = HereBlock' /\ Copied' BY <1>3, <3>7, <3>9, <4>2, <4>3
      <4>5. pc' = "write" BY <3>4, <3>9, <4>4 DEF EndOfInput
      <4>6. ReverseLoop' BY <1>2, <1>4, <1>5, <4>1, <4>4, <4>5 DEF ReverseLoop
      <4>7. QED BY <1>2, <1>6, <3>2, <3>9, <4>4, <4>6, KindsNext
    <3>10. QED BY <2>6, <3>6, <3>8, <3>9 DEF ByBlock
  <2>7. QED BY <2>5, <2>6 DEF Given, ByByte, ByBlock, CopyBlocks
<1>11. QED BY <1>6, <1>9, <1>10

\* Where the program writes.
LEMMA WriteStep ==
    ASSUME Given, Good, Loop, Copied, write
    PROVE  /\ Good' => Loop' /\ Copied'
           /\ failed' = {} => status' = 0
           /\ pc' # "open"
<1>1. UNCHANGED args BY StepArgs DEF Run
<1>2. /\ prog' = prog /\ input' = input /\ old' = old /\ arg' = arg /\ stride' = stride
      /\ filesize' = filesize /\ Wanted' = Wanted /\ Given'
  BY <1>1, SameArgs
<1>3. /\ filesize \in Nat /\ input \in Seq(Byte) /\ filesize = Len(input) /\ arg \in Nat /\ arg > 0
      /\ status = 0 /\ pc = "write" /\ buffer' = buffer
  <2>1. pc = "write" /\ buffer' = buffer BY DEF write
  <2>2. QED BY <2>1 DEF Given, filesize, Good
<1>4. pc' # "open"
  <2>1. NextRound => pc' # "open"
    BY DEF NextRound, Round, Begins, Given, ByByte, ByBlock, CopyByByte, CopyBlocks
  <2>2. QED BY <2>1 DEF write, Closes
<1>5. CASE ~ Good' /\ failed' # {} BY <1>4, <1>5
<1>6. CASE Good' \/ failed' = {}
  <2>1. Writes(SubSeq(Written, 1, Len(Written))) /\ NextRound /\ status' = status
    <3>1. ASSUME Fails("write"), Closes(1) PROVE FALSE BY <1>6, <3>1 DEF Fails, Closes, Good
    <3>2. ASSUME Fails("write"), prog \in CopyBlocks \cup {"stride_cat"},
                 status' = IF prog \in CopyBlocks THEN 1 ELSE status
          PROVE  FALSE
      <4>1. failed' # {} /\ "write" \in failed' BY <3>2 DEF Fails
      <4>2. Good' BY <1>6, <4>1
      <4>3. CASE prog \in CopyBlocks BY <3>2, <4>2, <4>3 DEF Good
      <4>4. CASE prog = "stride_cat" BY <1>2, <4>1, <4>2, <4>4 DEF Good, Unnoticed
      <4>5. QED BY <3>2, <4>3, <4>4
    <3>3. ASSUME NEW k, Transfers(k, Len(Written), "short write") PROVE k = Len(Written)
      <4>1. SUFFICES ASSUME Fails("short write") PROVE FALSE BY <3>3 DEF Transfers
      <4>2. "short write" \in failed' BY <4>1 DEF Fails
      <4>3. QED BY <1>6, <4>2 DEF Good, Unnoticed
    <3>4. PICK k \in 0 .. Len(Written) :
            /\ Transfers(k, Len(Written), "short write") /\ Writes(SubSeq(Written, 1, k))
            /\ NextRound /\ status' = status
      BY <3>1, <3>2 DEF write
    <3>5. QED BY <3>3, <3>4
  <2>2. status' = 0 BY <1>3, <2>1
  <2>3. Done \in 0 .. filesize BY DEF Copied
  <2>4. PICK S : Wanted \in Seq(S) BY WantedLength
  <2>5. Len(Wanted) = filesize BY WantedLength
  <2>6. CASE prog \in ByByte
    <3>1. ByteLoop BY <2>6, Kinds
    <3>2. i \in 0 .. filesize - 1 /\ buffer = <<input[i + 1]>> /\ size = arg
          /\ (prog \in CopyByByte => in.pos = i + 1) /\ (prog = "rot13" => in.pos = i)
      BY <1>3, <3>1 DEF ByteLoop
    <3>3. PICK d : d = Done OBVIOUS
    <3>4. d = IF prog = "reverse_byte_cat" THEN filesize - 1 - i ELSE i
      BY <2>6, <3>3 DEF Done, ByByte, CopyByByte
    <3>5. d \in Nat /\ d < filesize /\ d + 1 \in Nat /\ d + 1 <= filesize BY <1>3, <3>2, <3>4
    <3>6. Written = <<Wanted[d + 1]>>
      <4>1. CASE prog = "rot13"
        <5>1. Wanted[i + 1] = rot13(input[i + 1])
          <6>1. i + 1 \in 1 .. filesize BY <1>3, <3>2
          <6>2. QED BY <4>1, <6>1 DEF Wanted, CopyByByte, CopyBlocks
        <5>2. buffer[1] = input[i + 1] BY <3>2
        <5>3. QED BY <3>4, <4>1, <5>1, <5>2 DEF Written
      <4>2. CASE prog \in CopyByByte
        <5>1. Wanted = input /\ Written = buffer /\ d = i
          BY <3>4, <4>2 DEF Wanted, Written, CopyByByte, CopyBlocks
        <5>2. QED BY <3>2, <5>1
      <4>3. CASE prog = "reverse_byte_cat"
        <5>1. Wanted = Reverse(input) /\ Written = buffer
          BY <4>3 DEF Wanted, Written, CopyByByte, CopyBlocks
        <5>2. d + 1 \in 1 .. Len(input) BY <1>3, <3>5
        <5>3. Wanted[d + 1] = input[(Len(input) - (d + 1)) + 1] BY <5>1, <5>2 DEF Reverse
        <5>4. (Len(input) - (d + 1)) + 1 = i + 1 BY <1>3, <3>2, <3>4, <4>3
        <5>5. QED BY <3>2, <5>1, <5>3, <5>4
      <4>4. QED BY <2>6, <4>1, <4>2, <4>3 DEF ByByte
    <3>7. SubSeq(Wanted, d + 1, d + 1) = <<Wanted[d + 1]>> BY <2>4, <2>5, <3>5, OneByte
    <3>8. prog = "rot13" => in.pos = d BY <3>2, <3>4
    <3>9. PICK e \in Nat : e = d + 1 BY <3>5
    <3>10. Done <= e /\ e <= filesize /\ Written = SubSeq(Wanted, Done + 1, e)
           /\ (prog = "rot13" => in.pos = Done)
      BY <3>3, <3>5, <3>6, <3>7, <3>8, <3>9
    <3>11. IF prog = "rot13" THEN in' = [data |-> Kept(Wanted, input, e), pos |-> e] /\ out' = out
           ELSE out' = [data |-> Kept(Wanted, old, e), pos |-> e] /\ in' = in
      BY <2>1, <3>10, WritesNext
    <3>12. PICK j : j = IF prog = "reverse_byte_cat" THEN i - 1 ELSE i + 1 OBVIOUS
    <3>13. Round(j, 0) /\ size' = size
      BY <2>1, <2>6, <3>12 DEF NextRound, ByByte, CopyByByte, CopyBlocks
    <3>14. i' = j /\ pc' = IF Goes(j, 0) THEN Begins ELSE "close" BY <3>13 DEF Round
    <3>15. j \in Int BY <3>2, <3>12
    <3>16. Done' = e
      BY <1>2, <1>3, <2>6, <3>2, <3>4, <3>9, <3>12, <3>14 DEF Done, ByByte, CopyByByte
    <3>17. Copied' BY <1>1, <3>10, <3>11, <3>16, CopiedNext
    <3>18. CASE prog = "reverse_byte_cat"
      <4>1. pc' = (IF i - 1 >= 0 THEN "seek" ELSE "close") /\ i' = i - 1
        BY <3>12, <3>14, <3>18 DEF Goes, Begins, CopyByByte
      <4>2. ByteLoop' BY <1>2, <1>3, <3>2, <3>13, <3>18, <4>1 DEF ByteLoop, CopyByByte
      <4>3. QED BY <1>2, <1>4, <2>2, <2>6, <3>17, <4>2, KindsNext
    <3>19. CASE prog # "reverse_byte_cat"
      <4>1. pc' = IF i + 1 < filesize THEN (IF prog = "rot13" THEN "seek" ELSE "read") ELSE "close"
        BY <2>6, <3>12, <3>14, <3>19 DEF Goes, Begins, ByByte, CopyByByte
      <4>2. i' = i + 1 BY <3>12, <3>14, <3>19
      <4>3. prog # "rot13" => in'.pos = i + 1
        BY <2>6, <3>2, <3>11, <3>19 DEF ByByte, CopyByByte
      <4>4. ByteLoop' BY <1>2, <1>3, <3>2, <3>13, <4>1, <4>2, <4>3, <3>19 DEF ByteLoop, CopyByByte
      <4>5. QED BY <1>2, <1>4, <2>2, <2>6, <3>17, <4>4, KindsNext
    <3>20. QED BY <3>18, <3>19
  <2>7. CASE prog \in CopyBlocks
    <3>1. CopyLoop BY <2>7, Kinds
    <3>2. /\ in.pos \in 0 .. filesize /\ out.pos \in 0 .. filesize /\ out.pos <= in.pos
          /\ size = arg /\ buffer = SubSeq(input, out.pos + 1, in.pos)
      BY <1>3, <3>1 DEF CopyLoop
    <3>3. Done = out.pos /\ Done' = out'.pos BY <1>2, <2>7 DEF Done, CopyBlocks, CopyByByte
    <3>4. Wanted = input /\ Written = buffer BY <2>7 DEF Wanted, Written, CopyBlocks, CopyByByte
    <3>5. PICK e \in Nat : e = in.pos BY <3>2
    <3>6. Done <= e /\ e <= filesize /\ Written = SubSeq(Wanted, Done + 1, e) /\ prog # "rot13"
      BY <1>3, <2>7, <3>2, <3>3, <3>4, <3>5 DEF CopyBlocks
    <3>7. out' = [data |-> Kept(Wanted, old, e), pos |-> e] /\ in' = in
      BY <2>1, <3>6, WritesNext
    <3>8. Done' = e BY <3>3, <3>7
    <3>9. Copied' BY <1>1, <3>6, <3>7, <3>8, CopiedNext
    <3>10. pc' = "read" /\ size' = size
      BY <2>1, <2>7 DEF NextRound, Round, Goes, Begins, CopyBlocks, CopyByByte
    <3>11. CopyLoop' BY <1>2, <3>2, <3>5, <3>6, <3>7, <3>10 DEF CopyLoop
    <3>12. QED BY <1>2, <1>4, <2>2, <2>7, <3>9, <3>11, KindsNext
  <2>8. CASE prog = "stride_cat"
    <3>1. StrideLoop BY <2>8, Kinds
    <3>2. AtBlock /\ buffer = HereBlock /\ i \in Nat /\ count \in 0 .. filesize
      BY <1>3, <3>1 DEF StrideLoop
    <3>3. /\ i' = NextPos /\ count' = count + Len(buffer) /\ size' = NextBlock(NextPos)
          /\ pc' = "stride"
      BY <2>1, <2>8 DEF NextRound, CopyByByte, CopyBlocks
    <3>4. PICK l : l = Least(size, filesize - i) OBVIOUS
    <3>5. /\ stride \in Nat /\ stride > 0 /\ i < filesize /\ size \in Nat /\ size > 0
          /\ i % stride \in 0 .. stride - 1
      <4>1. stride \in Nat /\ stride > 0 /\ i \in Int /\ i < filesize
        BY <1>3, <3>2 DEF Given, AtBlock
      <4>2. i % stride \in 0 .. stride - 1 BY <4>1, ModShift
      <4>3. QED BY <1>3, <3>2, <4>1, <4>2 DEF AtBlock, Least
    <3>6. l \in Nat /\ i + l \in Nat /\ i + l <= Len(input) BY <1>3, <3>2, <3>4, <3>5 DEF Least
    <3>7. /\ buffer = SubSeq(input, i + 1, i + l) /\ buffer \in Seq(Byte) /\ Len(buffer) = l
          /\ \A k \in 1 .. l : buffer[k] = input[i + k]
      <4>1. buffer = SubSeq(input, i + 1, i + l) BY <3>2, <3>4 DEF HereBlock
      <4>2. i \in Nat /\ i + l <= Len(input) BY <3>2, <3>6
      <4>3. /\ SubSeq(input, i + 1, i + l) \in Seq(Byte) /\ Len(SubSeq(input, i + 1, i + l)) = l
            /\ \A k \in 1 .. l : SubSeq(input, i + 1, i + l)[k] = input[i + k]
        <5>1. PICK q \in Nat : q = i BY <4>2
        <5>2. q + l <= Len(input) BY <4>2, <5>1
        <5>3. LET t == SubSeq(input, q + 1, q + l)
              IN  t \in Seq(Byte) /\ Len(t) = l /\ \A k \in 1 .. l : t[k] = input[q + k]
          BY <1>3, <3>6, <5>2, PartFrom
        <5>4. QED BY <5>1, <5>3
      <4>4. QED BY <4>1, <4>3
    <3>8. PICK e : e = count + l OBVIOUS
    <3>9. PICK p : p = NextPos OBVIOUS
    <3>10. PICK n : n = NextBlock(p) OBVIOUS
    <3>11. /\ e \in 0 .. filesize
           /\ p \in Nat /\ 2 * p < WORD
           /\ \/ e = filesize
              \/ /\ p \in 0 .. filesize - 1
                 /\ (p % stride) % arg = 0
                 /\ n = Least(arg, stride - (p % stride))
                 /\ e = Cardinality(Behind(p % stride, n, p))
      BY <2>8, <3>2, <3>4, <3>8, <3>9, <3>10, BlockDone
    <3>12. count' = e /\ i' = p /\ size' = n BY <3>3, <3>7, <3>8, <3>9, <3>10
    <3>13. Done = count /\ Done' = count' BY <1>2, <2>8 DEF Done, CopyByByte
    <3>14. Wanted = Strided /\ Written = buffer BY <2>8 DEF Wanted, Written, CopyByByte, CopyBlocks
    <3>15. buffer = SubSeq(Wanted, count + 1, e)
      <4>1. PICK c \in Nat : c = count BY <3>2
      <4>2. PICK t : t = SubSeq(Wanted, c + 1, e) OBVIOUS
      <4>3. e \in Nat /\ e <= Len(Wanted) /\ c <= e BY <1>3, <2>5, <3>6, <3>8, <3>11, <4>1
      <4>4. /\ t \in Seq(S) /\ Len(t) = IF c <= e THEN e - c ELSE 0
            /\ \A k \in 1 .. Len(t) : t[k] = Wanted[c + k]
        BY <2>4, <4>2, <4>3, PartOf
      <4>5. Len(t) = l BY <3>6, <3>8, <4>1, <4>3, <4>4
      <4>6. ASSUME NEW k \in 1 .. l PROVE t[k] = buffer[k]
        <5>1. PICK j \in Nat : k = j + 1 /\ j < l
          <6>1. k - 1 \in Nat /\ k = (k - 1) + 1 /\ k - 1 < l BY <3>6
          <6>2. QED BY <6>1
        <5>2. count + j + 1 <= filesize BY <1>3, <3>6, <3>8, <3>11, <4>1, <5>1
        <5>3. Strided[count + j + 1] = input[i + j + 1]
          BY <2>8, <3>2, <3>4, <4>1, <5>1, <5>2, StridedBlock
        <5>4. count + j + 1 = c + k /\ i + j + 1 = i + k BY <3>2, <4>1, <5>1
        <5>5. QED BY <3>7, <3>14, <4>4, <4>5, <5>3, <5>4
      <4>7. t \in [1 .. l -> S] /\ DOMAIN t = 1 .. l BY <4>4, <4>5
      <4>8. DOMAIN buffer = 1 .. l /\ buffer = [k \in 1 .. l |-> buffer[k]] BY <3>7
      <4>9. t = [k \in 1 .. l |-> t[k]] BY <4>7
      <4>10. t = buffer BY <4>6, <4>8, <4>9
      <4>11. QED BY <4>1, <4>2, <4>10
    <3>16. out' = [data |-> Kept(Wanted, old, e), pos |-> e] /\ in' = in
      <4>1. e \in Nat /\ Done <= e /\ e <= filesize /\ prog # "rot13"
            /\ Written = SubSeq(Wanted, Done + 1, e)
        BY <1>3, <2>8, <3>2, <3>6, <3>8, <3>11, <3>13, <3>14, <3>15
      <4>2. QED BY <2>1, <4>1, WritesNext
    <3>17. Copied'
      <4>1. e \in Nat /\ e <= filesize /\ Done' = e /\ prog # "rot13" BY <1>3, <2>8, <3>11, <3>12, <3>13
      <4>2. QED BY <1>1, <3>16, <4>1, CopiedNext
    <3>18. e = filesize \/ AtBlock'
      <4>1. Behind(i % stride, size, i)' = Behind(p % stride, n, p) BY <1>2, <3>12 DEF Behind
      <4>2. arg \in 1 .. stride BY <3>2 DEF AtBlock
      <4>3. QED BY <1>2, <3>11, <3>12, <4>1, <4>2 DEF AtBlock
    <3>19. p \in Nat /\ ~ Huge(p)
      <4>1. WORD \in Nat BY DEF Given
      <4>2. QED BY <3>11, <4>1 DEF Huge
    <3>20. StrideLoop' BY <1>2, <3>3, <3>11, <3>12, <3>18, <3>19 DEF StrideLoop, Huge
    <3>21. QED BY <1>2, <1>4, <2>2, <2>8, <3>17, <3>20, KindsNext
  <2>9. CASE prog = "reverse_block_cat"
    <3>1. ReverseLoop BY <2>9, Kinds
    <3>2. i \in Nat /\ size = arg /\ i <= FirstBlock /\ i % size = 0 /\ buffer = HereBlock
      BY <1>3, <3>1 DEF ReverseLoop
    <3>3. PICK b : b = FirstBlock OBVIOUS
    <3>4. b \in Nat /\ b <= filesize /\ filesize - b < arg /\ b % arg = 0 /\ (i < b => i + arg <= b)
          /\ (i >= arg \/ i = 0)
      <4>1. b = filesize - (filesize % arg) BY <3>2, <3>3 DEF FirstBlock
      <4>2. b \in Nat /\ b <= filesize /\ filesize - b < arg /\ b % arg = 0 BY <1>3, <4>1, LastPart
      <4>3. i < b => i + arg <= b
        <5>1. i \in Int /\ b \in Int /\ i % arg = 0 BY <3>2, <4>2
        <5>2. QED BY <1>3, <4>2, <5>1, Apart
      <4>4. i >= arg \/ i = 0
        <5>1. i \in 0 .. arg - 1 => i % arg = i BY <1>3, <3>2, ModShift
        <5>2. QED BY <1>3, <3>2, <5>1
      <4>5. QED BY <4>2, <4>3, <4>4
    <3>5. PICK l : l = Least(size, filesize - i) OBVIOUS
    <3>6. l = IF i = b THEN filesize - i ELSE arg BY <1>3, <3>2, <3>3, <3>4, <3>5 DEF Least
    <3>7. l \in Nat /\ i + l \in Nat /\ i + l <= Len(input) BY <1>3, <3>2, <3>3, <3>4, <3>6
    <3>8. Len(buffer) = l /\ \A k \in 1 .. l : buffer[k] = input[i + k]
      <4>1. buffer = SubSeq(input, i + 1, i + l) BY <3>2, <3>5 DEF HereBlock
      <4>2. QED BY <1>3, <3>2, <3>7, <4>1, PartFrom
    <3>9. PICK d : d = Done OBVIOUS
    <3>10. d = (IF i = b THEN 0 ELSE filesize - (i + arg)) /\ d \in Nat /\ d + l = filesize - i
      <4>1. d = IF i = b THEN 0 ELSE filesize - (i + arg)
        BY <2>9, <3>2, <3>3, <3>9 DEF Done, CopyByByte
      <4>2. QED BY <1>3, <2>3, <3>2, <3>4, <3>6, <3>9, <4>1
    <3>11. PICK e \in Nat : e = d + l BY <3>7, <3>10
    <3>12. e <= filesize /\ e = filesize - i /\ d <= e BY <1>3, <3>2, <3>7, <3>10, <3>11
    <3>13. Written = SubSeq(Wanted, d + 1, e)
      <4>1. Wanted = Reverse(input) /\ Written = Reverse(buffer)
        BY <2>9 DEF Wanted, Written, CopyByByte, CopyBlocks
      <4>2. PICK t : t = SubSeq(Wanted, d + 1, e) OBVIOUS
      <4>3. /\ t \in Seq(S) /\ Len(t) = IF d <= e THEN e - d ELSE 0
            /\ \A k \in 1 .. Len(t) : t[k] = Wanted[d + k]
        <5>1. e <= Len(Wanted) /\ d \in Nat BY <2>5, <3>10, <3>12
        <5>2. QED BY <2>4, <4>2, <5>1, PartOf
      <4>4. Len(t) = l BY <3>7, <3>10, <3>11, <3>12, <4>3
      <4>5. ASSUME NEW k \in 1 .. l PROVE t[k] = buffer[(l - k) + 1]
        <5>1. d + k \in 1 .. Len(input) BY <1>3, <3>7, <3>10, <3>11, <3>12
        <5>2. t[k] = input[(Len(input) - (d + k)) + 1] BY <4>1, <4>3, <4>4, <5>1 DEF Reverse
        <5>3. (l - k) + 1 \in 1 .. l /\ i + ((l - k) + 1) = (Len(input) - (d + k)) + 1
          <6>1. k \in Nat /\ k >= 1 /\ k <= l BY <3>7
          <6>2. d \in Nat /\ d + l = Len(input) - i BY <1>3, <3>10
          <6>3. QED BY <1>3, <3>2, <3>7, <6>1, <6>2
        <5>4. QED BY <3>8, <5>2, <5>3
      <4>6. t = [k \in 1 .. l |-> t[k]] BY <4>3, <4>4
      <4>7. Reverse(buffer) = [k \in 1 .. l |-> buffer[(l - k) + 1]] BY <3>8 DEF Reverse
      <4>8. t = Reverse(buffer) BY <4>5, <4>6, <4>7
      <4>9. QED BY <4>1, <4>2, <4>8
    <3>14. out' = [data |-> Kept(Wanted, old, e), pos |-> e] /\ in' = in
      <4>1. Done <= e /\ prog # "rot13" /\ Written = SubSeq(Wanted, Done + 1, e)
        BY <2>9, <3>9, <3>12, <3>13
      <4>2. QED BY <2>1, <3>12, <4>1, WritesNext
    <3>15. i' = i - size /\ size' = size /\ pc' = IF i - size >= 0 THEN "seek" ELSE "close"
      BY <2>1, <2>9 DEF NextRound, Round, Goes, Begins, CopyByByte, CopyBlocks
    <3>16. FirstBlock' = FirstBlock BY <1>2, <3>15 DEF FirstBlock
    <3>17. Done' = e
      <4>1. i' # b BY <1>3, <3>2, <3>3, <3>4, <3>15
      <4>2. Done' = filesize - (i' + size') BY <1>2, <2>9, <3>3, <3>16, <4>1 DEF Done, CopyByByte
      <4>3. i' + size' = i BY <1>3, <3>2, <3>15
      <4>4. QED BY <3>12, <4>2, <4>3
    <3>18. Copied'
      <4>1. prog # "rot13" BY <2>9
      <4>2. QED BY <1>1, <3>12, <3>14, <3>17, <4>1, CopiedNext
    <3>19. (i - arg) % arg = 0
      <4>1. i \in Int BY <3>2
      <4>2. QED BY <1>3, <3>2, <4>1, ModShift
    <3>20. ReverseLoop'
      <4>1. i' \in Int /\ i' <= FirstBlock' /\ i' % size' = 0 /\ size' = arg'
        BY <1>2, <1>3, <3>2, <3>3, <3>4, <3>15, <3>16, <3>19
      <4>2. pc' = "seek" => i' >= 0 BY <1>3, <3>2, <3>15
      <4>3. pc' = "close" => i' = - size' BY <1>3, <3>2, <3>4, <3>15
      <4>4. QED BY <3>15, <4>1, <4>2, <4>3 DEF ReverseLoop
    <3>21. QED BY <1>2, <1>4, <2>2, <2>9, <3>18, <3>20, KindsNext
  <2>10. QED BY <2>6, <2>7, <2>8, <2>9, Kinds
<1>7. QED BY <1>5, <1>6

\* stride_cat with blocks longer than the stride, as long as nothing fails.
LEMMA LongStep ==
    ASSUME Given, Served, Overlapping, status = 0, LongLoop,
           seek \/ read \/ write \/ close, failed' = {}
    PROVE  LongLoop' /\ status' = 0
<1>1. UNCHANGED args BY StepArgs DEF Run
<1>2. /\ prog' = prog /\ input' = input /\ arg' = arg /\ stride' = stride /\ filesize' = filesize
  BY <1>1, SameArgs
<1>3. /\ filesize \in Nat /\ filesize = Len(input) /\ input \in Seq(Byte)
      /\ arg \in Nat /\ arg > stride /\ stride \in Nat
      /\ WORD \in Nat /\ 4 * filesize < WORD /\ 4 * arg < WORD /\ 4 * stride < WORD
  BY DEF Given, filesize, Overlapping
<1>4. /\ prog = "stride_cat" /\ prog \notin ByByte /\ prog \notin CopyBlocks /\ prog \in ByBlock
      /\ prog \notin CopyByByte /\ prog # "rot13"
  BY DEF Overlapping, ByByte, ByBlock, CopyByByte, CopyBlocks
<1>5. ASSUME NEW call PROVE ~ Fails(call) BY DEF Fails
<1>6. CASE seek
  <2>1. pc = "stride" BY <1>6 DEF seek, LongLoop
  <2>2. Where = i /\ i \in Nat /\ ~ Huge(i) BY <2>1 DEF Where, LongLoop
  <2>3. /\ in' = [in EXCEPT !.pos = i] /\ count' = count /\ status' = status
        /\ pc' = (IF Goes(i, count) THEN "read" ELSE "close") /\ size' = size /\ i' = i
    BY <1>5, <1>6, <2>1, <2>2 DEF seek
  <2>4. Goes(i, count) <=> count < filesize BY <1>4 DEF Goes
  <2>5. in' \in [data : {input}, pos : Nat] /\ in'.pos = i BY <2>2, <2>3 DEF LongLoop
  <2>6. count < filesize => AtStart' BY <1>2, <1>3, <2>1, <2>3 DEF LongLoop, AtStart
  <2>7. QED BY <1>2, <2>3, <2>4, <2>5, <2>6 DEF LongLoop
<1>7. CASE read
  <2>1. pc = "read" BY <1>7 DEF read
  <2>2. AtStart /\ in.pos = i /\ in \in [data : {input}, pos : Nat] BY <2>1 DEF LongLoop
  <2>3. i \in Nat /\ i < filesize /\ size = arg BY <1>3, <2>2 DEF AtStart
  <2>4. Asked = {arg} BY <1>4, <2>3 DEF Asked
  <2>5. PICK m : m = Available(in, arg) OBVIOUS
  <2>6. m = Least(arg, filesize - i) /\ m \in Nat /\ m > 0 /\ m <= arg
    BY <1>3, <2>2, <2>3, <2>5 DEF Available, Least
  <2>7. ~ TooLong(arg) /\ ~ Overruns(arg)
    BY <1>3, <2>5, <2>6 DEF TooLong, Overruns, Huge
  <2>8. PICK bs : bs = io300_read(in, m) OBVIOUS
  <2>9. /\ IF EndOfInput(Len(bs)) THEN Closes(status) ELSE pc' = AfterRead /\ UNCHANGED status
        /\ in' = Advanced(in, m) /\ buffer' = bs
    <3>1. \E k \in 0 .. m :
            /\ Transfers(k, m, "short read")
            /\ IF EndOfInput(Len(io300_read(in, k))) THEN Closes(status)
               ELSE pc' = AfterRead /\ UNCHANGED status
            /\ in' = Advanced(in, k) /\ buffer' = io300_read(in, k)
      BY <1>4, <1>5, <1>7, <2>4, <2>5, <2>7 DEF read
    <3>2. \A k : Transfers(k, m, "short read") => k = m BY <1>5 DEF Transfers
    <3>3. QED BY <2>8, <3>1, <3>2
  <2>10. Len(bs) = m /\ in' = [data |-> in.data, pos |-> in.pos + m]
    <3>1. in \in [data : Seq(Byte), pos : Nat] /\ in.pos <= Len(in.data) BY <1>3, <2>2, <2>3
    <3>2. Least(m, Len(in.data) - in.pos) = m BY <1>3, <2>2, <2>3, <2>6 DEF Least
    <3>3. QED BY <2>6, <2>8, <2>9, <3>1, <3>2, ReadTakes
  <2>11. ~ EndOfInput(Len(bs)) BY <2>6, <2>10 DEF EndOfInput
  <2>12. pc' = "write" /\ status' = status BY <1>4, <2>9, <2>11 DEF AfterRead
  <2>13. size' = size /\ i' = i /\ count' = count BY <1>7 DEF read
  <2>14. AtStart' BY <1>2, <2>2, <2>13 DEF AtStart
  <2>15. Len(buffer') = Least(size', filesize' - i') BY <1>2, <2>3, <2>6, <2>9, <2>10, <2>13 DEF Least
  <2>16. in' \in [data : {input}, pos : Nat] BY <2>2, <2>6, <2>10
  <2>17. QED BY <1>2, <2>12, <2>14, <2>15, <2>16 DEF LongLoop
<1>8. CASE write
  <2>1. pc = "write" BY <1>8 DEF write
  <2>2. /\ AtStart /\ in \in [data : {input}, pos : Nat]
        /\ Len(buffer) = Least(arg, filesize - i)
    BY <2>1 DEF LongLoop, AtStart
  <2>3. i \in Nat /\ i < filesize /\ size = arg /\ count \in Nat /\ count >= i
    BY <1>3, <2>2 DEF AtStart
  <2>4. NextRound /\ status' = status /\ in' = in
    BY <1>4, <1>5, <1>8 DEF write, Writes
  <2>5. i' = NextPos /\ count' = count + Len(buffer) /\ size' = NextBlock(NextPos) /\ pc' = "stride"
    BY <1>4, <2>4 DEF NextRound
  <2>6. CASE i + stride < filesize
    <3>1. i' = i + stride /\ size' = arg BY <1>3, <2>3, <2>5, <2>6 DEF NextPos, NextBlock
    <3>2. count' \in Nat /\ (count' >= filesize \/ count' >= i + stride)
      BY <1>3, <2>2, <2>3, <2>5 DEF Least
    <3>3. i' \in 0 .. filesize - 1 /\ ~ Huge(i') BY <1>3, <2>3, <2>6, <3>1 DEF Huge
    <3>4. count' >= filesize \/ AtStart' BY <1>2, <3>1, <3>2, <3>3 DEF AtStart
    <3>5. QED BY <1>2, <2>2, <2>4, <2>5, <3>2, <3>3, <3>4 DEF LongLoop, Huge
  <2>7. CASE i + stride >= filesize
    <3>1. PICK o : o = (i + stride) % stride OBVIOUS
    <3>2. o \in 0 .. stride - 1
      <4>1. i + stride \in Int BY <1>3, <2>3
      <4>2. stride > 0 BY <1>3, <2>3, <2>7
      <4>3. QED BY <1>3, <3>1, <4>1, <4>2, ModShift
    <3>3. o + arg \in Nat /\ 2 * (o + arg) < WORD BY <1>3, <3>2
    <3>4. SizeT(o + arg) = o + arg
      <4>1. o + arg < WORD BY <1>3, <3>3
      <4>2. QED BY <3>3, <4>1, Fits
    <3>5. i' = o + arg BY <1>3, <2>3, <2>5, <2>7, <3>1, <3>4 DEF NextPos
    <3>6. i' \in Nat /\ ~ Huge(i') BY <1>3, <3>3, <3>5 DEF Huge
    <3>7. count' \in Nat /\ count' >= filesize BY <1>3, <2>2, <2>3, <2>5, <2>7 DEF Least
    <3>8. QED BY <1>2, <2>2, <2>4, <2>5, <3>6, <3>7 DEF LongLoop, Huge
  <2>8. QED BY <1>3, <2>3, <2>6, <2>7
<1>9. CASE close
  <2>1. in' = in /\ pc' = "exit" /\ status' = status BY <1>5, <1>9 DEF close
  <2>2. QED BY <1>2, <2>1 DEF LongLoop
<1>10. QED BY <1>6, <1>7, <1>8, <1>9

-----------------------------------------------------------------------------
(* The invariant, and what it says of a program that has ended. *)

LEMMA InvInit == ProgramsInit => ProgramsInv
<1> SUFFICES ASSUME ProgramsInit PROVE ProgramsInv OBVIOUS
<1>1. Given
  <2>1. prog \in ByByte \cup ByBlock /\ input \in Seq(Byte) /\ old \in Seq(Byte)
    BY ProgramsAssumption DEF ProgramsInit
  <2>2. stride \in Nat /\ 4 * stride < WORD BY ProgramsAssumption DEF ProgramsInit
  <2>3. 4 * filesize < WORD /\ WORD \in Nat BY ProgramsAssumption DEF ProgramsInit, filesize
  <2>4. arg \in Nat /\ 4 * arg < WORD
    <3>1. arg \in Sizes \/ arg = MAX_BLOCK_SIZE \/ arg = 1 BY DEF ProgramsInit
    <3>2. arg \in Sizes => arg \in Nat /\ 4 * arg < WORD BY ProgramsAssumption
    <3>3. arg \in {1, MAX_BLOCK_SIZE} => arg \in Nat /\ 4 * arg < WORD BY ProgramsAssumption
    <3>4. QED BY <3>1, <3>2, <3>3
  <2>5. (prog \in ByByte => arg = 1) /\ (prog = "random_block_cat" => arg = MAX_BLOCK_SIZE)
    BY DEF ProgramsInit, ByByte, CopyByByte
  <2>6. QED BY <2>1, <2>2, <2>3, <2>4, <2>5 DEF Given
<1>2. pc = "open" /\ Fresh BY DEF ProgramsInit, Fresh
<1>3. QED BY <1>1, <1>2 DEF ProgramsInv, Fresh

LEMMA InvNext == ProgramsInv /\ [Run \/ Exited]_pvars => ProgramsInv'
<1> SUFFICES ASSUME ProgramsInv, [Run \/ Exited]_pvars PROVE ProgramsInv' OBVIOUS
<1>1. UNCHANGED args BY StepArgs
<1>2. Given /\ Given' BY <1>1, SameArgs DEF ProgramsInv
<1>3. CASE Exited \/ UNCHANGED pvars
  <2>1. UNCHANGED pvars BY <1>3 DEF Exited
  <2>2. /\ in' = in /\ out' = out /\ pc' = pc /\ size' = size /\ i' = i /\ count' = count
        /\ buffer' = buffer /\ status' = status /\ failed' = failed
    BY <2>1 DEF pvars
  <2>3. /\ prog' = prog /\ input' = input /\ old' = old /\ arg' = arg /\ stride' = stride
        /\ filesize' = filesize /\ Wanted' = Wanted /\ Opens' = Opens
    BY <1>1, SameArgs
  <2>4. (Good' <=> Good) /\ (Served' <=> Served) /\ (Fresh' <=> Fresh)
    BY <2>2, <2>3 DEF Good, Served, Unnoticed, Overlapping, Fresh, Open
  <2>5. Loop' <=> Loop
    <3>1. FirstBlock' = FirstBlock BY <2>2, <2>3 DEF FirstBlock
    <3>2. HereBlock' = HereBlock BY <2>2, <2>3 DEF HereBlock, Least
    <3>3. AtBlock' <=> AtBlock BY <2>2, <2>3 DEF AtBlock, Behind
    <3>4. ByteLoop' <=> ByteLoop BY <2>2, <2>3 DEF ByteLoop
    <3>5. CopyLoop' <=> CopyLoop BY <2>2, <2>3 DEF CopyLoop
    <3>6. StrideLoop' <=> StrideLoop BY <2>2, <2>3, <3>2, <3>3 DEF StrideLoop, Huge
    <3>7. ReverseLoop' <=> ReverseLoop BY <2>2, <2>3, <3>1, <3>2 DEF ReverseLoop
    <3>8. QED BY <1>2, <2>3, <3>4, <3>5, <3>6, <3>7, Kinds, KindsNext
  <2>6. Copied' <=> Copied
    <3>1. Done' = Done BY <2>2, <2>3 DEF Done, FirstBlock
    <3>2. QED BY <2>2, <2>3, <3>1 DEF Copied, Kept
  <2>7. (LongLoop' <=> LongLoop) /\ (Overlapping' <=> Overlapping)
    BY <2>2, <2>3 DEF LongLoop, AtStart, Least, Huge, Overlapping
  <2>8. QED BY <1>2, <2>2, <2>4, <2>5, <2>6, <2>7 DEF ProgramsInv
<1>4. CASE Run
  <2>1. (Good' => Good) /\ (Served' => Served) /\ (Overlapping' <=> Overlapping)
    BY <1>1, <1>4, FailuresStay, SameArgs
  <2>2. Served => status = 0 /\ (Good \/ Overlapping) BY DEF ProgramsInv, Served, Good, Unnoticed
  <2>3. Served' => failed' = {} BY DEF Served
  <2>4. CASE open BY <1>2, <2>4, OpenStep DEF ProgramsInv
  <2>5. CASE ~ open
    <3>1. pc # "open" /\ (seek \/ read \/ write \/ close)
      BY <1>4, <2>5 DEF Run, seek, read, write, close
    <3>2. pc' # "open"
      <4>1. seek => pc' # "open" BY DEF seek, Closes
      <4>2. read => pc' # "open"
        <5>1. read => pc' \in {"close", "exit", AfterRead} BY DEF read, Closes, Exits
        <5>2. QED BY <5>1 DEF AfterRead
      <4>3. NextRound => pc' # "open"
        BY <1>2 DEF NextRound, Round, Begins, Given, ByByte, ByBlock, CopyByByte, CopyBlocks
      <4>4. write => pc' # "open" BY <4>3 DEF write, Closes
      <4>5. close => pc' # "open" BY DEF close
      <4>6. QED BY <3>1, <4>1, <4>2, <4>4, <4>5
    <3>3. ASSUME Good PROVE (Good' => Loop' /\ Copied') /\ (failed' = {} => status' = 0)
      <4>1. Loop /\ Copied BY <3>1, <3>3 DEF ProgramsInv
      <4>2. QED BY <1>2, <3>1, <3>3, <4>1, SeekStep, ReadStep, WriteStep, CloseStep
    <3>4. ASSUME Served', Overlapping PROVE LongLoop' /\ status' = 0
      <4>1. Served /\ status = 0 /\ LongLoop BY <2>1, <2>2, <3>1, <3>4 DEF ProgramsInv
      <4>2. QED BY <1>2, <2>3, <3>1, <3>4, <4>1, LongStep
    <3>5. QED BY <1>2, <2>1, <2>2, <2>3, <3>2, <3>3, <3>4 DEF ProgramsInv
  <2>6. QED BY <2>4, <2>5
<1>5. QED BY <1>3, <1>4

\* A program that has written all that is wanted has done what it is for.
LEMMA AllWritten ==
    ASSUME Given, Loop, Copied, arg > 0, pc = "exit"
    PROVE  Right
<1>1. filesize \in Nat /\ input \in Seq(Byte) /\ old \in Seq(Byte) /\ filesize = Len(input)
  BY DEF Given, filesize
<1>2. Done = filesize
  <2>1. CASE prog \in ByByte
    <3>1. i = IF prog = "reverse_byte_cat" THEN -1 ELSE filesize BY <2>1, Kinds DEF ByteLoop
    <3>2. QED BY <1>1, <2>1, <3>1 DEF Done, ByByte, CopyByByte
  <2>2. CASE prog \in CopyBlocks
    <3>1. out.pos = filesize BY <2>2, Kinds DEF CopyLoop
    <3>2. QED BY <2>2, <3>1 DEF Done, CopyByByte, CopyBlocks
  <2>3. CASE prog = "stride_cat"
    <3>1. count = filesize BY <2>3, Kinds DEF StrideLoop
    <3>2. QED BY <2>3, <3>1 DEF Done, CopyByByte
  <2>4. CASE prog = "reverse_block_cat"
    <3>1. ReverseLoop BY <2>4, Kinds
    <3>2. i = -size /\ size = arg /\ arg \in Nat /\ i <= FirstBlock BY <3>1 DEF ReverseLoop, Given
    <3>3. Done = IF i = FirstBlock THEN 0 ELSE filesize - (i + size) BY <2>4 DEF Done, CopyByByte
    <3>4. FirstBlock = filesize - (filesize % arg) BY <3>2 DEF FirstBlock
    <3>5. FirstBlock \in Nat BY <1>1, <3>2, <3>4, LastPart
    <3>6. i < 0 /\ i + size = 0 BY <3>2
    <3>7. i # FirstBlock BY <3>2, <3>5, <3>6
    <3>8. QED BY <1>1, <3>3, <3>6, <3>7
  <2>5. QED BY <2>1, <2>2, <2>3, <2>4, Kinds
<1>3. CASE prog = "rot13"
  <2>1. in.data = Kept(Wanted, input, filesize) BY <1>2, <1>3 DEF Copied
  <2>2. Wanted \in Seq(Byte) /\ filesize \in 0 .. Len(Wanted) BY <1>1, <1>3, WantedLength
  <2>3. /\ Len(Kept(Wanted, input, filesize)) = IF filesize < Len(input) THEN Len(input) ELSE filesize
        /\ \A x \in 1 .. Len(Kept(Wanted, input, filesize)) :
             Kept(Wanted, input, filesize)[x] = IF x <= filesize THEN Wanted[x] ELSE input[x]
    BY <1>1, <2>2, KeptIs
  <2>4. Len(in.data) = filesize BY <1>1, <2>1, <2>3
  <2>5. ASSUME NEW k \in 1 .. filesize
        PROVE  LET a == input[k] IN LET b == in.data[k] IN
               /\ rot13(b) = a /\ IsUpper(b) = IsUpper(a) /\ IsLower(b) = IsLower(a)
               /\ IsUpper(a) \/ IsLower(a) <=> a # b
    <3>1. k <= filesize BY <1>1
    <3>2. in.data[k] = Wanted[k] BY <2>1, <2>3, <2>4, <3>1
    <3>3. Wanted[k] = rot13(input[k]) BY <1>3 DEF Wanted, CopyByByte, CopyBlocks
    <3>4. input[k] \in Byte BY <1>1
    <3>5. QED BY <3>2, <3>3, <3>4, Rotates
  <2>6. QED BY <1>3, <2>4, <2>5 DEF Right, CopyByByte, CopyBlocks
<1>4. CASE prog # "rot13"
  <2>1. out.data = Kept(Wanted, old, filesize) BY <1>2, <1>4 DEF Copied
  <2>2. QED BY <1>4, <2>1 DEF Right, Wanted, CopyByByte, CopyBlocks
<1>5. QED BY <1>3, <1>4

\* A program that exits with 0 has written what it is for, whatever the input, the
\* old output, the sizes of blocks and strides, and the calls that may fail or fall
\* short, with two exceptions: a call failed or fell short that it does not test, or
\* it is stride_cat and the blocks are longer than the stride.  A program that met
\* no failure exits with 0, without exceptions (reverse_block_cat.c:59,
\* stride_cat.c:56).
THEOREM ExitIsTrue == ProgramsSpec => []ExitTellsTruth
<1>1. ProgramsInv => ExitTellsTruth
  <2> SUFFICES ASSUME ProgramsInv, pc = "exit"
               PROVE  /\ status = 0 /\ arg > 0 => Unnoticed \/ Overlapping \/ Right
                      /\ Served => status = 0
    BY DEF ExitTellsTruth, Served
  <2>1. Served => status = 0 BY DEF ProgramsInv
  <2>2. ASSUME status = 0, arg > 0, ~ Unnoticed, ~ Overlapping PROVE Right
    <3>1. Good BY <2>2 DEF Good
    <3>2. Given /\ Loop /\ Copied BY <3>1 DEF ProgramsInv
    <3>3. QED BY <2>2, <3>2, AllWritten
  <2>3. QED BY <2>1, <2>2
<1>2. QED BY <1>1, InvInit, InvNext, PTL DEF ProgramsSpec
=============================================================================
