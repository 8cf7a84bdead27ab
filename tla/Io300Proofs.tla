---------------------------- MODULE Io300Proofs ----------------------------
(***************************************************************************)
(* Proofs about Io300: the caching implementation never stores outside of  *)
(* its cache, the programs that use it as the repository's do cannot tell  *)
(* it from a plain file, and failing writes lose nothing that was appended *)
(* to a new file.                                                          *)
(***************************************************************************)
EXTENDS Io300, SequenceTheorems, TLAPS

Octet == 0 .. 255
Caches == [Index -> Octet]

FileRecords == [dirty : BOOLEAN, head : Nat, cache_start : Nat, cache_end : Nat,
                file_size : Nat, cache : Caches]

\* A disk and a file, as the internals pass them on.
States == [d : Seq(Octet), f : FileRecords]

-----------------------------------------------------------------------------
(* What the operators do, field by field. *)

\* pwrite stores bytes and takes none away.
LEMMA Stored ==
    ASSUME NEW d \in Seq(Octet), NEW o \in Int, NEW bs \in Seq(Octet), NEW n \in Nat
    PROVE  Pwrite(d, o, bs, n) \in Seq(Octet) /\ Len(Pwrite(d, o, bs, n)) >= Len(d)
<1> DEFINE k == Lesser(n, Len(bs))
           m == Greater(Len(d), o + k)
           e(i) == IF i \in o + 1 .. o + k THEN bs[i - o] ELSE IF i <= Len(d) THEN d[i] ELSE Hole
<1>1. k \in Nat /\ k <= Len(bs) /\ m \in Nat /\ m >= Len(d)
  BY DEF Lesser, Greater
<1>2. \A i \in 1 .. m : e(i) \in Octet
  <2>1. \A i \in 1 .. Len(bs) : bs[i] \in Octet
    OBVIOUS
  <2>2. \A i \in 1 .. Len(d) : d[i] \in Octet
    OBVIOUS
  <2>3. Hole \in Octet
    BY FileAssumption DEF Octet
  <2> QED BY <1>1, <2>1, <2>2, <2>3
<1>3. Pwrite(d, o, bs, n) = IF k = 0 THEN d ELSE [i \in 1 .. m |-> e(i)]
  BY DEF Pwrite
<1> HIDE DEF k, m, e
<1>4. [i \in 1 .. m |-> e(i)] \in Seq(Octet) /\ Len([i \in 1 .. m |-> e(i)]) = m
  BY <1>1, <1>2
<1> QED BY <1>1, <1>3, <1>4

\* The bytes behind the position are bytes.
LEMMA BehindBytes == ASSUME NEW g \in FileRecords PROVE Behind(g) \in Seq(Octet)
<1> DEFINE m == g.head - g.cache_start
<1>1. \A i \in Int : CacheAt(g, i) \in Octet
  BY FileAssumption DEF CacheAt, FileRecords, Octet, Caches
<1>2. m \in Int
  BY DEF FileRecords
<1>3. Behind(g) = [i \in 1 .. m |-> CacheAt(g, i - 1)]
  BY DEF Behind
<1> HIDE DEF m
<1>4. CASE m >= 0
  BY <1>1, <1>2, <1>3, <1>4
<1>5. CASE ~ m >= 0
  <2>1. Behind(g) = <<>>
    BY <1>2, <1>3, <1>5
  <2> QED BY <2>1
<1> QED BY <1>4, <1>5

\* io300_flush, when pwrite does not fail.
LEMMA Flushes ==
    ASSUME NEW s \in States, NEW n \in Nat
    PROVE  LET t == io300_flush(s, n)
           IN  /\ t \in States /\ t.d = Pwrite(s.d, s.f.cache_start, Behind(s.f), n)
               /\ Len(t.d) >= Len(s.d)
               /\ t.f.head = s.f.head /\ t.f.cache_start = s.f.head
               /\ t.f.cache_end = s.f.cache_end + CACHE_SIZE /\ t.f.dirty = FALSE
               /\ t.f.file_size = s.f.file_size /\ t.f.cache = s.f.cache
<1> DEFINE t == io300_flush(s, n)
           d == Pwrite(s.d, s.f.cache_start, Behind(s.f), n)
           g1 == [s.f EXCEPT !.cache_start = s.f.head]
           g2 == [g1 EXCEPT !.cache_end = @ + CACHE_SIZE]
           g == [g2 EXCEPT !.dirty = FALSE]
<1>1. s.d \in Seq(Octet) /\ s.f \in FileRecords
  BY DEF States
<1>2. d \in Seq(Octet) /\ Len(d) >= Len(s.d)
  BY <1>1, Stored, BehindBytes DEF FileRecords
<1>3. t = [d |-> d, f |-> g]
  BY DEF io300_flush, Fail
<1> HIDE DEF d
<1>4. /\ g1 \in FileRecords /\ g1.head = s.f.head /\ g1.cache_start = s.f.head
      /\ g1.cache_end = s.f.cache_end /\ g1.file_size = s.f.file_size /\ g1.cache = s.f.cache
  BY <1>1 DEF FileRecords
<1> HIDE DEF g1
<1>5. /\ g2 \in FileRecords /\ g2.head = s.f.head /\ g2.cache_start = s.f.head
      /\ g2.cache_end = s.f.cache_end + CACHE_SIZE
      /\ g2.file_size = s.f.file_size /\ g2.cache = s.f.cache
  BY <1>1, <1>4, CacheAssumption DEF FileRecords
<1> HIDE DEF g2
<1>6. /\ g \in FileRecords /\ g.head = s.f.head /\ g.cache_start = s.f.head
      /\ g.cache_end = s.f.cache_end + CACHE_SIZE /\ g.dirty = FALSE
      /\ g.file_size = s.f.file_size /\ g.cache = s.f.cache
  BY <1>5 DEF FileRecords
<1> HIDE DEF g
<1>7. t \in States /\ t.d = d /\ t.f = g
  BY <1>2, <1>3, <1>6 DEF States
<1> QED BY <1>2, <1>6, <1>7 DEF d

\* Where the window is once io300_fetch has left it behind.
LEMMA Windows ==
    ASSUME NEW s \in States, NEW n \in Nat \cup {Fail}
    PROVE  LET t == Window(s, n)
           IN  /\ t \in States /\ Len(t.d) >= Len(s.d)
               /\ t.f.file_size = s.f.file_size /\ t.f.cache = s.f.cache
               /\ s.f.dirty /\ n = Fail => t = s
               /\ s.f.dirty /\ n # Fail => t = io300_flush(s, n)
               /\ ~ s.f.dirty => /\ t.d = s.d /\ t.f.head = s.f.cache_end /\ t.f.dirty = FALSE
                                 /\ t.f.cache_start = s.f.cache_end /\ t.f.cache_end = s.f.cache_end
<1> DEFINE t == Window(s, n)
<1>1. s.d \in Seq(Octet) /\ s.f \in FileRecords /\ s.f.dirty \in BOOLEAN
  BY DEF States, FileRecords
<1>2. CASE s.f.dirty /\ n = Fail
  <2>1. t = s
    BY <1>2 DEF Window, io300_flush
  <2> QED BY <1>1, <1>2, <2>1
<1>3. CASE s.f.dirty /\ n # Fail
  <2>1. t = io300_flush(s, n)
    BY <1>3 DEF Window
  <2> QED BY <1>3, <2>1, Flushes, ZenonT(60)
<1>4. CASE ~ s.f.dirty
  <2> DEFINE g == [s.f EXCEPT !.cache_start = s.f.cache_end]
             h == [g EXCEPT !.head = s.f.cache_end]
  <2>1. t = [s EXCEPT !.f.cache_start = s.f.cache_end, !.f.head = s.f.cache_end]
    BY <1>4 DEF Window
  <2>2. t = [d |-> s.d, f |-> h]
    BY <2>1 DEF States, FileRecords
  <2>3. h \in FileRecords /\ h.head = s.f.cache_end /\ h.dirty = FALSE
        /\ h.cache_start = s.f.cache_end /\ h.cache_end = s.f.cache_end
        /\ h.file_size = s.f.file_size /\ h.cache = s.f.cache
    BY <1>1, <1>4 DEF FileRecords
  <2> HIDE DEF h
  <2>4. t \in States /\ t.d = s.d /\ t.f = h
    BY <1>1, <2>2, <2>3 DEF States
  <2> QED BY <1>1, <1>4, <2>3, <2>4
<1> QED BY <1>1, <1>2, <1>3, <1>4

\* How much pread reads.
LEMMA Reads ==
    ASSUME NEW d \in Seq(Octet), NEW o \in Int, NEW n \in Nat
    PROVE  /\ Available(d, o, n) \in Nat /\ Available(d, o, n) <= n
           /\ Available(d, o, n) > 0 => o + Available(d, o, n) <= Len(d)
           /\ Available(d, o, n) = n \/ o + Available(d, o, n) >= Len(d)
<1>1. Len(d) \in Nat
  OBVIOUS
<1> QED BY <1>1 DEF Available, Lesser, Greater

\* io300_fetch: the window starts at the position, and has what pread read.
LEMMA Fetched ==
    ASSUME NEW s \in States, NEW n \in Nat \cup {Fail}
    PROVE  LET t == Window(s, n)
               u == io300_fetch(s, n, TRUE)
           IN  /\ u \in States /\ u.d = t.d
               /\ u.f.head = t.f.head /\ u.f.cache_start = t.f.head /\ u.f.dirty = t.f.dirty
               /\ u.f.cache_end = t.f.head + Available(t.d, t.f.head, CACHE_SIZE)
               /\ u.f.file_size = s.f.file_size
               /\ u.f.cache = ReadInto(s.f.cache, t.d, t.f.head, CACHE_SIZE)
<1> DEFINE t == Window(s, n)
           u == io300_fetch(s, n, TRUE)
           c == ReadInto(t.f.cache, t.d, t.f.head, CACHE_SIZE)
           e == t.f.head + Available(t.d, t.f.head, CACHE_SIZE)
           g == [t.f EXCEPT !.cache = c]
           h == [g EXCEPT !.cache_start = t.f.head]
           i == [h EXCEPT !.cache_end = e]
<1>1. t \in States /\ t.f.file_size = s.f.file_size /\ t.f.cache = s.f.cache
  BY Windows
<1>2. t.d \in Seq(Octet) /\ t.f \in FileRecords /\ t.f.head \in Nat /\ t.f.cache \in Caches
  BY <1>1 DEF States, FileRecords
<1>3. u = [t EXCEPT !.f.cache = ReadInto(@, t.d, t.f.head, CACHE_SIZE),
                    !.f.cache_start = t.f.head, !.f.cache_end = FetchEnd(t)]
  BY DEF io300_fetch
<1> HIDE DEF t
<1>4. e \in Nat
  BY <1>2, Reads, CacheAssumption
<1>5. c \in Caches
  <2> DEFINE a == Available(t.d, t.f.head, CACHE_SIZE)
  <2>1. a \in Nat /\ (a > 0 => t.f.head + a <= Len(t.d))
    BY <1>2, Reads, CacheAssumption
  <2>2. c = [j \in Index |-> IF j < a THEN t.d[t.f.head + j + 1] ELSE t.f.cache[j]]
    BY DEF ReadInto
  <2> HIDE DEF a
  <2>3. ASSUME NEW j \in Index, j < a PROVE t.d[t.f.head + j + 1] \in Octet
    <3>1. t.f.head + j + 1 \in 1 .. Len(t.d)
      BY <1>2, <2>1, <2>3, CacheAssumption, SMTT(30) DEF Index
    <3> QED BY <1>2, <3>1, ElementOfSeq, Zenon
  <2> QED BY <1>2, <2>2, <2>3 DEF Caches
<1>6. u = [d |-> t.d, f |-> i]
  BY <1>1, <1>3 DEF States, FileRecords, FetchEnd
<1> HIDE DEF c, e, u
<1>7. /\ g \in FileRecords /\ g.head = t.f.head /\ g.dirty = t.f.dirty
      /\ g.file_size = t.f.file_size /\ g.cache = c
  BY <1>2, <1>5 DEF FileRecords
<1> HIDE DEF g
<1>8. /\ h \in FileRecords /\ h.head = t.f.head /\ h.dirty = t.f.dirty
      /\ h.file_size = t.f.file_size /\ h.cache = c /\ h.cache_start = t.f.head
  BY <1>2, <1>7 DEF FileRecords
<1> HIDE DEF h
<1>9. /\ i \in FileRecords /\ i.head = t.f.head /\ i.dirty = t.f.dirty
      /\ i.file_size = t.f.file_size /\ i.cache = c /\ i.cache_start = t.f.head /\ i.cache_end = e
  BY <1>4, <1>8 DEF FileRecords
<1> HIDE DEF i
<1>10. u \in States /\ u.d = t.d /\ u.f = i
  BY <1>2, <1>6, <1>9 DEF States
<1> QED
  BY <1>1, <1>9, <1>10 DEF c, e, t, u

\* io300_fetch at the end of a window, whether its calls fail or not.
LEMMA Moved ==
    ASSUME NEW s \in States, NEW n \in Nat \cup {Fail}, NEW ok \in BOOLEAN,
           check_invariants(s.f), s.f.head = s.f.cache_end
    PROVE  LET u == io300_fetch(s, n, ok)
           IN  /\ u \in States /\ check_invariants(u.f) /\ Len(u.d) >= Len(s.d)
               /\ u.f.head = s.f.head /\ u.f.file_size = s.f.file_size
               /\ ok \/ ~ s.f.dirty \/ n # Fail => u.f.cache_start = u.f.head
               /\ ok => u.f.cache_end = u.f.head + Available(u.d, u.f.head, CACHE_SIZE)
<1> DEFINE t == Window(s, n)
           u == io300_fetch(s, n, ok)
           w == io300_flush(s, n)
<1>1. /\ t \in States /\ Len(t.d) >= Len(s.d) /\ t.f.file_size = s.f.file_size
      /\ s.f.dirty /\ n = Fail => t = s
      /\ s.f.dirty /\ n # Fail => t = w
      /\ ~ s.f.dirty => /\ t.f.head = s.f.cache_end
                        /\ t.f.cache_start = s.f.cache_end /\ t.f.cache_end = s.f.cache_end
  BY Windows
<1>2. n # Fail => w.f.head = s.f.head /\ w.f.cache_start = s.f.head /\ w.f.cache_end = s.f.cache_end + CACHE_SIZE
  BY Flushes
<1>3. s.f \in FileRecords /\ CACHE_SIZE \in Nat \ {0}
  BY CacheAssumption DEF States
<1>4. /\ s.f.head \in Nat /\ s.f.cache_start \in Nat /\ s.f.dirty \in BOOLEAN
      /\ s.f.cache_start <= s.f.head /\ s.f.head <= s.f.cache_start + CACHE_SIZE
  BY <1>3 DEF FileRecords, check_invariants
<1> HIDE DEF t, w
<1>5. /\ t.f.head = s.f.head /\ check_invariants(t.f)
      /\ ~ s.f.dirty \/ n # Fail => t.f.cache_start = t.f.head
  <2>1. CASE s.f.dirty /\ n = Fail
    BY <1>1, <2>1
  <2>2. CASE s.f.dirty /\ n # Fail
    BY <1>1, <1>2, <1>3, <1>4, <2>2 DEF check_invariants
  <2>3. CASE ~ s.f.dirty
    BY <1>1, <1>3, <1>4, <2>3 DEF check_invariants
  <2> QED BY <1>4, <2>1, <2>2, <2>3
<1>6. CASE ~ ok
  <2>1. u = t
    BY <1>6 DEF io300_fetch, t
  <2> QED BY <1>1, <1>5, <1>6, <2>1
<1>7. CASE ok
  <2>1. /\ u \in States /\ u.d = t.d /\ u.f.head = t.f.head /\ u.f.cache_start = t.f.head
        /\ u.f.cache_end = t.f.head + Available(t.d, t.f.head, CACHE_SIZE)
        /\ u.f.file_size = s.f.file_size
    BY <1>7, Fetched DEF t
  <2>2. t.d \in Seq(Octet)
    BY <1>1 DEF States
  <2> DEFINE a == Available(t.d, t.f.head, CACHE_SIZE)
  <2>3. a \in Nat /\ a <= CACHE_SIZE
    BY <1>3, <1>4, <1>5, <2>2, Reads
  <2> HIDE DEF a, u
  <2>4. u.f.cache_end = s.f.head + a /\ u.f.cache_start = s.f.head /\ u.f.head = s.f.head
    BY <1>5, <2>1 DEF a
  <2>5. check_invariants(u.f)
    BY <1>3, <1>4, <2>3, <2>4 DEF check_invariants
  <2> QED BY <1>1, <1>5, <2>1, <2>5 DEF u
<1> QED BY <1>6, <1>7

\* The position moves on.
LEMMA Advance ==
    ASSUME NEW s \in States, NEW k \in Nat
    PROVE  LET u == [s EXCEPT !.f.head = @ + k]
           IN  /\ u \in States /\ u.d = s.d /\ u.f.head = s.f.head + k
               /\ u.f.cache_start = s.f.cache_start /\ u.f.cache_end = s.f.cache_end
               /\ u.f.file_size = s.f.file_size /\ u.f.cache = s.f.cache /\ u.f.dirty = s.f.dirty
<1>1. s.d \in Seq(Octet) /\ s.f \in FileRecords
  BY DEF States
<1> DEFINE g == [s.f EXCEPT !.head = @ + k]
           u == [s EXCEPT !.f.head = @ + k]
<1>2. /\ g \in FileRecords /\ g.head = s.f.head + k
      /\ g.cache_start = s.f.cache_start /\ g.cache_end = s.f.cache_end
      /\ g.file_size = s.f.file_size /\ g.cache = s.f.cache /\ g.dirty = s.f.dirty
  BY <1>1 DEF FileRecords
<1>3. u = [d |-> s.d, f |-> g]
  BY DEF States
<1> HIDE DEF g
<1>4. u \in States /\ u.d = s.d /\ u.f = g
  BY <1>1, <1>2, <1>3 DEF States
<1> QED BY <1>2, <1>4

\* k bytes have been put into the cache.
Put(s, c, k) == [s EXCEPT !.f.cache = c, !.f.head = @ + k, !.f.dirty = TRUE]
IsPut(u, s, c, k) ==
    /\ u \in States /\ u.d = s.d /\ u.f.head = s.f.head + k
    /\ u.f.cache_start = s.f.cache_start /\ u.f.cache_end = s.f.cache_end
    /\ u.f.file_size = s.f.file_size /\ u.f.cache = c /\ u.f.dirty = TRUE
\* What that makes of the parts of a state.
LEMMA PutIn ==
    ASSUME NEW s \in States, NEW c \in Caches, NEW k \in Nat
    PROVE  IsPut(Put(s, c, k), s, c, k)
<1>1. s.d \in Seq(Octet) /\ s.f \in FileRecords
  BY DEF States
<1> DEFINE g1 == [s.f EXCEPT !.cache = c]
           g2 == [g1 EXCEPT !.head = @ + k]
           g == [g2 EXCEPT !.dirty = TRUE]
           u == Put(s, c, k)
<1>2. u = [d |-> s.d, f |-> g]
  <2>1. u = [s EXCEPT !.f.cache = c, !.f.head = s.f.head + k, !.f.dirty = TRUE]
    BY DEF Put
  <2>2. g = [[[s.f EXCEPT !.cache = c] EXCEPT !.head = s.f.head + k] EXCEPT !.dirty = TRUE]
    BY <1>1 DEF FileRecords
  <2> HIDE DEF u, g
  <2> QED BY <2>1, <2>2 DEF States, FileRecords
<1>3. /\ g1 \in FileRecords /\ g1.cache = c /\ g1.head = s.f.head /\ g1.cache_start = s.f.cache_start
      /\ g1.cache_end = s.f.cache_end /\ g1.file_size = s.f.file_size
  BY <1>1 DEF FileRecords
<1> HIDE DEF g1
<1>4. /\ g2 \in FileRecords /\ g2.cache = c /\ g2.head = s.f.head + k /\ g2.cache_start = s.f.cache_start
      /\ g2.cache_end = s.f.cache_end /\ g2.file_size = s.f.file_size
  BY <1>1, <1>3 DEF FileRecords
<1> HIDE DEF g2
<1>5. /\ g \in FileRecords /\ g.cache = c /\ g.head = s.f.head + k /\ g.cache_start = s.f.cache_start
      /\ g.cache_end = s.f.cache_end /\ g.file_size = s.f.file_size /\ g.dirty = TRUE
  BY <1>4 DEF FileRecords
<1> HIDE DEF g
<1>6. u \in States /\ u.d = s.d /\ u.f = g
  BY <1>1, <1>2, <1>5 DEF States
<1> QED BY <1>5, <1>6 DEF IsPut

-----------------------------------------------------------------------------
(* The window. *)

FileType ==
    /\ disk \in Seq(Octet) /\ f \in FileRecords /\ left \in Nat /\ role \in Roles
    /\ mode \in {"closed", "idle", "read", "write", "aborted"}

\* For the repository's programs the window is as large as the file allows,
\* unless pread failed.
KnownWindow ==
    /\ mode = "idle" => check_invariants(f)
    /\ mode = "write" => role # "reader"
    /\ mode # "closed" => f.file_size <= Len(disk)
    /\ f.cache_end <= f.cache_start + CACHE_SIZE
    /\ role # "reader" => f.cache_end = f.cache_start + CACHE_SIZE \/ f.cache_end >= f.file_size

WindowInv ==
    /\ FileType
    /\ mode = "aborted" => role = "any"
    /\ mode = "read" => check_invariants(f)
    /\ mode = "write" => f.cache_start <= f.head /\ f.head <= f.cache_start + CACHE_SIZE
    /\ role # "any" => KnownWindow

\* pread fails only for programs that just read, or, for others than the
\* repository's, where pwrite does not.
ReadFaultsApart ==
    \A r \in Roles : <<r, "pread">> \in Faults =>
        r = "reader" \/ (r = "any" /\ <<r, "pwrite">> \notin Faults)

\* After a fetch that was read for, the window is as large as the file allows.
LEMMA Refilled ==
    ASSUME NEW s \in States, NEW n \in Nat \cup {Fail},
           check_invariants(s.f), s.f.head = s.f.cache_end
    PROVE  LET u == io300_fetch(s, n, TRUE)
           IN  /\ s.f.file_size <= Len(s.d) =>
                    u.f.cache_end = u.f.cache_start + CACHE_SIZE \/ u.f.cache_end >= u.f.file_size
               /\ s.f.head < Len(s.d) => u.f.head < u.f.cache_end
<1> DEFINE u == io300_fetch(s, n, TRUE)
           a == Available(u.d, u.f.head, CACHE_SIZE)
<1>1. /\ u \in States /\ Len(u.d) >= Len(s.d) /\ u.f.head = s.f.head /\ u.f.file_size = s.f.file_size
      /\ u.f.cache_start = u.f.head /\ u.f.cache_end = u.f.head + a
  BY Moved
<1> HIDE DEF u
<1>2. /\ u.d \in Seq(Octet) /\ u.f.head \in Nat /\ u.f.file_size \in Nat
      /\ s.d \in Seq(Octet) /\ CACHE_SIZE \in Nat \ {0}
  BY <1>1, CacheAssumption DEF States, FileRecords
<1>3. Len(u.d) \in Nat /\ Len(s.d) \in Nat
  BY <1>2
<1>4. a \in Nat /\ (a = CACHE_SIZE \/ u.f.head + a >= Len(u.d))
  BY <1>2, Reads
<1> HIDE DEF a
<1>5. s.f.file_size <= Len(s.d) =>
        u.f.cache_end = u.f.cache_start + CACHE_SIZE \/ u.f.cache_end >= u.f.file_size
  BY <1>1, <1>2, <1>3, <1>4, SMTT(30)
<1>6. s.f.head < Len(s.d) => u.f.head < u.f.cache_end
  BY <1>1, <1>2, <1>3, <1>4
<1> QED BY <1>5, <1>6 DEF u

\* What may come of pread and pwrite.
LEMMA Outcomes ==
    /\ WriteOutcomes \subseteq Nat \cup {Fail} /\ ReadOutcomes \subseteq BOOLEAN /\ All \in Nat
    /\ ReadFaultsApart /\ role \in Roles /\ FALSE \in ReadOutcomes =>
            role = "reader" \/ (role = "any" /\ Fail \notin WriteOutcomes)
<1>1. All \in Nat
  BY CacheAssumption, FileAssumption DEF All
<1>2. WriteOutcomes \subseteq Nat \cup {Fail} /\ ReadOutcomes \subseteq BOOLEAN
  <2>1. 1 \in Nat
    OBVIOUS
  <2>2. WriteOutcomes \subseteq Nat \cup {Fail}
    BY <1>1, <2>1, Zenon DEF WriteOutcomes
  <2>3. ReadOutcomes \subseteq BOOLEAN
    BY Zenon DEF ReadOutcomes
  <2> QED BY <2>2, <2>3
<1>3. ASSUME ReadFaultsApart, role \in Roles, FALSE \in ReadOutcomes
      PROVE  role = "reader" \/ (role = "any" /\ Fail \notin WriteOutcomes)
  <2>1. <<role, "pread">> \in Faults
    BY <1>3, Zenon DEF ReadOutcomes, MayGoWrong
  <2>2. role = "reader" \/ (role = "any" /\ ~ MayGoWrong("pwrite"))
    BY <1>3, <2>1, Zenon DEF ReadFaultsApart, MayGoWrong
  <2>3. ~ MayGoWrong("pwrite") => Fail \notin WriteOutcomes
    BY <1>1 DEF WriteOutcomes, Fail
  <2> QED BY <2>2, <2>3
<1> QED BY <1>1, <1>2, <1>3

\* The state, as the internals see it.
LEMMA HereStates ==
    ASSUME FileType
    PROVE  /\ Here \in States /\ Here.d = disk /\ Here.f = f
           /\ disk \in Seq(Octet) /\ f \in FileRecords /\ Len(disk) \in Nat
           /\ f.head \in Nat /\ f.cache_start \in Nat /\ f.cache_end \in Nat /\ f.file_size \in Nat
           /\ f.dirty \in BOOLEAN /\ f.cache \in Caches /\ CACHE_SIZE \in Nat \ {0}
<1>1. disk \in Seq(Octet) /\ f \in FileRecords
  BY DEF FileType
<1>2. Here \in States /\ Here.d = disk /\ Here.f = f
  BY <1>1 DEF Here, States
<1> QED BY <1>1, <1>2, CacheAssumption DEF FileRecords

\* What io300_open starts from.
LEMMA FreshFile ==
    /\ NoFile \in FileRecords /\ NoFile.head = 0 /\ NoFile.cache_start = 0
    /\ NoFile.cache_end = 0 /\ NoFile.dirty = FALSE /\ NoFile.file_size = 0
<1>1. [i \in Index |-> Junk] \in Caches
  BY FileAssumption DEF Octet, Caches
<1> QED BY <1>1 DEF NoFile, FileRecords

\* Opening fills the first window.
LEMMA OpenWindow == ASSUME WindowInv, ReadFaultsApart, io300_open PROVE WindowInv'
<1> DEFINE g == [NoFile EXCEPT !.file_size = Len(disk)]
           s == [d |-> disk, f |-> g]
<1>1. PICK ok \in ReadOutcomes : Becomes(io300_fetch(s, All, ok))
  BY DEF io300_open
<1> DEFINE u == io300_fetch(s, All, ok)
<1>2. FileType /\ Len(disk) \in Nat /\ disk \in Seq(Octet) /\ CACHE_SIZE \in Nat \ {0}
  BY HereStates DEF WindowInv
<1>3. /\ g \in FileRecords /\ g.head = 0 /\ g.cache_start = 0 /\ g.cache_end = 0
      /\ g.file_size = Len(disk) /\ g.dirty = FALSE
  BY <1>2, FreshFile DEF FileRecords
<1>4. s \in States /\ s.d = disk /\ s.f = g
  BY <1>2, <1>3 DEF States
<1> HIDE DEF s, g
<1>5. check_invariants(s.f) /\ s.f.head = s.f.cache_end
  BY <1>2, <1>3, <1>4 DEF check_invariants
<1>6. ok \in BOOLEAN /\ All \in Nat /\ (~ ok => role \in {"reader", "any"})
  BY <1>1, <1>2, Outcomes DEF FileType
<1>7. /\ u \in States /\ check_invariants(u.f) /\ Len(u.d) >= Len(s.d)
      /\ u.f.file_size = Len(disk)
  BY <1>3, <1>4, <1>5, <1>6, Moved
<1>8. ok => u.f.cache_end = u.f.cache_start + CACHE_SIZE \/ u.f.cache_end >= u.f.file_size
  <2> SUFFICES ASSUME ok = TRUE
               PROVE  u.f.cache_end = u.f.cache_start + CACHE_SIZE \/ u.f.cache_end >= u.f.file_size
    BY <1>6
  <2>1. s.f.file_size <= Len(s.d)
    BY <1>2, <1>3, <1>4
  <2> QED BY <1>4, <1>5, <1>6, <2>1, Refilled
<1> HIDE DEF u
<1>9. disk' = u.d /\ f' = u.f /\ mode' = "idle" /\ role' = role /\ left' = left
  BY <1>1 DEF io300_open, Becomes, u
<1>10. FileType'
  BY <1>2, <1>7, <1>9 DEF FileType, States
<1>11. f'.cache_end <= f'.cache_start + CACHE_SIZE
  BY <1>2, <1>7, <1>9 DEF check_invariants, States, FileRecords
<1>12. role # "any" => KnownWindow'
  BY <1>4, <1>6, <1>7, <1>8, <1>9, <1>11 DEF KnownWindow, check_invariants
<1> QED BY <1>9, <1>10, <1>12 DEF WindowInv

\* Closing.
LEMMA CloseWindow == ASSUME WindowInv, io300_close PROVE WindowInv'
<1>1. PICK n \in WriteOutcomes : disk' = IF f.dirty THEN io300_flush(Here, n).d ELSE disk
  BY DEF io300_close
<1>2. f' = NoFile /\ mode' = "closed" /\ role' \in NextRoles /\ left' = left /\ FileType
  BY DEF io300_close, WindowInv
<1>3. Here \in States /\ disk \in Seq(Octet) /\ Here.d = disk /\ n \in Nat \cup {Fail}
  BY <1>2, HereStates, Outcomes
<1>4. disk' \in Seq(Octet)
  <2>1. CASE n = Fail
    <3>1. io300_flush(Here, n) = Here
      BY <2>1 DEF io300_flush
    <3> QED BY <1>1, <1>3, <3>1
  <2>2. CASE n # Fail
    <3>1. io300_flush(Here, n) \in States
      BY <1>3, <2>2, Flushes
    <3>2. io300_flush(Here, n).d \in Seq(Octet)
      BY <3>1 DEF States
    <3> QED BY <1>1, <1>3, <3>2
  <2> QED BY <2>1, <2>2
<1>5. role' \in Roles
  BY <1>2 DEF NextRoles, FileType
<1>6. FileType'
  BY <1>2, <1>4, <1>5, FreshFile DEF FileType
<1> QED
  BY <1>2, <1>6, FreshFile, CacheAssumption DEF WindowInv, KnownWindow

\* Seeking moves the window to where it is asked for.
LEMMA SeekWindow ==
    ASSUME WindowInv, ReadFaultsApart, NEW p \in Offsets, io300_seek(p)
    PROVE  WindowInv'
<1>1. PICK n \in WriteOutcomes, ok \in ReadOutcomes :
        LET s == IF f.dirty THEN io300_flush(Here, n) ELSE Here
            k == IF ok THEN Available(s.d, p, Lesser(CACHE_SIZE, s.f.file_size - p)) ELSE 0
            g == [s.f EXCEPT !.head = p, !.cache_start = p, !.cache_end = p]
        IN  Becomes([s EXCEPT !.f =
                IF p < 0 THEN @
                ELSE IF p > g.file_size THEN [g EXCEPT !.file_size = p]
                ELSE [g EXCEPT !.cache = ReadInto(@, s.d, p, k), !.cache_end = p + k]])
  BY DEF io300_seek
<1> DEFINE s == IF f.dirty THEN io300_flush(Here, n) ELSE Here
           m == Lesser(CACHE_SIZE, s.f.file_size - p)
           k == IF ok THEN Available(s.d, p, m) ELSE 0
           g == [s.f EXCEPT !.head = p, !.cache_start = p, !.cache_end = p]
           h == [g EXCEPT !.file_size = p]
           i == [g EXCEPT !.cache = ReadInto(@, s.d, p, k), !.cache_end = p + k]
<1>2. /\ FileType /\ mode = "idle" /\ mode' = mode /\ role' = role /\ left' = left
      /\ role # "any" => p \in 0 .. f.file_size
  BY DEF io300_seek, WindowInv, Ready, MaySeek
<1>3. n \in Nat \cup {Fail} /\ ok \in BOOLEAN /\ p \in Int /\ CACHE_SIZE \in Nat \ {0}
      /\ Here \in States /\ Here.d = disk /\ Here.f = f /\ f.dirty \in BOOLEAN
  BY <1>2, HereStates, Outcomes, FileAssumption
<1>4. s \in States /\ s.f.file_size = f.file_size /\ Len(s.d) >= Len(disk)
  <2>1. CASE f.dirty /\ n # Fail
    BY <1>3, <2>1, Flushes
  <2>2. CASE f.dirty /\ n = Fail
    <3>1. io300_flush(Here, n) = Here
      BY <2>2 DEF io300_flush
    <3> QED BY <1>2, <1>3, <3>1, HereStates
  <2>3. CASE ~ f.dirty
    BY <1>2, <1>3, <2>3, HereStates
  <2> QED BY <1>3, <2>1, <2>2, <2>3
<1>5. disk' = s.d /\ f' = IF p < 0 THEN s.f ELSE IF p > g.file_size THEN h ELSE i
  BY <1>1, <1>4 DEF Becomes, States
<1> HIDE DEF s
<1>6. s.f \in FileRecords /\ s.d \in Seq(Octet) /\ s.f.file_size \in Nat
  BY <1>4 DEF States, FileRecords
<1>7. ASSUME p >= 0
      PROVE  /\ g \in FileRecords /\ g.head = p /\ g.cache_start = p /\ g.cache_end = p
             /\ g.file_size = s.f.file_size /\ g.cache = s.f.cache
  <2> DEFINE g1 == [s.f EXCEPT !.head = p]
             g2 == [g1 EXCEPT !.cache_start = p]
  <2>1. /\ g1 \in FileRecords /\ g1.head = p /\ g1.file_size = s.f.file_size /\ g1.cache = s.f.cache
    BY <1>3, <1>6, <1>7 DEF FileRecords
  <2>2. g = [g2 EXCEPT !.cache_end = p]
    OBVIOUS
  <2> HIDE DEF g1, g
  <2>3. /\ g2 \in FileRecords /\ g2.head = p /\ g2.cache_start = p
        /\ g2.file_size = s.f.file_size /\ g2.cache = s.f.cache
    BY <1>3, <2>1, <1>7 DEF FileRecords
  <2> HIDE DEF g2
  <2> QED BY <1>3, <1>7, <2>2, <2>3 DEF FileRecords
<1> HIDE DEF g
<1>8. ASSUME p >= 0, ~ p > g.file_size
      PROVE  /\ m \in Nat /\ m <= CACHE_SIZE /\ p + m <= f.file_size
             /\ m = CACHE_SIZE \/ p + m = f.file_size
             /\ k \in Nat /\ k <= m /\ ReadInto(g.cache, s.d, p, k) \in Caches
             /\ i \in FileRecords /\ i.head = p /\ i.cache_start = p /\ i.cache_end = p + k
             /\ i.file_size = f.file_size
  <2>1. /\ m \in Nat /\ m <= CACHE_SIZE /\ p + m <= f.file_size
        /\ m = CACHE_SIZE \/ p + m = f.file_size
    BY <1>3, <1>4, <1>6, <1>7, <1>8 DEF Lesser
  <2> HIDE DEF m
  <2>2. k \in Nat /\ k <= m
    <3>1. Available(s.d, p, m) \in Nat /\ Available(s.d, p, m) <= m
      BY <1>3, <1>6, <2>1, Reads
    <3> QED BY <1>3, <2>1, <3>1
  <2> HIDE DEF k
  <2> DEFINE c == ReadInto(g.cache, s.d, p, k)
             a == Available(s.d, p, k)
  <2>3. a \in Nat /\ (a > 0 => p + a <= Len(s.d))
    BY <1>3, <1>6, <2>2, Reads
  <2>4. c = [j \in Index |-> IF j < a THEN s.d[p + j + 1] ELSE g.cache[j]]
    BY DEF ReadInto
  <2> HIDE DEF a
  <2>5. ASSUME NEW j \in Index, j < a PROVE s.d[p + j + 1] \in Octet
    <3>1. p + j + 1 \in 1 .. Len(s.d)
      BY <1>3, <1>6, <1>8, <2>3, <2>5 DEF Index
    <3> QED BY <1>6, <3>1, ElementOfSeq, Zenon
  <2>6. g.cache \in Caches
    BY <1>7, <1>8 DEF FileRecords
  <2>7. c \in Caches
    BY <2>4, <2>5, <2>6 DEF Caches
  <2> HIDE DEF c
  <2> DEFINE i1 == [g EXCEPT !.cache = c]
  <2>8. i = [i1 EXCEPT !.cache_end = p + k]
    BY DEF c
  <2>9. i1 \in FileRecords /\ i1.head = p /\ i1.cache_start = p /\ i1.file_size = f.file_size
    BY <1>4, <1>7, <1>8, <2>7 DEF FileRecords
  <2> HIDE DEF i1, i
  <2>10. i \in FileRecords /\ i.head = p /\ i.cache_start = p /\ i.cache_end = p + k
         /\ i.file_size = f.file_size
    BY <1>3, <1>8, <2>2, <2>8, <2>9 DEF FileRecords
  <2> QED BY <2>1, <2>2, <2>7, <2>10 DEF c
<1>9. ASSUME p >= 0, p > g.file_size PROVE h \in FileRecords
  BY <1>3, <1>7, <1>9 DEF FileRecords
<1>10. f' \in FileRecords
  <2>1. CASE p < 0
    BY <1>5, <1>6, <2>1
  <2>2. CASE p >= 0
    <3> HIDE DEF h, i
    <3> QED BY <1>3, <1>5, <1>8, <1>9, <2>2
  <2> QED BY <1>3, <2>1, <2>2
<1>11. FileType'
  BY <1>2, <1>5, <1>6, <1>10 DEF FileType
<1>12. ASSUME role # "any" PROVE KnownWindow'
  <2>1. p >= 0 /\ p <= f.file_size /\ KnownWindow /\ f.file_size \in Nat
    BY <1>2, <1>12, HereStates DEF WindowInv
  <2>2. ~ p > g.file_size /\ ~ p < 0
    BY <1>3, <1>4, <1>7, <2>1
  <2>3. f' = i
    BY <1>5, <2>2, Zenon
  <2>4. role # "reader" => ok
    BY <1>2, <1>3, <1>12, Outcomes DEF FileType
  <2>5. f.file_size <= Len(disk) /\ Len(disk) \in Nat /\ Len(s.d) \in Nat
    BY <1>2, <1>6, <2>1, HereStates DEF KnownWindow
  <2>6. role # "reader" => k = m
    BY <1>3, <1>4, <1>6, <1>8, <2>1, <2>2, <2>4, <2>5 DEF Available, Lesser, Greater
  <2> HIDE DEF i, k, m
  <2>7. /\ f'.head = p /\ f'.cache_start = p /\ f'.cache_end = p + k /\ f'.file_size = f.file_size
        /\ m \in Nat /\ m <= CACHE_SIZE /\ (m = CACHE_SIZE \/ p + m = f.file_size)
        /\ k \in Nat /\ k <= m
    BY <1>8, <2>1, <2>2, <2>3
  <2>8. /\ check_invariants(f)' /\ f'.cache_end <= f'.cache_start + CACHE_SIZE
        /\ role # "reader" => f'.cache_end = f'.cache_start + CACHE_SIZE \/ f'.cache_end >= f'.file_size
    BY <1>3, <2>1, <2>6, <2>7 DEF check_invariants
  <2>9. f'.file_size <= Len(disk')
    <3>1. Len(disk') >= Len(disk) /\ Len(disk') \in Nat
      BY <1>4, <1>5, <2>5
    <3> QED BY <2>1, <2>5, <2>7, <3>1
  <2> QED BY <1>2, <2>8, <2>9 DEF KnownWindow
<1> QED
  BY <1>2, <1>11, <1>12 DEF WindowInv

\* A fetch at the end of the window keeps what is known of it.
LEMMA FetchWindow ==
    ASSUME FileType, ReadFaultsApart, check_invariants(f), f.head = f.cache_end,
           NEW n \in WriteOutcomes, NEW ok \in ReadOutcomes
    PROVE  LET u == io300_fetch(Here, n, ok)
           IN  /\ u \in States /\ check_invariants(u.f) /\ Len(u.d) >= Len(disk)
               /\ u.f.head = f.head /\ u.f.file_size = f.file_size
               /\ role # "reader" => u.f.cache_start = u.f.head
               /\ ~ ok => role \in {"reader", "any"}
               /\ role \notin {"reader", "any"} =>
                    /\ f.file_size <= Len(disk) =>
                         u.f.cache_end = u.f.cache_start + CACHE_SIZE \/ u.f.cache_end >= u.f.file_size
                    /\ f.head < Len(disk) => u.f.head < u.f.cache_end
<1> DEFINE u == io300_fetch(Here, n, ok)
<1>1. Here \in States /\ Here.d = disk /\ Here.f = f /\ f.dirty \in BOOLEAN
  BY HereStates
<1>2. n \in Nat \cup {Fail} /\ ok \in BOOLEAN
  BY Outcomes
<1>3. ~ ok => role = "reader" \/ (role = "any" /\ n # Fail)
  BY <1>2, Outcomes DEF FileType
<1>4. /\ u \in States /\ check_invariants(u.f) /\ Len(u.d) >= Len(disk)
      /\ u.f.head = f.head /\ u.f.file_size = f.file_size
      /\ ok \/ ~ f.dirty \/ n # Fail => u.f.cache_start = u.f.head
  BY <1>1, <1>2, Moved
<1>5. ASSUME role \notin {"reader", "any"}
      PROVE  /\ f.file_size <= Len(disk) =>
                  u.f.cache_end = u.f.cache_start + CACHE_SIZE \/ u.f.cache_end >= u.f.file_size
             /\ f.head < Len(disk) => u.f.head < u.f.cache_end
  <2>1. ok = TRUE
    BY <1>2, <1>3, <1>5
  <2> QED BY <1>1, <1>2, <2>1, Refilled
<1> HIDE DEF u
<1> QED BY <1>3, <1>4, <1>5 DEF u

\* Reading a byte.
LEMMA ReadcWindow == ASSUME WindowInv, ReadFaultsApart, io300_readc PROVE WindowInv'
<1>1. /\ FileType /\ mode = "idle" /\ check_invariants(f)
      /\ mode' = mode /\ role' = role /\ left' = left /\ (role # "any" => KnownWindow)
  BY DEF io300_readc, WindowInv, Ready
<1>2. /\ Here \in States /\ Here.d = disk /\ Here.f = f /\ f.head \in Nat /\ f.cache_end \in Nat
      /\ f.cache_start \in Nat /\ f.file_size \in Nat /\ CACHE_SIZE \in Nat /\ Len(disk) \in Nat
  BY <1>1, HereStates
<1>3. CASE UNCHANGED <<disk, f>>
  BY <1>1, <1>3 DEF WindowInv, KnownWindow, FileType, check_invariants
\* From a state with the window w, which is the old one or a new one.
<1>4. ASSUME NEW s \in States, check_invariants(s.f), s.f.file_size = f.file_size, Len(s.d) >= Len(disk),
             role \notin {"reader", "any"} =>
               s.f.cache_end = s.f.cache_start + CACHE_SIZE \/ s.f.cache_end >= s.f.file_size,
             Becomes(s) \/ (s.f.head # s.f.cache_end /\ ReadcGets(s))
      PROVE  WindowInv'
  <2> DEFINE u == [s EXCEPT !.f.head = @ + 1]
  <2>1. /\ u \in States /\ u.d = s.d /\ u.f.head = s.f.head + 1
        /\ u.f.cache_start = s.f.cache_start /\ u.f.cache_end = s.f.cache_end
        /\ u.f.file_size = s.f.file_size
    BY <1>4, Advance
  <2> HIDE DEF u
  <2>2. /\ s.f.head \in Nat /\ s.f.cache_start \in Nat /\ s.f.cache_end \in Nat
        /\ s.d \in Seq(Octet) /\ s.f \in FileRecords /\ u.f \in FileRecords
    BY <1>4, <2>1 DEF States, FileRecords
  <2>3. s.f.head # s.f.cache_end => check_invariants(u.f)
    BY <1>2, <1>4, <2>1, <2>2 DEF check_invariants
  <2>4. (disk' = s.d /\ f' = s.f) \/ (s.f.head # s.f.cache_end /\ disk' = u.d /\ f' = u.f)
    BY <1>4 DEF Becomes, ReadcGets, u
  <2>5. /\ disk' = s.d /\ f' \in FileRecords /\ check_invariants(f')
        /\ f'.cache_start = s.f.cache_start /\ f'.cache_end = s.f.cache_end /\ f'.file_size = s.f.file_size
    BY <1>4, <2>1, <2>2, <2>3, <2>4
  <2>6. FileType'
    BY <1>1, <2>2, <2>5 DEF FileType
  <2>7. f'.cache_end <= f'.cache_start + CACHE_SIZE
    BY <1>2, <1>4, <2>2, <2>5 DEF check_invariants
  <2>8. f.file_size <= Len(disk) => f'.file_size <= Len(disk')
    <3>1. Len(disk') \in Nat /\ Len(disk') >= Len(disk) /\ f'.file_size = f.file_size
      BY <1>4, <2>2, <2>5
    <3> QED BY <1>2, <3>1
  <2>9. role # "any" => KnownWindow'
    BY <1>1, <1>4, <2>5, <2>7, <2>8 DEF KnownWindow
  <2> QED BY <1>1, <2>6, <2>9 DEF WindowInv
<1>5. CASE f.head # f.cache_end /\ ReadcGets(Here)
  BY <1>1, <1>2, <1>4, <1>5 DEF KnownWindow
<1>6. ASSUME f.head = f.cache_end, NEW n \in WriteOutcomes, NEW ok \in ReadOutcomes,
             LET s == io300_fetch(Here, n, ok) IN
              IF ~ ok \/ s.f.head = s.f.cache_end
              THEN Becomes(s) /\ ret' = -1 /\ buff' = << >>
              ELSE ReadcGets(s)
      PROVE  WindowInv'
  <2> DEFINE s == io300_fetch(Here, n, ok)
  <2>1. /\ s \in States /\ check_invariants(s.f) /\ Len(s.d) >= Len(disk) /\ s.f.file_size = f.file_size
        /\ role \notin {"reader", "any"} /\ f.file_size <= Len(disk) =>
             s.f.cache_end = s.f.cache_start + CACHE_SIZE \/ s.f.cache_end >= s.f.file_size
    BY <1>1, <1>6, FetchWindow
  <2>2. Becomes(s) \/ (s.f.head # s.f.cache_end /\ ReadcGets(s))
    BY <1>6
  <2> HIDE DEF s
  <2> QED BY <1>1, <1>4, <2>1, <2>2 DEF KnownWindow
<1> QED
  BY <1>3, <1>5, <1>6 DEF io300_readc

\* Reading a block, one window at a time.
LEMMA ReadWindow == ASSUME WindowInv, ReadFaultsApart, io300_read PROVE WindowInv'
<1>1. PICK n \in WriteOutcomes, ok \in ReadOutcomes :
        LET s == IF f.head = f.cache_end THEN io300_fetch(Here, n, ok) ELSE Here
            k == Lesser(s.f.cache_end - s.f.head, left)
        IN  /\ Becomes([s EXCEPT !.f.head = @ + k]) /\ ReadGoesOn(k)
  BY DEF io300_read
<1> DEFINE s == IF f.head = f.cache_end THEN io300_fetch(Here, n, ok) ELSE Here
           k == Lesser(s.f.cache_end - s.f.head, left)
           u == [s EXCEPT !.f.head = @ + k]
<1>2. /\ FileType /\ mode = "read" /\ check_invariants(f) /\ role' = role
      /\ (role # "any" => KnownWindow) /\ left \in Nat
  BY DEF io300_read, WindowInv, FileType
<1>3. /\ Here \in States /\ Here.d = disk /\ Here.f = f /\ CACHE_SIZE \in Nat /\ Len(disk) \in Nat
      /\ f.file_size \in Nat
  BY <1>2, HereStates
<1>4. /\ s \in States /\ check_invariants(s.f) /\ Len(s.d) >= Len(disk) /\ s.f.file_size = f.file_size
      /\ role \notin {"reader", "any"} =>
           s.f.cache_end = s.f.cache_start + CACHE_SIZE \/ s.f.cache_end >= s.f.file_size
  <2>1. CASE f.head = f.cache_end
    BY <1>2, <2>1, FetchWindow DEF KnownWindow
  <2>2. CASE f.head # f.cache_end
    BY <1>2, <1>3, <2>2 DEF KnownWindow
  <2> QED BY <2>1, <2>2
<1> HIDE DEF s
<1>5. /\ s.f.head \in Nat /\ s.f.cache_start \in Nat /\ s.f.cache_end \in Nat
      /\ s.d \in Seq(Octet) /\ s.f \in FileRecords
  BY <1>4 DEF States, FileRecords
<1>6. k \in Nat /\ s.f.head + k <= s.f.cache_end /\ k <= left
  BY <1>2, <1>4, <1>5 DEF check_invariants, Lesser
<1> HIDE DEF k
<1>7. /\ u \in States /\ u.d = s.d /\ u.f.head = s.f.head + k
      /\ u.f.cache_start = s.f.cache_start /\ u.f.cache_end = s.f.cache_end
      /\ u.f.file_size = s.f.file_size
  BY <1>4, <1>6, Advance
<1> HIDE DEF u
<1>8. disk' = s.d /\ f' = u.f /\ mode' \in {"idle", "read"} /\ left' \in Nat
  BY <1>1, <1>2, <1>6, <1>7 DEF Becomes, s, k, u, ReadGoesOn
<1>9. check_invariants(f') /\ f'.cache_end <= f'.cache_start + CACHE_SIZE
  BY <1>3, <1>4, <1>5, <1>6, <1>7, <1>8, SMTT(30) DEF check_invariants
<1>10. FileType'
  BY <1>2, <1>5, <1>7, <1>8 DEF FileType, States
<1>11. f.file_size <= Len(disk) => f'.file_size <= Len(disk')
  <2>1. Len(disk') \in Nat /\ Len(disk') >= Len(disk) /\ f'.file_size = f.file_size
    BY <1>4, <1>5, <1>7, <1>8
  <2> QED BY <1>3, <2>1
<1>12. role # "any" => KnownWindow'
  BY <1>2, <1>4, <1>7, <1>8, <1>9, <1>11 DEF KnownWindow
<1> QED BY <1>2, <1>8, <1>9, <1>10, <1>12 DEF WindowInv

\* A flush that succeeds.
LEMMA FlushWindow ==
    ASSUME FileType, NEW n \in WriteOutcomes, n # Fail
    PROVE  LET u == io300_flush(Here, n)
           IN  /\ u \in States /\ Len(u.d) >= Len(disk) /\ u.f.head = f.head
               /\ u.f.cache_start = f.head /\ u.f.cache_end = f.cache_end + CACHE_SIZE
               /\ u.f.file_size = f.file_size
<1>1. Here \in States /\ Here.d = disk /\ Here.f = f
  BY HereStates
<1>2. n \in Nat
  BY Outcomes
<1> QED BY <1>1, <1>2, Flushes

\* Writing a byte.
LEMMA WritecWindow ==
    ASSUME WindowInv, ReadFaultsApart, NEW b \in Bytes, io300_writec(b)
    PROVE  WindowInv'
<1>1. /\ FileType /\ mode = "idle" /\ check_invariants(f) /\ role # "reader"
      /\ role' = role /\ left' = left /\ (role # "any" => KnownWindow)
  BY DEF io300_writec, WindowInv, Ready, MayWrite
<1>2. /\ Here \in States /\ Here.d = disk /\ Here.f = f /\ f.head \in Nat /\ f.cache_end \in Nat
      /\ f.cache_start \in Nat /\ f.file_size \in Nat /\ CACHE_SIZE \in Nat \ {0} /\ Len(disk) \in Nat
  BY <1>1, HereStates
<1>3. CASE UNCHANGED <<disk, f, mode>>
  BY <1>1, <1>3 DEF WindowInv, KnownWindow, FileType, check_invariants
\* From a state with the window that the byte is stored in.
<1>4. ASSUME NEW s \in States, s.f.head - s.f.cache_start \in Index,
             s.f.file_size = f.file_size, Len(s.d) >= Len(disk), WritecPuts(s, b),
             role # "any" =>
               /\ s.f.head < s.f.cache_end /\ s.f.cache_end <= s.f.cache_start + CACHE_SIZE
               /\ s.f.cache_end = s.f.cache_start + CACHE_SIZE \/ s.f.cache_end >= s.f.file_size
      PROVE  WindowInv'
  <2> DEFINE o == s.f.head - s.f.cache_start
             c == [j \in Index |-> IF j = o THEN b ELSE s.f.cache[j]]
             u == Put(s, c, 1)
  <2>1. s.d \in Seq(Octet) /\ s.f \in FileRecords
    BY <1>4 DEF States
  <2>2. s.f.head \in Nat /\ s.f.cache_start \in Nat /\ s.f.cache_end \in Nat /\ s.f.cache \in Caches
    BY <2>1 DEF FileRecords
  <2>3. b \in Octet
    BY FileAssumption DEF Octet
  <2>4. c \in Caches
    BY <2>2, <2>3 DEF Caches
  <2>5. disk' = u.d /\ f' = u.f /\ mode' = "idle"
    BY <1>4 DEF WritecPuts, Becomes, Put
  <2> HIDE DEF c
  <2>6. /\ u \in States /\ u.d = s.d /\ u.f.head = s.f.head + 1
        /\ u.f.cache_start = s.f.cache_start /\ u.f.cache_end = s.f.cache_end
        /\ u.f.file_size = s.f.file_size
    <3>1. s \in States /\ 1 \in Nat
      BY <1>4
    <3>2. IsPut(u, s, c, 1)
      BY <2>4, <3>1, PutIn
    <3> HIDE DEF u
    <3> QED BY <3>2 DEF IsPut
  <2> HIDE DEF u
  <2>7. FileType'
    BY <1>1, <2>1, <2>5, <2>6 DEF FileType, States
  <2>8. f.file_size <= Len(disk) => f'.file_size <= Len(disk')
    <3>1. Len(disk') \in Nat /\ Len(disk') >= Len(disk) /\ f'.file_size = f.file_size
      BY <1>4, <2>1, <2>5, <2>6
    <3> QED BY <1>2, <3>1
  <2>9. s.f.cache_start <= s.f.head
    BY <1>4, <2>2, CacheAssumption DEF Index
  <2>10. role # "any" => check_invariants(f')
    <3>1. role # "any" => s.f.head < s.f.cache_end /\ s.f.cache_end <= s.f.cache_start + CACHE_SIZE
      BY <1>4
    <3> QED BY <1>2, <2>2, <2>5, <2>6, <2>9, <3>1, SMTT(30) DEF check_invariants
  <2>11. role # "any" => KnownWindow'
    BY <1>1, <1>4, <2>5, <2>6, <2>8, <2>10 DEF KnownWindow
  <2> QED BY <1>1, <2>5, <2>7, <2>11 DEF WindowInv
<1>5. CASE f.head # f.cache_end /\ WritecPuts(Here, b)
  <2>1. f.head - f.cache_start \in Index /\ f.head < f.cache_end
    BY <1>1, <1>2, <1>5 DEF check_invariants, Index
  <2> QED BY <1>1, <1>2, <1>4, <1>5, <2>1 DEF KnownWindow
<1>6. ASSUME f.head = f.cache_end, f.head < Len(disk),
             NEW n \in WriteOutcomes, NEW ok \in ReadOutcomes, WritecPuts(io300_fetch(Here, n, ok), b)
      PROVE  WindowInv'
  <2> DEFINE s == io300_fetch(Here, n, ok)
  <2>1. /\ s \in States /\ check_invariants(s.f) /\ Len(s.d) >= Len(disk) /\ s.f.file_size = f.file_size
        /\ s.f.cache_start = s.f.head
        /\ role # "any" =>
             /\ f.file_size <= Len(disk) =>
                  s.f.cache_end = s.f.cache_start + CACHE_SIZE \/ s.f.cache_end >= s.f.file_size
             /\ s.f.head < s.f.cache_end
    BY <1>1, <1>6, FetchWindow
  <2>2. WritecPuts(s, b)
    BY <1>6
  <2> HIDE DEF s
  <2>3. /\ s.f.head \in Nat /\ s.f.cache_start \in Nat /\ s.f.cache_end \in Nat
    BY <2>1 DEF States, FileRecords
  <2>4. s.f.head - s.f.cache_start \in Index /\ s.f.cache_end <= s.f.cache_start + CACHE_SIZE
    BY <1>2, <2>1, <2>3 DEF Index, check_invariants
  <2> QED BY <1>1, <1>4, <2>1, <2>2, <2>4 DEF KnownWindow
<1>7. ASSUME f.head = f.cache_end, NEW n \in WriteOutcomes, n # Fail, WritecPuts(io300_flush(Here, n), b)
      PROVE  WindowInv'
  <2> DEFINE s == io300_flush(Here, n)
  <2>1. /\ s \in States /\ Len(s.d) >= Len(disk) /\ s.f.head = f.head /\ s.f.cache_start = f.head
        /\ s.f.cache_end = f.head + CACHE_SIZE /\ s.f.file_size = f.file_size
    BY <1>1, <1>7, FlushWindow
  <2>2. WritecPuts(s, b)
    BY <1>7
  <2> HIDE DEF s
  <2>3. /\ s.f.head - s.f.cache_start \in Index /\ s.f.head < s.f.cache_end
        /\ s.f.cache_end <= s.f.cache_start + CACHE_SIZE /\ s.f.cache_end = s.f.cache_start + CACHE_SIZE
    BY <1>2, <2>1 DEF Index
  <2> QED BY <1>4, <2>1, <2>2, <2>3
<1> QED
  BY <1>3, <1>5, <1>6, <1>7 DEF io300_writec

\* In the loop of io300_write the assertion of io300_fetch holds, for the
\* repository's programs.
LEMMA WriteAsserts ==
    ASSUME WindowInv, role # "any", WriteFetches
    PROVE  check_invariants(f)
<1>1. /\ FileType /\ KnownWindow /\ mode = "write" /\ role # "reader" /\ f.head < f.file_size
      /\ f.head = f.cache_start + CACHE_SIZE
  BY DEF WindowInv, WriteFetches, WriteFull, KnownWindow
<1>2. /\ f.head \in Nat /\ f.cache_end \in Nat /\ f.cache_start \in Nat /\ f.file_size \in Nat
      /\ CACHE_SIZE \in Nat \ {0}
  BY <1>1, HereStates
<1> QED BY <1>1, <1>2 DEF KnownWindow, check_invariants

\* Writing a block, one window at a time.
LEMMA WriteWindow ==
    ASSUME WindowInv, ReadFaultsApart, NEW b \in Bytes, io300_write(b)
    PROVE  WindowInv'
<1>1. PICK n \in WriteOutcomes, ok \in ReadOutcomes :
        LET s == IF ~ WriteFull THEN Here
                 ELSE IF f.head < f.file_size THEN io300_fetch(Here, n, ok)
                 ELSE io300_flush([Here EXCEPT !.f.cache_end = f.head], n)
            o == s.f.head - s.f.cache_start
            k == Lesser(left, CACHE_SIZE - o)
        IN  /\ WriteFull /\ f.head >= f.file_size => n # Fail
            /\ Becomes([s EXCEPT
                 !.f.cache = [i \in Index |-> IF i \in o .. o + k - 1 THEN b ELSE @[i]],
                 !.f.head = @ + k, !.f.dirty = TRUE])
            /\ ret' = ret + k /\ left' = left - k
  BY DEF io300_write
<1> DEFINE h == [Here EXCEPT !.f.cache_end = f.head]
           s == IF ~ WriteFull THEN Here
                ELSE IF f.head < f.file_size THEN io300_fetch(Here, n, ok)
                ELSE io300_flush(h, n)
           o == s.f.head - s.f.cache_start
           k == Lesser(left, CACHE_SIZE - o)
           c == [i \in Index |-> IF i \in o .. o + k - 1 THEN b ELSE s.f.cache[i]]
           u == Put(s, c, k)
<1>2. /\ FileType /\ mode = "write" /\ mode' = mode /\ role' = role /\ left \in Nat /\ left > 0
      /\ f.cache_start <= f.head /\ f.head <= f.cache_start + CACHE_SIZE
      /\ (role # "any" => KnownWindow) /\ (WriteFetches => check_invariants(f))
  BY DEF io300_write, WindowInv, FileType
<1>3. /\ Here \in States /\ Here.d = disk /\ Here.f = f /\ f.head \in Nat /\ f.cache_end \in Nat
      /\ f.cache_start \in Nat /\ f.file_size \in Nat /\ CACHE_SIZE \in Nat \ {0} /\ Len(disk) \in Nat
  BY <1>2, HereStates
<1>4. /\ s \in States /\ s.f.file_size = f.file_size /\ Len(s.d) >= Len(disk)
      /\ s.f.cache_start <= s.f.head /\ s.f.head <= s.f.cache_start + CACHE_SIZE
      /\ role # "any" =>
           /\ s.f.cache_end <= s.f.cache_start + CACHE_SIZE
           /\ s.f.cache_end = s.f.cache_start + CACHE_SIZE \/ s.f.cache_end >= s.f.file_size
  <2>1. CASE ~ WriteFull
    BY <1>2, <1>3, <2>1 DEF KnownWindow
  <2>2. CASE WriteFull /\ f.head < f.file_size
    <3>1. s = io300_fetch(Here, n, ok)
      BY <2>2
    <3> HIDE DEF s
    <3>2. check_invariants(f)
      BY <1>2, <2>2 DEF WriteFetches
    <3>3. f.head = f.cache_end
      BY <1>3, <2>2, <3>2 DEF check_invariants, WriteFull
    <3>4. /\ s \in States /\ check_invariants(s.f) /\ Len(s.d) >= Len(disk) /\ s.f.file_size = f.file_size
          /\ role \notin {"reader", "any"} /\ f.file_size <= Len(disk) =>
               s.f.cache_end = s.f.cache_start + CACHE_SIZE \/ s.f.cache_end >= s.f.file_size
      BY <1>2, <3>1, <3>2, <3>3, FetchWindow
    <3>5. s.f.head \in Nat /\ s.f.cache_start \in Nat /\ s.f.cache_end \in Nat
      BY <3>4 DEF States, FileRecords
    <3>6. /\ s.f.cache_start <= s.f.head /\ s.f.head <= s.f.cache_start + CACHE_SIZE
          /\ s.f.cache_end <= s.f.cache_start + CACHE_SIZE
      BY <1>3, <3>4, <3>5, SMTT(30) DEF check_invariants
    <3> QED BY <1>2, <3>4, <3>6 DEF KnownWindow
  <2>3. CASE WriteFull /\ ~ f.head < f.file_size
    <3>1. s = io300_flush(h, n) /\ n \in Nat
      <4>1. n # Fail
        BY <1>1, <1>3, <2>3
      <4> QED BY <2>3, <4>1, Outcomes
    <3>2. /\ h \in States /\ h.f.head = f.head /\ h.f.cache_end = f.head /\ h.d = disk
          /\ h.f.file_size = f.file_size
      BY <1>3 DEF States, FileRecords
    <3> HIDE DEF s, h
    <3>3. /\ s \in States /\ Len(s.d) >= Len(disk) /\ s.f.head = f.head /\ s.f.cache_start = f.head
          /\ s.f.cache_end = f.head + CACHE_SIZE /\ s.f.file_size = f.file_size
      <4> DEFINE w == io300_flush(h, n)
      <4>1. /\ w \in States /\ Len(w.d) >= Len(h.d) /\ w.f.head = h.f.head /\ w.f.cache_start = h.f.head
            /\ w.f.cache_end = h.f.cache_end + CACHE_SIZE /\ w.f.file_size = h.f.file_size
        BY <3>1, <3>2, Flushes
      <4> HIDE DEF w
      <4>2. s = w
        BY <3>1 DEF w
      <4> QED BY <3>2, <4>1, <4>2
    <3> QED BY <1>3, <3>3
  <2> QED BY <2>1, <2>2, <2>3
<1>5. disk' = u.d /\ f' = u.f /\ left' = left - k
  BY <1>1 DEF Becomes, Put
<1> HIDE DEF s
<1>6. /\ s.f.head \in Nat /\ s.f.cache_start \in Nat /\ s.f.cache_end \in Nat
      /\ s.d \in Seq(Octet) /\ s.f.cache \in Caches
  BY <1>4 DEF States, FileRecords
<1>7. k \in Nat /\ k <= left /\ s.f.head + k <= s.f.cache_start + CACHE_SIZE
  <2>1. left \in Nat /\ CACHE_SIZE \in Nat
    BY <1>2, <1>3
  <2>2. s.f.cache_start <= s.f.head /\ s.f.head <= s.f.cache_start + CACHE_SIZE
    BY <1>4
  <2> QED BY <1>6, <2>1, <2>2, SMTT(30) DEF Lesser
<1>8. c \in Caches
  <2>1. b \in Octet
    BY FileAssumption DEF Octet
  <2> HIDE DEF o, k
  <2> QED BY <1>6, <2>1 DEF Caches
<1> HIDE DEF c, k, o
<1>9. /\ u \in States /\ u.d = s.d /\ u.f.head = s.f.head + k
      /\ u.f.cache_start = s.f.cache_start /\ u.f.cache_end = s.f.cache_end
      /\ u.f.file_size = s.f.file_size
  <2>1. IsPut(u, s, c, k)
    BY <1>4, <1>7, <1>8, PutIn
  <2> HIDE DEF u
  <2> QED BY <2>1 DEF IsPut
<1> HIDE DEF u
<1>10. FileType'
  BY <1>2, <1>5, <1>6, <1>7, <1>9 DEF FileType, States
<1>11. f'.cache_start <= f'.head /\ f'.head <= f'.cache_start + CACHE_SIZE
  BY <1>3, <1>4, <1>5, <1>6, <1>7, <1>9
<1>12. f.file_size <= Len(disk) => f'.file_size <= Len(disk')
  <2>1. Len(disk') \in Nat /\ Len(disk') >= Len(disk) /\ f'.file_size = f.file_size
    BY <1>4, <1>5, <1>6, <1>9
  <2> QED BY <1>3, <2>1
<1>13. role # "any" => KnownWindow'
  BY <1>2, <1>4, <1>5, <1>9, <1>12 DEF KnownWindow
<1> QED BY <1>2, <1>10, <1>11, <1>13 DEF WindowInv

\* The ends of the loops.
LEMMA EndsWindow ==
    ASSUME WindowInv, ReadDone \/ WriteFails \/ WriteDone PROVE WindowInv'
<1>1. /\ FileType /\ role' = role /\ disk' = disk /\ mode' = "idle" /\ left' \in Nat
      /\ (role # "any" => KnownWindow) /\ mode # "closed"
  BY DEF ReadDone, WriteFails, WriteDone, WindowInv, FileType
<1>2. /\ f.head \in Nat /\ f.cache_end \in Nat /\ f.cache_start \in Nat /\ f.file_size \in Nat
      /\ CACHE_SIZE \in Nat \ {0} /\ Len(disk) \in Nat /\ f \in FileRecords
  BY <1>1, HereStates
<1>3. CASE f' = f /\ check_invariants(f)
  BY <1>1, <1>3 DEF WindowInv, KnownWindow, FileType, check_invariants
<1>4. ASSUME mode = "write", NEW e \in Nat, f' = [f EXCEPT !.cache_end = e], f.head <= e,
             e <= f.cache_start + CACHE_SIZE, e = f.cache_start + CACHE_SIZE \/ e >= f.file_size
      PROVE  WindowInv'
  <2>1. /\ f' \in FileRecords /\ f'.head = f.head /\ f'.cache_start = f.cache_start
        /\ f'.cache_end = e /\ f'.file_size = f.file_size
    BY <1>2, <1>4 DEF FileRecords
  <2>2. f.cache_start <= f.head /\ (role # "any" => f.file_size <= Len(disk))
    BY <1>1, <1>4 DEF WindowInv, KnownWindow
  <2>3. FileType'
    BY <1>1, <2>1 DEF FileType
  <2>4. role # "any" => KnownWindow'
    BY <1>1, <1>2, <1>4, <2>1, <2>2 DEF KnownWindow, check_invariants
  <2> QED BY <1>1, <2>3, <2>4 DEF WindowInv
<1>5. CASE ReadDone
  BY <1>3, <1>5 DEF ReadDone, WindowInv
<1>6. CASE WriteFails
  <2>1. /\ mode = "write" /\ f' = [f EXCEPT !.cache_end = f.head] /\ f.head >= f.file_size
        /\ f.head = f.cache_start + CACHE_SIZE
    BY <1>6 DEF WriteFails, WriteFull
  <2> QED BY <1>2, <1>4, <2>1
<1>7. CASE WriteDone
  <2>1. mode = "write" /\ f' = Extended
    BY <1>7 DEF WriteDone
  <2>2. f.cache_start <= f.head /\ f.head <= f.cache_start + CACHE_SIZE
    BY <2>1 DEF WindowInv
  <2>3. CASE f.cache_end < f.head
    <3>1. f' = [f EXCEPT !.cache_end = f.cache_start + CACHE_SIZE]
      BY <2>1, <2>3 DEF Extended
    <3> QED BY <1>2, <1>4, <2>1, <2>2, <3>1
  <2>4. CASE ~ f.cache_end < f.head
    <3>1. f' = f
      BY <2>1, <2>4 DEF Extended
    <3>2. role # "any" => check_invariants(f)
      BY <1>1, <1>2, <2>2, <2>4 DEF KnownWindow, check_invariants
    <3> QED BY <1>1, <3>1, <3>2 DEF WindowInv, KnownWindow, FileType, check_invariants
  <2> QED BY <2>3, <2>4
<1> QED BY <1>5, <1>6, <1>7

\* Every step keeps it.
LEMMA WindowNext ==
    ASSUME WindowInv, ReadFaultsApart, [Next]_iovars PROVE WindowInv'
<1>1. CASE UNCHANGED iovars
  BY <1>1 DEF iovars, WindowInv, KnownWindow, FileType, check_invariants
<1>2. CASE io300_filesize
  BY <1>2 DEF io300_filesize, WindowInv, KnownWindow, FileType, check_invariants
<1>3. CASE Flush
  <2>1. PICK n \in WriteOutcomes : Becomes(io300_flush(Here, n))
    BY <1>3 DEF Flush
  <2>2. FileType /\ role = "any" /\ mode = "idle" /\ UNCHANGED <<mode, role, left>>
    BY <1>3 DEF Flush, WindowInv, Ready
  <2>3. n = Fail => io300_flush(Here, n) = Here
    BY DEF io300_flush
  <2>4. io300_flush(Here, n) \in States
    BY <2>2, <2>3, FlushWindow, HereStates
  <2>5. FileType'
    BY <2>1, <2>2, <2>4 DEF Becomes, States, FileType
  <2> QED BY <2>2, <2>5 DEF WindowInv
<1>4. ASSUME NEW n \in Sizes, Read(n) \/ Write(n) PROVE WindowInv'
  <2>1. /\ FileType /\ mode = "idle" /\ UNCHANGED <<disk, f, role>> /\ left' = n /\ mode' \in {"read", "write"}
        /\ check_invariants(f) /\ (role # "any" => KnownWindow) /\ (mode' = "write" => role # "reader")
    BY <1>4 DEF Read, Write, WindowInv, Ready, MayWrite
  <2>2. FileType'
    BY <2>1, FileAssumption DEF FileType
  <2>3. f.head <= f.cache_start + CACHE_SIZE
    BY <2>1, HereStates DEF check_invariants
  <2>4. check_invariants(f)' /\ (mode' = "write" => f'.cache_start <= f'.head /\ f'.head <= f'.cache_start + CACHE_SIZE)
    BY <2>1, <2>3 DEF check_invariants
  <2>5. role # "any" => KnownWindow'
    BY <2>1, <2>4 DEF KnownWindow
  <2> QED BY <2>1, <2>2, <2>4, <2>5 DEF WindowInv
<1>5. CASE Abort
  <2>1. role = "any"
    BY <1>5, WriteAsserts DEF Abort, WindowInv, KnownWindow
  <2> QED BY <1>5, <2>1 DEF Abort, WindowInv, FileType
<1>6. Written \subseteq Bytes
  BY FileAssumption DEF Written
<1>7. CASE Stopped
  BY <1>1, <1>7 DEF Stopped
<1> QED
  BY <1>1, <1>2, <1>3, <1>4, <1>5, <1>6, <1>7, OpenWindow, CloseWindow, SeekWindow, ReadcWindow,
     ReadWindow, WritecWindow, WriteWindow, EndsWindow DEF Next

\* No file is open at first.
LEMMA InitWindow == ASSUME Init PROVE WindowInv
<1>1. disk \in Seq(Octet)
  BY FileAssumption DEF Init, Octet
<1>2. FileType
  BY <1>1, FreshFile DEF Init, FileType
<1> QED BY <1>2, FreshFile, CacheAssumption DEF Init, WindowInv, KnownWindow

(***************************************************************************)
(* student.c never stores outside of its cache, whatever its client does:  *)
(* an assertion stops it before, and none stops the repository's programs. *)
(***************************************************************************)
THEOREM InCache == ASSUME ReadFaultsApart PROVE Spec => []StaysInCache
<1>1. Init => WindowInv
  BY InitWindow
<1>2. WindowInv /\ [Next]_iovars => WindowInv'
  BY WindowNext
<1>3. WindowInv => StaysInCache
  <2> SUFFICES ASSUME WindowInv PROVE StaysInCache
    OBVIOUS
  <2>1. /\ f.head \in Nat /\ f.cache_end \in Nat /\ f.cache_start \in Nat /\ CACHE_SIZE \in Nat
    BY HereStates DEF WindowInv
  <2>2. mode # "wild"
    BY DEF WindowInv, FileType
  <2> QED BY <2>1, <2>2 DEF WindowInv, StaysInCache, check_invariants
<1> QED
  BY <1>1, <1>2, <1>3, PTL DEF Spec

-----------------------------------------------------------------------------
(* What the client sees. *)

\* The disk d, with the bytes of the cache c from offset a up to h over it.
Laid(d, a, h, c) ==
    IF h = a THEN d
    ELSE [i \in 1 .. Greater(Len(d), h) |->
            IF i \in a + 1 .. h THEN c[i - 1 - a] ELSE IF i <= Len(d) THEN d[i] ELSE Hole]

\* The byte of it at i.
LaidAt(d, a, h, c, i) ==
    IF i \in a + 1 .. h THEN c[i - 1 - a] ELSE IF i <= Len(d) THEN d[i] ELSE Hole

\* It is a sequence of these bytes.
LEMMA LaidIs ==
    ASSUME NEW d \in Seq(Octet), NEW c \in Caches, NEW a \in Nat, NEW h \in a .. a + CACHE_SIZE
    PROVE  /\ Laid(d, a, h, c) \in Seq(Octet)
           /\ Len(Laid(d, a, h, c)) = IF h = a THEN Len(d) ELSE Greater(Len(d), h)
           /\ \A i \in 1 .. Len(Laid(d, a, h, c)) : Laid(d, a, h, c)[i] = LaidAt(d, a, h, c, i)
<1>1. CACHE_SIZE \in Nat /\ h \in Nat /\ a <= h /\ h <= a + CACHE_SIZE /\ Len(d) \in Nat
  BY CacheAssumption
<1>2. CASE h = a
  <2>1. Laid(d, a, h, c) = d
    BY <1>2 DEF Laid
  <2>2. \A i \in 1 .. Len(d) : LaidAt(d, a, h, c, i) = d[i]
    BY <1>1, <1>2 DEF LaidAt
  <2> QED BY <1>2, <2>1, <2>2
<1>3. CASE h # a
  <2> DEFINE m == Greater(Len(d), h)
  <2>1. m \in Nat /\ m >= h /\ m >= Len(d)
    BY <1>1 DEF Greater
  <2> HIDE DEF m
  <2>2. Laid(d, a, h, c) = [i \in 1 .. m |-> LaidAt(d, a, h, c, i)]
    BY <1>3 DEF Laid, LaidAt, m
  <2>3. ASSUME NEW i \in 1 .. m PROVE LaidAt(d, a, h, c, i) \in Octet
    <3>1. i \in a + 1 .. h => c[i - 1 - a] \in Octet
      BY <1>1, CacheAssumption DEF Caches, Index
    <3>2. i <= Len(d) => d[i] \in Octet
      BY <1>1, <2>1
    <3>3. Hole \in Octet
      BY FileAssumption DEF Octet
    <3> QED BY <3>1, <3>2, <3>3 DEF LaidAt
  <2>4. /\ [i \in 1 .. m |-> LaidAt(d, a, h, c, i)] \in Seq(Octet)
        /\ Len([i \in 1 .. m |-> LaidAt(d, a, h, c, i)]) = m
    BY <2>1, <2>3
  <2> QED BY <1>3, <2>2, <2>4 DEF m
<1> QED BY <1>2, <1>3

\* It is what pwrite makes of the first of the bytes behind the position.
LEMMA PartLaid ==
    ASSUME NEW d \in Seq(Octet), NEW g \in FileRecords, g.cache_start <= g.head,
           g.head <= g.cache_start + CACHE_SIZE, NEW n \in Nat
    PROVE  Pwrite(d, g.cache_start, Behind(g), n)
            = Laid(d, g.cache_start, g.cache_start + Lesser(n, g.head - g.cache_start), g.cache)
<1> DEFINE a == g.cache_start
           k == Lesser(n, g.head - a)
           h == a + k
           bs == Behind(g)
<1>1. /\ a \in Nat /\ g.head \in Nat /\ g.cache \in Caches /\ CACHE_SIZE \in Nat \ {0}
      /\ a <= g.head /\ g.head <= a + CACHE_SIZE /\ Len(d) \in Nat
  BY CacheAssumption DEF FileRecords
<1>2. bs = [i \in 1 .. g.head - a |-> CacheAt(g, i - 1)]
  BY DEF Behind
<1>3. k \in Nat /\ k <= g.head - a
  BY <1>1 DEF Lesser
<1> HIDE DEF a, bs
<1>4. Len(bs) = g.head - a
  BY <1>1, <1>2
<1>5. Lesser(n, Len(bs)) = k
  BY <1>4
<1> HIDE DEF k
<1>6. \A i \in a + 1 .. h : bs[i - a] = g.cache[i - 1 - a]
  <2> SUFFICES ASSUME NEW i \in a + 1 .. h PROVE bs[i - a] = g.cache[i - 1 - a]
    OBVIOUS
  <2>1. i - a \in 1 .. g.head - a /\ i - a - 1 \in Index /\ i - a - 1 = i - 1 - a
    BY <1>1, <1>3 DEF Index
  <2> QED BY <1>2, <2>1 DEF CacheAt
<1>7. CASE k = 0
  <2>1. h = a
    BY <1>1, <1>7
  <2>2. Pwrite(d, a, bs, n) = d
    BY <1>5, <1>7 DEF Pwrite
  <2> QED BY <2>1, <2>2 DEF Laid, a, k, bs
<1>8. CASE k # 0
  <2>1. h # a
    BY <1>1, <1>3, <1>8
  <2>2. Pwrite(d, a, bs, n) =
          [i \in 1 .. Greater(Len(d), h) |->
            IF i \in a + 1 .. h THEN bs[i - a] ELSE IF i <= Len(d) THEN d[i] ELSE Hole]
    BY <1>5, <1>8 DEF Pwrite
  <2>3. Pwrite(d, a, bs, n) = Laid(d, a, h, g.cache)
    BY <1>6, <2>1, <2>2 DEF Laid
  <2> QED BY <2>3 DEF a, k, bs
<1> QED BY <1>7, <1>8

\* Of all of them, if all are written.
LEMMA Overlaid ==
    ASSUME NEW d \in Seq(Octet), NEW g \in FileRecords, g.cache_start <= g.head,
           g.head <= g.cache_start + CACHE_SIZE
    PROVE  Pwrite(d, g.cache_start, Behind(g), All) = Laid(d, g.cache_start, g.head, g.cache)
<1>1. g.cache_start \in Nat /\ g.head \in Nat /\ CACHE_SIZE \in Nat /\ MaxLen \in Nat
  BY CacheAssumption, FileAssumption DEF FileRecords
<1>2. All \in Nat /\ g.cache_start + Lesser(All, g.head - g.cache_start) = g.head
  BY <1>1 DEF All, Lesser
<1> QED BY <1>2, PartLaid

\* Bytes that are on the disk as well change nothing.
LEMMA LaidSame ==
    ASSUME NEW d \in Seq(Octet), NEW c \in Caches, NEW a \in Nat, NEW h \in a .. a + CACHE_SIZE,
           NEW k \in Nat, h + k <= a + CACHE_SIZE,
           \A i \in h .. h + k - 1 : i < Len(d) /\ c[i - a] = d[i + 1]
    PROVE  Laid(d, a, h + k, c) = Laid(d, a, h, c)
<1> DEFINE x == Laid(d, a, h + k, c)
           y == Laid(d, a, h, c)
<1>1. CACHE_SIZE \in Nat /\ h \in Nat /\ a <= h /\ h <= a + CACHE_SIZE /\ Len(d) \in Nat
  BY CacheAssumption
<1>2. /\ x \in Seq(Octet) /\ Len(x) = (IF h + k = a THEN Len(d) ELSE Greater(Len(d), h + k))
      /\ \A i \in 1 .. Len(x) : x[i] = LaidAt(d, a, h + k, c, i)
  <2>1. h + k \in a .. a + CACHE_SIZE
    BY <1>1
  <2> QED BY <2>1, LaidIs
<1>3. /\ y \in Seq(Octet) /\ Len(y) = (IF h = a THEN Len(d) ELSE Greater(Len(d), h))
      /\ \A i \in 1 .. Len(y) : y[i] = LaidAt(d, a, h, c, i)
  BY LaidIs
<1> HIDE DEF x, y
<1>4. k > 0 => h + k <= Len(d)
  <2> SUFFICES ASSUME k > 0 PROVE h + k <= Len(d)
    OBVIOUS
  <2>1. h + k - 1 \in h .. h + k - 1
    BY <1>1
  <2>2. h + k - 1 < Len(d)
    BY <2>1
  <2> QED BY <1>1, <2>2
<1>5. Len(x) = Len(y)
  <2>1. CASE k = 0
    BY <1>1, <1>2, <1>3, <2>1
  <2>2. CASE k > 0
    <3>1. h + k <= Len(d) /\ h + k # a /\ h <= Len(d)
      BY <1>1, <1>4, <2>2
    <3>2. Greater(Len(d), h + k) = Len(d) /\ Greater(Len(d), h) = Len(d)
      BY <1>1, <3>1 DEF Greater
    <3> QED BY <1>2, <1>3, <3>1, <3>2
  <2> QED BY <2>1, <2>2
<1>6. ASSUME NEW i \in 1 .. Len(x) PROVE x[i] = y[i]
  <2>1. x[i] = LaidAt(d, a, h + k, c, i) /\ y[i] = LaidAt(d, a, h, c, i)
    BY <1>2, <1>3, <1>5
  <2>2. CASE i \in h + 1 .. h + k
    <3>1. i - 1 \in h .. h + k - 1 /\ i - 1 + 1 = i
      BY <1>1, <2>2
    <3>2. i - 1 < Len(d) /\ c[i - 1 - a] = d[i]
      BY <3>1
    <3>3. i \in a + 1 .. h + k /\ ~ i \in a + 1 .. h /\ i <= Len(d)
      BY <1>1, <2>2, <3>2
    <3> QED BY <2>1, <3>2, <3>3 DEF LaidAt
  <2>3. CASE i \notin h + 1 .. h + k
    <3>1. i \in a + 1 .. h + k <=> i \in a + 1 .. h
      BY <1>1, <2>3
    <3> QED BY <2>1, <3>1 DEF LaidAt
  <2> QED BY <2>2, <2>3
<1>7. x = y
  BY <1>2, <1>3, <1>5, <1>6, SeqEqual
<1> QED BY <1>7 DEF x, y

\* The cache e is c with k bytes put at o.
PutAt(e, c, o, k, b) == \A j \in Index : e[j] = IF j \in o .. o + k - 1 THEN b ELSE c[j]

\* Bytes put at the position are stored there.
LEMMA LaidPut ==
    ASSUME NEW d \in Seq(Octet), NEW c \in Caches, NEW e \in Caches, NEW b \in Octet,
           NEW a \in Nat, NEW h \in a .. a + CACHE_SIZE, NEW k \in Nat \ {0}, h + k <= a + CACHE_SIZE,
           PutAt(e, c, h - a, k, b)
    PROVE  Laid(d, a, h + k, e) = Plain!Store(Laid(d, a, h, c), h, [i \in 1 .. k |-> b])
<1> DEFINE x == Laid(d, a, h + k, e)
           y == Laid(d, a, h, c)
           bs == [i \in 1 .. k |-> b]
           z == Plain!Store(y, h, bs)
           m == Greater(Len(y), h + k)
           at(i) == IF i \in h + 1 .. h + k THEN b ELSE IF i <= Len(y) THEN y[i] ELSE Hole
<1>1. CACHE_SIZE \in Nat /\ h \in Nat /\ a <= h /\ h <= a + CACHE_SIZE /\ Len(d) \in Nat
  BY CacheAssumption
<1>2. /\ x \in Seq(Octet) /\ Len(x) = Greater(Len(d), h + k)
      /\ \A i \in 1 .. Len(x) : x[i] = LaidAt(d, a, h + k, e, i)
  <2>1. h + k \in a .. a + CACHE_SIZE /\ h + k # a
    BY <1>1
  <2> QED BY <2>1, LaidIs
<1>3. /\ y \in Seq(Octet) /\ Len(y) = (IF h = a THEN Len(d) ELSE Greater(Len(d), h))
      /\ \A i \in 1 .. Len(y) : y[i] = LaidAt(d, a, h, c, i)
  BY LaidIs
<1> HIDE DEF x, y
<1>4. Len(bs) = k /\ bs # <<>> /\ \A i \in h + 1 .. h + k : bs[i - h] = b
  BY <1>1
<1> HIDE DEF bs
<1>5. z = [i \in 1 .. m |-> at(i)]
  BY <1>4 DEF Plain!Store, Greater
<1>6. m \in Nat /\ Len(y) \in Nat /\ m = Len(x)
  BY <1>1, <1>2, <1>3 DEF Greater
<1>7. ASSUME NEW i \in 1 .. m PROVE x[i] = at(i)
  <2>1. x[i] = LaidAt(d, a, h + k, e, i)
    BY <1>2, <1>6
  <2>2. CASE i \in h + 1 .. h + k
    <3>1. i \in a + 1 .. h + k /\ i - 1 - a \in Index /\ i - 1 - a \in h - a .. h - a + k - 1
      BY <1>1, <2>2 DEF Index
    <3>2. e[i - 1 - a] = b
      BY <3>1 DEF PutAt
    <3> QED BY <2>1, <2>2, <3>1, <3>2 DEF LaidAt
  <2>3. CASE i \in a + 1 .. h
    <3>1. /\ i \in a + 1 .. h + k /\ i - 1 - a \in Index /\ i - 1 - a \notin h - a .. h - a + k - 1
          /\ i \notin h + 1 .. h + k /\ h # a
      BY <1>1, <2>3 DEF Index
    <3>2. e[i - 1 - a] = c[i - 1 - a]
      BY <3>1 DEF PutAt
    <3>3. i \in 1 .. Len(y) /\ i <= Len(y)
      BY <1>1, <1>3, <2>3, <3>1 DEF Greater
    <3>4. y[i] = c[i - 1 - a]
      BY <1>3, <2>3, <3>3 DEF LaidAt
    <3> QED BY <2>1, <3>1, <3>2, <3>3, <3>4 DEF LaidAt
  <2>4. CASE i \notin a + 1 .. h + k
    <3>1. i \notin h + 1 .. h + k /\ i \notin a + 1 .. h
      BY <1>1, <2>4
    <3>2. x[i] = IF i <= Len(d) THEN d[i] ELSE Hole
      BY <2>1, <2>4 DEF LaidAt
    <3>3. CASE i <= Len(y)
      <4>1. y[i] = IF i <= Len(d) THEN d[i] ELSE Hole
        BY <1>3, <1>6, <3>1, <3>3 DEF LaidAt
      <4> QED BY <3>1, <3>2, <3>3, <4>1
    <3>4. CASE ~ i <= Len(y)
      <4>1. ~ i <= Len(d)
        BY <1>1, <1>3, <1>6, <3>4 DEF Greater
      <4> QED BY <3>1, <3>2, <3>4, <4>1
    <3> QED BY <3>3, <3>4
  <2> QED BY <1>1, <2>2, <2>3, <2>4
<1>8. x = z
  <2> HIDE DEF at, m
  <2>1. x = [i \in 1 .. m |-> x[i]]
    BY <1>2, <1>6
  <2> QED BY <1>5, <1>7, <2>1
<1> QED BY <1>8 DEF x, y, bs, z

\* The file as the client sees it, in the state s.
View(s) == IF s.f.dirty THEN Laid(s.d, s.f.cache_start, s.f.head, s.f.cache) ELSE s.d

\* What was not written is as on the disk d: the bytes of the window behind
\* the position and those from the position on.
Clean(d, g) ==
    ~ g.dirty => \A i \in g.cache_start .. g.head - 1 :
                    i < Len(d) /\ g.cache[i - g.cache_start] = d[i + 1]
Ahead(d, g) ==
    \A i \in g.head .. g.cache_end - 1 : i < Len(d) /\ g.cache[i - g.cache_start] = d[i + 1]

SeenInv ==
    /\ buff \in Seq(Octet) /\ ret \in Int
    /\ mode = "closed" => f = NoFile
    /\ IF InCall THEN \E n \in Sizes : left <= n ELSE left = 0
    /\ mode = "read" => ~ Appends
    /\ role = "reader" => ~ f.dirty
    /\ Clean(disk, f)
    /\ mode # "closed" /\ ~ Appends =>
            f.file_size = Len(disk) /\ f.head <= Len(disk) /\ Ahead(disk, f)
    /\ mode = "write" /\ role = "inplace" => f.head + left <= f.file_size

\* The programs of the repository, for which at most reads fail.
OnlyReadersFail == "any" \notin Roles /\ \A x \in Faults : x[1] = "reader"

\* The position is not before the window, and not after the cache.
Bounded(g) == g.cache_start <= g.head /\ g.head <= g.cache_start + CACHE_SIZE

\* The parts of a state.
LEMMA Parts ==
    ASSUME NEW s \in States
    PROVE  /\ s.d \in Seq(Octet) /\ s.f \in FileRecords /\ Len(s.d) \in Nat
           /\ s.f.head \in Nat /\ s.f.cache_start \in Nat /\ s.f.cache_end \in Nat
           /\ s.f.cache \in Caches /\ s.f.dirty \in BOOLEAN /\ CACHE_SIZE \in Nat \ {0}
           /\ Bounded(s.f) => s.f.head \in s.f.cache_start .. s.f.cache_start + CACHE_SIZE
<1>1. /\ s.d \in Seq(Octet) /\ s.f \in FileRecords
  BY DEF States
<1>2. /\ s.f.head \in Nat /\ s.f.cache_start \in Nat /\ s.f.cache_end \in Nat
      /\ s.f.cache \in Caches /\ s.f.dirty \in BOOLEAN /\ CACHE_SIZE \in Nat \ {0}
  BY <1>1, CacheAssumption DEF FileRecords
<1>3. Bounded(s.f) => s.f.head \in s.f.cache_start .. s.f.cache_start + CACHE_SIZE
  BY <1>2 DEF Bounded
<1> QED BY <1>1, <1>2, <1>3

\* Where the position is at the start of the window, the disk is seen.
LEMMA ViewClean ==
    ASSUME NEW s \in States, Bounded(s.f), Clean(s.d, s.f)
    PROVE  /\ ~ s.f.dirty => s.d = Laid(s.d, s.f.cache_start, s.f.head, s.f.cache)
           /\ View(s) = Laid(s.d, s.f.cache_start, s.f.head, s.f.cache)
<1> DEFINE d == s.d
           a == s.f.cache_start
           h == s.f.head
           c == s.f.cache
           k == h - a
<1>1. /\ d \in Seq(Octet) /\ a \in Nat /\ c \in Caches /\ h \in Nat /\ a <= h /\ h <= a + CACHE_SIZE
      /\ CACHE_SIZE \in Nat
  BY Parts DEF Bounded
<1>2. ASSUME ~ s.f.dirty PROVE d = Laid(d, a, h, c)
  <2>1. \A i \in a .. h - 1 : i < Len(d) /\ c[i - a] = d[i + 1]
    BY <1>2 DEF Clean
  <2> HIDE DEF d, a, h, c
  <2>2. k \in Nat /\ a + k = h /\ a \in a .. a + CACHE_SIZE
    BY <1>1
  <2> HIDE DEF k
  <2>3. Laid(d, a, a + k, c) = Laid(d, a, a, c)
    <3>1. \A i \in a .. a + k - 1 : i < Len(d) /\ c[i - a] = d[i + 1]
      BY <2>1, <2>2
    <3>2. a + k <= a + CACHE_SIZE
      BY <1>1, <2>2
    <3> QED BY <1>1, <2>2, <3>1, <3>2, LaidSame
  <2>4. Laid(d, a, a, c) = d
    BY DEF Laid
  <2> QED BY <2>2, <2>3, <2>4
<1> QED BY <1>2 DEF View

\* What is ahead of the position is seen as it is in the cache.
LEMMA ViewAhead ==
    ASSUME NEW s \in States, Bounded(s.f), Ahead(s.d, s.f), s.f.head <= Len(s.d)
    PROVE  /\ View(s) \in Seq(Octet) /\ Len(View(s)) = Len(s.d)
           /\ \A i \in s.f.head .. s.f.cache_end - 1 :
                i + 1 \in 1 .. Len(s.d) /\ View(s)[i + 1] = s.f.cache[i - s.f.cache_start]
<1> DEFINE d == s.d
           a == s.f.cache_start
           h == s.f.head
           c == s.f.cache
           e == s.f.cache_end
           y == Laid(d, a, h, c)
<1>1. /\ d \in Seq(Octet) /\ a \in Nat /\ c \in Caches /\ h \in Nat /\ a <= h /\ h <= a + CACHE_SIZE
      /\ CACHE_SIZE \in Nat /\ e \in Nat /\ Len(d) \in Nat /\ h <= Len(d)
      /\ h \in a .. a + CACHE_SIZE
  BY Parts DEF Bounded
<1>2. \A i \in h .. e - 1 : i < Len(d) /\ c[i - a] = d[i + 1]
  BY DEF Ahead
<1>3. View(s) = IF s.f.dirty THEN y ELSE d
  BY DEF View
<1> HIDE DEF d, a, h, c, e
<1>4. /\ y \in Seq(Octet) /\ Len(y) = (IF h = a THEN Len(d) ELSE Greater(Len(d), h))
      /\ \A i \in 1 .. Len(y) : y[i] = LaidAt(d, a, h, c, i)
  BY <1>1, LaidIs
<1> HIDE DEF y
<1>5. Len(y) = Len(d)
  BY <1>1, <1>4 DEF Greater
<1>6. ASSUME NEW i \in h .. e - 1 PROVE i + 1 \in 1 .. Len(d) /\ y[i + 1] = d[i + 1] /\ c[i - a] = d[i + 1]
  <2>1. i < Len(d) /\ c[i - a] = d[i + 1]
    BY <1>2
  <2>2. i + 1 \in 1 .. Len(d) /\ i + 1 \notin a + 1 .. h /\ i + 1 <= Len(d)
    BY <1>1, <2>1
  <2>3. y[i + 1] = LaidAt(d, a, h, c, i + 1)
    BY <1>4, <1>5, <2>2
  <2> QED BY <2>1, <2>2, <2>3 DEF LaidAt
<1>7. CASE s.f.dirty
  BY <1>3, <1>4, <1>5, <1>6, <1>7 DEF d, a, h, c, e
<1>8. CASE ~ s.f.dirty
  BY <1>1, <1>3, <1>6, <1>8 DEF d, a, h, c, e
<1> QED BY <1>7, <1>8

\* Moving the position within what is as on the disk changes nothing.
LEMMA AdvanceView ==
    ASSUME NEW s \in States, Bounded(s.f), Clean(s.d, s.f), Ahead(s.d, s.f),
           NEW k \in Nat, s.f.head + k <= s.f.cache_end, s.f.cache_end <= s.f.cache_start + CACHE_SIZE,
           NEW u \in States, u.d = s.d, u.f.head = s.f.head + k,
           u.f.cache_start = s.f.cache_start, u.f.cache_end = s.f.cache_end,
           u.f.cache = s.f.cache, u.f.dirty = s.f.dirty
    PROVE  View(u) = View(s) /\ Clean(u.d, u.f) /\ Ahead(u.d, u.f)
<1> DEFINE d == s.d
           a == s.f.cache_start
           h == s.f.head
           c == s.f.cache
           e == s.f.cache_end
<1>1. /\ d \in Seq(Octet) /\ a \in Nat /\ c \in Caches /\ h \in Nat /\ a <= h /\ h <= a + CACHE_SIZE
      /\ CACHE_SIZE \in Nat /\ e \in Nat /\ Len(d) \in Nat /\ h + k <= e /\ h + k <= a + CACHE_SIZE
      /\ h \in a .. a + CACHE_SIZE
  BY Parts DEF Bounded
<1>2. \A i \in h .. e - 1 : i < Len(d) /\ c[i - a] = d[i + 1]
  BY DEF Ahead
<1>3. ~ s.f.dirty => \A i \in a .. h - 1 : i < Len(d) /\ c[i - a] = d[i + 1]
  BY DEF Clean
<1>4. /\ View(s) = IF s.f.dirty THEN Laid(d, a, h, c) ELSE d
      /\ View(u) = IF s.f.dirty THEN Laid(d, a, h + k, c) ELSE d
  BY DEF View
<1>5. /\ (~ s.f.dirty => \A i \in a .. h + k - 1 : i < Len(d) /\ c[i - a] = d[i + 1]) => Clean(u.d, u.f)
      /\ (\A i \in h + k .. e - 1 : i < Len(d) /\ c[i - a] = d[i + 1]) => Ahead(u.d, u.f)
  <2>1. /\ u.d = d /\ u.f.head = h + k /\ u.f.cache_start = a /\ u.f.cache_end = e /\ u.f.cache = c
    OBVIOUS
  <2> HIDE DEF d, a, h, c, e
  <2>2. (~ s.f.dirty => \A i \in a .. h + k - 1 : i < Len(d) /\ c[i - a] = d[i + 1]) => Clean(u.d, u.f)
    <3>1. ASSUME \A i \in a .. h + k - 1 : i < Len(d) /\ c[i - a] = d[i + 1],
                 NEW i \in u.f.cache_start .. u.f.head - 1
          PROVE  i < Len(u.d) /\ u.f.cache[i - u.f.cache_start] = u.d[i + 1]
      BY <1>1, <2>1, <3>1
    <3> QED BY <3>1 DEF Clean
  <2>3. (\A i \in h + k .. e - 1 : i < Len(d) /\ c[i - a] = d[i + 1]) => Ahead(u.d, u.f)
    BY <2>1, Zenon DEF Ahead
  <2> QED BY <2>2, <2>3
<1> HIDE DEF d, a, h, c, e
<1>6. \A i \in h .. h + k - 1 : i < Len(d) /\ c[i - a] = d[i + 1]
  <2>1. \A i \in h .. h + k - 1 : i \in h .. e - 1
    BY <1>1
  <2> QED BY <1>2, <2>1
<1>7. Laid(d, a, h + k, c) = Laid(d, a, h, c)
  BY <1>1, <1>6, LaidSame
<1>8. \A i \in h + k .. e - 1 : i < Len(d) /\ c[i - a] = d[i + 1]
  <2>1. \A i \in h + k .. e - 1 : i \in h .. e - 1
    BY <1>1
  <2> QED BY <1>2, <2>1
<1>9. ~ s.f.dirty => \A i \in a .. h + k - 1 : i < Len(d) /\ c[i - a] = d[i + 1]
  <2>1. \A i \in a .. h + k - 1 : i \in a .. h - 1 \/ i \in h .. h + k - 1
    BY <1>1
  <2> QED BY <1>3, <1>6, <2>1
<1> QED BY <1>4, <1>5, <1>7, <1>8, <1>9

\* A flush puts on the disk what is seen.
LEMMA FlushView ==
    ASSUME NEW s \in States, Bounded(s.f), s.f.dirty
    PROVE  io300_flush(s, All).d = View(s)
<1>1. All \in Nat
  BY Outcomes
<1>2. io300_flush(s, All).d = Pwrite(s.d, s.f.cache_start, Behind(s.f), All)
  BY <1>1, Flushes
<1>3. View(s) = Laid(s.d, s.f.cache_start, s.f.head, s.f.cache)
  BY DEF View
<1>4. s.d \in Seq(Octet) /\ s.f \in FileRecords
  BY Parts
<1> QED BY <1>2, <1>3, <1>4, Overlaid DEF Bounded

\* A fetch at the end of the window, too, and gets the bytes that follow.
LEMMA FetchView ==
    ASSUME NEW s \in States, check_invariants(s.f), s.f.head = s.f.cache_end,
           NEW n \in Nat \cup {Fail}, s.f.dirty => n = All, NEW ok \in BOOLEAN, s.f.dirty => ok
    PROVE  LET u == io300_fetch(s, n, ok)
           IN  /\ u.d = View(s) /\ ~ u.f.dirty /\ u.f.cache_start = u.f.head /\ Ahead(u.d, u.f)
               /\ ok /\ u.f.cache_end = u.f.head => u.f.head >= Len(u.d)
<1> DEFINE t == Window(s, n)
           u == io300_fetch(s, n, ok)
           w == io300_flush(s, n)
<1>1. /\ s.f.dirty \in BOOLEAN /\ CACHE_SIZE \in Nat \ {0} /\ s.f.head \in Nat /\ s.f.cache_start \in Nat
      /\ Bounded(s.f)
  BY Parts DEF check_invariants, Bounded
<1>2. /\ t \in States
      /\ s.f.dirty /\ n # Fail => t = w
      /\ ~ s.f.dirty => t.d = s.d /\ t.f.head = s.f.cache_end /\ t.f.dirty = FALSE
                        /\ t.f.cache_start = s.f.cache_end /\ t.f.cache_end = s.f.cache_end
  BY Windows
<1>3. s.f.dirty => n # Fail /\ n \in Nat
  BY Outcomes DEF Fail
<1>4. t.d = View(s) /\ t.f.dirty = FALSE /\ t.f.head = s.f.head /\ t.f.cache_start = t.f.head
  <2>1. CASE s.f.dirty
    <3>1. t = w /\ n = All /\ n \in Nat
      BY <1>2, <1>3, <2>1
    <3>2. w.d = View(s)
      BY <1>1, <2>1, <3>1, FlushView
    <3>3. w.f.head = s.f.head /\ w.f.cache_start = s.f.head /\ w.f.dirty = FALSE
      BY <3>1, Flushes
    <3> HIDE DEF t, w
    <3> QED BY <3>1, <3>2, <3>3
  <2>2. CASE ~ s.f.dirty
    <3>1. View(s) = s.d
      BY <2>2 DEF View
    <3> HIDE DEF t
    <3> QED BY <1>2, <2>2, <3>1
  <2> QED BY <1>1, <2>1, <2>2
<1>5. CASE ~ ok
  <2>1. u = t /\ t.f.cache_end = t.f.head
    <3>1. ~ s.f.dirty
      BY <1>5
    <3> QED BY <1>2, <1>5, <3>1 DEF io300_fetch
  <2> HIDE DEF t, u
  <2>2. t.f.head \in Nat
    BY <1>2, Parts
  <2>3. Ahead(t.d, t.f)
    BY <2>1, <2>2 DEF Ahead
  <2> QED BY <1>4, <1>5, <2>1, <2>3 DEF u
<1>6. CASE ok
  <2> DEFINE a == Available(t.d, t.f.head, CACHE_SIZE)
             c == ReadInto(s.f.cache, t.d, t.f.head, CACHE_SIZE)
  <2>1. /\ u.d = t.d /\ u.f.head = t.f.head /\ u.f.cache_start = t.f.head /\ u.f.dirty = t.f.dirty
        /\ u.f.cache_end = t.f.head + a /\ u.f.cache = c
    BY <1>6, Fetched
  <2> HIDE DEF t, u
  <2>2. t.d \in Seq(Octet) /\ t.f.head \in Nat /\ Len(t.d) \in Nat
    BY <1>2, Parts
  <2>3. /\ a \in Nat /\ a <= CACHE_SIZE /\ (a > 0 => t.f.head + a <= Len(t.d))
        /\ a = CACHE_SIZE \/ t.f.head + a >= Len(t.d)
    BY <1>1, <2>2, Reads
  <2>4. c = [j \in Index |-> IF j < a THEN t.d[t.f.head + j + 1] ELSE s.f.cache[j]]
    BY DEF ReadInto
  <2> HIDE DEF a, c
  <2>5. ASSUME NEW i \in u.f.head .. u.f.cache_end - 1
        PROVE  i < Len(u.d) /\ u.f.cache[i - u.f.cache_start] = u.d[i + 1]
    <3>1. /\ i - t.f.head \in Index /\ i - t.f.head < a /\ t.f.head + (i - t.f.head) + 1 = i + 1
          /\ i < Len(t.d)
      BY <1>1, <2>1, <2>2, <2>3, SMTT(30) DEF Index
    <3>2. c[i - t.f.head] = t.d[i + 1]
      BY <2>4, <3>1
    <3> QED BY <2>1, <3>1, <3>2
  <2>6. Ahead(u.d, u.f)
    BY <2>5 DEF Ahead
  <2>7. u.f.cache_end = u.f.head => u.f.head >= Len(u.d)
    BY <1>1, <2>1, <2>2, <2>3
  <2> QED BY <1>4, <2>1, <2>6, <2>7 DEF u
<1> QED BY <1>5, <1>6

\* Bytes put at the position are stored there in what is seen.
LEMMA PutView ==
    ASSUME NEW s \in States, Bounded(s.f), Clean(s.d, s.f), NEW b \in Octet,
           NEW k \in Nat \ {0}, s.f.head + k <= s.f.cache_start + CACHE_SIZE, NEW c \in Caches,
           PutAt(c, s.f.cache, s.f.head - s.f.cache_start, k, b),
           NEW u, IsPut(u, s, c, k)
    PROVE  /\ View(u) = Plain!Store(View(s), s.f.head, [i \in 1 .. k |-> b])
           /\ Clean(u.d, u.f)
           /\ Ahead(s.d, s.f) /\ s.f.cache_end <= s.f.cache_start + CACHE_SIZE => Ahead(u.d, u.f)
<1> DEFINE d == s.d
           a == s.f.cache_start
           h == s.f.head
           e == s.f.cache_end
<1>1. /\ d \in Seq(Octet) /\ a \in Nat /\ s.f.cache \in Caches /\ h \in Nat /\ a <= h /\ h <= a + CACHE_SIZE
      /\ CACHE_SIZE \in Nat /\ e \in Nat /\ Len(d) \in Nat /\ h \in a .. a + CACHE_SIZE
  BY Parts DEF Bounded
<1>2. /\ u.d = d /\ u.f.head = h + k /\ u.f.cache_start = a /\ u.f.cache = c /\ u.f.dirty = TRUE
      /\ u.f.cache_end = e
  BY DEF IsPut
<1>3. View(s) = Laid(d, a, h, s.f.cache)
  BY ViewClean
<1>4. View(u) = Laid(d, a, h + k, c)
  BY <1>2 DEF View
<1>5. PutAt(c, s.f.cache, h - a, k, b)
  OBVIOUS
<1>6. h + k <= a + CACHE_SIZE
  OBVIOUS
<1>7. Clean(u.d, u.f)
  BY <1>2 DEF Clean
<1> HIDE DEF d, a, h, e
<1>8. Laid(d, a, h + k, c) = Plain!Store(Laid(d, a, h, s.f.cache), h, [i \in 1 .. k |-> b])
  BY <1>1, <1>5, <1>6, LaidPut
<1>9. ASSUME Ahead(s.d, s.f), e <= a + CACHE_SIZE PROVE Ahead(u.d, u.f)
  <2>1. \A i \in h .. e - 1 : i < Len(d) /\ s.f.cache[i - a] = d[i + 1]
    BY <1>9 DEF Ahead, d, a, h, e
  <2>2. ASSUME NEW i \in h + k .. e - 1 PROVE i < Len(d) /\ c[i - a] = d[i + 1]
    <3>1. i \in h .. e - 1 /\ i - a \in Index /\ i - a \notin h - a .. h - a + k - 1
      BY <1>1, <1>9 DEF Index
    <3> QED BY <1>5, <2>1, <3>1 DEF PutAt
  <2>3. ASSUME NEW i \in u.f.head .. u.f.cache_end - 1
        PROVE  i < Len(u.d) /\ u.f.cache[i - u.f.cache_start] = u.d[i + 1]
    BY <1>1, <1>2, <2>2
  <2> QED BY <2>3 DEF Ahead
<1> QED BY <1>3, <1>4, <1>7, <1>8, <1>9 DEF a, e, h

\* Where only readers meet faults, transfers of the others succeed.
LEMMA Succeeds ==
    ASSUME OnlyReadersFail, FileType
    PROVE  /\ role # "any" /\ ReadFaultsApart
           /\ role # "reader" => WriteOutcomes = {All} /\ ReadOutcomes = {TRUE}
           /\ FALSE \in ReadOutcomes => \E x \in Faults : x[1] = role
<1>1. role # "any"
  BY DEF OnlyReadersFail, FileType
<1>2. \A r, x : <<r, x>> \in Faults => r = "reader"
  <2> SUFFICES ASSUME NEW r, NEW x, <<r, x>> \in Faults PROVE r = "reader"
    OBVIOUS
  <2>1. <<r, x>>[1] = "reader"
    BY DEF OnlyReadersFail
  <2> QED BY <2>1
<1>3. ReadFaultsApart
  BY <1>2 DEF ReadFaultsApart
<1>4. role # "reader" => \A x : ~ MayGoWrong(x)
  BY <1>2 DEF MayGoWrong
<1>5. role # "reader" => WriteOutcomes = {All} /\ ReadOutcomes = {TRUE}
  BY <1>4, Zenon DEF WriteOutcomes, ReadOutcomes
<1>6. FALSE \in ReadOutcomes => \E x \in Faults : x[1] = role
  <2> SUFFICES ASSUME FALSE \in ReadOutcomes PROVE \E x \in Faults : x[1] = role
    OBVIOUS
  <2>1. <<role, "pread">> \in Faults
    BY Zenon DEF ReadOutcomes, MayGoWrong
  <2>2. <<role, "pread">>[1] = role
    OBVIOUS
  <2> QED BY <2>1, <2>2
<1> QED BY <1>1, <1>3, <1>5, <1>6

\* What is seen is the content of the file.
LEMMA ContentsView ==
    ASSUME NEW u \in States, u.f.dirty => Bounded(u.f)
    PROVE  (IF u.f.dirty THEN Pwrite(u.d, u.f.cache_start, Behind(u.f), All) ELSE u.d) = View(u)
<1>1. u.d \in Seq(Octet) /\ u.f \in FileRecords
  BY Parts
<1>2. u.f.dirty => Pwrite(u.d, u.f.cache_start, Behind(u.f), All)
                   = Laid(u.d, u.f.cache_start, u.f.head, u.f.cache)
  BY <1>1, Overlaid DEF Bounded
<1> QED BY <1>2 DEF View

\* So it is after a step that ends in u.
LEMMA Becoming ==
    ASSUME NEW u \in States, u.f.dirty => Bounded(u.f), disk' = u.d, f' = u.f
    PROVE  Contents' = View(u)
  BY ContentsView DEF Contents

\* What is seen of the present state, and where its position is.
LEMMA Seeing ==
    ASSUME WindowInv, SeenInv, OnlyReadersFail
    PROVE  /\ Contents = View(Here) /\ (mode # "closed" => Bounded(f))
           /\ Here \in States /\ Here.d = disk /\ Here.f = f
<1>1. FileType /\ role # "any"
  BY Succeeds DEF WindowInv
<1>2. Here \in States /\ Here.d = disk /\ Here.f = f
  BY <1>1, HereStates
<1>3. mode # "closed" => Bounded(f)
  BY <1>1, HereStates DEF WindowInv, KnownWindow, FileType, check_invariants, Bounded
<1>4. mode = "closed" => ~ f.dirty
  BY FreshFile DEF SeenInv
<1>5. Contents = View(Here)
  BY <1>2, <1>3, <1>4, ContentsView DEF Contents
<1> QED BY <1>2, <1>3, <1>5

\* A fetch at the end of the window.
LEMMA FetchSeen ==
    ASSUME WindowInv, SeenInv, OnlyReadersFail, check_invariants(f), f.head = f.cache_end,
           mode # "closed", NEW n \in WriteOutcomes, NEW ok \in ReadOutcomes
    PROVE  LET u == io300_fetch(Here, n, ok)
           IN  /\ u \in States /\ check_invariants(u.f) /\ u.f.head = f.head
               /\ u.f.file_size = f.file_size /\ u.d = Contents /\ View(u) = Contents
               /\ ~ u.f.dirty /\ u.f.cache_start = u.f.head /\ Clean(u.d, u.f) /\ Ahead(u.d, u.f)
               /\ ~ Appends => Len(u.d) = Len(disk)
               /\ ok /\ u.f.cache_end = u.f.head => u.f.head >= Len(u.d)
               /\ ~ ok => \E x \in Faults : x[1] = role
<1> DEFINE u == io300_fetch(Here, n, ok)
<1>1. /\ FileType /\ ReadFaultsApart /\ Here \in States /\ Here.d = disk /\ Here.f = f
      /\ Contents = View(Here) /\ Bounded(f)
  BY Succeeds, Seeing DEF WindowInv
<1>2. n \in Nat \cup {Fail} /\ ok \in BOOLEAN
  BY Outcomes
<1>3. f.dirty => n = All /\ ok = TRUE
  BY <1>1, Succeeds DEF SeenInv
<1>4. u \in States /\ check_invariants(u.f) /\ u.f.head = f.head /\ u.f.file_size = f.file_size
  BY <1>1, FetchWindow
<1>5. /\ u.d = View(Here) /\ ~ u.f.dirty /\ u.f.cache_start = u.f.head /\ Ahead(u.d, u.f)
      /\ ok /\ u.f.cache_end = u.f.head => u.f.head >= Len(u.d)
  BY <1>1, <1>2, <1>3, FetchView
<1>6. ~ ok => \E x \in Faults : x[1] = role
  BY <1>1, <1>2, Succeeds
<1> HIDE DEF u
<1>7. Clean(u.d, u.f)
  <2>1. u.f.head \in Nat
    BY <1>4, Parts
  <2> QED BY <1>5, <2>1 DEF Clean
<1>8. View(u) = u.d
  BY <1>5 DEF View
<1>9. ~ Appends => Len(u.d) = Len(disk)
  BY <1>1, <1>5, ViewAhead DEF SeenInv
<1> QED BY <1>1, <1>4, <1>5, <1>6, <1>7, <1>8, <1>9 DEF u

-----------------------------------------------------------------------------
(* The steps, as the client sees them. *)

\* The state s is Here, or what a fetch made of it; as a reader of the window
\* finds it.
Readable(s) ==
    /\ s \in States /\ check_invariants(s.f) /\ View(s) = Contents /\ s.f.head = f.head
    /\ s.f.file_size = Len(s.d) /\ s.f.head <= Len(s.d) /\ (role = "reader" => ~ s.f.dirty)
    /\ Clean(s.d, s.f) /\ Ahead(s.d, s.f)

\* So it is if nothing was done.
LEMMA HereReadable ==
    ASSUME WindowInv, SeenInv, OnlyReadersFail, mode \in {"idle", "read"}, check_invariants(f), ~ Appends
    PROVE  Readable(Here)
  BY Seeing DEF Readable, SeenInv

\* So it is after a fetch.
LEMMA FetchedReadable ==
    ASSUME WindowInv, SeenInv, OnlyReadersFail, mode \in {"idle", "read"}, check_invariants(f), ~ Appends,
           f.head = f.cache_end, NEW n \in WriteOutcomes, NEW ok \in ReadOutcomes
    PROVE  Readable(io300_fetch(Here, n, ok))
<1> DEFINE u == io300_fetch(Here, n, ok)
<1>1. /\ u \in States /\ check_invariants(u.f) /\ u.f.head = f.head
      /\ u.f.file_size = f.file_size /\ View(u) = Contents
      /\ ~ u.f.dirty /\ Clean(u.d, u.f) /\ Ahead(u.d, u.f) /\ Len(u.d) = Len(disk)
  BY FetchSeen
<1> HIDE DEF u
<1>2. f.file_size = Len(disk) /\ f.head <= Len(disk)
  BY DEF SeenInv
<1> QED BY <1>1, <1>2 DEF Readable, u

\* The position of s moves by k bytes of the window.
LEMMA Forward ==
    ASSUME NEW s, Readable(s), NEW k \in Nat, s.f.head + k <= s.f.cache_end,
           Becomes([s EXCEPT !.f.head = @ + k])
    PROVE  /\ Contents' = Contents /\ f'.head = f.head + k /\ Clean(disk', f') /\ Ahead(disk', f')
           /\ f'.file_size = Len(disk') /\ f'.head <= Len(disk') /\ (role = "reader" => ~ f'.dirty)
<1> DEFINE u == [s EXCEPT !.f.head = @ + k]
<1>1. s \in States /\ Clean(s.d, s.f) /\ Ahead(s.d, s.f) /\ s.f.file_size = Len(s.d) /\ s.f.head <= Len(s.d)
      /\ s.f.head = f.head /\ View(s) = Contents /\ check_invariants(s.f)
      /\ (role = "reader" => ~ s.f.dirty)
  BY DEF Readable
<1>2. /\ s.f.head \in Nat /\ s.f.cache_start \in Nat /\ s.f.cache_end \in Nat /\ CACHE_SIZE \in Nat
      /\ s.d \in Seq(Octet) /\ Len(s.d) \in Nat
  BY <1>1, Parts
<1>3. Bounded(s.f) /\ s.f.cache_end <= s.f.cache_start + CACHE_SIZE
  BY <1>1, <1>2 DEF check_invariants, Bounded
<1>4. /\ u \in States /\ u.d = s.d /\ u.f.head = s.f.head + k
      /\ u.f.cache_start = s.f.cache_start /\ u.f.cache_end = s.f.cache_end
      /\ u.f.file_size = s.f.file_size /\ u.f.cache = s.f.cache /\ u.f.dirty = s.f.dirty
  BY <1>1, Advance
<1>5. disk' = u.d /\ f' = u.f
  BY DEF Becomes
<1> HIDE DEF u
<1>6. View(u) = View(s) /\ Clean(u.d, u.f) /\ Ahead(u.d, u.f)
  BY <1>1, <1>3, <1>4, AdvanceView
<1>7. Bounded(u.f)
  BY <1>2, <1>3, <1>4 DEF Bounded
<1>8. Contents' = View(u)
  BY <1>4, <1>5, <1>7, Becoming
<1>9. u.f.head <= Len(u.d)
  <2>1. CASE k = 0
    BY <1>1, <1>2, <1>4, <2>1
  <2>2. CASE k > 0
    <3>1. s.f.head + k - 1 \in s.f.head .. s.f.cache_end - 1
      BY <1>2, <2>2
    <3>2. s.f.head + k - 1 < Len(s.d)
      BY <1>1, <3>1 DEF Ahead
    <3> QED BY <1>2, <1>4, <3>2
  <2> QED BY <2>1, <2>2
<1> QED BY <1>1, <1>4, <1>5, <1>6, <1>8, <1>9

\* A byte is read from the window.
LEMMA GetsByte ==
    ASSUME SeenInv, NEW s, Readable(s), s.f.head # s.f.cache_end, ReadcGets(s), ~ Appends,
           mode = "idle", UNCHANGED <<mode, role, left>>
    PROVE  SeenInv' /\ Plain!Readc
<1> DEFINE o == s.f.head - s.f.cache_start
<1>1. /\ s \in States /\ Ahead(s.d, s.f) /\ s.f.head <= Len(s.d) /\ check_invariants(s.f)
      /\ View(s) = Contents /\ s.f.head = f.head
  BY DEF Readable
<1>2. /\ s.f.head \in Nat /\ s.f.cache_start \in Nat /\ s.f.cache_end \in Nat /\ CACHE_SIZE \in Nat
      /\ s.d \in Seq(Octet) /\ Len(s.d) \in Nat /\ s.f.cache \in Caches
  BY <1>1, Parts
<1>3. Bounded(s.f) /\ s.f.head + 1 <= s.f.cache_end /\ o \in Index
      /\ s.f.head \in s.f.head .. s.f.cache_end - 1
  BY <1>1, <1>2 DEF check_invariants, Bounded, Index
<1>4. /\ Becomes([s EXCEPT !.f.head = @ + 1]) /\ buff' = <<s.f.cache[o]>> /\ ret' = 1
  BY <1>3 DEF ReadcGets, CacheAt
<1>5. /\ Contents' = Contents /\ f'.head = f.head + 1 /\ Clean(disk', f') /\ Ahead(disk', f')
      /\ f'.file_size = Len(disk') /\ f'.head <= Len(disk') /\ (role = "reader" => ~ f'.dirty)
  BY <1>3, <1>4, Forward
<1>6. Len(View(s)) = Len(s.d) /\ s.f.head + 1 \in 1 .. Len(s.d) /\ View(s)[s.f.head + 1] = s.f.cache[o]
  BY <1>1, <1>3, ViewAhead
<1>7. f.head < Len(Contents) /\ Contents[f.head + 1] = s.f.cache[o] /\ f.head \in Nat
  BY <1>1, <1>2, <1>6
<1>8. s.f.cache[o] \in Octet
  BY <1>2, <1>3 DEF Caches
<1> HIDE DEF o
<1>9. buff' \in Seq(Octet)
  BY <1>4, <1>8
<1>10. Plain!Readc
  BY <1>4, <1>5, <1>7 DEF Plain!Readc
<1>11. SeenInv'
  BY <1>4, <1>5, <1>9 DEF SeenInv, InCall, Appends
<1> QED BY <1>10, <1>11

\* Reading a byte.
LEMMA ReadcSeen ==
    ASSUME WindowInv, SeenInv, OnlyReadersFail, io300_readc
    PROVE  SeenInv' /\ (Plain!Readc \/ Plain!TransferFails)
<1>1. mode = "idle" /\ check_invariants(f) /\ ~ Appends /\ UNCHANGED <<mode, role, left>> /\ FileType
  BY DEF io300_readc, Ready, MayRead, WindowInv
<1>2. f.file_size = Len(disk) /\ f.head <= Len(disk) /\ f.head \in Nat /\ f.file_size \in Nat /\ left = 0
  BY <1>1, HereStates DEF SeenInv, InCall
<1>3. ~ f.head > f.file_size
  BY <1>2
<1>4. CASE f.head # f.cache_end /\ ReadcGets(Here)
  <2>1. Readable(Here) /\ Here.f = f
    BY <1>1, HereReadable, HereStates
  <2> QED BY <1>1, <1>4, <2>1, GetsByte
<1>5. ASSUME f.head = f.cache_end, NEW n \in WriteOutcomes, NEW ok \in ReadOutcomes,
             LET s == io300_fetch(Here, n, ok) IN
              IF ~ ok \/ s.f.head = s.f.cache_end
              THEN Becomes(s) /\ ret' = -1 /\ buff' = << >>
              ELSE ReadcGets(s)
      PROVE  SeenInv' /\ (Plain!Readc \/ Plain!TransferFails)
  <2> DEFINE s == io300_fetch(Here, n, ok)
  <2>1. Readable(s)
    BY <1>1, <1>5, FetchedReadable
  <2>2. /\ s \in States /\ s.f.head = f.head /\ s.d = Contents /\ View(s) = Contents /\ ~ s.f.dirty
        /\ ok /\ s.f.cache_end = s.f.head => s.f.head >= Len(s.d)
        /\ ~ ok => \E x \in Faults : x[1] = role
    BY <1>1, <1>5, FetchSeen
  <2>3. \/ (~ ok \/ s.f.head = s.f.cache_end) /\ Becomes(s) /\ ret' = -1 /\ buff' = << >>
        \/ s.f.head # s.f.cache_end /\ ReadcGets(s)
    BY <1>5
  <2> HIDE DEF s
  <2>4. CASE s.f.head # s.f.cache_end /\ ReadcGets(s)
    BY <1>1, <2>1, <2>4, GetsByte
  <2>5. CASE (~ ok \/ s.f.head = s.f.cache_end) /\ Becomes(s) /\ ret' = -1 /\ buff' = << >>
    <3>1. disk' = s.d /\ f' = s.f
      BY <2>5 DEF Becomes
    <3>2. Contents' = Contents
      BY <2>2, <3>1, Becoming
    <3>3. SeenInv'
      BY <1>1, <2>1, <2>5, <3>1 DEF SeenInv, Readable, InCall, Appends
    <3>4. CASE ~ ok
      BY <1>1, <1>2, <2>2, <2>5, <3>1, <3>2, <3>3, <3>4 DEF Plain!TransferFails
    <3>5. CASE ok /\ s.f.head = s.f.cache_end
      <4>1. f.head >= Len(Contents)
        BY <2>2, <3>5
      <4> QED BY <1>1, <2>2, <2>5, <3>1, <3>2, <3>3, <4>1 DEF Plain!Readc
    <3> QED BY <2>5, <3>4, <3>5
  <2> QED BY <2>3, <2>4, <2>5
<1> QED BY <1>3, <1>4, <1>5 DEF io300_readc

\* A part of a sequence, byte by byte.
LEMMA Section ==
    ASSUME NEW y \in Seq(Octet), NEW h \in Nat, NEW k \in Nat, k > 0 => h + k <= Len(y),
           NEW x \in Seq(Octet), Len(x) = k, \A i \in 1 .. k : x[i] = y[h + i]
    PROVE  x = SubSeq(y, h + 1, h + k)
<1> DEFINE z == SubSeq(y, h + 1, h + k)
<1>1. z \in Seq(Octet) /\ Len(z) = k
  OBVIOUS
<1>2. \A i \in 1 .. k : z[i] = y[h + i]
  OBVIOUS
<1> HIDE DEF z
<1>3. x = z
  BY <1>1, <1>2, SeqEqual
<1> QED BY <1>3 DEF z

\* The bytes of the window from the position on are those that are seen there.
LEMMA GetsBytes ==
    ASSUME NEW s, Readable(s), NEW k \in Nat, s.f.head + k <= s.f.cache_end
    PROVE  LET bs == [i \in 1 .. k |-> CacheAt(s.f, s.f.head - s.f.cache_start + i - 1)]
           IN  /\ bs \in Seq(Octet) /\ bs = SubSeq(Contents, f.head + 1, f.head + k)
               /\ k > 0 => f.head + k <= Len(Contents)
<1> DEFINE at(i) == CacheAt(s.f, s.f.head - s.f.cache_start + i - 1)
           bs == [i \in 1 .. k |-> at(i)]
           h == s.f.head
           a == s.f.cache_start
           e == s.f.cache_end
           c == s.f.cache
           y == Contents
<1>1. /\ s \in States /\ Ahead(s.d, s.f) /\ s.f.head <= Len(s.d) /\ check_invariants(s.f)
      /\ View(s) = y /\ h = f.head
  BY DEF Readable
<1>2. /\ h \in Nat /\ a \in Nat /\ e \in Nat /\ CACHE_SIZE \in Nat
      /\ s.d \in Seq(Octet) /\ Len(s.d) \in Nat /\ c \in Caches
  BY <1>1, Parts
<1>3. Bounded(s.f) /\ e <= a + CACHE_SIZE /\ a <= h
  BY <1>1, <1>2 DEF check_invariants, Bounded
<1>4. /\ y \in Seq(Octet) /\ Len(y) = Len(s.d)
      /\ \A i \in h .. e - 1 : i + 1 \in 1 .. Len(s.d) /\ y[i + 1] = c[i - a]
  BY <1>1, <1>3, ViewAhead
<1>5. h + k <= e
  OBVIOUS
<1>6. \A i : at(i) = CacheAt(s.f, h - a + i - 1)
  OBVIOUS
<1>7. \A i \in Index : CacheAt(s.f, i) = c[i]
  BY DEF CacheAt
<1> HIDE DEF h, a, e, c, y, at
<1>8. ASSUME NEW i \in 1 .. k
      PROVE  at(i) = y[h + i] /\ at(i) \in Octet /\ h + i \in 1 .. Len(y)
  <2> DEFINE j == h + i - 1
  <2>1. j \in h .. e - 1 /\ j - a = h - a + i - 1 /\ j - a \in Index /\ j + 1 = h + i
    BY <1>2, <1>3, <1>5 DEF Index
  <2> HIDE DEF j
  <2>2. y[h + i] = c[j - a] /\ h + i \in 1 .. Len(y)
    BY <1>4, <2>1
  <2>3. c[j - a] \in Octet
    BY <1>2, <2>1 DEF Caches
  <2>4. at(i) = c[j - a]
    BY <1>6, <1>7, <2>1
  <2> QED BY <2>2, <2>3, <2>4
<1>9. bs \in Seq(Octet) /\ Len(bs) = k /\ \A i \in 1 .. k : bs[i] = y[h + i]
  BY <1>8
<1>10. k > 0 => h + k <= Len(y)
  <2> SUFFICES ASSUME k > 0 PROVE h + k <= Len(y)
    OBVIOUS
  <2>1. k \in 1 .. k
    OBVIOUS
  <2>2. h + k \in 1 .. Len(y)
    BY <1>8, <2>1
  <2> QED BY <1>2, <1>4, <2>2
<1>11. bs = SubSeq(y, h + 1, h + k)
  <2> HIDE DEF bs
  <2> QED BY <1>2, <1>4, <1>9, <1>10, Section
<1> QED BY <1>1, <1>9, <1>10, <1>11 DEF at, h, a, y

\* Reading a block, one window at a time.
LEMMA ReadSeen ==
    ASSUME WindowInv, SeenInv, OnlyReadersFail, io300_read
    PROVE  SeenInv' /\ (Plain!TransferFails \/ Plain!Finish
                        \/ \E n \in Sizes : \E k \in 1 .. n : Plain!Get(k))
<1>1. PICK n \in WriteOutcomes, ok \in ReadOutcomes :
        LET s == IF f.head = f.cache_end THEN io300_fetch(Here, n, ok) ELSE Here
            k == Lesser(s.f.cache_end - s.f.head, left)
            o == s.f.head - s.f.cache_start
        IN  /\ Becomes([s EXCEPT !.f.head = @ + k])
            /\ buff' = buff \o [i \in 1 .. k |-> CacheAt(s.f, o + i - 1)]
            /\ ret' = ret + k
            /\ ReadGoesOn(k)
  BY DEF io300_read
<1> DEFINE s == IF f.head = f.cache_end THEN io300_fetch(Here, n, ok) ELSE Here
           k == Lesser(s.f.cache_end - s.f.head, left)
           bs == [i \in 1 .. k |-> CacheAt(s.f, s.f.head - s.f.cache_start + i - 1)]
<1>2. /\ FileType /\ mode = "read" /\ check_invariants(f) /\ role' = role
      /\ left \in Nat /\ left > 0 /\ ~ Appends
  BY DEF io300_read, WindowInv, FileType, SeenInv
<1>3. /\ Readable(s)
      /\ s.f.cache_end = s.f.head =>
            IF ok THEN f.head >= Len(Contents) ELSE \E x \in Faults : x[1] = role
  <2>1. CASE f.head = f.cache_end
    <3> DEFINE u == io300_fetch(Here, n, ok)
    <3>1. s = u
      BY <2>1
    <3>2. Readable(u)
      BY <1>2, <2>1, FetchedReadable
    <3>3. /\ u.f.head = f.head /\ u.d = Contents /\ (~ ok => \E x \in Faults : x[1] = role)
          /\ ok /\ u.f.cache_end = u.f.head => u.f.head >= Len(u.d)
      BY <1>2, <2>1, FetchSeen
    <3> HIDE DEF s, u
    <3> QED BY <3>1, <3>2, <3>3
  <2>2. CASE f.head # f.cache_end
    <3>1. s = Here /\ Here.f = f
      BY <1>2, <2>2, HereStates
    <3>2. Readable(Here)
      BY <1>2, HereReadable
    <3> HIDE DEF s
    <3> QED BY <2>2, <3>1, <3>2
  <2> QED BY <2>1, <2>2
<1>4. /\ Becomes([s EXCEPT !.f.head = @ + k]) /\ buff' = buff \o bs /\ ret' = ret + k
      /\ left' = (IF k = 0 THEN 0 ELSE left - k) /\ mode' = (IF k = 0 THEN "idle" ELSE mode)
  BY <1>1 DEF ReadGoesOn
<1> HIDE DEF s
<1>5. /\ s.f.head \in Nat /\ s.f.cache_end \in Nat /\ s.f.head <= s.f.cache_end /\ s.f.head = f.head
  BY <1>3, Parts DEF Readable, check_invariants
<1>6. k \in Nat /\ k <= left /\ s.f.head + k <= s.f.cache_end /\ (k = 0 => s.f.cache_end = s.f.head)
  BY <1>2, <1>5 DEF Lesser
<1> HIDE DEF k
<1>7. /\ Contents' = Contents /\ f'.head = f.head + k /\ Clean(disk', f') /\ Ahead(disk', f')
      /\ f'.file_size = Len(disk') /\ f'.head <= Len(disk') /\ (role = "reader" => ~ f'.dirty)
  BY <1>3, <1>4, <1>6, Forward
<1>8. /\ bs \in Seq(Octet) /\ bs = SubSeq(Contents, f.head + 1, f.head + k)
      /\ k > 0 => f.head + k <= Len(Contents)
  BY <1>3, <1>6, GetsBytes
<1>9. k = 0 => bs = <<>>
  OBVIOUS
<1> HIDE DEF bs
<1>10. buff \in Seq(Octet) /\ ret \in Int
  BY DEF SeenInv
<1>11. buff' \in Seq(Octet) /\ ret' \in Int
  BY <1>4, <1>6, <1>8, <1>10
<1>12. PICK m \in Sizes : left <= m
  BY <1>2 DEF SeenInv, InCall
<1>13. m \in Nat
  BY FileAssumption
<1>14. left' \in Nat /\ left' <= m /\ (k = 0 => left' = 0)
  BY <1>2, <1>4, <1>6, <1>12, <1>13
<1>15. SeenInv'
  <2>1. CASE k = 0
    <3>1. mode' = "idle" /\ left' = 0
      BY <1>4, <2>1
    <3> QED BY <1>2, <1>7, <1>11, <3>1 DEF SeenInv, InCall, Appends
  <2>2. CASE k # 0
    <3>1. mode' = "read"
      BY <1>2, <1>4, <2>2
    <3>2. \E x \in Sizes : left' <= x
      BY <1>12, <1>14
    <3> QED BY <1>2, <1>7, <1>11, <3>1, <3>2 DEF SeenInv, InCall, Appends
  <2> QED BY <2>1, <2>2
<1>16. CASE k = 0
  <2>1. buff' = buff /\ ret' = ret /\ f'.head = f.head /\ mode' = "idle" /\ left' = 0
    BY <1>4, <1>5, <1>6, <1>7, <1>9, <1>10, <1>16
  <2>2. CASE f.head >= Len(Contents)
    BY <1>2, <1>7, <1>15, <2>1, <2>2 DEF Plain!Finish
  <2>3. CASE \E x \in Faults : x[1] = role
    BY <1>2, <1>7, <1>15, <2>1, <2>3 DEF Plain!TransferFails
  <2> QED BY <1>3, <1>6, <1>16, <2>2, <2>3
<1>17. CASE k # 0
  <2>1. left' = left - k /\ mode' = mode /\ k > 0 /\ k \in 1 .. m
    BY <1>2, <1>4, <1>6, <1>12, <1>13, <1>17
  <2>2. Plain!Get(k)
    BY <1>2, <1>4, <1>6, <1>7, <1>8, <2>1 DEF Plain!Get
  <2> QED BY <1>12, <1>15, <2>1, <2>2
<1> QED BY <1>16, <1>17

\* The state s is Here, or what a fetch or a flush made of it; as a writer of
\* the window finds it.
Writable(s) ==
    /\ s \in States /\ Bounded(s.f) /\ Clean(s.d, s.f) /\ View(s) = Contents
    /\ s.f.head = f.head /\ s.f.file_size = f.file_size
    /\ role = "inplace" => /\ Len(s.d) = Len(disk) /\ Ahead(s.d, s.f)
                           /\ s.f.cache_end <= s.f.cache_start + CACHE_SIZE

\* So it is if nothing was done.
LEMMA HereWritable ==
    ASSUME WindowInv, SeenInv, OnlyReadersFail, mode \in {"idle", "write"}
    PROVE  Writable(Here)
<1>1. /\ Contents = View(Here) /\ Bounded(f) /\ Here \in States /\ Here.d = disk /\ Here.f = f
  BY Seeing
<1>2. Clean(disk, f) /\ (role = "inplace" => Ahead(disk, f))
  BY DEF SeenInv, Appends
<1>3. f.cache_end <= f.cache_start + CACHE_SIZE
  BY Succeeds DEF WindowInv, KnownWindow
<1> QED BY <1>1, <1>2, <1>3 DEF Writable

\* So it is after a fetch.
LEMMA FetchedWritable ==
    ASSUME WindowInv, SeenInv, OnlyReadersFail, mode \in {"idle", "write"}, check_invariants(f),
           f.head = f.cache_end, NEW n \in WriteOutcomes, NEW ok \in ReadOutcomes
    PROVE  LET s == io300_fetch(Here, n, ok)
           IN  Writable(s) /\ s.f.cache_start = s.f.head
<1> DEFINE u == io300_fetch(Here, n, ok)
<1>1. /\ u \in States /\ check_invariants(u.f) /\ u.f.head = f.head
      /\ u.f.file_size = f.file_size /\ View(u) = Contents /\ u.f.cache_start = u.f.head
      /\ Clean(u.d, u.f) /\ Ahead(u.d, u.f) /\ (~ Appends => Len(u.d) = Len(disk))
  BY FetchSeen
<1> HIDE DEF u
<1>2. u.f.head \in Nat /\ u.f.cache_start \in Nat /\ u.f.cache_end \in Nat /\ CACHE_SIZE \in Nat
  BY <1>1, Parts
<1>3. Bounded(u.f) /\ u.f.cache_end <= u.f.cache_start + CACHE_SIZE
  BY <1>1, <1>2 DEF check_invariants, Bounded
<1>4. role = "inplace" => ~ Appends
  BY DEF Appends
<1> QED BY <1>1, <1>3, <1>4 DEF Writable, u

\* So it is after a flush, which a program that writes in place never needs.
\* The loop of io300_write sets the end of the window before it.
LEMMA FlushedWritable ==
    ASSUME WindowInv, SeenInv, OnlyReadersFail, mode \in {"idle", "write"}, role # "inplace",
           NEW h \in States, h.d = disk, h.f.head = f.head, h.f.cache_start = f.cache_start,
           h.f.cache = f.cache, h.f.dirty = f.dirty, h.f.file_size = f.file_size
    PROVE  LET s == io300_flush(h, All)
           IN  Writable(s) /\ s.f.cache_start = s.f.head
<1> DEFINE s == io300_flush(h, All)
           x == Laid(disk, f.cache_start, f.head, f.cache)
<1>1. /\ Contents = View(Here) /\ Bounded(f) /\ Here \in States /\ Here.d = disk /\ Here.f = f
      /\ Clean(disk, f)
  BY Seeing DEF SeenInv
<1>2. Contents = x
  BY <1>1, ViewClean
<1>3. /\ s \in States /\ s.d = Pwrite(h.d, h.f.cache_start, Behind(h.f), All)
      /\ s.f.head = h.f.head /\ s.f.cache_start = h.f.head /\ s.f.dirty = FALSE
      /\ s.f.file_size = h.f.file_size
  BY Outcomes, Flushes
<1>4. h.f \in FileRecords /\ h.f.cache_start <= h.f.head /\ h.f.head <= h.f.cache_start + CACHE_SIZE
      /\ h.d \in Seq(Octet)
  BY <1>1, Parts DEF Bounded
<1>5. Pwrite(h.d, h.f.cache_start, Behind(h.f), All) = Laid(h.d, h.f.cache_start, h.f.head, h.f.cache)
  BY <1>4, Overlaid
<1> HIDE DEF s, x
<1>6. s.d = Contents
  BY <1>2, <1>3, <1>5 DEF x
<1>7. View(s) = s.d
  BY <1>3 DEF View
<1>8. s.f.head \in Nat /\ s.f.cache_start = s.f.head /\ CACHE_SIZE \in Nat
  BY <1>3, Parts
<1>9. Bounded(s.f) /\ Clean(s.d, s.f)
  BY <1>8 DEF Bounded, Clean
<1> QED BY <1>3, <1>6, <1>7, <1>8, <1>9 DEF Writable, s

\* k bytes b are put at the position of s.
LEMMA PutsBytes ==
    ASSUME WindowInv, SeenInv, NEW s, Writable(s), NEW b \in Bytes, NEW k \in Nat \ {0},
           s.f.head + k <= s.f.cache_start + CACHE_SIZE, mode # "closed",
           NEW c, c = [i \in Index |-> IF i \in s.f.head - s.f.cache_start .. s.f.head - s.f.cache_start + k - 1
                                       THEN b ELSE s.f.cache[i]],
           disk' = Put(s, c, k).d, f' = Put(s, c, k).f
    PROVE  /\ Contents' = Plain!Store(Contents, f.head, [i \in 1 .. k |-> b])
           /\ f'.head = f.head + k /\ Clean(disk', f') /\ f'.file_size = f.file_size
           /\ role = "inplace" => Len(disk') = Len(disk) /\ Ahead(disk', f')
<1> DEFINE u == Put(s, c, k)
           o == s.f.head - s.f.cache_start
<1>1. /\ s \in States /\ Bounded(s.f) /\ Clean(s.d, s.f) /\ View(s) = Contents
      /\ s.f.head = f.head /\ s.f.file_size = f.file_size
      /\ role = "inplace" => /\ Len(s.d) = Len(disk) /\ Ahead(s.d, s.f)
                             /\ s.f.cache_end <= s.f.cache_start + CACHE_SIZE
  BY DEF Writable
<1>2. /\ s.f.head \in Nat /\ s.f.cache_start \in Nat /\ CACHE_SIZE \in Nat /\ s.f.cache \in Caches
  BY <1>1, Parts
<1>3. b \in Octet
  BY FileAssumption DEF Octet
<1>4. c = [i \in Index |-> IF i \in o .. o + k - 1 THEN b ELSE s.f.cache[i]]
  OBVIOUS
<1> HIDE DEF o
<1>5. c \in Caches
  BY <1>2, <1>3, <1>4 DEF Caches
<1>6. PutAt(c, s.f.cache, o, k, b)
  BY <1>4 DEF PutAt
<1>7. IsPut(u, s, c, k)
  BY <1>1, <1>5, PutIn
<1>8. disk' = u.d /\ f' = u.f
  OBVIOUS
<1> HIDE DEF u
<1>9. /\ u \in States /\ u.d = s.d /\ u.f.head = s.f.head + k /\ u.f.file_size = s.f.file_size
      /\ u.f.cache_start = s.f.cache_start
  BY <1>7 DEF IsPut
<1>10. /\ View(u) = Plain!Store(View(s), s.f.head, [i \in 1 .. k |-> b])
       /\ Clean(u.d, u.f)
       /\ Ahead(s.d, s.f) /\ s.f.cache_end <= s.f.cache_start + CACHE_SIZE => Ahead(u.d, u.f)
  BY <1>1, <1>3, <1>5, <1>6, <1>7, PutView DEF o
<1>11. Bounded(u.f)
  BY <1>1, <1>2, <1>9 DEF Bounded
<1>12. Contents' = View(u)
  BY <1>8, <1>9, <1>11, Becoming
<1> QED BY <1>1, <1>8, <1>9, <1>10, <1>12

\* A byte is put into the window.
LEMMA PutsByte ==
    ASSUME WindowInv, SeenInv, NEW s, Writable(s), NEW b \in Bytes, WritecPuts(s, b),
           s.f.head < s.f.cache_start + CACHE_SIZE, mode = "idle", MayWrite(1), role # "any",
           buff' = << >>, UNCHANGED <<role, left>>
    PROVE  SeenInv' /\ Plain!Writec(b)
<1> DEFINE o == s.f.head - s.f.cache_start
           c == [i \in Index |-> IF i \in o .. o + 1 - 1 THEN b ELSE s.f.cache[i]]
           e == [i \in Index |-> IF i = o THEN b ELSE s.f.cache[i]]
<1>1. s \in States /\ Bounded(s.f) /\ s.f.head = f.head
  BY DEF Writable
<1>2. s.f.head \in Nat /\ s.f.cache_start \in Nat /\ CACHE_SIZE \in Nat /\ s.f.cache_start <= s.f.head
      /\ f.head \in Nat
  BY <1>1, Parts DEF Bounded
<1>3. o \in Index /\ o \in Nat /\ s.f.head + 1 <= s.f.cache_start + CACHE_SIZE
  BY <1>2 DEF Index
<1>4. /\ disk' = Put(s, e, 1).d /\ f' = Put(s, e, 1).f /\ ret' = 1 /\ mode' = "idle"
  BY <1>3 DEF WritecPuts, Becomes, Put
<1>5. c = e
  <2> HIDE DEF o
  <2>1. \A i \in Index : i \in o .. o + 1 - 1 <=> i = o
    BY <1>2, <1>3 DEF Index
  <2> QED BY <2>1
<1> HIDE DEF e
<1>6. /\ Contents' = Plain!Store(Contents, f.head, [i \in 1 .. 1 |-> b])
      /\ f'.head = f.head + 1 /\ Clean(disk', f') /\ f'.file_size = f.file_size
      /\ role = "inplace" => Len(disk') = Len(disk) /\ Ahead(disk', f')
  <2>1. 1 \in Nat \ {0} /\ mode # "closed"
    OBVIOUS
  <2> QED BY <1>3, <1>4, <1>5, <2>1, PutsBytes
<1>7. [i \in 1 .. 1 |-> b] = <<b>>
  OBVIOUS
<1>8. Plain!Writec(b)
  BY <1>4, <1>6, <1>7 DEF Plain!Writec
<1>9. role # "reader" /\ (role = "inplace" => f.head + 1 <= f.file_size)
  BY DEF MayWrite
<1>10. role \in {"inplace", "append", "log"}
  BY <1>9, FileAssumption DEF WindowInv, FileType
<1>11. role = "inplace" => f'.file_size = Len(disk') /\ f'.head <= Len(disk') /\ Ahead(disk', f')
  BY <1>6, <1>9 DEF SeenInv, Appends
<1>12. left = 0
  BY DEF SeenInv, InCall
<1>13. SeenInv'
  BY <1>4, <1>6, <1>9, <1>10, <1>11, <1>12 DEF SeenInv, InCall, Appends
<1> QED BY <1>8, <1>13

\* Writing a byte.
LEMMA WritecSeen ==
    ASSUME WindowInv, SeenInv, OnlyReadersFail, NEW b \in Bytes, io300_writec(b)
    PROVE  SeenInv' /\ Plain!Writec(b)
<1>1. /\ mode = "idle" /\ check_invariants(f) /\ MayWrite(1) /\ buff' = << >> /\ UNCHANGED <<role, left>>
      /\ FileType /\ role # "any" /\ role # "reader"
  BY Succeeds DEF io300_writec, Ready, WindowInv, MayWrite
<1>2. WriteOutcomes = {All} /\ ReadOutcomes = {TRUE} /\ All # Fail
  <2>1. WriteOutcomes = {All} /\ ReadOutcomes = {TRUE}
    BY <1>1, Succeeds
  <2>2. All \in Nat
    BY Outcomes
  <2> QED BY <2>1, <2>2 DEF Fail
<1>3. /\ f.head \in Nat /\ f.cache_start \in Nat /\ f.cache_end \in Nat /\ CACHE_SIZE \in Nat \ {0}
      /\ f.file_size \in Nat /\ Len(disk) \in Nat
  BY <1>1, HereStates
<1>4. CASE f.head # f.cache_end /\ WritecPuts(Here, b)
  <2>1. Writable(Here) /\ Here.f = f
    BY <1>1, HereWritable, HereStates
  <2>2. f.head < f.cache_start + CACHE_SIZE
    BY <1>1, <1>3, <1>4 DEF check_invariants
  <2> QED BY <1>1, <1>4, <2>1, <2>2, PutsByte
<1>5. ASSUME f.head = f.cache_end, NEW n \in WriteOutcomes, NEW ok \in ReadOutcomes,
             WritecPuts(io300_fetch(Here, n, ok), b)
      PROVE  SeenInv' /\ Plain!Writec(b)
  <2> DEFINE s == io300_fetch(Here, n, ok)
  <2>1. Writable(s) /\ s.f.cache_start = s.f.head
    BY <1>1, <1>5, FetchedWritable
  <2>2. WritecPuts(s, b)
    BY <1>5
  <2> HIDE DEF s
  <2>3. s.f.head < s.f.cache_start + CACHE_SIZE
    BY <1>3, <2>1, Parts DEF Writable
  <2> QED BY <1>1, <2>1, <2>2, <2>3, PutsByte
<1>6. ASSUME f.head >= Len(disk), WritecPuts(io300_flush(Here, All), b)
      PROVE  SeenInv' /\ Plain!Writec(b)
  <2> DEFINE s == io300_flush(Here, All)
  <2>1. role # "inplace"
    <3>1. role = "inplace" => f.head + 1 <= f.file_size /\ f.file_size = Len(disk)
      BY <1>1 DEF MayWrite, SeenInv, Appends
    <3> QED BY <1>3, <1>6, <3>1
  <2>2. Writable(s) /\ s.f.cache_start = s.f.head
    BY <1>1, <2>1, FlushedWritable, HereStates
  <2>3. WritecPuts(s, b)
    BY <1>6
  <2> HIDE DEF s
  <2>4. s.f.head < s.f.cache_start + CACHE_SIZE
    BY <1>3, <2>2, Parts DEF Writable
  <2> QED BY <1>1, <2>2, <2>3, <2>4, PutsByte
<1> QED BY <1>2, <1>4, <1>5, <1>6 DEF io300_writec

\* Writing a block, one window at a time.
LEMMA WriteSeen ==
    ASSUME WindowInv, SeenInv, OnlyReadersFail, NEW b \in Bytes, io300_write(b)
    PROVE  SeenInv' /\ \E n \in Sizes : \E k \in 1 .. n : Plain!Put(k, b)
<1>1. PICK n \in WriteOutcomes, ok \in ReadOutcomes :
        LET s == IF ~ WriteFull THEN Here
                 ELSE IF f.head < f.file_size THEN io300_fetch(Here, n, ok)
                 ELSE io300_flush([Here EXCEPT !.f.cache_end = f.head], n)
            o == s.f.head - s.f.cache_start
            k == Lesser(left, CACHE_SIZE - o)
        IN  /\ WriteFull /\ f.head >= f.file_size => n # Fail
            /\ Becomes([s EXCEPT
                 !.f.cache = [i \in Index |-> IF i \in o .. o + k - 1 THEN b ELSE @[i]],
                 !.f.head = @ + k, !.f.dirty = TRUE])
            /\ ret' = ret + k /\ left' = left - k
  BY DEF io300_write
<1> DEFINE h == [Here EXCEPT !.f.cache_end = f.head]
           s == IF ~ WriteFull THEN Here
                ELSE IF f.head < f.file_size THEN io300_fetch(Here, n, ok)
                ELSE io300_flush(h, n)
           k == Lesser(left, CACHE_SIZE - (s.f.head - s.f.cache_start))
           c == [i \in Index |-> IF i \in s.f.head - s.f.cache_start .. s.f.head - s.f.cache_start + k - 1
                                 THEN b ELSE s.f.cache[i]]
<1>2. /\ FileType /\ mode = "write" /\ mode' = mode /\ role' = role /\ buff' = buff /\ left \in Nat /\ left > 0
      /\ Bounded(f) /\ role # "any" /\ KnownWindow /\ role # "reader"
      /\ (WriteFetches => check_invariants(f))
  BY Succeeds DEF io300_write, WindowInv, FileType, Bounded, KnownWindow
<1>3. /\ Here \in States /\ Here.d = disk /\ Here.f = f /\ f.head \in Nat /\ f.cache_end \in Nat
      /\ f.cache_start \in Nat /\ f.file_size \in Nat /\ CACHE_SIZE \in Nat \ {0} /\ Len(disk) \in Nat
  BY <1>2, HereStates
<1>4. n = All
  BY <1>2, Succeeds
<1>5. role = "inplace" => f.head + left <= f.file_size /\ f.file_size = Len(disk)
  BY <1>2 DEF SeenInv, Appends
<1>6. Writable(s) /\ s.f.head < s.f.cache_start + CACHE_SIZE
  <2>1. CASE ~ WriteFull
    <3>1. s = Here
      BY <2>1
    <3> HIDE DEF s
    <3>2. f.head < f.cache_start + CACHE_SIZE
      BY <1>2, <1>3, <2>1 DEF WriteFull, Bounded
    <3> QED BY <1>2, <1>3, <3>1, <3>2, HereWritable
  <2>2. CASE WriteFull /\ f.head < f.file_size
    <3>1. s = io300_fetch(Here, n, ok)
      BY <2>2
    <3> HIDE DEF s
    <3>2. check_invariants(f)
      BY <1>2, <2>2 DEF WriteFetches
    <3>3. f.head = f.cache_end
      BY <1>3, <2>2, <3>2 DEF check_invariants, WriteFull
    <3>4. Writable(s) /\ s.f.cache_start = s.f.head
      BY <1>2, <3>1, <3>2, <3>3, FetchedWritable
    <3> QED BY <1>3, <3>4, Parts DEF Writable
  <2>3. CASE WriteFull /\ ~ f.head < f.file_size
    <3>1. s = io300_flush(h, All)
      BY <1>4, <2>3
    <3>2. /\ h \in States /\ h.d = disk /\ h.f.head = f.head /\ h.f.cache_start = f.cache_start
          /\ h.f.cache = f.cache /\ h.f.dirty = f.dirty /\ h.f.file_size = f.file_size
      BY <1>3 DEF States, FileRecords
    <3> HIDE DEF s, h
    <3>3. role # "inplace"
      BY <1>2, <1>3, <1>5, <2>3
    <3>4. Writable(s) /\ s.f.cache_start = s.f.head
      BY <1>2, <3>1, <3>2, <3>3, FlushedWritable
    <3> QED BY <1>3, <3>4, Parts DEF Writable
  <2> QED BY <2>1, <2>2, <2>3
<1>7. /\ disk' = Put(s, c, k).d /\ f' = Put(s, c, k).f /\ ret' = ret + k /\ left' = left - k
  BY <1>1 DEF Becomes, Put
<1> HIDE DEF s
<1>8. s.f.head \in Nat /\ s.f.cache_start \in Nat /\ s.f.cache_start <= s.f.head
  BY <1>6, Parts DEF Writable, Bounded
<1>9. k \in Nat \ {0} /\ k <= left /\ s.f.head + k <= s.f.cache_start + CACHE_SIZE
  <2>1. left \in Nat /\ left > 0 /\ CACHE_SIZE \in Nat /\ s.f.head < s.f.cache_start + CACHE_SIZE
    BY <1>2, <1>3, <1>6
  <2> QED BY <1>8, <2>1 DEF Lesser
<1>10. c = [i \in Index |-> IF i \in s.f.head - s.f.cache_start .. s.f.head - s.f.cache_start + k - 1
                            THEN b ELSE s.f.cache[i]]
  OBVIOUS
<1> HIDE DEF k, c
<1>11. /\ Contents' = Plain!Store(Contents, f.head, [i \in 1 .. k |-> b])
       /\ f'.head = f.head + k /\ Clean(disk', f') /\ f'.file_size = f.file_size
       /\ role = "inplace" => Len(disk') = Len(disk) /\ Ahead(disk', f')
  <2>1. mode # "closed"
    BY <1>2
  <2> QED BY <1>6, <1>7, <1>9, <1>10, <2>1, PutsBytes
<1>12. Plain!Put(k, b)
  BY <1>2, <1>7, <1>9, <1>11 DEF Plain!Put
<1>13. PICK m \in Sizes : left <= m
  BY <1>2 DEF SeenInv, InCall
<1>14. m \in Nat
  BY FileAssumption
<1>15. left' \in Nat /\ left' <= m /\ k \in 1 .. m
  BY <1>2, <1>7, <1>9, <1>13, <1>14
<1>16. role \in {"inplace", "append", "log"}
  BY <1>2, FileAssumption DEF FileType
<1>17. role = "inplace" => f'.file_size = Len(disk') /\ f'.head <= Len(disk') /\ Ahead(disk', f')
                           /\ f'.head + left' <= f'.file_size
  BY <1>2, <1>3, <1>5, <1>7, <1>9, <1>11
<1>18. SeenInv'
  <2>1. \E x \in Sizes : left' <= x
    BY <1>13, <1>15
  <2>2. ret \in Int /\ buff \in Seq(Octet)
    BY DEF SeenInv
  <2>3. ret' \in Int /\ buff' \in Seq(Octet)
    BY <1>2, <1>7, <1>9, <2>2
  <2> QED BY <1>2, <1>11, <1>16, <1>17, <2>1, <2>3 DEF SeenInv, InCall, Appends
<1> QED BY <1>12, <1>13, <1>15, <1>18

\* Opening shows the file as it is on the disk.
LEMMA OpenSeen ==
    ASSUME WindowInv, SeenInv, OnlyReadersFail, io300_open
    PROVE  SeenInv' /\ Plain!Open
<1> DEFINE g == [NoFile EXCEPT !.file_size = Len(disk)]
           s == [d |-> disk, f |-> g]
<1>1. PICK ok \in ReadOutcomes : Becomes(io300_fetch(s, All, ok))
  BY DEF io300_open
<1> DEFINE u == io300_fetch(s, All, ok)
<1>2. /\ FileType /\ Len(disk) \in Nat /\ disk \in Seq(Octet) /\ CACHE_SIZE \in Nat \ {0}
      /\ mode = "closed" /\ mode' = "idle" /\ buff' = << >> /\ ret' = 0 /\ UNCHANGED <<role, left>>
  BY HereStates DEF WindowInv, io300_open
<1>3. /\ g \in FileRecords /\ g.head = 0 /\ g.cache_start = 0 /\ g.cache_end = 0
      /\ g.file_size = Len(disk) /\ g.dirty = FALSE
  BY <1>2, FreshFile DEF FileRecords
<1>4. s \in States /\ s.d = disk /\ s.f = g
  BY <1>2, <1>3 DEF States
<1> HIDE DEF s, g
<1>5. check_invariants(s.f) /\ s.f.head = s.f.cache_end
  BY <1>2, <1>3, <1>4 DEF check_invariants
<1>6. ok \in BOOLEAN /\ All \in Nat
  BY <1>1, Outcomes
<1>7. u \in States /\ u.f.head = 0 /\ u.f.file_size = Len(disk)
  BY <1>3, <1>4, <1>5, <1>6, Moved
<1>8. /\ u.d = View(s) /\ ~ u.f.dirty /\ u.f.cache_start = u.f.head /\ Ahead(u.d, u.f)
  BY <1>3, <1>4, <1>5, <1>6, FetchView
<1>9. disk' = u.d /\ f' = u.f
  BY <1>1 DEF Becomes
<1> HIDE DEF u
<1>10. u.d = disk
  BY <1>3, <1>4, <1>8 DEF View
<1>11. Contents = disk /\ f.head = 0 /\ left = 0
  <2>1. f = NoFile /\ left = 0
    BY <1>2 DEF SeenInv, InCall
  <2> QED BY <2>1, FreshFile DEF Contents
<1>12. Contents' = disk
  BY <1>8, <1>9, <1>10 DEF Contents
<1>13. Clean(u.d, u.f)
  BY <1>7, <1>8 DEF Clean
<1>14. buff' \in Seq(Octet) /\ ret' \in Int
  BY <1>2
<1>15. SeenInv'
  BY <1>2, <1>7, <1>8, <1>9, <1>10, <1>11, <1>13, <1>14 DEF SeenInv, InCall
<1> QED BY <1>2, <1>7, <1>9, <1>11, <1>12, <1>15 DEF Plain!Open

\* Where the cache is written back if it has to be, the disk is what is seen.
LEMMA WrittenBack ==
    ASSUME WindowInv, SeenInv, OnlyReadersFail, mode # "closed", NEW n \in WriteOutcomes
    PROVE  LET s == IF f.dirty THEN io300_flush(Here, n) ELSE Here
           IN  s \in States /\ s.d = Contents /\ s.f.dirty = FALSE /\ s.f.file_size = f.file_size
<1>1. /\ Contents = View(Here) /\ Bounded(f) /\ Here \in States /\ Here.d = disk /\ Here.f = f /\ FileType
  BY Seeing DEF WindowInv
<1>2. CASE f.dirty
  <2>1. n = All /\ All \in Nat
    BY <1>1, <1>2, Succeeds, Outcomes DEF SeenInv
  <2>2. io300_flush(Here, n).d = View(Here)
    BY <1>1, <1>2, <2>1, FlushView
  <2>3. /\ io300_flush(Here, n) \in States /\ io300_flush(Here, n).f.dirty = FALSE
        /\ io300_flush(Here, n).f.file_size = f.file_size
    BY <1>1, <2>1, Flushes
  <2> QED BY <1>1, <1>2, <2>2, <2>3
<1>3. CASE ~ f.dirty
  <2>1. View(Here) = disk /\ f.dirty = FALSE
    BY <1>1, <1>3, HereStates DEF View
  <2> QED BY <1>1, <1>3, <2>1
<1> QED BY <1>2, <1>3

\* Closing leaves on the disk what was seen.
LEMMA CloseSeen ==
    ASSUME WindowInv, SeenInv, OnlyReadersFail, io300_close
    PROVE  SeenInv' /\ Plain!Close
<1>1. PICK n \in WriteOutcomes : disk' = IF f.dirty THEN io300_flush(Here, n).d ELSE disk
  BY DEF io300_close
<1>2. /\ mode = "idle" /\ mode' = "closed" /\ f' = NoFile /\ buff' = << >> /\ ret' = 0 /\ left' = left
      /\ left = 0 /\ FileType /\ Here.d = disk
  BY HereStates DEF io300_close, Ready, SeenInv, InCall, WindowInv
<1>3. disk' = Contents
  <2> DEFINE s == IF f.dirty THEN io300_flush(Here, n) ELSE Here
  <2>1. s.d = Contents
    BY <1>2, WrittenBack
  <2> QED BY <1>1, <1>2, <2>1
<1>4. Contents' = disk'
  BY <1>2, FreshFile DEF Contents
<1>5. buff' \in Seq(Octet) /\ ret' \in Int
  BY <1>2
<1>6. Clean(disk, f)'
  BY <1>2, FreshFile DEF Clean
<1>7. SeenInv'
  BY <1>2, <1>5, <1>6, FreshFile DEF SeenInv, InCall
<1> QED BY <1>2, <1>3, <1>4, <1>7, FreshFile DEF Plain!Close

\* Seeking within the file.
LEMMA SeekSeen ==
    ASSUME WindowInv, SeenInv, OnlyReadersFail, NEW p \in Offsets, io300_seek(p)
    PROVE  SeenInv' /\ Plain!Seek(p)
<1>1. PICK n \in WriteOutcomes, ok \in ReadOutcomes :
        LET s == IF f.dirty THEN io300_flush(Here, n) ELSE Here
            k == IF ok THEN Available(s.d, p, Lesser(CACHE_SIZE, s.f.file_size - p)) ELSE 0
            g == [s.f EXCEPT !.head = p, !.cache_start = p, !.cache_end = p]
        IN  Becomes([s EXCEPT !.f =
                IF p < 0 THEN @
                ELSE IF p > g.file_size THEN [g EXCEPT !.file_size = p]
                ELSE [g EXCEPT !.cache = ReadInto(@, s.d, p, k), !.cache_end = p + k]])
  BY DEF io300_seek
<1> DEFINE s == IF f.dirty THEN io300_flush(Here, n) ELSE Here
           m == Lesser(CACHE_SIZE, s.f.file_size - p)
           k == IF ok THEN Available(s.d, p, m) ELSE 0
           g == [s.f EXCEPT !.head = p, !.cache_start = p, !.cache_end = p]
           h == [g EXCEPT !.file_size = p]
           i == [g EXCEPT !.cache = ReadInto(@, s.d, p, k), !.cache_end = p + k]
<1>2. /\ FileType /\ mode = "idle" /\ buff' = << >> /\ ret' = (IF p < 0 THEN -1 ELSE p)
      /\ UNCHANGED <<mode, role, left>> /\ ~ Appends /\ p \in 0 .. f.file_size /\ left = 0
  BY Succeeds DEF io300_seek, WindowInv, Ready, MaySeek, SeenInv, InCall
<1>3. p \in Nat /\ p <= f.file_size /\ f.file_size = Len(disk) /\ Len(disk) \in Nat /\ CACHE_SIZE \in Nat
  BY <1>2, HereStates DEF SeenInv
<1>4. s \in States /\ s.d = Contents /\ s.f.dirty = FALSE /\ s.f.file_size = f.file_size
  BY <1>2, WrittenBack
<1>5. disk' = s.d /\ f' = IF p < 0 THEN s.f ELSE IF p > g.file_size THEN h ELSE i
  BY <1>1, <1>4 DEF Becomes, States
<1> HIDE DEF s
<1>6. s.f \in FileRecords /\ s.d \in Seq(Octet) /\ Len(s.d) \in Nat
  BY <1>4, Parts
<1>7. Len(s.d) = Len(disk)
  <2>1. Contents = View(Here) /\ Bounded(f) /\ Here \in States /\ Here.d = disk /\ Here.f = f
    BY <1>2, Seeing
  <2>2. Ahead(disk, f) /\ f.head <= Len(disk)
    BY <1>2 DEF SeenInv
  <2> QED BY <1>4, <2>1, <2>2, ViewAhead
<1>8. g \in FileRecords /\ g.head = p /\ g.cache_start = p /\ g.file_size = f.file_size /\ g.dirty = FALSE
  <2> DEFINE g1 == [s.f EXCEPT !.head = p]
             g2 == [g1 EXCEPT !.cache_start = p]
  <2>1. g1 \in FileRecords /\ g1.head = p /\ g1.file_size = f.file_size /\ g1.dirty = FALSE
    BY <1>3, <1>4, <1>6 DEF FileRecords
  <2>2. g = [g2 EXCEPT !.cache_end = p]
    OBVIOUS
  <2> HIDE DEF g1, g
  <2>3. /\ g2 \in FileRecords /\ g2.head = p /\ g2.cache_start = p
        /\ g2.file_size = f.file_size /\ g2.dirty = FALSE
    BY <1>3, <2>1 DEF FileRecords
  <2> HIDE DEF g2
  <2> QED BY <1>3, <2>2, <2>3 DEF FileRecords
<1> HIDE DEF g
<1>9. f' = i
  <2>1. ~ p < 0 /\ ~ p > g.file_size
    BY <1>3, <1>8
  <2> QED BY <1>5, <2>1, Zenon
<1>10. k \in Nat /\ k <= CACHE_SIZE /\ p + k <= Len(s.d)
  <2>1. m \in Nat /\ m <= CACHE_SIZE /\ ok \in BOOLEAN
    BY <1>3, <1>4, Outcomes DEF Lesser
  <2> HIDE DEF m
  <2>2. Available(s.d, p, m) \in Nat /\ Available(s.d, p, m) <= m
        /\ (Available(s.d, p, m) > 0 => p + Available(s.d, p, m) <= Len(s.d))
    BY <1>3, <1>6, <2>1, Reads
  <2> QED BY <1>3, <1>6, <1>7, <2>1, <2>2
<1> HIDE DEF k
<1> DEFINE c == ReadInto(g.cache, s.d, p, k)
           i1 == [g EXCEPT !.cache = c]
<1>11. i = [i1 EXCEPT !.cache_end = p + k]
  OBVIOUS
<1>12. c = [j \in Index |-> IF j < k THEN s.d[p + j + 1] ELSE g.cache[j]]
  <2>1. Available(s.d, p, k) = k
    BY <1>3, <1>6, <1>10 DEF Available, Lesser, Greater
  <2> QED BY <2>1 DEF ReadInto
<1> HIDE DEF c
<1>13. /\ i.head = p /\ i.cache_start = p /\ i.cache_end = p + k /\ i.file_size = f.file_size
       /\ i.dirty = FALSE /\ i.cache = c
  <2>1. /\ i1.head = p /\ i1.cache_start = p /\ i1.file_size = f.file_size /\ i1.dirty = FALSE
        /\ i1.cache = c /\ i1 = [g EXCEPT !.cache = c]
    BY <1>8 DEF FileRecords
  <2> HIDE DEF i1, i
  <2> QED BY <1>8, <1>11, <2>1 DEF FileRecords
<1> HIDE DEF i
<1>14. Ahead(s.d, i)
  <2>1. ASSUME NEW j \in i.head .. i.cache_end - 1
        PROVE  j < Len(s.d) /\ i.cache[j - i.cache_start] = s.d[j + 1]
    <3>1. j - p \in Index /\ j - p < k /\ p + (j - p) + 1 = j + 1 /\ j < Len(s.d)
      BY <1>3, <1>6, <1>10, <1>13, <2>1 DEF Index
    <3> QED BY <1>12, <1>13, <3>1
  <2> QED BY <2>1 DEF Ahead
<1>15. Clean(s.d, i)
  BY <1>3, <1>13 DEF Clean
<1>16. Contents' = Contents
  BY <1>4, <1>5, <1>9, <1>13 DEF Contents
<1>17. buff' \in Seq(Octet) /\ ret' = p /\ ret' \in Int
  BY <1>2, <1>3
<1>18. SeenInv'
  BY <1>2, <1>3, <1>5, <1>7, <1>9, <1>13, <1>14, <1>15, <1>17 DEF SeenInv, InCall, Appends
<1> QED BY <1>2, <1>9, <1>13, <1>16, <1>17, <1>18 DEF Plain!Seek

\* Asking for the size.
LEMMA FilesizeSeen ==
    ASSUME WindowInv, SeenInv, OnlyReadersFail, io300_filesize
    PROVE  SeenInv' /\ Plain!Filesize
<1>1. /\ mode = "idle" /\ ~ Appends /\ buff' = << >> /\ ret' = Len(disk)
      /\ UNCHANGED <<disk, f, mode, role, left>> /\ FileType /\ Len(disk) \in Nat
  BY HereStates DEF io300_filesize, Ready, WindowInv
<1>2. Len(Contents) = Len(disk)
  <2>1. Contents = View(Here) /\ Bounded(f) /\ Here \in States /\ Here.d = disk /\ Here.f = f
    BY <1>1, Seeing
  <2>2. Ahead(disk, f) /\ f.head <= Len(disk)
    BY <1>1 DEF SeenInv
  <2> QED BY <2>1, <2>2, ViewAhead
<1>3. Contents' = Contents
  BY <1>1 DEF Contents
<1>4. buff' \in Seq(Octet) /\ ret' \in Int
  BY <1>1
<1>5. SeenInv'
  BY <1>1, <1>4 DEF SeenInv, InCall, Appends, Clean, Ahead
<1> QED BY <1>1, <1>2, <1>3, <1>5 DEF Plain!Filesize

\* A transfer begins.
LEMMA StartSeen ==
    ASSUME WindowInv, SeenInv, OnlyReadersFail, NEW n \in Sizes, Read(n) \/ Write(n)
    PROVE  SeenInv' /\ \E m \in {"read", "write"} : Plain!Start(m, n)
<1>1. /\ mode = "idle" /\ mode' \in {"read", "write"} /\ left' = n /\ ret' = 0 /\ buff' = << >>
      /\ UNCHANGED <<disk, f, role>> /\ (mode' = "read" => ~ Appends) /\ n \in Nat
      /\ (mode' = "write" /\ role = "inplace" => f.head + n <= f.file_size)
  BY FileAssumption DEF Read, Write, Ready, MayRead, MayWrite
<1>2. Contents' = Contents
  BY <1>1 DEF Contents
<1>3. \E x \in Sizes : left' <= x
  BY <1>1
<1>4. buff' \in Seq(Octet) /\ ret' \in Int
  BY <1>1
<1>5. SeenInv'
  BY <1>1, <1>3, <1>4 DEF SeenInv, InCall, Appends, Clean, Ahead
<1>6. Plain!Start(mode', n)
  BY <1>1, <1>2 DEF Plain!Start
<1> QED BY <1>1, <1>5, <1>6

\* A transfer ends.
LEMMA FinishSeen ==
    ASSUME WindowInv, SeenInv, OnlyReadersFail, ReadDone \/ WriteDone
    PROVE  SeenInv' /\ Plain!Finish
<1>1. /\ FileType /\ role # "any" /\ KnownWindow /\ f.head \in Nat /\ f.cache_end \in Nat
      /\ f.cache_start \in Nat /\ f.file_size \in Nat /\ CACHE_SIZE \in Nat /\ f \in FileRecords
  BY Succeeds, HereStates DEF WindowInv
<1>2. CASE ReadDone
  <2>1. /\ mode = "read" /\ mode' = "idle" /\ left' = 0 /\ UNCHANGED <<disk, f, role, buff, ret>>
        /\ left = 0 \/ f.head > f.file_size
    BY <1>2 DEF ReadDone, PastEnd
  <2>2. left = 0
    <3>1. f.file_size = Len(disk) /\ f.head <= Len(disk)
      BY <2>1 DEF SeenInv
    <3> QED BY <1>1, <2>1, <3>1
  <2>3. Contents' = Contents
    BY <2>1 DEF Contents
  <2>4. SeenInv'
    BY <2>1 DEF SeenInv, InCall, Appends, Clean, Ahead
  <2> QED BY <2>1, <2>2, <2>3, <2>4 DEF Plain!Finish
<1>3. CASE WriteDone
  <2>1. /\ mode = "write" /\ left = 0 /\ f' = Extended /\ mode' = "idle"
        /\ UNCHANGED <<disk, role, left, buff, ret>> /\ Bounded(f) /\ role # "reader"
    BY <1>1, <1>3 DEF WriteDone, WindowInv, Bounded, KnownWindow
  <2>2. /\ f'.head = f.head /\ f'.cache_start = f.cache_start /\ f'.cache = f.cache
        /\ f'.dirty = f.dirty /\ f'.file_size = f.file_size
    BY <1>1, <2>1 DEF Extended, FileRecords
  <2>3. Contents' = Contents
    <3>1. Behind(f') = Behind(f)
      BY <2>2 DEF Behind, CacheAt
    <3> QED BY <2>1, <2>2, <3>1 DEF Contents
  <2>4. Clean(disk', f')
    BY <2>1, <2>2 DEF SeenInv, Clean
  <2>5. role = "inplace" => f' = f
    <3>1. role = "inplace" => f.head + left <= f.file_size
      BY <2>1 DEF SeenInv
    <3>2. role = "inplace" => ~ f.cache_end < f.head
      BY <1>1, <2>1, <3>1 DEF KnownWindow, Bounded
    <3> QED BY <2>1, <3>2 DEF Extended
  <2>6. role \in {"inplace", "append", "log"}
    BY <1>1, <2>1, FileAssumption DEF FileType
  <2>7. SeenInv'
    <3>1. CASE role = "inplace"
      BY <2>1, <2>5, <3>1 DEF SeenInv, InCall, Appends, Clean, Ahead
    <3>2. CASE role # "inplace"
      BY <2>1, <2>4, <2>6, <3>2 DEF SeenInv, InCall, Appends
    <3> QED BY <3>1, <3>2
  <2> QED BY <2>1, <2>2, <2>3, <2>7 DEF Plain!Finish
<1> QED BY <1>2, <1>3

\* Every step does what it would on the file itself.
LEMMA SeenNext ==
    ASSUME WindowInv, SeenInv, OnlyReadersFail, [Next]_iovars
    PROVE  SeenInv' /\ [Plain!Next]_(Plain!fvars)
<1>1. FileType /\ role # "any" /\ KnownWindow
  BY Succeeds DEF WindowInv
<1>2. CASE UNCHANGED iovars
  <2>1. UNCHANGED <<disk, f, mode, role, left, buff, ret>>
    BY <1>2 DEF iovars
  <2>2. Contents' = Contents
    BY <2>1 DEF Contents
  <2>3. SeenInv'
    BY <2>1 DEF SeenInv, InCall, Appends, Clean, Ahead
  <2> QED BY <2>1, <2>2, <2>3 DEF Plain!fvars
<1>3. ~ Flush /\ ~ Abort
  <2>1. ~ Flush
    BY <1>1 DEF Flush
  <2>2. ~ Abort
    BY <1>1, WriteAsserts DEF Abort, KnownWindow
  <2> QED BY <2>1, <2>2
<1>4. ~ WriteFails
  <2>1. mode = "write" => role # "reader"
    BY <1>1 DEF KnownWindow
  <2>2. role # "reader" => WriteOutcomes = {All}
    BY <1>1, Succeeds
  <2>3. All # Fail
    BY Outcomes DEF Fail
  <2> QED BY <2>1, <2>2, <2>3 DEF WriteFails
<1>5. CASE io300_open
  BY <1>5, OpenSeen DEF Plain!Next
<1>6. CASE io300_close
  BY <1>6, CloseSeen DEF Plain!Next
<1>7. CASE io300_filesize
  BY <1>7, FilesizeSeen DEF Plain!Next
<1>8. CASE io300_readc
  BY <1>8, ReadcSeen DEF Plain!Next
<1>9. CASE io300_read
  BY <1>9, ReadSeen DEF Plain!Next
<1>10. CASE ReadDone \/ WriteDone
  BY <1>10, FinishSeen DEF Plain!Next
<1>11. CASE Stopped
  BY <1>2, <1>11 DEF Stopped
<1>12. ASSUME NEW p \in Offsets, io300_seek(p) PROVE SeenInv' /\ Plain!Next
  BY <1>12, SeekSeen DEF Plain!Next
<1>13. Written \subseteq Bytes
  BY FileAssumption DEF Written
<1>14. ASSUME NEW b \in Bytes, io300_writec(b) PROVE SeenInv' /\ Plain!Next
  BY <1>14, WritecSeen DEF Plain!Next
<1>15. ASSUME NEW b \in Bytes, io300_write(b) PROVE SeenInv' /\ Plain!Next
  BY <1>15, WriteSeen DEF Plain!Next
<1>16. ASSUME NEW n \in Sizes, Read(n) \/ Write(n) PROVE SeenInv' /\ Plain!Next
  BY <1>16, StartSeen DEF Plain!Next
<1> QED
  BY <1>2, <1>3, <1>4, <1>5, <1>6, <1>7, <1>8, <1>9, <1>10, <1>11, <1>12, <1>13, <1>14, <1>15, <1>16
     DEF Next

(***************************************************************************)
(* The cache of student.c cannot be noticed by the repository's programs:  *)
(* whatever the size of the cache, of the blocks and of the file, every    *)
(* call does what it would on the file itself, and closing loses nothing;  *)
(* a read that fails transfers less, and no more than that.                *)
(***************************************************************************)
THEOREM CacheUnseen == ASSUME OnlyReadersFail PROVE Spec => Transparent
<1>1. Init => WindowInv
  BY InitWindow
<1>2. Init => SeenInv /\ Plain!Init
  <2> SUFFICES ASSUME Init PROVE SeenInv /\ Plain!Init
    OBVIOUS
  <2>1. f = NoFile /\ mode = "closed" /\ left = 0 /\ buff = << >> /\ ret = 0
    BY DEF Init
  <2>2. Clean(disk, f)
    BY <2>1, FreshFile DEF Clean
  <2>3. SeenInv
    BY <2>1, <2>2, FreshFile DEF SeenInv, InCall
  <2> QED BY <2>1, <2>3, FreshFile DEF Plain!Init
<1>3. WindowInv /\ [Next]_iovars => WindowInv'
  <2>1. WindowInv => ReadFaultsApart
    BY Succeeds DEF WindowInv
  <2> QED BY <2>1, WindowNext
<1>4. WindowInv /\ SeenInv /\ [Next]_iovars => SeenInv' /\ [Plain!Next]_(Plain!fvars)
  BY SeenNext
<1> QED BY <1>1, <1>2, <1>3, <1>4, PTL DEF Spec, Transparent, Plain!Spec

-----------------------------------------------------------------------------
(* What is kept while writes fail. *)

\* A client that only writes to a file that was new.
Logging == mode # "closed" /\ Appends /\ f.file_size = 0

\* Nothing is on the disk yet from the window on, and what is in the window
\* was written.
LogInv == Logging => Len(disk) <= f.cache_start /\ (~ f.dirty => f.head = f.cache_start)

\* Such a client is not in the loop of io300_read.
ReadersRead == mode = "read" => MayRead

\* What such a file keeps in a step.
Keeps ==
    /\ Remains(Contents, Contents') /\ SubSeq(disk', 1, Len(disk)) = disk
    /\ role = "append" /\ mode' # "closed" => Len(Contents) <= Len(Contents')

\* What is seen of such a file.
LEMMA LogView ==
    ASSUME WindowInv, LogInv, Logging
    PROVE  /\ FileType /\ role # "any" /\ KnownWindow /\ Bounded(f)
           /\ Here \in States /\ Here.d = disk /\ Here.f = f
           /\ disk \in Seq(Octet) /\ f.cache \in Caches /\ f.cache_start \in Nat /\ Len(disk) \in Nat
           /\ f.head \in Nat /\ CACHE_SIZE \in Nat \ {0} /\ f.cache_start <= f.head
           /\ f.head <= f.cache_start + CACHE_SIZE /\ Len(disk) <= f.cache_start
           /\ Contents = Laid(disk, f.cache_start, f.head, f.cache)
<1>1. FileType /\ role # "any" /\ KnownWindow
  BY DEF WindowInv, Logging, Appends
<1>2. /\ Here \in States /\ Here.d = disk /\ Here.f = f
      /\ disk \in Seq(Octet) /\ f.cache \in Caches /\ f.cache_start \in Nat /\ Len(disk) \in Nat
      /\ f.head \in Nat /\ CACHE_SIZE \in Nat \ {0} /\ f.cache_end \in Nat
  BY <1>1, HereStates
<1>3. mode \in {"idle", "read", "write"}
  BY <1>1 DEF WindowInv, Logging, FileType
<1>4. f.cache_start <= f.head /\ f.head <= f.cache_start + CACHE_SIZE
  BY <1>1, <1>2, <1>3 DEF WindowInv, KnownWindow, check_invariants
<1>5. Len(disk) <= f.cache_start /\ (~ f.dirty => f.head = f.cache_start)
  BY DEF LogInv
<1>6. Contents = View(Here)
  BY <1>2, <1>4, ContentsView DEF Contents, Bounded
<1>7. View(Here) = Laid(disk, f.cache_start, f.head, f.cache)
  BY <1>2, <1>5 DEF View, Laid
<1> QED BY <1>1, <1>2, <1>4, <1>5, <1>6, <1>7 DEF Bounded

\* Less of the window laid over the disk is a prefix.
LEMMA LaidPart ==
    ASSUME NEW d \in Seq(Octet), NEW c \in Caches, NEW a \in Nat, NEW h \in a .. a + CACHE_SIZE,
           Len(d) <= a, NEW g \in a .. h
    PROVE  LET x == Laid(d, a, g, c)
               y == Laid(d, a, h, c)
           IN  /\ x \in Seq(Octet) /\ y \in Seq(Octet)
               /\ Len(d) <= Len(x) /\ Len(x) <= Len(y) /\ Len(y) <= h /\ Len(x) <= g
               /\ \A i \in 1 .. Len(x) : x[i] = y[i]
               /\ \A i \in 1 .. Len(d) : x[i] = d[i]
<1> DEFINE x == Laid(d, a, g, c)
           y == Laid(d, a, h, c)
<1>1. CACHE_SIZE \in Nat /\ g \in Nat /\ h \in Nat /\ a <= g /\ g <= h /\ h <= a + CACHE_SIZE /\ Len(d) \in Nat
  BY CacheAssumption
<1>2. /\ x \in Seq(Octet) /\ Len(x) = (IF g = a THEN Len(d) ELSE Greater(Len(d), g))
      /\ \A i \in 1 .. Len(x) : x[i] = LaidAt(d, a, g, c, i)
  <2>1. g \in a .. a + CACHE_SIZE
    BY <1>1
  <2> QED BY <2>1, LaidIs
<1>3. /\ y \in Seq(Octet) /\ Len(y) = (IF h = a THEN Len(d) ELSE Greater(Len(d), h))
      /\ \A i \in 1 .. Len(y) : y[i] = LaidAt(d, a, h, c, i)
  BY LaidIs
<1> HIDE DEF x, y
<1>4. Len(d) <= Len(x) /\ Len(x) <= Len(y) /\ Len(y) <= h /\ Len(x) <= g
  BY <1>1, <1>2, <1>3 DEF Greater
<1>5. Len(x) \in Nat /\ Len(y) \in Nat
  BY <1>2, <1>3
<1>6. ASSUME NEW i \in 1 .. Len(x) PROVE x[i] = y[i]
  <2>1. i \in 1 .. Len(y) /\ (i \in a + 1 .. g <=> i \in a + 1 .. h)
    BY <1>1, <1>4, <1>5
  <2> QED BY <1>2, <1>3, <2>1 DEF LaidAt
<1>7. ASSUME NEW i \in 1 .. Len(d) PROVE x[i] = d[i]
  <2>1. i \in 1 .. Len(x) /\ i \notin a + 1 .. g /\ i <= Len(d)
    BY <1>1, <1>4, <1>5
  <2> QED BY <1>2, <2>1 DEF LaidAt
<1> QED BY <1>2, <1>3, <1>4, <1>6, <1>7 DEF x, y

\* The disk is a prefix of what it becomes.
LEMMA DiskKept ==
    ASSUME NEW d \in Seq(Octet), NEW x \in Seq(Octet), Len(d) <= Len(x), \A i \in 1 .. Len(d) : x[i] = d[i]
    PROVE  SubSeq(x, 1, Len(d)) = d
<1>1. Len(d) \in Nat /\ 0 \in Nat /\ (Len(d) > 0 => 0 + Len(d) <= Len(x)) /\ 0 + 1 = 1 /\ 0 + Len(d) = Len(d)
  OBVIOUS
<1>2. \A i \in 1 .. Len(d) : d[i] = x[0 + i]
  OBVIOUS
<1>3. d = SubSeq(x, 0 + 1, 0 + Len(d))
  BY <1>1, <1>2, Section
<1> QED BY <1>1, <1>3

\* Where bytes are put: into the window as it is, or into the next one after a
\* flush that has written the window up to g.
Origin(s) ==
    \/ s.d = disk /\ s.f.cache_start = f.cache_start /\ s.f.cache = f.cache
    \/ /\ s.f.cache_start = f.head
       /\ \E g \in f.cache_start .. f.head :
            s.d = Laid(disk, f.cache_start, g, f.cache) /\ (g = f.head \/ role = "log")

\* The state u is s after k bytes were put at its position.
After(u, s, k) ==
    /\ u \in States /\ u.d = s.d /\ u.f.head = s.f.head + k /\ u.f.file_size = s.f.file_size
    /\ u.f.cache_start = s.f.cache_start /\ u.f.dirty = TRUE
    /\ \E b \in Octet : PutAt(u.f.cache, s.f.cache, s.f.head - s.f.cache_start, k, b)

\* Putting does that.
LEMMA Puts ==
    ASSUME NEW s \in States, NEW b \in Bytes, NEW k \in Nat,
           NEW c, c = [i \in Index |-> IF i \in s.f.head - s.f.cache_start .. s.f.head - s.f.cache_start + k - 1
                                       THEN b ELSE s.f.cache[i]]
    PROVE  After(Put(s, c, k), s, k)
<1> DEFINE u == Put(s, c, k)
           o == s.f.head - s.f.cache_start
<1>1. s.f.cache \in Caches
  BY Parts
<1>2. b \in Octet
  BY FileAssumption DEF Octet
<1>3. c = [i \in Index |-> IF i \in o .. o + k - 1 THEN b ELSE s.f.cache[i]]
  OBVIOUS
<1> HIDE DEF o
<1>4. c \in Caches
  BY <1>1, <1>2, <1>3 DEF Caches
<1>5. PutAt(c, s.f.cache, o, k, b)
  BY <1>3 DEF PutAt
<1>6. IsPut(u, s, c, k)
  BY <1>4, PutIn
<1> HIDE DEF u
<1> QED BY <1>2, <1>5, <1>6 DEF IsPut, After, o, u

\* Nothing is forgotten by it.
LEMMA PutKeeps ==
    ASSUME WindowInv, LogInv, Logging, NEW s \in States, Origin(s), s.f.head = f.head,
           s.f.cache_start <= s.f.head, NEW k \in Nat \ {0},
           s.f.head + k <= s.f.cache_start + CACHE_SIZE, NEW u, After(u, s, k), disk' = u.d, f' = u.f
    PROVE  Keeps /\ Len(disk') <= f'.cache_start /\ f'.dirty
<1> DEFINE d == disk
           a == f.cache_start
           h == f.head
           c == f.cache
           y == Laid(d, a, h, c)
           e == f'.cache
           z == Contents'
<1>1. /\ d \in Seq(Octet) /\ c \in Caches /\ a \in Nat /\ Len(d) \in Nat /\ h \in Nat
      /\ CACHE_SIZE \in Nat \ {0} /\ a <= h /\ h <= a + CACHE_SIZE /\ Len(d) <= a /\ Contents = y
      /\ h \in a .. a + CACHE_SIZE
  BY LogView
<1>2. /\ u \in States /\ disk' = s.d /\ f'.head = h + k /\ f'.cache_start = s.f.cache_start
      /\ f'.dirty = TRUE /\ e \in Caches /\ s.d \in Seq(Octet) /\ s.f.cache_start \in Nat
  BY Parts DEF After
<1>3. s.f.cache_start <= h /\ h + k <= s.f.cache_start + CACHE_SIZE
  OBVIOUS
<1>4. z = Laid(s.d, s.f.cache_start, h + k, e)
  <2>1. Bounded(u.f)
    BY <1>1, <1>2, <1>3 DEF Bounded
  <2>2. z = View(u)
    BY <1>2, <2>1, Becoming
  <2> QED BY <1>2, <2>2 DEF View
<1> HIDE DEF d, a, h, c, y, e, z
<1>5. /\ z \in Seq(Octet) /\ Len(z) = Greater(Len(s.d), h + k)
      /\ \A i \in 1 .. Len(z) : z[i] = LaidAt(s.d, s.f.cache_start, h + k, e, i)
  <2>1. h + k \in s.f.cache_start .. s.f.cache_start + CACHE_SIZE /\ h + k # s.f.cache_start
    BY <1>1, <1>2, <1>3
  <2> QED BY <1>2, <1>4, <2>1, LaidIs
<1>6. /\ y \in Seq(Octet) /\ Len(y) <= h /\ Len(y) \in Nat
      /\ \A i \in 1 .. Len(y) : y[i] = LaidAt(d, a, h, c, i)
  <2>1. y \in Seq(Octet) /\ Len(y) <= h
    <3>1. h \in a .. h
      BY <1>1
    <3> QED BY <1>1, <3>1, LaidPart DEF y
  <2>2. \A i \in 1 .. Len(y) : y[i] = LaidAt(d, a, h, c, i)
    BY <1>1, LaidIs DEF y
  <2> QED BY <2>1, <2>2
<1>7. Len(y) <= Len(z)
  BY <1>1, <1>2, <1>5, <1>6 DEF Greater
<1>8. Len(s.d) <= s.f.cache_start /\ SubSeq(s.d, 1, Len(d)) = d
      /\ \A i \in 1 .. Len(y) : z[i] = y[i] \/ (role = "log" /\ z[i] = Hole)
  <2>1. CASE s.d = d /\ s.f.cache_start = a /\ s.f.cache = c
    <3>1. SubSeq(s.d, 1, Len(d)) = d
      BY <1>1, <2>1, DiskKept
    <3>2. PICK b \in Octet : PutAt(e, c, h - a, k, b)
      BY <2>1 DEF After, e, a, c, h
    <3>3. ASSUME NEW i \in 1 .. Len(y) PROVE z[i] = y[i]
      <4>1. i \in 1 .. Len(z) /\ (i \in a + 1 .. h + k <=> i \in a + 1 .. h)
        BY <1>1, <1>5, <1>6, <1>7
      <4>2. i \in a + 1 .. h => e[i - 1 - a] = c[i - 1 - a]
        <5> SUFFICES ASSUME i \in a + 1 .. h PROVE e[i - 1 - a] = c[i - 1 - a]
          OBVIOUS
        <5>1. i - 1 - a \in Index /\ i - 1 - a \notin h - a .. h - a + k - 1
          BY <1>1 DEF Index
        <5> QED BY <3>2, <5>1 DEF PutAt
      <4> QED BY <1>5, <1>6, <2>1, <4>1, <4>2 DEF LaidAt
    <3> QED BY <1>1, <2>1, <3>1, <3>3
  <2>2. ASSUME s.f.cache_start = h, NEW g \in a .. h, s.d = Laid(d, a, g, c), g = h \/ role = "log"
        PROVE  /\ Len(s.d) <= s.f.cache_start /\ SubSeq(s.d, 1, Len(d)) = d
               /\ \A i \in 1 .. Len(y) : z[i] = y[i] \/ (role = "log" /\ z[i] = Hole)
    <3>1. /\ Len(d) <= Len(s.d) /\ Len(s.d) <= g
          /\ \A i \in 1 .. Len(s.d) : s.d[i] = y[i]
          /\ \A i \in 1 .. Len(d) : s.d[i] = d[i]
      BY <1>1, <2>2, LaidPart DEF y
    <3>2. SubSeq(s.d, 1, Len(d)) = d
      BY <1>1, <1>2, <3>1, DiskKept
    <3>3. g = h => s.d = y
      BY <2>2 DEF y
    <3>4. Len(s.d) \in Nat /\ Len(s.d) <= h
      BY <1>1, <1>2, <3>1
    <3>5. ASSUME NEW i \in 1 .. Len(y) PROVE z[i] = y[i] \/ (role = "log" /\ z[i] = Hole)
      <4>1. i \in 1 .. Len(z) /\ i \notin h + 1 .. h + k
        BY <1>1, <1>5, <1>6, <1>7
      <4>2. z[i] = IF i <= Len(s.d) THEN s.d[i] ELSE Hole
        BY <1>5, <2>2, <4>1 DEF LaidAt
      <4>3. CASE i <= Len(s.d)
        <5>1. i \in 1 .. Len(s.d)
          BY <3>4, <4>3
        <5> QED BY <3>1, <4>2, <4>3, <5>1
      <4>4. CASE ~ i <= Len(s.d)
        <5>1. g # h
          BY <1>6, <3>3, <4>4
        <5> QED BY <2>2, <4>2, <4>4, <5>1
      <4> QED BY <4>3, <4>4
    <3> QED BY <2>2, <3>2, <3>4, <3>5
  <2> QED BY <2>1, <2>2 DEF Origin, d, a, c, h
<1>9. Remains(y, z)
  BY <1>8 DEF Remains
<1> QED BY <1>1, <1>2, <1>7, <1>8, <1>9 DEF Keeps, d, y, z

\* Steps that change neither file nor disk, but for the end of the window.
LEMMA UnchangedKeeps ==
    ASSUME WindowInv, LogInv, mode # "closed", disk' = disk, role' = role,
           f' = f \/ \E e \in Nat : f' = [f EXCEPT !.cache_end = e]
    PROVE  LogInv' /\ (Logging => Keeps)
<1>1. FileType /\ f \in FileRecords /\ disk \in Seq(Octet)
  BY HereStates DEF WindowInv
<1>2. /\ f'.head = f.head /\ f'.cache_start = f.cache_start /\ f'.cache = f.cache
      /\ f'.dirty = f.dirty /\ f'.file_size = f.file_size
  BY <1>1 DEF FileRecords
<1>3. Logging' => Logging
  BY <1>2 DEF Logging, Appends
<1>4. LogInv'
  BY <1>2, <1>3 DEF LogInv
<1>5. Contents' = Contents
  <2>1. Behind(f') = Behind(f)
    BY <1>2 DEF Behind, CacheAt
  <2> QED BY <1>2, <2>1 DEF Contents
<1>6. ASSUME Logging PROVE Keeps
  <2>1. /\ f.cache_start \in Nat /\ f.head \in Nat /\ CACHE_SIZE \in Nat /\ f.cache_start <= f.head
        /\ f.head <= f.cache_start + CACHE_SIZE /\ f.cache \in Caches
        /\ Contents = Laid(disk, f.cache_start, f.head, f.cache)
    BY <1>6, LogView
  <2>2. f.head \in f.cache_start .. f.cache_start + CACHE_SIZE
    BY <2>1
  <2>3. Contents \in Seq(Octet)
    BY <1>1, <2>1, <2>2, LaidIs
  <2>4. SubSeq(disk, 1, Len(disk)) = disk
    BY <1>1, DiskKept
  <2> QED BY <1>5, <2>3, <2>4 DEF Keeps, Remains
<1> QED BY <1>4, <1>6

\* Only a log is written in part.
NoShortAppends == <<"append", "short">> \notin Faults

\* What a flush writes.
LEMMA FlushOrigin ==
    ASSUME WindowInv, LogInv, Logging, NoShortAppends, NEW n \in WriteOutcomes, n # Fail,
           NEW h \in States, h.d = disk, h.f.head = f.head, h.f.cache_start = f.cache_start,
           h.f.cache = f.cache
    PROVE  /\ Origin(io300_flush(h, n))
           /\ \E g \in f.cache_start .. f.head : io300_flush(h, n).d = Laid(disk, f.cache_start, g, f.cache)
<1> DEFINE s == io300_flush(h, n)
           k == Lesser(n, f.head - f.cache_start)
           g == f.cache_start + k
<1>1. n \in Nat /\ All \in Nat
  BY Outcomes
<1>2. /\ f.cache_start \in Nat /\ f.head \in Nat /\ CACHE_SIZE \in Nat \ {0} /\ f.cache_start <= f.head
      /\ f.head <= f.cache_start + CACHE_SIZE
  BY LogView
<1>3. s \in States /\ s.d = Pwrite(h.d, h.f.cache_start, Behind(h.f), n) /\ s.f.cache_start = f.head
  BY <1>1, Flushes
<1> HIDE DEF s
<1>4. h.f \in FileRecords /\ h.d \in Seq(Octet)
  BY Parts
<1>5. s.d = Laid(disk, f.cache_start, g, f.cache)
  BY <1>1, <1>2, <1>3, <1>4, PartLaid
<1>6. g \in f.cache_start .. f.head
  BY <1>1, <1>2 DEF Lesser
<1>7. g = f.head \/ role = "log"
  <2>1. role # "log" => n = All
    <3>1. role # "log" => ~ MayGoWrong("short")
      BY Zenon DEF Logging, Appends, NoShortAppends, MayGoWrong
    <3>2. n \in {All, Fail} \/ MayGoWrong("short")
      BY Zenon DEF WriteOutcomes
    <3> QED BY <3>1, <3>2
  <2>2. n = All => k = f.head - f.cache_start
    BY <1>2, FileAssumption DEF All, Lesser
  <2> HIDE DEF k
  <2>3. k = f.head - f.cache_start => g = f.head
    BY <1>2
  <2> QED BY <2>1, <2>2, <2>3
<1> HIDE DEF g
<1> QED BY <1>3, <1>5, <1>6, <1>7 DEF Origin, s

\* A byte is appended.
LEMMA WritecKeeps ==
    ASSUME WindowInv, LogInv, ReadFaultsApart, NoShortAppends, Appends, NEW b \in Bytes, io300_writec(b)
    PROVE  LogInv' /\ (Logging => Keeps)
<1>1. FileType /\ mode = "idle" /\ check_invariants(f) /\ role' = role /\ (f.file_size = 0 => Logging)
  BY DEF WindowInv, io300_writec, Ready, Logging
<1>2. /\ f.head \in Nat /\ f.cache_start \in Nat /\ f.cache_end \in Nat /\ CACHE_SIZE \in Nat \ {0}
      /\ Len(disk) \in Nat /\ Here \in States /\ Here.d = disk /\ Here.f = f
  BY <1>1, HereStates
<1>3. ASSUME NEW s \in States, s.f.file_size = f.file_size, WritecPuts(s, b),
             Logging => /\ Origin(s) /\ s.f.head = f.head /\ s.f.cache_start <= s.f.head
                        /\ s.f.head + 1 <= s.f.cache_start + CACHE_SIZE
      PROVE  LogInv' /\ (Logging => Keeps)
  <2> DEFINE o == s.f.head - s.f.cache_start
             c == [i \in Index |-> IF i \in o .. o + 1 - 1 THEN b ELSE s.f.cache[i]]
             e == [i \in Index |-> IF i = o THEN b ELSE s.f.cache[i]]
             u == Put(s, e, 1)
  <2>1. disk' = u.d /\ f' = u.f
    BY <1>3 DEF WritecPuts, Becomes, Put
  <2>2. s.f.head \in Nat /\ s.f.cache_start \in Nat /\ o \in Int
    BY <1>3, Parts
  <2>3. c = e
    <3> HIDE DEF o
    <3>1. \A i \in Index : i \in o .. o + 1 - 1 <=> i = o
      BY <1>2, <2>2 DEF Index
    <3> QED BY <3>1
  <2> HIDE DEF e
  <2>4. After(u, s, 1)
    <3>1. 1 \in Nat /\ s \in States
      BY <1>3
    <3> QED BY <2>3, <3>1, Puts
  <2> HIDE DEF u
  <2>5. ASSUME Logging PROVE Keeps /\ Len(disk') <= f'.cache_start /\ f'.dirty
    <3>1. 1 \in Nat \ {0}
      OBVIOUS
    <3> QED BY <1>3, <2>1, <2>4, <2>5, <3>1, PutKeeps
  <2>6. Logging' => Logging
    BY <1>1, <1>3, <2>1, <2>4 DEF Logging, After
  <2> QED BY <2>5, <2>6 DEF LogInv
<1>4. CASE f.head # f.cache_end /\ WritecPuts(Here, b)
  <2>1. f.cache_start <= f.head /\ f.head + 1 <= f.cache_start + CACHE_SIZE
    BY <1>1, <1>2, <1>4 DEF check_invariants
  <2> QED BY <1>2, <1>3, <1>4, <2>1 DEF Origin
<1>5. ASSUME f.head = f.cache_end, f.head < Len(disk), NEW n \in WriteOutcomes, NEW ok \in ReadOutcomes,
             WritecPuts(io300_fetch(Here, n, ok), b)
      PROVE  LogInv' /\ (Logging => Keeps)
  <2> DEFINE s == io300_fetch(Here, n, ok)
  <2>1. s \in States /\ s.f.file_size = f.file_size
    BY <1>1, <1>5, FetchWindow
  <2>2. ~ Logging
    BY <1>1, <1>2, <1>5 DEF LogInv, check_invariants
  <2>3. WritecPuts(s, b)
    BY <1>5
  <2> HIDE DEF s
  <2> QED BY <1>3, <2>1, <2>2, <2>3
<1>6. ASSUME NEW n \in WriteOutcomes, n # Fail, WritecPuts(io300_flush(Here, n), b)
      PROVE  LogInv' /\ (Logging => Keeps)
  <2> DEFINE s == io300_flush(Here, n)
  <2>1. s \in States /\ s.f.file_size = f.file_size /\ s.f.head = f.head /\ s.f.cache_start = f.head
    BY <1>2, <1>6, Outcomes, Flushes
  <2>2. Logging => Origin(s)
    BY <1>2, <1>6, FlushOrigin
  <2>3. WritecPuts(s, b)
    BY <1>6
  <2> HIDE DEF s
  <2> QED BY <1>2, <1>3, <2>1, <2>2, <2>3
<1>7. CASE UNCHANGED <<disk, f, mode>>
  BY <1>1, <1>7, UnchangedKeeps
<1> QED BY <1>4, <1>5, <1>6, <1>7 DEF io300_writec
\* A block is appended, one window at a time.
LEMMA WriteKeeps ==
    ASSUME WindowInv, LogInv, ReadFaultsApart, NoShortAppends, Appends, NEW b \in Bytes, io300_write(b)
    PROVE  LogInv' /\ (Logging => Keeps)
<1>1. PICK n \in WriteOutcomes, ok \in ReadOutcomes :
        LET s == IF ~ WriteFull THEN Here
                 ELSE IF f.head < f.file_size THEN io300_fetch(Here, n, ok)
                 ELSE io300_flush([Here EXCEPT !.f.cache_end = f.head], n)
            o == s.f.head - s.f.cache_start
            k == Lesser(left, CACHE_SIZE - o)
        IN  /\ WriteFull /\ f.head >= f.file_size => n # Fail
            /\ Becomes([s EXCEPT
                 !.f.cache = [i \in Index |-> IF i \in o .. o + k - 1 THEN b ELSE @[i]],
                 !.f.head = @ + k, !.f.dirty = TRUE])
            /\ ret' = ret + k /\ left' = left - k
  BY DEF io300_write
<1> DEFINE h == [Here EXCEPT !.f.cache_end = f.head]
           s == IF ~ WriteFull THEN Here
                ELSE IF f.head < f.file_size THEN io300_fetch(Here, n, ok)
                ELSE io300_flush(h, n)
           k == Lesser(left, CACHE_SIZE - (s.f.head - s.f.cache_start))
           c == [i \in Index |-> IF i \in s.f.head - s.f.cache_start .. s.f.head - s.f.cache_start + k - 1
                                 THEN b ELSE s.f.cache[i]]
           u == Put(s, c, k)
<1>2. /\ FileType /\ mode = "write" /\ role' = role /\ left \in Nat /\ left > 0
      /\ f.cache_start <= f.head /\ f.head <= f.cache_start + CACHE_SIZE
      /\ (WriteFetches => check_invariants(f)) /\ (f.file_size = 0 <=> Logging)
  BY DEF io300_write, WindowInv, FileType, Logging
<1>3. /\ Here \in States /\ Here.d = disk /\ Here.f = f /\ f.head \in Nat /\ f.cache_end \in Nat
      /\ f.cache_start \in Nat /\ f.file_size \in Nat /\ CACHE_SIZE \in Nat \ {0} /\ Len(disk) \in Nat
  BY <1>2, HereStates
<1>4. /\ s \in States /\ s.f.file_size = f.file_size
      /\ Logging => /\ Origin(s) /\ s.f.head = f.head /\ s.f.cache_start <= s.f.head
                    /\ s.f.head < s.f.cache_start + CACHE_SIZE
  <2>1. CASE ~ WriteFull
    <3>1. s = Here
      BY <2>1
    <3> HIDE DEF s
    <3>2. f.head < f.cache_start + CACHE_SIZE
      BY <1>2, <1>3, <2>1 DEF WriteFull
    <3>3. Origin(Here)
      BY <1>3 DEF Origin
    <3> QED BY <1>2, <1>3, <3>1, <3>2, <3>3
  <2>2. CASE WriteFull /\ f.head < f.file_size
    <3>1. s = io300_fetch(Here, n, ok)
      BY <2>2
    <3> HIDE DEF s
    <3>2. check_invariants(f)
      BY <1>2, <2>2 DEF WriteFetches
    <3>3. f.head = f.cache_end
      BY <1>3, <2>2, <3>2 DEF check_invariants, WriteFull
    <3>4. s \in States /\ s.f.file_size = f.file_size
      BY <1>2, <3>1, <3>2, <3>3, FetchWindow
    <3>5. ~ Logging
      BY <1>2, <1>3, <2>2
    <3> QED BY <3>4, <3>5
  <2>3. CASE WriteFull /\ ~ f.head < f.file_size
    <3>1. n # Fail
      BY <1>1, <1>3, <2>3
    <3>2. s = io300_flush(h, n) /\ n \in Nat
      BY <2>3, <3>1, Outcomes
    <3>3. /\ h \in States /\ h.d = disk /\ h.f.head = f.head /\ h.f.cache_start = f.cache_start
          /\ h.f.cache = f.cache /\ h.f.file_size = f.file_size
      BY <1>3 DEF States, FileRecords
    <3> HIDE DEF s, h
    <3> DEFINE w == io300_flush(h, n)
    <3>4. w \in States /\ w.f.head = h.f.head /\ w.f.cache_start = h.f.head /\ w.f.file_size = h.f.file_size
      BY <3>2, <3>3, Flushes
    <3>5. Logging => Origin(w)
      BY <3>1, <3>3, FlushOrigin
    <3> HIDE DEF w
    <3>6. s = w
      BY <3>2 DEF w
    <3>7. s \in States /\ s.f.head = f.head /\ s.f.cache_start = f.head /\ s.f.file_size = f.file_size
      BY <3>3, <3>4, <3>6
    <3> QED BY <1>3, <3>5, <3>6, <3>7
  <2> QED BY <2>1, <2>2, <2>3
<1>5. disk' = u.d /\ f' = u.f
  BY <1>1 DEF Becomes, Put
<1> HIDE DEF s
<1>6. s.f.head \in Nat /\ s.f.cache_start \in Nat
  BY <1>4, Parts
<1>7. ASSUME Logging PROVE LogInv' /\ Keeps
  <2>1. k \in Nat \ {0} /\ s.f.head + k <= s.f.cache_start + CACHE_SIZE
    <3>1. left \in Nat /\ left > 0 /\ CACHE_SIZE \in Nat /\ s.f.head < s.f.cache_start + CACHE_SIZE
          /\ s.f.cache_start <= s.f.head
      BY <1>2, <1>3, <1>4, <1>7
    <3> QED BY <1>6, <3>1 DEF Lesser
  <2> HIDE DEF k
  <2>2. After(u, s, k)
    <3>1. k \in Nat
      BY <2>1
    <3> QED BY <1>4, <3>1, Puts
  <2> HIDE DEF u
  <2>3. Keeps /\ Len(disk') <= f'.cache_start /\ f'.dirty
    BY <1>4, <1>5, <1>7, <2>1, <2>2, PutKeeps
  <2> QED BY <2>3 DEF LogInv
<1>8. ASSUME ~ Logging PROVE LogInv'
  <2>1. f'.file_size = f.file_size
    <3> HIDE DEF c, k
    <3> QED BY <1>4, <1>5 DEF Put, States, FileRecords
  <2> QED BY <1>2, <1>8, <2>1 DEF LogInv, Logging
<1> QED BY <1>7, <1>8

\* Closing writes the window, part of it, or nothing.
LEMMA CloseKeeps ==
    ASSUME WindowInv, LogInv, NoShortAppends, io300_close
    PROVE  LogInv' /\ (Logging => Keeps)
<1>1. PICK n \in WriteOutcomes : disk' = IF f.dirty THEN io300_flush(Here, n).d ELSE disk
  BY DEF io300_close
<1>2. mode' = "closed" /\ f' = NoFile
  BY DEF io300_close
<1>3. LogInv'
  BY <1>2 DEF LogInv, Logging
<1>4. ASSUME Logging PROVE Keeps
  <2> DEFINE a == f.cache_start
             c == f.cache
             y == Laid(disk, a, f.head, c)
  <2>1. /\ Here \in States /\ Here.d = disk /\ Here.f = f
        /\ disk \in Seq(Octet) /\ c \in Caches /\ a \in Nat /\ Len(disk) \in Nat
        /\ f.head \in Nat /\ CACHE_SIZE \in Nat \ {0} /\ a <= f.head
        /\ f.head <= a + CACHE_SIZE /\ Len(disk) <= a /\ Contents = y
    BY <1>4, LogView
  <2>2. PICK g \in a .. f.head : disk' = Laid(disk, a, g, c)
    <3>1. CASE f.dirty /\ n # Fail
      BY <1>1, <1>4, <2>1, <3>1, FlushOrigin
    <3>2. CASE ~ (f.dirty /\ n # Fail)
      <4>1. disk' = disk
        BY <1>1, <2>1, <3>2 DEF io300_flush
      <4>2. Laid(disk, a, a, c) = disk
        BY DEF Laid
      <4> QED BY <2>1, <4>1, <4>2
    <3> QED BY <3>1, <3>2
  <2>3. Contents' = disk'
    BY <1>2, FreshFile DEF Contents
  <2>4. f.head \in a .. a + CACHE_SIZE
    BY <2>1
  <2> HIDE DEF a, c
  <2>5. /\ disk' \in Seq(Octet) /\ y \in Seq(Octet) /\ Len(disk) <= Len(disk') /\ Len(disk') <= Len(y)
        /\ \A i \in 1 .. Len(disk') : disk'[i] = y[i]
        /\ \A i \in 1 .. Len(disk) : disk'[i] = disk[i]
    BY <2>1, <2>2, <2>4, LaidPart
  <2> HIDE DEF y
  <2>6. SubSeq(disk', 1, Len(disk)) = disk
    BY <2>1, <2>5, DiskKept
  <2>7. Remains(y, disk')
    <3> SUFFICES ASSUME NEW i \in 1 .. Len(y), i <= Len(disk') PROVE disk'[i] = y[i]
      BY DEF Remains
    <3>1. i \in 1 .. Len(disk')
      BY <2>5
    <3> QED BY <2>5, <3>1
  <2> QED BY <1>2, <2>1, <2>3, <2>6, <2>7 DEF Keeps
<1> QED BY <1>3, <1>4

\* The file is new: its window starts at its end.
LEMMA OpenKeeps ==
    ASSUME WindowInv, ReadFaultsApart, io300_open PROVE LogInv'
<1> DEFINE g == [NoFile EXCEPT !.file_size = Len(disk)]
           s == [d |-> disk, f |-> g]
<1>1. PICK ok \in ReadOutcomes : Becomes(io300_fetch(s, All, ok))
  BY DEF io300_open
<1> DEFINE u == io300_fetch(s, All, ok)
<1>2. /\ FileType /\ Len(disk) \in Nat /\ disk \in Seq(Octet) /\ CACHE_SIZE \in Nat \ {0}
  BY HereStates DEF WindowInv
<1>3. /\ g \in FileRecords /\ g.head = 0 /\ g.cache_start = 0 /\ g.cache_end = 0
      /\ g.file_size = Len(disk) /\ g.dirty = FALSE
  BY <1>2, FreshFile DEF FileRecords
<1>4. s \in States /\ s.d = disk /\ s.f = g
  BY <1>2, <1>3 DEF States
<1> HIDE DEF s, g
<1>5. check_invariants(s.f) /\ s.f.head = s.f.cache_end
  BY <1>2, <1>3, <1>4 DEF check_invariants
<1>6. ok \in BOOLEAN /\ All \in Nat
  BY <1>1, Outcomes
<1>7. u \in States /\ u.f.head = 0 /\ u.f.file_size = Len(disk)
  BY <1>3, <1>4, <1>5, <1>6, Moved
<1>8. u.d = View(s) /\ u.f.cache_start = u.f.head
  BY <1>3, <1>4, <1>5, <1>6, FetchView
<1>9. disk' = u.d /\ f' = u.f
  BY <1>1 DEF Becomes
<1> HIDE DEF u
<1>10. u.d = disk
  BY <1>3, <1>4, <1>8 DEF View
<1> QED BY <1>2, <1>7, <1>8, <1>9, <1>10 DEF LogInv, Logging

\* Only a client that may read is in a read.
LEMMA ReadersNext == ASSUME ReadersRead, [Next]_iovars PROVE ReadersRead'
<1>1. CASE role' = role /\ (mode' # "read" \/ mode' = mode \/ MayRead)
  BY <1>1 DEF ReadersRead, MayRead, Appends
<1>2. CASE mode' # "read"
  BY <1>2 DEF ReadersRead
<1>3. CASE io300_open \/ io300_close \/ \E b \in Written : io300_writec(b) \/ io300_write(b)
  <2>1. io300_open \/ io300_close => mode' # "read"
    BY DEF io300_open, io300_close
  <2>2. \A b \in Written : io300_write(b) => mode' # "read"
    BY DEF io300_write
  <2>3. \A b \in Written : \A s : WritecPuts(s, b) => mode' # "read"
    BY DEF WritecPuts
  <2>4. \A b \in Written : io300_writec(b) => mode' # "read"
    BY <2>3 DEF io300_writec, Ready
  <2> QED BY <1>2, <1>3, <2>1, <2>2, <2>4
<1>4. CASE \/ UNCHANGED iovars \/ io300_filesize \/ Flush \/ io300_readc \/ io300_read \/ ReadDone
           \/ WriteFails \/ WriteDone \/ Abort \/ Stopped
           \/ \E p \in Offsets : io300_seek(p)
           \/ \E n \in Sizes : Read(n) \/ Write(n)
  <2>1. role' = role /\ (mode' # "read" \/ mode' = mode \/ MayRead)
    BY <1>4 DEF iovars, io300_filesize, Flush, io300_readc, io300_read, ReadGoesOn, ReadDone,
                WriteFails, WriteDone, Abort, Stopped, io300_seek, Read, Write
  <2> QED BY <1>1, <2>1
<1> QED BY <1>3, <1>4 DEF Next

\* Every step keeps the disk and what is seen.
LEMMA KeepsNext ==
    ASSUME WindowInv, LogInv, ReadersRead, ReadFaultsApart, NoShortAppends, [Next]_iovars
    PROVE  LogInv' /\ (Logging => Keeps)
<1>1. CASE mode = "closed" /\ UNCHANGED iovars
  BY <1>1 DEF iovars, LogInv, Logging
<1>2. ASSUME mode # "closed", disk' = disk, role' = role, f' = f PROVE LogInv' /\ (Logging => Keeps)
  BY <1>2, UnchangedKeeps
<1>3. CASE UNCHANGED iovars \/ Stopped \/ Abort \/ io300_filesize \/ ReadDone \/ \E n \in Sizes : Read(n) \/ Write(n)
  <2>1. disk' = disk /\ f' = f /\ role' = role /\ (mode # "closed" \/ UNCHANGED iovars)
    BY <1>3 DEF iovars, Stopped, Abort, WriteFetches, io300_filesize, ReadDone, Read, Write, Ready
  <2> QED BY <1>1, <1>2, <2>1
<1>4. CASE WriteFails \/ WriteDone
  <2>1. FileType /\ mode # "closed" /\ disk' = disk /\ role' = role
    BY <1>4 DEF WindowInv, WriteFails, WriteDone
  <2>2. f.head \in Nat /\ f.cache_start \in Nat /\ CACHE_SIZE \in Nat
    BY <2>1, HereStates
  <2>3. f' = f \/ f' = [f EXCEPT !.cache_end = f.head] \/ f' = [f EXCEPT !.cache_end = f.cache_start + CACHE_SIZE]
    BY <1>4 DEF WriteFails, WriteDone, Extended
  <2>4. f.cache_start + CACHE_SIZE \in Nat
    BY <2>2
  <2> QED BY <2>1, <2>2, <2>3, <2>4, UnchangedKeeps
<1>5. ASSUME ~ Appends, role' = role PROVE LogInv' /\ (Logging => Keeps)
  BY <1>5 DEF LogInv, Logging, Appends
<1>6. CASE Flush \/ io300_readc \/ io300_read \/ \E p \in Offsets : io300_seek(p)
  <2>1. mode = "read" => ~ Appends
    BY DEF ReadersRead, MayRead
  <2> QED BY <1>5, <1>6, <2>1 DEF Flush, io300_readc, io300_read, io300_seek, MayRead, MaySeek, Appends
<1>7. CASE io300_open
  <2>1. ~ Logging
    BY <1>7 DEF io300_open, Logging
  <2> QED BY <1>7, <2>1, OpenKeeps
<1>8. CASE io300_close
  BY <1>8, CloseKeeps
<1>9. ASSUME NEW b \in Written, io300_writec(b) \/ io300_write(b) PROVE LogInv' /\ (Logging => Keeps)
  <2>1. b \in Bytes
    BY FileAssumption DEF Written
  <2>2. CASE Appends
    BY <1>9, <2>1, <2>2, WritecKeeps, WriteKeeps
  <2>3. CASE ~ Appends
    BY <1>5, <1>9, <2>3 DEF io300_writec, io300_write
  <2> QED BY <2>2, <2>3
<1> QED BY <1>3, <1>4, <1>6, <1>7, <1>8, <1>9 DEF Next

(***************************************************************************)
(* However often student.c's pwrite fails while a client appends to a new  *)
(* file, what is on the disk stays, and what was accepted stays where it   *)
(* belongs: all of it until the file is closed, unless a pwrite was cut    *)
(* short and left a hole.                                                  *)
(***************************************************************************)
THEOREM NothingLost ==
    ASSUME ReadFaultsApart, NoShortAppends PROVE Spec => NothingForgotten
<1>1. Init => WindowInv /\ LogInv /\ ReadersRead
  <2>1. Init => LogInv /\ ReadersRead
    BY DEF Init, LogInv, Logging, ReadersRead
  <2> QED BY <2>1, InitWindow
<1>2. WindowInv /\ [Next]_iovars => WindowInv'
  BY WindowNext
<1>3. ReadersRead /\ [Next]_iovars => ReadersRead'
  BY ReadersNext
<1>4. WindowInv /\ LogInv /\ ReadersRead /\ [Next]_iovars =>
        LogInv' /\ [mode # "closed" /\ Appends /\ f.file_size = 0 =>
                      /\ Remains(Contents, Contents') /\ SubSeq(disk', 1, Len(disk)) = disk
                      /\ role = "append" /\ mode' # "closed" => Len(Contents) <= Len(Contents')]_iovars
  BY KeepsNext DEF Logging, Keeps
<1> QED BY <1>1, <1>2, <1>3, <1>4, PTL DEF Spec, NothingForgotten
=============================================================================
