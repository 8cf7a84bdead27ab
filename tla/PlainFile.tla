----------------------------- MODULE PlainFile -----------------------------
(***************************************************************************)
(* What io300.h promises: a file is a sequence of bytes with one position, *)
(* at which all transfers take place.  It is what impl/naive.c gets by     *)
(* passing every call on to the operating system, and the behaviour that   *)
(* the caching implementation must have for the programs that use it.      *)
(* A call of read or write transfers its bytes in pieces of any size.      *)
(***************************************************************************)
EXTENDS Integers, Sequences

CONSTANTS
    Bytes,      \* what programs write
    Sizes,      \* the lengths of the blocks they transfer
    Offsets,    \* where they seek to
    Hole        \* what is read where nobody wrote

VARIABLES
    content,    \* the bytes of the file, those not on the disk yet included
    pos,        \* the file position
    mode,       \* "closed", "idle", "read" or "write"
    left,       \* how much of the transfer in progress is left
    buff,       \* what the last read or readc has delivered so far
    ret,        \* what the last call returned
    MayFail     \* may transfers fail for this client?

fvars == <<content, pos, mode, left, buff, ret>>

\* The bytes bs stored in d from offset o on.
Store(d, o, bs) ==
    IF bs = << >> THEN d
    ELSE [i \in 1 .. (IF Len(d) > o + Len(bs) THEN Len(d) ELSE o + Len(bs)) |->
            IF i \in o + 1 .. o + Len(bs) THEN bs[i - o]
            ELSE IF i <= Len(d) THEN d[i] ELSE Hole]

Init ==
    /\ mode = "closed" /\ pos = 0 /\ left = 0 /\ buff = << >> /\ ret = 0

Open ==
    /\ mode = "closed" /\ mode' = "idle"
    /\ pos' = 0 /\ ret' = 0 /\ buff' = << >>
    /\ UNCHANGED <<content, left>>

\* Nothing that was written is lost.
Close ==
    /\ mode = "idle" /\ mode' = "closed"
    /\ pos' = 0 /\ ret' = 0 /\ buff' = << >>
    /\ UNCHANGED <<content, left>>

Seek(p) ==
    /\ mode = "idle"
    /\ pos' = p /\ ret' = p /\ buff' = << >>
    /\ UNCHANGED <<content, mode, left>>

Filesize ==
    /\ mode = "idle"
    /\ ret' = Len(content) /\ buff' = << >>
    /\ UNCHANGED <<content, pos, mode, left>>

Flush ==
    /\ mode = "idle"
    /\ ret' = 0 /\ buff' = << >>
    /\ UNCHANGED <<content, pos, mode, left>>

Readc ==
    /\ mode = "idle"
    /\ \/ /\ pos < Len(content)
          /\ buff' = <<content[pos + 1]>> /\ ret' = 1 /\ pos' = pos + 1
       \/ /\ pos >= Len(content)
          /\ buff' = << >> /\ ret' = -1 /\ UNCHANGED pos
    /\ UNCHANGED <<content, mode, left>>

Writec(b) ==
    /\ mode = "idle"
    /\ content' = Store(content, pos, <<b>>)
    /\ pos' = pos + 1 /\ ret' = 1 /\ buff' = << >>
    /\ UNCHANGED <<mode, left>>

\* A transfer of n bytes begins ...
Start(m, n) ==
    /\ mode = "idle" /\ mode' = m
    /\ left' = n /\ ret' = 0 /\ buff' = << >>
    /\ UNCHANGED <<content, pos>>

\* ... k bytes of it are read ...
Get(k) ==
    /\ mode = "read" /\ k <= left /\ pos + k <= Len(content)
    /\ buff' = buff \o SubSeq(content, pos + 1, pos + k)
    /\ pos' = pos + k /\ left' = left - k /\ ret' = ret + k
    /\ UNCHANGED <<content, mode>>

\* ... or written ...
Put(k, b) ==
    /\ mode = "write" /\ k <= left
    /\ content' = Store(content, pos, [i \in 1 .. k |-> b])
    /\ pos' = pos + k /\ left' = left - k /\ ret' = ret + k
    /\ UNCHANGED <<mode, buff>>

\* ... until all of it is done, or a read meets the end of the file.
Finish ==
    /\ \/ mode \in {"read", "write"} /\ left = 0
       \/ mode = "read" /\ pos >= Len(content)
    /\ mode' = "idle" /\ left' = 0
    /\ UNCHANGED <<content, pos, buff, ret>>

\* A byte is not transferred, a block only in part.
TransferFails ==
    /\ MayFail
    /\ \/ mode = "idle" /\ ret' = -1 /\ buff' = << >>
       \/ mode = "read" /\ UNCHANGED <<buff, ret>>
       \/ mode = "write" /\ ret' = -1 /\ UNCHANGED buff
    /\ mode' = "idle" /\ left' = 0
    /\ UNCHANGED <<content, pos>>

Next ==
    \/ TransferFails \/ Open \/ Close \/ Filesize \/ Flush \/ Readc \/ Finish
    \/ \E p \in Offsets : Seek(p)
    \/ \E b \in Bytes : Writec(b)
    \/ \E m \in {"read", "write"}, n \in Sizes : Start(m, n)
    \/ \E n \in Sizes : \E k \in 1 .. n : Get(k) \/ \E b \in Bytes : Put(k, b)

Spec == Init /\ [][Next]_fvars
=============================================================================
