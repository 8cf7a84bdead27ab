-------------------------------- MODULE Boot --------------------------------
(***************************************************************************)
(* The boot loader (boot.cc): it reads the kernel's ELF image from the     *)
(* disk, sector by sector, and jumps to it.  A byte of the image is its    *)
(* offset in the file plus one, so that every byte tells where it is from. *)
(***************************************************************************)
EXTENDS Integers, Sequences

CONSTANTS
    SECTORSIZE,
    HeaderSize,     \* bytes read as the header (PAGESIZE)
    ELFHDR,         \* scratch space for them
    Keep,           \* addresses of the boot sector and the boot page table
    MemTop,         \* bound: addresses are below
    Images          \* kernel images: [magic, size, ph], ph a sequence of
                    \*   program headers [p_va, p_offset, p_filesz, p_memsz]

KERNEL_START_SECTOR == 1
BootByte == -2      \* the boot sector's and its page table's bytes
Garbage  == -1      \* left by the BIOS, or on the disk behind the image

ASSUME BootAssumption ==
    /\ SECTORSIZE \in Nat \ {0} /\ HeaderSize \in Nat /\ ELFHDR \in Nat /\ MemTop \in Nat
    /\ Keep \subseteq 0 .. MemTop - 1

VARIABLES
    image,      \* the image on the disk
    mem,        \* physical memory, byte by byte
    bpc,        \* "header", "check", "ph", "segment", "done"; "lost" when the
                \*   headers were overwritten
    seg,        \* ph - 1: the last program header looked at
    job,        \* boot_readseg's locals: [ptr, src_sect, end_ptr, memsz]
    ide         \* the disk: [state, sect]; "ready", "busy", "data"

bootVars == <<image, mem, bpc, seg, job, ide>>

FreshMem == [a \in 0 .. MemTop - 1 |-> IF a \in Keep THEN BootByte ELSE Garbage]

\* A sector of the disk; the boot sector is the first.
Sector(n) ==
    [i \in 0 .. SECTORSIZE - 1 |->
        LET o == (n - KERNEL_START_SECTOR) * SECTORSIZE + i
        IN  IF o < 0 THEN BootByte ELSE IF o < image.size THEN o + 1 ELSE Garbage]

-----------------------------------------------------------------------------
(* boot_readseg. *)

RoundDown(a, n) == a - (a % n)

readseg(ptr, sect, filesz, memsz) ==
    [ptr |-> RoundDown(ptr, SECTORSIZE), src_sect |-> sect,
     end_ptr |-> ptr + filesz, memsz |-> ptr + memsz]

\* Where it writes: whole sectors, and what it clears.
Written(va, filesz, memsz) ==
    {a \in 0 .. MemTop - 1 :
        \/ RoundDown(va, SECTORSIZE) <= a /\ RoundDown(a, SECTORSIZE) < va + filesz
        \/ va + filesz <= a /\ a < va + memsz}

Header == ELFHDR .. ELFHDR + HeaderSize - 1
InMemory(h) == h.p_va .. h.p_va + h.p_memsz - 1

\* Images as kernel.ld lays them out and the linker and mkbootdisk store them: a
\* segment has the same offset within a sector in the file as in memory, and the
\* sectors it is read in with hold nothing that is loaded before or in use.
ImageFits(img) ==
    /\ HeaderSize <= img.size
    /\ \A i \in DOMAIN img.ph :
        LET h == img.ph[i]
            w == Written(h.p_va, h.p_filesz, h.p_memsz)
        IN  /\ h.p_va % SECTORSIZE = h.p_offset % SECTORSIZE
            /\ h.p_offset + h.p_filesz <= img.size /\ h.p_va + h.p_memsz <= MemTop
            /\ w \cap Keep = {} /\ w \cap Header = {}
            /\ \A j \in 1 .. i - 1 : w \cap InMemory(img.ph[j]) = {}

ProgramHeader == [p_va : Nat, p_offset : Nat, p_filesz : Nat, p_memsz : Nat]

ASSUME ImageAssumption ==
    /\ Images \subseteq [magic : BOOLEAN, size : Nat, ph : Seq(ProgramHeader)]
    /\ ELFHDR % SECTORSIZE = 0 /\ ELFHDR + HeaderSize <= MemTop
    /\ Written(ELFHDR, HeaderSize, HeaderSize) \cap Keep = {}
    /\ \A img \in Images : ImageFits(img)

Reading   == bpc \in {"header", "segment"} /\ job.ptr < job.end_ptr

\* boot_readsect: once the disk is ready, it is sent the command ...
ReadCommand ==
    /\ Reading /\ ide.state = "ready"
    /\ ide' = [state |-> "busy", sect |-> job.src_sect]
    /\ UNCHANGED <<image, mem, bpc, seg, job>>

\* ... which it carries out in its own time ...
DiskFinds ==
    /\ ide.state = "busy"
    /\ ide' = [ide EXCEPT !.state = "data"]
    /\ UNCHANGED <<image, mem, bpc, seg, job>>

Waited == ide.state = "data"

\* ... and when it is ready again, its words are taken in.
ReadWords ==
    /\ Reading /\ Waited
    /\ mem' = [a \in DOMAIN mem |->
                IF a \in job.ptr .. job.ptr + SECTORSIZE - 1
                THEN IF ide.state = "data" THEN Sector(ide.sect)[a - job.ptr] ELSE Garbage
                ELSE mem[a]]
    /\ ide' = [ide EXCEPT !.state = "ready"]
    /\ job' = [job EXCEPT !.ptr = @ + SECTORSIZE, !.src_sect = @ + 1]
    /\ UNCHANGED <<image, bpc, seg>>

\* Mutant of Cleared: memory is cleared from the next sector on.
Cleared_FromSector == {a \in DOMAIN mem : job.ptr <= a /\ a < job.memsz}

\* What becomes zero: the part of a segment that is not in the file.
Cleared == {a \in DOMAIN mem : job.end_ptr <= a /\ a < job.memsz}

-----------------------------------------------------------------------------
(* boot. *)

\* The header and the program headers are used where they were read to.
HeaderIsThere == \A o \in 0 .. HeaderSize - 1 : mem[ELFHDR + o] = o + 1

BootInit ==
    /\ image \in Images
    /\ mem = FreshMem
    /\ bpc = "header" /\ seg = 0
    /\ job = readseg(ELFHDR, KERNEL_START_SECTOR, HeaderSize, HeaderSize)
    /\ ide = [state |-> "ready", sect |-> 0]

\* The rest of the segment is cleared.
SegmentDone ==
    /\ bpc \in {"header", "segment"} /\ job.ptr >= job.end_ptr
    /\ mem' = [a \in DOMAIN mem |-> IF a \in Cleared THEN 0 ELSE mem[a]]
    /\ bpc' = IF bpc = "header" THEN "check" ELSE "ph"
    /\ UNCHANGED <<image, seg, job, ide>>

CheckMagic ==
    /\ bpc = "check"
    /\ bpc' = IF ~ HeaderIsThere THEN "lost" ELSE IF image.magic THEN "ph" ELSE "check"
    /\ UNCHANGED <<image, mem, seg, job, ide>>

NextSegment ==
    /\ bpc = "ph" /\ seg < Len(image.ph)
    /\ seg' = seg + 1
    /\ bpc' = IF HeaderIsThere THEN "segment" ELSE "lost"
    /\ job' = LET ph == image.ph[seg + 1] IN
              readseg(ph.p_va, KERNEL_START_SECTOR + ph.p_offset \div SECTORSIZE,
                      ph.p_filesz, ph.p_memsz)
    /\ UNCHANGED <<image, mem, ide>>

\* All segments are in; their bytes are not looked at any more.
Jump ==
    /\ bpc = "ph" /\ seg = Len(image.ph)
    /\ bpc' = IF HeaderIsThere THEN "done" ELSE "lost"
    /\ mem' = FreshMem
    /\ UNCHANGED <<image, seg, job, ide>>

BootNext ==
    \/ ReadCommand \/ DiskFinds \/ ReadWords \/ SegmentDone
    \/ CheckMagic \/ NextSegment \/ Jump

-----------------------------------------------------------------------------
(* What the kernel relies on. *)

Segment(ph) ==
    [a \in InMemory(ph) |->
        IF a < ph.p_va + ph.p_filesz THEN ph.p_offset + (a - ph.p_va) + 1 ELSE 0]

\* When the loader jumps, every segment is in memory as linked: the bytes of the
\* file, whatever sectors they straddle, and zeroes where .bss is, although
\* whole sectors were read over it (boot.cc:64).  And nothing that is loaded
\* falls on the loader itself, on the page table it runs on or on the headers it
\* is still reading (boot.cc:26).
ImageLoaded ==
    /\ bpc = "ph" => \A i \in 1 .. seg :
        LET s == Segment(image.ph[i]) IN \A a \in DOMAIN s : mem[a] = s[a]
    /\ bpc # "lost" /\ \A a \in Keep : mem[a] = BootByte
=============================================================================
