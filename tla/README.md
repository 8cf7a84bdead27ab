# WeensyOS and io300 in TLA+

The repository holds two programs that share no code:

* `src/weensyos`: a small x86-64 kernel with its boot loader, its C library and
  three user programs;
* `src/fileio`: `io300`, a file library with three implementations (a caching
  one, one that passes every call to the operating system, one on stdio) and the
  programs that test it.

This directory models the parts that keep state: of the kernel its page
accounting, page tables, system calls and scheduler, its memory viewer, console,
number conversions and keyboard; around it the boot loader, the set-up of the
hardware, soft reboots and power-off, the loading of programs, the way of
registers into and out of the kernel, and backtraces; of io300 all three
implementations and the test programs. The modules are checked on small instances
with TLC, and most of the safety properties are proved with TLAPS for every instance.

## 1. Inventory

| component | state | operations | interacts with | hard because | correct if |
|---|---|---|---|---|---|
| page allocator (`kernel.cc:100-147`) | `pages[].refcount`, 8 bits each | `kalloc`, `kfree` | everything that owns a page | nobody checks that a page is freed once; counters wrap | a counter is the number of references |
| process set-up, boot (`kernel.cc:46-252`) | kernel page table, `ptable` | `kernel`, `process_setup` | allocator, loader, page tables | results of `kalloc` are not tested; a soft reboot keeps memory | memory suffices; nothing survives a reset |
| system calls (`kernel.cc:345-493`) | registers of `current`, `ptable` | getpid, yield, page_alloc, fork, exit, panic | allocator, page tables, scheduler | fork can fail at every page and table it copies | a failed call changes nothing; memory is private |
| exceptions, scheduler (`kernel.cc:270-329, 495-539`, `k-exception.S`) | `current`, `ticks` | timer, page fault, `schedule`, `run` | all processes | the timer comes between any two user instructions | nobody starves; what runs is runnable |
| page tables and iterators (`k-vmiter.*`) | the tables; position of an iterator | `find`, `next`, `next_range`, `try_map`; `ptiter` | set-up, fork, exit, viewer | iterators remember a position; tables are freed while they are walked | a walk agrees with the mapping; each table is freed once |
| memory viewer (`k-memviewer.cc`, `kernel.cc:541-570`) | one page of marks, who is shown | `refresh`, `symbol_at`, `memshow` | reads everything, at every entry | looks at processes that are broken or half built | the map agrees with the allocator |
| keyboard, power (`k-hardware.cc:444-540, 728-790`) | modifiers, escape prefix, bytes in the controller | `keyboard_readc`, `check_keyboard`, `poweroff` | called on every entry, in `schedule`, after a panic | one byte per poll, long after the key; a reboot forgets what is held | no modifier is stuck; the machine goes off on purpose only |
| boot loader (`bootentry.S`, `boot.cc`) | memory, the disk's command | `boot`, `boot_readseg`, `boot_readsect` | disk, kernel | reads whole sectors over what is next to a segment and under itself | the kernel is in memory as linked |
| machine set-up, soft reboot (`k-hardware.cc:28-275, 734-772, 988-1000`) | page table in use, gates, segments, `.data`, `.bss`, stash | `init_hardware` and its parts, `stash_kernel_data`, the reboot in `check_keyboard` | processor, APIC, loader | each step relies on memory that another step maps or clears; a reboot starts out of any handler | no step faults; a restart finds what power-on finds |
| trap entry and return (`k-exception.S`, `u-lib.hh`) | registers, `regstate` | `exception_entry`, `syscall_entry`, `exception_return` | processes, handlers | two ways in, two ways out, error codes for some exceptions | a process keeps its registers; the handler is told what happened |
| APIC, PCI (`k-apic.hh`, `k-pci.hh`, `k-hardware.cc:256-275, 327-378`) | requested and serviced interrupt; bus position | `enable_lapic`, `ack`, `init_timer`; `find`, `next`, `poweroff` | timer, keyboard | an interrupt that is never acknowledged; slots with one function or several | the timer keeps ticking; a controller is found |
| backtraces, symbols (`k-hardware.cc:547-586, 640-690, 817-835`) | frame pointer, symbol table | `backtracer`, `lookup_symbol`, `assert_fail` | stack, page table | follows what a process left in rbp | it ends, and names are right |
| program loader (`k-hardware.cc:841-925`, `elf.h`, `kernel.cc:166-252`) | position in the ELF file | `program_loader`, `process_setup` | set-up | segments are copied in one go over pages allocated one by one | each program is in its memory as linked |
| console, C library (`lib.cc`, `u-lib.cc`) | cells, `cursorpos`, the position of each print | `printf` and its relatives, `panic`, `strtol`, `rand`, string functions | all programs and the kernel, on one console | prints interleave; scrolling; boundaries of buffers and numbers | nothing is written beside the console or a buffer; numbers survive print and parse |
| io300, caching (`impl/student.c`) | `struct io300_file`: window, position, dirty bit, file size | open, close, seek, readc, writec, read, write, flush, fetch | operating system | one window, moved by five functions; ignored failures | the cache cannot be noticed |
| io300, uncached (`impl/naive.c`) | position in the OS | the same | operating system | - | it is the reference |
| io300 on stdio (`impl/stdio.c`) | a `FILE` | the same | C library | writes may fail as late as `fclose` | the same bytes |
| test programs (`test_programs/`) | loop variables, a buffer | eight `main`s | io300.h | blocks and strides that divide nothing; calls that fail | exit status 0 means that the job is done |
| C++ runtime, host build tools, `io300_test.c` | - | - | - | - | - |

What each component leaves to others: the kernel runs with interrupts disabled,
so handlers do not interleave with each other; concurrency is between processes
(the timer may come between any two user steps), between the kernel and the
user at the keyboard, between the kernel and the timer and the disk, between all
that print on the console, and between the steps of a handler and the memory
running out. In io300 there is one client and an operating system whose calls
may fail.

`PROJECT.json` lists the hazards one by one, with the properties aimed at them.

## 2. Modules

| module | what it is |
|---|---|
| `Kernel` | the kernel: allocator, boot, system calls, exceptions, scheduler; properties |
| `AddressSpaces` | what processes are promised: private memory, nothing about pages |
| `KernelRefines` | the refinement mapping from `Kernel` to `AddressSpaces` |
| `KernelInv`, `KernelSafety` | the invariants of `Kernel`; its types, and theorems that rest on its control part |
| `KernelAccounting` | the page accounting of `Kernel`, proved |
| `KernelIsolation` | the steps of the refinement of `AddressSpaces`, and that boot finds the memory it needs, and where, proved |
| `VMIter` | the page-table iterators on real trees of tables |
| `VMIterProofs` | the tree, the positions of `vmiter` in it and the walk of `ptiter`, proved |
| `MemViewer` | extends `Kernel` by the memory viewer |
| `Boot` | the boot loader, byte by byte |
| `Loader` | `program_loader` and the copying of `process_setup`, byte by byte |
| `Trap` | registers on their way into and out of the kernel |
| `Pci` | `poweroff`'s search for a controller |
| `Backtrace` | the stack walk and the symbol search, as operators |
| `Machine` | composes the five: from power-on through reboots to power-off |
| `MachineProofs` | safety of `Machine`: both loaders, starts, restarts, traps, registers and the symbol search, proved |
| `Io300` | the caching implementation; `PlainFile` is what `io300.h` promises |
| `Io300Proofs` | the cache's bounds, the refinement of `PlainFile` and `NothingForgotten`, proved |
| `Lib` | memory functions, number conversions and parsers of `lib.cc`, as operators |
| `Printer` | printing on the shared console and into buffers; panics |
| `Keyboard` | the keyboard driver, the keys and the controller |
| `Terminal` | composes `Printer` and `Keyboard` |
| `TerminalProofs` | the screen's bounds and contents, buffers, numbers and the keyboard's bookkeeping, proved |
| `Programs` | the test programs on `naive.c` and `stdio.c` |
| `ProgramsProofs` | what a program that exits with 0 has written, proved |
| `MCKernel`, `MCMachine`, `MCMemViewer`, `MCVMIter`, `MCTerminal`, `MCIo300`, `MCPrograms` | instances for TLC |

### Kernel

State. Addresses are page numbers. `refcount` and `mem` are `pages[]` and the
contents of physical pages; contents are abstracted to what processes can tell
apart (0xCC filling, zeroes, the program's image, values written). `state` is
`ptable[p].state`, `rax` what the last system call returned, `current` the
process that runs or ran last. A page table is two functions: `tab[p]` gives
the physical pages of its tables (root, one table each of the next two levels,
which is all a 3 MiB address space needs, and the level-1 tables), `pt[p]` the
level-1 entries. `mv` is the page of the memory viewer, which the first entry
into the kernel allocates. `pid`, `va`, `held` are the locals of whatever
handler is active, and `pc` says which; it is `"user"` when a process runs.

Actions. A handler is a sequence of actions, one for each `kalloc` or `kfree`
or iteration of a loop, because each `kalloc` is a point of failure and each
intermediate state has to be accounted for:

* boot: `SetupRoot`, `SetupTable`, `SetupPage`, `SetupMap`, `SetupSkip`,
  `SetupCopy`, `SetupDone`, and `SetupNull` for the results of `kalloc` that
  `process_setup` does not look at (`"wild"`: physical page 0 would be used) or
  asserts (`"assert"`);
* processes: `UserStep` (a write, a system call with any argument, a refused
  access), `Timer`; each enters the kernel through `Enter`, which includes the
  viewer's allocation;
* system calls: `Getpid`, `Yield`, `Panic`; `PageAlloc...`; `Fork...`; `Exit`,
  `Pfree...`, `ExitDone`; `ForkUndone` is the failure path of fork through
  `pfree`;
* `PageFault`, `TimerTick`, `SchedTry`; `Reboot` and `Poweroff` wherever
  `check_keyboard` is called.

`kalloc` returns the first usable page of its scan, as the code does. Programs
are arbitrary sequences of system calls. With `Remap = FALSE` they do not call
`page_alloc` for an address that is mapped (as `p-allocator.cc` and its
relatives do not): the code loses the old page then, which is part of a
finding, so the accounting properties are stated without it and the violation
run `kernel_wrap` with it.

### VMIter

The same page tables as `Kernel` has them, but as trees: `tables[t][n]` is an
entry with a target and flags, `it` is a `vmiter` with its remembered level,
table, index and permissions. Addresses keep their structure: indices of four
levels, the hole of non-canonical addresses, wrap-around. `flat` records what
was last mapped and is compared with every walk. `MapThere` is a mapping by
another, temporary iterator, after which the position of `it` is stale. The loop
of `ptiter::down` is one action per iteration, with the tables freed as they
are visited. The panic of `down` on entries beyond 4 GiB is left out: tables
are cleared before they are linked. (`Kernel` relies on what is checked here:
that `try_map` allocates the missing tables from the top and leaves those it
linked when it fails, and that `ptiter` gives the tables below before those
above.)

### MemViewer

`memusage::refresh` computes marks from scratch at each entry, so they are
operators on the kernel's state (`KernelMark`, `UserMark`, `Processes`), and
`symbol_at` is the character shown: a sign, a process's letter, or the message of
a page table error standing for its sign. They are drawn at each entry and, while
no process is runnable, in the loop of `schedule()` (`kernel.cc:513`; the model
lets it draw at any round). `showing` and `since` are the statics of `memshow`.
Colours and the drawing of an address space are left out.

### Lib, Printer, Keyboard, Terminal

`Lib` has the functions as operators. Strings are sequences of characters,
and a format is the sequence of its directives as `vprintf` parses them: flags,
width, precision, conversion, argument. `fill_numbuf` is a recursive function,
`strtoul` a fold over the digits with the code's overflow test, and numbers
have `Bits` bits.

`Printer` gives each print (`job[p]`) its own `cell` and `scroll`, as
`console_printer` has them, and shares `console` and `cursorpos`. `Begin`,
`Putc`, `Scroll` and `Finish` are the constructor, the two parts of `putc` and
`move_cursor`; between any two of them another process may print (`Runs`), or
the kernel, which is not interrupted. `KernelPanic` stops the processes for
good, `console_clear` is what a reboot does. `tape` and `column` are the paper
that would hold everything if it never scrolled; they are compared with the
screen while one prints at the cursor at a time (`mixed` otherwise, where the
code promises no order). `Snprintf` and `UserPanic` are calls into buffers; they
do not touch the console, and one call is one behaviour.

`Keyboard` has the tables `keymap` and `complex_keymap` in full.
`check_keyboard` reads one byte and acts on it. `Press` and `Release` are the
user (external): bytes wait in the controller, each remembered with the keys
that were down when it was sent, which is what `OffOnPurpose` compares with.

The two devices share no state, so `Terminal` lets a behaviour use one of
console, buffers and keyboard (`device`). Colours and the log are left out.

### Boot, Loader, Trap, Pci, Backtrace and Machine

`Machine` is the rest of the kernel around what `Kernel` has. Its memory is what
the hardware looks at: the low pages that hold the boot page table until the
first process gets them (`low`), the gates and the other contents of `.data`,
the page table, task segment and rest of `.bss`, and the `stash`. `pc` names the
function that runs; `InitSteps` and `RebootSteps` are what `kernel()` and a soft
reboot do, in the order of the code, one action for each step that changes what
the hardware sees. Each action says what it needs (`ok` in `Goes`): a register of
the APIC can be reached only under the kernel's page table, the stash only under
the boot page table, `ltr` refuses a busy segment, and the page table in use has
to be one. A step whose need is not met makes the machine `"dead"`: a fault with
no usable gate resets a real machine. The APIC has one requested and one
in-service interrupt, so that one that is not acknowledged blocks all others.

* `Boot`: `boot_readseg` with its loop over sectors and the disk answering in
  its own time. A byte of the image is its offset, so that a byte in the wrong
  place is noticed. What the BIOS and real-mode code leave is `boot_start`, one
  step.
* `Loader`: the walk over program headers and the copying to physical memory.
  The page tables are one page each, since `Kernel` has them in detail; pages are
  handed out in the order of addresses, as by `kalloc`.
* `Trap`: the layout of `regstate` and the pushes and pops of the entry and
  return code as sequences of names. One process, "me", is observed: it gives
  each register a value of its own, and `owed` are the registers it relies on at
  the time. What other processes and handlers do to registers is `Other`.
* `Pci`: addresses as numbers, with all configurations of the bus.
* `Backtrace`: frames may hold anything that a chain of frames on the kernel's
  stack can hold, and at its bottom whatever a process left in `rbp`.
  `lookup_symbol`'s binary search is a recursive function.

Keys strike at every poll (`RebootKey`, `OffKey`), processes run, trap and
disappear in any order.

### Io300 and PlainFile

State: `f` is `struct io300_file` with the bytes of the cache, `disk` the file
in the operating system. Calls are atomic, except that the loops of `io300_read`
and `io300_write` are one action per iteration. `check_invariants` starts every
call, and `Abort` is its failure. Bytes outside of the cache, and bytes of the
cache nobody stored, are `Junk`. What clients do is given by roles: "reader",
"inplace", "append" describe the repository's programs (`block_cat`, `rot13`,
the outputs of the cat programs), "log" is an appender whose disk may be full,
so that `pwrite` writes less than asked, and "any" calls anything. `Faults` says
what may go wrong in which role. `open`, `close`, `malloc`, `lseek` on a good offset and
`fstat` are taken to succeed.

`PlainFile` is a sequence of bytes with a position; a transfer takes place in
pieces. `naive.c` does just that, one piece per call.

### Programs

The eight programs share their form: open, look at the size, a loop of seek,
read, seek, write, and close. `prog` says which runs, `Goes`, `Begins`, `Where`,
`AfterRead` and `NextRound` how its loop differs, and each call of io300 is an
action that may fail. Reads and writes of several bytes may also transfer only the
first few (`Transfers`). Sizes and positions are `size_t`: what `stride_cat`
computes wraps at `WORD`, and lengths and offsets that are negative when signed are
refused by the operating system (`Huge`, `TooLong`); a read of more than the buffer
holds is undefined, so that the program may crash or go on (`Overruns`). `impl` chooses `naive.c`, which creates missing files, or
`stdio.c`, which does not, and whose bytes may turn out to be lost in `fclose`.
That `student.c` cannot be told from `naive.c` by these programs is
`Transparent`, checked on `Io300`. The random sizes of `random_block_cat` are
chosen anew for each read.

## 3. Runs

| run | instance | checks |
|---|---|---|
| `kernel_fork` | 3 processes, 16 pages, writes | `RefcountExact`, `PrivatePages`, `KernelPages`, `RunningIsSafe`, `FreeOwnsNothing`, `Isolation` |
| `kernel_calls` | 2 processes, 4 level-1 tables, 19 pages, reboots, fair | `TypeOK`, `RefcountExact`, `NeverWild`, `GetsToRun`, `HandlersFinish` |
| `machine` | power-on to power-off, reboots at every poll, fair | `ImageLoaded`, `NeverDies`, `FreshStart`, `RunsWhatWasAsked`, `RegistersSurvive`, `HandlesWhatHappened`, `LookupFinds`, `FindsController`, `KernelRegainsControl`, `StartsUp` |
| `memviewer` | 3 processes that share, 18 pages, 7 of them below `PROC_START`, reboots, fair | `MapIsTrue`, `EveryoneIsShown` |
| `vmiter` | 2 entries per table, 6 table pages | `FindsTruth`, `NextSkipsNothing`, `MapNeverAsserts`, `FreesTheTree`, `WalkEnds` |
| `terminal` | 2 processes and the kernel on 3 x 2 cells, numbers of 4 bits, 10 keys | `StaysOnScreen`, `ShowsTail`, `BufferHolds`, `ParsesBack`, `NoStuckModifier`, `OffOnPurpose` |
| `io_copy` | cache of 4 bytes, the repository's clients, failing `pread` | `Transparent` |
| `io_badwrite` | cache of 2 bytes, failing and short `pwrite`, any client, fair | `StaysInCache`, `NothingForgotten`, `CallsReturn` |
| `programs` | eight programs on two implementations, every call failing or falling short, fair | `ExitTellsTruth`, `ProgramsEnd` |
| `kernel_wrap` | one program, `Remap` | violates `UsedIsCounted` |
| `io_flush` | any client | violates `AssertionsHold` |
| `io_junk` | any client | violates `BytesAreReal` |

Bounds, and why they are enough.

* `kernel_fork`: a parent and a child are what fork and exit are about; a third
  slot for a process keeps fork from failing for want of a slot. 16
  allocatable pages hold the parent (5 tables, 3 pages), the viewer's page and
  not quite a child of a parent that has allocated more, so that fork fails at
  its root, at each copy and at each table, and succeeds too. A parent and a
  child can take all pages with a slot still free, and a boot of three runs out
  at the third root. One value can be written, so a page is unwritten, zero,
  image or written.
* `kernel_calls`: an L1 table covers 2 pages, so mappings need tables in the
  middle of the loops. 19 pages fit two booted processes and the viewer exactly:
  `NeverWild` is then about no page being wasted at boot.
* `memviewer`: three processes are needed for a counter to go to 3 and down in
  different orders; a boot sets up one, whose two children share its read-only
  page, or three, which take all 18 allocatable pages, so that the viewer gets
  none and the kernel asserts. `PROC_START` is 9, so that some allocatable pages,
  and the viewer's page among them, are below it, where the viewer shows a page
  without a mark as free. `Period` is 1 tick instead of 50.
* `vmiter`: with two entries a table has a first and a last one; 6 pages give
  up to three leaf tables or two subtrees, and every point of running out. Half
  of the root's entries are for high addresses, as on the real machine.
* `terminal`: two columns make a newline fill one cell or two, three rows are
  the fewest in which the row of a panic is neither the first nor the last.
  Prints start at the cursor, just behind the console and beyond it. With 4
  bits every number is tried with every pair of flags, widths and precisions
  that are absent, smaller and larger than the digits, and buffers of 0, 1, 3
  and 9 bytes. The keys are a shift, both controls, an alt with a prefix, caps
  lock, `q`, `c`, `a`, a digit and an arrow; two are down at a time, and three
  bytes wait, which is a key with a prefix and another one.
* `machine`: sectors of 4 bytes, and segments that neither start nor end with
  one, the second shortly behind the first's `.bss`; a page of 2 bytes, programs
  whose text takes more than a page and whose data is partly `.bss`, linked at
  two addresses, one with a header that is not loaded. Every configuration of two
  PCI slots with two functions. The stack has 5 words, so up to two frames and a
  base, in an address space of 12 words of which 10 are mapped. All sorted symbol
  tables with a null symbol and up to three others, sizes from 0 to 3, with gaps and aliases. The
  exceptions are one that processes may raise themselves (3), one with an error
  code in the range that `k-exception.S` tests (13) and one outside of it (17),
  besides page faults and the timer. Machines with and without an APIC, images
  with and without the magic number. Nothing counts up, so reboots are unbounded.
* `programs`: inputs of 0 to 7 bytes, all different, with letters at the borders
  of the alphabets for rot13; blocks of 0, 1, 3, 4 and 8 and strides of 0, 2, 3, 5
  and 7 bytes, so that blocks divide strides and inputs or not, and are shorter
  and longer than either; old outputs that are shorter and longer than what is
  written. `WORD` is 64: sums of lengths stay below it, and what becomes negative
  is above half of it.
* `kernel_wrap` keeps the true modulus 256 and restricts the program instead:
  `ReplaceText` forks, and the child replaces its read-only page and exits.
* io300: `CACHE_SIZE` is 4 and, where `pwrite` fails, 2; blocks of 2 and 5 (1
  and 3) bytes lie within and across windows; files of 0, 3 and 6 bytes end
  before, in and after the first window; `MaxLen` bounds what is written. The initial bytes of a file differ
  by place, so that a byte from the wrong place is noticed.

Fairness. `FairSpec` of `Kernel` has weak fairness of `KernelStep`: the kernel
executes. It has strong fairness of `Timer`: a tick that arrives while the
kernel runs is kept by the local APIC until the next return to a process, so a
process that calls the kernel in a loop does not escape it. Processes are not
assumed to do anything. `MachineFair` is weak fairness of `Code` (the processor
goes on, and the disk answers), of `Interrupt` (a requested interrupt is taken,
since processes run with interrupts on) and of `Tick` (the timer, once it has a
rate). It assumes nothing of processes and keys, and nothing of `Handle`: whether
handlers end is `HandlersFinish` of `Kernel`. `LoopStep` of `Io300`, `PtStep` of
`VMIter` and `Run` of `Programs` are loops without waiting. `kernel_calls` and the others that may stop have
`Stopped`, a step that changes nothing, for a machine that is off or in the
endless loop of `fail`, so deadlock is checked everywhere.

Each property has a mutant in `PROJECT.json`: a changed definition, kept next to
the original, under which TLC finds the property violated.

### Findings

* `kernel_wrap`: `syscall_page_alloc` never frees what was mapped at the address
  (`kernel.cc:423`), against its comment (`kernel.cc:402`); with that, the
  counter of a page shared by fork can go round to 0 in 256 rounds while the page
  is mapped (`kernel.cc:475`).
* `io_flush`: `io300_flush` called by a client leaves a window larger than the
  cache, and the next call aborts (`student.c:322`).
* `io_junk`: the same line seen from a reader. A flush moves the window's end over
  bytes that were never fetched; as long as the window is no larger than the cache
  no assertion notices, and `readc` returns what `malloc` left. TLC's trace: open an
  empty file, flush, `readc`.

Other disagreements met while modelling, for which there is no run:

* page 0 is mapped for the kernel in every process, since the test for kernel
  memory (`kernel.cc:70`) comes before the one for the null pointer, whose
  comment says it "is inaccessible even to the kernel" (`kernel.cc:75`);
* `memshow` switches every half second of ticks, not every 0.25 sec
  (`kernel.cc:544`), and not at all while no process is runnable, as ticks then
  stand still; `EveryoneIsShown` excludes that case;
* the processes' `panic` takes the length of its message from `vsnprintf`, which
  counts what did not fit, so that for a message of 153 characters or more it
  looks at, and writes, bytes behind its buffer (`u-lib.cc:13`); `BufferHolds` is
  about messages that fit;
* `rand(min, max)` overflows for the largest range that its assertion allows
  (`lib.cc:246`);
* releasing one shift key turns shift off while the other is down
  (`k-hardware.cc:505`): `NoStuckModifier` is one direction only;
* `strtol` passes what follows a `-` to `strtoul`, which takes spaces and
  another sign (`lib.cc`);
* `io300_filesize` does not count bytes that are only in the cache
  (`student.c:201`);
* `backtracer::ok` subtracts without a sign, so that an `rbp` above the top of
  the stack passes (`k-hardware.cc:648`); the walk may then leave mapped memory,
  and the kernel's page fault panics over the message of the assertion;
* `lookup_symbol` may miss an address where several symbols start, one of them
  without a size (`k-hardware.cc:554`), which `LookupFinds` excepts;
* `log_backtrace`'s warning has one argument fewer than directives
  (`k-hardware.cc:671`);
* the reboot restores the stash twice (`k-hardware.cc:763`), which does no harm;
* `io300_close` returns 0 though its flush failed (`student.c:189`), where
  `io300.h` promises -1;
* once no process is left, the viewer does not mark its own page
  (`k-memviewer.cc:124`), and `schedule()`'s draw (`kernel.cc:513`) shows it as
  free if it is below `PROC_START`; `MapIsTrue` excepts it (`Overlooked`);
* `stride_cat` does not test that a block fits into a stride, nor that the stride
  is positive: it then copies some bytes twice, leaves out the last ones and exits
  with 0 (`Overlapping`). `stride - pos` (`stride_cat.c:58`) may wrap, but only in
  the last round, unless reads fall short;
* a write that falls short counts as success (`block_cat.c:47`,
  `random_block_cat.c:55`, `reverse_block_cat.c:73`), and so do short reads where
  the position of a block matters: `Unnoticed` in `Programs`;
* programs over blocks take a failing read for the end of the input
  (`block_cat.c:42`, `reverse_block_cat.c:67`), `stride_cat` does not look at the
  result of its writes, and nobody at that of close: `Unnoticed` in `Programs`;
* `block_cat` complains about a block size of 0 and goes on (`block_cat.c:16`);
* `stride_cat` uses an output that could not be opened (`stride_cat.c:38`), which
  `stdio.c` makes possible since it does not create files;
* no program truncates an output file that is longer;
* `file_size` is set by open and seek only, so after the file has grown readc
  may see its end too early (`student.c:213`).

## 4. What the properties say

Kernel. `RefcountExact` is the centre: at every step, in the middle of every
handler too, the counter of an allocatable page equals the number of tables,
user mappings and kernel pointers that refer to it. A leak in any failure path
of fork, a double free in exit and a counter that wraps would each break it.
`PrivatePages` says that a writable page is mapped once; `KernelPages` that
tables, the viewer's page and reserved pages are never mapped for users;
`RunningIsSafe` that the process that runs has the kernel mapped as
`check_pagetable` wants it; `FreeOwnsNothing` that free slots own nothing
between handlers. `Isolation` is refinement of `AddressSpaces`: each step is a
step of private address spaces or invisible, including what calls return.
`GetsToRun`: a runnable process gets the processor. `HandlersFinish`: every
handler ends.

Machine. `NeverDies` holds each step of starting, restarting and handling to what
it needs of the hardware, in the order in which steps come: a reboot that turned
the timer off under the temporary page table, or loaded that before filling it,
would break it. `FreshStart` is why a reboot may start out of any state.
`RunsWhatWasAsked` goes from the key through the command line and the image's
name to the bytes in each process's memory. `RegistersSurvive` relates the two
entries to the two returns, whoever ran in between, and `HandlesWhatHappened`
what the processor did to what the handler reads. `KernelRegainsControl` fails
when a kernel that restarted inside a timer interrupt does not acknowledge it.
`StartsUp`: power-on and every reboot end with a process running.
`FindsController` and `LookupFinds` compare two searches with what there is to
find. `ImageLoaded` also says that the loader never reads over itself or over the
headers it still needs.

VMIter. `FindsTruth` and `NextSkipsNothing` are stated from every position an
iterator can have, stale ones included, and `FindsTruth` includes what
`low_perm` adds up over a range. `FreesTheTree`: each table but the root
once, children first, and no freed table read.

MemViewer. `MapIsTrue` compares two independent accounts: the marks come from
page tables, the counters from the allocator; a page table error shown is a
violation. It is about every draw, also the one in `schedule()`; there, when no
process is left, the viewer's own page is excepted (`Overlooked`).

Terminal. `StaysOnScreen` holds for every interleaving of prints that scroll
and prints that do not. `ShowsTail` says that the screen is the end of what was
printed, in place and not scrolled further than necessary. `BufferHolds` is about
`vsnprintf`'s and the processes' `panic`'s use of their buffers: what fits is there,
and no more than fits. `ParsesBack` relates
the two directions of number conversion, each with its own way to the largest
and the smallest number. `NoStuckModifier` and `OffOnPurpose` relate the
driver's state to the keys the user really holds or held.

Io300. `Transparent` is refinement of `PlainFile`. `StaysInCache` says that an
assertion stops every client before the library stores outside of the cache, and
that the repository's programs never get as far as an assertion.
`NothingForgotten` holds for an appender while `pwrite` fails or writes less than
asked, the one in close included: bytes may be missing then, but none that is on
the disk, and the others are where they belong. For other roles the code forgets
(fetch ignores the failure of its flush).

Programs. `ExitTellsTruth` compares each program's output with a definition of
what it is for, over all ways in which blocks and strides meet the end of the
input, and lists the failures that the exit status does not tell (`Unnoticed`).
`stride_cat` with blocks longer than its stride is excepted from what the output
has to be (`Overlapping`), but not from ending, without a crash, with status 0.
`ProgramsEnd`: each program ends.

## 5. Proofs

All theorems hold for every value of the constants that satisfies the `ASSUME`s
of the modules, and whatever the theorem itself names as an assumption. Each
inductive invariant was first checked with TLC on an instance.

### Kernel

Assumed: `SizeAssumption`, `MemoryAssumption` and `ProgramAssumption` of `Kernel`.

| theorem | module | says | besides assumes |
|---|---|---|---|
| `TypeCorrect` | `KernelSafety` | `[]TypeOK` | |
| `FreeSlots`, `Running` | `KernelSafety` | `[]FreeOwnsNothing`, `[]RunningIsSafe` | |
| `ExactCounts`, `KernelIsApart`, `WritableIsPrivate` | `KernelAccounting` | `[]RefcountExact`, `[]KernelPages`, `[]PrivatePages` | `~ Remap` |
| `Implements` | `KernelIsolation` | `Isolation`, if `[]LoadsInPlace` | `~ Remap` |
| `BootFits` | `KernelIsolation` | `[]NeverWild` | `Roomy` |
| `Isolated` | `KernelIsolation` | `Isolation` | `~ Remap`, `SegmentsFit` |
| `TrueMap` | `KernelAccounting` | `[]MapIsTrue` | `~ Remap` |

`TypeOK` is inductive as it stands. The parts that take an argument: `refcount`
stays below `RefMod` because fork adds modulo `RefMod` and `kfree` only subtracts
from what is positive (`ClaimType`, `KfreeType`); `va` stays in range since each
loop tests it before its step; what fork returns is a slot (`TurnType` for the
scheduler); pages that get into `tab`, `pt`, `held` and `mv` come from `kalloc`,
the kernel's mapping or another entry (`MapTableType`, `Constants`, `Constants2`).

`FreeSlots` and `Running` speak of the moments when a process runs, and a
handler passes through many states in which a free slot owns pages and a
runnable process has lost its tables. `Control` (module `KernelInv`) says for
every location of the kernel

* which slot owns pages although it is free (`Slots`), and which processes are
  runnable or free there (`Who`);
* how much of the page table under construction or destruction there is, by
  the loop's variable (`Progress`);
* where a page may be in hand (`InHand`), and that `page_alloc` has one and maps
  it in the process's part (`Target`);
* that below `PROC_START` there are only the kernel's mappings and above it only
  allocatable pages (`LowMappings`, `HighMappings`).

`KernelThere` adds that every complete page table has all of the kernel and the
tables that lead to it, and that one under construction has it up to the loop's
variable. `ControlNext` and `ThereNext` show that both are kept; `Further` is the
argument that process_setup and fork share. These theorems hold with `Remap` as
well. That `pfree` itself leaves nothing rests on how it is modelled: what it
gives back leaves `tab` and `pt`, and the kernel's mappings leave with the root.

`Accounting` is the invariant of the page accounting. The three properties need
each other: `kfree` of a table gives the page back because nobody maps it
(`KernelPages`), and a page that fork copies is not counted twice because it was
private. Besides, a shared page has the same address in all processes
(`SameAddress`), so that there are at most `NPROC` references and the 8-bit
counter does not wrap (`Bounded`, where `RefMod` is larger than `NPROC`); a page
table in work has its root (`Rooted`), and `page_alloc` overwrites no mapping
(`Unmapped`). The arithmetic of one reference more or less is `Toggle`,
`TabCount` and `MapCount`, on finite sets; `RefsAfter` and its relatives put them
together, one lemma for each way in which a page gets or loses an owner
(`NewTable`, `NewHeld`, `MapHeld`, `Share`, `FreeMap`, `FreeTable`, ...).
`~ Remap` cannot be dropped: `kernel_wrap` shows what happens otherwise.

`Implements` adds `Contents`: what is in the pages of a process that is being
set up or copied, and in the page in hand, when the process appears. Every step
is then a step of `AddressSpaces` (`AnswerStep`, `PageAllocMapStep`,
`ForkDoneStep`, `LoadStep`, `WriteStep`, `ProcessStep`, `ResetStep`) or changes
nothing that a process can see (`Unseen`, `BuildUnseen`, `RestUnseen`).

`LoadsInPlace` is a condition on memory that `process_setup` relies on and does
not test: it allocates a segment page by page and then copies it to consecutive
physical addresses from the first on (`kernel.cc:226`). `SegmentsFit` says when
it holds: each segment is one page (so it is in `kernel_fork` and
`kernel_calls`), or the segments are ranges in the part of the address space that
the kernel's level-1 table covers, and boot gets all it needs from the pages
below the first hole of physical memory. The real kernel is of the second kind:
programs are linked below 0x200000, and the pages from 0x1000 up to its image at
0x40000 are free, of which the at most four processes of a boot command take five
tables, a stack and a few pages each. `Packed` (boot takes pages from below) and
`Rows` (a segment's pages lie one after another) are the invariants.

`Roomy` says that there are more allocatable pages than the processes of a boot
command need, and is tight: in `kernel_calls` two processes need 18 of 19 pages.
`BootInv` shows that until the first entry into the kernel only the booted slots
own pages, and only the tables and pages of `Need`; `Spare` counts, with the
accounting, that one is left. It holds with `Remap` too, since no program has run
by then.

`TrueMap` needs no invariant of its own: the viewer changes nothing of the
kernel's (`ViewKernel`), and where it draws, on entry and in the scheduler's loop,
nothing is in hand and the slots it
takes for processes are exactly those that own something (`DrawnAlive`, from
`Control` and `KernelThere`). Its marks are then the references to the page
(`Marks`), and `Counters` compares them with `refcount`: the owners of a page
exclude each other by `KernelPages`, and by `SameAddress` a page is counted once
for each process that can access it. The viewer marks its own page only while there
is a process, which is why `MapIsTrue` has an exception; above `PROC_START` the
kernel's own mapping still marks it. It assumes `ViewerAssumption` of `MemViewer` as
well: `Period` and the reserved pages are sensible, and physical pages from
`PROC_START` on are allocatable.

### VMIter

Assumed: `TableAssumption`. A table has an even number of entries (512), so that
the canonical addresses are those of the lower and the upper half of the root;
there are pages for the five tables of `init_kernel_memory`; and a mapping with
any permission is present. The last holds for all callers of `map` and `try_map`:
they pass 0, or constants with `PTE_P`, or what `vmiter::perm` returns, which is 0
where nothing is present (`k-hardware.cc:144`, `kernel.cc:71-76`, `186`, `219`,
`244`, `423`, `462`, `469`).

`IterInvariant` is `[]IterInv`; from it follow `FindIsTrue` (`FindsTruth`),
`NextIsSafe` (`NextSkipsNothing`), `MapIsSafe` (`MapNeverAsserts`) and `TreeIsFreed`
(`FreesTheTree`). The entries of tables do not tell which region a table is for,
and the tree is deep, so `IterInv` says that there are functions `L` and `S` that
give every table its level and a place of its region, such that

* an entry above level 0 leads to a table one level lower for the part of the
  region that its index stands for, or is a large page, or nothing (`Linked`); no
  two tables are for one region (`Distinct`) and every table is reached
  (`Reached`): together `Tree`;
* an entry that leads no further says what was last mapped at each place that it
  covers (`Faithful`);
* a `vmiter` stands in a table that is for its address, at the address's index,
  and has lost no permission on its way, or it is at an address that no table is
  for (`Good`). The table need not be the lowest that is there by now, which is why
  stale iterators are harmless;
* a `ptiter` has visited exactly the tables whose region ends before its address,
  and those at its address that lie below the level it stops at (`Visited`,
  `Passing`); on its way up from a table it is at that table's last entry
  (`Rising`).

Addresses are compared by the number of their region, `Q(va, level)`. `Parts`,
`RegionMono`, `RegionBound` and `Ends` say what division does with them: a region
is its part of the region above, and an address is before the end of a region
exactly if its region is not later. `Span` and the loop of `low_perm` are recursive
functions; that `Span` is what its equation says is shown by giving the function,
and what the loop computes (`RangeOk`) by looking at the last address for which
the claim would fail. `DownGood` follows one iteration of `down`; `LinkTree` adds
a table for any place where nothing was, with `L` and `S` extended to it, and
leaves every other `vmiter` where it was; `WriteSound` writes an entry of level 0,
and only its place changes in `flat`. `KernelTree` shows that the kernel's own
tables are such a tree.

### Machine

Assumed: `MachineAssumption` (vectors of exceptions are below 32; a machine has
an APIC or not). `MachineLives` is `[]NeverDies`, `StartsFresh` `[]FreshStart`;
`Sound` is their invariant. It says for each step of `InitSteps` and
`RebootSteps`, and of what lies between, which page table is in use and that it is
one (`PageTables`), that `.data` and `.bss` are untouched or the stash has what
`.data` was (`Sections`), that gates, segments and task state are set by the time
something traps (`Descriptors`), and that a failed start backtraces on the
kernel's stack (`Frame`). `InitOrder` and `RebootOrder` give the order of steps.

`Handled` is `[]HandlesWhatHappened`, `RegistersKept` `[]RegistersSurvive`;
`Trapped` says where the registers are that the process relies on: in the
processor while it runs, in its descriptor otherwise, in both during a system
call. `ExceptionWords` and `SyscallWords` work out the 24 words that the two
entries push, for exceptions with and without an error code.

`ImageIsLoaded` is `[]ImageLoaded`. It assumes of images (`ImageAssumption`) what
`link/kernel.ld`, the linker and `build/mkbootdisk.cc` provide: the first page of
the file is there, a segment lies at the same offset within a sector in the file
as in memory (the linker aligns both to `p_align`), and the whole sectors that a
segment is read in with touch neither the boot loader nor the header nor a
segment before it. Sizes need not be multiples of anything. `BootInv` says that
the next sector number and the next address stay in step (`InStep`), that the
disk looks for that sector and no other (`DiskInStep`), that the bytes below the
next address are the file's (`ReadSoFar`), and that loader, header and finished
segments are untouched. A sector is whole, so the last one of a segment also
overwrites the beginning of its `.bss`, which is cleared afterwards from
`end_ptr` on (`SegmentDoneInv`); that order is what the theorem rests on.

`SymbolsFound` is `[]LookupFinds`. It assumes that tables are sorted
(`SymbolAssumption`): `build/mkchickadeesymtab.cc` sorts by address and then by
size, and symbols that the compiler gives a size do not overlap. (It puts
symbols of sections and files first; the assumption is that those of the
kernel's table have no address.) The search is a recursive function on windows of
the table. That there is one is shown without induction: a least size of windows
for which no function satisfies the equation would have one (`SearchUpTo`); in the
same way a smallest window with a wrong result would have a smaller one
(`SearchRight`). `Sides` is the reason that it never turns away from a symbol that
covers the address.

`AskedRuns` is `[]RunsWhatWasAsked`. `ImagesAssumption` is the table `ramimages`
(`k-hardware.cc:858`): its six names, with something to load in each.
`ProgramAssumption` is about the programs. `link/process.ld` gives them two
segments, the second on a page of its own (`ALIGN(4096)`), neither of them empty
(every program has globals), and they lie below the stack, the last page of
virtual memory. And they are small: up to four, with their stacks, fit into the
pages that are allocatable in one run from the first one on, which are those below
the kernel (`KERNEL_START_ADDR`, 63 pages). That they fit is what
`process_setup` relies on: it copies a segment to physical memory in one go
(`kernel.cc:226`), though its pages were allocated one by one. `LoaderInv` says
that `kalloc` has handed out the first so many pages (`LoaderType`), of which there
are enough (`HasRoom`); that the pages of a segment are next to each other,
because nothing else is allocated while they are, up to the page that is next
(`PlacedBefore`, `PlacedHere`); that no page is mapped twice (`Apart`); and that
what has been copied is there (`Copied`). A copy then writes to the segment's own
pages and to no other's (`SetupCopyInv`). (That the
pages are next to each other also needs that no page table is allocated between
them, which the model takes as given: programs end far below 0x200000, where the
next table would begin.) `Asks`
relates key, command line and names across a reboot, and `ProgramLoaderAlone`
says that no other step of the machine touches the loader's state.

### Terminal

`PrintsOnScreen` is `[]StaysOnScreen`; its invariant `OnScreen` says that the
cursor and each print's position are on the console or just behind its end,
whoever else prints or scrolls between two steps of a print.

`TailIsShown` is `[]ShowsTail`. Its invariant `PaperInv` says, while prints are not
mixed, that at most one print goes on and that it is at the cursor (`OneByOne`; after
a panic it is the kernel's), and that the cells in front of it, or of the cursor
when nobody prints, are the last ones of the paper (`InFront`). A character
fills as many cells seen from the paper's column as from the position on the screen
(`StoredIs`), which is why a newline or a tab comes out the same on both. For `scroll`
the proof needs what `memmove` computes: copying upwards to lower addresses
overwrites no byte before it has been copied (`MovedDown`). The loop is a recursive
function, and no induction rule can be instantiated here; so the lemma gives the
closed form of every stage, shows that it satisfies the recursion, and takes the
least stage where another solution would differ (`LeastOne`).

`BuffersHold` and `NumbersReadBack` are `[]BufferHolds` and `[]ParsesBack`, for every
directive (`IsItem`: any flags, width and precision, any number of the word, any
string without NUL), every size of buffer and every width of word. A call's result
does not depend on earlier ones, so both properties are inductive, and the work is
in the functions. `VsnprintfIs`: after each character the buffer has as much of the
text as fits. `FieldFills`: a field has no NUL and its width. `Panicked`: the newline
goes behind the message or, in a full buffer, over its last character, and the rest
of the message is there (`MessageIn`); that takes a
buffer of more than 2 (the code has 160). For numbers, `NumbufIs` shows that the
recursion of `fill_numbuf` has a solution (a least number up to which there is none
would have one), and `Numeral` describes it: the digits are the last digits of a
chain of quotients, each the next one divided by the base. `ValueIs` then shows, again
by a least counterexample, that the loop of `strtoul` goes up that chain, zeros in
front included, and that its overflow check never fires on it (`Fits`). `ReadBack` puts
together spaces, sign, prefix and digits for each conversion: a hexadecimal number
is also found with base 0, either by its prefix or, being 0 and without prefix, as
octal. `BitsAssumption` states two facts about powers of two that the prover has no
definition for.

`NoModifierStuck` and `OffMeant` are `[]NoStuckModifier` and `[]OffOnPurpose`.
`KeysInv` relates the bytes in the controller with each other and with the keys
that are down: each follows from the one before (`BytesInOrder`), an escape
prefix is followed by its byte, also when it has been read already, and a
modifier is on only while a key of it is down as far as the bytes read have told
(`ModifierHeld`). `KeyboardAssumption`: keys have codes from 1 to 127, but not 96,
whose release would read as the escape prefix; keyboards have no such key.

### Io300

Assumed: `CacheAssumption`, `FileAssumption` (bytes are 0 .. 255).

`InCache` is `[]StaysInCache`. `WindowInv` says that outside of calls
`check_invariants` holds for the repository's programs, that in the loop of
`io300_write` the position is within the cache though it may be past the window,
and (`KnownWindow`) that the window is full or reaches the end of the file. That
is why the fetch in that loop does not meet its assertion. It needs
`ReadFaultsApart`: `pread` fails only for programs that read, or for arbitrary
clients when `pwrite` does not. When a fetch of a writer fails, the window
ends behind the position, and the next call aborts; when both fail for an
arbitrary client the model does get to a store outside of the cache.

`CacheUnseen` is the refinement, `Transparent`, for all sizes of cache, blocks
and files. It needs `OnlyReadersFail`: the roles are the repository's, and only
reads of readers fail (what happens otherwise is the matter of `io_badwrite`,
`io_flush` and `io_junk`). The mapping takes the bytes between the window's start
and the position and lays them over the disk (`Laid`, `View`). `SeenInv` says
that bytes of the window that were not written are as on the disk, behind the
position (`Clean`) and, except for appenders, ahead of it (`Ahead`), and that the
remembered file size is true for those who read. Flush and fetch then leave what
is seen as it is (`FlushView`, `FetchView`), moving the position over clean bytes
does (`AdvanceView`), and putting bytes at the position stores them there
(`PutView`). `SeenNext` has one lemma for each call.

`NothingLost` is `NothingForgotten`, the action property, under writes that fail.
`LogInv` says of a client that appends to a new file that nothing is on the disk
from the window's start on, and that everything in the window was written; what
is seen is then the disk with the window behind it (`LogView`), and a flush that
writes any part of the window leaves a prefix of it (`LaidPart`, `FlushOrigin`).
Bytes are put into the window as it was, or into the next one after such a flush
(`Origin`), and both keep what was there (`PutKeeps`). Besides `ReadFaultsApart` it
needs `NoShortAppends`: a short `pwrite` counts as success in the code and leaves a
hole, which the property allows for the role "log" only.

### Programs

Assumed: `ProgramsAssumption` (files consist of bytes, `MAX_BLOCK_SIZE` is not 0, and
lengths of files, blocks and strides are less than a quarter of what a `size_t`
holds, so that sums of a few of them do not wrap). `ExitIsTrue` is `[]ExitTellsTruth`, for all eight
programs. Its invariant `ProgramsInv` says nothing about a program that has noticed a
failure, or has met one that it does not notice, or is `stride_cat` with blocks that
overlap: none of this can be undone (`FailuresStay`). For the others it says that of what is wanted (`Wanted`) the first
`Done` bytes are written, and that the rest of the file is as it was (`Copied`), and
for each kind of loop where in the input it is (`ByteLoop`, `CopyLoop`,
`ReverseLoop`, `StrideLoop`). A write that continues `Wanted` where it was left then
keeps `Copied` whatever the program (`WriteNext`, `WritesNext`); what remains is that
what each program writes is that continuation, and that its loop ends with all of
it written (`AllWritten`). For `rot13` the file is the input itself, and `Rotates`
says that turning a letter twice gives it back, and that its case stays.

`reverse_block_cat` starts at the last multiple of the block size, where there may be
nothing to read; that it ends at 0 takes `LastPart` and `Apart`. `stride_cat` is the
one whose order has to be worked out. The reference says where a byte belongs by
its rank, the number of bytes that come before it (`Rank`), and no two have the same
(`OneRank`). The invariant is that `count` is the number of bytes behind the position
in this sense (`AtBlock`). A block is next to its predecessor in rank
(`BlockRanks`), and `BlockDone` shows that the position that the code computes for the
next block leaves out no byte and repeats none: one stride further on, or, past the
end of the input, at the next offset, where the last block of a stride may be
shorter. The input need not be a multiple of anything; a block may be cut off by the
end of the file, and a stride be longer than the file.

For blocks longer than the stride what is claimed is that `stride_cat` ends with
status 0 if no call fails. `LongLoop` says that the loop goes through the input from
its beginning once: when the position comes to the end of the input, the blocks
read have at least as many bytes as the input, so that the loop is over by the time
`block_size` has wrapped (`LongStep`).

### What is left to TLC

* Liveness: `GetsToRun`, `HandlersFinish`, `EveryoneIsShown`, `CallsReturn`,
  `WalkEnds`, `KernelRegainsControl`, `StartsUp`, `FindsController`,
  `ProgramsEnd`. The prover has no fairness or `ENABLED`.
* The three properties that the code violates (section 3).

## 6. Plan

Done: all modules of section 2, and the theorems of section 5.

Not modelled, and why:

* host build tools (`build/`): they write the disk image before the machine
  exists;
* the C++ runtime's guards: one processor with interrupts off, so no contention;
* `io300_test.c`: it makes random reads, writes and seeks, also past the end of the
  file, and compares the file with an array. Clients that seek and write past the
  end are in the runs (the role "any"), but `Transparent` is not claimed for them;
* the log (bytes to the parallel port that nothing reads), colours and the layout
  of the memory viewer's drawing: nothing depends on them;
* real mode and the switch to 64 bits, beyond the page table and segments that
  they leave: no state of the program survives it;
* the I/O APIC and inter-processor interrupts, which `k-apic.hh` declares and
  nothing uses;
* `rand` and the string functions of `lib.cc` that are one loop over a string;
* the random choices of the user programs: `UserStep` makes every sequence of
  system calls instead.
