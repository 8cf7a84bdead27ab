------------------------------ MODULE Printer ------------------------------
(***************************************************************************)
(* Printing: messages into buffers (vsnprintf) and onto the console        *)
(* (console_printf, console_puts).  The console's cells and the cursor are *)
(* shared: they are mapped in the kernel and in every process.  A process  *)
(* may be interrupted between any two characters it prints, by the kernel, *)
(* which prints with interrupts off, and then by other processes.  Each    *)
(* print has its own position cell_, taken from cursorpos when it begins   *)
(* and stored there when it ends.                                          *)
(***************************************************************************)
EXTENDS Lib

CONSTANTS
    CONSOLE_ROWS, CONSOLE_COLUMNS,
    Procs,          \* the processes that print
    Messages,       \* what is printed on the console: formats
    Positions,      \* the arguments cpos; negative: at the cursor
    Items,          \* the directives printed into buffers
    Sizes,          \* the sizes of these buffers
    PanicSize,      \* sizeof(buf) in the processes' panic
    Devices         \* what a behaviour uses

KERNEL == "kernel"
Printers == {KERNEL} \cup Procs

ASSUME ConsoleAssumption ==
    /\ CONSOLE_ROWS \in Nat \ {0, 1} /\ CONSOLE_COLUMNS \in Nat \ {0}
    /\ KERNEL \notin Procs
    /\ Positions \subseteq Int /\ Sizes \subseteq Nat /\ PanicSize \in Nat \ 0 .. 2
    /\ \A d \in Items : IsItem(d)
    /\ Devices \subseteq {"console", "buffer", "keyboard"}

End == CONSOLE_ROWS * CONSOLE_COLUMNS
CPOS(row, col) == row * CONSOLE_COLUMNS + col
CCOL(cpos)     == cpos % CONSOLE_COLUMNS

VARIABLES
    console,    \* the cells
    cursorpos,
    job,        \* job[p]: what p is printing, its cell_ and scroll_
    panicking,  \* "no", or whether panic has a message ("format") or not ("null")
    result,     \* of the last call that printed into a buffer
    device,     \* what this behaviour uses
    \* What was printed at the cursor, as if the paper never ended: its last
    \* cells, the column behind them, and whether others printed meanwhile.
    tape, column, mixed

screen  == <<console, cursorpos, job, panicking>>
history == <<tape, column, mixed>>
printerVars == <<screen, history, result, device>>

Idle == [text |-> <<>>, cell |-> -1, scroll |-> FALSE]
Printing(p) == job[p] # Idle

\* The kernel runs until it returns to a process.
Runs(p) == p = KERNEL \/ (~ Printing(KERNEL) /\ panicking = "no")

PANIC == "P"        \* "PANIC: ", as one character

-----------------------------------------------------------------------------
(* What the paper would show. *)

\* The cells in front of a position.
Shown(c, n) == [i \in 1 .. n |-> c[i - 1]]

\* At most a screen of them is remembered.
Kept(t) == SubSeq(t, IF Len(t) > End THEN Len(t) - End + 1 ELSE 1, Len(t))

\* From now on the paper is what is on the screen in front of the cursor.
NewPaper(cells, pos) ==
    /\ tape' = Shown(cells, pos)
    /\ column' = CCOL(pos)
    /\ mixed' = FALSE

\* Others print as well: nothing is said of the paper.
Mix == tape' = <<>> /\ column' = 0 /\ mixed' = TRUE

-----------------------------------------------------------------------------
(* The console. *)

ConsoleInit ==
    /\ console = [i \in 0 .. End - 1 |-> SPACE]
    /\ cursorpos = 0
    /\ job = [p \in Printers |-> Idle]
    /\ panicking = "no"
    /\ result = [call |-> "none"]
    /\ device \in Devices
    /\ tape = <<>> /\ column = 0 /\ mixed = FALSE

\* fail(): the panic's message is printed, the keyboard is polled for ever.
Failing == /\ panicking # "no" /\ ~ Printing(KERNEL)
           /\ panicking = "format" => CCOL(cursorpos) = 0

\* A soft reboot, when the kernel polls the keyboard: on any interrupt or in
\* fail.  The kernel starts again, the processes are gone.
console_clear ==
    /\ device = "console" /\ ~ Printing(KERNEL) /\ (panicking = "no" \/ Failing)
    /\ console' = [i \in 0 .. End - 1 |-> SPACE]
    /\ cursorpos' = 0
    /\ job' = [p \in Printers |-> Idle]
    /\ panicking' = "no"
    /\ NewPaper(console', 0)
    /\ UNCHANGED <<result, device>>

\* Mutant of console_printer: no check of the position.
console_printer_Any(cpos) == IF cpos < 0 THEN cursorpos ELSE cpos

\* The constructor: where to print.
console_printer(cpos) ==
    IF cpos < 0 THEN cursorpos ELSE IF cpos <= End THEN cpos ELSE 0

\* console_vprintf, console_puts.  Only panics of the kernel are at the cursor.
Begin(p) ==
    /\ device = "console" /\ Runs(p) /\ ~ Printing(p) /\ panicking = "no"
    /\ \E cpos \in Positions, format \in Messages :
        /\ p = KERNEL => cpos >= 0
        /\ job' = [job EXCEPT ![p] = [text   |-> vprintf(format),
                                      cell   |-> console_printer(cpos),
                                      scroll |-> cpos < 0]]
        /\ IF mixed \/ cpos >= 0 \/ \E q \in Printers : Printing(q)
           THEN Mix
           ELSE UNCHANGED history
    /\ UNCHANGED <<console, cursorpos, panicking, result, device>>

\* error_printf at the cursor: the kernel's print (and its log, which is left out).
error_printf(text, cursor) == [text |-> text, cell |-> cursor, scroll |-> TRUE]

\* panic of the kernel: from the last row but one on; after it processes no
\* longer run.
KernelPanic ==
    /\ device = "console" /\ ~ Printing(KERNEL) /\ panicking = "no"
    /\ cursorpos' = CPOS(CONSOLE_ROWS - 2, 0)
    /\ \E text \in {<<PANIC>>} \cup {<<PANIC>> \o vprintf(format) : format \in Messages} :
        /\ panicking' = IF text = <<PANIC>> THEN "null" ELSE "format"
        /\ job' = [job EXCEPT ![KERNEL] = error_printf(text, cursorpos')]
    /\ NewPaper(console, cursorpos')
    /\ UNCHANGED <<console, result, device>>

\* The message ends with a newline.
PanicNewline ==
    /\ panicking = "format" /\ ~ Printing(KERNEL) /\ CCOL(cursorpos) # 0
    /\ job' = [job EXCEPT ![KERNEL] = error_printf(<<"nl">>, cursorpos)]
    /\ UNCHANGED <<console, cursorpos, panicking, result, device, history>>

\* Mutant of scroll: one row too few is moved.
scroll_Short(c) ==
    memset(memmove(c, 0, CONSOLE_COLUMNS, (CONSOLE_ROWS - 2) * CONSOLE_COLUMNS),
           (CONSOLE_ROWS - 1) * CONSOLE_COLUMNS, NUL, CONSOLE_COLUMNS)

\* The rows move up, the last one is zeroed.
scroll(c) ==
    memset(memmove(c, 0, CONSOLE_COLUMNS, (CONSOLE_ROWS - 1) * CONSOLE_COLUMNS),
           (CONSOLE_ROWS - 1) * CONSOLE_COLUMNS, NUL, CONSOLE_COLUMNS)

Waiting(p) == job[p].text # <<>> /\ Runs(p)

\* putc at the end of the console: another row, or back to its start.
Scroll(p) ==
    /\ Waiting(p) /\ job[p].cell >= End
    /\ IF job[p].scroll
       THEN /\ console' = scroll(console)
            /\ job' = [job EXCEPT ![p].cell = @ - CONSOLE_COLUMNS]
       ELSE /\ job' = [job EXCEPT ![p].cell = 0]
            /\ UNCHANGED console
    /\ UNCHANGED <<cursorpos, panicking, result, device, history>>

\* The cells that a character fills: a newline fills its row.
Stored(c, cell) ==
    IF c = "nl" THEN Repeat(SPACE, CONSOLE_COLUMNS - CCOL(cell)) ELSE <<c>>

Putc(p) ==
    /\ Waiting(p) /\ job[p].cell < End
    /\ LET cell  == job[p].cell
           cells == Stored(Head(job[p].text), cell)
       IN  /\ console' = [i \in DOMAIN console |->
                            IF i \in cell .. cell + Len(cells) - 1 THEN cells[i - cell + 1]
                            ELSE console[i]]
           /\ job' = [job EXCEPT ![p].cell = @ + Len(cells), ![p].text = Tail(@)]
           /\ IF mixed THEN UNCHANGED <<tape, column>>
              ELSE /\ tape' = Kept(tape \o Stored(Head(job[p].text), column))
                   /\ column' = (column + Len(Stored(Head(job[p].text), column)))
                                    % CONSOLE_COLUMNS
    /\ UNCHANGED <<cursorpos, panicking, result, device, mixed>>

\* The position for the next print (and for the cursor that is shown).
move_cursor(cell) == cell

Finish(p) ==
    /\ Printing(p) /\ job[p].text = <<>> /\ Runs(p)
    /\ cursorpos' = IF job[p].scroll THEN move_cursor(job[p].cell) ELSE cursorpos
    /\ job' = [job EXCEPT ![p] = Idle]
    /\ IF mixed /\ \A q \in Printers \ {p} : ~ Printing(q)
       THEN NewPaper(console, cursorpos')
       ELSE UNCHANGED history
    /\ UNCHANGED <<console, panicking, result, device>>

Fail == Failing /\ UNCHANGED printerVars

-----------------------------------------------------------------------------
(* Printing into buffers.  One call: the next does not see what it did. *)

Snprintf ==
    /\ device = "buffer" /\ result.call = "none"
    /\ \E d \in Items, size \in Sizes :
        result' = [call |-> "snprintf", item |-> d, size |-> size,
                   out |-> vsnprintf(size, <<d>>)]
    /\ UNCHANGED <<screen, history, device>>

\* Where the processes' panic puts the newline: not behind a full buffer.
NewlineAt(len) == IF len = PanicSize - 1 THEN len - 1 ELSE len

\* The buffer after panic of a process has printed its message there.
PanicBuffer(format) ==
    LET out == vsnprintf(PanicSize - 1, format)
        buf == <<PANIC>> \o out.s
        len == out.n + 1
    IN  IF buf[len] = "nl" THEN buf
        ELSE SubSeq(buf, 1, NewlineAt(len)) \o <<"nl", NUL>>

\* Only messages that fit: len counts what vsnprintf left out, so that panic
\* would look for the end of a longer one behind buf.
UserPanic ==
    /\ device = "buffer" /\ result.call = "none"
    /\ \E d \in Items :
        /\ Len(Field(d)) + 1 < PanicSize
        /\ result' = [call |-> "panic", item |-> d, size |-> PanicSize,
                      out |-> [s |-> PanicBuffer(<<d>>), n |-> Len(PanicBuffer(<<d>>))]]
    /\ UNCHANGED <<screen, history, device>>

Returned == device = "buffer" /\ result.call # "none" /\ UNCHANGED printerVars

-----------------------------------------------------------------------------
PrintStep(p) == Scroll(p) \/ Putc(p) \/ Finish(p)

PrinterNext ==
    \/ console_clear \/ KernelPanic \/ PanicNewline \/ Fail
    \/ \E p \in Printers : Begin(p) \/ PrintStep(p)
    \/ Snprintf \/ UserPanic \/ Returned

-----------------------------------------------------------------------------
\* The string in a buffer: it ends in front of the first NUL.
Text(s) ==
    LET ends == {i \in DOMAIN s : s[i] = NUL}
    IN  IF ends = {} THEN s ELSE SubSeq(s, 1, (CHOOSE i \in ends : \A j \in ends : i <= j) - 1)

(***************************************************************************)
(* Nobody prints beyond the console, although cell_ and cursorpos are kept *)
(* apart while others print and scroll: every position is on the screen or *)
(* just behind it, and nothing is written behind it.                       *)
(***************************************************************************)
StaysOnScreen ==
    /\ cursorpos \in 0 .. End
    /\ \A p \in Printers : Printing(p) => job[p].cell \in 0 .. End

(***************************************************************************)
(* The screen is a window on the paper: what was printed at the cursor is  *)
(* on the screen in front of the position, in order, in its column, and    *)
(* the screen has scrolled no further than it must.  (Unless others        *)
(* printed elsewhere or at the same time: then the paper starts anew.)     *)
(***************************************************************************)
ShowsTail ==
    ~ mixed =>
        LET active == {p \in Printers : Printing(p) /\ Runs(p)}
            pos    == IF active = {} THEN cursorpos
                      ELSE job[CHOOSE p \in active : TRUE].cell
        IN  /\ pos % CONSOLE_COLUMNS = column
            /\ Len(tape) >= pos
            /\ Shown(console, pos) = SubSeq(tape, Len(tape) - pos + 1, Len(tape))
            /\ pos < Len(tape) => pos > End - CONSOLE_COLUMNS - 1

\* The message m is in the buffer s behind PANIC; a newline may take the place of
\* its last character, in a full buffer only.
MessageIn(s, m) ==
    /\ Len(s) >= Len(m) + 2
    /\ \A k \in 1 .. Len(m) : s[k + 1] = m[k] \/ (k = Len(m) /\ Len(s) = PanicSize)

(***************************************************************************)
(* What vsnprintf writes and returns: no more than the buffer holds, the   *)
(* terminator included, all of the text if it fits, and the length of the  *)
(* whole text, which is as wide as the directive asks for.  And panic of a *)
(* process, which prints into a buffer in two parts, leaves one line in    *)
(* it: the message, a newline and the terminator (u-lib.cc:13).            *)
(***************************************************************************)
BufferHolds ==
    result.call # "none" =>
        LET s == result.out.s
        IN  /\ Len(s) <= result.size
            /\ result.size > 0 => Last(s) = NUL /\ Len(Text(s)) = Len(s) - 1
            /\ result.call = "snprintf" =>
                /\ result.out.n >= result.item.width
                /\ result.out.n < result.size =>
                    Text(s) = Field(result.item) /\ Len(Text(s)) = result.out.n
            /\ result.call = "panic" =>
                /\ s[Len(s) - 1] = "nl" /\ Head(s) = PANIC
                /\ MessageIn(s, Field(result.item))

(***************************************************************************)
(* strtol and strtoul read back what vprintf wrote, whatever the flags,    *)
(* the width and the precision, up to the largest and smallest numbers.    *)
(***************************************************************************)
ParsesBack ==
    result.call = "snprintf" /\ IsNumeral(result.item) /\ result.out.n < result.size =>
        LET s == Text(result.out.s)
            d == result.item
        IN  CASE d.conv = "d" -> strtol(s, 10) = d.arg
              [] d.conv = "u" -> strtoul(s, 10) = d.arg
              [] OTHER        -> /\ strtoul(s, 16) = d.arg
                                 /\ (d.conv = "p" \/ "#" \in d.flags) => strtoul(s, 0) = d.arg
=============================================================================
