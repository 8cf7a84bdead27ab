-------------------------------- MODULE Pci --------------------------------
(***************************************************************************)
(* poweroff's search for a PCI function that can turn the machine off      *)
(* (k-pci.hh, k-hardware.cc).  An address is bus, slot and function in one *)
(* number, with as many functions to a slot as the hardware has.           *)
(***************************************************************************)
EXTENDS Integers

CONSTANTS
    Funcs,          \* functions of a slot
    addr_end,       \* addresses are below
    Configs         \* machines: for each address its function, see Function

ASSUME PciAssumption ==
    Funcs \in Nat \ {0} /\ addr_end \in Nat \ {0} /\ addr_end % Funcs = 0

\* What is read at an address: nothing (all ones), or a function whose header
\* says that the slot has several, and that may be a power controller.
Absent   == [present |-> FALSE, multi |-> FALSE, power |-> FALSE]
Function == {Absent} \cup [present : {TRUE}, multi : BOOLEAN, power : BOOLEAN]

VARIABLES
    config,     \* the machine's PCI functions; of no interest before the search
    addr,       \* find's addr
    power       \* "on", "asked", "scan", "off", or "spin" when nothing can be done

pciVars == <<config, addr, power>>

addr_func(a) == a % Funcs
make_addr(slot, func) == slot * Funcs + func

\* The predicate of poweroff: one of two known controllers.
IsPower(a) == config[a].power

\* The slot has no other function.
Single(a) == addr_func(a) = 0 /\ (~ config[a].present \/ ~ config[a].multi)

\* Mutant of Next1: functions other than the first are not looked at.
Next1_Slots(a) == a - addr_func(a) + make_addr(1, 0)

\* One round of the loop of next.
Next1(a) == IF Single(a) THEN a + make_addr(1, 0) ELSE a + make_addr(0, 1)

NoConfig == [a \in 0 .. addr_end - 1 |-> Absent]

PciInit == config = NoConfig /\ addr = 0 /\ power = "on"

\* poweroff is called ...
PowerOff ==
    /\ power = "on" /\ power' = "asked"
    /\ UNCHANGED <<config, addr>>

\* ... begins at address 0, present or not ...
StartScan ==
    /\ power = "asked" /\ power' = "scan"
    /\ config' \in Configs /\ addr' = 0

\* ... and goes on, in next, until there is a function; find then asks
\* again.  Where nothing is present the predicate does not hold either.
Scan ==
    /\ power = "scan" /\ ~ IsPower(addr)
    /\ LET a == Next1(addr) IN
        IF a >= addr_end THEN addr' = -1 /\ power' = "spin"
        ELSE addr' = a /\ UNCHANGED power
    /\ UNCHANGED config

\* The machine obeys the controller.
Suspend ==
    /\ power = "scan" /\ IsPower(addr)
    /\ power' = "off"
    /\ UNCHANGED <<config, addr>>

PciNext == StartScan \/ Scan \/ Suspend

\* A function that the bus shows: the first of its slot, or one of a slot whose
\* first function says there are more.
Visible(a) ==
    LET first == a - addr_func(a) IN
    config[a].present /\ (a # first => config[first].multi)

\* Once poweroff is called the search ends, at a controller that the bus shows,
\* wherever it sits, or without one only if there is none; it never takes an
\* address that belongs to no function for one (k-hardware.cc:327).
FindsController ==
    power = "asked" ~>
        \/ power = "off" /\ IsPower(addr) /\ Visible(addr)
        \/ power = "spin" /\ \A a \in 0 .. addr_end - 1 : ~ (IsPower(a) /\ Visible(a))
=============================================================================
