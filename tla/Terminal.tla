------------------------------ MODULE Terminal ------------------------------
(***************************************************************************)
(* The console and the keyboard.  They share no state, so a behaviour uses *)
(* one of them.                                                            *)
(***************************************************************************)
EXTENDS Printer, Keyboard

TerminalInit == ConsoleInit /\ KeyInit

TerminalNext ==
    \/ PrinterNext /\ UNCHANGED keyVars
    \/ device = "keyboard" /\ KeyNext /\ UNCHANGED printerVars

TerminalSpec == TerminalInit /\ [][TerminalNext]_<<printerVars, keyVars>>
=============================================================================
