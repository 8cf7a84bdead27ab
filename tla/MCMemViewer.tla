---------------------------- MODULE MCMemViewer ----------------------------
(* Instances of MemViewer for TLC. *)
EXTENDS MemViewer
=============================================================================
