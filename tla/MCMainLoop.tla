----------------------------- MODULE MCMainLoop -----------------------------
(***************************************************************************)
(* Small instances of MainLoop for TLC: the configurations give the bounds.*)
(***************************************************************************)
EXTENDS MainLoopProperties
=============================================================================
