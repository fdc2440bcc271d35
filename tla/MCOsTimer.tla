----------------------------- MODULE MCOsTimer ------------------------------
(***************************************************************************)
(* Instances of OsTimer for TLC: a periodic and a one-shot timer, a thread *)
(* that calls, and calls from within callbacks.                            *)
(***************************************************************************)
EXTENDS OsTimer

ForthAndBack == {-1, 1}
=============================================================================
