--------------------------- MODULE MCCycleStatus ---------------------------
(***************************************************************************)
(* CycleStatus for TLC: a window of two cycles and a short clock.          *)
(***************************************************************************)
EXTENDS CycleStatus
=============================================================================
