--------------------------- MODULE MCMeasuredLink ---------------------------
(***************************************************************************)
(* Two entries of one length, whose replies may come in two; the windows   *)
(* of the first one.                                                       *)
(***************************************************************************)
EXTENDS MeasuredLink

BothLong == <<3, 3>>
=============================================================================
