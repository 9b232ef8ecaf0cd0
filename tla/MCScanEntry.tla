---------------------------- MODULE MCScanEntry ----------------------------
(***************************************************************************)
(* Instances of ScanEntry for model checking: periods of two and three     *)
(* units and period 0, a scan up to four units late.                       *)
(***************************************************************************)
EXTENDS ScanEntry
=============================================================================
