---------------------------- MODULE MCScheduler ----------------------------
(***************************************************************************)
(* Scheduler with three bands, the middle one without a command.           *)
(***************************************************************************)
EXTENDS Scheduler

ThreeBands == <<"N", "H", "HH">>
TwoBounds == <<1, 2>>
TwoCommands == [l \in {"N", "HH"} |-> IF l = "N" THEN 9 ELSE 1]
=============================================================================
