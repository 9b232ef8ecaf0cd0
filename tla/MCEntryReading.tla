--------------------------- MODULE MCEntryReading ---------------------------
(***************************************************************************)
(* EntryReading for every device of DEVICES, register numbers at the turns *)
(* of both bases and of two bytes, and words of unlike bytes.              *)
(***************************************************************************)
EXTENDS EntryReading

ProbedDevices == {<<"D">>, <<"R">>, <<"M">>, <<"L", "T", "N">>}
SomeNumbers == {0, 9, 159, 2748, 4095, 70000}
=============================================================================
