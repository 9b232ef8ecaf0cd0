----------------------------- MODULE MCMockPlc -----------------------------
(***************************************************************************)
(* MockPlc with two ports, one reader and one writer: the writer on a port *)
(* of its own, or behind the reader.                                       *)
(***************************************************************************)
EXTENDS MockPlc

PortsUsed == [c \in Conns |-> IF c \in Readers THEN {1} ELSE {1, 2}]
SomeBlocks == {<<"D100", "D114">>, <<"SD518">>}
=============================================================================
