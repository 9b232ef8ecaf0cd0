----------------------------- MODULE MCGateway -----------------------------
(***************************************************************************)
(* Small instances of Gateway: two addresses, two lengths (or one and one  *)
(* that does not fit the request), two periods, and a CSV of two rows.     *)
(***************************************************************************)
EXTENDS Gateway

TwoRows == << [start |-> "D100", length |-> 1, period |-> 100],
              [start |-> "D200", length |-> 1, period |-> 100] >>
=============================================================================
