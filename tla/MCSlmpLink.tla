---------------------------- MODULE MCSlmpLink ----------------------------
(***************************************************************************)
(* Small instances of SlmpLink: two entries, of one length or of two.      *)
(***************************************************************************)
EXTENDS SlmpLink

BothLong == <<4, 4>>
ShortAndLong == <<1, 4>>
=============================================================================
