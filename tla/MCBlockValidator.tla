------------------------- MODULE MCBlockValidator -------------------------
(***************************************************************************)
(* BlockValidator over the strings of InputFamilies.                       *)
(***************************************************************************)
EXTENDS BlockValidator, InputFamilies
=============================================================================
