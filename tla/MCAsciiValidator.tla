------------------------- MODULE MCAsciiValidator -------------------------
(***************************************************************************)
(* AsciiValidator over strings of up to two blocks and a byte, with at     *)
(* most two bytes that are not ASCII.                                      *)
(***************************************************************************)
EXTENDS AsciiValidator

high(n, at) ==
  [len |-> n, src |-> [q \in 0 .. n - 1 |-> IF q \in at THEN 128 + q ELSE 127]]

MCInputs ==
  UNION {{high(n, {a, b}) : a, b \in 0 .. n - 1} \union {high(n, {})} :
         n \in {0, 1, W - 1, W, W + 1, 2 * W, 2 * W + 1}}
=============================================================================
