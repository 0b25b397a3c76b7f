--------------------------- MODULE MCAsciiWords ---------------------------
(***************************************************************************)
(* AsciiWords over strings around the strides of 32 and 8, with at most    *)
(* one byte that is not ASCII, at a low and at a high address.             *)
(***************************************************************************)
EXTENDS AsciiWords

high(n, at, a) ==
  [len |-> n, addr |-> a,
   data |-> [q \in 0 .. n - 1 |-> IF q = at THEN 128 + q ELSE 127]]

MCCalls ==
  {high(n, at, a) : at \in -1 .. 0, n \in {1, 31}, a \in {32, 990}}
    \union UNION {{high(n, at, 32) : at \in -1 .. n - 1} :
                  n \in {0, 7, 8, 9, 32, 33, 40, 41, 64, 65, 73}}
=============================================================================
