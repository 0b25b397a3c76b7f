------------------------------ MODULE MCTiming ------------------------------
(***************************************************************************)
(* Timing with every program of three calls, and one that runs out of file *)
(* descriptors.                                                            *)
(***************************************************************************)
EXTENDS Timing

c == [counter |-> "cycles"]
l == [counter |-> "linux"]

MCPrograms == [1 .. 3 -> {c, l}] \union {<<l, l, l, l>>}
=============================================================================
