---------------------------- MODULE MCBenchmark ----------------------------
(***************************************************************************)
(* Benchmark with every kind of call of demo and demo_utf8, one at a time, *)
(* and a program that goes from one to the other.  The generator has a     *)
(* first draw for every branch, and for the others draws that give both    *)
(* ends of every range: 959 leaves the largest remainder by each of the    *)
(* ranges' sizes 3, 16, 30, 32, 48, 64 and by 128 a byte in between.       *)
(***************************************************************************)
EXTENDS Benchmark

MCKinds == {0, 128, 223, 224, 225, 236, 237, 238, 239, 240, 241, 243, 244, 245, 511}
MCRand == {0, 959}

call(c, d, f) == [counter |-> c, demo |-> d, fn |-> f]

MCPrograms ==
  {<<call("cycles", "ascii", f)>> : f \in {"guava", "utf8", "ascii", "dfa", "double"}}
    \union {<<call("cycles", "utf8", f)>> : f \in {"guava", "utf8", "dfa", "double"}}
    \union {<<call("linux", "ascii", f)>> : f \in {"utf8", "ascii"}}
    \union {<<call("linux", "ascii", "ascii"), call("cycles", "utf8", "utf8")>>}

\* The calls of demo that are given N + 1 bytes.
MCByteMore == {<<call("cycles", "ascii", f)>> : f \in {"dfa", "double"}}
=============================================================================
