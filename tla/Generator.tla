----------------------------- MODULE Generator -----------------------------
(***************************************************************************)
(* populate_utf8 of benchmarks/benchmark.c, which fills a buffer of 2 * N  *)
(* bytes with random UTF-8 for the validators to agree on, and ends it     *)
(* with a NUL.                                                             *)
(*                                                                         *)
(* data is what the call has written.  An iteration whose first draw is    *)
(* above F4 writes nothing: it is a stuttering step.  The branch           *)
(* "w < 0xF0" is not here: every w below F0 is taken by a branch before it.*)
(***************************************************************************)
EXTENDS Utf8, Sequences

CONSTANTS
  Sizes,   \* values of the argument N
  Kinds,   \* what rand() may return for the first draw of an iteration
  Rand     \* what rand() may return for the others

VARIABLES
  pc,      \* "loop" until the function returns, then "done"
  N,       \* the argument
  data,    \* the bytes written
  i        \* the next byte to write, in the end the result

vars == <<pc, N, data, i>>

\* rand() % (hi - lo + 1), from lo on
Draw(lo, hi) == {lo + (r % (hi - lo + 1)) : r \in Rand}

Trail == Draw(128, 191)

Init ==
  /\ pc = "loop"
  /\ N \in Sizes
  /\ data = [q \in {} |-> 0]
  /\ i = 0

\* data[i++] = ..., for each of the bytes of an iteration.
write(bytes) ==
  /\ data' = [q \in 0 .. i + Len(bytes) - 1 |->
                IF q < i THEN data[q] ELSE bytes[q - i + 1]]
  /\ i' = i + Len(bytes)
  /\ UNCHANGED <<pc, N>>

\* Fault: the loop goes on when N bytes are written.
loopsAtN == i <= N

loops == i < N

\* The loop is entered with w = rand() & 0xFF in a range.
drawn(range) == pc = "loop" /\ loops /\ \E k \in Kinds : k % 256 \in range

OneByte == drawn(0 .. 127) /\ write(<<32>>)

TwoBytes ==
  /\ drawn(128 .. 223)
  /\ \E b0 \in Draw(194, 223), b1 \in Trail :
       write(<<b0, b1>>)

\* Fault: ED may be followed by any continuation byte.
secondOfThreeAny(w) == IF w = 224 THEN Draw(160, 191) ELSE Trail

\* The second byte after the lead w of three bytes.
secondOfThree(w) ==
  IF w = 224 THEN Draw(160, 191) ELSE IF w = 237 THEN Draw(128, 159) ELSE Trail

ThreeBytes ==
  \E w \in 224 .. 239 :
    /\ drawn({w})
    /\ \E b1 \in secondOfThree(w), b2 \in Trail :
         write(<<w, b1, b2>>)

\* The first two bytes of four, for the draw w.
startOfFour(w) ==
  IF w = 240 THEN {240} \X Draw(144, 191)
  ELSE IF w = 244 THEN {244} \X Draw(128, 143)
  ELSE Draw(241, 243) \X Trail

FourBytes ==
  \E w \in 240 .. 244 :
    /\ drawn({w})
    /\ \E s \in startOfFour(w), b2 \in Trail, b3 \in Trail :
         write(s \o <<b2, b3>>)

\* Fault: the loop only ends at exactly N bytes.
FinishAtN ==
  /\ pc = "loop" /\ i = N
  /\ data' = [q \in 0 .. i |-> IF q < i THEN data[q] ELSE 0]
  /\ pc' = "done"
  /\ UNCHANGED <<N, i>>

\* The NUL does not count in the returned length.
Finish ==
  /\ pc = "loop" /\ ~loops
  /\ data' = [q \in 0 .. i |-> IF q < i THEN data[q] ELSE 0]
  /\ pc' = "done"
  /\ UNCHANGED <<N, i>>

Next == OneByte \/ TwoBytes \/ ThreeBytes \/ FourBytes \/ Finish

Spec == Init /\ [][Next]_vars /\ WF_vars(Next)
-----------------------------------------------------------------------------
TypeOK ==
  /\ pc \in {"loop", "done"}
  /\ N \in Sizes
  /\ i \in Nat
  /\ data \in Strings(IF pc = "done" THEN i + 1 ELSE i)

(* What has been written is well-formed UTF-8 whenever the loop comes      *)
(* around, and in the end, so that every validator must accept it.         *)
Generates == WellFormed(data, i)

(* "generate a string having at least length N, can exceed by up to 3      *)
(* chars": and so a buffer of 2 * N bytes has room for it, with the NUL,   *)
(* from N = 4 on.                                                          *)
LengthIsAsPromised ==
  /\ pc = "done" => i >= N
  /\ i <= N + 3
  /\ pc = "done" /\ N >= 4 => data[i] = 0 /\ i < 2 * N
=============================================================================
