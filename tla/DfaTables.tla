----------------------------- MODULE DfaTables -----------------------------
(***************************************************************************)
(* The automaton of benchmarks/hoehrmann.h, which the block validators are *)
(* compared with: one table gives the class of a byte, another the next    *)
(* state.  It is there twice, the second time with the states multiplied   *)
(* by 16, so that the index into the table needs no multiplication.        *)
(***************************************************************************)
EXTENDS Utf8, Sequences

UTF8_ACCEPT == 0
UTF8_REJECT == 1

\* Fault: C1 is taken for the start of two bytes.
utf8dC1(byte) ==
  IF byte <= 127 THEN 0
  ELSE IF byte <= 143 THEN 1
  ELSE IF byte <= 159 THEN 9
  ELSE IF byte <= 191 THEN 7
  ELSE IF byte <= 192 THEN 8
  ELSE IF byte <= 223 THEN 2
  ELSE IF byte = 224 THEN 10
  ELSE IF byte = 237 THEN 4
  ELSE IF byte <= 239 THEN 3
  ELSE IF byte = 240 THEN 11
  ELSE IF byte <= 243 THEN 6
  ELSE IF byte = 244 THEN 5
  ELSE 8

\* The class of a byte: the table, run by run.
utf8d(byte) ==
  IF byte <= 127 THEN 0
  ELSE IF byte <= 143 THEN 1
  ELSE IF byte <= 159 THEN 9
  ELSE IF byte <= 191 THEN 7
  ELSE IF byte <= 193 THEN 8
  ELSE IF byte <= 223 THEN 2
  ELSE IF byte = 224 THEN 10
  ELSE IF byte <= 236 THEN 3
  ELSE IF byte = 237 THEN 4
  ELSE IF byte <= 239 THEN 3
  ELSE IF byte = 240 THEN 11
  ELSE IF byte <= 243 THEN 6
  ELSE IF byte = 244 THEN 5
  ELSE 8

\* Fault: a surrogate may follow ED.
transitionSurrogates ==
  <<0, 1, 2, 3, 5, 8, 7, 1, 1, 1, 4, 6, 1, 1, 1, 1,
    1, 1, 1, 1, 1, 1, 1, 1, 1, 1, 1, 1, 1, 1, 1, 1,
    1, 0, 1, 1, 1, 1, 1, 0, 1, 0, 1, 1, 1, 1, 1, 1,
    1, 2, 1, 1, 1, 1, 1, 2, 1, 2, 1, 1, 1, 1, 1, 1,
    1, 1, 1, 1, 1, 1, 1, 2, 1, 1, 1, 1, 1, 1, 1, 1,
    1, 2, 1, 1, 1, 1, 1, 2, 1, 2, 1, 1, 1, 1, 1, 1,
    1, 1, 1, 1, 1, 1, 1, 3, 1, 3, 1, 1, 1, 1, 1, 1,
    1, 3, 1, 1, 1, 1, 1, 3, 1, 3, 1, 1, 1, 1, 1, 1,
    1, 3, 1, 1, 1, 1, 1, 1, 1, 1, 1, 1, 1, 1, 1, 1>>

\* Sixteen classes for each of the states 0 to 8.
utf8d_transition ==
  <<0, 1, 2, 3, 5, 8, 7, 1, 1, 1, 4, 6, 1, 1, 1, 1,
    1, 1, 1, 1, 1, 1, 1, 1, 1, 1, 1, 1, 1, 1, 1, 1,
    1, 0, 1, 1, 1, 1, 1, 0, 1, 0, 1, 1, 1, 1, 1, 1,
    1, 2, 1, 1, 1, 1, 1, 2, 1, 2, 1, 1, 1, 1, 1, 1,
    1, 1, 1, 1, 1, 1, 1, 2, 1, 1, 1, 1, 1, 1, 1, 1,
    1, 2, 1, 1, 1, 1, 1, 1, 1, 2, 1, 1, 1, 1, 1, 1,
    1, 1, 1, 1, 1, 1, 1, 3, 1, 3, 1, 1, 1, 1, 1, 1,
    1, 3, 1, 1, 1, 1, 1, 3, 1, 3, 1, 1, 1, 1, 1, 1,
    1, 3, 1, 1, 1, 1, 1, 1, 1, 1, 1, 1, 1, 1, 1, 1>>

\* Fault: the state is multiplied for the next index, and again there.
updatestateTwice(st, byte) == 16 * utf8d_transition[16 * st + utf8d(byte) + 1]

updatestate(st, byte) == utf8d_transition[16 * st + utf8d(byte) + 1]

-----------------------------------------------------------------------------
SHIFTLESS_UTF8_REJECT == 16

shifted_utf8d_transition ==
  << 0, 16,  32, 48, 80, 128, 112, 16, 16, 16, 64, 96, 16, 16, 16, 16,
    16, 16,  16, 16, 16,  16,  16, 16, 16, 16, 16, 16, 16, 16, 16, 16,
    16,  0,  16, 16, 16,  16,  16,  0, 16,  0, 16, 16, 16, 16, 16, 16,
    16, 32,  16, 16, 16,  16,  16, 32, 16, 32, 16, 16, 16, 16, 16, 16,
    16, 16,  16, 16, 16,  16,  16, 32, 16, 16, 16, 16, 16, 16, 16, 16,
    16, 32,  16, 16, 16,  16,  16, 16, 16, 32, 16, 16, 16, 16, 16, 16,
    16, 16,  16, 16, 16,  16,  16, 48, 16, 48, 16, 16, 16, 16, 16, 16,
    16, 48,  16, 16, 16,  16,  16, 48, 16, 48, 16, 16, 16, 16, 16, 16,
    16, 48,  16, 16, 16,  16,  16, 16, 16, 16, 16, 16, 16, 16, 16, 16>>

shiftless_updatestate(st, byte) == shifted_utf8d_transition[st + utf8d(byte) + 1]

-----------------------------------------------------------------------------
(***************************************************************************)
(* The step with the code point: decode(&state, &codep, byte) returns both *)
(* as a record.                                                            *)
(***************************************************************************)

\* Fault: the classes are taken to start at one.
leadBitsByOne(byte) ==
  IF utf8d(byte) > 8 THEN 0
  ELSE byte % (<<512, 256, 128, 64, 32, 16, 8, 4, 2>>[utf8d(byte) + 1])

\* (0xff >> type) & byte: a lead byte's class is also how many of its bits are
\* not of the code point.
leadBits(byte) ==
  IF utf8d(byte) > 8 THEN 0
  ELSE byte % (<<256, 128, 64, 32, 16, 8, 4, 2, 1>>[utf8d(byte) + 1])

\* (byte & 0x3f) | (*codep << 6), or the bits of a lead byte.  Of the 32 bits
\* the lower 24 are kept: a code point has 21, and bits only move up.
shifted(st, codep, byte) ==
  IF st # UTF8_ACCEPT THEN (byte % 64) + (64 * (codep % 262144))
  ELSE leadBits(byte)

decode(d, byte) ==
  [state |-> updatestate(d.state, byte),
   codep |-> shifted(d.state, d.codep, byte)]

shiftless_decode(d, byte) ==
  [state |-> shiftless_updatestate(d.state, byte),
   codep |-> shifted(d.state, d.codep, byte)]

-----------------------------------------------------------------------------
(* What state st says of the last three bytes b3, b2, b1 of a legal prefix. *)
Means(st, b3, b2, b1) ==
  \/ st = 0 /\ ~Owed(b3, b2, b1)
  \/ st = 2 /\ \/ b1 \in 194 .. 223
               \/ b2 \in 224 .. 239 /\ Continuation(b1)
               \/ b3 \in 240 .. 244 /\ Continuation(b2) /\ Continuation(b1)
  \/ st = 3 /\ \/ b1 \in (225 .. 239) \ {237}
               \/ b2 \in 240 .. 244 /\ Continuation(b1)
  \/ st = 4 /\ b1 = 224
  \/ st = 5 /\ b1 = 237
  \/ st = 6 /\ b1 = 240
  \/ st = 7 /\ b1 \in 241 .. 243
  \/ st = 8 /\ b1 = 244
=============================================================================
