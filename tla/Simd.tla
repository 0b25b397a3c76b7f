------------------------------- MODULE Simd --------------------------------
(***************************************************************************)
(* The x86 intrinsics the headers use, lane by lane.  A vector register of *)
(* W byte lanes is a function [Lane -> Byte]; lane 0 is the lowest address.*)
(* A comparison result (0xFF or 0 in a lane) is a Boolean, and an error    *)
(* vector is the set of the lanes that are not zero, so that OR is union   *)
(* and testz is emptiness.                                                 *)
(***************************************************************************)
EXTENDS Utf8

CONSTANT W   \* byte lanes of a register: 16 (SSE), 32 (AVX2), 64 (AVX-512)

\* Four lanes are what keeps the carried counts from growing without bound.
ASSUME WAssumption == W \in Nat /\ W >= 4

Lane == 0 .. W - 1

\* _mm_subs_epu8: unsigned subtraction that saturates at zero.
Subs(a, b) == IF a > b THEN a - b ELSE 0

\* _mm_add_epi8: wraps.
Add8(a, b) == (a + b) % 256

\* _mm_cmpgt_epi8 compares the bytes as signed numbers.
Signed(b) == IF b < 128 THEN b ELSE b - 256
Gt8(a, b) == Signed(a) > Signed(b)

\* _mm_alignr_epi8(cur, prev, W - n): cur moved up by n lanes, the last n
\* lanes of prev moved in at the bottom.
Alignr(cur, prev, n) ==
  [k \in Lane |-> IF k < n THEN prev[W - n + k] ELSE cur[k - n]]

\* _mm_shuffle_epi8 as a table lookup, for indexes below 16.
Shuffle(table, indexes) == [k \in Lane |-> table[indexes[k] + 1]]

Set1(b) == [k \in Lane |-> b]
=============================================================================
