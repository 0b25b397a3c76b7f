--------------------------- MODULE AsciiValidator ---------------------------
(***************************************************************************)
(* The ASCII checks of include/simdasciicheck.h and                        *)
(* include/simdasciicheck_avx512.h: OR every block into one register, look *)
(* at the sign bits at the end.                                            *)
(*                                                                         *)
(*   validate_ascii_fast          W = 16   reduction = "movemask"          *)
(*   validate_ascii_fast_avx      W = 32   reduction = "movemask"          *)
(*   validate_ascii_fast_avx512   W = 64   reduction = "reduce_or_epi32"   *)
(*                                                                         *)
(* Of a byte only the sign bit matters: the register is the set of the     *)
(* lanes where it is set, and the int the register is reduced to is the    *)
(* set of its bits that the final test does not mask away.                 *)
(***************************************************************************)
EXTENDS Simd

CONSTANTS
  SizeMod,     \* 2^w for a w-bit size_t
  Inputs       \* the arguments of the call: records of a length and its bytes

ASSUME SizeAssumption == SizeMod \in Nat \ {0}
ASSUME InputsAssumption ==
  \A in \in Inputs :
    \E n \in 0 .. SizeMod - 1 : in \in [len : {n}, src : Strings(n)]

Reductions == {"movemask", "reduce_or_epi32"}

VARIABLES
  reduction,   \* how the function called makes an int of its register
  pc,          \* "loop" while blocks are ORed, "tail", then "done"
  src, len,    \* the arguments
  i,           \* offset of the next block or byte
  has_error,   \* the lanes of the register whose sign bit is set
  error_mask,  \* the bits of error_mask (of "reduced" with AVX-512)
  result       \* the returned value, once pc = "done"

vars == <<reduction, pc, src, len, i, has_error, error_mask, result>>

load(offset) == {k \in Lane : src[offset + k] >= 128}

\* The bits of error_mask that can be set: with AVX-512, those of 0x80808080.
signBits == IF reduction = "movemask" THEN Lane \union {7} ELSE {7, 15, 23, 31}

\* Fault: only the lowest of the four bytes of a word is looked at.
reducedLow(lanes) == {7 : k \in {k \in lanes : k % 4 = 0}}

\* movemask gathers the sign bit of lane k in bit k.  The reduction ORs the
\* 32-bit words, so that lane k ends up in byte k % 4.
reduced(lanes) ==
  IF reduction = "movemask" THEN lanes ELSE {8 * (k % 4) + 7 : k \in lanes}

\* Fault: the sign extension of the char is not masked away.
tailBitsUnmasked(byte) == IF byte < 128 THEN {} ELSE 7 .. 31

\* A byte of the tail: "tail_has_error & 0x80" sets bit 7; with AVX-512 the
\* char is sign-extended to an int, and 0x80808080 keeps four bits of it.
tailBits(byte) ==
  IF byte < 128 THEN {}
  ELSE IF reduction = "movemask" THEN {7} ELSE {7, 15, 23, 31}

Init ==
  /\ reduction \in Reductions
  /\ pc = "loop"
  /\ \E in \in Inputs : src = in.src /\ len = in.len
  /\ i = 0
  /\ has_error = {}
  /\ error_mask = {}
  /\ result = FALSE

\* Fault: the block that ends with the string is always read.
moreBlocksUnguarded == i <= (len - W) % SizeMod

\* "if (len >= 16) for (; i <= len - 16; i += 16)"
moreBlocks == len >= W /\ i <= (len - W) % SizeMod

\* Fault: the register holds the last block instead of the OR of all.
OrBlockLast ==
  /\ pc = "loop" /\ moreBlocks
  /\ has_error' = load(i)
  /\ i' = (i + W) % SizeMod
  /\ UNCHANGED <<reduction, pc, src, len, error_mask, result>>

OrBlock ==
  /\ pc = "loop" /\ moreBlocks
  /\ has_error' = has_error \union load(i)
  /\ i' = (i + W) % SizeMod
  /\ UNCHANGED <<reduction, pc, src, len, error_mask, result>>

Reduce ==
  /\ pc = "loop" /\ ~moreBlocks
  /\ pc' = "tail"
  /\ error_mask' = reduced(has_error)
  /\ UNCHANGED <<reduction, src, len, i, has_error, result>>

TailByte ==
  /\ pc = "tail" /\ i < len
  /\ error_mask' = error_mask \union tailBits(src[i])
  /\ i' = (i + 1) % SizeMod
  /\ UNCHANGED <<reduction, pc, src, len, has_error, result>>

\* Fault: the tail is left out of the result.
ReturnBlocksOnly ==
  /\ pc = "tail" /\ ~(i < len)
  /\ pc' = "done"
  /\ result' = (has_error = {})
  /\ UNCHANGED <<reduction, src, len, i, has_error, error_mask>>

Return ==
  /\ pc = "tail" /\ ~(i < len)
  /\ pc' = "done"
  /\ result' = (error_mask = {})
  /\ UNCHANGED <<reduction, src, len, i, has_error, error_mask>>

Next == OrBlock \/ Reduce \/ TailByte \/ Return

Safety == Init /\ [][Next]_vars

Spec == Safety /\ WF_vars(Next)

-----------------------------------------------------------------------------
TypeOK ==
  /\ reduction \in Reductions
  /\ pc \in {"loop", "tail", "done"}
  /\ len \in 0 .. SizeMod - 1
  /\ src \in Strings(len)
  /\ i \in 0 .. len
  /\ has_error \subseteq Lane
  /\ error_mask \subseteq signBits
  /\ result \in BOOLEAN

(* A vector load stays inside the string, and once the loop is over fewer  *)
(* bytes than a register are left to the byte loop.                        *)
LoadsInBounds ==
  /\ pc = "loop" /\ moreBlocks => i + W <= len
  /\ pc = "tail" => len - i < W
  /\ pc = "done" => i = len

(* No sign bit is lost or made up, neither by the OR of the blocks, nor by *)
(* the reduction, nor by the sign extension of the tail.                   *)
MaskIsExact ==
  /\ pc = "loop" => (has_error = {} <=> Ascii(src, i))
  /\ pc # "loop" => (error_mask = {} <=> Ascii(src, i))

Call == INSTANCE ValidatorCall WITH Accepts <- Ascii,
                                    pc <- IF pc = "done" THEN "done" ELSE "loop"

(* Seen from the caller: one answer, whether the string is ASCII, and      *)
(* always one.                                                             *)
ImplementsCall == Call!Spec
=============================================================================
