--------------------------- MODULE BlockValidator ---------------------------
(***************************************************************************)
(* The block validators of include/simdutf8check.h.  The three entry       *)
(* points differ in the register width and in whether whole-ASCII blocks   *)
(* take the short path:                                                    *)
(*                                                                         *)
(*   validate_utf8_fast                W = 16   asciipath = FALSE          *)
(*   validate_utf8_fast_avx            W = 32   asciipath = FALSE          *)
(*   validate_utf8_fast_avx_asciipath  W = 32   asciipath = TRUE           *)
(*                                                                         *)
(* One action is one iteration of the loop, or the code after the loop.    *)
(***************************************************************************)
EXTENDS Simd

CONSTANTS
  SizeMod,     \* 2^w for a w-bit size_t
  Inputs       \* the arguments of the call: records of a length and its bytes

ASSUME SizeAssumption == SizeMod \in Nat \ {0}
ASSUME InputsAssumption ==
  \A in \in Inputs :
    \E n \in 0 .. SizeMod - 1 : in \in [len : {n}, src : Strings(n)]

VARIABLES
  asciipath,   \* is avxcheckUTF8Bytes_asciipath used in the loop
  pc,          \* "loop" until the function returns, then "done"
  src, len,    \* the arguments
  i,           \* offset of the next block
  previous,    \* struct processed_utf_bytes of the last block
  has_error,   \* the lanes of the error vector that are not zero
  result       \* the returned value, once pc = "done"

vars == <<asciipath, pc, src, len, i, previous, has_error, result>>

-----------------------------------------------------------------------------
(* The checks on one block.                                                *)

checkSmallerThan0xF4(current_bytes) ==
  {k \in Lane : Subs(current_bytes[k], 244) # 0}

lengthTable == <<1, 1, 1, 1, 1, 1, 1, 1,   \* 0xxx (ASCII)
                 0, 0, 0, 0,               \* 10xx (continuation)
                 2, 2, 3, 4>>              \* 110x, 1110, 1111

continuationLengths(high_nibbles) == Shuffle(lengthTable, high_nibbles)

\* Fault: a subtraction that wraps, _mm_sub_epi8 for _mm_subs_epu8.
carrySumWrapping(initial_lengths, previous_carries) ==
  [k \in Lane |->
     Add8(initial_lengths[k],
          (Alignr(initial_lengths, previous_carries, 1)[k] - 1) % 256)]

carrySum(initial_lengths, previous_carries) ==
  [k \in Lane |->
     Add8(initial_lengths[k],
          Subs(Alignr(initial_lengths, previous_carries, 1)[k], 1))]

\* Fault: the second step moves by one lane instead of two.
carryContinuationsByOne(initial_lengths, previous_carries) ==
  LET sum == carrySum(initial_lengths, previous_carries)
  IN  [k \in Lane |->
         Add8(sum[k], Subs(Alignr(sum, previous_carries, 1)[k], 2))]

carryContinuations(initial_lengths, previous_carries) ==
  LET sum == carrySum(initial_lengths, previous_carries)
  IN  [k \in Lane |->
         Add8(sum[k], Subs(Alignr(sum, previous_carries, 2)[k], 2))]

\* overlap || underlap
checkContinuations(initial_lengths, carries) ==
  {k \in Lane : Gt8(carries[k], initial_lengths[k]) = Gt8(initial_lengths[k], 0)}

checkFirstContinuationMax(current_bytes, off1_current_bytes) ==
  {k \in Lane :
     \/ off1_current_bytes[k] = 237 /\ Gt8(current_bytes[k], 159)
     \/ off1_current_bytes[k] = 244 /\ Gt8(current_bytes[k], 143)}

\* Fault: C1 is taken for the first lead byte that is not overlong.
initialMinsC1 == <<128, 128, 128, 128, 128, 128, 128, 128, 128, 128, 128, 128,
                   193, 128, 225, 241>>

\* 128 is the byte of -128, below which nothing is.
initialMins == <<128, 128, 128, 128, 128, 128, 128, 128, 128, 128, 128, 128,
                 194, 128, 225, 241>>
secondMins == <<128, 128, 128, 128, 128, 128, 128, 128, 128, 128, 128, 128,
                127, 127, 160, 144>>

checkOverlong(current_bytes, off1_current_bytes, hibits, previous_hibits) ==
  LET off1_hibits == Alignr(hibits, previous_hibits, 1)
      initial_mins == Shuffle(initialMins, off1_hibits)
      second_mins == Shuffle(secondMins, off1_hibits)
  IN  {k \in Lane : /\ Gt8(initial_mins[k], off1_current_bytes[k])
                    /\ Gt8(second_mins[k], current_bytes[k])}

\* What a block leaves for the next one.
processed_utf_bytes ==
  [rawbytes : [Lane -> Byte],
   high_nibbles : [Lane -> 0 .. 15],
   carried_continuations : [Lane -> Byte]]

\* 16-bit shift right by 4, then mask: the high nibble of every byte.
count_nibbles(bytes) == [k \in Lane |-> bytes[k] \div 16]

\* What checkUTF8Bytes returns: the processed_utf_bytes of the block.
processed(current_bytes, prev) ==
  LET nibbles == count_nibbles(current_bytes)
  IN  [rawbytes |-> current_bytes,
       high_nibbles |-> nibbles,
       carried_continuations |->
         carryContinuations(continuationLengths(nibbles),
                            prev.carried_continuations)]

\* What checkUTF8Bytes ORs into the error vector.
blockErrors(current_bytes, prev) ==
  LET pb == processed(current_bytes, prev)
      off1_current_bytes == Alignr(pb.rawbytes, prev.rawbytes, 1)
  IN  checkSmallerThan0xF4(current_bytes)
        \union checkContinuations(continuationLengths(pb.high_nibbles),
                                  pb.carried_continuations)
        \union checkFirstContinuationMax(current_bytes, off1_current_bytes)
        \union checkOverlong(current_bytes, off1_current_bytes,
                             pb.high_nibbles, prev.high_nibbles)

\* A sequence is still open after the last block: 9 in every lane but the
\* last, where it is 1.
openSequence(carried) ==
  {k \in Lane : Gt8(carried[k], IF k = W - 1 THEN 1 ELSE 9)}

allAscii(bytes) == \A k \in Lane : bytes[k] < 128

-----------------------------------------------------------------------------
(* The validators.                                                         *)

load(offset) == [k \in Lane |-> src[offset + k]]

\* memset, then memcpy of what is left: the block is padded with zeros.
buffer == [k \in Lane |-> IF k < len - i THEN src[i + k] ELSE 0]

Init ==
  /\ asciipath \in BOOLEAN
  /\ pc = "loop"
  /\ \E in \in Inputs : src = in.src /\ len = in.len
  /\ i = 0
  /\ previous = [rawbytes |-> Set1(0), high_nibbles |-> Set1(0),
                 carried_continuations |-> Set1(0)]
  /\ has_error = {}
  /\ result = FALSE

\* Faults: the test that keeps len - 16 from wrapping is dropped; the block
\* that ends with the string is left to the tail.
moreBlocksUnguarded == i <= (len - W) % SizeMod
moreBlocksStrictly == len >= W /\ i < (len - W) % SizeMod

\* "if (len >= 16) for (; i <= len - 16; i += 16)": len - 16 would wrap.
moreBlocks == len >= W /\ i <= (len - W) % SizeMod

\* Fault: the stride is not the register's width.
advanceTooFar == i' = (i + W + 1) % SizeMod

advance == i' = (i + W) % SizeMod

CheckBlock ==
  /\ pc = "loop" /\ moreBlocks
  /\ ~(asciipath /\ allAscii(load(i)))
  /\ has_error' = has_error \union blockErrors(load(i), previous)
  /\ previous' = processed(load(i), previous)
  /\ advance
  /\ UNCHANGED <<asciipath, pc, src, len, result>>

\* Fault: an ASCII block is skipped without a look at the sequence before it.
SkipAsciiBlockUnchecked ==
  /\ pc = "loop" /\ moreBlocks
  /\ asciipath /\ allAscii(load(i))
  /\ advance
  /\ UNCHANGED <<asciipath, pc, src, len, previous, has_error, result>>

\* The fast path only looks for a sequence the block interrupts, and leaves
\* the previous block where it is.
SkipAsciiBlock ==
  /\ pc = "loop" /\ moreBlocks
  /\ asciipath /\ allAscii(load(i))
  /\ has_error' = has_error \union openSequence(previous.carried_continuations)
  /\ advance
  /\ UNCHANGED <<asciipath, pc, src, len, previous, result>>

Return ==
  /\ pc' = "done"
  /\ result' = (has_error' = {})
  /\ UNCHANGED <<asciipath, src, len, i>>

CheckTail ==
  /\ pc = "loop" /\ ~moreBlocks /\ i < len
  /\ has_error' = has_error \union blockErrors(buffer, previous)
  /\ previous' = processed(buffer, previous)
  /\ Return

CheckEnd ==
  /\ pc = "loop" /\ ~moreBlocks /\ ~(i < len)
  /\ has_error' = has_error \union openSequence(previous.carried_continuations)
  /\ UNCHANGED previous
  /\ Return

Next == CheckBlock \/ SkipAsciiBlock \/ CheckTail \/ CheckEnd

Safety == Init /\ [][Next]_vars

\* The function runs on its own: nothing else can stop its next step.
Spec == Safety /\ WF_vars(Next)

-----------------------------------------------------------------------------
(* Properties.                                                             *)

TypeOK ==
  /\ asciipath \in BOOLEAN
  /\ pc \in {"loop", "done"}
  /\ len \in 0 .. SizeMod - 1
  /\ src \in Strings(len)
  /\ i \in 0 .. len
  /\ previous \in processed_utf_bytes
  /\ has_error \subseteq Lane
  /\ result \in BOOLEAN

(* Every vector load stays inside the string, and the bytes left for the   *)
(* tail are fewer than a register, so that memcpy stays inside the buffer  *)
(* and at least one padding zero follows them: without it a sequence cut   *)
(* by the end of the string would go unnoticed.                            *)
LoadsInBounds ==
  pc = "loop" => IF moreBlocks THEN i + W <= len ELSE len - i < W

(* The carried counts are compared as signed bytes.  Whatever the input,   *)
(* and after any error, they stay far from 128, where the comparison of    *)
(* checkContinuations would turn over.                                     *)
CarriesStaySmall ==
  /\ \A k \in Lane : previous.carried_continuations[k] <= 33
  /\ previous.carried_continuations[W - 2] <= 20
  /\ previous.carried_continuations[W - 1] <= 12

(* The error vector is empty exactly as long as every byte read so far may *)
(* follow the three before it: an error is never cleared, none is reported *)
(* a block late (C0 and C1, which start nothing, count with the byte after *)
(* them), and none for a sequence that a later block may still complete.   *)
ErrorsAreExact ==
  pc = "loop" => (has_error = {} <=> PrefixOK(src, len, i))

(* What the next block needs to know of the previous ones is right even    *)
(* when "previous" is stale because ASCII blocks have been skipped since:  *)
(* the continuation bytes owed across the boundary, and the lead byte that *)
(* restricts the next one.                                                 *)
Summarises(prev, q) ==
  /\ \A k \in Lane : prev.carried_continuations[k] <= 4
  /\ Subs(prev.carried_continuations[W - 1], 1) = Debt(src, len, q - 1)
  /\ Subs(prev.carried_continuations[W - 2], 2) = Subs(Debt(src, len, q - 2), 1)
  /\ \/ prev.rawbytes[W - 1] = Padded(src, len, q - 1)
     \/ prev.rawbytes[W - 1] < 192 /\ Padded(src, len, q - 1) < 192
  /\ prev.high_nibbles[W - 1] = prev.rawbytes[W - 1] \div 16

PreviousSummarises ==
  pc = "loop" /\ has_error = {} => Summarises(previous, i)

(* The function returns true exactly for the well-formed strings.          *)
VerdictCorrect == pc = "done" => (result <=> WellFormed(src, len))

Call == INSTANCE ValidatorCall WITH Accepts <- WellFormed

(* Seen from the caller the blocks are invisible: one answer, the right    *)
(* one, and always one - the offset i neither stops nor wraps.             *)
ImplementsCall == Call!Spec
=============================================================================
