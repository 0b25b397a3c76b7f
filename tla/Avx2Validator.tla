--------------------------- MODULE Avx2Validator ---------------------------
(***************************************************************************)
(* The AVX2 form of the block validators (include/simdutf8check.h).  A     *)
(* 256-bit register is two halves of 128 bits, and the intrinsics that     *)
(* move bytes across lanes work on each half by itself: to push the last   *)
(* bytes of the previous block in at the bottom the code first brings the  *)
(* two halves that meet into one register.  The loads, the nibbles and the *)
(* loop are those of BlockValidator.                                       *)
(***************************************************************************)
EXTENDS BlockValidator

Half == W \div 2   \* lanes of one half: 16

\* At two lanes a half, a push of two bytes replaces a whole half.
ASSUME HalvesAssumption == W = 2 * Half /\ Half >= 2

\* _mm256_permute2x128_si256(a, b, 0x21): the high half of a, the low of b.
permute2x128(a, b) ==
  [k \in Lane |-> IF k < Half THEN a[Half + k] ELSE b[k - Half]]

\* _mm256_alignr_epi8(a, b, 16 - n): n bytes of b into each half of a.
alignrHalves(a, b, n) ==
  [k \in Lane |->
     IF k < n THEN b[Half - n + k]
     ELSE IF k \in Half .. Half + n - 1 THEN b[k + Half - n]
     ELSE a[k - n]]

\* Fault: the halves that meet are not brought together first.
push_last_byte_unjoined(a, b) == alignrHalves(b, a, 1)

push_last_byte_of_a_to_b(a, b) == alignrHalves(b, permute2x128(a, b), 1)

push_last_2bytes_of_a_to_b(a, b) == alignrHalves(b, permute2x128(a, b), 2)

avxcheckSmallerThan0xF4(current_bytes) ==
  {k \in Lane : Subs(current_bytes[k], 244) # 0}

\* _mm256_shuffle_epi8: each half looks its indexes up in its own 16 bytes.
shuffleHalves(table, indexes) ==
  [k \in Lane |-> table[IF k < Half THEN indexes[k] + 1 ELSE 16 + indexes[k] + 1]]

\* The tables are written out twice, once for each half.
twice(table) == [n \in 1 .. 32 |-> table[IF n <= 16 THEN n ELSE n - 16]]

avxcontinuationLengths(high_nibbles) ==
  shuffleHalves(twice(lengthTable), high_nibbles)

avxcarryContinuations(initial_lengths, previous_carries) ==
  LET right1 == push_last_byte_of_a_to_b(previous_carries, initial_lengths)
      sum == [k \in Lane |-> Add8(initial_lengths[k], Subs(right1[k], 1))]
      right2 == push_last_2bytes_of_a_to_b(previous_carries, sum)
  IN  [k \in Lane |-> Add8(sum[k], Subs(right2[k], 2))]

\* _mm256_cmpeq_epi8 of two comparisons: the lanes where they agree.
avxcheckContinuations(initial_lengths, carries) ==
  LET longer == {k \in Lane : Gt8(carries[k], initial_lengths[k])}
      starts == {k \in Lane : Gt8(initial_lengths[k], 0)}
  IN  {k \in Lane : k \in longer <=> k \in starts}

avxcheckFirstContinuationMax(current_bytes, off1_current_bytes) ==
  LET maskED == {k \in Lane : off1_current_bytes[k] = 237}
      maskF4 == {k \in Lane : off1_current_bytes[k] = 244}
  IN  {k \in maskED : Gt8(current_bytes[k], 159)}
        \union {k \in maskF4 : Gt8(current_bytes[k], 143)}

avxcheckOverlong(current_bytes, off1_current_bytes, hibits, previous_hibits) ==
  LET off1_hibits == push_last_byte_of_a_to_b(previous_hibits, hibits)
      initial_mins == shuffleHalves(twice(initialMins), off1_hibits)
      second_mins == shuffleHalves(twice(secondMins), off1_hibits)
  IN  {k \in Lane : /\ Gt8(initial_mins[k], off1_current_bytes[k])
                    /\ Gt8(second_mins[k], current_bytes[k])}

avxprocessed(current_bytes, prev) ==
  LET nibbles == count_nibbles(current_bytes)
  IN  [rawbytes |-> current_bytes,
       high_nibbles |-> nibbles,
       carried_continuations |->
         avxcarryContinuations(avxcontinuationLengths(nibbles),
                               prev.carried_continuations)]

avxblockErrors(current_bytes, prev) ==
  LET pb == avxprocessed(current_bytes, prev)
      off1_current_bytes == push_last_byte_of_a_to_b(prev.rawbytes, pb.rawbytes)
  IN  avxcheckSmallerThan0xF4(current_bytes)
        \union avxcheckContinuations(avxcontinuationLengths(pb.high_nibbles),
                                     pb.carried_continuations)
        \union avxcheckFirstContinuationMax(current_bytes, off1_current_bytes)
        \union avxcheckOverlong(current_bytes, off1_current_bytes,
                                pb.high_nibbles, prev.high_nibbles)

\* Fault: the lanes listed from the highest on, as _mm256_set_epi8 does.
avxopenLimitsReversed == [k \in Lane |-> IF k = 0 THEN 1 ELSE 9]

\* _mm256_setr_epi8 lists the lanes from the lowest on: 31 nines and a one.
avxopenLimits == [k \in Lane |-> IF k < W - 1 THEN 9 ELSE 1]

avxopenSequence(carried) == {k \in Lane : Gt8(carried[k], avxopenLimits[k])}

\* _mm256_testz_si256 of the block and the sign bits
avxallAscii(bytes) == {k \in Lane : bytes[k] >= 128} = {}

-----------------------------------------------------------------------------
(* validate_utf8_fast_avx and validate_utf8_fast_avx_asciipath.            *)

AvxCheckBlock ==
  /\ pc = "loop" /\ moreBlocks
  /\ ~(asciipath /\ avxallAscii(load(i)))
  /\ has_error' = has_error \union avxblockErrors(load(i), previous)
  /\ previous' = avxprocessed(load(i), previous)
  /\ advance
  /\ UNCHANGED <<asciipath, pc, src, len, result>>

AvxSkipAsciiBlock ==
  /\ pc = "loop" /\ moreBlocks
  /\ asciipath /\ avxallAscii(load(i))
  /\ has_error' = has_error \union avxopenSequence(previous.carried_continuations)
  /\ advance
  /\ UNCHANGED <<asciipath, pc, src, len, previous, result>>

AvxCheckTail ==
  /\ pc = "loop" /\ ~moreBlocks /\ i < len
  /\ has_error' = has_error \union avxblockErrors(buffer, previous)
  /\ previous' = avxprocessed(buffer, previous)
  /\ Return

AvxCheckEnd ==
  /\ pc = "loop" /\ ~moreBlocks /\ ~(i < len)
  /\ has_error' = has_error \union avxopenSequence(previous.carried_continuations)
  /\ UNCHANGED previous
  /\ Return

AvxNext == AvxCheckBlock \/ AvxSkipAsciiBlock \/ AvxCheckTail \/ AvxCheckEnd

AvxSafety == Init /\ [][AvxNext]_vars

AvxSpec == AvxSafety /\ WF_vars(AvxNext)

-----------------------------------------------------------------------------
(* Two halves behave as one register of twice the width: block after block *)
(* the AVX2 code computes what the SSE code would compute at its width.    *)
(* (It starts from the same Init.)                                         *)
AvxImplementsBlocks == [][Next]_vars
=============================================================================
