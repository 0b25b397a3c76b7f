-------------------------- MODULE Avx512Validator --------------------------
(***************************************************************************)
(* The AVX-512 form of the block validators                                *)
(* (include/simdutf8check_avx512.h).  Comparisons return a 64-bit mask,    *)
(* one bit for a lane, which is again a set of lanes; bytes are moved by a *)
(* two-register permutation, and tables are written as 32-bit words.       *)
(***************************************************************************)
EXTENDS BlockValidator

\* The limits of openSequence are written as whole words.
ASSUME WordsAssumption == W % 4 = 0

\* _mm512_permutex2var_epi8(a, indexes, b): indexes from W on are those of b.
permutex2var(a, indexes, b) ==
  [k \in Lane |-> IF indexes[k] < W THEN a[indexes[k]] ELSE b[indexes[k] - W]]

\* Fault: 0x3F, the last lane of the wrong register.
pushIndexesRotate(n) == [k \in Lane |-> IF k < n THEN W - n + k ELSE k - n]

\* 0x7F, 0, 1, 2, ... and 0x7E, 0x7F, 0, 1, ...
pushIndexes(n) == [k \in Lane |-> IF k < n THEN 2 * W - n + k ELSE k - n]

avx512_push_last_byte_of_a_to_b(a, b) == permutex2var(b, pushIndexes(1), a)

avx512_push_last_2bytes_of_a_to_b(a, b) == permutex2var(b, pushIndexes(2), a)

\* _mm512_setr4_epi32, for each 128 bits: four words.  A hexadecimal constant
\* shows the high byte first, and the first lane holds the lowest.
setr4_epi32(words) ==
  [n \in 1 .. 16 |-> words[(n - 1) \div 4 + 1][4 - ((n - 1) % 4)]]

x01010101 == <<1, 1, 1, 1>>
x80808080 == <<128, 128, 128, 128>>

avx512_lengthTable ==
  setr4_epi32(<< x01010101, x01010101, <<0, 0, 0, 0>>, <<4, 3, 2, 2>> >>)

avx512_initialMins ==
  setr4_epi32(<< x80808080, x80808080, x80808080, <<241, 225, 128, 194>> >>)

avx512_secondMins ==
  setr4_epi32(<< x80808080, x80808080, x80808080, <<144, 160, 127, 127>> >>)

avx512_checkSmallerThan0xF4(current_bytes) == {k \in Lane : current_bytes[k] > 244}

avx512_carryContinuations(initial_lengths, previous_carries) ==
  LET right1 == avx512_push_last_byte_of_a_to_b(previous_carries, initial_lengths)
      sum == [k \in Lane |-> Add8(initial_lengths[k], Subs(right1[k], 1))]
      right2 == avx512_push_last_2bytes_of_a_to_b(previous_carries, sum)
  IN  [k \in Lane |-> Add8(sum[k], Subs(right2[k], 2))]

\* _kxnor_mask64: the lanes on which two masks agree.
avx512_checkContinuations(initial_lengths, carries) ==
  LET longer == {k \in Lane : Gt8(carries[k], initial_lengths[k])}
      starts == {k \in Lane : Gt8(initial_lengths[k], 0)}
  IN  (longer \intersect starts) \union (Lane \ (longer \union starts))

avx512_checkFirstContinuationMax(current_bytes, off1_current_bytes) ==
  LET maskED == {k \in Lane : off1_current_bytes[k] = 237}
      maskF4 == {k \in Lane : off1_current_bytes[k] = 244}
      badfollowED == {k \in Lane : Gt8(current_bytes[k], 159)} \intersect maskED
      badfollowF4 == {k \in Lane : Gt8(current_bytes[k], 143)} \intersect maskF4
  IN  badfollowED \union badfollowF4

avx512_checkOverlong(current_bytes, off1_current_bytes, hibits, previous_hibits) ==
  LET off1_hibits == avx512_push_last_byte_of_a_to_b(previous_hibits, hibits)
      initial_mins == Shuffle(avx512_initialMins, off1_hibits)
      second_mins == Shuffle(avx512_secondMins, off1_hibits)
  IN  {k \in Lane : Gt8(initial_mins[k], off1_current_bytes[k])}
        \intersect {k \in Lane : Gt8(second_mins[k], current_bytes[k])}

avx512_processed(current_bytes, prev) ==
  LET nibbles == count_nibbles(current_bytes)
  IN  [rawbytes |-> current_bytes,
       high_nibbles |-> nibbles,
       carried_continuations |->
         avx512_carryContinuations(Shuffle(avx512_lengthTable, nibbles),
                                   prev.carried_continuations)]

avx512_blockErrors(current_bytes, prev) ==
  LET pb == avx512_processed(current_bytes, prev)
      off1_current_bytes ==
        avx512_push_last_byte_of_a_to_b(prev.rawbytes, pb.rawbytes)
  IN  avx512_checkSmallerThan0xF4(current_bytes)
        \union avx512_checkContinuations(
                 Shuffle(avx512_lengthTable, pb.high_nibbles),
                 pb.carried_continuations)
        \union avx512_checkFirstContinuationMax(current_bytes, off1_current_bytes)
        \union avx512_checkOverlong(current_bytes, off1_current_bytes,
                                    pb.high_nibbles, prev.high_nibbles)

\* 0x09090909 in every word but the last, which is 0x01090909.
openLimits ==
  [k \in Lane |-> LET word == IF k < W - 4 THEN <<9, 9, 9, 9>> ELSE <<1, 9, 9, 9>>
                  IN  word[4 - (k % 4)]]

avx512_openSequence(carried) == {k \in Lane : Gt8(carried[k], openLimits[k])}

\* !_mm512_cmpge_epu8_mask(bytes, 0x80)
avx512_allAscii(bytes) == {k \in Lane : bytes[k] >= 128} = {}

-----------------------------------------------------------------------------
(* validate_utf8_fast_avx512 and validate_utf8_fast_avx512_asciipath.      *)

Avx512CheckBlock ==
  /\ pc = "loop" /\ moreBlocks
  /\ ~(asciipath /\ avx512_allAscii(load(i)))
  /\ has_error' = has_error \union avx512_blockErrors(load(i), previous)
  /\ previous' = avx512_processed(load(i), previous)
  /\ advance
  /\ UNCHANGED <<asciipath, pc, src, len, result>>

Avx512SkipAsciiBlock ==
  /\ pc = "loop" /\ moreBlocks
  /\ asciipath /\ avx512_allAscii(load(i))
  /\ has_error' = has_error \union avx512_openSequence(previous.carried_continuations)
  /\ advance
  /\ UNCHANGED <<asciipath, pc, src, len, previous, result>>

Avx512CheckTail ==
  /\ pc = "loop" /\ ~moreBlocks /\ i < len
  /\ has_error' = has_error \union avx512_blockErrors(buffer, previous)
  /\ previous' = avx512_processed(buffer, previous)
  /\ Return

Avx512CheckEnd ==
  /\ pc = "loop" /\ ~moreBlocks /\ ~(i < len)
  /\ has_error' = has_error \union avx512_openSequence(previous.carried_continuations)
  /\ UNCHANGED previous
  /\ Return

Avx512Next ==
  \/ Avx512CheckBlock \/ Avx512SkipAsciiBlock
  \/ Avx512CheckTail \/ Avx512CheckEnd

Avx512Safety == Init /\ [][Avx512Next]_vars

Avx512Spec == Avx512Safety /\ WF_vars(Avx512Next)

-----------------------------------------------------------------------------
(* The 64-lane code, with its other intrinsics and its tables of words,    *)
(* does block after block what the SSE code would do at its width, from    *)
(* the same Init on.                                                       *)
Avx512ImplementsBlocks == [][Next]_vars
=============================================================================
