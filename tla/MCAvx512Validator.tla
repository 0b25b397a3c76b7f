------------------------- MODULE MCAvx512Validator -------------------------
(***************************************************************************)
(* Avx512Validator over the strings of InputFamilies.                      *)
(***************************************************************************)
EXTENDS Avx512Validator, InputFamilies

\* _mm512_set4_epi32, the highest word first, repeated for each 128 bits.
set4_epi32(words) ==
  [k \in Lane |-> words[4 - ((k % 16) \div 4)][4 - (k % 4)]]

flagged(cont, prev) ==
  avx512_checkContinuations(cont, avx512_carryContinuations(cont, prev))

\* The same vectors for this width in tests/unit.c.  The last is flagged: the
\* sequence that crosses into the register does not cross into its 128-bit
\* quarters, which repeat it.
ASSUME UnitVectors ==
  W = 64 =>
    LET cont == set4_epi32(<< <<1,0,0,3>>, <<0,2,1,0>>, <<2,0,0,3>>, <<0,0,0,4>> >>)
        overlap == set4_epi32(<< <<1,0,0,3>>, <<0,2,1,0>>, <<2,0,0,3>>, <<0,1,0,4>> >>)
        underlap == set4_epi32(<< <<1,0,0,3>>, <<0,2,1,0>>, <<2,0,0,0>>, <<0,0,0,4>> >>)
        crossing == set4_epi32(<< <<1,1,0,0>>, <<3,0,2,1>>, <<0,2,0,0>>, <<3,0,2,0>> >>)
        before == set4_epi32(<< <<2,3,4,2>>, <<3,1,2,1>>, <<1,2,1,2>>, <<3,1,2,3>> >>)
    IN  /\ flagged(cont, Set1(1)) = {}
        /\ avx512_carryContinuations(cont, Set1(1))
             = set4_epi32(<< <<1,1,2,3>>, <<1,2,1,1>>, <<2,1,2,3>>, <<1,2,3,4>> >>)
        /\ flagged(overlap, Set1(1)) # {}
        /\ flagged(underlap, Set1(1)) # {}
        /\ flagged(crossing, before) # {}
=============================================================================
