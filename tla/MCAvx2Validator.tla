------------------------- MODULE MCAvx2Validator -------------------------
(***************************************************************************)
(* Avx2Validator over the strings of InputFamilies.                        *)
(***************************************************************************)
EXTENDS Avx2Validator, InputFamilies

\* _mm_setr_epi8: sixteen bytes, the lowest lane first, in either half of the
\* register; there is a sequence of one byte in every lane of the other half.
setrLow(bytes) == [k \in Lane |-> IF k < Half THEN bytes[k + 1] ELSE 1]
setrHigh(bytes) == [k \in Lane |-> IF k < Half THEN 1 ELSE bytes[k - Half + 1]]

\* The lanes checkContinuations flags after carryContinuations.
flagged(cont, prev) == checkContinuations(cont, carryContinuations(cont, prev))

\* The hand-made vectors of sixteen lanes at the end of tests/unit.c: what it
\* asserts of a block of whole sequences, and with one that starts too early
\* (overlap), one that ends too early (underlap), and one that started in the
\* last register.
ASSUME UnitVectors ==
  LET cont == <<4,0,0,0,3,0,0,2,0,1,2,0,3,0,0,1>>
      carried == <<4,3,2,1,3,2,1,2,1,1,2,1,3,2,1,1>>
      overlap == <<4,0,1,0,3,0,0,2,0,1,2,0,3,0,0,1>>
      underlap == <<4,0,0,0,0,0,0,2,0,1,2,0,3,0,0,1>>
      crossing == <<0,2,0,3,0,0,2,0,1,2,0,3,0,0,1,1>>
      before == <<3,2,1,3,2,1,2,1,1,2,1,3,2,4,3,2>>
  IN  /\ carryContinuations(setrLow(cont), Set1(1)) = setrLow(carried)
      /\ carryContinuations(setrHigh(cont), Set1(1)) = setrHigh(carried)
      /\ \A v \in {setrLow(cont), setrHigh(cont)} : flagged(v, Set1(1)) = {}
      /\ \A v \in {setrLow(overlap), setrHigh(overlap),
                   setrLow(underlap), setrHigh(underlap)} :
           flagged(v, Set1(1)) # {}
      /\ flagged(setrLow(crossing), setrHigh(before)) = {}
=============================================================================
