---------------------------- MODULE BlockProofs ----------------------------
(***************************************************************************)
(* The block validators are correct for every string and every register    *)
(* width, with and without the ASCII path: first one lane, then a block,   *)
(* then the loop of simdutf8check.h, for W >= 4; then the AVX2 and AVX-512 *)
(* code, which is shown to take the steps of that loop.  Only the sections *)
(* on these use what Avx2Validator and Avx512Validator assume of W.        *)
(***************************************************************************)
EXTENDS Avx2Validator, Avx512Validator, Utf8Proofs

-----------------------------------------------------------------------------
(***************************************************************************)
(* One lane: what the vector code computes in it, as plain arithmetic on   *)
(* the bytes around it.                                                    *)
(***************************************************************************)

\* The length a byte announces, 0 for a continuation byte.
SeqLen(b) == IF b < 128 THEN 1 ELSE IF b < 192 THEN 0
             ELSE IF b < 224 THEN 2 ELSE IF b < 240 THEN 3 ELSE 4

\* The checks that look at a byte and the one before it.
byteError(p1, b) ==
  \/ Subs(b, 244) # 0
  \/ p1 = 237 /\ Gt8(b, 159)
  \/ p1 = 244 /\ Gt8(b, 143)
  \/ /\ Gt8(initialMins[p1 \div 16 + 1], p1)
     /\ Gt8(secondMins[p1 \div 16 + 1], b)

\* Follows, without its condition on continuation bytes.
pairOK(p1, b) ==
  /\ b <= 244
  /\ p1 \notin {192, 193}
  /\ p1 = 224 => b >= 160
  /\ p1 = 237 => b <= 159
  /\ p1 = 240 => b >= 144
  /\ p1 = 244 => b <= 143

\* What the first and the second shifted addition bring into lane k.
fed(cur, carried, k) ==
  IF k = 0 THEN Subs(carried[W-1], 1) ELSE Subs(SeqLen(cur[k-1]), 1)

fed2(cur, carried, k) ==
  IF k = 0 THEN Subs(carried[W-2], 2)
  ELSE IF k = 1 THEN Subs(carried[W-1], 2)
  ELSE Subs(SeqLen(cur[k-2]) + fed(cur, carried, k-2), 2)

initial(cur) == continuationLengths(count_nibbles(cur))

carries(cur, carried) == carryContinuations(initial(cur), carried)

-----------------------------------------------------------------------------
LEMMA Nibble ==
  ASSUME NEW b \in Byte
  PROVE  /\ b \div 16 \in 0 .. 15
         /\ 16 * (b \div 16) <= b /\ b < 16 * (b \div 16) + 16
  BY SMT DEF Byte

LEMMA LengthLookup ==
  ASSUME NEW b \in Byte
  PROVE  lengthTable[b \div 16 + 1] = SeqLen(b)
  <1> DEFINE h == b \div 16
  <1>1. h \in 0 .. 15 /\ 16 * h <= b /\ b < 16 * h + 16 /\ b \in Int
    BY Nibble DEF Byte
  <1> HIDE DEF h
  <1>2. CASE h \in 0 .. 7
    BY <1>1, <1>2 DEF lengthTable, SeqLen
  <1>3. CASE h \in 8 .. 11
    BY <1>1, <1>3 DEF lengthTable, SeqLen
  <1>4. CASE h \in 12 .. 15
    BY <1>1, <1>4 DEF lengthTable, SeqLen
  <1>5. lengthTable[h + 1] = SeqLen(b)
    BY <1>1, <1>2, <1>3, <1>4
  <1> QED
    BY <1>5 DEF h

LEMMA MinsLookup ==
  ASSUME NEW b \in Byte
  PROVE  /\ initialMins[b \div 16 + 1] =
              IF b < 192 THEN 128 ELSE IF b < 208 THEN 194
              ELSE IF b < 224 THEN 128 ELSE IF b < 240 THEN 225 ELSE 241
         /\ secondMins[b \div 16 + 1] =
              IF b < 192 THEN 128 ELSE IF b < 224 THEN 127
              ELSE IF b < 240 THEN 160 ELSE 144
  <1> DEFINE h == b \div 16
  <1>1. h \in 0 .. 15 /\ 16 * h <= b /\ b < 16 * h + 16 /\ b \in Int
    BY Nibble DEF Byte
  <1> HIDE DEF h
  <1>2. CASE h \in 0 .. 11
    BY <1>1, <1>2 DEF initialMins, secondMins
  <1>3. CASE h \in 12 .. 15
    BY <1>1, <1>3 DEF initialMins, secondMins
  <1>4. /\ initialMins[h + 1] =
              IF b < 192 THEN 128 ELSE IF b < 208 THEN 194
              ELSE IF b < 224 THEN 128 ELSE IF b < 240 THEN 225 ELSE 241
        /\ secondMins[h + 1] =
              IF b < 192 THEN 128 ELSE IF b < 224 THEN 127
              ELSE IF b < 240 THEN 160 ELSE 144
    BY <1>1, <1>2, <1>3
  <1> QED
    BY <1>4 DEF h

(* The saturating, signed and table-driven comparisons amount to the rows  *)
(* of the table, as long as a lead byte is followed by a continuation byte.*)
LEMMA ByteChecks ==
  ASSUME NEW p1 \in Byte, NEW b \in Byte, p1 >= 192 => Continuation(b)
  PROVE  byteError(p1, b) <=> ~pairOK(p1, b)
  <1> DEFINE m1 == initialMins[p1 \div 16 + 1]
             m2 == secondMins[p1 \div 16 + 1]
  <1>1. /\ m1 = IF p1 < 192 THEN 128 ELSE IF p1 < 208 THEN 194
                ELSE IF p1 < 224 THEN 128 ELSE IF p1 < 240 THEN 225 ELSE 241
        /\ m2 = IF p1 < 192 THEN 128 ELSE IF p1 < 224 THEN 127
                ELSE IF p1 < 240 THEN 160 ELSE 144
    BY MinsLookup
  <1>2. byteError(p1, b) <=> \/ Subs(b, 244) # 0
                             \/ p1 = 237 /\ Gt8(b, 159)
                             \/ p1 = 244 /\ Gt8(b, 143)
                             \/ Gt8(m1, p1) /\ Gt8(m2, b)
    BY DEF byteError
  <1> HIDE DEF m1, m2
  <1>3. CASE p1 < 192
    BY <1>1, <1>2, <1>3 DEF Subs, Gt8, Signed, pairOK, Byte
  <1>4. CASE p1 >= 192
    BY <1>1, <1>2, <1>4 DEF Subs, Gt8, Signed, pairOK, Byte, Continuation
  <1> QED
    BY <1>3, <1>4 DEF Byte

\* Adding in a byte lane: no sum of the carry computation wraps.
LEMMA CarryLanes ==
  ASSUME NEW cur \in [Lane -> Byte], NEW carried \in [Lane -> Byte],
         carried[W-1] <= 12, carried[W-2] <= 20
  PROVE  /\ carries(cur, carried) \in [Lane -> Byte]
         /\ \A k \in Lane :
              /\ initial(cur)[k] = SeqLen(cur[k])
              /\ fed(cur, carried, k) \in Nat /\ fed2(cur, carried, k) \in Nat
              /\ carries(cur, carried)[k] = SeqLen(cur[k]) + fed(cur, carried, k)
                                              + fed2(cur, carried, k)
              /\ carries(cur, carried)[k] <= 33
              /\ k >= 2 => carries(cur, carried)[k] <= 20
              /\ k >= 3 => carries(cur, carried)[k] <= 12
  <1> USE WAssumption
  <1> DEFINE ini == initial(cur)
             sum == carrySum(ini, carried)
             c == carries(cur, carried)
  <1>1. \A k \in Lane : cur[k] \in Byte /\ carried[k] \in Byte
    OBVIOUS
  <1>2. \A k \in Lane : SeqLen(cur[k]) \in 0 .. 4
    BY <1>1 DEF SeqLen, Byte
  <1>3. ini = [k \in Lane |-> SeqLen(cur[k])]
    <2>1. ini = [k \in Lane |-> lengthTable[cur[k] \div 16 + 1]]
      BY DEF initial, continuationLengths, count_nibbles, Shuffle
    <2> QED
      BY <1>1, <2>1, LengthLookup
  <1>4. W - 1 \in Lane /\ W - 2 \in Lane
    BY DEF Lane
  <1>5. carried[W-1] \in 0 .. 12 /\ carried[W-2] \in 0 .. 20
    BY <1>1, <1>4 DEF Byte
  <1>6. \A k \in Lane : fed(cur, carried, k) \in 0 .. 11
                        /\ (k >= 1 => fed(cur, carried, k) \in 0 .. 3)
    BY <1>2, <1>5 DEF fed, Subs, Lane
  <1>7. \A k \in Lane : sum[k] = SeqLen(cur[k]) + fed(cur, carried, k)
    <2> SUFFICES ASSUME NEW k \in Lane
                 PROVE  sum[k] = SeqLen(cur[k]) + fed(cur, carried, k)
      OBVIOUS
    <2>1. sum[k] = Add8(ini[k], Subs(Alignr(ini, carried, 1)[k], 1))
      BY DEF carrySum
    <2>2. Alignr(ini, carried, 1)[k] = IF k < 1 THEN carried[W-1+k] ELSE ini[k-1]
      BY DEF Alignr
    <2>3. Subs(Alignr(ini, carried, 1)[k], 1) = fed(cur, carried, k)
      <3>1. CASE k = 0
        BY <2>2, <3>1 DEF fed
      <3>2. CASE k # 0
        <4>1. k - 1 \in Lane /\ ~(k < 1)
          BY <3>2 DEF Lane
        <4> QED
          BY <1>3, <2>2, <3>2, <4>1 DEF fed
      <3> QED
        BY <3>1, <3>2
    <2>4. ini[k] = SeqLen(cur[k])
      BY <1>3
    <2>5. SeqLen(cur[k]) \in 0 .. 4 /\ fed(cur, carried, k) \in 0 .. 11
      BY <1>2, <1>6
    <2> QED
      BY <2>1, <2>3, <2>4, <2>5 DEF Add8
  <1>8. \A k \in Lane : /\ sum[k] \in 0 .. 15
                        /\ k >= 1 => sum[k] \in 0 .. 7
    BY <1>2, <1>6, <1>7
  <1>9. \A k \in Lane : /\ fed2(cur, carried, k) \in 0 .. 18
                        /\ k >= 1 => fed2(cur, carried, k) \in 0 .. 13
                        /\ k >= 3 => fed2(cur, carried, k) \in 0 .. 5
    <2> SUFFICES ASSUME NEW k \in Lane
                 PROVE  /\ fed2(cur, carried, k) \in 0 .. 18
                        /\ k >= 1 => fed2(cur, carried, k) \in 0 .. 13
                        /\ k >= 3 => fed2(cur, carried, k) \in 0 .. 5
      OBVIOUS
    <2>1. CASE k = 0
      BY <1>5, <2>1 DEF fed2, Subs
    <2>2. CASE k = 1
      BY <1>5, <2>2 DEF fed2, Subs
    <2>3. CASE k >= 2
      <3>1. k - 2 \in Lane
        BY <2>3 DEF Lane
      <3>2. fed2(cur, carried, k) = Subs(sum[k-2], 2)
        BY <1>7, <2>3, <3>1 DEF fed2, Lane
      <3>3. sum[k-2] \in 0 .. 15 /\ (k >= 3 => sum[k-2] \in 0 .. 7)
        BY <1>8, <2>3, <3>1 DEF Lane
      <3> QED
        BY <2>3, <3>2, <3>3 DEF Subs
    <2> QED
      BY <2>1, <2>2, <2>3 DEF Lane
  <1>10. \A k \in Lane : c[k] = SeqLen(cur[k]) + fed(cur, carried, k)
                                  + fed2(cur, carried, k)
    <2> SUFFICES ASSUME NEW k \in Lane
                 PROVE  c[k] = SeqLen(cur[k]) + fed(cur, carried, k)
                                 + fed2(cur, carried, k)
      OBVIOUS
    <2>1. c[k] = Add8(sum[k], Subs(Alignr(sum, carried, 2)[k], 2))
      BY DEF carries, carryContinuations
    <2>2. Alignr(sum, carried, 2)[k] = IF k < 2 THEN carried[W-2+k] ELSE sum[k-2]
      BY DEF Alignr
    <2>3. Subs(Alignr(sum, carried, 2)[k], 2) = fed2(cur, carried, k)
      <3>1. CASE k = 0
        BY <2>2, <3>1 DEF fed2
      <3>2. CASE k = 1
        <4>1. W - 2 + k = W - 1
          BY <3>2
        <4> QED
          BY <2>2, <3>2, <4>1 DEF fed2
      <3>3. CASE k >= 2
        <4>1. k - 2 \in Lane /\ ~(k < 2)
          BY <3>3 DEF Lane
        <4> QED
          BY <1>7, <2>2, <3>3, <4>1 DEF fed2
      <3> QED
        BY <3>1, <3>2, <3>3 DEF Lane
    <2>4. fed2(cur, carried, k) \in 0 .. 18 /\ sum[k] \in 0 .. 15
      BY <1>8, <1>9
    <2> QED
      BY <1>7, <2>1, <2>3, <2>4 DEF Add8
  <1>11. \A k \in Lane : /\ c[k] \in 0 .. 33
                         /\ k >= 2 => c[k] <= 20
                         /\ k >= 3 => c[k] <= 12
    <2> SUFFICES ASSUME NEW k \in Lane
                 PROVE  /\ c[k] \in 0 .. 33
                        /\ k >= 2 => c[k] <= 20
                        /\ k >= 3 => c[k] <= 12
      OBVIOUS
    <2>1. k \in Int /\ SeqLen(cur[k]) \in 0 .. 4
      BY <1>2 DEF Lane
    <2>2. /\ fed(cur, carried, k) \in 0 .. 11
          /\ (k >= 1 => fed(cur, carried, k) \in 0 .. 3)
      BY <1>6
    <2>3. /\ fed2(cur, carried, k) \in 0 .. 18
          /\ k >= 1 => fed2(cur, carried, k) \in 0 .. 13
          /\ k >= 3 => fed2(cur, carried, k) \in 0 .. 5
      BY <1>9
    <2>4. c[k] = SeqLen(cur[k]) + fed(cur, carried, k) + fed2(cur, carried, k)
      BY <1>10
    <2> HIDE DEF c
    <2> QED
      BY <2>1, <2>2, <2>3, <2>4
  <1>12. c \in [Lane -> Byte]
    <2>1. c = [k \in Lane |-> c[k]]
      BY DEF carries, carryContinuations
    <2> QED
      BY <1>11, <2>1 DEF Byte
  <1> QED
    BY <1>3, <1>6, <1>9, <1>10, <1>11, <1>12

-----------------------------------------------------------------------------
(***************************************************************************)
(* A block, and the loop.                                                  *)
(***************************************************************************)

w(j) == Padded(src, len, j)

\* The byte before lane k, as the code sees it.
off1(prev, cur, k) == IF k = 0 THEN prev.rawbytes[W-1] ELSE cur[k-1]

\* A count reaches lane k: its byte must be a continuation byte.
needed(prev, cur, k) ==
  fed(cur, prev.carried_continuations, k)
    + fed2(cur, prev.carried_continuations, k) >= 1

laneOK(prev, cur, k) ==
  /\ needed(prev, cur, k) <=> Continuation(cur[k])
  /\ ~byteError(off1(prev, cur, k), cur[k])

\* What holds of the previous block whatever the input.
Bounded(prev) ==
  /\ prev \in processed_utf_bytes
  /\ \A k \in Lane : prev.carried_continuations[k] <= 33
  /\ prev.carried_continuations[W - 2] <= 20
  /\ prev.carried_continuations[W - 1] <= 12
  /\ prev.high_nibbles[W - 1] = prev.rawbytes[W - 1] \div 16

\* cur is the block at offset q of the padded string.
BlockAt(cur, q) ==
  /\ cur \in [Lane -> Byte]
  /\ \A k \in Lane : cur[k] = w(q + k)

\* Nothing illegal before offset q, and prev knows what is still owed.
CleanUpTo(prev, q) == PrefixOK(src, len, q) /\ Summarises(prev, q)

-----------------------------------------------------------------------------
(* What the checks of one block report, lane by lane.                      *)
LEMMA LaneErrors ==
  ASSUME NEW prev, Bounded(prev), NEW cur \in [Lane -> Byte]
  PROVE  blockErrors(cur, prev) = {k \in Lane : ~laneOK(prev, cur, k)}
  <1> USE WAssumption
  <1> DEFINE cc == prev.carried_continuations
             c == carries(cur, cc)
             L == initial(cur)
             hi == count_nibbles(cur)
             o1 == Alignr(cur, prev.rawbytes, 1)
             oh == Alignr(hi, prev.high_nibbles, 1)
  <1>1. W - 1 \in Lane /\ W - 2 \in Lane /\ Lane \subseteq Int
    BY DEF Lane
  <1>2. /\ cc \in [Lane -> Byte] /\ cc[W-1] <= 12 /\ cc[W-2] <= 20
        /\ prev.rawbytes \in [Lane -> Byte]
        /\ prev.high_nibbles \in [Lane -> 0 .. 15]
        /\ prev.high_nibbles[W-1] = prev.rawbytes[W-1] \div 16
    BY DEF Bounded, processed_utf_bytes
  <1>3. \A k \in Lane :
          /\ L[k] = SeqLen(cur[k])
          /\ fed(cur, cc, k) \in Nat /\ fed2(cur, cc, k) \in Nat
          /\ c[k] = SeqLen(cur[k]) + fed(cur, cc, k) + fed2(cur, cc, k)
          /\ c[k] <= 33
    BY <1>2, CarryLanes
  <1>4. \A k \in Lane : o1[k] = off1(prev, cur, k)
    <2> SUFFICES ASSUME NEW k \in Lane PROVE o1[k] = off1(prev, cur, k)
      OBVIOUS
    <2>1. o1[k] = IF k < 1 THEN prev.rawbytes[W - 1 + k] ELSE cur[k-1]
      BY DEF Alignr
    <2>2. CASE k = 0
      <3>1. W - 1 + k = W - 1 /\ k < 1
        BY <1>1, <2>2
      <3> QED
        BY <2>1, <2>2, <3>1 DEF off1
    <2>3. CASE k # 0
      <3>1. ~(k < 1)
        BY <2>3 DEF Lane
      <3> QED
        BY <2>1, <2>3, <3>1 DEF off1
    <2> QED
      BY <2>2, <2>3
  <1>5. \A k \in Lane : oh[k] = off1(prev, cur, k) \div 16
    <2> SUFFICES ASSUME NEW k \in Lane PROVE oh[k] = off1(prev, cur, k) \div 16
      OBVIOUS
    <2>1. oh[k] = IF k < 1 THEN prev.high_nibbles[W - 1 + k] ELSE hi[k-1]
      BY DEF Alignr
    <2>2. CASE k = 0
      <3>1. W - 1 + k = W - 1 /\ k < 1
        BY <1>1, <2>2
      <3> QED
        BY <1>2, <2>1, <2>2, <3>1 DEF off1
    <2>3. CASE k # 0
      <3>1. k - 1 \in Lane /\ ~(k < 1)
        BY <2>3 DEF Lane
      <3>2. hi[k-1] = cur[k-1] \div 16
        BY <3>1 DEF count_nibbles
      <3> QED
        BY <2>1, <2>3, <3>1, <3>2 DEF off1
    <2> QED
      BY <2>2, <2>3
  <1>6. \A k \in Lane : k \in checkContinuations(L, c)
                          <=> ~(needed(prev, cur, k) <=> Continuation(cur[k]))
    <2> SUFFICES ASSUME NEW k \in Lane
                 PROVE  (Gt8(c[k], L[k]) = Gt8(L[k], 0))
                          <=> ~(needed(prev, cur, k) <=> Continuation(cur[k]))
      BY DEF checkContinuations
    <2> DEFINE f == fed(cur, cc, k)
               g == fed2(cur, cc, k)
    <2>1. /\ f \in Nat /\ g \in Nat /\ L[k] = SeqLen(cur[k])
          /\ c[k] = SeqLen(cur[k]) + f + g /\ c[k] <= 33
      BY <1>3
    <2>2. cur[k] \in Byte
      OBVIOUS
    <2>3. SeqLen(cur[k]) \in 0 .. 4 /\ (SeqLen(cur[k]) = 0 <=> Continuation(cur[k]))
      BY <2>2 DEF SeqLen, Byte, Continuation
    <2>4. needed(prev, cur, k) <=> f + g >= 1
      BY DEF needed
    <2> HIDE DEF f, g, L, c
    <2>5. Gt8(c[k], L[k]) <=> f + g >= 1
      BY <2>1, <2>3 DEF Gt8, Signed
    <2>6. Gt8(L[k], 0) <=> ~Continuation(cur[k])
      BY <2>1, <2>3 DEF Gt8, Signed
    <2>7. Gt8(c[k], L[k]) \in BOOLEAN /\ Gt8(L[k], 0) \in BOOLEAN
      BY DEF Gt8
    <2> QED
      BY <2>4, <2>5, <2>6, <2>7
  <1>7. \A k \in Lane :
          \/ k \in checkSmallerThan0xF4(cur)
          \/ k \in checkFirstContinuationMax(cur, o1)
          \/ k \in checkOverlong(cur, o1, hi, prev.high_nibbles)
          <=> byteError(off1(prev, cur, k), cur[k])
    <2> SUFFICES ASSUME NEW k \in Lane
                 PROVE  \/ k \in checkSmallerThan0xF4(cur)
                        \/ k \in checkFirstContinuationMax(cur, o1)
                        \/ k \in checkOverlong(cur, o1, hi, prev.high_nibbles)
                        <=> byteError(off1(prev, cur, k), cur[k])
      OBVIOUS
    <2>1. k \in checkSmallerThan0xF4(cur) <=> Subs(cur[k], 244) # 0
      BY DEF checkSmallerThan0xF4
    <2>2. k \in checkFirstContinuationMax(cur, o1)
            <=> \/ off1(prev, cur, k) = 237 /\ Gt8(cur[k], 159)
                \/ off1(prev, cur, k) = 244 /\ Gt8(cur[k], 143)
      BY <1>4 DEF checkFirstContinuationMax
    <2>3. k \in checkOverlong(cur, o1, hi, prev.high_nibbles)
            <=> /\ Gt8(initialMins[oh[k] + 1], o1[k])
                /\ Gt8(secondMins[oh[k] + 1], cur[k])
      BY DEF checkOverlong, Shuffle
    <2> QED
      BY <2>1, <2>2, <2>3, <1>4, <1>5 DEF byteError
  <1>8. blockErrors(cur, prev) =
          checkSmallerThan0xF4(cur)
            \union checkContinuations(L, c)
            \union checkFirstContinuationMax(cur, o1)
            \union checkOverlong(cur, o1, hi, prev.high_nibbles)
    BY DEF blockErrors, processed, initial, carries
  <1>9. /\ checkSmallerThan0xF4(cur) \subseteq Lane
        /\ checkContinuations(L, c) \subseteq Lane
        /\ checkFirstContinuationMax(cur, o1) \subseteq Lane
        /\ checkOverlong(cur, o1, hi, prev.high_nibbles) \subseteq Lane
    BY DEF checkSmallerThan0xF4, checkContinuations, checkFirstContinuationMax,
           checkOverlong
  <1> HIDE DEF cc, c, L, hi, o1, oh
  <1> QED
    BY <1>6, <1>7, <1>8, <1>9 DEF laneOK

-----------------------------------------------------------------------------
(* The counting argument on four consecutive bytes.  f is the count that   *)
(* reaches the byte p2: what the byte p3 before it, or the carry, feeds.   *)

Feeds(f, p3) ==
  /\ f \in 0 .. 3
  /\ p3 >= 192 => f >= 1
  /\ f = 3 <=> p3 >= 240

LEMMA CountIsOwed ==
  ASSUME NEW p3 \in Byte, NEW p2 \in Byte, NEW p1 \in Byte, NEW f,
         Feeds(f, p3), SeqLen(p2) > 0 => f = 0
  PROVE  Subs(SeqLen(p1), 1) + Subs(SeqLen(p2) + f, 2) >= 1
           <=> Owed(p3, p2, p1)
  <1>1. p3 \in Int /\ p2 \in Int /\ p1 \in Int /\ f \in Int
    BY DEF Byte, Feeds
  <1>2. CASE p2 < 128
    BY <1>1, <1>2 DEF Feeds, SeqLen, Subs, Owed, Byte
  <1>3. CASE p2 \in 128 .. 191
    BY <1>1, <1>3 DEF Feeds, SeqLen, Subs, Owed, Byte
  <1>4. CASE p2 >= 192
    BY <1>1, <1>4 DEF Feeds, SeqLen, Subs, Owed, Byte
  <1> QED
    BY <1>1, <1>2, <1>3, <1>4

LEMMA CountIsDebt ==
  ASSUME NEW p4 \in Byte, NEW p3 \in Byte, NEW p2 \in Byte, NEW p1 \in Byte,
         NEW b \in Byte, NEW f,
         Feeds(f, p3), p3 < 224 /\ p4 < 240 => f <= 1,
         SeqLen(p2) > 0 => f = 0,
         Continuation(b) <=> Owed(p3, p2, p1),
         Continuation(p1) <=> Owed(p4, p3, p2),
         p3 >= 192 => Continuation(p2)
  PROVE  LET c == SeqLen(b) + Subs(SeqLen(p1), 1) + Subs(SeqLen(p2) + f, 2)
         IN  c <= 4 /\ Subs(c, 1) = StillOwed(p2, p1, b)
  <1>1. /\ p4 \in Int /\ p3 \in Int /\ p2 \in Int /\ p1 \in Int /\ b \in Int
        /\ f \in Int
    BY DEF Byte, Feeds
  <1> DEFINE c == SeqLen(b) + Subs(SeqLen(p1), 1) + Subs(SeqLen(p2) + f, 2)
  <1>2. Subs(SeqLen(p1), 1) + Subs(SeqLen(p2) + f, 2) >= 1 <=> Owed(p3, p2, p1)
    BY CountIsOwed
  <1>3. CASE b >= 192
    <2>1. ~Continuation(b)
      BY <1>1, <1>3 DEF Continuation
    <2>2. Subs(SeqLen(p1), 1) = 0 /\ Subs(SeqLen(p2) + f, 2) = 0
      BY <1>1, <1>2, <2>1 DEF Feeds, Subs, SeqLen
    <2> QED
      BY <1>1, <1>3, <2>2 DEF SeqLen, Subs, StillOwed
  <1>4. CASE b < 128
    <2>1. ~Continuation(b)
      BY <1>1, <1>4 DEF Continuation
    <2>2. ~Owed(p3, p2, p1)
      BY <2>1
    <2>3. Subs(SeqLen(p1), 1) = 0 /\ Subs(SeqLen(p2) + f, 2) = 0
      BY <1>1, <1>2, <2>2 DEF Feeds, Subs, SeqLen
    <2> QED
      BY <1>1, <1>4, <2>2, <2>3 DEF SeqLen, Subs, StillOwed, Owed
  <1>5. CASE b \in 128 .. 191
    <2>1. Continuation(b) /\ Owed(p3, p2, p1) /\ SeqLen(b) = 0
      BY <1>1, <1>5 DEF Continuation, SeqLen
    <2>2. CASE p1 >= 192
      <3>1. ~Owed(p4, p3, p2)
        BY <1>1, <2>2 DEF Continuation
      <3>2. p4 < 240 /\ p3 < 224 /\ p2 < 192 /\ f <= 1
        BY <1>1, <3>1 DEF Owed
      <3>3. Subs(SeqLen(p2) + f, 2) = 0
        BY <1>1, <3>2 DEF SeqLen, Subs, Feeds
      <3> QED
        BY <1>1, <1>5, <2>1, <2>2, <3>2, <3>3 DEF SeqLen, Subs, StillOwed
    <2>3. CASE p1 < 192
      <3>1. p2 >= 224 \/ p3 >= 240
        BY <1>1, <2>1, <2>3 DEF Owed
      <3>2. Subs(SeqLen(p1), 1) = 0
        BY <1>1, <2>3 DEF SeqLen, Subs
      <3>3. CASE p2 >= 224
        <4>1. f = 0
          BY <1>1, <3>3 DEF SeqLen
        <4> QED
          BY <1>1, <1>5, <2>1, <2>3, <3>2, <3>3, <4>1 DEF SeqLen, Subs, StillOwed
      <3>4. CASE p2 < 224
        <4>1. p3 >= 240 /\ f = 3 /\ SeqLen(p2) = 0
          BY <1>1, <3>1, <3>4 DEF Feeds, SeqLen, Continuation
        <4> QED
          BY <1>1, <1>5, <2>1, <2>3, <3>2, <3>4, <4>1 DEF Subs, StillOwed
      <3> QED
        BY <1>1, <3>3, <3>4
    <2> QED
      BY <1>1, <2>2, <2>3
  <1> QED
    BY <1>1, <1>3, <1>4, <1>5

LEMMA ByteFeeds ==
  ASSUME NEW p3 \in Byte
  PROVE  /\ Feeds(Subs(SeqLen(p3), 1), p3)
         /\ p3 < 224 => Subs(SeqLen(p3), 1) <= 1
  BY DEF Feeds, Subs, SeqLen, Byte

LEMMA DebtFeeds ==
  ASSUME NEW p5 \in Byte, NEW p4 \in Byte, NEW p3 \in Byte
  PROVE  LET f == StillOwed(p5, p4, p3)
         IN  /\ f \in 0 .. 3
             /\ p3 >= 192 => f >= 1
             /\ f = 3 => p3 >= 240
             /\ p3 >= 240 => f = 3
             /\ p3 < 224 /\ p4 < 240 => f <= 1
             /\ f >= 1 <=> Owed(p5, p4, p3)
  BY DEF StillOwed, Owed, Byte

-----------------------------------------------------------------------------
(* One block: the lanes see what the windows see.                          *)

InBlock(prev, cur, q) ==
  /\ len \in Nat /\ src \in Strings(len) /\ q \in Nat
  /\ Bounded(prev)
  /\ BlockAt(cur, q)
  /\ CleanUpTo(prev, q)

LEMMA PaddedBytes ==
  ASSUME NEW prev, NEW cur, NEW q, InBlock(prev, cur, q)
  PROVE  /\ q \in Nat
         /\ \A j \in Int : w(j) \in Byte
         /\ \A j \in Int : j < 0 => w(j) = 0
         /\ \A k \in Lane : k \in Int /\ k >= 0 /\ cur[k] = w(q + k)
  <1>1. \A j \in Int : w(j) \in Byte
    BY PaddedByte DEF InBlock, w
  <1>2. \A j \in Int : j < 0 => w(j) = 0
    BY DEF w, Padded, InBlock
  <1> QED
    BY <1>1, <1>2 DEF InBlock, BlockAt, Lane

\* A window that starts before the block is clean, even at the very start.
LEMMA CleanWindows ==
  ASSUME NEW prev, NEW cur, NEW q, InBlock(prev, cur, q), NEW j \in Int, j < q
  PROVE  Follows(w(j-3), w(j-2), w(j-1), w(j))
  <1>1. CASE j >= 0
    <2>1. WindowOK(src, len, j)
      BY <1>1 DEF InBlock, CleanUpTo, PrefixOK
    <2> QED
      BY <2>1 DEF WindowOK, w
  <1>2. CASE j < 0
    <2>1. w(j-3) = 0 /\ w(j-2) = 0 /\ w(j-1) = 0 /\ w(j) = 0
      BY <1>2, PaddedBytes
    <2> QED
      BY <2>1 DEF Follows, Owed, Continuation
  <1> QED
    BY <1>1, <1>2

LEMMA FedLanes ==
  ASSUME NEW prev, NEW cur, NEW q, InBlock(prev, cur, q), NEW k \in Lane
  PROVE  LET f == fed(cur, prev.carried_continuations, k)
         IN  /\ Feeds(f, w(q + k - 1))
             /\ w(q + k - 1) < 224 /\ w(q + k - 2) < 240 => f <= 1
             /\ k = 0 => /\ f = Debt(src, len, q - 1)
                         /\ f >= 1 <=> Owed(w(q-3), w(q-2), w(q-1))
             /\ k # 0 => /\ f = Subs(SeqLen(w(q + k - 1)), 1)
                         /\ f >= 1 <=> w(q + k - 1) >= 192
  <1> DEFINE f == fed(cur, prev.carried_continuations, k)
  <1>1. /\ q \in Nat /\ k \in Int /\ k >= 0
        /\ \A j \in Int : w(j) \in Byte
        /\ \A j \in Lane : cur[j] = w(q + j)
    BY PaddedBytes
  <1>2. CASE k = 0
    <2>1. f = Debt(src, len, q - 1)
      BY <1>2 DEF fed, InBlock, CleanUpTo, Summarises
    <2>2. f = StillOwed(w(q-3), w(q-2), w(q-1))
      <3>1. q - 1 - 2 = q - 3 /\ q - 1 - 1 = q - 2
        BY <1>1
      <3> QED
        BY <2>1, <3>1 DEF Debt, w
    <2>3. w(q-3) \in Byte /\ w(q-2) \in Byte /\ w(q-1) \in Byte
      BY <1>1
    <2>4. q + k - 1 = q - 1 /\ q + k - 2 = q - 2
      BY <1>1, <1>2
    <2>5. /\ f \in 0 .. 3
          /\ w(q-1) >= 192 => f >= 1
          /\ f = 3 => w(q-1) >= 240
          /\ w(q-1) >= 240 => f = 3
          /\ w(q-1) < 224 /\ w(q-2) < 240 => f <= 1
          /\ f >= 1 <=> Owed(w(q-3), w(q-2), w(q-1))
      BY <2>2, <2>3, DebtFeeds
    <2> HIDE DEF f
    <2>6. Feeds(f, w(q-1))
      BY <2>5 DEF Feeds
    <2> QED
      BY <1>2, <2>1, <2>4, <2>5, <2>6 DEF f
  <1>3. CASE k # 0
    <2>1. k - 1 \in Lane
      BY <1>3, WAssumption DEF Lane
    <2>2. q + (k - 1) = q + k - 1
      BY <1>1
    <2>3. f = Subs(SeqLen(w(q + k - 1)), 1)
      BY <1>1, <1>3, <2>1, <2>2 DEF fed
    <2>4. w(q + k - 1) \in Byte
      BY <1>1
    <2>5. f >= 1 <=> w(q + k - 1) >= 192
      BY <2>3, <2>4 DEF Subs, SeqLen, Byte
    <2>6. Feeds(f, w(q + k - 1)) /\ (w(q + k - 1) < 224 => f <= 1)
      BY <2>3, <2>4, ByteFeeds
    <2> HIDE DEF f
    <2> QED
      BY <1>3, <2>3, <2>5, <2>6 DEF f
  <1> QED
    BY <1>2, <1>3

\* If the byte two lanes below is not both a start and counted, the count
\* reaches exactly the lanes whose byte is owed.
LEMMA NeededIsOwed ==
  ASSUME NEW prev, NEW cur, NEW q, InBlock(prev, cur, q), NEW k \in Lane,
         k >= 2 => (SeqLen(cur[k-2]) > 0
                      => fed(cur, prev.carried_continuations, k-2) = 0)
  PROVE  needed(prev, cur, k) <=> Owed(w(q+k-3), w(q+k-2), w(q+k-1))
  <1> DEFINE cc == prev.carried_continuations
             f == fed(cur, cc, k)
             g == fed2(cur, cc, k)
  <1>1. /\ q \in Nat /\ k \in Int /\ k >= 0
        /\ \A j \in Int : w(j) \in Byte
        /\ \A j \in Lane : cur[j] = w(q + j)
    BY PaddedBytes
  <1>2. Subs(cc[W-2], 2) = Subs(Debt(src, len, q - 2), 1)
        /\ Subs(cc[W-1], 1) = Debt(src, len, q - 1)
        /\ cc[W-1] \in Byte
    BY WAssumption DEF InBlock, CleanUpTo, Summarises, Bounded, processed_utf_bytes, Lane
  <1>3. CASE k = 0
    <2>1. /\ q + k - 3 = q - 3 /\ q + k - 2 = q - 2 /\ q + k - 1 = q - 1
          /\ q - 2 - 2 = q - 4 /\ q - 2 - 1 = q - 3
      BY <1>1, <1>3
    <2>2. f \in 0 .. 3 /\ (f >= 1 <=> Owed(w(q-3), w(q-2), w(q-1)))
      BY <1>3, FedLanes DEF Feeds
    <2>3. g = Subs(StillOwed(w(q-4), w(q-3), w(q-2)), 1)
      BY <1>2, <1>3, <2>1 DEF fed2, Debt, w
    <2>4. /\ w(q-4) \in Byte /\ w(q-3) \in Byte /\ w(q-2) \in Byte
          /\ w(q-1) \in Byte
      BY <1>1
    <2> HIDE DEF f, g
    <2>5. g \in 0 .. 2 /\ (g >= 1 => Owed(w(q-3), w(q-2), w(q-1)))
      BY <2>3, <2>4 DEF StillOwed, Subs, Owed, Byte
    <2>6. f + g >= 1 <=> Owed(w(q-3), w(q-2), w(q-1))
      BY <2>2, <2>5
    <2> QED
      BY <2>1, <2>6 DEF needed, f, g
  <1>4. CASE k = 1
    <2>1. /\ q + k - 3 = q - 2 /\ q + k - 2 = q - 1 /\ q + k - 1 = q
          /\ q - 1 - 3 = q - 4 /\ q - 1 - 2 = q - 3 /\ q - 1 - 1 = q - 2
      BY <1>1, <1>4
    <2>2. f = Subs(SeqLen(w(q)), 1)
      BY <1>4, <2>1, FedLanes
    <2>3. g = Subs(StillOwed(w(q-3), w(q-2), w(q-1)), 1)
      <3>1. g = Subs(cc[W-1], 2)
        BY <1>4 DEF fed2
      <3>2. g = Subs(Debt(src, len, q - 1), 1)
        BY <1>2, <3>1 DEF Subs, Byte
      <3> QED
        BY <2>1, <3>2 DEF Debt, w
    <2>4. Follows(w(q-4), w(q-3), w(q-2), w(q-1))
      BY <1>1, <2>1, CleanWindows
    <2>5. /\ w(q-4) \in Byte /\ w(q-3) \in Byte /\ w(q-2) \in Byte
          /\ w(q-1) \in Byte /\ w(q) \in Byte
      BY <1>1
    <2> HIDE DEF f, g
    <2>6. f \in 0 .. 3 /\ (f >= 1 <=> w(q) >= 192)
      BY <2>2, <2>5 DEF SeqLen, Subs, Byte
    <2>7. g \in 0 .. 2 /\ (g >= 1 <=> \/ w(q-1) >= 224
                                      \/ w(q-1) < 192 /\ w(q-2) >= 240)
      <3>1. w(q-1) < 224 /\ w(q-1) >= 192 => ~(w(q-2) >= 240)
        BY <2>4, <2>5 DEF Follows, Owed, Continuation, Byte
      <3> QED
        BY <2>3, <2>5 DEF StillOwed, Subs, Byte
    <2>8. w(q-1) >= 192 /\ w(q-1) < 224 => w(q-2) < 192
      BY <2>4, <2>5 DEF Follows, Owed, Continuation, Byte
    <2>9. f + g >= 1 <=> Owed(w(q-2), w(q-1), w(q))
      BY <2>5, <2>6, <2>7, <2>8 DEF Owed, Byte
    <2> QED
      BY <2>1, <2>9 DEF needed, f, g
  <1>5. CASE k >= 2
    <2>1. k - 2 \in Lane /\ k # 0 /\ k # 1
      BY <1>5, WAssumption DEF Lane
    <2>2. q + (k - 2) = q + k - 2 /\ q + (k - 2) - 1 = q + k - 3
      BY <1>1
    <2>3. f = Subs(SeqLen(w(q + k - 1)), 1)
      BY <2>1, FedLanes
    <2> DEFINE f2 == fed(cur, cc, k - 2)
    <2>4. g = Subs(SeqLen(w(q + k - 2)) + f2, 2)
      BY <1>1, <2>1, <2>2 DEF fed2
    <2>5. Feeds(f2, w(q + k - 3))
      BY <2>1, <2>2, FedLanes
    <2>6. SeqLen(w(q + k - 2)) > 0 => f2 = 0
      BY <1>1, <1>5, <2>1, <2>2
    <2>7. w(q+k-3) \in Byte /\ w(q+k-2) \in Byte /\ w(q+k-1) \in Byte
      BY <1>1
    <2> HIDE DEF f2, f, g
    <2>8. f + g >= 1 <=> Owed(w(q+k-3), w(q+k-2), w(q+k-1))
      BY <2>3, <2>4, <2>5, <2>6, <2>7, CountIsOwed
    <2> QED
      BY <2>8 DEF needed, f, g
  <1> QED
    BY <1>1, <1>3, <1>4, <1>5

\* The byte checks of a lane, where its continuation check is satisfied.
LEMMA PairLanes ==
  ASSUME NEW prev, NEW cur, NEW q, InBlock(prev, cur, q), NEW k \in Lane,
         Continuation(w(q+k)) <=> Owed(w(q+k-3), w(q+k-2), w(q+k-1))
  PROVE  byteError(off1(prev, cur, k), cur[k]) <=> ~pairOK(w(q+k-1), w(q+k))
  <1> DEFINE o == off1(prev, cur, k)
             p == w(q+k-1)
             b == w(q+k)
  <1>1. /\ q \in Nat /\ k \in Int /\ k >= 0
        /\ \A j \in Int : w(j) \in Byte
        /\ \A j \in Lane : cur[j] = w(q + j)
    BY PaddedBytes
  <1>2. p \in Byte /\ b \in Byte /\ cur[k] = b /\ w(q+k-3) \in Byte
        /\ w(q+k-2) \in Byte
    BY <1>1
  <1>3. o \in Byte /\ (o = p \/ (o < 192 /\ p < 192))
    <2>1. CASE k = 0
      <3>1. o = prev.rawbytes[W-1] /\ p = w(q-1)
        BY <1>1, <2>1 DEF off1
      <3>2. prev.rawbytes[W-1] \in Byte
        BY WAssumption DEF InBlock, Bounded, processed_utf_bytes, Lane
      <3>3. \/ prev.rawbytes[W-1] = w(q-1)
            \/ prev.rawbytes[W-1] < 192 /\ w(q-1) < 192
        BY DEF InBlock, CleanUpTo, Summarises, w
      <3> QED
        BY <3>1, <3>2, <3>3
    <2>2. CASE k # 0
      <3>1. k - 1 \in Lane /\ q + (k - 1) = q + k - 1
        BY <1>1, <2>2, WAssumption DEF Lane
      <3>2. o = cur[k-1]
        BY <2>2 DEF off1
      <3> QED
        BY <1>1, <1>2, <3>1, <3>2
    <2> QED
      BY <2>1, <2>2
  <1>4. p >= 192 => Continuation(b)
    BY <1>2 DEF Owed, Byte
  <1> HIDE DEF o, p, b
  <1>5. o >= 192 => Continuation(b)
    BY <1>2, <1>3, <1>4 DEF Byte
  <1>6. byteError(o, b) <=> ~pairOK(o, b)
    BY <1>2, <1>3, <1>5, ByteChecks
  <1>7. pairOK(o, b) <=> pairOK(p, b)
    BY <1>2, <1>3 DEF pairOK, Byte
  <1> QED
    BY <1>2, <1>6, <1>7 DEF o, p, b

(* The block has no error exactly when all its windows are legal: errors   *)
(* of one lane may mislead the count of a later one, never hide an error.  *)
LEMMA LanesAreWindows ==
  ASSUME NEW prev, NEW cur, NEW q, InBlock(prev, cur, q)
  PROVE  (\A k \in Lane : laneOK(prev, cur, k))
           <=> (\A k \in Lane : WindowOK(src, len, q + k))
  <1> DEFINE cc == prev.carried_continuations
             cont(k) == Continuation(w(q+k)) <=> Owed(w(q+k-3), w(q+k-2), w(q+k-1))
  <1>1. /\ q \in Nat
        /\ \A j \in Int : w(j) \in Byte
        /\ \A j \in Lane : j \in Int /\ j >= 0 /\ cur[j] = w(q + j)
    BY PaddedBytes
  <1>2. \A k \in Lane : WindowOK(src, len, q + k)
                          <=> cont(k) /\ pairOK(w(q+k-1), w(q+k))
    <2> SUFFICES ASSUME NEW k \in Lane
                 PROVE  WindowOK(src, len, q + k)
                          <=> cont(k) /\ pairOK(w(q+k-1), w(q+k))
      OBVIOUS
    <2>1. /\ q+k-3 = (q+k) - 3 /\ q+k-2 = (q+k) - 2 /\ q+k-1 = (q+k) - 1
      BY <1>1
    <2>2. WindowOK(src, len, q + k)
            <=> Follows(w(q+k-3), w(q+k-2), w(q+k-1), w(q+k))
      BY <2>1 DEF WindowOK, w
    <2> QED
      BY <2>2 DEF Follows, pairOK
  <1>3. ASSUME \A k \in Lane : laneOK(prev, cur, k)
        PROVE  \A k \in Lane : WindowOK(src, len, q + k)
    <2> SUFFICES ASSUME NEW k \in Lane PROVE WindowOK(src, len, q + k)
      OBVIOUS
    <2>1. k >= 2 => (SeqLen(cur[k-2]) > 0 => fed(cur, cc, k-2) = 0)
      <3> SUFFICES ASSUME k >= 2, SeqLen(cur[k-2]) > 0
                   PROVE  fed(cur, cc, k-2) = 0
        OBVIOUS
      <3>1. k - 2 \in Lane
        BY <1>1, WAssumption DEF Lane
      <3>2. ~Continuation(cur[k-2])
        BY <1>1, <3>1 DEF SeqLen, Continuation, Byte
      <3>3. ~needed(prev, cur, k-2)
        BY <1>3, <3>1, <3>2 DEF laneOK
      <3>4. fed(cur, cc, k-2) \in Nat /\ fed2(cur, cc, k-2) \in Nat
        <4>1. cc \in [Lane -> Byte] /\ cc[W-1] <= 12 /\ cc[W-2] <= 20
              /\ cur \in [Lane -> Byte]
          BY DEF InBlock, Bounded, processed_utf_bytes, BlockAt
        <4> QED
          BY <3>1, <4>1, CarryLanes
      <3> QED
        BY <3>3, <3>4 DEF needed
    <2>2. needed(prev, cur, k) <=> Owed(w(q+k-3), w(q+k-2), w(q+k-1))
      BY <2>1, NeededIsOwed
    <2>3. cont(k)
      BY <1>1, <1>3, <2>2 DEF laneOK
    <2>4. pairOK(w(q+k-1), w(q+k))
      BY <1>3, <2>3, PairLanes DEF laneOK
    <2> QED
      BY <1>2, <2>3, <2>4
  <1>4. ASSUME \A k \in Lane : WindowOK(src, len, q + k)
        PROVE  \A k \in Lane : laneOK(prev, cur, k)
    <2> SUFFICES ASSUME NEW k \in Lane PROVE laneOK(prev, cur, k)
      OBVIOUS
    <2>1. k >= 2 => (SeqLen(cur[k-2]) > 0 => fed(cur, cc, k-2) = 0)
      <3> SUFFICES ASSUME k >= 2, SeqLen(cur[k-2]) > 0
                   PROVE  fed(cur, cc, k-2) = 0
        OBVIOUS
      <3>1. k - 2 \in Lane /\ k \in Int
        BY <1>1, WAssumption DEF Lane
      <3>2. ~Continuation(w(q+(k-2)))
        BY <1>1, <3>1 DEF SeqLen, Continuation, Byte
      <3>3. ~Owed(w(q+(k-2)-3), w(q+(k-2)-2), w(q+(k-2)-1))
        BY <1>2, <1>4, <3>1, <3>2
      <3>4. /\ k-2 = 0 => fed(cur, cc, k-2) \in 0 .. 3
                          /\ (fed(cur, cc, k-2) >= 1
                                <=> Owed(w(q-3), w(q-2), w(q-1)))
            /\ k-2 # 0 => fed(cur, cc, k-2) \in 0 .. 3
                          /\ (fed(cur, cc, k-2) >= 1 <=> w(q+(k-2)-1) >= 192)
        BY <3>1, FedLanes DEF Feeds
      <3>5. CASE k - 2 = 0
        <4>1. /\ q + (k-2) - 3 = q - 3 /\ q + (k-2) - 2 = q - 2
              /\ q + (k-2) - 1 = q - 1
          BY <1>1, <3>1, <3>5
        <4>2. ~(fed(cur, cc, k-2) >= 1)
          BY <3>3, <3>4, <3>5, <4>1
        <4> QED
          BY <3>4, <3>5, <4>2
      <3>6. CASE k - 2 # 0
        <4>1. ~(w(q+(k-2)-1) >= 192)
          BY <3>3 DEF Owed
        <4>2. ~(fed(cur, cc, k-2) >= 1)
          BY <3>4, <3>6, <4>1
        <4> QED
          BY <3>4, <3>6, <4>2
      <3> QED
        BY <3>5, <3>6
    <2>2. needed(prev, cur, k) <=> Owed(w(q+k-3), w(q+k-2), w(q+k-1))
      BY <2>1, NeededIsOwed
    <2>3. cont(k) /\ pairOK(w(q+k-1), w(q+k))
      BY <1>2, <1>4
    <2>4. ~byteError(off1(prev, cur, k), cur[k])
      BY <2>3, PairLanes
    <2> QED
      BY <1>1, <2>2, <2>3, <2>4 DEF laneOK
  <1> QED
    BY <1>3, <1>4

-----------------------------------------------------------------------------
(* What a block hands to the next one.                                     *)

LEMMA ProcessedBounded ==
  ASSUME NEW prev, Bounded(prev), NEW cur \in [Lane -> Byte]
  PROVE  Bounded(processed(cur, prev))
  <1> USE WAssumption
  <1> DEFINE cc == prev.carried_continuations
             c == carries(cur, cc)
             hi == count_nibbles(cur)
  <1>1. cc \in [Lane -> Byte] /\ cc[W-1] <= 12 /\ cc[W-2] <= 20
    BY DEF Bounded, processed_utf_bytes
  <1>2. c \in [Lane -> Byte] /\ \A k \in Lane : /\ c[k] <= 33
                                                /\ k >= 2 => c[k] <= 20
                                                /\ k >= 3 => c[k] <= 12
    BY <1>1, CarryLanes
  <1>3. W - 1 \in Lane /\ W - 2 \in Lane /\ W - 1 >= 3 /\ W - 2 >= 2
    BY DEF Lane
  <1>4. hi \in [Lane -> 0 .. 15] /\ hi[W-1] = cur[W-1] \div 16
    <2>1. \A k \in Lane : cur[k] \div 16 \in 0 .. 15
      BY Nibble
    <2> QED
      BY <1>3, <2>1 DEF count_nibbles
  <1>5. processed(cur, prev) = [rawbytes |-> cur, high_nibbles |-> hi,
                                carried_continuations |-> c]
    BY DEF processed, carries, initial
  <1> HIDE DEF c, hi
  <1> QED
    BY <1>2, <1>3, <1>4, <1>5 DEF Bounded, processed_utf_bytes

LEMMA CarryIsDebt ==
  ASSUME NEW prev, NEW cur, NEW q, InBlock(prev, cur, q),
         \A k \in Lane : WindowOK(src, len, q + k),
         NEW k \in Lane
  PROVE  LET c == carries(cur, prev.carried_continuations)
         IN  /\ c[k] <= 4
             /\ k >= 2 => Subs(c[k], 1) = Debt(src, len, q + k)
  <1> DEFINE cc == prev.carried_continuations
             c == carries(cur, cc)
             f == fed(cur, cc, k)
             g == fed2(cur, cc, k)
  <1>1. /\ q \in Nat /\ k \in Int /\ k >= 0
        /\ \A j \in Int : w(j) \in Byte
        /\ \A j \in Lane : cur[j] = w(q + j)
    BY PaddedBytes
  <1>2. /\ c[k] = SeqLen(w(q+k)) + f + g
        /\ f \in Nat /\ g \in Nat
    <2>1. cc \in [Lane -> Byte] /\ cc[W-1] <= 12 /\ cc[W-2] <= 20
          /\ cur \in [Lane -> Byte]
      BY DEF InBlock, Bounded, processed_utf_bytes, BlockAt
    <2> QED
      BY <1>1, <2>1, CarryLanes
  <1>3. \A j \in Int : j <= q + k => Follows(w(j-3), w(j-2), w(j-1), w(j))
    <2> SUFFICES ASSUME NEW j \in Int, j <= q + k
                 PROVE  Follows(w(j-3), w(j-2), w(j-1), w(j))
      OBVIOUS
    <2>1. CASE j < q
      BY <2>1, CleanWindows
    <2>2. CASE j >= q
      <3>1. j - q \in Lane /\ q + (j - q) = j
        BY <1>1, <2>2, WAssumption DEF Lane
      <3>2. WindowOK(src, len, j)
        BY <3>1
      <3> QED
        BY <3>2 DEF WindowOK, w
    <2> QED
      BY <1>1, <2>1, <2>2
  <1>4. CASE k = 0
    <2>1. f \in 0 .. 3 /\ f = StillOwed(w(q-3), w(q-2), w(q-1))
          /\ g = Subs(StillOwed(w(q-4), w(q-3), w(q-2)), 1)
      <3>1. /\ q - 1 - 2 = q - 3 /\ q - 1 - 1 = q - 2
            /\ q - 2 - 2 = q - 4 /\ q - 2 - 1 = q - 3
        BY <1>1
      <3>2. f = Debt(src, len, q - 1) /\ f \in 0 .. 3
        BY <1>4, FedLanes DEF Feeds
      <3>3. g = Subs(Debt(src, len, q - 2), 1)
        BY <1>4 DEF fed2, InBlock, CleanUpTo, Summarises
      <3> QED
        BY <3>1, <3>2, <3>3 DEF Debt, w
    <2>2. /\ w(q-4) \in Byte /\ w(q-3) \in Byte /\ w(q-2) \in Byte
          /\ w(q-1) \in Byte /\ w(q) \in Byte
      BY <1>1
    <2>3. /\ Continuation(w(q)) <=> Owed(w(q-3), w(q-2), w(q-1))
          /\ Continuation(w(q-1)) <=> Owed(w(q-4), w(q-3), w(q-2))
      <3>1. Follows(w(q-3), w(q-2), w(q-1), w(q))
        BY <1>1, <1>3, <1>4
      <3>2. /\ q - 1 - 3 = q - 4 /\ q - 1 - 2 = q - 3 /\ q - 1 - 1 = q - 2
        BY <1>1
      <3>3. Follows(w(q-4), w(q-3), w(q-2), w(q-1))
        BY <1>1, <1>3, <1>4, <3>2
      <3> QED
        BY <3>1, <3>3 DEF Follows
    <2>4. q + k = q
      BY <1>1, <1>4
    <2> HIDE DEF c, f, g
    <2>5. f + g + SeqLen(w(q)) <= 4
      <3>1. CASE ~Owed(w(q-3), w(q-2), w(q-1))
        <4>1. f = 0 /\ g = 0
          BY <2>1, <2>2, <3>1 DEF Owed, StillOwed, Subs, Byte
        <4> QED
          BY <2>2, <4>1 DEF SeqLen, Byte
      <3>2. CASE Owed(w(q-3), w(q-2), w(q-1))
        <4>1. SeqLen(w(q)) = 0
          BY <2>2, <2>3, <3>2 DEF Continuation, SeqLen, Byte
        <4>2. f + g <= 4
          BY <2>1, <2>2, <2>3 DEF Owed, StillOwed, Subs, Continuation, Byte
        <4> QED
          BY <1>2, <4>1, <4>2
      <3> QED
        BY <3>1, <3>2
    <2>6. c[k] <= 4
      BY <1>2, <2>2, <2>4, <2>5 DEF SeqLen
    <2> QED
      BY <1>4, <2>6 DEF c
  <1>5. CASE k = 1
    <2>1. /\ q + k - 1 = q /\ q + k = q + 1
          /\ q - 1 - 2 = q - 3 /\ q - 1 - 1 = q - 2
          /\ q + 1 - 3 = q - 2 /\ q + 1 - 2 = q - 1 /\ q + 1 - 1 = q
          /\ (q+1) - 3 = q - 2 /\ (q+1) - 2 = q - 1 /\ (q+1) - 1 = q
      BY <1>1, <1>5
    <2>2. f = Subs(SeqLen(w(q)), 1)
      BY <1>5, <2>1, FedLanes
    <2>3. g = Subs(StillOwed(w(q-3), w(q-2), w(q-1)), 1)
      <3>1. g = Subs(cc[W-1], 2) /\ cc[W-1] \in Byte
        BY <1>5, WAssumption DEF fed2, InBlock, Bounded, processed_utf_bytes, Lane
      <3>2. Subs(cc[W-1], 1) = Debt(src, len, q - 1)
        BY DEF InBlock, CleanUpTo, Summarises
      <3>3. g = Subs(Debt(src, len, q - 1), 1)
        BY <3>1, <3>2 DEF Subs, Byte
      <3> QED
        BY <2>1, <3>3 DEF Debt, w
    <2>4. /\ w(q-3) \in Byte /\ w(q-2) \in Byte
          /\ w(q-1) \in Byte /\ w(q) \in Byte /\ w(q+1) \in Byte
      BY <1>1
    <2>5. /\ Continuation(w(q+1)) <=> Owed(w(q-2), w(q-1), w(q))
          /\ Continuation(w(q)) <=> Owed(w(q-3), w(q-2), w(q-1))
      <3>1. Follows(w(q-3), w(q-2), w(q-1), w(q))
        BY <1>1, <1>3
      <3>2. Follows(w(q-2), w(q-1), w(q), w(q+1))
        BY <1>1, <1>3, <1>5, <2>1
      <3> QED
        BY <3>1, <3>2 DEF Follows
    <2> HIDE DEF c, f, g
    <2>6. f \in 0 .. 3 /\ g \in 0 .. 2
      BY <2>2, <2>3, <2>4 DEF SeqLen, StillOwed, Subs, Byte
    <2>7. CASE ~Owed(w(q-2), w(q-1), w(q))
      <3>1. f = 0 /\ g = 0
        BY <2>2, <2>3, <2>4, <2>5, <2>7
          DEF Owed, StillOwed, Subs, SeqLen, Continuation, Byte
      <3>2. SeqLen(w(q+1)) <= 4
        BY <2>4 DEF SeqLen, Byte
      <3>3. c[k] <= 4
        BY <1>2, <2>1, <2>4, <3>1, <3>2 DEF SeqLen
      <3> QED
        BY <1>5, <3>3 DEF c
    <2>8. CASE Owed(w(q-2), w(q-1), w(q))
      <3>1. SeqLen(w(q+1)) = 0
        BY <2>4, <2>5, <2>8 DEF Continuation, SeqLen, Byte
      <3>2. f + g <= 4
        <4>1. CASE w(q) >= 192
          <5>1. ~Owed(w(q-3), w(q-2), w(q-1))
            BY <2>4, <2>5, <4>1 DEF Continuation, Byte
          <5>2. g = 0
            BY <2>3, <2>4, <5>1 DEF Owed, StillOwed, Subs, Byte
          <5> QED
            BY <2>6, <5>2
        <4>2. CASE w(q) < 192
          <5>1. f = 0
            BY <2>2, <2>4, <4>2 DEF SeqLen, Subs, Byte
          <5> QED
            BY <2>6, <5>1
        <4> QED
          BY <2>4, <4>1, <4>2 DEF Byte
      <3>3. c[k] <= 4
        BY <1>2, <2>1, <2>6, <3>1, <3>2
      <3> QED
        BY <1>5, <3>3 DEF c
    <2> QED
      BY <2>7, <2>8
  <1>6. CASE k >= 2
    <2> DEFINE f2 == fed(cur, cc, k - 2)
               p4 == w(q+k-4)
               p3 == w(q+k-3)
               p2 == w(q+k-2)
               p1 == w(q+k-1)
               b == w(q+k)
    <2>1. k - 2 \in Lane /\ k # 0 /\ k # 1
      BY <1>6, WAssumption DEF Lane
    <2>2. /\ q + (k - 2) = q + k - 2 /\ q + (k - 2) - 1 = q + k - 3
          /\ q + (k - 2) - 2 = q + k - 4
          /\ (q + k) - 3 = q + k - 3 /\ (q + k) - 2 = q + k - 2
          /\ (q + k) - 1 = q + k - 1
          /\ (q + k - 1) - 3 = q + k - 4 /\ (q + k - 1) - 2 = q + k - 3
          /\ (q + k - 1) - 1 = q + k - 2
          /\ (q + k - 2) - 1 = q + k - 3
      BY <1>1
    <2>3. f = Subs(SeqLen(p1), 1)
      BY <2>1, FedLanes
    <2>4. g = Subs(SeqLen(p2) + f2, 2)
      BY <1>1, <2>1, <2>2 DEF fed2
    <2>5. Feeds(f2, p3) /\ (p3 < 224 /\ p4 < 240 => f2 <= 1)
      BY <2>1, <2>2, FedLanes
    <2>6. /\ p4 \in Byte /\ p3 \in Byte /\ p2 \in Byte /\ p1 \in Byte
          /\ b \in Byte
      BY <1>1
    <2>7. Follows(p3, p2, p1, b)
      BY <1>1, <1>3, <2>2
    <2>8. Follows(p4, p3, p2, p1)
      BY <1>1, <1>3, <2>2
    <2>9. Follows(w(q+k-5), p4, p3, p2)
      <3>1. /\ (q + k - 2) - 3 = q + k - 5 /\ (q + k - 2) - 2 = q + k - 4
            /\ q + k - 2 \in Int /\ q + k - 2 <= q + k
        BY <1>1
      <3> QED
        BY <1>3, <2>2, <3>1
    <2>10. SeqLen(p2) > 0 => f2 = 0
      <3> SUFFICES ASSUME SeqLen(p2) > 0 PROVE f2 = 0
        OBVIOUS
      <3>1. ~Owed(w(q+k-5), p4, p3)
        BY <2>6, <2>9 DEF SeqLen, Follows, Continuation, Byte
      <3>2. CASE k - 2 = 0
        <4>1. /\ q - 3 = q + k - 5 /\ q - 2 = q + k - 4 /\ q - 1 = q + k - 3
          BY <1>1, <3>2
        <4>2. f2 >= 1 <=> Owed(w(q+k-5), p4, p3)
          BY <2>1, <3>2, <4>1, FedLanes
        <4> QED
          BY <2>5, <3>1, <4>2 DEF Feeds
      <3>3. CASE k - 2 # 0
        <4>1. f2 >= 1 <=> p3 >= 192
          <5>1. f2 >= 1 <=> w(q + (k - 2) - 1) >= 192
            BY <2>1, <3>3, FedLanes
          <5> QED
            BY <5>1, <2>2
        <4>2. ~(p3 >= 192)
          BY <3>1 DEF Owed
        <4> QED
          BY <2>5, <4>1, <4>2 DEF Feeds
      <3> QED
        BY <3>2, <3>3
    <2>11. p3 >= 192 => Continuation(p2)
      BY <2>9 DEF Follows, Owed
    <2> HIDE DEF c, f, g, f2, p4, p3, p2, p1, b
    <2>12. /\ SeqLen(b) + Subs(SeqLen(p1), 1) + Subs(SeqLen(p2) + f2, 2) <= 4
           /\ Subs(SeqLen(b) + Subs(SeqLen(p1), 1) + Subs(SeqLen(p2) + f2, 2), 1)
                = StillOwed(p2, p1, b)
      BY <2>5, <2>6, <2>7, <2>8, <2>10, <2>11, CountIsDebt DEF Follows
    <2>13. c[k] <= 4 /\ Subs(c[k], 1) = StillOwed(p2, p1, b)
      BY <1>2, <2>3, <2>4, <2>12 DEF b
    <2>14. Debt(src, len, q + k) = StillOwed(p2, p1, b)
      BY <2>2 DEF Debt, w, p2, p1, b
    <2> QED
      BY <2>13, <2>14 DEF c
  <1> QED
    BY <1>1, <1>4, <1>5, <1>6

LEMMA ExtendPrefix ==
  ASSUME NEW prev, NEW cur, NEW q, InBlock(prev, cur, q)
  PROVE  PrefixOK(src, len, q + W) <=> \A k \in Lane : WindowOK(src, len, q + k)
  <1>1. q \in Nat /\ W \in Nat /\ PrefixOK(src, len, q)
    BY WAssumption DEF InBlock, CleanUpTo
  <1>2. ASSUME PrefixOK(src, len, q + W), NEW k \in Lane
        PROVE  WindowOK(src, len, q + k)
    <2>1. q + k \in 0 .. (q + W) - 1
      BY <1>1 DEF Lane
    <2> QED
      BY <1>2, <2>1 DEF PrefixOK
  <1>3. ASSUME \A k \in Lane : WindowOK(src, len, q + k), NEW j \in 0 .. (q + W) - 1
        PROVE  WindowOK(src, len, j)
    <2>1. CASE j < q
      <3>1. j \in 0 .. q - 1
        BY <1>1, <2>1
      <3> QED
        BY <1>1, <3>1 DEF PrefixOK
    <2>2. CASE j >= q
      <3>1. j - q \in Lane /\ q + (j - q) = j
        BY <1>1, <2>2 DEF Lane
      <3> QED
        BY <1>3, <3>1
    <2> QED
      BY <1>1, <2>1, <2>2
  <1> QED
    BY <1>2, <1>3 DEF PrefixOK

(* One block through checkUTF8Bytes.                                       *)
LEMMA BlockCorrect ==
  ASSUME NEW prev, NEW cur, NEW q, InBlock(prev, cur, q)
  PROVE  /\ blockErrors(cur, prev) = {} <=> PrefixOK(src, len, q + W)
         /\ PrefixOK(src, len, q + W) => Summarises(processed(cur, prev), q + W)
  <1> DEFINE cc == prev.carried_continuations
             c == carries(cur, cc)
             hi == count_nibbles(cur)
  <1>1. /\ q \in Nat /\ W \in Nat /\ W >= 4
        /\ \A j \in Int : w(j) \in Byte
        /\ \A j \in Lane : cur[j] = w(q + j)
    BY PaddedBytes, WAssumption
  <1>2. Bounded(prev) /\ cur \in [Lane -> Byte]
    BY DEF InBlock, BlockAt
  <1>3. blockErrors(cur, prev) = {} <=> \A k \in Lane : laneOK(prev, cur, k)
    BY <1>2, LaneErrors
  <1>4. blockErrors(cur, prev) = {} <=> PrefixOK(src, len, q + W)
    BY <1>3, LanesAreWindows, ExtendPrefix
  <1>5. ASSUME PrefixOK(src, len, q + W)
        PROVE  Summarises(processed(cur, prev), q + W)
    <2>1. \A k \in Lane : WindowOK(src, len, q + k)
      BY <1>5, ExtendPrefix
    <2>2. \A k \in Lane : /\ c[k] <= 4
                          /\ k >= 2 => Subs(c[k], 1) = Debt(src, len, q + k)
      BY <2>1, CarryIsDebt
    <2>3. /\ W - 1 \in Lane /\ W - 2 \in Lane /\ W - 1 >= 2 /\ W - 2 >= 2
          /\ q + (W - 1) = (q + W) - 1 /\ q + (W - 2) = (q + W) - 2
      BY <1>1 DEF Lane
    <2>4. c[W-2] \in Byte
      <3>1. cc \in [Lane -> Byte] /\ cc[W-1] <= 12 /\ cc[W-2] <= 20
        BY <1>2 DEF Bounded, processed_utf_bytes
      <3>2. c \in [Lane -> Byte]
        BY <1>2, <3>1, CarryLanes
      <3> QED
        BY <2>3, <3>2
    <2>5. Subs(c[W-1], 1) = Debt(src, len, (q + W) - 1)
      BY <2>2, <2>3
    <2>6. Subs(c[W-2], 2) = Subs(Debt(src, len, (q + W) - 2), 1)
      <3>1. Subs(c[W-2], 1) = Debt(src, len, (q + W) - 2)
        BY <2>2, <2>3
      <3> HIDE DEF c
      <3> QED
        BY <2>4, <3>1 DEF Subs, Byte
    <2>7. cur[W-1] = Padded(src, len, (q + W) - 1)
      BY <1>1, <2>3 DEF w
    <2>8. processed(cur, prev) = [rawbytes |-> cur, high_nibbles |-> hi,
                                  carried_continuations |-> c]
      BY DEF processed, carries, initial
    <2>9. hi[W-1] = cur[W-1] \div 16
      BY <2>3 DEF count_nibbles
    <2> HIDE DEF c, hi
    <2> QED
      BY <2>2, <2>5, <2>6, <2>7, <2>8, <2>9 DEF Summarises
  <1> QED
    BY <1>4, <1>5

(* One ASCII block on the short path: what the older block still knows is  *)
(* enough, for this block and for the next one.                            *)
LEMMA AsciiBlockCorrect ==
  ASSUME NEW prev, NEW cur, NEW q, InBlock(prev, cur, q), allAscii(cur)
  PROVE  /\ openSequence(prev.carried_continuations) = {}
              <=> PrefixOK(src, len, q + W)
         /\ PrefixOK(src, len, q + W) => Summarises(prev, q + W)
  <1> DEFINE cc == prev.carried_continuations
             Free == ~Owed(w(q-3), w(q-2), w(q-1))
  <1>1. /\ q \in Nat /\ W \in Nat /\ W >= 4
        /\ \A j \in Int : w(j) \in Byte
        /\ \A k \in Lane : k \in Int /\ k >= 0 /\ cur[k] = w(q + k)
    BY PaddedBytes, WAssumption
  <1>2. \A k \in Lane : w(q + k) < 128
    BY <1>1 DEF allAscii
  <1>3. /\ w(q-4) \in Byte /\ w(q-3) \in Byte /\ w(q-2) \in Byte
        /\ w(q-1) \in Byte
    BY <1>1
  <1>4. cc \in [Lane -> Byte]
        /\ (\A k \in Lane : cc[k] <= 4)
        /\ Subs(cc[W-1], 1) = Debt(src, len, q - 1)
        /\ Subs(cc[W-2], 2) = Subs(Debt(src, len, q - 2), 1)
    BY DEF InBlock, Bounded, processed_utf_bytes, CleanUpTo, Summarises
  <1>5. /\ Debt(src, len, q - 1) = StillOwed(w(q-3), w(q-2), w(q-1))
        /\ Debt(src, len, q - 2) = StillOwed(w(q-4), w(q-3), w(q-2))
    <2>1. /\ q - 1 - 2 = q - 3 /\ q - 1 - 1 = q - 2
          /\ q - 2 - 2 = q - 4 /\ q - 2 - 1 = q - 3
      BY <1>1
    <2> QED
      BY <2>1 DEF Debt, w
  <1>6. Free <=> Debt(src, len, q - 1) = 0
    BY <1>3, <1>5 DEF Owed, StillOwed, Byte
  <1>7. openSequence(cc) = {} <=> Free
    <2>1. W - 1 \in Lane /\ cc[W-1] \in Byte
      BY <1>1, <1>4 DEF Lane
    <2>2. Gt8(cc[W-1], 1) <=> ~Free
      <3>1. cc[W-1] <= 4
        BY <1>4, <2>1
      <3>2. Subs(cc[W-1], 1) = 0 <=> Free
        BY <1>4, <1>6
      <3> HIDE DEF cc, Free
      <3> QED
        BY <2>1, <3>1, <3>2 DEF Gt8, Signed, Subs, Byte
    <2>3. \A k \in Lane : k # W - 1 => ~Gt8(cc[k], 9)
      <3> SUFFICES ASSUME NEW k \in Lane PROVE ~Gt8(cc[k], 9)
        OBVIOUS
      <3>1. cc[k] \in Byte /\ cc[k] <= 4
        BY <1>4
      <3> QED
        BY <3>1 DEF Gt8, Signed, Byte
    <2> HIDE DEF cc, Free
    <2> QED
      BY <2>1, <2>2, <2>3 DEF openSequence
  <1>8. ASSUME \A k \in Lane : WindowOK(src, len, q + k) PROVE Free
    <2>1. 0 \in Lane /\ q + 0 = q
      BY <1>1 DEF Lane
    <2>2. Follows(w(q-3), w(q-2), w(q-1), w(q))
      BY <1>8, <2>1 DEF WindowOK, w
    <2>3. w(q) < 128
      BY <1>2, <2>1
    <2> QED
      BY <1>1, <2>2, <2>3 DEF Follows, Continuation
  <1>9. ASSUME Free, NEW k \in Lane PROVE WindowOK(src, len, q + k)
    <2>1. w(q-1) < 192 /\ w(q-2) < 224 /\ w(q-3) < 240
      BY <1>3, <1>9 DEF Owed, Byte
    <2>2. /\ w((q+k)-3) \in Byte /\ w((q+k)-2) \in Byte /\ w((q+k)-1) \in Byte
          /\ w(q+k) \in Byte
      BY <1>1
    <2>3. w((q+k)-1) < 192
      <3>1. CASE k = 0
        <4>1. (q+k) - 1 = q - 1
          BY <1>1, <3>1
        <4> QED
          BY <2>1, <4>1
      <3>2. CASE k # 0
        <4>1. k - 1 \in Lane /\ (q+k) - 1 = q + (k-1)
          BY <1>1, <3>2 DEF Lane
        <4>2. w((q+k)-1) < 128
          BY <1>2, <4>1
        <4> QED
          BY <2>2, <4>2 DEF Byte
      <3> QED
        BY <3>1, <3>2
    <2>4. w((q+k)-2) < 224
      <3>1. CASE k = 0
        <4>1. (q+k) - 2 = q - 2
          BY <1>1, <3>1
        <4> QED
          BY <2>1, <4>1
      <3>2. CASE k = 1
        <4>1. (q+k) - 2 = q - 1
          BY <1>1, <3>2
        <4> QED
          BY <1>3, <2>1, <4>1 DEF Byte
      <3>3. CASE k # 0 /\ k # 1
        <4>1. k - 2 \in Lane /\ (q+k) - 2 = q + (k-2)
          BY <1>1, <3>3 DEF Lane
        <4>2. w((q+k)-2) < 128
          BY <1>2, <4>1
        <4> QED
          BY <2>2, <4>2 DEF Byte
      <3> QED
        BY <3>1, <3>2, <3>3
    <2>5. w((q+k)-3) < 240
      <3>1. CASE k = 0
        <4>1. (q+k) - 3 = q - 3
          BY <1>1, <3>1
        <4> QED
          BY <2>1, <4>1
      <3>2. CASE k = 1
        <4>1. (q+k) - 3 = q - 2
          BY <1>1, <3>2
        <4> QED
          BY <1>3, <2>1, <4>1 DEF Byte
      <3>3. CASE k = 2
        <4>1. (q+k) - 3 = q - 1
          BY <1>1, <3>3
        <4> QED
          BY <1>3, <2>1, <4>1 DEF Byte
      <3>4. CASE k # 0 /\ k # 1 /\ k # 2
        <4>1. k - 3 \in Lane /\ (q+k) - 3 = q + (k-3)
          BY <1>1, <3>4 DEF Lane
        <4>2. w((q+k)-3) < 128
          BY <1>2, <4>1
        <4> QED
          BY <2>2, <4>2 DEF Byte
      <3> QED
        BY <3>1, <3>2, <3>3, <3>4
    <2>6. w(q+k) < 128
      BY <1>2
    <2>7. Follows(w((q+k)-3), w((q+k)-2), w((q+k)-1), w(q+k))
      BY <2>2, <2>3, <2>4, <2>5, <2>6 DEF Follows, Owed, Continuation, Byte
    <2> QED
      BY <2>7 DEF WindowOK, w
  <1>10. PrefixOK(src, len, q + W) <=> Free
    BY <1>8, <1>9, ExtendPrefix
  <1>11. ASSUME Free PROVE Summarises(prev, q + W)
    <2>1. /\ W - 1 \in Lane /\ W - 2 \in Lane /\ W - 3 \in Lane /\ W - 4 \in Lane
          /\ (q+W) - 1 = q + (W-1) /\ (q+W) - 2 = q + (W-2)
          /\ ((q+W) - 1) - 1 = q + (W-2) /\ ((q+W) - 1) - 2 = q + (W-3)
          /\ ((q+W) - 2) - 1 = q + (W-3) /\ ((q+W) - 2) - 2 = q + (W-4)
      BY <1>1 DEF Lane
    <2>2. /\ w(q + (W-1)) < 128 /\ w(q + (W-2)) < 128 /\ w(q + (W-3)) < 128
          /\ w(q + (W-4)) < 128
          /\ w(q + (W-1)) \in Byte /\ w(q + (W-2)) \in Byte
          /\ w(q + (W-3)) \in Byte /\ w(q + (W-4)) \in Byte
      BY <1>1, <1>2, <2>1
    <2>3. /\ Debt(src, len, (q+W) - 1)
               = StillOwed(w(q + (W-3)), w(q + (W-2)), w(q + (W-1)))
          /\ Debt(src, len, (q+W) - 2)
               = StillOwed(w(q + (W-4)), w(q + (W-3)), w(q + (W-2)))
      BY <2>1 DEF Debt, w
    <2>4. Debt(src, len, (q+W) - 1) = 0 /\ Debt(src, len, (q+W) - 2) = 0
      BY <2>2, <2>3 DEF StillOwed, Byte
    <2>5. Subs(cc[W-1], 1) = Debt(src, len, (q+W) - 1)
      BY <1>4, <1>6, <1>11, <2>4
    <2>6. Subs(cc[W-2], 2) = Subs(Debt(src, len, (q+W) - 2), 1)
      <3>1. w(q-1) < 192 /\ w(q-2) < 224 /\ w(q-3) < 240
        BY <1>3, <1>11 DEF Owed, Byte
      <3>2. Subs(Debt(src, len, q - 2), 1) = 0
        BY <1>3, <1>5, <3>1 DEF StillOwed, Subs, Byte
      <3>3. Subs(0, 1) = 0
        BY DEF Subs
      <3> QED
        BY <1>4, <2>4, <3>2, <3>3
    <2>7. prev.rawbytes[W-1] < 192 /\ Padded(src, len, (q+W) - 1) < 192
      <3>1. \/ prev.rawbytes[W-1] = w(q-1)
            \/ prev.rawbytes[W-1] < 192
        BY DEF InBlock, CleanUpTo, Summarises, w
      <3>2. w(q-1) < 192
        BY <1>3, <1>11 DEF Owed, Byte
      <3>3. Padded(src, len, (q+W) - 1) = w(q + (W-1))
        BY <2>1 DEF w
      <3> QED
        BY <2>2, <3>1, <3>2, <3>3 DEF Byte
    <2>8. prev.high_nibbles[W - 1] = prev.rawbytes[W - 1] \div 16
      BY DEF InBlock, Bounded
    <2> QED
      BY <1>4, <2>5, <2>6, <2>7, <2>8 DEF Summarises
  <1> QED
    BY <1>7, <1>10, <1>11

\* Beyond the end there is only padding: one window decides.
LEMMA PaddingIsClean ==
  ASSUME len \in Nat, src \in Strings(len), NEW q \in Nat, q > len
  PROVE  PrefixOK(src, len, q) <=> PrefixOK(src, len, len + 1)
  <1>1. ASSUME PrefixOK(src, len, q) PROVE PrefixOK(src, len, len + 1)
    <2>1. 0 .. (len + 1) - 1 \subseteq 0 .. q - 1
      OBVIOUS
    <2> QED
      BY <1>1, <2>1 DEF PrefixOK
  <1>2. ASSUME PrefixOK(src, len, len + 1), NEW j \in 0 .. q - 1
        PROVE  WindowOK(src, len, j)
    <2>1. \A m \in Int : w(m) \in Byte
      BY PaddedByte DEF w
    <2>2. \A m \in Int : m >= len => w(m) = 0
      BY DEF w, Padded
    <2>3. CASE j <= len
      <3>1. j \in 0 .. (len + 1) - 1
        BY <2>3
      <3> QED
        BY <1>2, <3>1 DEF PrefixOK
    <2>4. CASE j > len
      <3>1. len \in 0 .. (len + 1) - 1
        OBVIOUS
      <3>2. WindowOK(src, len, len)
        BY <1>2, <3>1 DEF PrefixOK
      <3>3. Follows(w(len-3), w(len-2), w(len-1), w(len)) /\ w(len) = 0
        BY <2>2, <3>2 DEF WindowOK, w
      <3>4. w(len-1) < 192 /\ w(len-2) < 224 /\ w(len-3) < 240
        <4>1. /\ w(len-1) \in Byte /\ w(len-2) \in Byte /\ w(len-3) \in Byte
          BY <2>1
        <4> QED
          BY <3>3, <4>1 DEF Follows, Continuation, Owed, Byte
      <3>5. w(j) = 0 /\ w(j-1) = 0
        BY <2>2, <2>4
      <3>6. w(j-2) < 224
        <4>1. j - 2 = len - 1 \/ j - 2 >= len
          BY <2>4
        <4>2. w(len-1) \in Byte
          BY <2>1
        <4> QED
          BY <2>2, <3>4, <4>1, <4>2 DEF Byte
      <3>7. w(j-3) < 240
        <4>1. j - 3 = len - 2 \/ j - 3 = len - 1 \/ j - 3 >= len
          BY <2>4
        <4>2. w(len-1) \in Byte /\ w(len-2) \in Byte
          BY <2>1
        <4> QED
          BY <2>2, <3>4, <4>1, <4>2 DEF Byte
      <3>8. w(j-2) \in Byte /\ w(j-3) \in Byte
        BY <2>1
      <3>9. Follows(w(j-3), w(j-2), w(j-1), w(j))
        BY <3>5, <3>6, <3>7, <3>8 DEF Follows, Owed, Continuation, Byte
      <3> QED
        BY <3>9 DEF WindowOK, w
    <2> QED
      BY <2>3, <2>4
  <1>3. ASSUME PrefixOK(src, len, len + 1) PROVE PrefixOK(src, len, q)
    BY <1>2, <1>3 DEF PrefixOK
  <1> QED
    BY <1>1, <1>3

-----------------------------------------------------------------------------
(* The validators.                                                         *)

Verdict == pc = "done" => (result <=> PrefixOK(src, len, len + 1))

(* The inductive invariant.  The exact error vector is not inductive on    *)
(* its own: the next block is judged with what "previous" says of the      *)
(* bytes before it, and that its counts do not wrap.                       *)
IInv ==
  /\ TypeOK
  /\ Bounded(previous)
  /\ ErrorsAreExact
  /\ PreviousSummarises
  /\ Verdict

LEMMA SmallMod ==
  ASSUME NEW m \in Nat \ {0}, NEW a \in 0 .. m - 1
  PROVE  a % m = a
  BY SMT

\* The loop guard and the loop step, without the arithmetic of size_t.
LEMMA LoopGuard ==
  ASSUME TypeOK
  PROVE  /\ moreBlocks <=> i + W <= len
         /\ moreBlocks => (i + W) % SizeMod = i + W
  <1> USE WAssumption, SizeAssumption
  <1>1. len \in 0 .. SizeMod - 1 /\ i \in 0 .. len
    BY DEF TypeOK
  <1>2. len >= W => (len - W) % SizeMod = len - W
    <2> SUFFICES ASSUME len >= W PROVE (len - W) % SizeMod = len - W
      OBVIOUS
    <2>1. len - W \in 0 .. SizeMod - 1
      BY <1>1
    <2> QED
      BY <2>1, SmallMod
  <1>3. moreBlocks <=> i + W <= len
    BY <1>1, <1>2 DEF moreBlocks
  <1>4. i + W <= len => (i + W) % SizeMod = i + W
    <2> SUFFICES ASSUME i + W <= len PROVE (i + W) % SizeMod = i + W
      OBVIOUS
    <2>1. i + W \in 0 .. SizeMod - 1
      BY <1>1
    <2> QED
      BY <2>1, SmallMod
  <1> QED
    BY <1>3, <1>4

LEMMA InitIInv == Init => IInv
  <1> SUFFICES ASSUME Init PROVE IInv
    OBVIOUS
  <1> USE WAssumption
  <1>1. /\ len \in 0 .. SizeMod - 1 /\ src \in Strings(len)
        /\ len \in Nat
    BY InputsAssumption, SizeAssumption DEF Init
  <1>2. /\ pc = "loop" /\ i = 0 /\ has_error = {} /\ result = FALSE
        /\ previous = [rawbytes |-> Set1(0), high_nibbles |-> Set1(0),
                       carried_continuations |-> Set1(0)]
    BY DEF Init
  <1>3. W - 1 \in Lane /\ W - 2 \in Lane
    BY DEF Lane
  <1>4. Set1(0) \in [Lane -> Byte] /\ Set1(0) \in [Lane -> 0 .. 15]
        /\ \A k \in Lane : Set1(0)[k] = 0
    BY DEF Set1, Byte
  <1>5. previous \in processed_utf_bytes
    BY <1>2, <1>4 DEF processed_utf_bytes
  <1>6. /\ \A k \in Lane : previous.carried_continuations[k] = 0
        /\ previous.rawbytes[W-1] = 0 /\ previous.high_nibbles[W-1] = 0
    BY <1>2, <1>3, <1>4
  <1>7. Bounded(previous)
    BY <1>3, <1>5, <1>6 DEF Bounded
  <1>8. TypeOK
    <2>1. i \in 0 .. len
      BY <1>1, <1>2
    <2>2. has_error \subseteq Lane /\ result \in BOOLEAN /\ pc \in {"loop", "done"}
      BY <1>2
    <2>3. asciipath \in BOOLEAN
      BY DEF Init
    <2> QED
      BY <1>1, <1>5, <2>1, <2>2, <2>3, Zenon DEF TypeOK
  <1>9. PrefixOK(src, len, i)
    BY <1>2 DEF PrefixOK
  <1>10. Summarises(previous, i)
    <2>1. \A j \in Int : j < 0 => Padded(src, len, j) = 0
      BY <1>1 DEF Padded
    <2>2. Debt(src, len, -1) = 0 /\ Debt(src, len, -2) = 0
          /\ Padded(src, len, -1) = 0
      BY <2>1 DEF Debt, StillOwed
    <2>3. i - 1 = -1 /\ i - 2 = -2 /\ Subs(0, 1) = 0 /\ Subs(0, 2) = 0
      BY <1>2 DEF Subs
    <2> QED
      BY <1>3, <1>6, <2>2, <2>3 DEF Summarises
  <1> QED
    BY <1>2, <1>7, <1>8, <1>9, <1>10
      DEF IInv, ErrorsAreExact, PreviousSummarises, Verdict

\* A loop step in the vocabulary of one block.
LEMMA StepInBlock ==
  ASSUME IInv, pc = "loop", NEW cur, BlockAt(cur, i)
  PROVE  /\ len \in Nat /\ i \in Nat /\ src \in Strings(len)
         /\ has_error = {} => InBlock(previous, cur, i)
         /\ has_error # {} => \A q \in Nat : q >= i => ~PrefixOK(src, len, q)
  <1>1. len \in Nat /\ i \in Nat /\ src \in Strings(len)
    BY SizeAssumption DEF IInv, TypeOK
  <1>2. has_error = {} <=> PrefixOK(src, len, i)
    BY DEF IInv, ErrorsAreExact
  <1>3. has_error = {} => InBlock(previous, cur, i)
    BY <1>1, <1>2 DEF IInv, PreviousSummarises, InBlock, CleanUpTo
  <1>4. ASSUME NEW q \in Nat, q >= i, PrefixOK(src, len, q)
        PROVE  PrefixOK(src, len, i)
    <2>1. 0 .. i - 1 \subseteq 0 .. q - 1
      BY <1>1, <1>4
    <2> QED
      BY <1>4, <2>1 DEF PrefixOK
  <1> QED
    BY <1>1, <1>2, <1>3, <1>4

LEMMA BlockErrorsAreLanes ==
  ASSUME NEW prev, NEW cur
  PROVE  /\ blockErrors(cur, prev) \subseteq Lane
         /\ openSequence(prev.carried_continuations) \subseteq Lane
  BY DEF blockErrors, openSequence, checkSmallerThan0xF4, checkContinuations,
         checkFirstContinuationMax, checkOverlong

\* The block of the string at offset i, loaded or padded.
LEMMA LoadIsBlock ==
  ASSUME IInv, pc = "loop", i + W <= len
  PROVE  BlockAt(load(i), i)
  <1>1. len \in Nat /\ i \in Nat /\ src \in Strings(len) /\ W \in Nat
    BY SizeAssumption, WAssumption DEF IInv, TypeOK
  <1>2. \A k \in Lane : i + k \in 0 .. len - 1
    BY <1>1 DEF Lane
  <1>3. \A k \in Lane : src[i + k] \in Byte /\ src[i + k] = w(i + k)
    BY <1>1, <1>2 DEF Strings, w, Padded
  <1> QED
    BY <1>3 DEF BlockAt, load

LEMMA BufferIsBlock ==
  ASSUME IInv, pc = "loop"
  PROVE  BlockAt(buffer, i)
  <1>1. len \in Nat /\ i \in Nat /\ src \in Strings(len) /\ W \in Nat
    BY SizeAssumption, WAssumption DEF IInv, TypeOK
  <1>2. ASSUME NEW k \in Lane
        PROVE  buffer[k] \in Byte /\ buffer[k] = w(i + k)
    <2>1. buffer[k] = IF k < len - i THEN src[i + k] ELSE 0
      BY DEF buffer
    <2>2. CASE k < len - i
      <3>1. i + k \in 0 .. len - 1
        BY <1>1, <2>2 DEF Lane
      <3> QED
        BY <1>1, <2>1, <2>2, <3>1 DEF Strings, w, Padded
    <2>3. CASE ~(k < len - i)
      <3>1. i + k \notin 0 .. len - 1
        BY <1>1, <2>3 DEF Lane
      <3> QED
        BY <2>1, <2>3, <3>1 DEF w, Padded, Byte
    <2> QED
      BY <2>2, <2>3
  <1>3. buffer = [k \in Lane |-> buffer[k]]
    BY DEF buffer
  <1> QED
    BY <1>2, <1>3 DEF BlockAt

LEMMA CheckBlockIInv ==
  ASSUME IInv, CheckBlock
  PROVE  IInv'
  <1> USE WAssumption
  <1> DEFINE cur == load(i)
             E == blockErrors(cur, previous)
             P == processed(cur, previous)
  <1>1. /\ pc = "loop" /\ pc' = "loop" /\ src' = src /\ len' = len
        /\ has_error' = has_error \union E /\ previous' = P
        /\ i' = i + W /\ i + W <= len /\ result' = result
    BY LoopGuard DEF CheckBlock, IInv, advance
  <1>2. BlockAt(cur, i)
    BY <1>1, LoadIsBlock
  <1>3. len \in Nat /\ i \in Nat /\ src \in Strings(len) /\ W \in Nat
        /\ cur \in [Lane -> Byte]
    BY <1>1, <1>2, StepInBlock DEF BlockAt
  <1>4. Bounded(P)
    BY <1>3, ProcessedBounded DEF IInv
  <1>5. E \subseteq Lane
    BY BlockErrorsAreLanes
  <1>6. TypeOK'
    <2>1. P \in processed_utf_bytes
      BY <1>4 DEF Bounded
    <2>2. i + W \in 0 .. len
      BY <1>1, <1>3
    <2>3. asciipath' \in BOOLEAN
      BY DEF CheckBlock, IInv, TypeOK
    <2> HIDE DEF cur, E, P
    <2> QED
      BY <1>1, <1>5, <2>1, <2>2, <2>3 DEF IInv, TypeOK
  <1>7. CASE has_error = {}
    <2>1. InBlock(previous, cur, i)
      BY <1>1, <1>2, <1>7, StepInBlock
    <2>2. /\ E = {} <=> PrefixOK(src, len, i + W)
          /\ PrefixOK(src, len, i + W) => Summarises(P, i + W)
      BY <2>1, BlockCorrect
    <2> HIDE DEF cur, E, P
    <2>3. (has_error' = {} <=> PrefixOK(src', len', i'))
      BY <1>1, <1>7, <2>2
    <2>4. has_error' = {} => Summarises(previous, i)'
      BY <1>1, <1>7, <2>2 DEF Summarises
    <2> QED
      BY <1>1, <1>4, <1>6, <2>3, <2>4
        DEF IInv, ErrorsAreExact, PreviousSummarises, Verdict, Bounded
  <1>8. CASE has_error # {}
    <2>1. ~PrefixOK(src, len, i + W)
      BY <1>1, <1>2, <1>3, <1>8, StepInBlock
    <2> HIDE DEF cur, E, P
    <2>2. has_error' # {}
      BY <1>1, <1>8
    <2> QED
      BY <1>1, <1>4, <1>6, <2>1, <2>2
        DEF IInv, ErrorsAreExact, PreviousSummarises, Verdict, Bounded
  <1> QED
    BY <1>7, <1>8

LEMMA SkipAsciiBlockIInv ==
  ASSUME IInv, SkipAsciiBlock
  PROVE  IInv'
  <1> USE WAssumption
  <1> DEFINE cur == load(i)
             E == openSequence(previous.carried_continuations)
  <1>1. /\ pc = "loop" /\ pc' = "loop" /\ src' = src /\ len' = len
        /\ has_error' = has_error \union E /\ previous' = previous
        /\ i' = i + W /\ i + W <= len /\ result' = result /\ allAscii(cur)
    BY LoopGuard DEF SkipAsciiBlock, IInv, advance
  <1>2. BlockAt(cur, i)
    BY <1>1, LoadIsBlock
  <1>3. len \in Nat /\ i \in Nat /\ src \in Strings(len) /\ W \in Nat
    BY <1>1, <1>2, StepInBlock
  <1>4. E \subseteq Lane
    BY BlockErrorsAreLanes
  <1>5. TypeOK'
    <2>1. i + W \in 0 .. len
      BY <1>1, <1>3
    <2>2. asciipath' \in BOOLEAN
      BY DEF SkipAsciiBlock, IInv, TypeOK
    <2> HIDE DEF cur, E
    <2> QED
      BY <1>1, <1>4, <2>1, <2>2 DEF IInv, TypeOK
  <1>6. CASE has_error = {}
    <2>1. InBlock(previous, cur, i)
      BY <1>1, <1>2, <1>6, StepInBlock
    <2>2. /\ E = {} <=> PrefixOK(src, len, i + W)
          /\ PrefixOK(src, len, i + W) => Summarises(previous, i + W)
      BY <1>1, <2>1, AsciiBlockCorrect
    <2> HIDE DEF cur, E
    <2>3. has_error' = {} <=> PrefixOK(src', len', i')
      BY <1>1, <1>6, <2>2
    <2>4. has_error' = {} => Summarises(previous, i)'
      BY <1>1, <1>6, <2>2 DEF Summarises
    <2> QED
      BY <1>1, <1>5, <2>3, <2>4
        DEF IInv, ErrorsAreExact, PreviousSummarises, Verdict, Bounded
  <1>7. CASE has_error # {}
    <2>1. ~PrefixOK(src, len, i + W)
      BY <1>1, <1>2, <1>3, <1>7, StepInBlock
    <2> HIDE DEF cur, E
    <2>2. has_error' # {}
      BY <1>1, <1>7
    <2> QED
      BY <1>1, <1>5, <2>1, <2>2
        DEF IInv, ErrorsAreExact, PreviousSummarises, Verdict, Bounded
  <1> QED
    BY <1>6, <1>7

\* Both ways out of the loop look at the block of the padded string at i.
LEMMA ReturnIInv ==
  ASSUME IInv, CheckTail \/ CheckEnd
  PROVE  IInv'
  <1> USE WAssumption
  <1> DEFINE cur == buffer
             open == openSequence(previous.carried_continuations)
             P == processed(cur, previous)
             E == blockErrors(cur, previous)
  <1>1. /\ pc = "loop" /\ pc' = "done" /\ src' = src /\ len' = len /\ i' = i
        /\ result' = (has_error' = {}) /\ len < i + W
    BY LoopGuard DEF CheckTail, CheckEnd, Return, IInv, TypeOK
  <1>2. BlockAt(cur, i)
    BY <1>1, BufferIsBlock
  <1>3. len \in Nat /\ i \in Nat /\ src \in Strings(len) /\ W \in Nat
        /\ cur \in [Lane -> Byte]
    BY <1>1, <1>2, StepInBlock DEF BlockAt
  <1>4. E \subseteq Lane /\ open \subseteq Lane
    BY BlockErrorsAreLanes
  <1>5. PrefixOK(src, len, i + W) <=> PrefixOK(src, len, len + 1)
    <2>1. i + W \in Nat /\ i + W > len
      BY <1>1, <1>3
    <2> QED
      BY <1>3, <2>1, PaddingIsClean
  <1>6. Bounded(P)
    BY <1>3, ProcessedBounded DEF IInv
  <1>7. \/ has_error' = has_error \union E /\ previous' = P
        \/ /\ has_error' = has_error \union open /\ previous' = previous
           /\ allAscii(cur)
    <2>1. CASE CheckTail
      BY <2>1 DEF CheckTail
    <2>2. CASE CheckEnd
      <3>1. i = len
        BY <1>3, <2>2 DEF CheckEnd, IInv, TypeOK
      <3>2. \A k \in Lane : ~(k < len - i)
        BY <1>3, <3>1 DEF Lane
      <3>3. allAscii(cur)
        BY <3>2 DEF allAscii, buffer
      <3> QED
        BY <2>2, <3>3 DEF CheckEnd
    <2> QED
      BY <2>1, <2>2
  <1>8. has_error' = {} <=> PrefixOK(src, len, len + 1)
    <2>1. CASE has_error = {}
      <3>1. InBlock(previous, cur, i)
        BY <1>1, <1>2, <2>1, StepInBlock
      <3>2. E = {} <=> PrefixOK(src, len, i + W)
        BY <3>1, BlockCorrect
      <3>3. allAscii(cur) => (open = {} <=> PrefixOK(src, len, i + W))
        BY <3>1, AsciiBlockCorrect
      <3> HIDE DEF cur, open, P, E
      <3> QED
        BY <1>5, <1>7, <2>1, <3>2, <3>3
    <2>2. CASE has_error # {}
      <3>1. ~PrefixOK(src, len, i + W)
        <4>1. i + W \in Nat /\ i + W >= i
          BY <1>3
        <4> QED
          BY <1>1, <1>2, <2>2, <4>1, StepInBlock
      <3> HIDE DEF cur, open, P, E
      <3> QED
        BY <1>5, <1>7, <2>2, <3>1
    <2> QED
      BY <2>1, <2>2
  <1>9. Bounded(previous')
    BY <1>6, <1>7 DEF IInv
  <1>10. TypeOK'
    <2>1. previous' \in processed_utf_bytes
      BY <1>9 DEF Bounded
    <2>2. has_error' \subseteq Lane
      <3>1. has_error \subseteq Lane
        BY DEF IInv, TypeOK
      <3> QED
        BY <1>4, <1>7, <3>1
    <2>3. asciipath' \in BOOLEAN
      BY DEF CheckTail, CheckEnd, Return, IInv, TypeOK
    <2> QED
      BY <1>1, <2>1, <2>2, <2>3 DEF IInv, TypeOK
  <1> QED
    BY <1>1, <1>8, <1>9, <1>10
      DEF IInv, ErrorsAreExact, PreviousSummarises, Verdict, Bounded

LEMMA NextIInv == IInv /\ [Next]_vars => IInv'
  <1> SUFFICES ASSUME IInv, [Next]_vars PROVE IInv'
    OBVIOUS
  <1>1. CASE CheckBlock
    BY <1>1, CheckBlockIInv
  <1>2. CASE SkipAsciiBlock
    BY <1>2, SkipAsciiBlockIInv
  <1>3. CASE CheckTail
    BY <1>3, ReturnIInv
  <1>4. CASE CheckEnd
    BY <1>4, ReturnIInv
  <1>5. CASE UNCHANGED vars
    BY <1>5 DEF vars, IInv, TypeOK, Bounded, ErrorsAreExact, PreviousSummarises,
                Summarises, Verdict
  <1> QED
    BY <1>1, <1>2, <1>3, <1>4, <1>5 DEF Next

LEMMA SafetyIInv == Safety => []IInv
  BY InitIInv, NextIInv, PTL DEF Safety

LEMMA SpecIInv == Spec => []IInv
  BY SafetyIInv, PTL DEF Spec

(* The variables of the function keep their types: in particular the       *)
(* offset i never passes the end of the string.                            *)
THEOREM TypeCorrect == Spec => []TypeOK
  <1>1. IInv => TypeOK
    BY DEF IInv
  <1> QED
    BY <1>1, SpecIInv, PTL

(* Every vector load of the loop is inside the string, and the tail fits   *)
(* the buffer with room for a padding zero.                                *)
THEOREM LoadsStayInBounds == Spec => []LoadsInBounds
  <1>1. IInv => LoadsInBounds
    <2> SUFFICES ASSUME IInv PROVE LoadsInBounds
      OBVIOUS
    <2>1. moreBlocks <=> i + W <= len
      BY LoopGuard DEF IInv
    <2>2. i \in Int /\ len \in Int /\ W \in Int
      BY WAssumption, SizeAssumption DEF IInv, TypeOK
    <2> QED
      BY <2>1, <2>2 DEF LoadsInBounds
  <1> QED
    BY <1>1, SpecIInv, PTL

(* No carried count ever reaches the sign bit of its lane.                 *)
THEOREM CarriesAreSmall == Spec => []CarriesStaySmall
  <1>1. IInv => CarriesStaySmall
    BY DEF IInv, Bounded, CarriesStaySmall
  <1> QED
    BY <1>1, SpecIInv, PTL

(* After every block the error vector is exact: nothing illegal is missed, *)
(* and no sequence the next block may complete is refused.                 *)
THEOREM BlocksAreExact == Spec => []ErrorsAreExact
  <1>1. IInv => ErrorsAreExact
    BY DEF IInv
  <1> QED
    BY <1>1, SpecIInv, PTL

(* "previous", stale by any number of skipped blocks or not, knows what    *)
(* the next block has to know.                                             *)
THEOREM SummariesAreRight == Spec => []PreviousSummarises
  <1>1. IInv => PreviousSummarises
    BY DEF IInv
  <1> QED
    BY <1>1, SpecIInv, PTL

LEMMA IInvVerdict == IInv => VerdictCorrect
  <1> SUFFICES ASSUME IInv PROVE VerdictCorrect
    OBVIOUS
  <1>1. len \in Nat /\ src \in Strings(len)
    BY SizeAssumption DEF IInv, TypeOK
  <1>2. WellFormed(src, len) <=> PrefixOK(src, len, len + 1)
    BY <1>1, WellFormedIsLocal
  <1> QED
    BY <1>2 DEF IInv, Verdict, VerdictCorrect

(* validate_utf8_fast and its AVX2 forms return true exactly for the       *)
(* well-formed strings, whatever the string and its length.                *)
THEOREM VerdictIsCorrect == Spec => []VerdictCorrect
  BY SpecIInv, IInvVerdict, PTL

(* Step by step, a validator does nothing its caller could see but answer  *)
(* once, rightly.                                                          *)
THEOREM SafetyOfCall == Spec => Call!Safety
  <1>1. Init => Call!Init
    BY InputsAssumption DEF Init, Call!Init
  <1>2. IInv /\ IInv' /\ [Next]_vars => [Call!Answer]_(Call!callVars)
    <2> SUFFICES ASSUME IInv, IInv', [Next]_vars
                 PROVE  [Call!Answer]_(Call!callVars)
      OBVIOUS
    <2>1. CASE CheckBlock \/ SkipAsciiBlock \/ UNCHANGED vars
      BY <2>1 DEF CheckBlock, SkipAsciiBlock, vars, Call!callVars
    <2>2. CASE CheckTail \/ CheckEnd
      <3>1. /\ pc = "loop" /\ pc' = "done" /\ src' = src /\ len' = len
            /\ result' \in BOOLEAN
        BY <2>2 DEF CheckTail, CheckEnd, Return
      <3>2. len \in Nat /\ src \in Strings(len)
        BY SizeAssumption DEF IInv, TypeOK
      <3>3. result' <=> PrefixOK(src, len, len + 1)
        BY <3>1 DEF IInv, Verdict
      <3>4. result' <=> WellFormed(src, len)
        BY <3>2, <3>3, WellFormedIsLocal
      <3> QED
        BY <3>1, <3>4 DEF Call!Answer
    <2> QED
      BY <2>1, <2>2 DEF Next
  <1> QED
    BY <1>1, <1>2, SpecIInv, PTL DEF Spec, Safety, Call!Safety

-----------------------------------------------------------------------------
(***************************************************************************)
(* The AVX2 code takes the steps of BlockValidator.                        *)
(***************************************************************************)

\* Pushing bytes from half to half is pushing them through the register.
LEMMA PushIsAlignr ==
  ASSUME NEW a, NEW b
  PROVE  /\ push_last_byte_of_a_to_b(a, b) = Alignr(b, a, 1)
         /\ push_last_2bytes_of_a_to_b(a, b) = Alignr(b, a, 2)
  <1> DEFINE t == permute2x128(a, b)
  <1>1. W \in Nat /\ Half \in Nat /\ W = 2 * Half /\ Half >= 2
    BY WAssumption, HalvesAssumption DEF Half
  <1>2. ASSUME NEW n \in 1 .. 2, NEW k \in Lane
        PROVE  alignrHalves(b, t, n)[k] = Alignr(b, a, n)[k]
    <2>1. k \in Int /\ 0 <= k /\ k < W
      BY <1>1 DEF Lane
    <2>2. alignrHalves(b, t, n)[k] =
            IF k < n THEN t[Half - n + k]
            ELSE IF k \in Half .. Half + n - 1 THEN t[k + Half - n]
            ELSE b[k - n]
      BY DEF alignrHalves
    <2>3. Alignr(b, a, n)[k] = IF k < n THEN a[W - n + k] ELSE b[k - n]
      BY DEF Alignr
    <2>4. CASE k < n
      <3>1. Half - n + k \in Lane /\ Half - n + k < Half
            /\ Half + (Half - n + k) = W - n + k
        BY <1>1, <2>1, <2>4 DEF Lane
      <3>2. t[Half - n + k] = a[W - n + k]
        BY <3>1 DEF permute2x128
      <3> QED
        BY <2>2, <2>3, <2>4, <3>2
    <2>5. CASE k \in Half .. Half + n - 1
      <3>1. k + Half - n \in Lane /\ ~(k + Half - n < Half)
            /\ (k + Half - n) - Half = k - n /\ ~(k < n)
        BY <1>1, <2>1, <2>5 DEF Lane
      <3>2. t[k + Half - n] = b[k - n]
        BY <3>1 DEF permute2x128
      <3> QED
        BY <2>2, <2>3, <2>5, <3>1, <3>2
    <2> QED
      BY <2>2, <2>3, <2>4, <2>5
  <1>3. /\ alignrHalves(b, t, 1) = Alignr(b, a, 1)
        /\ alignrHalves(b, t, 2) = Alignr(b, a, 2)
    BY <1>2 DEF alignrHalves, Alignr
  <1> QED
    BY <1>3 DEF push_last_byte_of_a_to_b, push_last_2bytes_of_a_to_b

\* A table written twice, looked up half by half.
LEMMA ShuffleHalvesIsShuffle ==
  ASSUME NEW table, NEW indexes, \A k \in Lane : indexes[k] \in 0 .. 15
  PROVE  shuffleHalves(twice(table), indexes) = Shuffle(table, indexes)
  <1>1. ASSUME NEW h \in 0 .. 15
        PROVE  twice(table)[h + 1] = table[h + 1]
               /\ twice(table)[16 + h + 1] = table[h + 1]
    <2>1. h + 1 \in 1 .. 32 /\ h + 1 <= 16 /\ 16 + h + 1 \in 1 .. 32
          /\ ~(16 + h + 1 <= 16) /\ 16 + h + 1 - 16 = h + 1
      OBVIOUS
    <2> QED
      BY <2>1 DEF twice
  <1> QED
    BY <1>1 DEF shuffleHalves, Shuffle

\* What works lane by lane flags the same lanes.
LEMMA AvxChecks ==
  ASSUME NEW cur \in [Lane -> Byte], NEW o1, NEW ini, NEW c
  PROVE  /\ avxcheckSmallerThan0xF4(cur) = checkSmallerThan0xF4(cur)
         /\ avxcheckContinuations(ini, c) = checkContinuations(ini, c)
         /\ avxcheckFirstContinuationMax(cur, o1) = checkFirstContinuationMax(cur, o1)
         /\ avxallAscii(cur) <=> allAscii(cur)
         /\ avxopenSequence(c) = openSequence(c)
  <1>1. avxcheckSmallerThan0xF4(cur) = checkSmallerThan0xF4(cur)
    BY DEF avxcheckSmallerThan0xF4, checkSmallerThan0xF4
  <1>2. \A x, y : Gt8(x, y) \in BOOLEAN
    BY DEF Gt8
  <1>3. avxcheckContinuations(ini, c) = checkContinuations(ini, c)
    BY <1>2 DEF avxcheckContinuations, checkContinuations
  <1>4. avxcheckFirstContinuationMax(cur, o1) = checkFirstContinuationMax(cur, o1)
    BY DEF avxcheckFirstContinuationMax, checkFirstContinuationMax
  <1>5. \A k \in Lane : cur[k] >= 128 <=> ~(cur[k] < 128)
    <2> SUFFICES ASSUME NEW k \in Lane
                 PROVE  cur[k] >= 128 <=> ~(cur[k] < 128)
      OBVIOUS
    <2>1. cur[k] \in Byte
      OBVIOUS
    <2> QED
      BY <2>1 DEF Byte
  <1>6. avxallAscii(cur) <=> allAscii(cur)
    BY <1>5 DEF avxallAscii, allAscii
  <1>7. \A k \in Lane : k < W - 1 <=> k # W - 1
    BY WAssumption DEF Lane
  <1>8. \A k \in Lane : avxopenLimits[k] = IF k = W - 1 THEN 1 ELSE 9
    BY <1>7 DEF avxopenLimits
  <1>9. avxopenSequence(c) = openSequence(c)
    BY <1>8 DEF avxopenSequence, openSequence
  <1> QED
    BY <1>1, <1>3, <1>4, <1>6, <1>9

LEMMA AvxBlockIsBlock ==
  ASSUME NEW prev, Bounded(prev), NEW cur \in [Lane -> Byte]
  PROVE  /\ avxprocessed(cur, prev) = processed(cur, prev)
         /\ avxblockErrors(cur, prev) = blockErrors(cur, prev)
  <1> DEFINE nibbles == count_nibbles(cur)
             L == continuationLengths(nibbles)
             off1_hibits == Alignr(nibbles, prev.high_nibbles, 1)
  <1>1. \A k \in Lane : nibbles[k] \in 0 .. 15
    BY Nibble DEF count_nibbles
  <1>2. avxcontinuationLengths(nibbles) = L
    BY <1>1, ShuffleHalvesIsShuffle DEF avxcontinuationLengths, continuationLengths
  <1>3. \A ini, carried :
          avxcarryContinuations(ini, carried) = carryContinuations(ini, carried)
    BY PushIsAlignr DEF avxcarryContinuations, carryContinuations, carrySum
  <1>4. avxprocessed(cur, prev) = processed(cur, prev)
    BY <1>2, <1>3 DEF avxprocessed, processed
  <1>5. \A k \in Lane : off1_hibits[k] \in 0 .. 15
    <2>1. ASSUME NEW k \in Lane PROVE off1_hibits[k] \in 0 .. 15
      <3>1. k \in Int /\ W - 1 \in Lane
        BY WAssumption DEF Lane
      <3>2. off1_hibits[k] = IF k < 1 THEN prev.high_nibbles[W - 1 + k]
                             ELSE nibbles[k - 1]
        BY DEF Alignr
      <3>3. CASE k < 1
        <4>1. W - 1 + k = W - 1
          BY <3>3, WAssumption DEF Lane
        <4> QED
          BY <3>1, <3>2, <3>3, <4>1 DEF Bounded, processed_utf_bytes
      <3>4. CASE ~(k < 1)
        <4>1. k - 1 \in Lane
          BY <3>4, WAssumption DEF Lane
        <4> QED
          BY <1>1, <3>2, <3>4, <4>1
      <3> QED
        BY <3>3, <3>4
    <2> QED
      BY <2>1
  <1>6. \A o1 : avxcheckOverlong(cur, o1, nibbles, prev.high_nibbles)
                  = checkOverlong(cur, o1, nibbles, prev.high_nibbles)
    <2>1. push_last_byte_of_a_to_b(prev.high_nibbles, nibbles) = off1_hibits
      BY PushIsAlignr
    <2>2. /\ shuffleHalves(twice(initialMins), off1_hibits)
               = Shuffle(initialMins, off1_hibits)
          /\ shuffleHalves(twice(secondMins), off1_hibits)
               = Shuffle(secondMins, off1_hibits)
      BY <1>5, ShuffleHalvesIsShuffle
    <2> QED
      BY <2>1, <2>2 DEF avxcheckOverlong, checkOverlong
  <1>7. avxprocessed(cur, prev).high_nibbles = nibbles
        /\ avxprocessed(cur, prev).rawbytes = cur
        /\ processed(cur, prev).high_nibbles = nibbles
        /\ processed(cur, prev).rawbytes = cur
    BY DEF avxprocessed, processed
  <1>8. push_last_byte_of_a_to_b(prev.rawbytes, cur) = Alignr(cur, prev.rawbytes, 1)
    BY PushIsAlignr
  <1> HIDE DEF nibbles, L, off1_hibits
  <1> QED
    BY <1>2, <1>4, <1>6, <1>7, <1>8, AvxChecks DEF avxblockErrors, blockErrors, L

\* A block the loop or the tail hands over has bytes in its lanes.
LEMMA BlocksAreBytes ==
  ASSUME IInv, pc = "loop"
  PROVE  /\ buffer \in [Lane -> Byte]
         /\ moreBlocks => load(i) \in [Lane -> Byte]
  <1>1. moreBlocks => i + W <= len
    BY LoopGuard DEF IInv
  <1> QED
    BY <1>1, BufferIsBlock, LoadIsBlock DEF BlockAt

LEMMA AvxStep ==
  ASSUME IInv, [AvxNext]_vars
  PROVE  [Next]_vars
  <1>0. Bounded(previous)
    BY DEF IInv
  <1>1. CASE AvxCheckBlock
    <2>1. load(i) \in [Lane -> Byte]
      BY <1>1, BlocksAreBytes DEF AvxCheckBlock
    <2>2. /\ avxprocessed(load(i), previous) = processed(load(i), previous)
          /\ avxblockErrors(load(i), previous) = blockErrors(load(i), previous)
          /\ avxallAscii(load(i)) <=> allAscii(load(i))
      BY <1>0, <2>1, AvxBlockIsBlock, AvxChecks
    <2>3. CheckBlock
      BY <1>1, <2>2 DEF AvxCheckBlock, CheckBlock
    <2> QED
      BY <2>3 DEF Next
  <1>2. CASE AvxSkipAsciiBlock
    <2>1. load(i) \in [Lane -> Byte]
      BY <1>2, BlocksAreBytes DEF AvxSkipAsciiBlock
    <2>2. /\ avxallAscii(load(i)) <=> allAscii(load(i))
          /\ avxopenSequence(previous.carried_continuations)
               = openSequence(previous.carried_continuations)
      BY <2>1, AvxChecks
    <2>3. SkipAsciiBlock
      BY <1>2, <2>2 DEF AvxSkipAsciiBlock, SkipAsciiBlock
    <2> QED
      BY <2>3 DEF Next
  <1>3. CASE AvxCheckTail
    <2>1. buffer \in [Lane -> Byte]
      BY <1>3, BlocksAreBytes DEF AvxCheckTail
    <2>2. /\ avxprocessed(buffer, previous) = processed(buffer, previous)
          /\ avxblockErrors(buffer, previous) = blockErrors(buffer, previous)
      BY <1>0, <2>1, AvxBlockIsBlock
    <2>3. CheckTail
      BY <1>3, <2>2 DEF AvxCheckTail, CheckTail
    <2> QED
      BY <2>3 DEF Next
  <1>4. CASE AvxCheckEnd
    <2>1. buffer \in [Lane -> Byte]
      BY <1>4, BlocksAreBytes DEF AvxCheckEnd
    <2>2. avxopenSequence(previous.carried_continuations)
            = openSequence(previous.carried_continuations)
      BY <2>1, AvxChecks
    <2>3. CheckEnd
      BY <1>4, <2>2 DEF AvxCheckEnd, CheckEnd
    <2> QED
      BY <2>3 DEF Next
  <1> QED
    BY <1>1, <1>2, <1>3, <1>4 DEF AvxNext, Next

(* The AVX2 code implements the block code, at every even width.           *)
THEOREM Avx2RefinesBlocks == AvxSpec => AvxImplementsBlocks
  <1>1. Init => IInv
    BY InitIInv
  <1>2. IInv /\ [AvxNext]_vars => IInv' /\ [Next]_vars
    BY AvxStep, NextIInv
  <1> QED
    BY <1>1, <1>2, PTL DEF AvxSpec, AvxSafety, AvxImplementsBlocks

(* validate_utf8_fast_avx and validate_utf8_fast_avx_asciipath return true *)
(* exactly for the well-formed strings.                                    *)
THEOREM Avx2VerdictIsCorrect == AvxSpec => []VerdictCorrect
  BY Avx2RefinesBlocks, SafetyIInv, IInvVerdict, PTL
     DEF AvxSpec, AvxSafety, AvxImplementsBlocks, Safety

-----------------------------------------------------------------------------
(***************************************************************************)
(* The AVX-512 code takes the steps of BlockValidator.                     *)
(***************************************************************************)

\* The permutation with the constant indexes is the shift of the others.
LEMMA PermuteIsAlignr ==
  ASSUME NEW a, NEW b
  PROVE  /\ avx512_push_last_byte_of_a_to_b(a, b) = Alignr(b, a, 1)
         /\ avx512_push_last_2bytes_of_a_to_b(a, b) = Alignr(b, a, 2)
  <1>1. ASSUME NEW n \in 1 .. 2, NEW k \in Lane
        PROVE  permutex2var(b, pushIndexes(n), a)[k] = Alignr(b, a, n)[k]
    <2>1. k \in Int /\ 0 <= k /\ k < W /\ W \in Int /\ W >= 4
      BY WAssumption DEF Lane
    <2>2. pushIndexes(n)[k] = IF k < n THEN 2 * W - n + k ELSE k - n
      BY DEF pushIndexes
    <2>3. permutex2var(b, pushIndexes(n), a)[k] =
            IF pushIndexes(n)[k] < W THEN b[pushIndexes(n)[k]]
            ELSE a[pushIndexes(n)[k] - W]
      BY DEF permutex2var
    <2>4. Alignr(b, a, n)[k] = IF k < n THEN a[W - n + k] ELSE b[k - n]
      BY DEF Alignr
    <2>5. CASE k < n
      <3>1. ~(2 * W - n + k < W) /\ (2 * W - n + k) - W = W - n + k
        BY <2>1, <2>5
      <3> QED
        BY <2>2, <2>3, <2>4, <2>5, <3>1
    <2>6. CASE ~(k < n)
      <3>1. k - n < W
        BY <2>1, <2>6
      <3> QED
        BY <2>2, <2>3, <2>4, <2>6, <3>1
    <2> QED
      BY <2>5, <2>6
  <1>2. /\ permutex2var(b, pushIndexes(1), a) = Alignr(b, a, 1)
        /\ permutex2var(b, pushIndexes(2), a) = Alignr(b, a, 2)
    BY <1>1 DEF permutex2var, Alignr
  <1> QED
    BY <1>2 DEF avx512_push_last_byte_of_a_to_b, avx512_push_last_2bytes_of_a_to_b

\* The words spell the byte tables.
LEMMA WordTables ==
  ASSUME NEW h \in 0 .. 15
  PROVE  /\ avx512_lengthTable[h + 1] = lengthTable[h + 1]
         /\ avx512_initialMins[h + 1] = initialMins[h + 1]
         /\ avx512_secondMins[h + 1] = secondMins[h + 1]
  <1> DEFINE q == h \div 4
             r == h % 4
  <1>1. q \in 0 .. 3 /\ r \in 0 .. 3 /\ h = 4 * q + r
    OBVIOUS
  <1>2. h + 1 \in 1 .. 16 /\ (h + 1) - 1 = h
    OBVIOUS
  <1>3. \A words : setr4_epi32(words)[h + 1] = words[q + 1][4 - r]
    BY <1>2 DEF setr4_epi32
  <1> HIDE DEF q, r
  <1>4. avx512_lengthTable[h + 1] = lengthTable[h + 1]
    <2>1. avx512_lengthTable[h + 1] =
            << x01010101, x01010101, <<0, 0, 0, 0>>, <<4, 3, 2, 2>> >>[q + 1][4 - r]
      BY <1>3 DEF avx512_lengthTable
    <2>2. CASE q = 0
      BY <1>1, <2>1, <2>2 DEF lengthTable, x01010101
    <2>3. CASE q = 1
      BY <1>1, <2>1, <2>3 DEF lengthTable, x01010101
    <2>4. CASE q = 2
      BY <1>1, <2>1, <2>4 DEF lengthTable
    <2>5. CASE q = 3
      BY <1>1, <2>1, <2>5 DEF lengthTable
    <2> QED
      BY <1>1, <2>2, <2>3, <2>4, <2>5
  <1>5. avx512_initialMins[h + 1] = initialMins[h + 1]
    <2>1. avx512_initialMins[h + 1] =
            << x80808080, x80808080, x80808080, <<241, 225, 128, 194>> >>[q + 1][4 - r]
      BY <1>3 DEF avx512_initialMins
    <2>2. CASE q \in 0 .. 2
      BY <1>1, <2>1, <2>2 DEF initialMins, x80808080
    <2>3. CASE q = 3
      BY <1>1, <2>1, <2>3 DEF initialMins
    <2> QED
      BY <1>1, <2>2, <2>3
  <1>6. avx512_secondMins[h + 1] = secondMins[h + 1]
    <2>1. avx512_secondMins[h + 1] =
            << x80808080, x80808080, x80808080, <<144, 160, 127, 127>> >>[q + 1][4 - r]
      BY <1>3 DEF avx512_secondMins
    <2>2. CASE q \in 0 .. 2
      BY <1>1, <2>1, <2>2 DEF secondMins, x80808080
    <2>3. CASE q = 3
      BY <1>1, <2>1, <2>3 DEF secondMins
    <2> QED
      BY <1>1, <2>2, <2>3
  <1> QED
    BY <1>4, <1>5, <1>6

\* Masks and saturating differences flag the same lanes.
LEMMA MaskChecks ==
  ASSUME NEW cur \in [Lane -> Byte], NEW ini, NEW c
  PROVE  /\ avx512_checkSmallerThan0xF4(cur) = checkSmallerThan0xF4(cur)
         /\ avx512_checkContinuations(ini, c) = checkContinuations(ini, c)
         /\ \A o1 : avx512_checkFirstContinuationMax(cur, o1)
                     = checkFirstContinuationMax(cur, o1)
         /\ avx512_allAscii(cur) <=> allAscii(cur)
  <1>1. \A k \in Lane : cur[k] > 244 <=> Subs(cur[k], 244) # 0
    <2> SUFFICES ASSUME NEW k \in Lane
                 PROVE  cur[k] > 244 <=> Subs(cur[k], 244) # 0
      OBVIOUS
    <2>1. cur[k] \in Byte
      OBVIOUS
    <2> QED
      BY <2>1 DEF Subs, Byte
  <1>2. avx512_checkSmallerThan0xF4(cur) = checkSmallerThan0xF4(cur)
    BY <1>1 DEF avx512_checkSmallerThan0xF4, checkSmallerThan0xF4
  <1>3. \A x, y : Gt8(x, y) \in BOOLEAN
    BY DEF Gt8
  <1>4. avx512_checkContinuations(ini, c) = checkContinuations(ini, c)
    BY <1>3 DEF avx512_checkContinuations, checkContinuations
  <1>5. \A k \in Lane : cur[k] >= 128 <=> ~(cur[k] < 128)
    <2> SUFFICES ASSUME NEW k \in Lane
                 PROVE  cur[k] >= 128 <=> ~(cur[k] < 128)
      OBVIOUS
    <2>1. cur[k] \in Byte
      OBVIOUS
    <2> QED
      BY <2>1 DEF Byte
  <1>6. avx512_allAscii(cur) <=> allAscii(cur)
    BY <1>5 DEF avx512_allAscii, allAscii
  <1>7. \A o1 : avx512_checkFirstContinuationMax(cur, o1)
                  = checkFirstContinuationMax(cur, o1)
    BY DEF avx512_checkFirstContinuationMax, checkFirstContinuationMax
  <1> QED
    BY <1>2, <1>4, <1>6, <1>7

\* Only the last lane of the last word is compared with 1.
LEMMA OpenLimits ==
  ASSUME NEW carried
  PROVE  avx512_openSequence(carried) = openSequence(carried)
  <1>1. ASSUME NEW k \in Lane
        PROVE  openLimits[k] = IF k = W - 1 THEN 1 ELSE 9
    <2>1. k \in Int /\ 0 <= k /\ k <= W - 1 /\ W \in Int /\ W % 4 = 0 /\ W >= 4
      BY WAssumption, WordsAssumption DEF Lane
    <2>2. openLimits[k] = (IF k < W - 4 THEN <<9, 9, 9, 9>> ELSE <<1, 9, 9, 9>>)[4 - (k % 4)]
      BY DEF openLimits
    <2>3. k % 4 \in 0 .. 3
      BY <2>1
    <2>4. CASE k < W - 4
      BY <2>1, <2>2, <2>3, <2>4
    <2>5. CASE k >= W - 4
      <3>1. k % 4 = 3 <=> k = W - 1
        BY <2>1, <2>5
      <3> QED
        BY <2>1, <2>2, <2>3, <2>5, <3>1
    <2> QED
      BY <2>1, <2>4, <2>5
  <1> QED
    BY <1>1 DEF avx512_openSequence, openSequence

LEMMA Avx512BlockIsBlock ==
  ASSUME NEW prev, Bounded(prev), NEW cur \in [Lane -> Byte]
  PROVE  /\ avx512_processed(cur, prev) = processed(cur, prev)
         /\ avx512_blockErrors(cur, prev) = blockErrors(cur, prev)
  <1> DEFINE nibbles == count_nibbles(cur)
             L == continuationLengths(nibbles)
             off1_hibits == Alignr(nibbles, prev.high_nibbles, 1)
  <1>1. \A k \in Lane : nibbles[k] \in 0 .. 15
    BY Nibble DEF count_nibbles
  <1>2. Shuffle(avx512_lengthTable, nibbles) = L
    BY <1>1, WordTables DEF continuationLengths, Shuffle
  <1>3. \A ini, carried :
          avx512_carryContinuations(ini, carried) = carryContinuations(ini, carried)
    BY PermuteIsAlignr DEF avx512_carryContinuations, carryContinuations, carrySum
  <1>4. avx512_processed(cur, prev) = processed(cur, prev)
    BY <1>2, <1>3 DEF avx512_processed, processed
  <1>5. \A k \in Lane : off1_hibits[k] \in 0 .. 15
    <2>1. ASSUME NEW k \in Lane PROVE off1_hibits[k] \in 0 .. 15
      <3>1. k \in Int /\ W - 1 \in Lane
        BY WAssumption DEF Lane
      <3>2. off1_hibits[k] = IF k < 1 THEN prev.high_nibbles[W - 1 + k]
                             ELSE nibbles[k - 1]
        BY DEF Alignr
      <3>3. CASE k < 1
        <4>1. W - 1 + k = W - 1
          BY <3>3, WAssumption DEF Lane
        <4> QED
          BY <3>1, <3>2, <3>3, <4>1 DEF Bounded, processed_utf_bytes
      <3>4. CASE ~(k < 1)
        <4>1. k - 1 \in Lane
          BY <3>4, WAssumption DEF Lane
        <4> QED
          BY <1>1, <3>2, <3>4, <4>1
      <3> QED
        BY <3>3, <3>4
    <2> QED
      BY <2>1
  <1>6. \A o1 : avx512_checkOverlong(cur, o1, nibbles, prev.high_nibbles)
                  = checkOverlong(cur, o1, nibbles, prev.high_nibbles)
    <2>1. avx512_push_last_byte_of_a_to_b(prev.high_nibbles, nibbles) = off1_hibits
      BY PermuteIsAlignr
    <2>2. /\ Shuffle(avx512_initialMins, off1_hibits) = Shuffle(initialMins, off1_hibits)
          /\ Shuffle(avx512_secondMins, off1_hibits) = Shuffle(secondMins, off1_hibits)
      BY <1>5, WordTables DEF Shuffle
    <2> HIDE DEF nibbles, off1_hibits
    <2> QED
      BY <2>1, <2>2 DEF avx512_checkOverlong, checkOverlong, off1_hibits
  <1>7. avx512_processed(cur, prev).high_nibbles = nibbles
        /\ avx512_processed(cur, prev).rawbytes = cur
        /\ processed(cur, prev).high_nibbles = nibbles
        /\ processed(cur, prev).rawbytes = cur
    BY DEF avx512_processed, processed
  <1>8. avx512_push_last_byte_of_a_to_b(prev.rawbytes, cur) = Alignr(cur, prev.rawbytes, 1)
    BY PermuteIsAlignr
  <1> HIDE DEF nibbles, L, off1_hibits
  <1> QED
    BY <1>2, <1>4, <1>6, <1>7, <1>8, MaskChecks
      DEF avx512_blockErrors, blockErrors, L

LEMMA Avx512Step ==
  ASSUME IInv, [Avx512Next]_vars
  PROVE  [Next]_vars
  <1>1. Bounded(previous)
    BY DEF IInv
  <1>2. pc = "loop" => buffer \in [Lane -> Byte]
    BY BufferIsBlock DEF BlockAt
  <1>3. pc = "loop" /\ moreBlocks => load(i) \in [Lane -> Byte]
    <2>1. moreBlocks => i + W <= len
      BY LoopGuard DEF IInv
    <2> QED
      BY <2>1, LoadIsBlock DEF BlockAt
  <1>4. CASE Avx512CheckBlock
    <2>1. load(i) \in [Lane -> Byte]
      BY <1>3, <1>4 DEF Avx512CheckBlock
    <2>2. /\ avx512_processed(load(i), previous) = processed(load(i), previous)
          /\ avx512_blockErrors(load(i), previous) = blockErrors(load(i), previous)
          /\ avx512_allAscii(load(i)) <=> allAscii(load(i))
      BY <1>1, <2>1, Avx512BlockIsBlock, MaskChecks
    <2>3. CheckBlock
      BY <1>4, <2>2 DEF Avx512CheckBlock, CheckBlock
    <2> QED
      BY <2>3 DEF Next
  <1>5. CASE Avx512SkipAsciiBlock
    <2>1. load(i) \in [Lane -> Byte]
      BY <1>3, <1>5 DEF Avx512SkipAsciiBlock
    <2>2. avx512_allAscii(load(i)) <=> allAscii(load(i))
      BY <2>1, MaskChecks
    <2>3. SkipAsciiBlock
      BY <1>5, <2>2, OpenLimits DEF Avx512SkipAsciiBlock, SkipAsciiBlock
    <2> QED
      BY <2>3 DEF Next
  <1>6. CASE Avx512CheckTail
    <2>1. buffer \in [Lane -> Byte]
      BY <1>2, <1>6 DEF Avx512CheckTail
    <2>2. /\ avx512_processed(buffer, previous) = processed(buffer, previous)
          /\ avx512_blockErrors(buffer, previous) = blockErrors(buffer, previous)
      BY <1>1, <2>1, Avx512BlockIsBlock
    <2>3. CheckTail
      BY <1>6, <2>2 DEF Avx512CheckTail, CheckTail
    <2> QED
      BY <2>3 DEF Next
  <1>7. CASE Avx512CheckEnd
    <2>1. CheckEnd
      BY <1>7, OpenLimits DEF Avx512CheckEnd, CheckEnd
    <2> QED
      BY <2>1 DEF Next
  <1> QED
    BY <1>4, <1>5, <1>6, <1>7 DEF Avx512Next

(* The AVX-512 code implements the block code at every width of whole words.*)
THEOREM Avx512RefinesBlocks == Avx512Spec => Avx512ImplementsBlocks
  <1>1. Init => IInv
    BY InitIInv
  <1>2. IInv /\ [Avx512Next]_vars => IInv' /\ [Next]_vars
    BY Avx512Step, NextIInv
  <1> QED
    BY <1>1, <1>2, PTL DEF Avx512Spec, Avx512Safety, Avx512ImplementsBlocks

(* validate_utf8_fast_avx512 and its ASCII-path form return true exactly   *)
(* for the well-formed strings.                                            *)
THEOREM Avx512VerdictIsCorrect == Avx512Spec => []VerdictCorrect
  BY Avx512RefinesBlocks, SafetyIInv, IInvVerdict, PTL
     DEF Avx512Spec, Avx512Safety, Avx512ImplementsBlocks, Safety
=============================================================================
