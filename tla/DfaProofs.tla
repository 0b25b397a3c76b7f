----------------------------- MODULE DfaProofs -----------------------------
(***************************************************************************)
(* Proofs about the automata of hoehrmann.h, for all strings: their states *)
(* mean what StateIsExact says, multiplied by 16 or not, and decode, in    *)
(* the same steps, collects the bits of the sequence being read.           *)
(***************************************************************************)
EXTENDS Dfa, Utf8Proofs

\* The state as the automaton that is not multiplied has it.
LEMMA PlainState ==
  ASSUME TypeOK
  PROVE  /\ plain \in 0 .. 8
         /\ state = IF fn.shiftless THEN 16 * plain ELSE plain
         /\ state = REJECT <=> plain = 1
  <1>1. CASE fn.shiftless
    <2>1. PICK st \in 0 .. 8 : state = 16 * st
      BY <1>1 DEF TypeOK
    <2>2. plain = st
      BY <1>1, <2>1 DEF plain
    <2> QED
      BY <1>1, <2>1, <2>2 DEF REJECT, SHIFTLESS_UTF8_REJECT
  <1>2. CASE ~fn.shiftless
    BY <1>2 DEF TypeOK, plain, REJECT, UTF8_REJECT
  <1> QED
    BY <1>1, <1>2

\* Both automata make the same step.
LEMMA PlainStep ==
  ASSUME TypeOK, NEW b \in Byte
  PROVE  /\ updatestate(plain, b) \in 0 .. 8
         /\ update(b) = IF fn.shiftless THEN 16 * updatestate(plain, b)
                        ELSE updatestate(plain, b)
  <1>1. plain \in 0 .. 8 /\ state = IF fn.shiftless THEN 16 * plain ELSE plain
    BY PlainState
  <1>2. /\ updatestate(plain, b) \in 0 .. 8
        /\ shiftless_updatestate(16 * plain, b) = 16 * updatestate(plain, b)
    BY <1>1, ShiftlessUpdate
  <1> QED
    BY <1>1, <1>2 DEF update

-----------------------------------------------------------------------------
(***************************************************************************)
(* The loop.                                                               *)
(***************************************************************************)

\* The answer, with what a rejection inside the loop needs.
Verdict == pc = "done" => (result <=> LegalSoFar(len))

Reads == pc = "loop" => Knows(plain, src, len, i)

\* The bits a byte that is not a continuation byte gives to the code point.
bits(b) ==
  IF b < 128 THEN b ELSE IF b < 224 THEN b - 192 ELSE IF b < 240 THEN b - 224
  ELSE b - 240

\* c is what the last sequence of b4, b3, b2, b1 gives, complete or not.
Collected(c, b4, b3, b2, b1) ==
  /\ ~Continuation(b1) => c = bits(b1)
  /\ Continuation(b1) /\ ~Continuation(b2) => c = (64 * bits(b2)) + (b1 - 128)
  /\ Continuation(b1) /\ Continuation(b2) /\ ~Continuation(b3) =>
       c = (4096 * bits(b3)) + (64 * (b2 - 128)) + (b1 - 128)
  /\ Continuation(b1) /\ Continuation(b2) /\ Continuation(b3) =>
       c = (262144 * bits(b4)) + (4096 * (b3 - 128)) + (64 * (b2 - 128)) + (b1 - 128)

Decodes ==
  pc = "loop" =>
    /\ decoded.state = state
    /\ i > 0 /\ plain # UTF8_REJECT =>
         Collected(decoded.codep, Padded(src, len, i - 4), Padded(src, len, i - 3),
                   Padded(src, len, i - 2), Padded(src, len, i - 1))

IInv ==
  /\ TypeOK
  /\ Reads
  /\ Decodes
  /\ Verdict
  /\ pc = "loop" /\ fn.early => state # REJECT

\* The bytes a lead byte's class keeps.
LEMMA LeadBits ==
  ASSUME NEW b \in Byte, ~Continuation(b), b <= 244, b \notin {192, 193}
  PROVE  leadBits(b) = bits(b)
  <1> b \in Int /\ 0 <= b /\ b <= 244 /\ (b <= 127 \/ b >= 194)
    BY DEF Byte, Continuation
  <1>1. /\ utf8d(b) = 0 <=> b <= 127
        /\ utf8d(b) = 2 <=> b \in 194 .. 223
        /\ utf8d(b) = 10 <=> b = 224
        /\ utf8d(b) = 3 <=> b \in (225 .. 239) \ {237}
        /\ utf8d(b) = 4 <=> b = 237
        /\ utf8d(b) = 11 <=> b = 240
        /\ utf8d(b) = 6 <=> b \in 241 .. 243
        /\ utf8d(b) = 5 <=> b = 244
    BY Classes
  <1> DEFINE masks == <<256, 128, 64, 32, 16, 8, 4, 2, 1>>
  <1>2. /\ masks[0 + 1] = 256 /\ masks[2 + 1] = 64 /\ masks[3 + 1] = 32
        /\ masks[4 + 1] = 16 /\ masks[6 + 1] = 4 /\ masks[5 + 1] = 8
    BY SMT
  <1>3. leadBits(b) = IF utf8d(b) > 8 THEN 0 ELSE b % (masks[utf8d(b) + 1])
    BY DEF leadBits
  <1> HIDE DEF masks
  <1>4. CASE b <= 127
    <2>1. leadBits(b) = b % 256
      BY <1>1, <1>2, <1>3, <1>4
    <2> QED
      BY <1>4, <2>1 DEF bits
  <1>5. CASE b \in 194 .. 223
    <2>1. leadBits(b) = b % 64
      BY <1>1, <1>2, <1>3, <1>5
    <2> QED
      BY <1>5, <2>1 DEF bits
  <1>6. CASE b \in (225 .. 239) \ {237}
    <2>1. leadBits(b) = b % 32
      BY <1>1, <1>2, <1>3, <1>6
    <2> QED
      BY <1>6, <2>1 DEF bits
  <1>7. CASE b = 237
    <2>1. leadBits(b) = b % 16
      BY <1>1, <1>2, <1>3, <1>7
    <2> QED
      BY <1>7, <2>1 DEF bits
  <1>8. CASE b \in 241 .. 243
    <2>1. leadBits(b) = b % 4
      BY <1>1, <1>2, <1>3, <1>8
    <2> QED
      BY <1>8, <2>1 DEF bits
  <1>9. CASE b = 244
    <2>1. leadBits(b) = b % 8
      BY <1>1, <1>2, <1>3, <1>9
    <2> QED
      BY <1>9, <2>1 DEF bits
  <1>10. CASE b = 224 \/ b = 240
    BY <1>1, <1>3, <1>10 DEF bits
  <1> QED
    BY <1>4, <1>5, <1>6, <1>7, <1>8, <1>9, <1>10

LEMMA BitsBound ==
  ASSUME NEW b \in Byte, ~Continuation(b)
  PROVE  bits(b) \in 0 .. 127
  <1> b \in Int /\ 0 <= b /\ b <= 255 /\ (b < 128 \/ b >= 192)
    BY DEF Byte, Continuation
  <1> QED
    BY DEF bits

\* A continuation byte moves what was collected up and adds its bits; any other
\* byte starts anew.
LEMMA CollectStep ==
  ASSUME NEW st \in (0 .. 8) \ {1}, NEW c,
         NEW b5 \in Byte, NEW b4 \in Byte, NEW b3 \in Byte, NEW b2 \in Byte,
         NEW b1 \in Byte, NEW b \in Byte,
         Follows(b5, b4, b3, b2), Follows(b4, b3, b2, b1), Follows(b3, b2, b1, b),
         b3 <= 244, b \notin {192, 193}, Means(st, b3, b2, b1),
         Owed(b3, b2, b1) => Collected(c, b4, b3, b2, b1)
  PROVE  Collected(shifted(st, c, b), b3, b2, b1, b)
  <1>b. /\ b \in Int /\ 0 <= b /\ b <= 255 /\ b1 \in Int /\ 0 <= b1 /\ b1 <= 255
        /\ b2 \in Int /\ 0 <= b2 /\ b2 <= 255 /\ b3 \in Int /\ 0 <= b3 /\ b3 <= 255
        /\ b4 \in Int /\ 0 <= b4 /\ b4 <= 255
    BY DEF Byte
  <1>1. st = 0 <=> ~Owed(b3, b2, b1)
    BY <1>b DEF Means, Owed, Continuation
  <1>2. CASE ~Continuation(b)
    <2>1. st = 0
      BY <1>1, <1>2 DEF Follows
    <2>2. shifted(st, c, b) = leadBits(b)
      BY <2>1 DEF shifted, UTF8_ACCEPT
    <2>3. leadBits(b) = bits(b)
      BY <1>2, LeadBits DEF Follows
    <2> QED
      BY <1>2, <2>2, <2>3 DEF Collected
  <1>3. CASE Continuation(b)
    <2>1. Owed(b3, b2, b1) /\ st # 0
      BY <1>1, <1>3 DEF Follows
    <2>2. Collected(c, b4, b3, b2, b1)
      BY <2>1
    <2>3. b % 64 = b - 128
      BY <1>3 DEF Continuation
    <2>4. shifted(st, c, b) = (b - 128) + (64 * (c % 262144))
      BY <2>1, <2>3 DEF shifted, UTF8_ACCEPT
    <2>5. CASE ~Continuation(b1)
      <3>1. c = bits(b1)
        BY <2>2, <2>5 DEF Collected
      <3>2. bits(b1) \in 0 .. 127
        BY <2>5, BitsBound
      <3>3. c % 262144 = bits(b1)
        BY <3>1, <3>2, SMT
      <3>4. shifted(st, c, b) = (64 * bits(b1)) + (b - 128)
        BY <1>b, <2>4, <3>2, <3>3, SMT
      <3> QED
        BY <1>3, <2>5, <3>4 DEF Collected
    <2>6. CASE Continuation(b1) /\ ~Continuation(b2)
      <3>1. c = (64 * bits(b2)) + (b1 - 128)
        BY <2>2, <2>6 DEF Collected
      <3>2. bits(b2) \in 0 .. 127
        BY <2>6, BitsBound
      <3>3. b1 >= 128 /\ b1 <= 191
        BY <2>6 DEF Continuation
      <3>4. c % 262144 = (64 * bits(b2)) + (b1 - 128)
        BY <1>b, <3>1, <3>2, <3>3, SMT
      <3>5. shifted(st, c, b) = (4096 * bits(b2)) + (64 * (b1 - 128)) + (b - 128)
        BY <1>b, <2>4, <3>2, <3>4, SMT
      <3> QED
        BY <1>3, <2>6, <3>5 DEF Collected
    <2>7. CASE Continuation(b1) /\ Continuation(b2)
      <3>1. b3 >= 240 /\ b3 <= 244
        BY <1>b, <2>1, <2>7 DEF Owed, Continuation
      <3>2. ~Continuation(b3)
        BY <3>1 DEF Continuation
      <3>3. c = (4096 * bits(b3)) + (64 * (b2 - 128)) + (b1 - 128)
        BY <2>2, <2>7, <3>2 DEF Collected
      <3>4. bits(b3) = b3 - 240
        BY <1>b, <3>1 DEF bits
      <3>5. bits(b3) \in 0 .. 4
        BY <1>b, <3>1, <3>4
      <3>6. b1 >= 128 /\ b1 <= 191 /\ b2 >= 128 /\ b2 <= 191
        BY <2>7 DEF Continuation
      <3>7. c % 262144 = c /\ c \in Int
        BY <1>b, <3>3, <3>5, <3>6, SMT
      <3>8. shifted(st, c, b) = (262144 * bits(b3)) + (4096 * (b2 - 128))
                                + (64 * (b1 - 128)) + (b - 128)
        <4>1. 64 * c = (262144 * bits(b3)) + (4096 * (b2 - 128)) + (64 * (b1 - 128))
          BY <1>b, <3>3, <3>5, SMT
        <4>2. shifted(st, c, b) = (b - 128) + (64 * c)
          BY <2>4, <3>7
        <4> QED
          BY <1>b, <3>5, <4>1, <4>2, SMT
      <3> QED
        BY <1>3, <2>7, <3>8 DEF Collected
    <2> QED
      BY <2>5, <2>6, <2>7
  <1> QED
    BY <1>2, <1>3

\* What the state becomes.
LEMMA StateStep ==
  ASSUME TypeOK, i < len, state' = update(src[i]), fn' = fn
  PROVE  /\ plain' = updatestate(plain, src[i])
         /\ plain' \in 0 .. 8
         /\ state' \in IF fn'.shiftless THEN {16 * st : st \in 0 .. 8} ELSE 0 .. 8
         /\ state' = REJECT' <=> plain' = 1
         /\ state' = REJECT <=> plain' = 1
  <1> DEFINE u == updatestate(plain, src[i])
  <1>1. src[i] \in Byte
    BY DEF TypeOK, Strings
  <1>2. u \in 0 .. 8 /\ state' = IF fn.shiftless THEN 16 * u ELSE u
    BY <1>1, PlainStep
  <1> HIDE DEF u
  <1>3. (16 * u) \div 16 = u
    BY <1>2
  <1>4. plain' = u
    BY <1>2, <1>3 DEF plain
  <1>5. state' \in IF fn'.shiftless THEN {16 * st : st \in 0 .. 8} ELSE 0 .. 8
    BY <1>2
  <1>6. state' = REJECT' <=> plain' = 1
    BY <1>2, <1>4 DEF REJECT, UTF8_REJECT, SHIFTLESS_UTF8_REJECT
  <1>7. REJECT' = REJECT
    BY DEF REJECT
  <1> QED
    BY <1>2, <1>4, <1>5, <1>6, <1>7 DEF u

\* A byte more is known.
LEMMA ReadStep ==
  ASSUME TypeOK, Knows(plain, src, len, i), i < len
  PROVE  Knows(updatestate(plain, src[i]), src, len, i + 1)
  <1>1. len \in Nat /\ i \in 0 .. len - 1 /\ \A x \in 0 .. len - 1 : src[x] \in Byte
    BY DEF TypeOK, Strings
  <1> QED
    BY <1>1, KnowsStep

\* decode collects it.
LEMMA DecodeStep ==
  ASSUME TypeOK, pc = "loop", Reads, Decodes, i < len,
         updatestate(plain, src[i]) # UTF8_REJECT
  PROVE  Collected(shifted(plain, decoded.codep, src[i]),
                   Padded(src, len, i - 3), Padded(src, len, i - 2),
                   Padded(src, len, i - 1), Padded(src, len, i))
  <1> DEFINE P(x) == Padded(src, len, x)
  <1>1. /\ len \in Nat /\ i \in Nat /\ src \in Strings(len)
        /\ src[i] \in Byte /\ P(i) = src[i]
    BY DEF TypeOK, Strings, Padded
  <1>2. \A x \in Int : P(x) \in Byte /\ (x < 0 => P(x) = 0)
    BY <1>1, PaddedByte
  <1>3. plain \in (0 .. 8) \ {1}
    BY <1>1, RejectIsFinal DEF Reads, Knows, UTF8_REJECT
  <1>4. Means(plain, P(i - 3), P(i - 2), P(i - 1))
    BY <1>3 DEF Reads, Knows, UTF8_REJECT
  <1>5. LegalPrefix(src, len, i + 1)
    BY ReadStep DEF Reads, Knows
  <1>6. PrefixOK(src, len, i + 1) /\ P((i + 1) - 1) \notin {192, 193}
    BY <1>5 DEF LegalPrefix
  <1>7. src[i] \notin {192, 193}
    BY <1>1, <1>6
  <1>8. \A x \in Int : x < i + 1 => Follows(P(x - 3), P(x - 2), P(x - 1), P(x))
    BY <1>1, <1>6, EarlierWindow DEF WindowOK
  <1> HIDE DEF P
  <1>9. Follows(P(i - 3), P(i - 2), P(i - 1), P(i))
    BY <1>1, <1>8
  <1>10. Follows(P(i - 4), P(i - 3), P(i - 2), P(i - 1))
    <2>1. (i - 1) - 3 = i - 4 /\ (i - 1) - 2 = i - 3 /\ (i - 1) - 1 = i - 2
          /\ i - 1 \in Int /\ i - 1 < i + 1
      BY <1>1
    <2> QED
      BY <1>8, <2>1
  <1>11. Follows(P(i - 5), P(i - 4), P(i - 3), P(i - 2))
    <2>1. (i - 2) - 3 = i - 5 /\ (i - 2) - 2 = i - 4 /\ (i - 2) - 1 = i - 3
          /\ i - 2 \in Int /\ i - 2 < i + 1
      BY <1>1
    <2> QED
      BY <1>8, <2>1
  <1>12. P(i - 3) <= 244
    BY <1>1, <1>8 DEF Follows
  <1>13. Owed(P(i - 3), P(i - 2), P(i - 1)) =>
           Collected(decoded.codep, P(i - 4), P(i - 3), P(i - 2), P(i - 1))
    <2>1. CASE i = 0
      <3>1. P(i - 3) = 0 /\ P(i - 2) = 0 /\ P(i - 1) = 0
        BY <1>2, <2>1
      <3> QED
        BY <3>1 DEF Owed
    <2>2. CASE i > 0
      BY <1>3, <2>2 DEF Decodes, UTF8_REJECT, P
    <2> QED
      BY <1>1, <2>1, <2>2
  <1>14. /\ P(i - 5) \in Byte /\ P(i - 4) \in Byte /\ P(i - 3) \in Byte
         /\ P(i - 2) \in Byte /\ P(i - 1) \in Byte
    BY <1>1, <1>2
  <1>15. Collected(shifted(plain, decoded.codep, src[i]),
                   P(i - 3), P(i - 2), P(i - 1), P(i))
    <2> DEFINE b5 == P(i - 5)
               b4 == P(i - 4)
               b3 == P(i - 3)
               b2 == P(i - 2)
               b1 == P(i - 1)
               b == P(i)
    <2>1. /\ b5 \in Byte /\ b4 \in Byte /\ b3 \in Byte /\ b2 \in Byte
          /\ b1 \in Byte /\ b \in Byte /\ b = src[i]
      BY <1>1, <1>14
    <2>2. /\ Follows(b5, b4, b3, b2) /\ Follows(b4, b3, b2, b1) /\ Follows(b3, b2, b1, b)
          /\ b3 <= 244 /\ b \notin {192, 193}
      BY <1>1, <1>7, <1>9, <1>10, <1>11, <1>12
    <2>3. /\ Means(plain, b3, b2, b1)
          /\ Owed(b3, b2, b1) => Collected(decoded.codep, b4, b3, b2, b1)
      BY <1>4, <1>13
    <2> HIDE DEF b5, b4, b3, b2, b1, b
    <2>4. Collected(shifted(plain, decoded.codep, b), b3, b2, b1, b)
      BY <1>3, <2>1, <2>2, <2>3, CollectStep
    <2> QED
      BY <2>1, <2>4 DEF b3, b2, b1, b
  <1> QED
    BY <1>15 DEF P

LEMMA InitIInv == Init => IInv
  <1> SUFFICES ASSUME Init PROVE IInv
    OBVIOUS
  <1>1. len \in Nat /\ src \in Strings(len)
    BY InputsAssumption DEF Init
  <1>2. /\ fn \in [early : BOOLEAN, shiftless : BOOLEAN]
        /\ pc = "loop" /\ i = 0 /\ state = 0 /\ result \in BOOLEAN
        /\ decoded.state = 0
    BY DEF Init, UTF8_ACCEPT
  <1>3. TypeOK
    <2>1. 0 \in 0 .. len /\ 0 \in {16 * st : st \in 0 .. 8} /\ 0 \in 0 .. 8
      BY <1>1
    <2> QED
      BY <1>1, <1>2, <2>1 DEF TypeOK
  <1>4. plain = UTF8_ACCEPT /\ state # REJECT
    BY <1>2 DEF plain, REJECT, UTF8_ACCEPT, UTF8_REJECT, SHIFTLESS_UTF8_REJECT
  <1>5. Knows(plain, src, len, i)
    BY <1>2, <1>4, KnowsAtStart
  <1> QED
    BY <1>2, <1>3, <1>4, <1>5 DEF IInv, Reads, Decodes, Verdict

LEMMA NextIInv == IInv /\ [Next]_vars => IInv'
  <1> SUFFICES ASSUME IInv, [Next]_vars PROVE IInv'
    OBVIOUS
  <1>1. /\ len \in Nat /\ i \in 0 .. len /\ src \in Strings(len) /\ TypeOK
        /\ fn \in [early : BOOLEAN, shiftless : BOOLEAN]
        /\ Reads /\ Decodes
    BY DEF IInv, TypeOK
  <1>2. CASE Step
    <2>1. /\ pc = "loop" /\ i < len /\ pc' = "loop" /\ i' = i + 1
          /\ fn' = fn /\ src' = src /\ len' = len /\ result' = result
          /\ state' = update(src[i])
          /\ ~(fn.early /\ state' = REJECT)
          /\ decoded' = decodeNext(src[i])
      BY <1>2 DEF Step
    <2>2. i' - 1 = i /\ i' - 2 = i - 1 /\ i' - 3 = i - 2 /\ i' - 4 = i - 3
          /\ i' \in 0 .. len
      BY <1>1, <2>1
    <2>3. /\ plain' = updatestate(plain, src[i])
          /\ plain' \in 0 .. 8
          /\ state' \in IF fn'.shiftless THEN {16 * st : st \in 0 .. 8} ELSE 0 .. 8
          /\ state' = REJECT' <=> plain' = 1
          /\ state' = REJECT <=> plain' = 1
      BY <1>1, <2>1, StateStep
    <2>4. TypeOK'
      BY <1>1, <2>1, <2>2, <2>3 DEF TypeOK
    <2>5. Reads'
      <3>1. Knows(updatestate(plain, src[i]), src, len, i + 1)
        BY <1>1, <2>1, ReadStep DEF Reads
      <3> QED
        BY <2>1, <2>3, <3>1 DEF Reads
    <2>6. Decodes'
      <3>1. decoded.state = state /\ plain \in 0 .. 8
            /\ state = IF fn.shiftless THEN 16 * plain ELSE plain
        BY <1>1, <2>1, PlainState DEF Decodes
      <3>2. decoded'.state = state'
            /\ decoded'.codep = shifted(state, decoded.codep, src[i])
        BY <2>1, <3>1 DEF decodeNext, decode, shiftless_decode, update
      <3>3. state # UTF8_ACCEPT <=> plain # UTF8_ACCEPT
        BY <3>1 DEF UTF8_ACCEPT
      <3>4. shifted(state, decoded.codep, src[i]) = shifted(plain, decoded.codep, src[i])
        BY <3>3 DEF shifted
      <3>5. plain' # UTF8_REJECT =>
              Collected(decoded'.codep, Padded(src, len, i - 3), Padded(src, len, i - 2),
                        Padded(src, len, i - 1), Padded(src, len, i))
        BY <1>1, <2>1, <2>3, <3>2, <3>4, DecodeStep
      <3> QED
        BY <2>1, <2>2, <3>2, <3>5 DEF Decodes
    <2> QED
      BY <2>1, <2>3, <2>4, <2>5, <2>6 DEF IInv, Verdict
  <1>3. CASE Reject
    <2>1. /\ pc = "loop" /\ i < len /\ pc' = "done" /\ i' = i
          /\ fn' = fn /\ src' = src /\ len' = len /\ ~result' /\ result' \in BOOLEAN
          /\ state' = update(src[i]) /\ state' = REJECT
      BY <1>3 DEF Reject
    <2>2. /\ plain' = updatestate(plain, src[i])
          /\ state' \in IF fn'.shiftless THEN {16 * st : st \in 0 .. 8} ELSE 0 .. 8
          /\ state' = REJECT <=> plain' = 1
      BY <1>1, <2>1, StateStep
    <2>3. Knows(1, src, len, i + 1)
      BY <1>1, <2>1, <2>2, ReadStep DEF Reads
    <2>4. ~LegalPrefix(src, len, i + 1) /\ i + 1 \in Nat /\ i + 1 <= len
      BY <1>1, <2>1, <2>3 DEF Knows, UTF8_REJECT
    <2>5. ~LegalSoFar(len)
      BY <1>1, <2>4, LegalShrinks DEF LegalSoFar
    <2>6. TypeOK'
      BY <1>1, <2>1, <2>2 DEF TypeOK
    <2>7. Verdict'
      BY <2>1, <2>5 DEF Verdict, LegalSoFar
    <2> QED
      BY <2>1, <2>6, <2>7 DEF IInv, Reads, Decodes
  <1>4. CASE Return
    <2>1. /\ pc = "loop" /\ i = len /\ pc' = "done" /\ i' = i /\ state' = state
          /\ fn' = fn /\ src' = src /\ len' = len
          /\ result' = (fn.early \/ state # REJECT)
      BY <1>1, <1>4 DEF Return
    <2>2. state # REJECT <=> LegalSoFar(len)
      BY <1>1, <2>1, PlainState DEF Reads, Knows, LegalSoFar, UTF8_REJECT
    <2>3. result' \in BOOLEAN /\ (result' <=> LegalSoFar(len))
      BY <1>1, <2>1, <2>2 DEF IInv
    <2>4. TypeOK'
      BY <1>1, <2>1, <2>3 DEF TypeOK
    <2>5. Verdict'
      BY <2>1, <2>3 DEF Verdict, LegalSoFar
    <2> QED
      BY <2>1, <2>4, <2>5 DEF IInv, Reads, Decodes
  <1>5. CASE UNCHANGED vars
    BY <1>5 DEF vars, IInv, TypeOK, Reads, Decodes, Verdict, LegalSoFar, plain, REJECT
  <1> QED
    BY <1>2, <1>3, <1>4, <1>5 DEF Next

LEMMA SpecIInv == Spec => []IInv
  BY InitIInv, NextIInv, PTL DEF Spec, Safety

-----------------------------------------------------------------------------
(* The automaton, with either table, never leaves its nine states, so no   *)
(* look-up leaves the tables.                                              *)
THEOREM DfaTypeCorrect == Spec => []TypeOK
  <1>1. IInv => TypeOK
    BY DEF IInv
  <1> QED
    BY <1>1, SpecIInv, PTL

(* The state of the automaton is REJECT exactly after something illegal,   *)
(* and otherwise knows exactly what may come next.                         *)
THEOREM DfaStateIsExact == Spec => []StateIsExact
  <1>1. IInv => StateIsExact
    BY PlainState DEF IInv, Reads, Knows, StateIsExact, LegalSoFar, UTF8_REJECT
  <1> QED
    BY <1>1, SpecIInv, PTL

\* After a complete sequence what was collected is its code point.
LEMMA CompleteSequence ==
  ASSUME NEW n \in Nat, NEW s \in Strings(n), NEW q \in 0 .. n, NEW m \in 1 .. 4,
         m <= q, LegalAt(s, q - m, m), NEW c,
         Collected(c, Padded(s, n, q - 4), Padded(s, n, q - 3),
                   Padded(s, n, q - 2), Padded(s, n, q - 1))
  PROVE  c = CodePoint(s, q - m, m)
  <1> DEFINE p == q - m
  <1>1. p \in Nat /\ p + m <= n
    OBVIOUS
  <1>2. /\ s[p] \in Byte /\ ~Continuation(s[p])
        /\ (m >= 2 <=> s[p] >= 192)
        /\ (m >= 3 <=> s[p] >= 224)
        /\ (m = 4 <=> s[p] >= 240)
        /\ \A d \in 1 .. m - 1 : Continuation(s[p + d])
    BY <1>1, LegalShape
  <1>3. \A d \in 0 .. m - 1 : Padded(s, n, p + d) = s[p + d]
    BY <1>1 DEF Padded
  <1>4. s[p] \in Int
    BY <1>2 DEF Byte
  <1>5. CASE m = 1
    <2>1. p + 0 = q - 1
      BY <1>5
    <2>2. Padded(s, n, q - 1) = s[p]
      BY <1>3, <1>5, <2>1
    <2> HIDE DEF p
    <2>3. c = bits(s[p]) /\ bits(s[p]) = s[p]
      BY <1>2, <1>4, <1>5, <2>2 DEF Collected, bits, Continuation
    <2> QED
      BY <1>5, <2>3 DEF CodePoint, p
  <1>6. CASE m = 2
    <2>1. p = q - 2 /\ p + 1 = q - 1 /\ p + 0 = q - 2
      BY <1>6
    <2>2. Padded(s, n, q - 2) = s[p] /\ Padded(s, n, q - 1) = s[p + 1]
      BY <1>3, <1>6, <2>1
    <2> HIDE DEF p
    <2>3. Continuation(s[p + 1])
      BY <1>2, <1>6
    <2>4. c = (64 * bits(s[p])) + (s[p + 1] - 128)
      BY <1>2, <2>2, <2>3 DEF Collected
    <2>5. bits(s[p]) = s[p] - 192
      BY <1>2, <1>4, <1>6 DEF bits
    <2> QED
      BY <1>6, <2>4, <2>5 DEF CodePoint, p
  <1>7. CASE m = 3
    <2>1. p = q - 3 /\ p + 1 = q - 2 /\ p + 2 = q - 1 /\ p + 0 = q - 3
      BY <1>7
    <2>2. /\ Padded(s, n, q - 3) = s[p] /\ Padded(s, n, q - 2) = s[p + 1]
          /\ Padded(s, n, q - 1) = s[p + 2]
      BY <1>3, <1>7, <2>1
    <2> HIDE DEF p
    <2>3. Continuation(s[p + 1]) /\ Continuation(s[p + 2])
      BY <1>2, <1>7
    <2>4. c = (4096 * bits(s[p])) + (64 * (s[p + 1] - 128)) + (s[p + 2] - 128)
      BY <1>2, <2>2, <2>3 DEF Collected
    <2>5. bits(s[p]) = s[p] - 224
      BY <1>2, <1>4, <1>7 DEF bits
    <2> QED
      BY <1>7, <2>4, <2>5 DEF CodePoint, p
  <1>8. CASE m = 4
    <2>1. p = q - 4 /\ p + 1 = q - 3 /\ p + 2 = q - 2 /\ p + 3 = q - 1 /\ p + 0 = q - 4
      BY <1>8
    <2>2. /\ Padded(s, n, q - 4) = s[p] /\ Padded(s, n, q - 3) = s[p + 1]
          /\ Padded(s, n, q - 2) = s[p + 2] /\ Padded(s, n, q - 1) = s[p + 3]
      BY <1>3, <1>8, <2>1
    <2> HIDE DEF p
    <2>3. Continuation(s[p + 1]) /\ Continuation(s[p + 2]) /\ Continuation(s[p + 3])
      BY <1>2, <1>8
    <2>4. c = (262144 * bits(s[p])) + (4096 * (s[p + 1] - 128))
              + (64 * (s[p + 2] - 128)) + (s[p + 3] - 128)
      BY <1>2, <2>2, <2>3, SMT DEF Collected
    <2>5. bits(s[p]) = s[p] - 240
      BY <1>2, <1>4, <1>8 DEF bits
    <2> QED
      BY <1>8, <2>4, <2>5, SMT DEF CodePoint, p
  <1> QED
    BY <1>5, <1>6, <1>7, <1>8

(* decode goes through the same states, and whenever these accept has put  *)
(* together the code point of the sequence that has just ended, with       *)
(* either table: 24 bits of the unsigned int are enough for that.          *)
THEOREM DfaDecodesLastSequence == Spec => []DecodesLastSequence
  <1>1. IInv => DecodesLastSequence
    <2> SUFFICES ASSUME IInv, pc = "loop"
                 PROVE  /\ decoded.state = state
                        /\ state = UTF8_ACCEPT =>
                             \A n \in 1 .. 4 :
                               n <= i /\ LegalAt(src, i - n, n) =>
                                 decoded.codep = CodePoint(src, i - n, n)
      BY DEF DecodesLastSequence
    <2>1. decoded.state = state
      BY DEF IInv, Decodes
    <2>2. ASSUME state = UTF8_ACCEPT, NEW n \in 1 .. 4, n <= i, LegalAt(src, i - n, n)
          PROVE  decoded.codep = CodePoint(src, i - n, n)
      <3>1. /\ len \in Nat /\ src \in Strings(len) /\ i \in 0 .. len /\ i > 0
            /\ plain # UTF8_REJECT
        BY <2>2, PlainState DEF IInv, TypeOK, UTF8_ACCEPT, UTF8_REJECT
      <3>2. Collected(decoded.codep, Padded(src, len, i - 4), Padded(src, len, i - 3),
                      Padded(src, len, i - 2), Padded(src, len, i - 1))
        BY <3>1 DEF IInv, Decodes
      <3> QED
        BY <2>2, <3>1, <3>2, CompleteSequence
    <2> QED
      BY <2>1, <2>2
  <1> QED
    BY <1>1, SpecIInv, PTL

(* The four functions accept exactly the prefixes of legal sequences,      *)
(* those cut short by the end of the string included.                      *)
THEOREM DfaVerdictIsOfPrefix == Spec => []VerdictIsOfPrefix
  <1>1. IInv => VerdictIsOfPrefix
    BY DEF IInv, Verdict, VerdictIsOfPrefix
  <1> QED
    BY <1>1, SpecIInv, PTL

(* Given the terminating NUL as well, as tests/unit.c and the benchmark do,*)
(* they accept exactly the well-formed strings.                            *)
THEOREM DfaVerdictWithNul == Spec => []VerdictWithNul
  <1>1. IInv => VerdictWithNul
    <2> SUFFICES ASSUME IInv, pc = "done", len > 0, src[len - 1] = 0
                 PROVE  result <=> WellFormed(src, len - 1)
      BY DEF VerdictWithNul
    <2>1. result <=> LegalPrefix(src, len, len)
      BY DEF IInv, Verdict, LegalSoFar
    <2>2. len - 1 \in Nat /\ (len - 1) + 1 = len /\ src \in Strings(len)
      BY DEF IInv, TypeOK
    <2>3. LegalPrefix(src, len, len) <=> WellFormed(src, len - 1)
      BY <2>2, NulPads
    <2> QED
      BY <2>1, <2>3
  <1> QED
    BY <1>1, SpecIInv, PTL
=============================================================================
