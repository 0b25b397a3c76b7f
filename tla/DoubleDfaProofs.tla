-------------------------- MODULE DoubleDfaProofs --------------------------
(***************************************************************************)
(* Proofs about the two automata side by side, for all strings and widths: *)
(* what the first has read and what the second has, in spite of the int    *)
(* that counts the last loop, and hence what the answer means.             *)
(***************************************************************************)
EXTENDS DoubleDfa, Utf8Proofs

\* A number, and a difference, that wraps at most once.
LEMMA ModOnce ==
  ASSUME NEW M \in Nat \ {0}, NEW x \in Int, - M <= x, x < M
  PROVE  /\ x < 0 => x % M = x + M
         /\ 0 <= x => x % M = x
  OBVIOUS

LEMMA ModIsLess ==
  ASSUME NEW M \in Nat \ {0}, NEW x \in Nat
  PROVE  x % M \in 0 .. M - 1 /\ x % M <= x
  OBVIOUS

LEMMA Widths ==
  /\ SizeMod \in Nat \ {0} /\ IntMod \in Nat \ {0} /\ INT_MAX \in Nat
  /\ IntMod \div 2 = INT_MAX + 1 /\ IntMod = 2 * (INT_MAX + 1)
  /\ SizeMod \div 2 \in Nat /\ SizeMod = 2 * (SizeMod \div 2)
  /\ INT_MAX + 1 <= SizeMod \div 2
  BY WidthsAssumption DEF INT_MAX

\* The start of the last loop, as an int.
LEMMA ToInt ==
  ASSUME NEW n \in Nat
  PROVE  /\ toInt(n) \in - (INT_MAX + 1) .. INT_MAX
         /\ toInt(n) <= n
         /\ n <= INT_MAX => toInt(n) = n
         /\ n \in INT_MAX + 1 .. IntMod - 1 => toInt(n) < 0
  <1>1. /\ IntMod \in Nat \ {0} /\ INT_MAX \in Nat /\ IntMod = 2 * (INT_MAX + 1)
    BY Widths
  <1> DEFINE m == n % IntMod
  <1>2. m \in 0 .. IntMod - 1 /\ m <= n
    BY <1>1, ModIsLess
  <1>3. n < IntMod => m = n
    BY <1>1, ModOnce
  <1>4. toInt(n) = IF m <= INT_MAX THEN m ELSE m - IntMod
    BY DEF toInt
  <1> HIDE DEF m
  <1> QED
    BY <1>1, <1>2, <1>3, <1>4

\* A negative int compares as a number larger than any length.
LEMMA Below ==
  ASSUME NEW n \in 1 .. SizeMod \div 2, NEW q \in Int
  PROVE  /\ q \in 0 .. n => (below(q, n) <=> q < n)
         /\ q \in - (INT_MAX + 1) .. -1 => ~below(q, n)
  <1>1. /\ SizeMod \in Nat \ {0} /\ INT_MAX \in Nat
        /\ SizeMod \div 2 \in Nat /\ SizeMod = 2 * (SizeMod \div 2)
        /\ INT_MAX + 1 <= SizeMod \div 2
    BY Widths
  <1> DEFINE H == SizeMod \div 2
  <1>2. q \in 0 .. n => q % SizeMod = q
    BY <1>1, ModOnce
  <1>3. q \in - (INT_MAX + 1) .. -1 => q % SizeMod = q + SizeMod
    BY <1>1, ModOnce
  <1>4. q \in - (INT_MAX + 1) .. -1 => q + SizeMod >= n
    BY <1>1
  <1>5. q + SizeMod \in Int /\ n \in Int
    BY <1>1
  <1> QED
    BY <1>2, <1>3, <1>4, <1>5 DEF below

-----------------------------------------------------------------------------
(***************************************************************************)
(* One automaton, multiplied or not.                                       *)
(***************************************************************************)

States == IF shiftless THEN {16 * st : st \in 0 .. 8} ELSE 0 .. 8

plain(st) == IF shiftless THEN st \div 16 ELSE st

LEMMA PlainStep ==
  ASSUME NEW st \in States, NEW b \in Byte
  PROVE  /\ update(st, b) \in States
         /\ plain(update(st, b)) = updatestate(plain(st), b)
  <1>1. CASE shiftless
    <2>1. PICK x \in 0 .. 8 : st = 16 * x
      BY <1>1 DEF States
    <2>2. plain(st) = x
      BY <1>1, <2>1 DEF plain
    <2>3. /\ updatestate(x, b) \in 0 .. 8
          /\ update(st, b) = 16 * updatestate(x, b)
      BY <1>1, <2>1, ShiftlessUpdate DEF update
    <2> DEFINE u == updatestate(x, b)
    <2>4. u \in 0 .. 8 /\ update(st, b) = 16 * u
      BY <2>3
    <2> HIDE DEF u
    <2>5. (16 * u) \div 16 = u
      BY <2>4
    <2> QED
      BY <1>1, <2>2, <2>4, <2>5 DEF plain, States, u
  <1>2. CASE ~shiftless
    <2>1. st \in 0 .. 8 /\ plain(st) = st
      BY <1>2 DEF States, plain
    <2>2. updatestate(st, b) \in 0 .. 8
      BY <2>1, ShiftlessUpdate
    <2> QED
      BY <1>2, <2>1, <2>2 DEF States, plain, update
  <1> QED
    BY <1>1, <1>2

LEMMA PlainReject ==
  ASSUME NEW st \in States
  PROVE  st = REJECT <=> plain(st) = UTF8_REJECT
  BY DEF States, plain, REJECT, UTF8_REJECT, SHIFTLESS_UTF8_REJECT

LEMMA PlainStart == UTF8_ACCEPT \in States /\ plain(UTF8_ACCEPT) = UTF8_ACCEPT
  <1>1. 0 \in 0 .. 8 /\ 0 = 16 * 0 /\ 0 \div 16 = 0
    OBVIOUS
  <1> QED
    BY <1>1 DEF States, plain, UTF8_ACCEPT

-----------------------------------------------------------------------------
(***************************************************************************)
(* The inductive invariant.                                                *)
(***************************************************************************)

\* Whether the last loop starts where the other one has stopped; otherwise, up
\* to 2^32, it does not start at all.
Counted == half * 2 <= INT_MAX
Missed == half * 2 > INT_MAX /\ half * 2 < IntMod

\* Where the counters are.
Counters ==
  /\ half * 2 <= len
  /\ pc = "split" => i = 0 /\ s1 = UTF8_ACCEPT /\ s2 = UTF8_ACCEPT
  /\ pc # "split" => ~backOff
  /\ pc \in {"rest", "done"} =>
       /\ i = half
       /\ j \in 0 .. len \/ j \in - (INT_MAX + 1) .. -1
       /\ Counted => j >= half * 2 \/ (j < 0 /\ len > INT_MAX)
       /\ Missed => j < 0
  /\ pc = "done" => j = len \/ j < 0

\* The bytes the second automaton has read, if it has not read some twice.
taken ==
  IF pc \in {"split", "both"} THEN i
  ELSE IF Missed THEN half ELSE IF j < 0 THEN INT_MAX + 1 - half ELSE j - half

\* What the states know.
Reads ==
  /\ s1 \in States /\ s2 \in States
  /\ Knows(plain(s1), src, half, i)
  /\ pc \in {"split", "both"} \/ Counted \/ Missed =>
       Knows(plain(s2), from(half), len - half, taken)

Verdict == pc = "done" => (result <=> s1 # REJECT /\ s2 # REJECT)

IInv == TypeOK /\ Counters /\ Reads /\ Verdict

\* What TypeOK says, for the provers.
LEMMA Types ==
  ASSUME TypeOK
  PROVE  /\ len \in Nat /\ len >= 1 /\ len \in 1 .. SizeMod \div 2
         /\ src \in Strings(len) /\ half \in Nat /\ half < len /\ i \in Nat /\ i <= half
         /\ \A x \in 0 .. len - 1 : src[x] \in Byte
  <1>1. SizeMod \div 2 \in Nat
    BY Widths
  <1> QED
    BY <1>1 DEF TypeOK, Strings

\* One byte more for the first automaton.
LEMMA FirstStep ==
  ASSUME TypeOK, s1 \in States, Knows(plain(s1), src, half, i), i < half
  PROVE  /\ update(s1, src[i]) \in States
         /\ Knows(plain(update(s1, src[i])), src, half, i + 1)
  <1>1. /\ half \in Nat /\ i \in 0 .. half - 1 /\ \A x \in 0 .. half - 1 : src[x] \in Byte
    BY Types
  <1>2. Knows(updatestate(plain(s1), src[i]), src, half, i + 1)
    BY <1>1, KnowsStep
  <1> QED
    BY <1>1, <1>2, PlainStep

\* One byte more for the second.
LEMMA SecondStep ==
  ASSUME TypeOK, s2 \in States, NEW k \in Nat, half + k < len
  PROVE  /\ update(s2, src[half + k]) \in States
         /\ Knows(plain(s2), from(half), len - half, k) =>
              Knows(plain(update(s2, src[half + k])), from(half), len - half, k + 1)
  <1>1. /\ len - half \in Nat /\ k \in 0 .. len - half - 1
        /\ src[half + k] \in Byte
        /\ from(half)[k] = src[half + k]
        /\ \A x \in 0 .. len - half - 1 : from(half)[x] \in Byte
    BY Types DEF from
  <1>2. Knows(plain(s2), from(half), len - half, k) =>
          Knows(updatestate(plain(s2), src[half + k]), from(half), len - half, k + 1)
    BY <1>1, KnowsStep
  <1> QED
    BY <1>1, <1>2, PlainStep

LEMMA InitIInv == Init => IInv
  <1> SUFFICES ASSUME Init PROVE IInv
    OBVIOUS
  <1>1. len \in 1 .. SizeMod \div 2 /\ src \in Strings(len) /\ SizeMod \div 2 \in Nat
    BY InputsAssumption, Widths DEF Init
  <1>2. half \in 0 .. len - 1 /\ half * 2 <= len
    BY <1>1 DEF Init, middle
  <1>3. /\ shiftless \in BOOLEAN /\ pc = "split" /\ i = 0 /\ j = 0
        /\ s1 = UTF8_ACCEPT /\ s2 = UTF8_ACCEPT /\ result \in BOOLEAN
    BY DEF Init
  <1>4. TypeOK
    BY <1>1, <1>2, <1>3 DEF TypeOK
  <1>5. Counters
    BY <1>2, <1>3 DEF Counters
  <1>6. Reads
    BY <1>3, PlainStart, KnowsAtStart DEF Reads, taken
  <1> QED
    BY <1>3, <1>4, <1>5, <1>6 DEF IInv, Verdict

LEMMA NextIInv == IInv /\ [Next]_vars => IInv'
  <1> SUFFICES ASSUME IInv, [Next]_vars PROVE IInv'
    OBVIOUS
  <1>1. /\ TypeOK /\ Counters /\ Reads
        /\ len \in Nat /\ len \in 1 .. SizeMod \div 2 /\ src \in Strings(len)
        /\ half \in Nat /\ half < len /\ i \in Nat /\ i <= half /\ half * 2 <= len
        /\ s1 \in States /\ s2 \in States
        /\ shiftless \in BOOLEAN /\ result \in BOOLEAN
    BY Types DEF IInv, TypeOK, Counters, Reads
  <1>2. /\ INT_MAX \in Nat /\ IntMod \div 2 = INT_MAX + 1 /\ IntMod = 2 * (INT_MAX + 1)
    BY Widths
  <1>3. CASE BackOff
    <2>1. /\ pc = "split" /\ pc' = "split" /\ half > 0 /\ half' = half - 1
          /\ shiftless' = shiftless /\ src' = src /\ len' = len /\ i' = i /\ j' = j
          /\ s1' = s1 /\ s2' = s2 /\ result' = result
          /\ i = 0 /\ s1 = UTF8_ACCEPT /\ s2 = UTF8_ACCEPT
      BY <1>1, <1>3 DEF BackOff, backOff, Counters
    <2>2. half' \in 0 .. len - 1 /\ half' * 2 <= len
      BY <1>1, <2>1
    <2>3. TypeOK'
      BY <1>1, <2>1, <2>2 DEF TypeOK
    <2>4. Counters'
      BY <2>1, <2>2 DEF Counters
    <2>5. /\ States' = States /\ plain(s1)' = UTF8_ACCEPT /\ plain(s2)' = UTF8_ACCEPT
          /\ taken' = 0 /\ i' = 0
      BY <2>1, PlainStart DEF States, plain, taken
    <2>6. /\ Knows(plain(s1)', src', half', i')
          /\ Knows(plain(s2)', from(half)', len' - half', taken')
      BY <2>5, KnowsAtStart
    <2>7. Reads'
      BY <1>1, <2>1, <2>5, <2>6 DEF Reads
    <2> QED
      BY <2>1, <2>3, <2>4, <2>7 DEF IInv, Verdict
  <1>4. CASE Split
    <2>1. /\ pc = "split" /\ pc' = "both" /\ j' = half /\ ~backOff
          /\ shiftless' = shiftless /\ src' = src /\ len' = len /\ half' = half
          /\ i' = i /\ i = 0
          /\ s1' = s1 /\ s2' = s2 /\ result' = result
      BY <1>1, <1>4 DEF Split, Counters
    <2>2. TypeOK'
      BY <1>1, <2>1 DEF TypeOK
    <2>3. Counters'
      BY <1>1, <2>1 DEF Counters, backOff
    <2>4. Reads'
      BY <1>1, <2>1 DEF Reads, States, plain, taken, from
    <2> QED
      BY <2>1, <2>2, <2>3, <2>4 DEF IInv, Verdict
  <1>5. CASE StepBoth
    <2>1. /\ pc = "both" /\ pc' = "both" /\ i < half /\ i' = i + 1 /\ j' = j + 1
          /\ shiftless' = shiftless /\ src' = src /\ len' = len /\ half' = half
          /\ s1' = update(s1, src[i]) /\ s2' = update(s2, src[j])
          /\ result' = result /\ j = half + i
      BY <1>1, <1>5 DEF StepBoth, TypeOK
    <2>2. TypeOK'
      BY <1>1, <2>1 DEF TypeOK
    <2>3. Counters'
      BY <1>1, <2>1 DEF Counters, backOff
    <2>4. Knows(plain(s1), src, half, i) /\ Knows(plain(s2), from(half), len - half, i)
      BY <1>1, <2>1 DEF Reads, taken
    <2>5. half + i < len
      BY <1>1, <2>1
    <2>6. s1' \in States /\ Knows(plain(s1'), src, half, i + 1)
      BY <1>1, <2>1, <2>4, FirstStep
    <2>7. s2' \in States /\ Knows(plain(s2'), from(half), len - half, i + 1)
      BY <1>1, <2>1, <2>4, <2>5, SecondStep
    <2>8. /\ States' = States /\ plain(s1)' = plain(s1') /\ plain(s2)' = plain(s2')
          /\ from(half)' = from(half) /\ taken' = i'
      BY <2>1 DEF States, plain, from, taken
    <2>9. Reads'
      BY <2>1, <2>6, <2>7, <2>8 DEF Reads
    <2> QED
      BY <2>1, <2>2, <2>3, <2>9 DEF IInv, Verdict
  <1>6. CASE EndBoth
    <2>1. /\ pc = "both" /\ pc' = "rest" /\ i = half /\ j' = toInt(half * 2)
          /\ shiftless' = shiftless /\ src' = src /\ len' = len /\ half' = half
          /\ i' = i /\ s1' = s1 /\ s2' = s2 /\ result' = result
      BY <1>1, <1>6 DEF EndBoth
    <2>2. /\ j' \in - (INT_MAX + 1) .. INT_MAX /\ j' <= half * 2
          /\ Counted => j' = half * 2
          /\ Missed => j' < 0
      <3>1. half * 2 \in Nat
        BY <1>1
      <3> QED
        BY <1>2, <2>1, <3>1, ToInt DEF Counted, Missed
    <2>3. j' \in 0 .. len \/ j' \in - (INT_MAX + 1) .. -1
      BY <1>1, <1>2, <2>2
    <2>4. Counted' = Counted /\ Missed' = Missed
      BY <2>1 DEF Counted, Missed, INT_MAX
    <2>5. IF below(j', len) THEN j' \in 0 .. len - 1
          ELSE j' = len \/ j' \in - (IntMod \div 2) .. -1
      BY <1>1, <1>2, <2>3, Below
    <2>6. TypeOK'
      BY <1>1, <2>1, <2>5 DEF TypeOK, below
    <2>7. Counters'
      BY <1>1, <2>1, <2>2, <2>3, <2>4 DEF Counters, backOff, INT_MAX
    <2>8. /\ States' = States /\ plain(s1)' = plain(s1) /\ plain(s2)' = plain(s2)
          /\ from(half)' = from(half)
      BY <2>1 DEF States, plain, from
    <2>9. Counted \/ Missed => taken' = i
      <3>1. taken' = IF Missed' THEN half' ELSE IF j' < 0 THEN INT_MAX + 1 - half' ELSE j' - half'
        BY <2>1 DEF taken, INT_MAX
      <3>2. ASSUME Counted PROVE taken' = i
        <4>1. ~Missed /\ j' = half * 2
          BY <1>1, <1>2, <2>2, <3>2 DEF Counted, Missed
        <4> QED
          BY <1>1, <2>1, <2>4, <3>1, <4>1
      <3> QED
        BY <2>1, <2>4, <3>1, <3>2
    <2>10. Knows(plain(s1), src, half, i) /\ Knows(plain(s2), from(half), len - half, i)
      BY <1>1, <2>1 DEF Reads, taken
    <2>11. Reads'
      BY <1>1, <2>1, <2>4, <2>8, <2>9, <2>10 DEF Reads
    <2> QED
      BY <2>1, <2>6, <2>7, <2>11 DEF IInv, Verdict
  <1>7. CASE StepRest
    <2>1. /\ pc = "rest" /\ pc' = "rest" /\ below(j, len)
          /\ shiftless' = shiftless /\ src' = src /\ len' = len /\ half' = half
          /\ i' = i /\ i = half /\ s1' = s1 /\ s2' = update(s2, src[j]) /\ result' = result
          /\ j' \in successors(j)
      BY <1>1, <1>7 DEF StepRest, Counters
    <2>2. j \in 0 .. len - 1
      BY <1>1, <2>1 DEF TypeOK
    <2>3. j' = j + 1 \/ (j = INT_MAX /\ j' = - (INT_MAX + 1))
      <3>1. INT_MAX + 1 - IntMod = - (INT_MAX + 1)
        BY <1>2
      <3> QED
        BY <2>1, <2>2, <3>1 DEF successors
    <2>4. j' \in 0 .. len \/ j' \in - (INT_MAX + 1) .. -1
      BY <1>1, <1>2, <2>2, <2>3
    <2>5. Counted' = Counted /\ Missed' = Missed
      BY <2>1 DEF Counted, Missed, INT_MAX
    <2>6. IF below(j', len) THEN j' \in 0 .. len - 1
          ELSE j' = len \/ j' \in - (IntMod \div 2) .. -1
      BY <1>1, <1>2, <2>4, Below
    <2>7. TypeOK'
      BY <1>1, <2>1, <2>6 DEF TypeOK, below
    <2>8. ~Missed
      BY <1>1, <2>1, <2>2 DEF Counters
    <2>9. Counted => j >= half * 2
      BY <1>1, <2>1, <2>2 DEF Counters
    <2>10. Counted => j' >= half * 2 \/ (j' < 0 /\ len > INT_MAX)
      BY <1>1, <1>2, <2>2, <2>3, <2>9
    <2>11. Counters'
      BY <1>1, <2>1, <2>4, <2>5, <2>8, <2>10 DEF Counters, backOff, INT_MAX
    <2>12. /\ States' = States /\ plain(s1)' = plain(s1) /\ plain(s2)' = plain(s2')
           /\ from(half)' = from(half)
      BY <2>1 DEF States, plain, from
    <2>13. update(s2, src[j]) \in States
      <3>1. src[j] \in Byte
        BY <1>1, <2>2, Types
      <3> QED
        BY <1>1, <3>1, PlainStep
    <2>14. ASSUME Counted
           PROVE  Knows(plain(s2'), from(half), len - half, taken')
      <3> DEFINE k == j - half
      <3>1. k \in Nat /\ half + k = j /\ half + k < len
        BY <1>1, <2>2, <2>9, <2>14
      <3>2. taken = k
        BY <2>1, <2>2, <2>8 DEF taken
      <3>3. taken' = IF Missed' THEN half' ELSE IF j' < 0 THEN INT_MAX + 1 - half' ELSE j' - half'
        BY <2>1 DEF taken, INT_MAX
      <3>4. taken' = k + 1
        BY <1>1, <1>2, <2>1, <2>2, <2>3, <2>5, <2>8, <3>3
      <3>5. Knows(plain(s2), from(half), len - half, k)
        BY <1>1, <2>14, <3>2 DEF Reads
      <3> HIDE DEF k
      <3> QED
        BY <1>1, <2>1, <3>1, <3>4, <3>5, SecondStep
    <2>15. Reads'
      BY <1>1, <2>1, <2>5, <2>8, <2>12, <2>13, <2>14 DEF Reads
    <2> QED
      BY <2>1, <2>7, <2>11, <2>15 DEF IInv, Verdict
  <1>8. CASE Return
    <2>1. /\ pc = "rest" /\ pc' = "done" /\ ~below(j, len)
          /\ result' = (s1 # REJECT /\ s2 # REJECT)
          /\ shiftless' = shiftless /\ src' = src /\ len' = len /\ half' = half
          /\ i' = i /\ j' = j /\ s1' = s1 /\ s2' = s2
      BY <1>8 DEF Return
    <2>2. j = len \/ j < 0
      BY <1>1, <1>2, <2>1 DEF TypeOK
    <2>3. TypeOK'
      BY <1>1, <2>1 DEF TypeOK
    <2>4. Counted' = Counted /\ Missed' = Missed /\ taken' = taken
      BY <2>1 DEF Counted, Missed, INT_MAX, taken
    <2>5. Counters'
      BY <1>1, <2>1, <2>2, <2>4 DEF Counters, backOff, INT_MAX
    <2>6. Reads'
      BY <1>1, <2>1, <2>4 DEF Reads, States, plain, from
    <2>7. Verdict'
      BY <2>1 DEF Verdict, REJECT
    <2> QED
      BY <2>3, <2>5, <2>6, <2>7 DEF IInv
  <1>9. CASE UNCHANGED vars
    <2>1. /\ TypeOK' /\ Counters' /\ Verdict'
      BY <1>1, <1>9 DEF vars, IInv, TypeOK, Counters, Verdict, backOff, Counted, Missed,
                        INT_MAX, below, REJECT
    <2>2. Reads'
      BY <1>1, <1>9 DEF vars, Reads, States, plain, from, taken, Counted, Missed, INT_MAX
    <2> QED
      BY <2>1, <2>2 DEF IInv
  <1> QED
    BY <1>3, <1>4, <1>5, <1>6, <1>7, <1>8, <1>9 DEF Next

LEMMA SpecIInv == Spec => []IInv
  BY InitIInv, NextIInv, PTL DEF Spec

-----------------------------------------------------------------------------
\* What the answer means, by what the second automaton has read.
LEMMA AnswerMeans ==
  ASSUME IInv, pc = "done", Counted \/ Missed
  PROVE  /\ result <=> HalvesLegal(taken)
         /\ Missed => taken = half
         /\ len <= INT_MAX => taken = len - half
         /\ taken \in 0 .. len - half
  <1>1. /\ len \in Nat /\ half \in Nat /\ half < len /\ i = half /\ half * 2 <= len
        /\ s1 \in States /\ s2 \in States /\ INT_MAX \in Nat /\ IntMod = 2 * (INT_MAX + 1)
    BY Types, Widths DEF IInv, Reads, Counters
  <1>2. /\ Knows(plain(s1), src, half, half)
        /\ Knows(plain(s2), from(half), len - half, taken)
    BY <1>1 DEF IInv, Reads
  <1>3. /\ s1 # REJECT <=> LegalPrefix(src, half, half)
        /\ s2 # REJECT <=> LegalPrefix(from(half), len - half, taken)
    BY <1>1, <1>2, PlainReject DEF Knows
  <1>4. result <=> HalvesLegal(taken)
    BY <1>3 DEF IInv, Verdict, HalvesLegal
  <1>5. /\ taken = IF Missed THEN half ELSE IF j < 0 THEN INT_MAX + 1 - half ELSE j - half
        /\ j = len \/ j < 0
        /\ Counted => j >= half * 2 \/ (j < 0 /\ len > INT_MAX)
        /\ j \in Int
    BY DEF IInv, Counters, taken
  <1>6. /\ Counted <=> half * 2 <= INT_MAX
        /\ Missed <=> half * 2 > INT_MAX /\ half * 2 < IntMod
    BY DEF Counted, Missed
  <1>7. Missed => taken = half
    BY <1>5
  <1>8. len <= INT_MAX => taken = len - half
    BY <1>1, <1>5, <1>6
  <1>9. taken \in 0 .. len - half
    BY <1>1, <1>5, <1>6
  <1> QED
    BY <1>4, <1>7, <1>8, <1>9

\* Every prefix of a part of a well-formed string is legal.
LEMMA PartsAreLegal ==
  ASSUME NEW n \in Nat, NEW s \in Strings(n), WellFormed(s, n),
         NEW h \in 0 .. n - 1, ~Continuation(s[h]), NEW q \in 0 .. n - h
  PROVE  /\ LegalPrefix(s, h, h)
         /\ LegalPrefix([x \in 0 .. n - h - 1 |-> s[h + x]], n - h, q)
  <1> DEFINE r == [x \in 0 .. n - h - 1 |-> s[h + x]]
             t == [x \in 0 .. h - 1 |-> s[x]]
  <1>1. WellFormed(s, h) /\ WellFormed(r, n - h)
    BY SplitWellFormed
  <1>2. t \in Strings(h) /\ r \in Strings(n - h)
    BY DEF Strings
  <1>3. \A x \in 0 .. h - 1 : s[x] = t[x]
    OBVIOUS
  <1> HIDE DEF r, t
  <1>4. WellFormed(t, h)
    BY <1>1, <1>3, SameBytes
  <1>5. LegalPrefix(t, h, h)
    BY <1>2, <1>4, WellFormedIsLegal
  <1>6. LegalPrefix(s, h, h)
    BY <1>3, <1>5, SameWindows
  <1>7. LegalPrefix(r, n - h, q)
    BY <1>1, <1>2, WellFormedIsLegal
  <1> QED
    BY <1>6, <1>7 DEF r

(* Every byte read is inside the string, for every length and width: a     *)
(* negative int reads nothing, and both counters stop at the end.          *)
THEOREM DoubleTypeCorrect == Spec => []TypeOK
  <1>1. IInv => TypeOK
    BY DEF IInv
  <1> QED
    BY <1>1, SpecIInv, PTL

(* The answer is whether both halves are prefixes of legal sequences, each *)
(* by itself; of a string too long for the int, whether the first half and *)
(* as many bytes of the second are.                                        *)
THEOREM DoubleVerdictIsOfHalves == Spec => []VerdictIsOfHalves
  <1>1. IInv => VerdictIsOfHalves
    <2> SUFFICES ASSUME IInv, pc = "done"
                 PROVE  /\ len <= INT_MAX => (result <=> HalvesLegal(len - half))
                        /\ half * 2 \in INT_MAX + 1 .. IntMod - 1 =>
                             (result <=> HalvesLegal(half))
      BY DEF VerdictIsOfHalves
    <2>1. /\ len \in Nat /\ half \in Nat /\ half * 2 <= len
          /\ INT_MAX \in Nat /\ IntMod \in Nat
      BY Types, Widths DEF IInv, Counters
    <2>2. ASSUME len <= INT_MAX PROVE result <=> HalvesLegal(len - half)
      <3>1. Counted
        BY <2>1, <2>2 DEF Counted
      <3> QED
        BY <2>2, <3>1, AnswerMeans
    <2>3. ASSUME half * 2 \in INT_MAX + 1 .. IntMod - 1
          PROVE  result <=> HalvesLegal(half)
      <3>1. Missed
        BY <2>1, <2>3 DEF Missed
      <3> QED
        BY <3>1, AnswerMeans
    <2> QED
      BY <2>2, <2>3
  <1> QED
    BY <1>1, SpecIInv, PTL

(* A well-formed string of less than 2^32 bytes is accepted, unless it is  *)
(* split at a byte 80: also where the int wraps in the middle of the loop. *)
THEOREM DoubleNoFalseAlarm == Spec => []NoFalseAlarm
  <1>1. IInv => NoFalseAlarm
    <2> SUFFICES ASSUME IInv, pc = "done", len < IntMod, WellFormed(src, len),
                        src[half] # 128
                 PROVE  result
      BY DEF NoFalseAlarm
    <2>1. /\ len \in Nat /\ half \in 0 .. len - 1 /\ half * 2 <= len
          /\ INT_MAX \in Nat /\ IntMod \in Nat /\ src \in Strings(len)
          /\ src[half] \in Byte /\ ~backOff
      BY Types, Widths DEF IInv, Counters
    <2>2. Counted \/ Missed
      BY <2>1 DEF Counted, Missed
    <2>3. ~Continuation(src[half])
      <3>1. CASE half = 0
        <4>1. PICK n \in 1 .. 4, p \in 0 .. 0 :
                0 < p + n /\ p + n <= len /\ LegalAt(src, p, n)
          BY <2>1, <3>1 DEF WellFormed
        <4>2. p = 0 /\ p \in Nat
          OBVIOUS
        <4> QED
          BY <2>1, <3>1, <4>1, <4>2, LegalShape
      <3>2. CASE half > 0
        BY <2>1, <3>2 DEF backOff, Continuation, Byte
      <3> QED
        BY <2>1, <3>1, <3>2
    <2>4. taken \in 0 .. len - half /\ (result <=> HalvesLegal(taken))
      BY <2>2, AnswerMeans
    <2>5. HalvesLegal(taken)
      BY <2>1, <2>3, <2>4, PartsAreLegal DEF HalvesLegal, from
    <2> QED
      BY <2>4, <2>5
  <1> QED
    BY <1>1, SpecIInv, PTL
=============================================================================
