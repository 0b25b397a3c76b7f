---------------------------- MODULE GuavaProofs ----------------------------
(***************************************************************************)
(* Proofs about the sequential validator of the benchmark, for all         *)
(* strings: but for ASCII in the place of continuation bytes it is right.  *)
(***************************************************************************)
EXTENDS GuavaValidator, Utf8Proofs

\* No ASCII where a continuation byte is owed.
Trailing == \A q \in 0 .. len - 1 : OwedAt(q) => src[q] >= 128

\* In such a string, what has been skipped is a sequence of legal sequences.
Skipped == pc = "loop" => WellFormed(src, index)

Verdict == pc = "done" => (result <=> WellFormed(src, len))

IInv == TypeOK /\ (Trailing => Skipped /\ Verdict)

-----------------------------------------------------------------------------
\* Legal sequences that fill the first i bytes leave no room for one that goes
\* across.
LEMMA Boundary ==
  ASSUME NEW n \in Nat, NEW s \in Strings(n), NEW i \in 0 .. n, WellFormed(s, i),
         NEW m \in 1 .. 4, NEW p \in 0 .. i - 1, p + m <= n, LegalAt(s, p, m)
  PROVE  p + m <= i
  <1>1. PICK m2 \in 1 .. 4, p2 \in 0 .. p : p < p2 + m2 /\ p2 + m2 <= i /\ LegalAt(s, p2, m2)
    BY DEF WellFormed
  <1>2. /\ ~Continuation(s[p])
        /\ (m >= 2 <=> s[p] >= 192)
        /\ (m >= 3 <=> s[p] >= 224)
        /\ (m = 4 <=> s[p] >= 240)
    BY LegalShape
  <1>3. p2 \in Nat /\ p2 + m2 <= n
    BY <1>1
  <1>4. p2 = p
    <2> SUFFICES ASSUME p2 # p PROVE FALSE
      OBVIOUS
    <2>1. p - p2 \in 1 .. m2 - 1 /\ p2 + (p - p2) = p
      BY <1>1
    <2>2. \A d \in 1 .. m2 - 1 : Continuation(s[p2 + d])
      BY <1>1, <1>3, LegalShape
    <2>3. Continuation(s[p])
      BY <2>1, <2>2
    <2> QED
      BY <1>2, <2>3
  <1>5. /\ (m2 >= 2 <=> s[p] >= 192)
        /\ (m2 >= 3 <=> s[p] >= 224)
        /\ (m2 = 4 <=> s[p] >= 240)
    BY <1>1, <1>3, <1>4, LegalShape
  <1>6. m2 = m
    BY <1>2, <1>5
  <1> QED
    BY <1>1, <1>4, <1>6

\* So in a well-formed string the next sequence starts there.
LEMMA NextStarts ==
  ASSUME NEW n \in Nat, NEW s \in Strings(n), WellFormed(s, n),
         NEW i \in 0 .. n - 1, WellFormed(s, i)
  PROVE  \E m \in 1 .. 4 : i + m <= n /\ LegalAt(s, i, m)
  <1>1. PICK m \in 1 .. 4, p \in 0 .. i : i < p + m /\ p + m <= n /\ LegalAt(s, p, m)
    BY DEF WellFormed
  <1>2. p = i
    <2> SUFFICES ASSUME p # i PROVE FALSE
      OBVIOUS
    <2>1. p \in 0 .. i - 1
      BY <1>1
    <2>2. p + m <= i
      BY <1>1, <2>1, Boundary
    <2> QED
      BY <1>1, <2>2
  <1> QED
    BY <1>1, <1>2

LEMMA ModOnce ==
  ASSUME NEW M \in Nat \ {0}, NEW x \in Int, - M <= x, x < 0
  PROVE  x % M = x + M
  OBVIOUS

\* The test of the plane is the one the comment gives for it.
LEMMA Plane ==
  ASSUME byte1 \in 240 .. 255, byte2 \in Byte
  PROVE  badPlane <=> \/ byte1 > 244
                      \/ byte1 = 240 /\ byte2 < 144
                      \/ byte1 = 244 /\ byte2 > 143
  <1> DEFINE x == byte1
             y == IF byte2 < 144 THEN 1 ELSE 0
  <1>1. x \in 240 .. 255 /\ y \in 0 .. 1
    OBVIOUS
  <1>2. badPlane <=> (((x % 16) - y) % 16) \div 4 # 0
    BY DEF badPlane
  <1>3. byte2 \in Int /\ (y = 1 <=> byte2 < 144) /\ (byte2 > 143 <=> ~(byte2 < 144))
    BY DEF Byte
  <1> HIDE DEF x, y
  <1>4. x % 16 = x - 240
    BY <1>1
  <1>5. CASE x = 240 /\ y = 1
    <2>1. badPlane <=> ((0 - 1) % 16) \div 4 # 0
      BY <1>2, <1>4, <1>5
    <2>2. 0 - 1 \in Int /\ -16 <= 0 - 1 /\ 0 - 1 < 0 /\ 16 \in Nat \ {0}
          /\ (0 - 1) + 16 = 15
      OBVIOUS
    <2>3. \A m \in Int : m = 15 => m \div 4 = 3
      BY SMT
    <2>4. (0 - 1) % 16 = 15
      BY <2>2, ModOnce
    <2>5. badPlane
      BY <2>1, <2>3, <2>4
    <2> QED
      BY <1>3, <1>5, <2>5 DEF x
  <1>6. CASE ~(x = 240 /\ y = 1)
    <2>1. (x - 240) - y \in 0 .. 15
      BY <1>1, <1>6
    <2>2. ((x - 240) - y) % 16 = (x - 240) - y
      BY <2>1
    <2>3. ((x - 240) - y) \div 4 # 0 <=> (x - 240) - y >= 4
      BY <2>1
    <2>4. badPlane <=> (x - 240) - y >= 4
      BY <1>2, <1>4, <2>2, <2>3
    <2> QED
      BY <1>1, <1>3, <1>6, <2>4 DEF x
  <1> QED
    BY <1>5, <1>6

-----------------------------------------------------------------------------
\* A byte that follows a lead byte is not ASCII.
LEMMA Owing ==
  ASSUME TypeOK, Trailing, NEW p \in 0 .. len - 1, NEW d \in 1 .. 3, p + d < len,
         \/ d = 1 /\ src[p] >= 192
         \/ d = 2 /\ src[p] >= 224
         \/ d = 3 /\ src[p] >= 240
  PROVE  src[p + d] >= 128 /\ src[p + d] \in Byte
  <1>1. len \in Nat /\ src \in Strings(len) /\ p + d \in 0 .. len - 1
    BY DEF TypeOK
  <1>2. Padded(src, len, p) = src[p]
    BY <1>1 DEF Padded
  <1>3. OwedAt(p + d)
    <2>1. CASE d = 1
      <3>1. (p + d) - 1 = p
        BY <1>1, <2>1
      <3> QED
        BY <1>2, <2>1, <3>1 DEF OwedAt, Owed
    <2>2. CASE d = 2
      <3>1. (p + d) - 2 = p
        BY <1>1, <2>2
      <3> QED
        BY <1>2, <2>2, <3>1 DEF OwedAt, Owed
    <2>3. CASE d = 3
      <3>1. (p + d) - 3 = p
        BY <1>1, <2>3
      <3> QED
        BY <1>2, <2>3, <3>1 DEF OwedAt, Owed
    <2> QED
      BY <2>1, <2>2, <2>3
  <1> QED
    BY <1>1, <1>3 DEF Trailing, Strings

\* What is skipped is legal, what is refused is not.
LEMMA TwoExact ==
  ASSUME TypeOK, Trailing, index < len, byte1 \in 128 .. 223
  PROVE  /\ ~badTwo => LegalAt(src, index, 2)
         /\ badTwo => ~\E n \in 1 .. 4 : index + n <= len /\ LegalAt(src, index, n)
  <1>1. len \in Nat /\ index \in 0 .. len - 1 /\ src[index] \in 128 .. 223
    BY DEF TypeOK, byte1
  <1>2. ASSUME ~badTwo PROVE LegalAt(src, index, 2)
    <2>1. index + 1 < len /\ src[index] >= 194 /\ ~(src[index + 1] > 191)
      BY <1>1, <1>2 DEF badTwo, byte1
    <2>2. src[index + 1] >= 128 /\ src[index + 1] \in Byte
      BY <1>1, <2>1, Owing
    <2> QED
      BY <1>1, <2>1, <2>2 DEF LegalAt, Continuation, Byte
  <1>3. ASSUME badTwo, NEW n \in 1 .. 4, index + n <= len, LegalAt(src, index, n)
        PROVE  FALSE
    <2>1. n = 2 /\ src[index] >= 194 /\ Continuation(src[index + 1])
      BY <1>1, <1>3 DEF LegalAt
    <2> QED
      BY <1>1, <1>3, <2>1 DEF badTwo, byte1, Continuation
  <1> QED
    BY <1>2, <1>3

LEMMA ThreeExact ==
  ASSUME TypeOK, Trailing, index < len, byte1 \in 224 .. 239
  PROVE  /\ ~badThree => LegalAt(src, index, 3)
         /\ badThree => ~\E n \in 1 .. 4 : index + n <= len /\ LegalAt(src, index, n)
  <1>1. len \in Nat /\ index \in 0 .. len - 1 /\ src[index] \in 224 .. 239
    BY DEF TypeOK, byte1
  <1>2. ASSUME ~badThree PROVE LegalAt(src, index, 3)
    <2>1. /\ index + 2 < len /\ ~(src[index + 1] > 191) /\ ~(src[index + 2] > 191)
          /\ ~(src[index] = 224 /\ src[index + 1] < 160)
          /\ ~(src[index] = 237 /\ 160 <= src[index + 1])
      BY <1>1, <1>2 DEF badThree, byte1, byte2
    <2>2. src[index + 1] >= 128 /\ src[index + 1] \in Byte
      BY <1>1, <2>1, Owing
    <2>3. src[index + 2] >= 128 /\ src[index + 2] \in Byte
      BY <1>1, <2>1, Owing
    <2> QED
      BY <1>1, <2>1, <2>2, <2>3 DEF LegalAt, Continuation, Byte
  <1>3. ASSUME badThree, NEW n \in 1 .. 4, index + n <= len, LegalAt(src, index, n)
        PROVE  FALSE
    <2>1. /\ n = 3 /\ Continuation(src[index + 1]) /\ Continuation(src[index + 2])
          /\ src[index] = 224 => src[index + 1] >= 160
          /\ src[index] = 237 => src[index + 1] <= 159
      BY <1>1, <1>3 DEF LegalAt, Continuation
    <2> QED
      BY <1>1, <1>3, <2>1 DEF badThree, byte1, byte2, Continuation
  <1> QED
    BY <1>2, <1>3

LEMMA FourExact ==
  ASSUME TypeOK, Trailing, index < len, byte1 >= 240
  PROVE  /\ ~badFour => LegalAt(src, index, 4)
         /\ badFour => ~\E n \in 1 .. 4 : index + n <= len /\ LegalAt(src, index, n)
  <1>1. len \in Nat /\ index \in 0 .. len - 1 /\ src[index] \in 240 .. 255
    <2>1. len \in Nat /\ index \in 0 .. len - 1 /\ src \in Strings(len)
      BY DEF TypeOK
    <2>2. src[index] \in Byte /\ src[index] >= 240
      BY <2>1 DEF Strings, byte1
    <2> QED
      BY <2>1, <2>2 DEF Byte
  <1>2. ASSUME ~badFour PROVE LegalAt(src, index, 4)
    <2>1. /\ index + 3 < len /\ ~(src[index + 1] > 191) /\ ~(src[index + 2] > 191)
          /\ ~(src[index + 3] > 191) /\ ~badPlane
      BY <1>1, <1>2 DEF badFour, byte2
    <2>2. src[index + 1] >= 128 /\ src[index + 1] \in Byte
      BY <1>1, <2>1, Owing
    <2>3. src[index + 2] >= 128 /\ src[index + 2] \in Byte
      BY <1>1, <2>1, Owing
    <2>4. src[index + 3] >= 128 /\ src[index + 3] \in Byte
      BY <1>1, <2>1, Owing
    <2>5. /\ ~(src[index] > 244)
          /\ ~(src[index] = 240 /\ src[index + 1] < 144)
          /\ ~(src[index] = 244 /\ src[index + 1] > 143)
      BY <1>1, <2>1, <2>2, Plane DEF byte1, byte2
    <2> QED
      BY <1>1, <2>1, <2>2, <2>3, <2>4, <2>5 DEF LegalAt, Continuation, Byte
  <1>3. ASSUME badFour, NEW n \in 1 .. 4, index + n <= len, LegalAt(src, index, n)
        PROVE  FALSE
    <2>1. /\ n = 4 /\ Continuation(src[index + 1]) /\ Continuation(src[index + 2])
          /\ Continuation(src[index + 3])
          /\ src[index] <= 244
          /\ src[index] = 240 => src[index + 1] >= 144
          /\ src[index] = 244 => src[index + 1] <= 143
      BY <1>1, <1>3 DEF LegalAt, Continuation
    <2>2. ~badPlane
      BY <1>1, <2>1, Plane DEF byte1, byte2, Continuation, Byte
    <2> QED
      BY <1>1, <1>3, <2>1, <2>2 DEF badFour, byte2, Continuation
  <1> QED
    BY <1>2, <1>3

-----------------------------------------------------------------------------
\* n legal bytes are skipped.
LEMMA SkipStep ==
  ASSUME IInv, pc = "loop", NEW n \in 1 .. 4, skip(n), index + n <= len,
         Trailing => LegalAt(src, index, n)
  PROVE  IInv'
  <1>1. /\ index' = index + n /\ pc' = pc /\ src' = src /\ len' = len /\ result' = result
        /\ index \in Nat /\ len \in Nat
    BY DEF skip, IInv, TypeOK
  <1>2. TypeOK'
    BY <1>1 DEF IInv, TypeOK
  <1>3. Trailing' <=> Trailing
    BY <1>1 DEF Trailing, OwedAt
  <1>4. Trailing => WellFormed(src, index + n)
    BY <1>1, Extend DEF IInv, Skipped
  <1> QED
    BY <1>1, <1>2, <1>3, <1>4 DEF IInv, Skipped, Verdict

\* An answer is given.
LEMMA ReturnStep ==
  ASSUME IInv, NEW answer \in BOOLEAN, return(answer),
         Trailing => (answer <=> WellFormed(src, len))
  PROVE  IInv'
  <1>1. pc' = "done" /\ result' = answer /\ src' = src /\ len' = len /\ index' = index
    BY DEF return
  <1>2. TypeOK'
    BY <1>1 DEF IInv, TypeOK
  <1>3. Trailing' <=> Trailing
    BY <1>1 DEF Trailing, OwedAt
  <1> QED
    BY <1>1, <1>2, <1>3 DEF IInv, Skipped, Verdict

\* The refusal of what starts no legal sequence.
LEMMA RefuseStep ==
  ASSUME IInv, pc = "loop", index < len, return(FALSE),
         Trailing => ~\E n \in 1 .. 4 : index + n <= len /\ LegalAt(src, index, n)
  PROVE  IInv'
  <1>1. len \in Nat /\ src \in Strings(len) /\ index \in 0 .. len - 1
    BY DEF IInv, TypeOK
  <1>2. Trailing => ~WellFormed(src, len)
    BY <1>1, NextStarts DEF IInv, Skipped
  <1> QED
    BY <1>2, ReturnStep

LEMMA InitIInv == Init => IInv
  <1> SUFFICES ASSUME Init PROVE IInv
    OBVIOUS
  <1>1. TypeOK
    <2>1. len \in Nat /\ src \in Strings(len)
      BY InputsAssumption DEF Init
    <2>2. 0 \in 0 .. len
      BY <2>1
    <2>3. pc = "loop" /\ index = 0 /\ result = FALSE
      BY DEF Init
    <2> QED
      BY <2>1, <2>2, <2>3 DEF TypeOK
  <1>2. WellFormed(src, 0)
    BY DEF WellFormed
  <1> QED
    BY <1>1, <1>2 DEF Init, IInv, Skipped, Verdict

LEMMA NextIInv == IInv /\ [Next]_vars => IInv'
  <1> SUFFICES ASSUME IInv, [Next]_vars PROVE IInv'
    OBVIOUS
  <1>1. /\ TypeOK /\ len \in Nat /\ src \in Strings(len) /\ index \in 0 .. len
    BY DEF IInv, TypeOK
  <1>2. CASE End
    <2>1. pc = "loop" /\ index >= len /\ return(TRUE)
      BY <1>2 DEF End
    <2>2. Trailing => (TRUE <=> WellFormed(src, len))
      <3>1. index = len
        BY <1>1, <2>1
      <3> QED
        BY <2>1, <3>1 DEF IInv, Skipped
    <2> QED
      BY <2>1, <2>2, ReturnStep
  <1>3. CASE OneByte
    <2>1. pc = "loop" /\ index < len /\ src[index] < 128 /\ skip(1)
      BY <1>3 DEF OneByte, byte1
    <2>2. src[index] \in Byte
      BY <1>1, <2>1 DEF Strings
    <2>3. LegalAt(src, index, 1) /\ index + 1 <= len
      BY <1>1, <2>1, <2>2 DEF LegalAt, Byte
    <2> QED
      BY <2>1, <2>3, SkipStep
  <1>4. CASE TwoBytes
    <2>1. /\ pc = "loop" /\ index < len /\ byte1 \in 128 .. 223
          /\ IF badTwo THEN return(FALSE) ELSE skip(2)
      BY <1>4 DEF TwoBytes
    <2>2. CASE badTwo
      BY <1>1, <2>1, <2>2, TwoExact, RefuseStep
    <2>3. CASE ~badTwo
      <3>1. index + 2 <= len
        BY <1>1, <2>1, <2>3 DEF badTwo
      <3> QED
        BY <1>1, <2>1, <2>3, <3>1, TwoExact, SkipStep
    <2> QED
      BY <2>2, <2>3
  <1>5. CASE ThreeBytes
    <2>1. /\ pc = "loop" /\ index < len /\ byte1 \in 224 .. 239
          /\ IF badThree THEN return(FALSE) ELSE skip(3)
      BY <1>5 DEF ThreeBytes
    <2>2. CASE badThree
      BY <1>1, <2>1, <2>2, ThreeExact, RefuseStep
    <2>3. CASE ~badThree
      <3>1. index + 3 <= len
        BY <1>1, <2>1, <2>3 DEF badThree
      <3> QED
        BY <1>1, <2>1, <2>3, <3>1, ThreeExact, SkipStep
    <2> QED
      BY <2>2, <2>3
  <1>6. CASE FourBytes
    <2>1. /\ pc = "loop" /\ index < len /\ byte1 >= 240
          /\ IF badFour THEN return(FALSE) ELSE skip(4)
      BY <1>6 DEF FourBytes
    <2>2. CASE badFour
      BY <1>1, <2>1, <2>2, FourExact, RefuseStep
    <2>3. CASE ~badFour
      <3>1. index + 4 <= len
        BY <1>1, <2>1, <2>3 DEF badFour
      <3> QED
        BY <1>1, <2>1, <2>3, <3>1, FourExact, SkipStep
    <2> QED
      BY <2>2, <2>3
  <1>7. CASE UNCHANGED vars
    BY <1>7 DEF vars, IInv, TypeOK, Trailing, OwedAt, Skipped, Verdict
  <1> QED
    BY <1>2, <1>3, <1>4, <1>5, <1>6, <1>7 DEF Next

LEMMA SpecIInv == Spec => []IInv
  BY InitIInv, NextIInv, PTL DEF Spec

-----------------------------------------------------------------------------
(* The index never passes the end: each form first compares the bytes it   *)
(* is going to skip with those that are left.                              *)
THEOREM GuavaTypeCorrect == Spec => []TypeOK
  <1>1. IInv => TypeOK
    BY DEF IInv
  <1> QED
    BY <1>1, SpecIInv, PTL

(* Of the strings without ASCII in the place of a continuation byte the    *)
(* validator accepts exactly the well-formed ones.                         *)
THEOREM GuavaExactOnTrailingBytes == Spec => []ExactOnTrailingBytes
  <1>1. IInv => ExactOnTrailingBytes
    BY DEF IInv, Trailing, Verdict, ExactOnTrailingBytes
  <1> QED
    BY <1>1, SpecIInv, PTL
=============================================================================
