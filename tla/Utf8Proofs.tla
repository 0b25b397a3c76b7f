----------------------------- MODULE Utf8Proofs -----------------------------
(***************************************************************************)
(* What valid UTF-8 is.  The well-formed strings of module Utf8 are the    *)
(* concatenations of legal sequences, and they are the strings of which    *)
(* every window of four bytes, padded at both ends, is legal: validators   *)
(* only ever see windows.  Then what the proofs about the validators       *)
(* share: facts about prefixes and parts of strings, and about the tables  *)
(* of the automata.                                                        *)
(***************************************************************************)
EXTENDS DfaTables, FiniteSetTheorems, TLAPS

\* The position of a byte in a legal sequence tells what kind of byte it is.
LEMMA LegalShape ==
  ASSUME NEW len \in Nat, NEW s \in Strings(len),
         NEW n \in 1 .. 4, NEW p \in Nat, p + n <= len, LegalAt(s, p, n)
  PROVE  /\ s[p] \in Byte /\ ~Continuation(s[p])
         /\ s[p] \notin {192, 193} /\ s[p] <= 244
         /\ (n >= 2 <=> s[p] >= 192)
         /\ (n >= 3 <=> s[p] >= 224)
         /\ (n = 4 <=> s[p] >= 240)
         /\ \A d \in 1 .. n - 1 : Continuation(s[p + d])
         /\ s[p] = 224 => s[p+1] >= 160
         /\ s[p] = 237 => s[p+1] <= 159
         /\ s[p] = 240 => s[p+1] >= 144
         /\ s[p] = 244 => s[p+1] <= 143
  <1>1. s[p] \in Byte
    BY DEF Strings
  <1>2. \A d \in 1 .. n - 1 : d = 1 \/ d = 2 \/ d = 3
    OBVIOUS
  <1>3. CASE n = 1
    BY <1>1, <1>3 DEF LegalAt, Continuation, Byte
  <1>4. CASE n = 2
    BY <1>1, <1>2, <1>4 DEF LegalAt, Continuation, Byte
  <1>5. CASE n = 3
    BY <1>1, <1>2, <1>5 DEF LegalAt, Continuation, Byte
  <1>6. CASE n = 4
    BY <1>1, <1>2, <1>6 DEF LegalAt, Continuation, Byte
  <1> QED
    BY <1>3, <1>4, <1>5, <1>6

\* A byte of the padded string is a byte, and zero outside the string.
LEMMA PaddedByte ==
  ASSUME NEW len \in Nat, NEW s \in Strings(len), NEW q \in Int
  PROVE  /\ Padded(s, len, q) \in Byte
         /\ q \in 0 .. len - 1 => Padded(s, len, q) = s[q]
         /\ q \notin 0 .. len - 1 => Padded(s, len, q) = 0
  BY DEF Padded, Strings, Byte

\* In a well-formed string a byte that is not a continuation byte starts the
\* legal sequence that covers it.
LEMMA LeadStarts ==
  ASSUME NEW len \in Nat, NEW s \in Strings(len), WellFormed(s, len),
         NEW q \in 0 .. len - 1, ~Continuation(s[q])
  PROVE  \E n \in 1 .. 4 : q + n <= len /\ LegalAt(s, q, n)
  <1>1. PICK n \in 1 .. 4, p \in 0 .. q :
          q < p + n /\ p + n <= len /\ LegalAt(s, p, n)
    BY DEF WellFormed
  <1>2. p = q
    <2> SUFFICES ASSUME p # q PROVE FALSE
      OBVIOUS
    <2>1. q - p \in 1 .. n - 1 /\ p + (q - p) = q
      BY <1>1
    <2>2. \A d \in 1 .. n - 1 : Continuation(s[p + d])
      BY <1>1, LegalShape
    <2> QED
      BY <2>1, <2>2
  <1> QED
    BY <1>1, <1>2

LEMMA WellFormedIsPrefixOK ==
  ASSUME NEW len \in Nat, NEW s \in Strings(len), WellFormed(s, len)
  PROVE  PrefixOK(s, len, len + 1)
  <1> SUFFICES ASSUME NEW q \in 0 .. len PROVE WindowOK(s, len, q)
    BY DEF PrefixOK
  <1> DEFINE P(x) == Padded(s, len, x)
  <1>1. \A x \in Int : /\ P(x) \in Byte
                       /\ x \in 0 .. len - 1 => P(x) = s[x]
                       /\ x \notin 0 .. len - 1 => P(x) = 0
    BY PaddedByte
  <1> HIDE DEF P
  \* What follows a lead byte at x.
  <1>2. ASSUME NEW x \in Int, ~Continuation(P(x)), x < len
        PROVE  /\ P(x) \notin {192, 193} /\ P(x) <= 244
               /\ P(x) >= 192 => Continuation(P(x+1))
               /\ P(x) >= 224 => Continuation(P(x+2))
               /\ P(x) >= 240 => Continuation(P(x+3))
               /\ P(x) = 224 => P(x+1) >= 160
               /\ P(x) = 237 => P(x+1) <= 159
               /\ P(x) = 240 => P(x+1) >= 144
               /\ P(x) = 244 => P(x+1) <= 143
    <2>1. CASE x < 0
      BY <1>1, <2>1
    <2>2. CASE x \in 0 .. len - 1
      <3>1. P(x) = s[x]
        BY <1>1, <2>2
      <3>2. PICK n \in 1 .. 4 : x + n <= len /\ LegalAt(s, x, n)
        BY <1>2, <2>2, <3>1, LeadStarts
      <3>3. /\ s[x] \in Byte
            /\ s[x] \notin {192, 193} /\ s[x] <= 244
            /\ (n >= 2 <=> s[x] >= 192)
            /\ (n >= 3 <=> s[x] >= 224)
            /\ (n = 4 <=> s[x] >= 240)
            /\ \A d \in 1 .. n - 1 : Continuation(s[x + d])
            /\ s[x] = 224 => s[x+1] >= 160
            /\ s[x] = 237 => s[x+1] <= 159
            /\ s[x] = 240 => s[x+1] >= 144
            /\ s[x] = 244 => s[x+1] <= 143
        BY <2>2, <3>2, LegalShape
      <3>4. \A d \in 1 .. n - 1 : P(x + d) = s[x + d]
        BY <1>1, <2>2, <3>2
      <3>5. \A d \in 1 .. n - 1 : Continuation(P(x + d))
        BY <3>3, <3>4
      <3>6. s[x] >= 192 => 1 \in 1 .. n - 1
        BY <3>3
      <3>7. s[x] >= 224 => 2 \in 1 .. n - 1
        BY <3>3
      <3>8. s[x] >= 240 => 3 \in 1 .. n - 1
        BY <3>3
      <3>9. s[x] >= 192 => P(x+1) = s[x+1]
        BY <3>4, <3>6
      <3> QED
        BY <3>1, <3>3, <3>5, <3>6, <3>7, <3>8, <3>9 DEF Byte
    <2> QED
      BY <1>2, <2>1, <2>2
  \* What precedes a continuation byte at q.
  <1>3. ASSUME Continuation(P(q))
        PROVE  Owed(P(q-3), P(q-2), P(q-1))
    <2>1. q \in 0 .. len - 1 /\ P(q) = s[q]
      BY <1>1, <1>3 DEF Continuation
    <2>2. PICK n \in 1 .. 4, p \in 0 .. q :
            q < p + n /\ p + n <= len /\ LegalAt(s, p, n)
      BY <2>1 DEF WellFormed
    <2>3. /\ ~Continuation(s[p])
          /\ (n >= 2 <=> s[p] >= 192)
          /\ (n >= 3 <=> s[p] >= 224)
          /\ (n = 4 <=> s[p] >= 240)
      BY <2>2, LegalShape
    <2>4. P(p) = s[p]
      BY <1>1, <2>2
    <2>5. p # q
      BY <1>3, <2>1, <2>3
    <2>6. p = q - 1 \/ p = q - 2 \/ p = q - 3
      BY <2>2, <2>5
    <2> QED
      BY <2>2, <2>3, <2>4, <2>6 DEF Owed
  <1>4. Owed(P(q-3), P(q-2), P(q-1)) => Continuation(P(q))
    <2>1. ASSUME NEW x \in Int, P(x) >= 192
          PROVE  ~Continuation(P(x)) /\ x < len
      BY <1>1, <2>1 DEF Continuation
    <2>2. q - 1 \in Int /\ q - 2 \in Int /\ q - 3 \in Int
      OBVIOUS
    <2>3. P(q-1) >= 192 => Continuation(P((q-1)+1))
      BY <1>2, <2>1, <2>2
    <2>4. P(q-2) >= 224 => Continuation(P((q-2)+2))
      BY <1>1, <1>2, <2>1, <2>2 DEF Byte
    <2>5. P(q-3) >= 240 => Continuation(P((q-3)+3))
      BY <1>1, <1>2, <2>1, <2>2 DEF Byte
    <2>6. (q-1)+1 = q /\ (q-2)+2 = q /\ (q-3)+3 = q
      OBVIOUS
    <2> QED
      BY <2>3, <2>4, <2>5, <2>6 DEF Owed
  <1>5. P(q) <= 244
    BY <1>1, <1>2 DEF Continuation, Byte
  <1>6. /\ P(q-1) \notin {192, 193}
        /\ P(q-1) = 224 => P(q) >= 160
        /\ P(q-1) = 237 => P(q) <= 159
        /\ P(q-1) = 240 => P(q) >= 144
        /\ P(q-1) = 244 => P(q) <= 143
    <2>1. q - 1 \in Int /\ q - 1 < len /\ (q - 1) + 1 = q
      OBVIOUS
    <2>2. CASE Continuation(P(q-1))
      BY <2>2 DEF Continuation
    <2>3. CASE ~Continuation(P(q-1))
      BY <1>2, <2>1, <2>3
    <2> QED
      BY <2>2, <2>3
  <1> QED
    BY <1>3, <1>4, <1>5, <1>6 DEF WindowOK, Follows, P

LEMMA PrefixOKIsWellFormed ==
  ASSUME NEW len \in Nat, NEW s \in Strings(len), PrefixOK(s, len, len + 1)
  PROVE  WellFormed(s, len)
  <1> DEFINE P(x) == Padded(s, len, x)
  <1>1. \A x \in Int : /\ P(x) \in Byte
                       /\ x \in 0 .. len - 1 => P(x) = s[x]
                       /\ x \notin 0 .. len - 1 => P(x) = 0
    BY PaddedByte
  <1>2. \A x \in 0 .. len : Follows(P(x-3), P(x-2), P(x-1), P(x))
    BY DEF PrefixOK, WindowOK
  <1> HIDE DEF P
  <1>3. \A x \in Int : Continuation(P(x)) => x \in 0 .. len - 1
    BY <1>1 DEF Continuation
  <1>4. ASSUME NEW x \in 0 .. len - 1, ~Continuation(P(x))
        PROVE  \E n \in 1 .. 4 : /\ x + n <= len
                                 /\ LegalAt(s, x, n)
                                 /\ P(x) >= 192 => n >= 2
                                 /\ P(x) >= 224 => n >= 3
                                 /\ P(x) >= 240 => n = 4
    <2>0. P(x) \in Byte /\ s[x] = P(x) /\ P(x) <= 244
      BY <1>1, <1>2 DEF Follows
    <2>1. CASE P(x) < 128
      <3>1. x + 1 <= len /\ LegalAt(s, x, 1)
        BY <2>0, <2>1 DEF LegalAt, Byte
      <3> QED
        BY <2>0, <2>1, <3>1 DEF Byte
    <2>2. CASE P(x) >= 192
      <3>1. Follows(P((x+1)-3), P((x+1)-2), P((x+1)-1), P(x+1))
        BY <1>2
      <3>2. (x+1)-1 = x
        OBVIOUS
      <3>3. /\ Continuation(P(x+1)) /\ P(x) \notin {192, 193}
            /\ P(x) = 224 => P(x+1) >= 160
            /\ P(x) = 237 => P(x+1) <= 159
            /\ P(x) = 240 => P(x+1) >= 144
            /\ P(x) = 244 => P(x+1) <= 143
        BY <2>2, <3>1, <3>2 DEF Follows, Owed
      <3>4. x + 1 <= len - 1 /\ s[x+1] = P(x+1) /\ P(x+1) \in Byte
        BY <1>1, <1>3, <3>3
      <3>5. CASE P(x) < 224
        <4>1. x + 2 <= len /\ LegalAt(s, x, 2)
          BY <2>0, <2>2, <3>3, <3>4, <3>5 DEF LegalAt, Byte
        <4> QED
          BY <2>0, <3>5, <4>1 DEF Byte
      <3>6. CASE P(x) >= 224
        <4>1. Follows(P((x+2)-3), P((x+2)-2), P((x+2)-1), P(x+2))
          BY <1>2, <3>4
        <4>2. (x+2)-2 = x
          OBVIOUS
        <4>3. Continuation(P(x+2))
          BY <3>6, <4>1, <4>2 DEF Follows, Owed
        <4>4. x + 2 <= len - 1 /\ s[x+2] = P(x+2)
          BY <1>1, <1>3, <4>3
        <4>5. CASE P(x) < 240
          <5>1. x + 3 <= len /\ LegalAt(s, x, 3)
            BY <2>0, <3>3, <3>4, <3>6, <4>3, <4>4, <4>5
            DEF LegalAt, Byte, Continuation
          <5> QED
            BY <2>0, <4>5, <5>1 DEF Byte
        <4>6. CASE P(x) >= 240
          <5>1. Follows(P((x+3)-3), P((x+3)-2), P((x+3)-1), P(x+3))
            BY <1>2, <4>4
          <5>2. (x+3)-3 = x
            OBVIOUS
          <5>3. Continuation(P(x+3))
            BY <4>6, <5>1, <5>2 DEF Follows, Owed
          <5>4. x + 3 <= len - 1 /\ s[x+3] = P(x+3)
            BY <1>1, <1>3, <5>3
          <5>5. x + 4 <= len /\ LegalAt(s, x, 4)
            BY <2>0, <3>3, <3>4, <4>3, <4>4, <4>6, <5>3, <5>4
            DEF LegalAt, Byte, Continuation
          <5> QED
            BY <5>5
        <4> QED
          BY <2>0, <4>5, <4>6 DEF Byte
      <3> QED
        BY <2>0, <3>5, <3>6 DEF Byte
    <2> QED
      BY <1>4, <2>0, <2>1, <2>2 DEF Continuation, Byte
  <1> SUFFICES ASSUME NEW q \in 0 .. len - 1
               PROVE  \E n \in 1 .. 4 : \E p \in 0 .. q :
                        q < p + n /\ p + n <= len /\ LegalAt(s, p, n)
    BY DEF WellFormed
  <1>5. CASE ~Continuation(P(q))
    BY <1>4, <1>5
  <1>6. CASE Continuation(P(q))
    <2>1. Owed(P(q-3), P(q-2), P(q-1))
      BY <1>2, <1>6 DEF Follows
    <2>2. \A x \in Int : P(x) >= 192 =>
            ~Continuation(P(x)) /\ x \in 0 .. len - 1
      BY <1>1 DEF Continuation
    <2>3. P(q-2) \in Byte /\ P(q-3) \in Byte
      BY <1>1
    <2>4. CASE P(q-1) >= 192
      <3>1. PICK n \in 1 .. 4 : (q-1) + n <= len /\ LegalAt(s, q-1, n) /\ n >= 2
        BY <1>4, <2>2, <2>4
      <3> QED
        BY <2>2, <2>4, <3>1
    <2>5. CASE P(q-2) >= 224
      <3>0. P(q-2) >= 192
        BY <2>3, <2>5 DEF Byte
      <3>1. PICK n \in 1 .. 4 : (q-2) + n <= len /\ LegalAt(s, q-2, n) /\ n >= 3
        BY <1>4, <2>2, <2>5, <3>0
      <3> QED
        BY <2>2, <3>0, <3>1
    <2>6. CASE P(q-3) >= 240
      <3>0. P(q-3) >= 192
        BY <2>3, <2>6 DEF Byte
      <3>1. PICK n \in 1 .. 4 : (q-3) + n <= len /\ LegalAt(s, q-3, n) /\ n = 4
        BY <1>4, <2>2, <2>6, <3>0
      <3> QED
        BY <2>2, <3>0, <3>1
    <2> QED
      BY <2>1, <2>4, <2>5, <2>6 DEF Owed
  <1> QED
    BY <1>5, <1>6

(* The table of the headers and the window of four bytes describe the same *)
(* strings, of any length.                                                 *)
THEOREM WellFormedIsLocal ==
  ASSUME NEW len \in Nat, NEW s \in Strings(len)
  PROVE  WellFormed(s, len) <=> PrefixOK(s, len, len + 1)
  BY WellFormedIsPrefixOK, PrefixOKIsWellFormed

-----------------------------------------------------------------------------
(***************************************************************************)
(* The first of them says that the string is a concatenation: the starts   *)
(* of its parts, and its end, are a set from each member of which a legal  *)
(* sequence leads to another.                                              *)
(***************************************************************************)
Concatenation(s, len) ==
  \E cuts \in SUBSET (0 .. len) :
    /\ 0 \in cuts /\ len \in cuts
    /\ \A p \in cuts \ {len} : \E n \in 1 .. 4 : p + n \in cuts /\ LegalAt(s, p, n)

\* Sets of naturals that are bounded have a largest element: the smallest of the
\* intervals above their elements.
LEMMA Largest ==
  ASSUME NEW m \in Nat, NEW C \in SUBSET (0 .. m), C # {}
  PROVE  \E h \in C : \A q \in C : q <= h
<1> DEFINE above(q) == q + 1 .. m
           T == {above(q) : q \in C}
           R == StrictSubsetOrdering(1 .. m)
<1>1. IsWellFoundedOn(R, FiniteSubsetsOf(1 .. m))
  BY FS_StrictSubsetOrderingWellFounded
<1>2. T \subseteq FiniteSubsetsOf(1 .. m) /\ T # {}
  <2>1. FiniteSubsetsOf(1 .. m) = SUBSET (1 .. m)
    <3>1. IsFiniteSet(1 .. m)
      <4>1. 1 \in Int /\ m \in Int
        OBVIOUS
      <4> QED
        BY <4>1, FS_Interval
    <3> QED
      BY <3>1, FS_FiniteSubsetsOfFinite
  <2>2. \A q \in C : above(q) \in SUBSET (1 .. m)
    OBVIOUS
  <2>3. T \subseteq SUBSET (1 .. m)
    <3> HIDE DEF above
    <3> QED
      BY <2>2
  <2>4. T # {}
    OBVIOUS
  <2> QED
    BY <2>1, <2>3, <2>4
<1>3. PICK x \in T : \A y \in T : ~ (<<y, x>> \in R)
  <2> HIDE DEF T, R
  <2> QED
    BY <1>1, <1>2, WFMin
<1>4. PICK h \in C : x = above(h)
  BY <1>3
<1>5. ASSUME NEW q \in C, q > h PROVE FALSE
  <2>1. above(q) \subseteq above(h) /\ above(q) # above(h)
    <3>1. q \in above(h) /\ q \notin above(q)
      BY <1>5
    <3> QED
      BY <3>1, <1>5
  <2>2. above(q) \in SUBSET (1 .. m) /\ above(h) \in SUBSET (1 .. m)
    OBVIOUS
  <2>3. <<above(q), above(h)>> \in R
    BY <2>1, <2>2 DEF StrictSubsetOrdering
  <2> QED
    BY <2>3, <1>3, <1>4
<1> QED
  BY <1>5

\* The position after a legal sequence is the end or starts another.
LEMMA StartsFollow ==
  ASSUME NEW len \in Nat, NEW s \in Strings(len), WellFormed(s, len),
         NEW n \in 1 .. 4, NEW p \in 0 .. len - 1, p + n < len, LegalAt(s, p, n)
  PROVE  ~Continuation(s[p + n])
  <1>1. PICK m \in 1 .. 4, r \in 0 .. p + n :
          p + n < r + m /\ r + m <= len /\ LegalAt(s, r, m)
    <2>1. p + n \in 0 .. len - 1
      OBVIOUS
    <2> QED
      BY <2>1 DEF WellFormed
  <1>2. p \in Nat /\ p + n <= len /\ r \in Nat
    OBVIOUS
  <1>3. /\ ~Continuation(s[r]) /\ ~Continuation(s[p])
        /\ \A d \in 1 .. m - 1 : Continuation(s[r + d])
        /\ \A d \in 1 .. n - 1 : Continuation(s[p + d])
        /\ (m >= 2 <=> s[r] >= 192) /\ (m >= 3 <=> s[r] >= 224) /\ (m = 4 <=> s[r] >= 240)
        /\ (n >= 2 <=> s[p] >= 192) /\ (n >= 3 <=> s[p] >= 224) /\ (n = 4 <=> s[p] >= 240)
    BY <1>1, <1>2, LegalShape
  <1>4. CASE r < p
    <2>1. p - r \in 1 .. m - 1 /\ r + (p - r) = p
      BY <1>1, <1>4
    <2> QED
      BY <2>1, <1>3
  <1>5. CASE r = p
    BY <1>1, <1>3, <1>5
  <1>6. CASE p < r /\ r < p + n
    <2>1. r - p \in 1 .. n - 1 /\ p + (r - p) = r
      BY <1>6
    <2> QED
      BY <2>1, <1>3
  <1>7. CASE r = p + n
    BY <1>3, <1>7
  <1> QED
    BY <1>4, <1>5, <1>6, <1>7

(* What the validators are measured against is what it is meant to be: the *)
(* well-formed strings are the concatenations of the legal sequences of    *)
(* the table in the headers, for every length.                             *)
THEOREM WellFormedIsConcatenation ==
  ASSUME NEW len \in Nat, NEW s \in Strings(len)
  PROVE  WellFormed(s, len) <=> Concatenation(s, len)
  <1>1. ASSUME WellFormed(s, len) PROVE Concatenation(s, len)
    <2> DEFINE cuts == {p \in 0 .. len : p = len \/ ~Continuation(s[p])}
    <2>1. cuts \in SUBSET (0 .. len) /\ len \in cuts
      OBVIOUS
    <2>2. 0 \in cuts
      <3>1. CASE len = 0
        BY <3>1
      <3>2. CASE len # 0
        <4>1. PICK n \in 1 .. 4, p \in 0 .. 0 : p + n <= len /\ LegalAt(s, p, n)
          BY <1>1, <3>2 DEF WellFormed
        <4>2. p = 0 /\ 0 \in Nat /\ 0 + n <= len
          BY <4>1
        <4>3. ~Continuation(s[0])
          BY <4>1, <4>2, LegalShape
        <4> QED
          BY <4>3
      <3> QED
        BY <3>1, <3>2
    <2>3. ASSUME NEW p \in cuts \ {len}
          PROVE  \E n \in 1 .. 4 : p + n \in cuts /\ LegalAt(s, p, n)
      <3>1. p \in 0 .. len - 1 /\ ~Continuation(s[p])
        OBVIOUS
      <3>2. PICK n \in 1 .. 4 : p + n <= len /\ LegalAt(s, p, n)
        BY <1>1, <3>1, LeadStarts
      <3>3. p + n = len \/ ~Continuation(s[p + n])
        <4>1. CASE p + n < len
          BY <1>1, <3>1, <3>2, <4>1, StartsFollow
        <4> QED
          BY <3>1, <3>2, <4>1
      <3> QED
        BY <3>1, <3>2, <3>3
    <2> HIDE DEF cuts
    <2> QED
      BY <2>1, <2>2, <2>3 DEF Concatenation
  <1>2. ASSUME Concatenation(s, len) PROVE WellFormed(s, len)
    <2>1. PICK cuts \in SUBSET (0 .. len) :
            /\ 0 \in cuts /\ len \in cuts
            /\ \A p \in cuts \ {len} :
                 \E n \in 1 .. 4 : p + n \in cuts /\ LegalAt(s, p, n)
      BY <1>2 DEF Concatenation
    <2> SUFFICES ASSUME NEW q \in 0 .. len - 1
                 PROVE  \E n \in 1 .. 4 : \E p \in 0 .. q :
                          q < p + n /\ p + n <= len /\ LegalAt(s, p, n)
      BY DEF WellFormed
    \* The sequence that covers q leaves from the last cut before it.
    <2> DEFINE before == {p \in cuts : p <= q}
    <2>2. before \in SUBSET (0 .. q) /\ before # {} /\ q \in Nat
      <3>1. 0 \in before
        BY <2>1
      <3>2. \A p \in before : p \in 0 .. q
        BY <2>1
      <3> HIDE DEF before
      <3> QED
        BY <3>1, <3>2
    <2>3. PICK p \in before : \A r \in before : r <= p
      <3> HIDE DEF before
      <3> QED
        BY <2>2, Largest
    <2>4. p \in cuts \ {len} /\ p \in 0 .. q
      BY <2>1, <2>3
    <2>5. PICK n \in 1 .. 4 : p + n \in cuts /\ LegalAt(s, p, n)
      BY <2>1, <2>4
    <2>6. q < p + n /\ p + n <= len
      <3>1. p + n \in 0 .. len
        BY <2>1, <2>5
      <3>2. ~ (p + n <= q)
        BY <2>3, <2>4, <2>5
      <3> QED
        BY <3>1, <3>2, <2>4
    <2> QED
      BY <2>4, <2>5, <2>6
  <1> QED
    BY <1>1, <1>2

-----------------------------------------------------------------------------
(***************************************************************************)
(* Prefixes and parts of a string.                                         *)
(***************************************************************************)

LEMMA PrefixStep ==
  ASSUME NEW n, NEW s, NEW q \in Nat
  PROVE  PrefixOK(s, n, q + 1) <=> PrefixOK(s, n, q) /\ WindowOK(s, n, q)
  BY DEF PrefixOK

\* A legal prefix only has legal prefixes.
LEMMA LegalShrinks ==
  ASSUME NEW n, NEW s, NEW p \in Nat, NEW q \in Nat, p <= q, LegalPrefix(s, n, q)
  PROVE  LegalPrefix(s, n, p)
  <1>1. CASE p = q
    BY <1>1
  <1>2. CASE p < q
    <2>1. PrefixOK(s, n, p)
      BY <1>2 DEF LegalPrefix, PrefixOK
    <2>2. WindowOK(s, n, p)
      BY <1>2 DEF LegalPrefix, PrefixOK
    <2> QED
      BY <2>1, <2>2 DEF LegalPrefix, WindowOK, Follows
  <1> QED
    BY <1>1, <1>2

\* Every window that ends in a legal prefix is legal, before the string too.
LEMMA EarlierWindow ==
  ASSUME NEW n, NEW s, NEW q \in Nat, PrefixOK(s, n, q), NEW x \in Int, x < q
  PROVE  WindowOK(s, n, x)
  <1>1. CASE x < 0
    <2>1. \A y \in Int : y < 0 => Padded(s, n, y) = 0
      BY DEF Padded
    <2>2. /\ Padded(s, n, x - 3) = 0 /\ Padded(s, n, x - 2) = 0
          /\ Padded(s, n, x - 1) = 0 /\ Padded(s, n, x) = 0
      BY <1>1, <2>1
    <2>3. Follows(0, 0, 0, 0)
      BY DEF Follows, Owed, Continuation
    <2> QED
      BY <2>2, <2>3 DEF WindowOK
  <1>2. CASE x >= 0
    BY <1>2 DEF PrefixOK
  <1> QED
    BY <1>1, <1>2

\* Every prefix of a well-formed string is legal.
LEMMA WellFormedIsLegal ==
  ASSUME NEW len \in Nat, NEW s \in Strings(len), WellFormed(s, len),
         NEW q \in 0 .. len + 1
  PROVE  LegalPrefix(s, len, q)
  <1>1. PrefixOK(s, len, len + 1)
    BY WellFormedIsPrefixOK
  <1>2. Padded(s, len, (len + 1) - 1) = 0
    BY DEF Padded
  <1>3. LegalPrefix(s, len, len + 1)
    BY <1>1, <1>2 DEF LegalPrefix
  <1> QED
    BY <1>3, LegalShrinks

\* Only the bytes of a string matter, not what it was cut from.
LEMMA SameBytes ==
  ASSUME NEW n \in Nat, NEW r, NEW s, \A q \in 0 .. n - 1 : r[q] = s[q],
         WellFormed(r, n)
  PROVE  WellFormed(s, n)
  <1> SUFFICES ASSUME NEW q \in 0 .. n - 1
               PROVE  \E m \in 1 .. 4 : \E p \in 0 .. q :
                        q < p + m /\ p + m <= n /\ LegalAt(s, p, m)
    BY DEF WellFormed
  <1>1. PICK m \in 1 .. 4, p \in 0 .. q : q < p + m /\ p + m <= n /\ LegalAt(r, p, m)
    BY DEF WellFormed
  <1>2. /\ r[p] = s[p]
        /\ m >= 2 => r[p+1] = s[p+1]
        /\ m >= 3 => r[p+2] = s[p+2]
        /\ m >= 4 => r[p+3] = s[p+3]
    BY <1>1
  <1>3. LegalAt(s, p, m)
    BY <1>1, <1>2 DEF LegalAt
  <1> QED
    BY <1>1, <1>3

LEMMA SameWindows ==
  ASSUME NEW n \in Nat, NEW r, NEW s, \A x \in 0 .. n - 1 : r[x] = s[x], NEW q
  PROVE  LegalPrefix(r, n, q) <=> LegalPrefix(s, n, q)
  <1>1. \A x : Padded(r, n, x) = Padded(s, n, x)
    BY DEF Padded
  <1> QED
    BY <1>1 DEF LegalPrefix, PrefixOK, WindowOK

\* A legal sequence more.
LEMMA Extend ==
  ASSUME NEW s, NEW i \in Nat, NEW n \in 1 .. 4, WellFormed(s, i), LegalAt(s, i, n)
  PROVE  WellFormed(s, i + n)
  <1> SUFFICES ASSUME NEW q \in 0 .. i + n - 1
               PROVE  \E m \in 1 .. 4 : \E p \in 0 .. q :
                        q < p + m /\ p + m <= i + n /\ LegalAt(s, p, m)
    BY DEF WellFormed
  <1>1. CASE q < i
    <2>1. PICK m \in 1 .. 4, p \in 0 .. q : q < p + m /\ p + m <= i /\ LegalAt(s, p, m)
      BY <1>1 DEF WellFormed
    <2> QED
      BY <2>1
  <1>2. CASE q >= i
    <2>1. i \in 0 .. q /\ q < i + n /\ i + n <= i + n
      BY <1>2
    <2> QED
      BY <2>1
  <1> QED
    BY <1>1, <1>2

\* Cut before a byte that is not a continuation byte, both parts are well formed.
LEMMA SplitWellFormed ==
  ASSUME NEW len \in Nat, NEW s \in Strings(len), WellFormed(s, len),
         NEW h \in 0 .. len - 1, ~Continuation(s[h])
  PROVE  /\ WellFormed(s, h)
         /\ WellFormed([x \in 0 .. len - h - 1 |-> s[h + x]], len - h)
  <1> DEFINE r == [x \in 0 .. len - h - 1 |-> s[h + x]]
  \* No sequence goes across the cut.
  <1>1. ASSUME NEW m \in 1 .. 4, NEW p \in Nat, p + m <= len, LegalAt(s, p, m)
        PROVE  p + m <= h \/ h <= p
    <2> SUFFICES ASSUME p < h, h < p + m PROVE FALSE
      OBVIOUS
    <2>1. h - p \in 1 .. m - 1 /\ p + (h - p) = h
      OBVIOUS
    <2>2. \A d \in 1 .. m - 1 : Continuation(s[p + d])
      BY <1>1, LegalShape
    <2> QED
      BY <2>1, <2>2
  <1>2. ASSUME NEW q \in 0 .. len - 1
        PROVE  \E m \in 1 .. 4 : \E p \in 0 .. q :
                 /\ q < p + m /\ p + m <= len /\ LegalAt(s, p, m)
                 /\ p + m <= h \/ h <= p
    <2>1. PICK m \in 1 .. 4, p \in 0 .. q : q < p + m /\ p + m <= len /\ LegalAt(s, p, m)
      BY DEF WellFormed
    <2> QED
      BY <1>1, <2>1
  <1>3. WellFormed(s, h)
    <2> SUFFICES ASSUME NEW q \in 0 .. h - 1
                 PROVE  \E m \in 1 .. 4 : \E p \in 0 .. q :
                          q < p + m /\ p + m <= h /\ LegalAt(s, p, m)
      BY DEF WellFormed
    <2>1. PICK m \in 1 .. 4, p \in 0 .. q :
            /\ q < p + m /\ p + m <= len /\ LegalAt(s, p, m)
            /\ p + m <= h \/ h <= p
      BY <1>2
    <2> QED
      BY <2>1
  <1>4. ASSUME NEW q \in 0 .. len - h - 1
        PROVE  \E m \in 1 .. 4 : \E p \in 0 .. q :
                 q < p + m /\ p + m <= len - h /\ LegalAt(r, p, m)
    <2>1. h + q \in 0 .. len - 1
      OBVIOUS
    <2>2. PICK m \in 1 .. 4, p \in 0 .. h + q :
            /\ h + q < p + m /\ p + m <= len /\ LegalAt(s, p, m)
            /\ p + m <= h \/ h <= p
      BY <1>2, <2>1
    <2>3. p - h \in 0 .. q /\ q < (p - h) + m /\ (p - h) + m <= len - h
      BY <2>2
    <2>4. /\ r[p - h] = s[p]
          /\ m >= 2 => r[(p - h) + 1] = s[p + 1]
          /\ m >= 3 => r[(p - h) + 2] = s[p + 2]
          /\ m >= 4 => r[(p - h) + 3] = s[p + 3]
      BY <2>2, <2>3
    <2> HIDE DEF r
    <2>5. LegalAt(r, p - h, m)
      BY <2>2, <2>4 DEF LegalAt
    <2> QED
      BY <2>3, <2>5
  <1>5. WellFormed(r, len - h)
    BY <1>4 DEF WellFormed
  <1> QED
    BY <1>3, <1>5

\* A NUL at the end does the work of the padding.
LEMMA NulPads ==
  ASSUME NEW n \in Nat, NEW t \in Strings(n + 1), t[n] = 0
  PROVE  LegalPrefix(t, n + 1, n + 1) <=> WellFormed(t, n)
  <1> DEFINE s == [q \in 0 .. n - 1 |-> t[q]]
  <1>1. s \in Strings(n)
    BY DEF Strings
  <1>2. \A q \in Int : q <= n => Padded(s, n, q) = Padded(t, n + 1, q)
    BY DEF Padded
  <1>3. WellFormed(s, n) <=> WellFormed(t, n)
    <2>1. \A q \in 0 .. n - 1 : s[q] = t[q]
      OBVIOUS
    <2> HIDE DEF s
    <2> QED
      BY <2>1, SameBytes
  <1>4. PrefixOK(s, n, n + 1) <=> PrefixOK(t, n + 1, n + 1)
    <2>1. ASSUME NEW q \in 0 .. n PROVE WindowOK(s, n, q) <=> WindowOK(t, n + 1, q)
      <3>1. /\ Padded(s, n, q - 3) = Padded(t, n + 1, q - 3)
            /\ Padded(s, n, q - 2) = Padded(t, n + 1, q - 2)
            /\ Padded(s, n, q - 1) = Padded(t, n + 1, q - 1)
            /\ Padded(s, n, q) = Padded(t, n + 1, q)
        BY <1>2
      <3> QED
        BY <3>1 DEF WindowOK
    <2>2. n + 1 - 1 = n
      OBVIOUS
    <2> HIDE DEF s
    <2> QED
      BY <2>1, <2>2 DEF PrefixOK
  <1>5. WellFormed(s, n) <=> PrefixOK(s, n, n + 1)
    BY <1>1, WellFormedIsLocal
  <1>6. Padded(t, n + 1, (n + 1) - 1) = 0
    BY DEF Padded
  <1>7. LegalPrefix(t, n + 1, n + 1) <=> PrefixOK(t, n + 1, n + 1)
    BY <1>6 DEF LegalPrefix
  <1> QED
    BY <1>3, <1>4, <1>5, <1>7

-----------------------------------------------------------------------------
(***************************************************************************)
(* The two tables.                                                         *)
(***************************************************************************)

\* The classes that lead out of a state other than ACCEPT, and where to.
LEMMA Rows ==
  /\ \A t \in 0 .. 11 : utf8d_transition[t + 1] =
       IF t = 0 THEN 0 ELSE IF t = 2 THEN 2 ELSE IF t = 3 THEN 3
       ELSE IF t = 4 THEN 5 ELSE IF t = 5 THEN 8 ELSE IF t = 6 THEN 7
       ELSE IF t = 10 THEN 4 ELSE IF t = 11 THEN 6 ELSE 1
  /\ \A t \in 0 .. 11 : utf8d_transition[16 + t + 1] = 1
  /\ \A t \in 0 .. 11 : utf8d_transition[32 + t + 1] = IF t \in {1, 7, 9} THEN 0 ELSE 1
  /\ \A t \in 0 .. 11 : utf8d_transition[48 + t + 1] = IF t \in {1, 7, 9} THEN 2 ELSE 1
  /\ \A t \in 0 .. 11 : utf8d_transition[64 + t + 1] = IF t = 7 THEN 2 ELSE 1
  /\ \A t \in 0 .. 11 : utf8d_transition[80 + t + 1] = IF t \in {1, 9} THEN 2 ELSE 1
  /\ \A t \in 0 .. 11 : utf8d_transition[96 + t + 1] = IF t \in {7, 9} THEN 3 ELSE 1
  /\ \A t \in 0 .. 11 : utf8d_transition[112 + t + 1] = IF t \in {1, 7, 9} THEN 3 ELSE 1
  /\ \A t \in 0 .. 11 : utf8d_transition[128 + t + 1] = IF t = 1 THEN 3 ELSE 1
  BY SMT DEF utf8d_transition

LEMMA ShiftedRows ==
  \A n \in 1 .. 144 : shifted_utf8d_transition[n] = 16 * utf8d_transition[n]
  BY SMT DEF utf8d_transition, shifted_utf8d_transition

LEMMA Classes ==
  ASSUME NEW b \in Byte
  PROVE  /\ utf8d(b) \in 0 .. 11
         /\ utf8d(b) = 0 <=> b <= 127
         /\ utf8d(b) = 1 <=> b \in 128 .. 143
         /\ utf8d(b) = 9 <=> b \in 144 .. 159
         /\ utf8d(b) = 7 <=> b \in 160 .. 191
         /\ utf8d(b) = 2 <=> b \in 194 .. 223
         /\ utf8d(b) = 10 <=> b = 224
         /\ utf8d(b) = 3 <=> b \in (225 .. 239) \ {237}
         /\ utf8d(b) = 4 <=> b = 237
         /\ utf8d(b) = 11 <=> b = 240
         /\ utf8d(b) = 6 <=> b \in 241 .. 243
         /\ utf8d(b) = 5 <=> b = 244
  <1> b \in Int /\ 0 <= b /\ b <= 255
    BY DEF Byte
  <1>1. 0 <= b /\ b <= 127 => utf8d(b) = 0
    BY DEF utf8d
  <1>2. 128 <= b /\ b <= 143 => utf8d(b) = 1
    BY DEF utf8d
  <1>3. 144 <= b /\ b <= 159 => utf8d(b) = 9
    BY DEF utf8d
  <1>4. 160 <= b /\ b <= 191 => utf8d(b) = 7
    BY DEF utf8d
  <1>5. 192 <= b /\ b <= 193 => utf8d(b) = 8
    BY DEF utf8d
  <1>6. 194 <= b /\ b <= 223 => utf8d(b) = 2
    BY DEF utf8d
  <1>7. b = 224 => utf8d(b) = 10
    BY DEF utf8d
  <1>8. 225 <= b /\ b <= 236 => utf8d(b) = 3
    BY DEF utf8d
  <1>9. b = 237 => utf8d(b) = 4
    BY DEF utf8d
  <1>10. 238 <= b /\ b <= 239 => utf8d(b) = 3
    BY DEF utf8d
  <1>11. b = 240 => utf8d(b) = 11
    BY DEF utf8d
  <1>12. 241 <= b /\ b <= 243 => utf8d(b) = 6
    BY DEF utf8d
  <1>13. b = 244 => utf8d(b) = 5
    BY DEF utf8d
  <1>14. 245 <= b /\ b <= 255 => utf8d(b) = 8
    BY DEF utf8d
  <1> QED
    BY <1>1, <1>2, <1>3, <1>4, <1>5, <1>6, <1>7, <1>8, <1>9, <1>10, <1>11, <1>12, <1>13, <1>14

-----------------------------------------------------------------------------
(***************************************************************************)
(* One byte.                                                               *)
(***************************************************************************)

LEMMA RejectIsFinal ==
  ASSUME NEW b \in Byte
  PROVE  updatestate(1, b) = 1
  <1>1. utf8d(b) \in 0 .. 11
    BY Classes
  <1> QED
    BY <1>1, Rows DEF updatestate

\* From a state that is right about the bytes before, the automaton rejects
\* what may not follow, and is right about the rest.
LEMMA StepMeans ==
  ASSUME NEW st \in (0 .. 8) \ {1},
         NEW b4 \in Byte, NEW b3 \in Byte, NEW b2 \in Byte, NEW b1 \in Byte,
         NEW b \in Byte,
         Follows(b4, b3, b2, b1), b1 \notin {192, 193}, Means(st, b3, b2, b1)
  PROVE  /\ updatestate(st, b) \in 0 .. 8
         /\ updatestate(st, b) = 1 <=>
              ~(Follows(b3, b2, b1, b) /\ b \notin {192, 193})
         /\ updatestate(st, b) # 1 => Means(updatestate(st, b), b2, b1, b)
  <1> DEFINE t == utf8d(b)
  <1>b. /\ b \in Int /\ 0 <= b /\ b <= 255 /\ b1 \in Int /\ 0 <= b1 /\ b1 <= 255
        /\ b2 \in Int /\ 0 <= b2 /\ b2 <= 255 /\ b3 \in Int /\ 0 <= b3 /\ b3 <= 255
        /\ b4 \in Int /\ 0 <= b4 /\ b4 <= 255
    BY DEF Byte
  <1>c. /\ t \in 0 .. 11
        /\ t = 0 <=> b <= 127
        /\ t = 1 <=> b \in 128 .. 143
        /\ t = 9 <=> b \in 144 .. 159
        /\ t = 7 <=> b \in 160 .. 191
        /\ t = 2 <=> b \in 194 .. 223
        /\ t = 10 <=> b = 224
        /\ t = 3 <=> b \in (225 .. 239) \ {237}
        /\ t = 4 <=> b = 237
        /\ t = 11 <=> b = 240
        /\ t = 6 <=> b \in 241 .. 243
        /\ t = 5 <=> b = 244
    BY Classes
  <1>0. CASE st = 0
    <2>1. updatestate(st, b) =
            IF t = 0 THEN 0 ELSE IF t = 2 THEN 2 ELSE IF t = 3 THEN 3
            ELSE IF t = 4 THEN 5 ELSE IF t = 5 THEN 8 ELSE IF t = 6 THEN 7
            ELSE IF t = 10 THEN 4 ELSE IF t = 11 THEN 6 ELSE 1
      BY <1>0, <1>c, Rows DEF updatestate
    <2>2. b1 < 192 /\ b2 < 224 /\ b3 < 240
      BY <1>0, <1>b DEF Means, Owed
    <2>3. Follows(b3, b2, b1, b) <=> b <= 244 /\ ~(b \in 128 .. 191)
      BY <1>b, <2>2 DEF Follows, Owed, Continuation
    <2> HIDE DEF t
    <2>4. CASE b <= 127
      <3>1. updatestate(st, b) = 0
        BY <1>b, <1>c, <2>1, <2>4
      <3> QED
        BY <1>b, <2>2, <2>3, <2>4, <3>1 DEF Means, Owed
    <2>5. CASE b \in 128 .. 193 \/ b >= 245
      <3>1. updatestate(st, b) = 1
        BY <1>b, <1>c, <2>1, <2>5
      <3> QED
        BY <1>b, <2>3, <2>5, <3>1
    <2>6. CASE b \in 194 .. 244
      <3>1. updatestate(st, b) =
              IF b <= 223 THEN 2 ELSE IF b = 224 THEN 4 ELSE IF b = 237 THEN 5
              ELSE IF b <= 239 THEN 3 ELSE IF b = 240 THEN 6
              ELSE IF b <= 243 THEN 7 ELSE 8
        BY <1>b, <1>c, <2>1, <2>6
      <3> QED
        BY <1>b, <2>3, <2>6, <3>1 DEF Means
    <2> QED
      BY <1>b, <2>4, <2>5, <2>6
  <1>2. CASE st = 2
    <2>1. updatestate(st, b) = IF t \in {1, 7, 9} THEN 0 ELSE 1
      BY <1>2, <1>c, Rows DEF updatestate
    <2>2. updatestate(st, b) = IF b \in 128 .. 191 THEN 0 ELSE 1
      BY <1>b, <1>c, <2>1
    <2>3. /\ Owed(b3, b2, b1) /\ b1 < 224 /\ b2 < 240 /\ b1 \notin {192, 193}
      BY <1>2, <1>b DEF Means, Owed, Continuation, Follows
    <2> QED
      BY <1>b, <2>2, <2>3 DEF Means, Follows, Owed, Continuation
  <1>3. CASE st = 3
    <2>1. updatestate(st, b) = IF t \in {1, 7, 9} THEN 2 ELSE 1
      BY <1>3, <1>c, Rows DEF updatestate
    <2>2. updatestate(st, b) = IF b \in 128 .. 191 THEN 2 ELSE 1
      BY <1>b, <1>c, <2>1
    <2> QED
      BY <1>b, <1>3, <2>2 DEF Means, Follows, Owed, Continuation
  <1>4. CASE st = 4
    <2>1. updatestate(st, b) = IF t = 7 THEN 2 ELSE 1
      BY <1>4, <1>c, Rows DEF updatestate
    <2>2. updatestate(st, b) = IF b \in 160 .. 191 THEN 2 ELSE 1
      BY <1>b, <1>c, <2>1
    <2> QED
      BY <1>b, <1>4, <2>2 DEF Means, Follows, Owed, Continuation
  <1>5. CASE st = 5
    <2>1. updatestate(st, b) = IF t \in {1, 9} THEN 2 ELSE 1
      BY <1>5, <1>c, Rows DEF updatestate
    <2>2. updatestate(st, b) = IF b \in 128 .. 159 THEN 2 ELSE 1
      BY <1>b, <1>c, <2>1
    <2> QED
      BY <1>b, <1>5, <2>2 DEF Means, Follows, Owed, Continuation
  <1>6. CASE st = 6
    <2>1. updatestate(st, b) = IF t \in {7, 9} THEN 3 ELSE 1
      BY <1>6, <1>c, Rows DEF updatestate
    <2>2. updatestate(st, b) = IF b \in 144 .. 191 THEN 3 ELSE 1
      BY <1>b, <1>c, <2>1
    <2> QED
      BY <1>b, <1>6, <2>2 DEF Means, Follows, Owed, Continuation
  <1>7. CASE st = 7
    <2>1. updatestate(st, b) = IF t \in {1, 7, 9} THEN 3 ELSE 1
      BY <1>7, <1>c, Rows DEF updatestate
    <2>2. updatestate(st, b) = IF b \in 128 .. 191 THEN 3 ELSE 1
      BY <1>b, <1>c, <2>1
    <2> QED
      BY <1>b, <1>7, <2>2 DEF Means, Follows, Owed, Continuation
  <1>8. CASE st = 8
    <2>1. updatestate(st, b) = IF t = 1 THEN 3 ELSE 1
      BY <1>8, <1>c, Rows DEF updatestate
    <2>2. updatestate(st, b) = IF b \in 128 .. 143 THEN 3 ELSE 1
      BY <1>b, <1>c, <2>1
    <2> QED
      BY <1>b, <1>8, <2>2 DEF Means, Follows, Owed, Continuation
  <1> QED
    BY <1>0, <1>2, <1>3, <1>4, <1>5, <1>6, <1>7, <1>8

\* The multiplied state is the other one, times 16.
LEMMA ShiftlessUpdate ==
  ASSUME NEW st \in 0 .. 8, NEW b \in Byte
  PROVE  /\ updatestate(st, b) \in 0 .. 8
         /\ shiftless_updatestate(16 * st, b) = 16 * updatestate(st, b)
  <1>1. utf8d(b) \in 0 .. 11
    BY Classes
  <1>2. 16 * st + utf8d(b) + 1 \in 1 .. 144
    BY <1>1
  <1>3. shiftless_updatestate(16 * st, b) = 16 * updatestate(st, b)
    BY <1>2, ShiftedRows DEF shiftless_updatestate, updatestate
  <1>4. \A n \in 1 .. 144 : utf8d_transition[n] \in 0 .. 8
    BY SMT DEF utf8d_transition
  <1> QED
    BY <1>2, <1>3, <1>4 DEF updatestate

(***************************************************************************)
(* The automaton that has read q bytes.                                    *)
(***************************************************************************)

\* Its state is right about them.
Knows(st, s, n, q) ==
  /\ st \in 0 .. 8
  /\ st = UTF8_REJECT <=> ~LegalPrefix(s, n, q)
  /\ st # UTF8_REJECT =>
       Means(st, Padded(s, n, q - 3), Padded(s, n, q - 2), Padded(s, n, q - 1))

LEMMA KnowsAtStart ==
  ASSUME NEW n, NEW s
  PROVE  Knows(UTF8_ACCEPT, s, n, 0)
  <1>1. \A x \in Int : x < 0 => Padded(s, n, x) = 0
    BY DEF Padded
  <1>2. Padded(s, n, 0 - 3) = 0 /\ Padded(s, n, 0 - 2) = 0 /\ Padded(s, n, 0 - 1) = 0
    BY <1>1
  <1>3. LegalPrefix(s, n, 0)
    BY <1>2 DEF LegalPrefix, PrefixOK
  <1>4. Means(0, 0, 0, 0)
    BY DEF Means, Owed
  <1> QED
    BY <1>2, <1>3, <1>4 DEF Knows, UTF8_ACCEPT, UTF8_REJECT

\* One byte more.
LEMMA KnowsStep ==
  ASSUME NEW n \in Nat, NEW s, \A x \in 0 .. n - 1 : s[x] \in Byte,
         NEW q \in 0 .. n - 1, NEW st, Knows(st, s, n, q)
  PROVE  Knows(updatestate(st, s[q]), s, n, q + 1)
  <1>1. s[q] \in Byte /\ Padded(s, n, q) = s[q]
    BY DEF Padded
  <1>2. (q + 1) - 1 = q /\ (q + 1) - 2 = q - 1 /\ (q + 1) - 3 = q - 2
    OBVIOUS
  <1>3. q - 1 - 1 = q - 2 /\ q - 1 - 2 = q - 3 /\ q - 1 - 3 = q - 4
    OBVIOUS
  <1>4. LegalPrefix(s, n, q + 1) <=>
          PrefixOK(s, n, q) /\ WindowOK(s, n, q) /\ s[q] \notin {192, 193}
    BY <1>1, <1>2, PrefixStep DEF LegalPrefix
  <1>5. CASE st = 1
    <2>1. ~LegalPrefix(s, n, q)
      BY <1>5 DEF Knows, UTF8_REJECT
    <2>2. ~LegalPrefix(s, n, q + 1)
      BY <2>1, LegalShrinks
    <2>3. updatestate(1, s[q]) = 1
      BY <1>1, RejectIsFinal
    <2> QED
      BY <1>5, <2>2, <2>3 DEF Knows, UTF8_REJECT
  <1>6. CASE st # 1
    <2> DEFINE b4 == Padded(s, n, q - 4)
               b3 == Padded(s, n, q - 3)
               b2 == Padded(s, n, q - 2)
               b1 == Padded(s, n, q - 1)
    <2>1. LegalPrefix(s, n, q) /\ Means(st, b3, b2, b1)
      BY <1>6 DEF Knows, UTF8_REJECT
    <2>2. b1 \notin {192, 193} /\ PrefixOK(s, n, q)
      BY <2>1 DEF LegalPrefix
    <2>3. Follows(b4, b3, b2, b1)
      BY <1>3, <2>2, EarlierWindow DEF WindowOK
    <2>4. b4 \in Byte /\ b3 \in Byte /\ b2 \in Byte /\ b1 \in Byte
      BY DEF Padded, Byte
    <2>5. WindowOK(s, n, q) <=> Follows(b3, b2, b1, s[q])
      BY <1>1 DEF WindowOK
    <2>6. st \in (0 .. 8) \ {1}
      BY <1>6 DEF Knows
    <2> HIDE DEF b4, b3, b2, b1
    <2>7. /\ updatestate(st, s[q]) \in 0 .. 8
          /\ updatestate(st, s[q]) = 1 <=>
               ~(Follows(b3, b2, b1, s[q]) /\ s[q] \notin {192, 193})
          /\ updatestate(st, s[q]) # 1 =>
               Means(updatestate(st, s[q]), b2, b1, s[q])
      BY <1>1, <2>1, <2>2, <2>3, <2>4, <2>6, StepMeans
    <2>8. updatestate(st, s[q]) = 1 <=> ~LegalPrefix(s, n, q + 1)
      BY <1>4, <2>2, <2>5, <2>7
    <2> QED
      BY <1>1, <1>2, <2>7, <2>8 DEF b2, b1, Knows, UTF8_REJECT
  <1> QED
    BY <1>5, <1>6
=============================================================================
