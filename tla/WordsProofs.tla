---------------------------- MODULE WordsProofs ----------------------------
(***************************************************************************)
(* Proofs about the word-wise ASCII checks, for all strings and addresses: *)
(* no word is loaded past the string although "end - 32" may lie before    *)
(* it, the masks hold exactly what was read, and so the answer is right.   *)
(***************************************************************************)
EXTENDS AsciiWords, TLAPS

\* The string lies where Calls says.
Placed == addr >= 32 /\ addr + len < AddrMod

\* An answer has been given only after the whole string.
AtEnd == pc = "done" => src = end /\ (result <=> Ascii(data, len))

\* What the loops before have left.
Left ==
  /\ pc = "by8" => end - src <= 32
  /\ pc = "bytes" => end - src <= 8

IInv ==
  /\ TypeOK
  /\ Placed
  /\ Left
  /\ MaskIsExact
  /\ AtEnd

\* No subtraction wraps around: the lowest addresses are not the string's.
LEMMA NoWrap ==
  ASSUME NEW e \in Nat, e < AddrMod, NEW n \in 0 .. 32, n <= e
  PROVE  (e - n) % AddrMod = e - n
  <1>1. AddrMod \in Nat /\ e - n \in Nat /\ e - n < AddrMod
    BY CallsAssumption
  <1>2. \A x \in Nat : x < AddrMod => x % AddrMod = x
    BY <1>1
  <1> QED
    BY <1>1, <1>2

LEMMA FarFromEnd ==
  ASSUME TypeOK, Placed, NEW n \in 0 .. 32
  PROVE  farFromEnd(n) <=> src + n < end
  <1>1. end \in Nat /\ end < AddrMod /\ n <= end /\ src \in Int
    BY DEF TypeOK, Placed, end
  <1>2. (end - n) % AddrMod = end - n
    BY <1>1, NoWrap
  <1> QED
    BY <1>1, <1>2 DEF farFromEnd

\* One more stretch of the string is ASCII iff its bytes are.
LEMMA AsciiExtends ==
  ASSUME NEW s, NEW p \in Nat, NEW n \in Nat
  PROVE  Ascii(s, p + n) <=> Ascii(s, p) /\ \A b \in 0 .. n - 1 : s[p + b] < 128
  <1>1. ASSUME Ascii(s, p + n)
        PROVE  Ascii(s, p) /\ \A b \in 0 .. n - 1 : s[p + b] < 128
    BY <1>1 DEF Ascii
  <1>2. ASSUME Ascii(s, p), \A b \in 0 .. n - 1 : s[p + b] < 128
        PROVE  Ascii(s, p + n)
    <2> SUFFICES ASSUME NEW q \in 0 .. p + n - 1 PROVE s[q] < 128
      BY DEF Ascii
    <2>1. CASE q < p
      BY <1>2, <2>1 DEF Ascii
    <2>2. CASE q >= p
      <3>1. q - p \in 0 .. n - 1 /\ p + (q - p) = q
        BY <2>2
      <3> QED
        BY <1>2, <3>1
    <2> QED
      BY <2>1, <2>2
  <1> QED
    BY <1>1, <1>2

\* A word's mask is empty iff its eight bytes are ASCII.
LEMMA WordIsAscii ==
  ASSUME TypeOK, NEW w \in 0 .. 3, src + 8 * w + 8 <= end
  PROVE  /\ word(w) \in SUBSET (0 .. 7)
         /\ word(w) = {} <=> \A b \in 0 .. 7 : data[src - addr + 8 * w + b] < 128
  <1>1. word(w) \in SUBSET (0 .. 7)
    BY DEF word
  <1>2. \A b \in 0 .. 7 : data[src - addr + 8 * w + b] \in Byte
    <2> SUFFICES ASSUME NEW b \in 0 .. 7
                 PROVE  data[src - addr + 8 * w + b] \in Byte
      OBVIOUS
    <2>1. src - addr + 8 * w + b \in 0 .. len - 1
      BY DEF TypeOK, end
    <2> QED
      BY <2>1 DEF TypeOK, Strings
  <1>3. \A b \in 0 .. 7 : data[src - addr + 8 * w + b] >= 128 <=>
                            ~(data[src - addr + 8 * w + b] < 128)
    <2>1. \A x \in Byte : x >= 128 <=> ~(x < 128)
      BY DEF Byte
    <2> QED
      BY <1>2, <2>1
  <1> QED
    BY <1>1, <1>3 DEF word

\* Nothing was found iff no mask has a bit.
LEMMA FinalMask ==
  ASSUME TypeOK
  PROVE  final_mask = {} <=> (\A m \in 1 .. 4 : mask[m] = {}) /\ ~tail_mask
  <1>1. UNION {mask[m] : m \in 1 .. 4} = {} <=> \A m \in 1 .. 4 : mask[m] = {}
    OBVIOUS
  <1> DEFINE words == UNION {mask[m] : m \in 1 .. 4}
             tail == IF tail_mask THEN {0} ELSE {}
  <1>2. tail = {} <=> ~tail_mask
    OBVIOUS
  <1>3. final_mask = words \union tail
    BY DEF final_mask
  <1> HIDE DEF words, tail
  <1>4. final_mask = {} <=> words = {} /\ tail = {}
    BY <1>3
  <1> QED
    BY <1>1, <1>2, <1>4 DEF words

\* The same of the next state.
LEMMA FinalMaskNext ==
  ASSUME TypeOK'
  PROVE  final_mask' = {} <=> (\A m \in 1 .. 4 : mask'[m] = {}) /\ ~tail_mask'
  <1>1. UNION {mask'[m] : m \in 1 .. 4} = {} <=> \A m \in 1 .. 4 : mask'[m] = {}
    OBVIOUS
  <1> DEFINE words == UNION {mask'[m] : m \in 1 .. 4}
             tail == IF tail_mask' THEN {0} ELSE {}
  <1>2. tail = {} <=> ~tail_mask'
    OBVIOUS
  <1>3. final_mask' = words \union tail
    BY DEF final_mask
  <1> HIDE DEF words, tail
  <1>4. final_mask' = {} <=> words = {} /\ tail = {}
    BY <1>3
  <1> QED
    BY <1>1, <1>2, <1>4 DEF words

-----------------------------------------------------------------------------
LEMMA InitIInv == Init => IInv
  <1> SUFFICES ASSUME Init PROVE IInv
    OBVIOUS
  <1>1. /\ len \in Nat /\ data \in Strings(len) /\ addr \in Nat /\ addr >= 32
        /\ addr + len < AddrMod
    BY CallsAssumption DEF Init
  <1>2. /\ pc = "by32" /\ src = addr /\ mask = [m \in 1 .. 4 |-> {}]
        /\ tail_mask = FALSE /\ result = FALSE
    BY DEF Init
  <1>3. TypeOK
    <2>1. src \in addr .. end
      BY <1>1, <1>2 DEF end
    <2>2. mask \in [1 .. 4 -> SUBSET (0 .. 7)]
      BY <1>2
    <2> QED
      BY <1>1, <1>2, <2>1, <2>2 DEF TypeOK
  <1>4. Placed
    BY <1>1 DEF Placed
  <1>5. Left
    BY <1>2 DEF Left
  <1>6. MaskIsExact
    BY <1>1, <1>2, <1>3, FinalMask DEF MaskIsExact, Ascii
  <1> QED
    BY <1>2, <1>3, <1>4, <1>5, <1>6 DEF IInv, AtEnd

LEMMA NextIInv == IInv /\ [Next]_vars => IInv'
  <1> SUFFICES ASSUME IInv, [Next]_vars PROVE IInv'
    OBVIOUS
  <1>1. /\ TypeOK /\ Placed /\ MaskIsExact /\ AtEnd /\ Left
        /\ len \in Nat /\ addr \in Nat /\ src \in addr .. end /\ end = addr + len
        /\ data \in Strings(len) /\ mask \in [1 .. 4 -> SUBSET (0 .. 7)]
        /\ tail_mask \in BOOLEAN
    BY DEF IInv, TypeOK, end
  <1>2. \A n \in 0 .. 32 : farFromEnd(n) <=> src + n < end
    BY <1>1, FarFromEnd
  <1>3. CASE Or32
    <2>1. /\ pc = "by32" /\ pc' = "by32" /\ src' = src + 32 /\ data' = data
          /\ len' = len /\ addr' = addr /\ tail_mask' = tail_mask /\ result' = result
          /\ mask' = [m \in 1 .. 4 |-> mask[m] \union word(m - 1)]
          /\ end' = end /\ src + 32 <= end
      BY <1>1, <1>2, <1>3 DEF Or32, end
    <2>2. \A w \in 0 .. 3 : word(w) \in SUBSET (0 .. 7) /\
            (word(w) = {} <=> \A b \in 0 .. 7 : data[src - addr + 8 * w + b] < 128)
      BY <1>1, <2>1, WordIsAscii
    <2>3. TypeOK'
      <3>1. mask' \in [1 .. 4 -> SUBSET (0 .. 7)]
        <4>1. \A m \in 1 .. 4 : m - 1 \in 0 .. 3
          OBVIOUS
        <4> QED
          BY <1>1, <2>1, <2>2, <4>1
      <3>2. src' \in addr' .. end'
        BY <1>1, <2>1
      <3> QED
        BY <1>1, <2>1, <3>1, <3>2 DEF TypeOK
    <2>4. Placed'
      BY <1>1, <2>1 DEF Placed
    <2>5. Left'
      BY <1>1, <2>1, <2>3, <2>4 DEF Left
    <2>6. MaskIsExact'
      <3>1. final_mask' = {} <=> (\A m \in 1 .. 4 : mask'[m] = {}) /\ ~tail_mask'
        BY <2>3, FinalMaskNext
      <3>2. (\A m \in 1 .. 4 : mask'[m] = {}) <=>
              (\A m \in 1 .. 4 : mask[m] = {}) /\ (\A w \in 0 .. 3 : word(w) = {})
        BY <2>1
      <3>3. (\A w \in 0 .. 3 : word(w) = {}) <=>
              \A b \in 0 .. 32 - 1 : data[(src - addr) + b] < 128
        <4>1. ASSUME \A w \in 0 .. 3 : word(w) = {}, NEW b \in 0 .. 31
              PROVE  data[(src - addr) + b] < 128
          <5>1. b \div 8 \in 0 .. 3 /\ b % 8 \in 0 .. 7 /\ (8 * (b \div 8)) + (b % 8) = b
            OBVIOUS
          <5>2. data[src - addr + 8 * (b \div 8) + (b % 8)] < 128
            BY <2>2, <4>1, <5>1
          <5>3. src - addr + 8 * (b \div 8) + (b % 8) = (src - addr) + b
            BY <1>1, <5>1
          <5> QED
            BY <5>2, <5>3
        <4>2. ASSUME \A b \in 0 .. 31 : data[(src - addr) + b] < 128, NEW w \in 0 .. 3
              PROVE  word(w) = {}
          <5>1. \A b \in 0 .. 7 : /\ 8 * w + b \in 0 .. 31
                                  /\ src - addr + 8 * w + b = (src - addr) + (8 * w + b)
            BY <1>1
          <5> QED
            BY <2>2, <4>2, <5>1
        <4> QED
          BY <4>1, <4>2
      <3>4. Ascii(data, (src - addr) + 32) <=>
              Ascii(data, src - addr) /\ \A b \in 0 .. 32 - 1 : data[(src - addr) + b] < 128
        <4>1. src - addr \in Nat
          BY <1>1
        <4> QED
          BY <4>1, AsciiExtends
      <3>5. src' - addr' = (src - addr) + 32
        BY <1>1, <2>1
      <3> QED
        BY <1>1, <2>1, <3>1, <3>2, <3>3, <3>4, <3>5, FinalMask DEF MaskIsExact
    <2> QED
      BY <2>1, <2>3, <2>4, <2>5, <2>6 DEF IInv, AtEnd
  <1>4. CASE To8
    <2>1. /\ pc = "by32" /\ pc' = "by8" /\ UNCHANGED <<data, len, addr, src, mask, tail_mask, result>>
          /\ end' = end /\ end - src <= 32
      BY <1>1, <1>2, <1>4 DEF To8, end
    <2>2. TypeOK' /\ Placed'
      BY <1>1, <2>1 DEF TypeOK, Placed
    <2>3. Left'
      BY <1>1, <2>1, <2>2 DEF Left
    <2>4. MaskIsExact'
      BY <1>1, <2>1 DEF MaskIsExact, final_mask
    <2> QED
      BY <2>1, <2>2, <2>3, <2>4 DEF IInv, AtEnd
  <1>5. CASE Or8
    <2>1. /\ pc = "by8" /\ pc' = "by8" /\ src' = src + 8 /\ data' = data
          /\ len' = len /\ addr' = addr /\ tail_mask' = tail_mask /\ result' = result
          /\ mask' = [mask EXCEPT ![1] = @ \union word(0)]
          /\ end' = end /\ src + 8 <= end /\ end - src <= 32
      BY <1>1, <1>2, <1>5 DEF Or8, Left, end
    <2>2. /\ word(0) \in SUBSET (0 .. 7)
          /\ word(0) = {} <=> \A b \in 0 .. 7 : data[src - addr + 8 * 0 + b] < 128
      <3>1. src + 8 * 0 + 8 <= end
        BY <1>1, <2>1
      <3> QED
        BY <1>1, <3>1, WordIsAscii
    <2>3. TypeOK'
      <3>1. mask' \in [1 .. 4 -> SUBSET (0 .. 7)]
        BY <1>1, <2>1, <2>2
      <3>2. src' \in addr' .. end'
        BY <1>1, <2>1
      <3> QED
        BY <1>1, <2>1, <3>1, <3>2 DEF TypeOK
    <2>4. Placed'
      BY <1>1, <2>1 DEF Placed
    <2>5. Left'
      BY <1>1, <2>1, <2>3, <2>4 DEF Left
    <2>6. MaskIsExact'
      <3>1. final_mask' = {} <=> (\A m \in 1 .. 4 : mask'[m] = {}) /\ ~tail_mask'
        BY <2>3, FinalMaskNext
      <3>2. (\A m \in 1 .. 4 : mask'[m] = {}) <=>
              (\A m \in 1 .. 4 : mask[m] = {}) /\ word(0) = {}
        BY <1>1, <2>1
      <3>3. \A b \in 0 .. 7 : src - addr + 8 * 0 + b = (src - addr) + b
        BY <1>1
      <3>4. word(0) = {} <=> \A b \in 0 .. 8 - 1 : data[(src - addr) + b] < 128
        BY <2>2, <3>3
      <3>5. Ascii(data, (src - addr) + 8) <=>
              Ascii(data, src - addr) /\ \A b \in 0 .. 8 - 1 : data[(src - addr) + b] < 128
        <4>1. src - addr \in Nat
          BY <1>1
        <4> QED
          BY <4>1, AsciiExtends
      <3>6. src' - addr' = (src - addr) + 8
        BY <1>1, <2>1
      <3> QED
        BY <1>1, <2>1, <3>1, <3>2, <3>4, <3>5, <3>6, FinalMask DEF MaskIsExact
    <2> QED
      BY <2>1, <2>3, <2>4, <2>5, <2>6 DEF IInv, AtEnd
  <1>6. CASE ToBytes
    <2>1. /\ pc = "by8" /\ pc' = "bytes" /\ UNCHANGED <<data, len, addr, src, mask, tail_mask, result>>
          /\ end' = end /\ end - src <= 8
      BY <1>1, <1>2, <1>6 DEF ToBytes, end
    <2>2. TypeOK' /\ Placed'
      BY <1>1, <2>1 DEF TypeOK, Placed
    <2>3. Left'
      BY <1>1, <2>1 DEF Left
    <2>4. MaskIsExact'
      BY <1>1, <2>1 DEF MaskIsExact, final_mask
    <2> QED
      BY <2>1, <2>2, <2>3, <2>4 DEF IInv, AtEnd
  <1>7. CASE Or1
    <2>1. /\ pc = "bytes" /\ pc' = "bytes" /\ src' = src + 1 /\ data' = data
          /\ len' = len /\ addr' = addr /\ mask' = mask /\ result' = result
          /\ tail_mask' = (tail_mask \/ data[src - addr] >= 128)
          /\ end' = end /\ src < end /\ end - src <= 8
      BY <1>1, <1>7 DEF Or1, Left, end
    <2>2. data[src - addr] \in Byte /\ src - addr \in Nat
      BY <1>1, <2>1 DEF Strings
    <2>3. TypeOK'
      <3>1. src' \in addr' .. end'
        BY <1>1, <2>1
      <3> QED
        BY <1>1, <2>1, <3>1 DEF TypeOK
    <2>4. Placed'
      BY <1>1, <2>1 DEF Placed
    <2>5. Left'
      BY <1>1, <2>1 DEF Left
    <2>6. MaskIsExact'
      <3>1. final_mask' = {} <=> (\A m \in 1 .. 4 : mask'[m] = {}) /\ ~tail_mask'
        BY <2>3, FinalMaskNext
      <3>2. Ascii(data, (src - addr) + 1) <=>
              Ascii(data, src - addr) /\ \A b \in 0 .. 1 - 1 : data[(src - addr) + b] < 128
        BY <2>2, AsciiExtends
      <3>3. (\A b \in 0 .. 1 - 1 : data[(src - addr) + b] < 128) <=> data[src - addr] < 128
        <4>1. \A b \in 0 .. 1 - 1 : b = 0 /\ (src - addr) + b = src - addr
          BY <2>2
        <4> QED
          BY <4>1
      <3>4. src' - addr' = (src - addr) + 1
        BY <1>1, <2>1
      <3>5. data[src - addr] >= 128 <=> ~(data[src - addr] < 128)
        BY <2>2 DEF Byte
      <3> QED
        BY <1>1, <2>1, <3>1, <3>2, <3>3, <3>4, <3>5, FinalMask DEF MaskIsExact
    <2> QED
      BY <2>1, <2>3, <2>4, <2>5, <2>6 DEF IInv, AtEnd
  <1>8. CASE Return
    <2>1. /\ pc = "bytes" /\ pc' = "done" /\ UNCHANGED <<data, len, addr, src, mask, tail_mask>>
          /\ result' = (final_mask = {}) /\ end' = end /\ src = end
      BY <1>1, <1>8 DEF Return, end
    <2>2. TypeOK' /\ Placed'
      BY <1>1, <2>1 DEF TypeOK, Placed
    <2>3. MaskIsExact'
      BY <1>1, <2>1 DEF MaskIsExact, final_mask
    <2>4. src - addr = len
      BY <1>1, <2>1
    <2>5. AtEnd'
      BY <1>1, <2>1, <2>4 DEF AtEnd, MaskIsExact
    <2> QED
      BY <2>1, <2>2, <2>3, <2>5 DEF IInv, Left
  <1>9. CASE UNCHANGED vars
    BY <1>9 DEF vars, IInv, TypeOK, Placed, Left, MaskIsExact, AtEnd, end, final_mask
  <1> QED
    BY <1>3, <1>4, <1>5, <1>6, <1>7, <1>8, <1>9 DEF Next

LEMMA SpecIInv == Spec => []IInv
  BY InitIInv, NextIInv, PTL DEF Spec, Safety

-----------------------------------------------------------------------------
(* The pointer stays within the string, or at its end.                     *)
THEOREM WordsTypeCorrect == Spec => []TypeOK
  <1>1. IInv => TypeOK
    BY DEF IInv
  <1> QED
    BY <1>1, SpecIInv, PTL

(* No load reaches past the string, wherever it lies in memory and however *)
(* short it is, and each loop leaves the next less than one stride.        *)
THEOREM WordsLoadsInBounds == Spec => []LoadsInBounds
  <1>1. IInv => LoadsInBounds
    <2> SUFFICES ASSUME IInv PROVE LoadsInBounds
      OBVIOUS
    <2>1. \A n \in 0 .. 32 : farFromEnd(n) <=> src + n < end
      BY FarFromEnd DEF IInv
    <2>2. src \in Int /\ end \in Int
      BY DEF IInv, TypeOK, end
    <2> QED
      BY <2>1, <2>2 DEF IInv, Left, LoadsInBounds
  <1> QED
    BY <1>1, SpecIInv, PTL

(* The masks have found something iff it is there, after any number of     *)
(* words and bytes.                                                        *)
THEOREM WordsMaskIsExact == Spec => []MaskIsExact
  <1>1. IInv => MaskIsExact
    BY DEF IInv
  <1> QED
    BY <1>1, SpecIInv, PTL

(* The caller sees one answer, and the right one: the safety part of what  *)
(* ValidatorCall promises.                                                 *)
THEOREM WordsSafetyOfCall == Spec => Call!Safety
  <1>1. Init => Call!Init
    BY CallsAssumption DEF Init, Call!Init
  <1>2. IInv /\ IInv' /\ [Next]_vars => [Call!Answer]_(Call!callVars)
    <2> SUFFICES ASSUME IInv, IInv', [Next]_vars
                 PROVE  [Call!Answer]_(Call!callVars)
      OBVIOUS
    <2>1. CASE Or32 \/ To8 \/ Or8 \/ ToBytes \/ Or1 \/ UNCHANGED vars
      BY <2>1 DEF Or32, To8, Or8, ToBytes, Or1, vars, Call!callVars
    <2>2. CASE Return
      <3>1. /\ pc = "bytes" /\ pc' = "done" /\ data' = data /\ len' = len
            /\ result' \in BOOLEAN
        BY <2>2 DEF Return
      <3>2. result' <=> Ascii(data, len)
        BY <3>1 DEF IInv, AtEnd
      <3> QED
        BY <3>1, <3>2 DEF Call!Answer
    <2> QED
      BY <2>1, <2>2 DEF Next
  <1> QED
    BY <1>1, <1>2, SpecIInv, PTL DEF Spec, Safety, Call!Safety
=============================================================================
