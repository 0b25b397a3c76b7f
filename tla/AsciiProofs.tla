---------------------------- MODULE AsciiProofs ----------------------------
(***************************************************************************)
(* Proofs about AsciiValidator, for every register width, size_t and set   *)
(* of inputs.                                                              *)
(***************************************************************************)
EXTENDS AsciiValidator, TLAPS

(* What holds between two steps.  Verdict is what the answer needs of the  *)
(* mask once the loops are over.                                           *)
Verdict == pc = "done" => (result <=> Ascii(src, len))

IInv == TypeOK /\ LoadsInBounds /\ MaskIsExact /\ Verdict

LEMMA SmallMod ==
  ASSUME NEW m \in Nat \ {0}, NEW a \in 0 .. m - 1
  PROVE  a % m = a
  BY SMT

\* The guard of the loop, and its stride, without the wrap of size_t.
LEMMA LoopGuard ==
  TypeOK => /\ moreBlocks <=> i + W <= len
            /\ moreBlocks => (i + W) % SizeMod = i + W
  <1> SUFFICES ASSUME TypeOK
               PROVE  /\ moreBlocks <=> i + W <= len
                      /\ moreBlocks => (i + W) % SizeMod = i + W
    OBVIOUS
  <1>1. /\ W \in Nat /\ SizeMod \in Nat \ {0} /\ len \in Int /\ i \in Int
        /\ 0 <= i /\ i <= len /\ 0 <= len /\ len < SizeMod /\ W >= 4
    BY WAssumption, SizeAssumption DEF TypeOK
  <1>2. ASSUME len >= W PROVE (len - W) % SizeMod = len - W
    <2>1. len - W \in 0 .. SizeMod - 1
      BY <1>1, <1>2
    <2> QED
      BY <1>1, <2>1, SmallMod
  <1>3. moreBlocks <=> i + W <= len
    BY <1>1, <1>2 DEF moreBlocks
  <1>4. ASSUME i + W <= len PROVE (i + W) % SizeMod = i + W
    <2>1. i + W \in 0 .. SizeMod - 1
      BY <1>1, <1>4
    <2> QED
      BY <1>1, <2>1, SmallMod
  <1> QED
    BY <1>3, <1>4

LEMMA InitIInv == Init => IInv
  <1> SUFFICES ASSUME Init PROVE IInv
    OBVIOUS
  <1>1. len \in 0 .. SizeMod - 1 /\ src \in Strings(len)
    BY InputsAssumption DEF Init
  <1>2. TypeOK
    <2>1. 0 \in 0 .. len
      BY <1>1, SizeAssumption
    <2>2. /\ pc = "loop" /\ i = 0 /\ has_error = {} /\ error_mask = {}
          /\ result = FALSE /\ reduction \in Reductions
      BY DEF Init
    <2> QED
      BY <1>1, <2>1, <2>2 DEF TypeOK
  <1>3. moreBlocks => i + W <= len
    BY <1>2, LoopGuard
  <1>4. LoadsInBounds
    BY <1>3 DEF Init, LoadsInBounds
  <1>5. MaskIsExact
    BY DEF Init, MaskIsExact, Ascii
  <1> QED
    BY <1>2, <1>4, <1>5 DEF Init, IInv, Verdict

LEMMA OrBlockIInv == IInv /\ OrBlock => IInv'
  <1> SUFFICES ASSUME IInv, OrBlock PROVE IInv'
    OBVIOUS
  <1>1. /\ W \in Nat /\ W >= 4 /\ SizeMod \in Nat \ {0}
        /\ len \in 0 .. SizeMod - 1 /\ src \in Strings(len) /\ i \in 0 .. len
    BY WAssumption, SizeAssumption DEF IInv, TypeOK
  <1>2. i + W <= len /\ i' = i + W
    BY LoopGuard DEF IInv, OrBlock
  <1>3. pc' = "loop" /\ src' = src /\ len' = len /\ pc = "loop"
    BY DEF OrBlock
  <1>4. TypeOK'
    BY <1>1, <1>2 DEF IInv, TypeOK, OrBlock, load, signBits
  <1>5. LoadsInBounds'
    <2>1. (moreBlocks <=> i + W <= len)'
      BY <1>4, LoopGuard, PTL
    <2> QED
      BY <1>3, <2>1 DEF LoadsInBounds
  <1>6. MaskIsExact'
    <2>1. load(i) = {} <=> \A q \in i .. i + W - 1 : src[q] < 128
      <3>1. ASSUME load(i) = {}, NEW q \in i .. i + W - 1 PROVE src[q] < 128
        <4>1. q - i \in Lane /\ src[i + (q - i)] = src[q] /\ src[q] \in Byte
          BY <1>1, <1>2, <3>1 DEF Lane, Strings
        <4> QED
          BY <3>1, <4>1 DEF load, Byte
      <3>2. ASSUME \A q \in i .. i + W - 1 : src[q] < 128, NEW k \in Lane
            PROVE  ~(src[i + k] >= 128)
        <4>1. i + k \in i .. i + W - 1 /\ src[i + k] \in Byte
          BY <1>1, <1>2 DEF Lane, Strings
        <4> QED
          BY <3>2, <4>1 DEF Byte
      <3> QED
        BY <3>1, <3>2 DEF load
    <2>2. Ascii(src, i + W) <=> Ascii(src, i) /\ load(i) = {}
      BY <1>1, <2>1 DEF Ascii
    <2>3. has_error' = {} <=> has_error = {} /\ load(i) = {}
      BY DEF OrBlock
    <2>4. has_error = {} <=> Ascii(src, i)
      BY <1>3 DEF IInv, MaskIsExact
    <2> QED
      BY <1>2, <1>3, <2>2, <2>3, <2>4 DEF MaskIsExact
  <1> QED
    BY <1>3, <1>4, <1>5, <1>6 DEF IInv, Verdict

LEMMA ReduceIInv == IInv /\ Reduce => IInv'
  <1> SUFFICES ASSUME IInv, Reduce PROVE IInv'
    OBVIOUS
  <1>1. /\ has_error \subseteq Lane /\ W \in Nat /\ len \in Int /\ i \in Int
        /\ pc = "loop"
    BY WAssumption, SizeAssumption DEF IInv, TypeOK, Reduce
  <1>2. reduced(has_error) \subseteq signBits
    <2>1. CASE reduction = "movemask"
      BY <1>1, <2>1 DEF reduced, signBits
    <2>2. CASE reduction # "movemask"
      <3>1. \A k \in Lane : k % 4 \in 0 .. 3
        BY <1>1 DEF Lane
      <3>2. \A k \in Lane : 8 * (k % 4) + 7 \in {7, 15, 23, 31}
        BY <3>1
      <3> QED
        BY <1>1, <2>2, <3>2 DEF reduced, signBits
    <2> QED
      BY <2>1, <2>2
  <1>3. reduced(has_error) = {} <=> has_error = {}
    BY DEF reduced
  <1>4. TypeOK'
    BY <1>2 DEF IInv, TypeOK, Reduce, signBits
  <1>5. LoadsInBounds'
    <2>1. ~(i + W <= len)
      BY LoopGuard DEF IInv, Reduce
    <2> QED
      BY <1>1, <2>1 DEF Reduce, LoadsInBounds
  <1>6. MaskIsExact'
    BY <1>1, <1>3 DEF IInv, MaskIsExact, Reduce
  <1> QED
    BY <1>4, <1>5, <1>6 DEF IInv, Verdict, Reduce

LEMMA TailByteIInv == IInv /\ TailByte => IInv'
  <1> SUFFICES ASSUME IInv, TailByte PROVE IInv'
    OBVIOUS
  <1>1. /\ W \in Nat /\ SizeMod \in Nat \ {0} /\ len \in 0 .. SizeMod - 1
        /\ src \in Strings(len) /\ i \in 0 .. len /\ i < len
        /\ pc = "tail" /\ pc' = "tail" /\ src' = src /\ len' = len
    BY WAssumption, SizeAssumption DEF IInv, TypeOK, TailByte
  <1>2. i' = i + 1
    <2>1. i + 1 \in 0 .. SizeMod - 1
      BY <1>1
    <2> QED
      BY <1>1, <2>1, SmallMod DEF TailByte
  <1>3. src[i] \in Byte
    BY <1>1 DEF Strings
  <1>4. tailBits(src[i]) \subseteq signBits
    BY DEF tailBits, signBits
  <1>5. TypeOK'
    BY <1>1, <1>2, <1>4 DEF IInv, TypeOK, TailByte, signBits
  <1>6. LoadsInBounds'
    BY <1>1, <1>2 DEF IInv, LoadsInBounds
  <1>7. MaskIsExact'
    <2>1. tailBits(src[i]) = {} <=> src[i] < 128
      BY DEF tailBits
    <2>2. Ascii(src, i + 1) <=> Ascii(src, i) /\ src[i] < 128
      BY <1>1 DEF Ascii
    <2>3. error_mask' = {} <=> error_mask = {} /\ tailBits(src[i]) = {}
      BY DEF TailByte
    <2>4. error_mask = {} <=> Ascii(src, i)
      BY <1>1 DEF IInv, MaskIsExact
    <2> QED
      BY <1>1, <1>2, <2>1, <2>2, <2>3, <2>4 DEF MaskIsExact
  <1> QED
    BY <1>1, <1>5, <1>6, <1>7 DEF IInv, Verdict

LEMMA ReturnIInv == IInv /\ Return => IInv'
  <1> SUFFICES ASSUME IInv, Return PROVE IInv'
    OBVIOUS
  <1>1. i = len
    BY SizeAssumption DEF IInv, TypeOK, Return
  <1>2. TypeOK'
    BY DEF IInv, TypeOK, Return, signBits
  <1>3. LoadsInBounds' /\ MaskIsExact'
    BY <1>1 DEF IInv, LoadsInBounds, MaskIsExact, Return
  <1>4. Verdict'
    BY <1>1 DEF IInv, MaskIsExact, Verdict, Return
  <1> QED
    BY <1>2, <1>3, <1>4 DEF IInv

LEMMA NextIInv == IInv /\ [Next]_vars => IInv'
  <1> SUFFICES ASSUME IInv, [Next]_vars PROVE IInv'
    OBVIOUS
  <1>1. CASE OrBlock
    BY <1>1, OrBlockIInv
  <1>2. CASE Reduce
    BY <1>2, ReduceIInv
  <1>3. CASE TailByte
    BY <1>3, TailByteIInv
  <1>4. CASE Return
    BY <1>4, ReturnIInv
  <1>5. CASE UNCHANGED vars
    BY <1>5 DEF vars, IInv, TypeOK, LoadsInBounds, moreBlocks, MaskIsExact, Verdict, signBits
  <1> QED
    BY <1>1, <1>2, <1>3, <1>4, <1>5 DEF Next

LEMMA SpecIInv == Spec => []IInv
  BY InitIInv, NextIInv, PTL DEF Spec, Safety

(* Types of the variables of the three ASCII checks; the offset stays      *)
(* within the string.                                                      *)
THEOREM AsciiTypeCorrect == Spec => []TypeOK
  <1>1. IInv => TypeOK
    BY DEF IInv
  <1> QED
    BY <1>1, SpecIInv, PTL

(* No load leaves the string, and less than a register is left to the      *)
(* loop of bytes.                                                          *)
THEOREM AsciiLoadsStayInBounds == Spec => []LoadsInBounds
  <1>1. IInv => LoadsInBounds
    BY DEF IInv
  <1> QED
    BY <1>1, SpecIInv, PTL

(* The register, and then the mask, have a bit set exactly when a byte     *)
(* that is not ASCII has been read.                                        *)
THEOREM AsciiMaskIsExact == Spec => []MaskIsExact
  <1>1. IInv => MaskIsExact
    BY DEF IInv
  <1> QED
    BY <1>1, SpecIInv, PTL

(* The caller of an ASCII check sees one answer, and the right one.        *)
THEOREM AsciiSafetyOfCall == Spec => Call!Safety
  <1>1. Init => Call!Init
    BY InputsAssumption DEF Init, Call!Init
  <1>2. IInv /\ IInv' /\ [Next]_vars => [Call!Answer]_(Call!callVars)
    <2> SUFFICES ASSUME IInv, IInv', [Next]_vars
                 PROVE  [Call!Answer]_(Call!callVars)
      OBVIOUS
    <2>1. CASE OrBlock \/ Reduce \/ TailByte \/ UNCHANGED vars
      BY <2>1 DEF OrBlock, Reduce, TailByte, vars, Call!callVars
    <2>2. CASE Return
      <3>1. /\ pc = "tail" /\ pc' = "done" /\ src' = src /\ len' = len
            /\ result' \in BOOLEAN
        BY <2>2 DEF Return
      <3>2. result' <=> Ascii(src, len)
        BY <3>1 DEF IInv, Verdict
      <3> QED
        BY <3>1, <3>2 DEF Call!Answer
    <2> QED
      BY <2>1, <2>2 DEF Next
  <1> QED
    BY <1>1, <1>2, SpecIInv, PTL DEF Spec, Safety, Call!Safety
=============================================================================
