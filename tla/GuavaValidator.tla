--------------------------- MODULE GuavaValidator ---------------------------
(***************************************************************************)
(* validate_utf8 of benchmarks/benchmark.c, "copied in part from Guava":   *)
(* the sequential validator the benchmark compares with.  The Java         *)
(* original compares signed bytes, where "> 0xBF" also excludes ASCII;     *)
(* this one compares unsigned chars.                                       *)
(***************************************************************************)
EXTENDS Utf8

CONSTANT Inputs   \* the arguments of the call: records of a length and its bytes

ASSUME InputsAssumption ==
  \A in \in Inputs : in.len \in Nat /\ in.src \in Strings(in.len)

VARIABLES
  pc,         \* "loop" until the function returns, then "done"
  src, len,   \* the arguments: b, seen as unsigned chars, and length
  index,      \* of the next byte
  result      \* the returned value, once pc = "done"

vars == <<pc, src, len, index, result>>

byte1 == src[index]
byte2 == src[index + 1]

\* ((byte1 << 28) + (byte2 - 0x90)) >> 30 != 0, in 32-bit ints that wrap: the
\* low nibble of byte1 becomes the high one, less a borrow if byte2 < 0x90,
\* and of that nibble the two high bits are left.
badPlane == (((byte1 % 16) - (IF byte2 < 144 THEN 1 ELSE 0)) % 16) \div 4 # 0

\* The code has counted byte1 when it makes these tests: its index is one more.
badTwo ==
  \/ index + 1 = len
  \/ byte1 < 194
  \/ src[index + 1] > 191

\* Fault: no surrogates.
badThreeSurrogates ==
  \/ index + 2 >= len
  \/ byte2 > 191
  \/ byte1 = 224 /\ byte2 < 160
  \/ src[index + 2] > 191

badThree ==
  \/ index + 2 >= len
  \/ byte2 > 191
  \/ byte1 = 224 /\ byte2 < 160
  \/ byte1 = 237 /\ 160 <= byte2
  \/ src[index + 2] > 191

badFour ==
  \/ index + 3 >= len
  \/ byte2 > 191
  \/ badPlane
  \/ src[index + 2] > 191
  \/ src[index + 3] > 191

Init ==
  /\ pc = "loop"
  /\ \E in \in Inputs : src = in.src /\ len = in.len
  /\ index = 0
  /\ result = FALSE

return(answer) ==
  /\ pc' = "done"
  /\ result' = answer
  /\ UNCHANGED <<src, len, index>>

\* Fault: index is incremented once too often.
skipOneMore(n) ==
  /\ index' = index + n + 1
  /\ UNCHANGED <<pc, src, len, result>>

skip(n) ==
  /\ index' = index + n
  /\ UNCHANGED <<pc, src, len, result>>

End == pc = "loop" /\ index >= len /\ return(TRUE)

OneByte == pc = "loop" /\ index < len /\ byte1 < 128 /\ skip(1)

TwoBytes ==
  /\ pc = "loop" /\ index < len /\ byte1 \in 128 .. 223
  /\ IF badTwo THEN return(FALSE) ELSE skip(2)

ThreeBytes ==
  /\ pc = "loop" /\ index < len /\ byte1 \in 224 .. 239
  /\ IF badThree THEN return(FALSE) ELSE skip(3)

FourBytes ==
  /\ pc = "loop" /\ index < len /\ byte1 >= 240
  /\ IF badFour THEN return(FALSE) ELSE skip(4)

Next == End \/ OneByte \/ TwoBytes \/ ThreeBytes \/ FourBytes

Spec == Init /\ [][Next]_vars /\ WF_vars(Next)

-----------------------------------------------------------------------------
TypeOK ==
  /\ pc \in {"loop", "done"}
  /\ len \in Nat /\ src \in Strings(len)
  /\ index \in 0 .. len
  /\ result \in BOOLEAN

OwedAt(q) ==
  Owed(Padded(src, len, q - 3), Padded(src, len, q - 2), Padded(src, len, q - 1))

(* The only thing the answer overlooks is ASCII in the place of a          *)
(* continuation byte: of strings without that, exactly the well-formed are *)
(* accepted.  In particular the tricky test of the plane and the tests of  *)
(* the length refuse nothing that is legal.                                *)
ExactOnTrailingBytes ==
  pc = "done" /\ (\A q \in 0 .. len - 1 : OwedAt(q) => src[q] >= 128) =>
    (result <=> WellFormed(src, len))

(* What the comments "Third byte trailing-byte test" and "Fourth byte      *)
(* trailing-byte test" say: in an accepted string a continuation byte is   *)
(* found two places after a three or four byte lead, and three places      *)
(* after a four byte lead.                                                 *)
TrailingByteTests ==
  pc = "done" /\ result =>
    \A q \in 0 .. len - 1 :
      \/ Padded(src, len, q - 2) \in 224 .. 244
      \/ Padded(src, len, q - 3) \in 240 .. 244
      => Continuation(src[q])
=============================================================================
