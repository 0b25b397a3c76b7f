----------------------------- MODULE DoubleDfa -----------------------------
(***************************************************************************)
(* validate_dfa_utf8_double and shiftless_validate_dfa_utf8_double of      *)
(* benchmarks/hoehrmann.h: two automata run side by side over the halves   *)
(* of the string, "an experiment, the validation is not guarantee to       *)
(* work".  The properties say what it does guarantee.                      *)
(*                                                                         *)
(* The last loop counts in an int, "for (int j = half * 2; j < len; j++)": *)
(* its start is converted to an int, and compared with len as a size_t.    *)
(***************************************************************************)
EXTENDS DfaTables

CONSTANTS
  SizeMod,   \* 2^w for a w-bit size_t
  IntMod,    \* 2^w for a w-bit int
  Inputs     \* the arguments of the call: records of a length and its bytes

ASSUME WidthsAssumption ==
  /\ SizeMod \in Nat /\ SizeMod % 2 = 0
  /\ IntMod \in 2 .. SizeMod /\ IntMod % 2 = 0

\* No object is larger than half the address space.  c[half] is read whatever
\* the length: the callers never pass 0.
ASSUME InputsAssumption ==
  \A in \in Inputs :
    \E n \in 1 .. SizeMod \div 2 : in \in [len : {n}, src : Strings(n)]

VARIABLES
  shiftless,   \* which of the two functions: is its table multiplied
  pc,          \* "split", "both" and "rest" for the three loops, then "done"
  src, len,    \* the arguments
  half,        \* where the second automaton starts
  i, j,        \* the next byte of each automaton
  s1, s2,      \* their states
  result       \* the returned value, once pc = "done"

vars == <<shiftless, pc, src, len, half, i, j, s1, s2, result>>

update(st, byte) ==
  IF shiftless THEN shiftless_updatestate(st, byte) ELSE updatestate(st, byte)

INT_MAX == IntMod \div 2 - 1

\* The conversion of a size_t to an int keeps the low bits.
toInt(n) == IF n % IntMod <= INT_MAX THEN n % IntMod ELSE (n % IntMod) - IntMod

\* "j < len": j is converted to a size_t.
below(q, n) == q % SizeMod < n

\* j++ past INT_MAX is undefined: it wraps, or is done in a wider register.
successors(q) == {q + 1} \union (IF q = INT_MAX THEN {q + 1 - IntMod} ELSE {})

REJECT == IF shiftless THEN SHIFTLESS_UTF8_REJECT ELSE UTF8_REJECT

\* Fault: half is not the start of the string's middle character.
backOffNever == FALSE

\* The byte at half looks like a continuation byte (80 does not).
backOff == src[half] <= 191 /\ src[half] > 128 /\ half > 0

\* Fault: rounded up.
middleRoundedUp == (len + 1) \div 2

middle == len \div 2

Init ==
  /\ shiftless \in BOOLEAN
  /\ pc = "split"
  /\ \E in \in Inputs : src = in.src /\ len = in.len
  /\ half = middle
  /\ i = 0 /\ j = 0
  /\ s1 = UTF8_ACCEPT /\ s2 = UTF8_ACCEPT
  /\ result = FALSE

BackOff ==
  /\ pc = "split" /\ backOff
  /\ half' = half - 1
  /\ UNCHANGED <<shiftless, pc, src, len, i, j, s1, s2, result>>

Split ==
  /\ pc = "split" /\ ~backOff
  /\ pc' = "both"
  /\ j' = half
  /\ UNCHANGED <<shiftless, src, len, half, i, s1, s2, result>>

StepBoth ==
  /\ pc = "both" /\ i < half
  /\ s1' = update(s1, src[i])
  /\ s2' = update(s2, src[j])
  /\ i' = i + 1
  /\ j' = j + 1
  /\ UNCHANGED <<shiftless, pc, src, len, half, result>>

\* Fault: the halves are taken to be the whole string.
EndBothAtEnd ==
  /\ pc = "both" /\ ~(i < half)
  /\ pc' = "rest"
  /\ j' = len
  /\ UNCHANGED <<shiftless, src, len, half, i, s1, s2, result>>

EndBoth ==
  /\ pc = "both" /\ ~(i < half)
  /\ pc' = "rest"
  /\ j' = toInt(half * 2)
  /\ UNCHANGED <<shiftless, src, len, half, i, s1, s2, result>>

StepRest ==
  /\ pc = "rest" /\ below(j, len)
  /\ s2' = update(s2, src[j])
  /\ j' \in successors(j)
  /\ UNCHANGED <<shiftless, pc, src, len, half, i, s1, result>>

Return ==
  /\ pc = "rest" /\ ~below(j, len)
  /\ pc' = "done"
  /\ result' = (s1 # REJECT /\ s2 # REJECT)
  /\ UNCHANGED <<shiftless, src, len, half, i, j, s1, s2>>

Next == BackOff \/ Split \/ StepBoth \/ EndBoth \/ StepRest \/ Return

Spec == Init /\ [][Next]_vars /\ WF_vars(Next)

-----------------------------------------------------------------------------
(* Every byte read is inside the string, however long it is: what the int  *)
(* cannot count is not read, or read twice.                                *)
TypeOK ==
  /\ shiftless \in BOOLEAN
  /\ pc \in {"split", "both", "rest", "done"}
  /\ len \in 1 .. SizeMod \div 2 /\ src \in Strings(len)
  /\ half \in 0 .. len - 1
  /\ i \in 0 .. half
  /\ pc = "both" => j = half + i
  /\ pc = "rest" => IF below(j, len) THEN j \in 0 .. len - 1
                    ELSE j = len \/ j \in - (IntMod \div 2) .. -1
  /\ result \in BOOLEAN

from(q) == [p \in 0 .. len - q - 1 |-> src[q + p]]

\* The first half, and n bytes of the second one, are legal by themselves.
HalvesLegal(n) ==
  LegalPrefix(src, half, half) /\ LegalPrefix(from(half), len - half, n)

(* The second automaton takes over exactly where the first one stops, and  *)
(* every byte is read by one of them: the answer is whether both parts are *)
(* prefixes of legal sequences, each by itself.  So a sequence that the    *)
(* split cuts short is overlooked.  But if twice the half is negative as   *)
(* an int, it compares as a huge size_t: the last bytes of the string,     *)
(* which may be many when the split has backed off far, are read by none.  *)
VerdictIsOfHalves ==
  pc = "done" =>
    /\ len <= INT_MAX => (result <=> HalvesLegal(len - half))
    /\ half * 2 \in INT_MAX + 1 .. IntMod - 1 => (result <=> HalvesLegal(half))

(* A well-formed string is refused only when the split falls on, or backs  *)
(* off to, a byte 80, the one continuation byte backOff overlooks, up to   *)
(* 2^32 bytes; from there on the int may start over in the first half.     *)
NoFalseAlarm ==
  pc = "done" /\ len < IntMod /\ WellFormed(src, len) /\ src[half] # 128 => result
=============================================================================
