-------------------------------- MODULE Dfa --------------------------------
(***************************************************************************)
(* The four functions of benchmarks/hoehrmann.h that run the automaton     *)
(* over a string, byte by byte:                                            *)
(*                                                                         *)
(*   validate_dfa_utf8                        early                        *)
(*   validate_dfa_utf8_branchless                                          *)
(*   shiftless_validate_dfa_utf8              early, shiftless             *)
(*   shiftless_validate_dfa_utf8_branchless   shiftless                    *)
(***************************************************************************)
EXTENDS DfaTables

CONSTANT Inputs   \* the arguments of the call: records of a length and its bytes

ASSUME InputsAssumption ==
  \A in \in Inputs : in.len \in Nat /\ in.src \in Strings(in.len)

VARIABLES
  fn,          \* the function: does it return early, is its table multiplied
  pc,          \* "loop" until the function returns, then "done"
  src, len,    \* the arguments
  i,           \* the next byte
  state,       \* of the automaton
  result,      \* the returned value, once pc = "done"
  decoded      \* what decode, called for each byte instead, would have by now

vars == <<fn, pc, src, len, i, state, result, decoded>>

update(byte) ==
  IF fn.shiftless THEN shiftless_updatestate(state, byte) ELSE updatestate(state, byte)

decodeNext(byte) ==
  IF fn.shiftless THEN shiftless_decode(decoded, byte) ELSE decode(decoded, byte)

REJECT == IF fn.shiftless THEN SHIFTLESS_UTF8_REJECT ELSE UTF8_REJECT

Init ==
  /\ fn \in [early : BOOLEAN, shiftless : BOOLEAN]
  /\ pc = "loop"
  /\ \E in \in Inputs : src = in.src /\ len = in.len
  /\ i = 0
  /\ state = UTF8_ACCEPT
  /\ result = FALSE
  /\ decoded = [state |-> UTF8_ACCEPT, codep |-> 0]

Step ==
  /\ pc = "loop" /\ i < len
  /\ state' = update(src[i])
  /\ ~(fn.early /\ state' = REJECT)
  /\ i' = i + 1
  /\ decoded' = decodeNext(src[i])
  /\ UNCHANGED <<fn, pc, src, len, result>>

Reject ==
  /\ pc = "loop" /\ i < len
  /\ state' = update(src[i])
  /\ fn.early /\ state' = REJECT
  /\ pc' = "done"
  /\ result' = FALSE
  /\ UNCHANGED <<fn, src, len, i, decoded>>

\* Fault: only the accepting state is a success.
ReturnAccepting ==
  /\ pc = "loop" /\ ~(i < len)
  /\ pc' = "done"
  /\ result' = (fn.early \/ state = UTF8_ACCEPT)
  /\ UNCHANGED <<fn, src, len, i, state, decoded>>

\* The last state is not compared with UTF8_ACCEPT.
Return ==
  /\ pc = "loop" /\ ~(i < len)
  /\ pc' = "done"
  /\ result' = (fn.early \/ state # REJECT)
  /\ UNCHANGED <<fn, src, len, i, state, decoded>>

Next == Step \/ Reject \/ Return

Safety == Init /\ [][Next]_vars

Spec == Safety /\ WF_vars(Next)

-----------------------------------------------------------------------------
TypeOK ==
  /\ fn \in [early : BOOLEAN, shiftless : BOOLEAN]
  /\ pc \in {"loop", "done"}
  /\ len \in Nat
  /\ src \in Strings(len)
  /\ i \in 0 .. len
  /\ state \in IF fn.shiftless THEN {16 * st : st \in 0 .. 8} ELSE 0 .. 8
  /\ result \in BOOLEAN

LegalSoFar(n) == LegalPrefix(src, len, n)

plain == IF fn.shiftless THEN state \div 16 ELSE state

(* The state is REJECT exactly after something illegal, whatever follows;  *)
(* otherwise it tells the continuation bytes that are owed and the range   *)
(* the next one is limited to.                                             *)
StateIsExact ==
  pc = "loop" =>
    /\ state = REJECT <=> ~LegalSoFar(i)
    /\ state # REJECT =>
         Means(plain, Padded(src, len, i - 3), Padded(src, len, i - 2),
               Padded(src, len, i - 1))

(* decode goes through the same states, and whenever these accept has the  *)
(* code point of the sequence that has just ended: the classes of bytes,   *)
(* which the first table numbers for the second, are also right as shifts. *)
DecodesLastSequence ==
  pc = "loop" =>
    /\ decoded.state = state
    /\ state = UTF8_ACCEPT =>
         \A n \in 1 .. 4 :
           n <= i /\ LegalAt(src, i - n, n) =>
             decoded.codep = CodePoint(src, i - n, n)

(* The answer is whether the string is a prefix of legal sequences: a      *)
(* sequence cut by the end of the string is accepted, by all of them.      *)
VerdictIsOfPrefix == pc = "done" => (result <=> LegalSoFar(len))

(* Hence callers pass the terminating NUL, as tests/unit.c does with       *)
(* len+1: what precedes it is then accepted exactly when it is well formed.*)
VerdictWithNul ==
  pc = "done" /\ len > 0 /\ src[len - 1] = 0 =>
    (result <=> WellFormed(src, len - 1))
=============================================================================
