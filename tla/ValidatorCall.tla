--------------------------- MODULE ValidatorCall ----------------------------
(***************************************************************************)
(* What a caller is promised by every validator of the library: a call     *)
(* with a string is answered once, with whether the string is in the       *)
(* language, and the string is left alone.                                 *)
(***************************************************************************)
EXTENDS Integers

CONSTANTS
  Inputs,          \* records [len, src] of a length and its bytes
  Accepts(_, _)    \* the language: a predicate on a string and its length

VARIABLES pc, src, len, result

callVars == <<pc, src, len, result>>

Init ==
  /\ pc = "loop"
  /\ [len |-> len, src |-> src] \in Inputs
  /\ result = FALSE

Answer ==
  /\ pc = "loop"
  /\ pc' = "done"
  /\ result' \in BOOLEAN
  /\ result' <=> Accepts(src, len)
  /\ UNCHANGED <<src, len>>

Safety == Init /\ [][Answer]_callVars

Spec == Safety /\ WF_callVars(Answer)
=============================================================================
