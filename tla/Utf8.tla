------------------------------- MODULE Utf8 --------------------------------
(***************************************************************************)
(* What "valid UTF-8" means, independently of any implementation.  The     *)
(* table is the one the headers of the library repeat (Unicode 6, ch. 3):  *)
(* every validator of the repository is measured against WellFormed.       *)
(*                                                                         *)
(* Strings are 0-based, as in the C code: a pair of a length len and a     *)
(* function s in [0 .. len-1 -> Byte].                                     *)
(***************************************************************************)
EXTENDS Integers

Byte == 0 .. 255

Strings(n) == [0 .. n - 1 -> Byte]

Continuation(b) == b \in 128 .. 191

(***************************************************************************)
(* The n bytes of s starting at p are one legal byte sequence: one         *)
(* disjunct per row of the table.                                          *)
(***************************************************************************)
LegalAt(s, p, n) ==
  \/ n = 1 /\ s[p] \in 0 .. 127
  \/ n = 2 /\ s[p] \in 194 .. 223 /\ Continuation(s[p+1])
  \/ /\ n = 3
     /\ \/ s[p] = 224 /\ s[p+1] \in 160 .. 191
        \/ s[p] \in 225 .. 236 /\ Continuation(s[p+1])
        \/ s[p] = 237 /\ s[p+1] \in 128 .. 159
        \/ s[p] \in 238 .. 239 /\ Continuation(s[p+1])
     /\ Continuation(s[p+2])
  \/ /\ n = 4
     /\ \/ s[p] = 240 /\ s[p+1] \in 144 .. 191
        \/ s[p] \in 241 .. 243 /\ Continuation(s[p+1])
        \/ s[p] = 244 /\ s[p+1] \in 128 .. 143
     /\ Continuation(s[p+2])
     /\ Continuation(s[p+3])

\* The code point of a legal sequence of n bytes at p.
CodePoint(s, p, n) ==
  LET low(k) == s[p+k] - 128 IN
  IF n = 1 THEN s[p]
  ELSE IF n = 2 THEN (64 * (s[p] - 192)) + low(1)
  ELSE IF n = 3 THEN (4096 * (s[p] - 224)) + (64 * low(1)) + low(2)
  ELSE (262144 * (s[p] - 240)) + (4096 * low(1)) + (64 * low(2)) + low(3)

(***************************************************************************)
(* s is a concatenation of legal sequences.  No legal sequence contains    *)
(* the start of another (starts are never continuation bytes), so it is    *)
(* enough that each byte lies in some legal sequence inside the string:    *)
(* theorem WellFormedIsConcatenation of Utf8Proofs.                        *)
(***************************************************************************)
WellFormed(s, len) ==
  \A q \in 0 .. len - 1 :
    \E n \in 1 .. 4 : \E p \in 0 .. q :
      /\ q < p + n
      /\ p + n <= len
      /\ LegalAt(s, p, n)

Ascii(s, len) == \A q \in 0 .. len - 1 : s[q] < 128

-----------------------------------------------------------------------------
(***************************************************************************)
(* The same language, seen through a window of four bytes.  The string is  *)
(* padded on both sides with zeros, which are ASCII.                       *)
(***************************************************************************)
Padded(s, len, q) == IF q \in 0 .. len - 1 THEN s[q] ELSE 0

\* A byte that follows p3, p2, p1 must be a continuation byte.
Owed(p3, p2, p1) == p1 >= 192 \/ p2 >= 224 \/ p3 >= 240

\* The byte b may follow p3, p2, p1.
Follows(p3, p2, p1, b) ==
  /\ b <= 244
  /\ Continuation(b) <=> Owed(p3, p2, p1)
  /\ p1 \notin {192, 193}
  /\ p1 = 224 => b >= 160
  /\ p1 = 237 => b <= 159
  /\ p1 = 240 => b >= 144
  /\ p1 = 244 => b <= 143

WindowOK(s, len, q) ==
  Follows(Padded(s, len, q - 3), Padded(s, len, q - 2),
          Padded(s, len, q - 1), Padded(s, len, q))

\* The first n bytes of the padded string contain nothing illegal.
PrefixOK(s, len, n) == \A q \in 0 .. n - 1 : WindowOK(s, len, q)

\* The first n bytes can be continued to a legal string.  The bytes C0 and C1,
\* which start nothing, are judged in Follows only with the byte after them.
LegalPrefix(s, len, n) ==
  PrefixOK(s, len, n) /\ Padded(s, len, n - 1) \notin {192, 193}

\* Continuation bytes still owed after p2, p1, b (of a legal prefix).
StillOwed(p2, p1, b) ==
  IF b >= 192
  THEN IF b >= 240 THEN 3 ELSE IF b >= 224 THEN 2 ELSE 1
  ELSE IF p1 >= 224
  THEN IF p1 >= 240 THEN 2 ELSE 1
  ELSE IF p2 >= 240 THEN 1 ELSE 0

Debt(s, len, q) ==
  StillOwed(Padded(s, len, q - 2), Padded(s, len, q - 1), Padded(s, len, q))
=============================================================================
