----------------------------- MODULE AsciiWords -----------------------------
(***************************************************************************)
(* validate_ascii_nosimd and validate_ascii_nointrin of                    *)
(* benchmarks/benchmark.c, which differ only in a compiler attribute: OR   *)
(* the string into four 64-bit words, 32 bytes at a time, then 8, then 1.  *)
(*                                                                         *)
(* The code moves a pointer.  "end - 32" may lie before the string: as in  *)
(* the build, pointers are addresses, compared as unsigned numbers.        *)
(***************************************************************************)
EXTENDS Utf8

CONSTANTS
  AddrMod,   \* 2^w for w-bit addresses
  Calls      \* the calls: records of a length, its bytes and their address

\* The lowest addresses are never mapped; a string does not wrap around.
ASSUME CallsAssumption ==
  /\ AddrMod \in Nat
  /\ \A c \in Calls : /\ c.len \in Nat
                      /\ c.data \in Strings(c.len)
                      /\ c.addr \in Nat
                      /\ c.addr >= 32
                      /\ c.addr + c.len < AddrMod

VARIABLES
  pc,          \* "by32", "by8", "bytes": the loop being run; then "done"
  data, len,   \* the bytes and their number
  addr,        \* the address of the string: "src" on entry
  src,         \* the moving pointer
  mask,        \* mask1 .. mask4: of each word, the bytes with their sign bit set
  tail_mask,   \* is the sign bit of tail_mask set
  result

vars == <<pc, data, len, addr, src, mask, tail_mask, result>>

end == addr + len

\* Fault: the bytes left are counted as an unsigned number.
farFromEndUnsigned(n) == (end - n - src) % AddrMod > 0

\* src < end - n
farFromEnd(n) == src < (end - n) % AddrMod

\* p[w] for p = src: the bytes of the word with their sign bit set.
word(w) == {b \in 0 .. 7 : data[src - addr + 8 * w + b] >= 128}

Init ==
  /\ pc = "by32"
  /\ \E c \in Calls : data = c.data /\ len = c.len /\ addr = c.addr
  /\ src = addr
  /\ mask = [m \in 1 .. 4 |-> {}]
  /\ tail_mask = FALSE
  /\ result = FALSE

\* Fault: the last word is assigned where it should be ORed in.
Or32Assigning ==
  /\ pc = "by32" /\ farFromEnd(32)
  /\ mask' = [m \in 1 .. 4 |-> IF m = 4 THEN word(3) ELSE mask[m] \union word(m - 1)]
  /\ src' = src + 32
  /\ UNCHANGED <<pc, data, len, addr, tail_mask, result>>

Or32 ==
  /\ pc = "by32" /\ farFromEnd(32)
  /\ mask' = [m \in 1 .. 4 |-> mask[m] \union word(m - 1)]
  /\ src' = src + 32
  /\ UNCHANGED <<pc, data, len, addr, tail_mask, result>>

To8 ==
  /\ pc = "by32" /\ ~farFromEnd(32)
  /\ pc' = "by8"
  /\ UNCHANGED <<data, len, addr, src, mask, tail_mask, result>>

Or8 ==
  /\ pc = "by8" /\ farFromEnd(8)
  /\ mask' = [mask EXCEPT ![1] = @ \union word(0)]
  /\ src' = src + 8
  /\ UNCHANGED <<pc, data, len, addr, tail_mask, result>>

ToBytes ==
  /\ pc = "by8" /\ ~farFromEnd(8)
  /\ pc' = "bytes"
  /\ UNCHANGED <<data, len, addr, src, mask, tail_mask, result>>

\* Fault: the stride of the loop before.
Or1ByWord ==
  /\ pc = "bytes" /\ src < end
  /\ tail_mask' = (tail_mask \/ data[src - addr] >= 128)
  /\ src' = src + 8
  /\ UNCHANGED <<pc, data, len, addr, mask, result>>

Or1 ==
  /\ pc = "bytes" /\ src < end
  /\ tail_mask' = (tail_mask \/ data[src - addr] >= 128)
  /\ src' = src + 1
  /\ UNCHANGED <<pc, data, len, addr, mask, result>>

\* Fault: the bytes of the tail are forgotten.
final_maskOfWords == UNION {mask[m] : m \in 1 .. 4}

\* tail_mask is zero-extended: it reaches the lowest byte of final_mask.
final_mask ==
  (UNION {mask[m] : m \in 1 .. 4}) \union (IF tail_mask THEN {0} ELSE {})

Return ==
  /\ pc = "bytes" /\ ~(src < end)
  /\ pc' = "done"
  /\ result' = (final_mask = {})
  /\ UNCHANGED <<data, len, addr, src, mask, tail_mask>>

Next == Or32 \/ To8 \/ Or8 \/ ToBytes \/ Or1 \/ Return

Safety == Init /\ [][Next]_vars

Spec == Safety /\ WF_vars(Next)

-----------------------------------------------------------------------------
TypeOK ==
  /\ pc \in {"by32", "by8", "bytes", "done"}
  /\ len \in Nat
  /\ data \in Strings(len)
  /\ addr \in Nat
  /\ src \in addr .. end
  /\ mask \in [1 .. 4 -> SUBSET (0 .. 7)]
  /\ tail_mask \in BOOLEAN
  /\ result \in BOOLEAN

(* No word that reaches past the string is loaded, even when end - 32 or   *)
(* end - 8 lies before its start, and each loop leaves the next one less   *)
(* than it would have taken itself.                                        *)
LoadsInBounds ==
  /\ pc = "by32" /\ farFromEnd(32) => src + 32 <= end
  /\ pc = "by8" => end - src <= 32 /\ (farFromEnd(8) => src + 8 <= end)
  /\ pc = "bytes" => end - src <= 8

(* Across the three loops every byte is ORed in, and no other.             *)
MaskIsExact == final_mask = {} <=> Ascii(data, src - addr)

Call == INSTANCE ValidatorCall WITH
          Accepts <- Ascii,
          Inputs <- {[len |-> c.len, src |-> c.data] : c \in Calls},
          src <- data,
          pc <- IF pc = "done" THEN "done" ELSE "loop"

(* Seen from the caller: one answer, whether the string is ASCII, and      *)
(* always one.                                                             *)
ImplementsCall == Call!Spec
=============================================================================
