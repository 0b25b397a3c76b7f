--------------------------- MODULE InputFamilies ---------------------------
(***************************************************************************)
(* The strings the block validators are checked with: ASCII with a few     *)
(* chosen bytes written over it at every offset, as tests/unit.c writes    *)
(* its sequences over a buffer of spaces.                                  *)
(***************************************************************************)
EXTENDS Simd, Sequences

CONSTANT Family   \* which of the families below a run takes

\* Both ends of every range of the table, and of every gap between ranges.
edgeBytes == {32, 127, 128, 143, 144, 159, 160, 191, 192, 193, 194, 223, 224,
              225, 236, 237, 238, 239, 240, 241, 243, 244, 245, 255}

\* The bytes that tell sequences of different lengths apart.
shapeBytes == {32, 128, 144, 191, 194, 224, 237, 240, 241, 244}

\* The bytes that tell what a sequence can still be continued with.
restBytes == {32, 128, 144, 191, 194}

joinBytes == {32, 144, 194, 224, 240}

\* The bytes of a string constant.
string(bytes) ==
  [len |-> Len(bytes), src |-> [q \in 0 .. Len(bytes) - 1 |-> bytes[q + 1]]]

over(bytes, offset, n) ==
  [len |-> n,
   src |-> [q \in 0 .. n - 1 |->
              IF q \in offset .. offset + Len(bytes) - 1
              THEN bytes[q - offset + 1] ELSE 32]]

\* Every placement of the sequences in strings of the given lengths.
placed(seqs, lengths) ==
  UNION {{over(b, offset, n) : offset \in 0 .. n - Len(b)} :
         b \in seqs, n \in lengths}

\* Two bytes at the end of one block, two at the start of the next but one.
gap(a, b) ==
  [len |-> 3 * W,
   src |-> [q \in 0 .. 3 * W - 1 |->
              CASE q \in W - 2 .. W - 1 -> a[q - W + 3]
                [] q \in 2 * W .. 2 * W + 1 -> b[q - 2 * W + 1]
                [] OTHER -> 32]]

digits == [n \in 1 .. 15 |-> 48 + n]   \* "123456789012345"

\* goodsequences of tests/unit.c, the fifth of them Korean.
goodsequences == {
  <<97>>, <<195, 177>>, <<226, 130, 161>>, <<240, 144, 140, 188>>,
  <<236, 149, 136, 235, 133, 149, 237, 149, 152, 236, 132, 184, 236, 154, 148,
    44, 32, 236, 132, 184, 236, 131, 129>>,
  <<194, 128>>, <<240, 144, 128, 128>>, <<238, 128, 128>>}

\* badsequences of tests/unit.c.
badsequences == {
  <<195, 40>>, <<160, 161>>, <<226, 40, 161>>, <<226, 130, 40>>,
  <<240, 40, 140, 188>>, <<240, 144, 40, 188>>, <<240, 40, 140, 40>>,
  <<192, 159>>, <<245, 255, 255, 255>>, <<237, 160, 129>>,
  <<248, 144, 128, 128, 128>>,
  Append(digits, 237), Append(digits, 241), Append(digits, 194),
  <<194, 127>>, <<206>>, <<206, 186, 225>>, <<206, 186, 225, 189>>,
  <<206, 186, 225, 189, 185, 207>>, <<206, 186, 225, 189, 185, 207, 131, 206>>,
  <<206, 186, 225, 189, 185, 207, 131, 206, 188, 206>>, <<223>>, <<239, 191>>}

\* WellFormed says of each what the unit test expects of the validators.
ASSUME UnitExpectations ==
  /\ \A b \in goodsequences : WellFormed(string(b).src, Len(b))
  /\ \A b \in badsequences : ~WellFormed(string(b).src, Len(b))

strings ==
  CASE Family = "short" ->
         placed(edgeBytes \X edgeBytes, {2, 3, W + 1, 2 * W + 1})
           \union placed({b \in edgeBytes : b >= 224} \X edgeBytes
                           \X {32, 128, 191, 194}, {3, W + 2})
           \union {gap(a, b) : a \in shapeBytes \X shapeBytes,
                              b \in restBytes \X restBytes}
           \union placed({<<a, b>> : a, b \in joinBytes}, {W, W + 1, 2 * W})
    [] Family = "unit" ->
         {string(b) : b \in goodsequences \union badsequences}
           \union placed(goodsequences \union badsequences, {W + 9, 2 * W})

\* An explicit set: TLC looks things up in it quickly.
MCInputs == {in : in \in strings}
=============================================================================
