----------------------------- MODULE Benchmark -----------------------------
(***************************************************************************)
(* demo, demo_utf8 and main of benchmarks/benchmark.c: Timing composed     *)
(* with what the timed calls do.  Each round of a call first runs "pre",   *)
(* populate in demo and populate_utf8 (the Generator) in demo_utf8, then   *)
(* hands the string to a validator and expects it to answer true.          *)
(*                                                                         *)
(* A validator is what the other modules show of it: a predicate on the    *)
(* string it is given.  The two automata of hoehrmann.h are given one byte *)
(* more than the others.  In demo_utf8 that is the NUL of populate_utf8;   *)
(* in demo it lies outside the buffer of malloc(N).                        *)
(***************************************************************************)
EXTENDS Timing, Utf8

CONSTANTS
  Sizes, Kinds, Rand,   \* as in Generator
  Outside               \* what the byte after the buffer may be

ASSUME SizesAssumption == Sizes \subseteq Nat
ASSUME RandAssumption == Kinds \subseteq Nat /\ Rand \subseteq Nat
ASSUME OutsideAssumption == Outside \subseteq Byte
\* A call also has the function it is in and the validator it times: the checks
\* for ASCII are only timed in demo.
ASSUME CallsAssumption ==
  \A p \in Programs : \A q \in 1 .. Len(p) :
    /\ p[q].demo \in {"ascii", "utf8"}
    /\ p[q].fn \in {"guava", "utf8", "ascii", "dfa", "double"}
    /\ p[q].fn = "ascii" => p[q].demo = "ascii"

VARIABLES
  gpc,        \* "idle" before pre, "loop" inside populate_utf8, then "done"
  N,          \* the argument of demo and demo_utf8
  data,       \* what the last pre has written, and in demo the byte after it
  actualN     \* the result of populate_utf8

preVars == <<gpc, N, data, actualN>>
benchVars == <<timingVars, preVars>>

Gen == INSTANCE Generator WITH pc <- gpc, i <- actualN

demo == calls[k].demo
fn == calls[k].fn

empty == [q \in {} |-> 0]

Init ==
  /\ TimingInit
  /\ N \in Sizes
  /\ gpc = "idle" /\ data = empty /\ actualN = 0

-----------------------------------------------------------------------------
\* What a round hands over.

byteMore == fn \in {"dfa", "double"}

\* Fault: no more is allocated than what is asked for.
roomForN == N

\* The bytes allocated for the string.
room == IF demo = "utf8" THEN 2 * N ELSE N

length ==
  (IF demo = "utf8" THEN actualN ELSE N) + (IF byteMore THEN 1 ELSE 0)

\* Fault: bytes are drawn, not characters.
populateBytes ==
  {[q \in 0 .. N |-> IF q < N THEN d[q] ELSE out] :
     d \in [0 .. N - 1 -> {r % 256 : r \in Rand}], out \in Outside}

\* populate(data, N): rand() & 0x7f, in a buffer with a byte after it.
populate ==
  {[q \in 0 .. N |-> IF q < N THEN d[q] ELSE out] :
     d \in [0 .. N - 1 -> {r % 128 : r \in Rand}], out \in Outside}

Pre ==
  /\ pc = "rounds" /\ i < Repeat /\ gpc = "idle"
  /\ IF demo = "utf8"
     THEN gpc' = "loop" /\ data' = empty /\ actualN' = 0
     ELSE gpc' = "done" /\ data' \in populate /\ UNCHANGED actualN
  /\ UNCHANGED <<N, timingVars>>

Generate == Gen!Next /\ UNCHANGED timingVars

-----------------------------------------------------------------------------
\* What the validator answers.

\* Where the double automata split n bytes: at the middle, or before it at the
\* next byte that does not look like a continuation byte.
split(n) ==
  CHOOSE q \in 0 .. n \div 2 :
    /\ q = 0 \/ data[q] \notin 129 .. 191
    /\ \A p \in q + 1 .. n \div 2 : data[p] \in 129 .. 191

\* The two automata of "double" both accept.
bothAccept(n, h) ==
  /\ LegalPrefix(data, h, h)
  /\ LegalPrefix([p \in 0 .. n - h - 1 |-> data[h + p]], n - h, n - h)

\* "guava" may also accept what is ill-formed.
answers(n) ==
  {r \in BOOLEAN :
     /\ fn = "utf8" => (r <=> WellFormed(data, n))
     /\ fn = "ascii" => (r <=> Ascii(data, n))
     /\ fn = "guava" => (WellFormed(data, n) => r)
     /\ fn = "dfa" => (r <=> LegalPrefix(data, n, n))
     /\ fn = "double" => (r <=> bothAccept(n, split(n)))}

\* The string stays in the buffer until the next pre.
nextPre == gpc' = "idle" /\ UNCHANGED <<N, data, actualN>>

Expected == gpc = "done" /\ TRUE \in answers(length) /\ Round /\ nextPre

NotExpected == gpc = "done" /\ FALSE \in answers(length) /\ Unexpected /\ nextPre

\* The steps of the macros that run no test.
Untimed ==
  /\ SetOverhead \/ MeasureRound \/ Measured \/ StartRounds \/ EndRounds
  /\ UNCHANGED preVars

BenchNext == Pre \/ Generate \/ Expected \/ NotExpected \/ Untimed

BenchSpec == Init /\ [][BenchNext]_benchVars /\ WF_benchVars(BenchNext)

-----------------------------------------------------------------------------
tested == pc = "rounds" /\ gpc = "done"
generating == gpc # "idle" /\ demo = "utf8"

(* A round writes its string before it hands it over, and only inside the *)
(* buffer: populate_utf8 and its NUL fit into 2 * N bytes if N is at least *)
(* 4 (main has 65536).  Nothing that is read is outside it either, but for *)
(* the byte more of demo, which is past the end of malloc(N).              *)
BenchTypeOK ==
  /\ gpc \in {"idle", "loop", "done"}
  /\ gpc # "idle" => pc = "rounds" /\ i < Repeat
  /\ tested => data \in Strings(IF demo = "utf8" THEN actualN + 1 ELSE N + 1)
  /\ generating => Gen!TypeOK
  /\ generating /\ N >= 4 => DOMAIN data \subseteq 0 .. room - 1
  /\ tested /\ N >= 4 => (length > room <=> demo = "ascii" /\ byteMore)

(* "We are feeding ascii so it is always going to be ok": every validator  *)
(* that demo times answers true.  It does not hold of the automata, which  *)
(* are given the byte after the buffer as well.                            *)
AsciiIsAlwaysOk == tested /\ demo = "ascii" => FALSE \notin answers(length)

(* Random UTF-8 is always accepted, and ASCII is, but for two kinds of     *)
(* calls, which refuse exactly because of the byte named here.  In demo it *)
(* is the byte after the buffer (see AsciiIsAlwaysOk): the automata refuse *)
(* it unless it is ASCII, or a start.  In demo_utf8 a split at a           *)
(* continuation byte 80 gives the second automaton half a character.       *)
RefusalsAreExplained ==
  tested =>
    (FALSE \in answers(length) <=>
       \/ demo = "ascii" /\ byteMore /\ data[N] \notin 0 .. 127 \union 194 .. 244
       \/ demo = "utf8" /\ fn = "double" /\ data[split(length)] = 128)

(* What populate_utf8 has written is well-formed UTF-8 whenever its loop   *)
(* comes around, and in the end.                                           *)
Generates == generating => Gen!Generates

(* "generate a string having at least length N, can exceed by up to 3      *)
(* chars": the buffer of 2 * N bytes has room for it and its NUL, from     *)
(* N = 4 on.                                                               *)
LengthIsAsPromised == generating => Gen!LengthIsAsPromised

(* The benchmark ends, unless rand() drew above F4 forever: fairness says  *)
(* that it does not.                                                       *)
Finishes == <>(k > Len(calls))
=============================================================================
