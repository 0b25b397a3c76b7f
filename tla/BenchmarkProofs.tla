--------------------------- MODULE BenchmarkProofs ---------------------------
(***************************************************************************)
(* Proofs about Timing, and about Benchmark, which composes it with what   *)
(* the timed calls do.                                                     *)
(*                                                                         *)
(* The inductive invariant of Timing says of the sums of a call what the   *)
(* rounds so far really cost, and of the overhead in use whose cost it is. *)
(***************************************************************************)
EXTENDS Benchmark, Utf8Proofs

\* Whole multiples of M do not matter modulo M.
LEMMA ModIs ==
  ASSUME NEW M \in Nat \ {0}, NEW x \in Int, NEW r \in 0 .. M - 1, NEW q \in Int,
         x = q * M + r
  PROVE  x % M = r
OBVIOUS

LEMMA NextMultiples ==
  ASSUME NEW M \in Int, NEW q \in Int
  PROVE  (q + 1) * M = (q * M) + M /\ (q - 1) * M = (q * M) - M
OBVIOUS

LEMMA ModShift ==
  ASSUME NEW M \in Nat \ {0}, NEW x \in Int, x % M = 0
  PROVE  (x + M) % M = 0 /\ (x - M) % M = 0
<1> DEFINE q == x \div M
<1>1. q \in Int /\ x = q * M
  OBVIOUS
<1> HIDE DEF q
<1>2. x + M = ((q + 1) * M) + 0 /\ x - M = ((q - 1) * M) + 0
  BY <1>1, NextMultiples
<1>3. (x + M) % M = 0
  BY <1>1, <1>2, ModIs
<1>4. (x - M) % M = 0
  BY <1>1, <1>2, ModIs
<1> QED
  BY <1>3, <1>4

\* A difference, and a sum, that wraps at most once.
LEMMA ModOnce ==
  ASSUME NEW M \in Nat \ {0}, NEW x \in Int, - M <= x, x <= M + M - 1
  PROVE  /\ x < 0 => x % M = x + M
         /\ 0 <= x /\ x < M => x % M = x
         /\ M <= x => x % M = x - M
OBVIOUS

LEMMA Multiply ==
  ASSUME NEW q \in Nat, NEW a \in Nat, NEW b \in Nat, a <= b
  PROVE  q * a \in Nat /\ q * b \in Nat /\ q * a <= q * b
OBVIOUS

LEMMA Multiples ==
  ASSUME NEW q \in Nat \ {0}, NEW a \in Nat, NEW b \in Nat, a <= b
  PROVE  (q * b) - (q * a) >= b - a
<1> DEFINE c == b - a
<1>1. q - 1 \in Nat /\ c \in Nat /\ b = a + c
  OBVIOUS
<1>2. q * b = (q * a) + (q * c) /\ q * c = ((q - 1) * c) + c /\ (q - 1) * c \in Nat
  OBVIOUS
<1>3. q * a \in Int
  OBVIOUS
<1> HIDE DEF c
<1> QED
  BY <1>1, <1>2, <1>3

\* timespent is no longer than the time, and the time within one second.  What
\* passes a second seems shorter by all of it but a thousandth, or by more.
LEMMA Spent ==
  ASSUME NEW ns \in 0 .. Nano - 1, NEW d \in Nat
  PROVE  /\ timespent(ns, d) \in Int
         /\ timespent(ns, d) <= d
         /\ ns + d < Nano => timespent(ns, d) = d
         /\ ns + d >= Nano => timespent(ns, d) <= d - (Nano - Micro)
<1> DEFINE q == (ns + d) \div Nano
           r == (ns + d) % Nano
<1>1. Nano \in Nat \ {0} /\ Micro \in Nat /\ Micro <= Nano
  BY ClockAssumption
<1>2. q \in Nat /\ r \in 0 .. Nano - 1 /\ ns + d = q * Nano + r
  BY <1>1
<1>3. ns + d < Nano => q = 0 /\ r = ns + d
  BY <1>1
<1>4. timespent(ns, d) = q * Micro + (r - ns)
  BY DEF timespent
<1> HIDE DEF q, r
<1>5. q * Micro \in Nat /\ q * Nano \in Nat /\ q * Micro <= q * Nano
  BY <1>1, <1>2, Multiply
<1>6. q = 0 => q * Micro = 0
  BY <1>1
<1>7. ns + d >= Nano => (q * Nano) - (q * Micro) >= Nano - Micro
  <2> SUFFICES ASSUME ns + d >= Nano PROVE (q * Nano) - (q * Micro) >= Nano - Micro
    OBVIOUS
  <2>1. q # 0
    <3> SUFFICES ASSUME q = 0 PROVE FALSE
      OBVIOUS
    <3>1. q * Nano = 0
      BY <1>1
    <3> QED
      BY <3>1, <1>1, <1>2
  <2> QED
    BY <2>1, <1>1, <1>2, Multiples
<1>8. ns + d >= Nano => timespent(ns, d) <= d - (Nano - Micro)
  BY <1>1, <1>2, <1>4, <1>5, <1>7
<1> QED
  BY <1>1, <1>2, <1>3, <1>4, <1>5, <1>6, <1>8

-----------------------------------------------------------------------------
(***************************************************************************)
(* The inductive invariant.                                                *)
(***************************************************************************)

RealOK ==
  real \in [n : Nat, total : Int, least : 0 .. MAX, best : 0 .. MAX,
            time : Nat, crossed : Nat]

\* min_diff is the best of the rounds that cover the overhead; the others have
\* only made it larger than any of those can be.
Best ==
  IF real.best = MAX
  THEN min_diff = MAX \/ min_diff >= Mod - overhead[counter]
  ELSE min_diff = real.best /\ real.best <= MAX - overhead[counter]

Time ==
  /\ t <= real.time
  /\ real.crossed = Never => t = real.time
  /\ real.crossed < Never => t <= real.crossed - (Nano - Micro)

\* A counter that could be opened has been read.
Counted == counter = "linux" /\ fd # -1

OneMore ==
  /\ real.n = 0 => min_diff = MAX /\ real.least = MAX
  /\ real.n > 0 /\ Counted => real.least < MAX /\ min_diff = real.least + 1

Rounds ==
  pc = "rounds" => Best /\ (sum_diff - real.total) % Mod = 0 /\ Time /\ OneMore

by(q) == calls[q].counter

\* Whose cost the global holds, where it came from, and what the measurement of
\* it has so far.  A global that is not set is so since the call before this one.
Overhead ==
  /\ \A q \in linuxCalls : q <= measuredAt
  /\ measuredAt = k => pc = "rounds"
  /\ overhead["cycles"] = MAX => measuredAt = IF pc = "rounds" THEN k ELSE k - 1
  /\ measuredAt = 0 => overhead["cycles"] = MAX
  /\ measuredAt > 0 /\ by(measuredAt) = "linux" =>
       overhead["cycles"] \in Elapsed \union Garbage
  /\ measuredAt > 0 /\ by(measuredAt) = "cycles" =>
       /\ overhead["cycles"] \in Elapsed
       /\ measuredAt = 1 \/ (by(measuredAt - 1) = "linux" /\ MAX \in Garbage)
  /\ pc = "overhead" =>
       \/ i = 0 /\ min_diff = MAX
       \/ min_diff \in Elapsed
       \/ counter = "linux" /\ min_diff \in Garbage
  /\ pc = "overhead" /\ counter = "cycles" => overhead["cycles"] = MAX
  /\ pc = "rounds" /\ counter = "linux" => measuredAt = k
  /\ pc = "rounds" /\ counter = "cycles" => overhead["cycles"] # MAX

IInv == TypeOK /\ RealOK /\ Rounds /\ Overhead

LEMMA ModFacts == Mod \in Nat \ {0} /\ MAX \in Nat /\ MAX = Mod - 1
  BY CountsAssumption DEF MAX

LEMMA CallFacts ==
  ASSUME TypeOK
  PROVE  /\ Len(calls) \in Nat /\ k \in Nat \ {0}
         /\ k <= Len(calls) => counter \in Counters
         /\ pc # "begin" => k <= Len(calls) /\ counter \in Counters
         /\ overhead["cycles"] \in 0 .. MAX /\ overhead["linux"] = MAX
         /\ counter \in Counters => overhead[counter] \in 0 .. MAX
  BY ProgramsAssumption DEF TypeOK, counter, Counters

LEMMA CostFacts ==
  ASSUME TypeOK, pc # "begin"
  PROVE  /\ cost \subseteq 0 .. MAX
         /\ counter = "cycles" \/ Counted =>
              cost = Elapsed /\ \A c \in cost : c < MAX
  BY CallFacts, CountsAssumption, ModFacts
     DEF cost, LinuxEvents_end, Counted, Counters, MAX

LEMMA Opened ==
  ASSUME TypeOK, openIfLinux
  PROVE  /\ open' \subseteq Descriptors /\ fd' \in Descriptors \union {-1}
         /\ counter = "linux" => fd' \in open' \union {-1}
  BY DEF openIfLinux, LinuxEvents_init, TypeOK, perf

LEMMA InitIInv == TimingInit => IInv
  <1> SUFFICES ASSUME TimingInit PROVE IInv
    OBVIOUS
  <1>1. Len(calls) \in Nat
    BY ProgramsAssumption DEF TimingInit
  <1>2. TypeOK
    BY <1>1, ModFacts, RepeatAssumption, ClockAssumption
       DEF TimingInit, TypeOK, Counters
  <1>3. RealOK
    BY ModFacts, ClockAssumption DEF TimingInit, RealOK, NoRounds
  <1>4. Rounds
    BY DEF TimingInit, Rounds
  <1>5. linuxCalls = {}
    BY DEF TimingInit, linuxCalls
  <1>6. Overhead
    BY <1>5 DEF TimingInit, Overhead, Counters
  <1> QED
    BY <1>2, <1>3, <1>4, <1>6 DEF IInv

LEMMA SetOverheadIInv == IInv /\ SetOverhead => IInv'
  <1> SUFFICES ASSUME IInv, SetOverhead PROVE IInv'
    OBVIOUS
  <1> USE DEF IInv
  <1>1. counter \in Counters /\ counter' = counter
    BY CallFacts DEF SetOverhead, counter
  <1>2. opened' \in Nat
    BY DEF SetOverhead, TypeOK
  <1>3. TypeOK'
    BY <1>1, <1>2, Opened, CallFacts, ModFacts, RepeatAssumption
       DEF SetOverhead, TypeOK, globals, counter
  <1>4. RealOK' /\ Rounds'
    BY DEF SetOverhead, RealOK, Rounds
  <1>5. linuxCalls' = linuxCalls /\ \A q : by(q)' = by(q)
    BY DEF SetOverhead, linuxCalls, by
  <1>6. Overhead'
    BY <1>1, <1>5 DEF SetOverhead, Overhead, globals, unset, by
  <1> QED
    BY <1>3, <1>4, <1>6

LEMMA MeasureRoundIInv == IInv /\ MeasureRound => IInv'
  <1> SUFFICES ASSUME IInv, MeasureRound PROVE IInv'
    OBVIOUS
  <1> USE DEF IInv
  <1>1. PICK c \in cost : min_diff' = lesser(c, min_diff)
    BY DEF MeasureRound
  <1>2. /\ c \in 0 .. MAX
        /\ counter = "cycles" => c \in Elapsed /\ c < MAX
        /\ c \in Elapsed \/ (counter = "linux" /\ c \in Garbage)
    BY CostFacts DEF MeasureRound, cost, LinuxEvents_end
  <1>3. min_diff' \in {c, min_diff} /\ min_diff' \in 0 .. MAX
    BY <1>1, <1>2 DEF lesser, TypeOK
  <1>4. TypeOK'
    BY <1>3, RepeatAssumption
       DEF MeasureRound, TypeOK, globals, perf, counter
  <1>5. min_diff' \in Elapsed \/ (counter = "linux" /\ min_diff' \in Garbage)
    <2>1. c <= MAX /\ c \in Int /\ min_diff \in Int
      BY <1>2, ModFacts DEF TypeOK
    <2>2. CASE min_diff = MAX /\ c # MAX
      BY <2>1, <2>2, <1>1, <1>2 DEF lesser
    <2>3. CASE min_diff = MAX /\ c = MAX
      BY <2>3, <1>1, <1>2 DEF lesser
    <2>4. CASE min_diff # MAX
      BY <2>4, <1>2, <1>3 DEF Overhead, MeasureRound
    <2> QED
      BY <2>2, <2>3, <2>4
  <1>6. RealOK' /\ Rounds'
    BY DEF MeasureRound, RealOK, Rounds
  <1>7. counter' = counter /\ linuxCalls' = linuxCalls /\ \A q : by(q)' = by(q)
    BY DEF MeasureRound, counter, linuxCalls, by
  <1>8. Overhead'
    BY <1>5, <1>7 DEF MeasureRound, Overhead, globals, by
  <1> QED
    BY <1>4, <1>6, <1>8

\* What the start of the rounds establishes, whatever was measured before.
LEMMA ToRounds ==
  ASSUME IInv, toRounds, pc # "rounds", k <= Len(calls),
         overhead' \in [Counters -> 0 .. MAX], overhead'["linux"] = MAX,
         measuredAt' \in 0 .. k
  PROVE  TypeOK' /\ RealOK' /\ Rounds'
  <1> USE DEF IInv
  <1>1. TypeOK'
    BY Opened, CallFacts, ModFacts, RepeatAssumption, ClockAssumption
       DEF toRounds, TypeOK, counter
  <1>2. RealOK'
    BY ModFacts, ClockAssumption DEF toRounds, RealOK, NoRounds
  <1>3. 0 % Mod = 0
    BY ModFacts
  <1>4. Rounds'
    BY <1>3, ClockAssumption DEF toRounds, Rounds, Best, Time, OneMore, NoRounds, MAX
  <1> QED
    BY <1>1, <1>2, <1>4

LEMMA MeasuredIInv == IInv /\ Measured => IInv'
  <1> SUFFICES ASSUME IInv, Measured PROVE IInv'
    OBVIOUS
  <1> USE DEF IInv
  <1>1. /\ overhead' \in [Counters -> 0 .. MAX]
        /\ overhead'["cycles"] = min_diff /\ overhead'["linux"] = MAX
    BY DEF Measured, TypeOK, Counters
  <1>2. /\ measuredAt' = k /\ counter \in Counters /\ k <= Len(calls)
        /\ k \in Nat \ {0} /\ pc = "overhead"
    BY CallFacts DEF Measured
  <1>3. TypeOK' /\ RealOK' /\ Rounds'
    BY <1>1, <1>2, ToRounds DEF Measured
  <1>4. min_diff \in Elapsed \/ (counter = "linux" /\ min_diff \in Garbage)
    BY RepeatAssumption DEF Measured, Overhead, TypeOK
  <1>5. /\ pc' = "rounds" /\ k' = k /\ counter' = counter /\ linuxCalls' = linuxCalls
        /\ counter = by(k) /\ \A q : by(q)' = by(q)
    BY DEF Measured, toRounds, counter, linuxCalls, by
  <1>6. ASSUME counter = "cycles"
        PROVE  k = 1 \/ (by(k - 1) = "linux" /\ MAX \in Garbage)
    <2>1. overhead["cycles"] = MAX /\ measuredAt = k - 1
      BY <1>2, <1>6 DEF Overhead
    <2>2. ASSUME k # 1 PROVE by(k - 1) \in Counters
      BY <2>2, <1>2, ProgramsAssumption DEF by, TypeOK
    <2>3. MAX \notin Elapsed
      BY CountsAssumption, ModFacts
    <2>4. k # 1 => k - 1 > 0
      BY <1>2
    <2> QED
      BY <2>1, <2>2, <2>3, <2>4 DEF Overhead, Counters
  <1>7. \A q \in linuxCalls : q <= k
    BY <1>2 DEF linuxCalls
  <1>8. min_diff = MAX => counter = "linux"
    BY <1>4, CountsAssumption, ModFacts
  <1>9. Overhead'
    BY <1>1, <1>2, <1>4, <1>5, <1>6, <1>7, <1>8 DEF Overhead, Counters
  <1> QED
    BY <1>3, <1>9

LEMMA StartRoundsIInv == IInv /\ StartRounds => IInv'
  <1> SUFFICES ASSUME IInv, StartRounds PROVE IInv'
    OBVIOUS
  <1> USE DEF IInv
  <1>1. overhead' = overhead /\ measuredAt' = measuredAt
    BY DEF StartRounds, globals
  <1>2. TypeOK' /\ RealOK' /\ Rounds'
    BY <1>1, ToRounds DEF StartRounds, TypeOK
  <1>3. /\ pc' = "rounds" /\ k' = k /\ counter' = counter /\ linuxCalls' = linuxCalls
        /\ \A q : by(q)' = by(q)
    BY DEF StartRounds, toRounds, counter, linuxCalls, by
  <1>4. counter = "cycles" /\ overhead["cycles"] # MAX
    BY CallFacts DEF StartRounds, unset, Counters
  <1>5. Overhead'
    BY <1>1, <1>3, <1>4 DEF Overhead, by
  <1> QED
    BY <1>2, <1>5

\* One more round, seen by the difference that is kept of it.
LEMMA RoundDiff ==
  ASSUME NEW took \in 0 .. MAX, counter \in Counters, overhead[counter] \in 0 .. MAX
  PROVE  /\ took - overhead[counter] \in Int
         /\ diff(took) = IF took < overhead[counter]
                         THEN took - overhead[counter] + Mod
                         ELSE took - overhead[counter]
         /\ diff(took) \in 0 .. MAX
  <1> DEFINE x == took - overhead[counter]
  <1>1. x \in Int /\ - Mod <= x /\ x <= Mod + Mod - 1 /\ x < Mod
        /\ (x < 0 <=> took < overhead[counter])
    BY ModFacts
  <1>2. diff(took) = x % Mod
    BY DEF diff
  <1> HIDE DEF x
  <1>3. Mod \in Nat \ {0}
    BY ModFacts
  <1>4. diff(took) = IF x < 0 THEN x + Mod ELSE x
    <2>1. CASE x < 0
      BY <2>1, <1>1, <1>2, <1>3, ModOnce
    <2>2. CASE 0 <= x
      BY <2>2, <1>1, <1>2, <1>3, ModOnce
    <2> QED
      BY <1>1, <2>1, <2>2
  <1>5. x \in Int /\ diff(took) \in 0 .. MAX
    BY <1>1, <1>4, ModFacts
  <1> QED
    BY <1>1, <1>4, <1>5 DEF x

LEMMA Wrapped ==
  ASSUME NEW a \in 0 .. MAX, NEW b \in 0 .. MAX
  PROVE  /\ (a + b) % Mod \in 0 .. MAX
         /\ (a + b) % Mod = a + b \/ (a + b) % Mod = a + b - Mod
  <1> DEFINE z == a + b
  <1>1. Mod \in Nat \ {0} /\ MAX = Mod - 1
    BY ModFacts
  <1>2. z \in Int /\ 0 <= z /\ - Mod <= z /\ z <= Mod + Mod - 1
    BY <1>1
  <1> HIDE DEF z
  <1>3. CASE z < Mod
    <2>1. z % Mod = z
      BY <1>1, <1>2, <1>3, ModOnce
    <2> QED
      BY <2>1, <1>1, <1>2, <1>3 DEF z
  <1>4. CASE Mod <= z
    <2>1. z % Mod = z - Mod
      BY <1>1, <1>2, <1>4, ModOnce
    <2> QED
      BY <2>1, <1>1, <1>2, <1>4 DEF z
  <1> QED
    BY <1>1, <1>2, <1>3, <1>4

LEMMA RoundSum ==
  ASSUME NEW took \in 0 .. MAX, counter \in Counters, overhead[counter] \in 0 .. MAX,
         sum_diff \in 0 .. MAX, real.total \in Int,
         (sum_diff - real.total) % Mod = 0
  PROVE  /\ sumOf(took) \in 0 .. MAX
         /\ (sumOf(took) - (real.total + (took - overhead[counter]))) % Mod = 0
  <1> DEFINE net == took - overhead[counter]
             x == sum_diff - real.total
             y == sumOf(took) - (real.total + net)
  <1>1. net \in Int /\ diff(took) \in 0 .. MAX /\ (diff(took) = net \/ diff(took) = net + Mod)
    BY RoundDiff
  <1>2. /\ sumOf(took) \in 0 .. MAX
        /\ \/ sumOf(took) = sum_diff + diff(took)
           \/ sumOf(took) = sum_diff + diff(took) - Mod
    BY <1>1, Wrapped DEF sumOf
  <1>3. x \in Int /\ x % Mod = 0
    OBVIOUS
  <1>4. y = x \/ y = x + Mod \/ y = x - Mod
    BY <1>1, <1>2, ModFacts
  <1> HIDE DEF net, x, y
  <1>5. y % Mod = 0
    BY <1>3, <1>4, ModFacts, ModShift
  <1> QED
    BY <1>2, <1>5 DEF y, net

LEMMA RoundIInv == IInv /\ Round => IInv'
  <1> SUFFICES ASSUME IInv, Round PROVE IInv'
    OBVIOUS
  <1> USE DEF IInv
  <1>1. PICK took \in cost, ns \in 0 .. Nano - 1, d \in Durations :
          LET timed == counter = "cycles"
              net == took - overhead[counter]
          IN
          /\ min_diff' = lesser(diff(took), min_diff)
          /\ sum_diff' = sumOf(took)
          /\ t' = IF timed THEN shorter(timespent(ns, d)) ELSE t
          /\ real' =
               [n |-> real.n + 1, total |-> real.total + net,
                least |-> lesser(took, real.least),
                best |-> IF net >= 0 THEN lesser(net, real.best) ELSE real.best,
                time |-> IF timed THEN lesser(d, real.time) ELSE real.time,
                crossed |-> IF timed /\ ns + d >= Nano
                            THEN lesser(d, real.crossed) ELSE real.crossed]
    BY DEF Round
  <1> DEFINE net == took - overhead[counter]
  <1>2. /\ took \in 0 .. MAX
        /\ counter \in Counters /\ overhead[counter] \in 0 .. MAX
        /\ counter = "cycles" \/ Counted => took < MAX
        /\ pc = "rounds" /\ i < Repeat /\ i' = i + 1
        /\ UNCHANGED <<calls, k, pc, overhead, measuredAt, fd, open, opened>>
    BY CallFacts, CostFacts DEF Round, globals, perf
  <1>3. /\ net \in Int /\ diff(took) \in 0 .. MAX
        /\ diff(took) = IF net < 0 THEN net + Mod ELSE net
    BY <1>2, RoundDiff
  <1>4. /\ counter' = counter /\ (Counted' <=> Counted) /\ linuxCalls' = linuxCalls
        /\ \A q : by(q)' = by(q)
    BY <1>2 DEF counter, Counted, linuxCalls, by
  <1>5. /\ min_diff \in 0 .. MAX /\ sum_diff \in 0 .. MAX
        /\ real.n \in Nat /\ real.total \in Int /\ real.least \in 0 .. MAX
        /\ real.best \in 0 .. MAX /\ real.time \in Nat /\ real.crossed \in Nat
        /\ t \in Int /\ t <= Never /\ Best /\ Time /\ OneMore
        /\ (sum_diff - real.total) % Mod = 0
    BY <1>2 DEF TypeOK, RealOK, Rounds
  <1>6. min_diff' \in 0 .. MAX /\ real'.best \in 0 .. MAX /\ Best'
    <2>1. /\ min_diff' = lesser(diff(took), min_diff)
          /\ real'.best = IF net >= 0 THEN lesser(net, real.best) ELSE real.best
          /\ overhead'[counter'] = overhead[counter]
      BY <1>1, <1>2, <1>4
    <2> HIDE DEF net
    <2>2. net >= - overhead[counter] /\ net <= MAX - overhead[counter]
      BY <1>2, ModFacts DEF net
    <2>3. CASE net < 0
      BY <2>1, <2>2, <2>3, <1>2, <1>3, <1>5, ModFacts DEF Best, lesser
    <2>4. CASE net >= 0
      BY <2>1, <2>2, <2>4, <1>2, <1>3, <1>5, ModFacts DEF Best, lesser
    <2> QED
      BY <1>3, <2>3, <2>4
  <1>7. sum_diff' \in 0 .. MAX /\ real'.total \in Int /\ ((sum_diff - real.total) % Mod = 0)'
    BY <1>1, <1>2, <1>3, <1>5, RoundSum
  <1>8. /\ t' \in Int /\ t' <= Never /\ real'.time \in Nat /\ real'.crossed \in Nat
        /\ Time'
    <2>1. /\ d \in Nat /\ d < Never /\ Never \in Nat /\ Nano \in Nat /\ ns \in Nat
          /\ Micro \in Nat
      BY <1>1, ClockAssumption
    <2>2. CASE counter = "cycles"
      <3>1. /\ t' = lesser(timespent(ns, d), t)
            /\ real'.time = lesser(d, real.time)
            /\ real'.crossed = IF ns + d >= Nano
                               THEN lesser(d, real.crossed) ELSE real.crossed
        BY <1>1, <2>2 DEF shorter
      <3> DEFINE ts == timespent(ns, d)
                 lost == Nano - Micro
      <3>2. /\ ts \in Int /\ ts <= d
            /\ ns + d < Nano => ts = d
            /\ ns + d >= Nano => ts <= d - lost
        BY <2>1, Spent
      <3>3. lost \in Int
        BY <2>1
      <3>4. /\ t' = lesser(ts, t)
            /\ t <= real.time
            /\ real.crossed = Never => t = real.time
            /\ real.crossed < Never => t <= real.crossed - lost
        BY <3>1, <1>5 DEF Time
      <3> HIDE DEF ts, lost
      <3>5. t' \in Int /\ t' <= Never /\ t' <= ts /\ t' <= t
        BY <3>2, <3>4, <2>1, <1>5 DEF lesser
      <3>6. real'.time \in Nat /\ real'.crossed \in Nat /\ t' <= real'.time
        BY <3>1, <3>2, <3>4, <3>5, <2>1, <1>5 DEF lesser
      <3>7. real'.crossed = Never => t' = real'.time
        BY <3>1, <3>2, <3>4, <2>1, <1>5 DEF lesser
      <3>8. real'.crossed < Never => t' <= real'.crossed - lost
        <4>1. CASE real'.crossed = d /\ ns + d >= Nano
          BY <4>1, <3>2, <3>3, <3>5, <2>1
        <4>2. CASE real'.crossed = real.crossed
          BY <4>2, <3>3, <3>4, <3>5, <1>5
        <4> QED
          BY <4>1, <4>2, <3>1 DEF lesser
      <3> QED
        BY <3>5, <3>6, <3>7, <3>8 DEF Time, lost
    <2>3. CASE counter # "cycles"
      <3>1. t' = t /\ real'.time = real.time
        BY <1>1, <2>3
      <3>2. real'.crossed = real.crossed
        BY <1>1, <2>3
      <3> QED
        BY <3>1, <3>2, <1>5, <2>1 DEF Time
    <2> QED
      BY <2>2, <2>3
  <1>9. real'.n \in Nat /\ real'.least \in 0 .. MAX /\ OneMore'
    <2>1. /\ real'.n = real.n + 1 /\ real'.least = lesser(took, real.least)
          /\ min_diff' = lesser(diff(took), min_diff)
      BY <1>1
    <2>2. Counted => diff(took) = took + 1 /\ took < MAX
      BY <1>2, <1>3, CallFacts, ModFacts DEF Counted
    <2>3. Counted => real'.least < MAX /\ min_diff' = real'.least + 1
      <3>1. CASE real.n = 0
        BY <3>1, <2>1, <2>2, <1>2, <1>5, ModFacts DEF OneMore, lesser
      <3>2. CASE real.n > 0
        BY <3>2, <2>1, <2>2, <1>2, <1>5, ModFacts DEF OneMore, lesser
      <3> QED
        BY <3>1, <3>2, <1>5
    <2> QED
      BY <2>1, <2>3, <1>2, <1>4, <1>5 DEF OneMore, lesser
  <1>10. TypeOK'
    <2>1. i' \in 0 .. Repeat
      BY <1>2, <1>4, RepeatAssumption DEF TypeOK
    <2>2. /\ min_diff' \in 0 .. MAX /\ sum_diff' \in 0 .. MAX
          /\ t' \in Int /\ t' <= Never
      BY <1>6, <1>7, <1>8
    <2> QED
      BY <1>2, <1>4, <2>1, <2>2 DEF TypeOK
  <1>11. RealOK'
    BY <1>1, <1>2, <1>6, <1>7, <1>8, <1>9 DEF RealOK
  <1>12. Rounds'
    BY <1>2, <1>4, <1>6, <1>7, <1>8, <1>9 DEF Rounds
  <1>13. Overhead'
    BY <1>2, <1>4 DEF Overhead, by
  <1> QED
    BY <1>10, <1>11, <1>12, <1>13

LEMMA PrintIInv == IInv /\ (Unexpected \/ EndRounds) => IInv'
  <1> SUFFICES ASSUME IInv, pc = "rounds", Report PROVE IInv'
    BY DEF Unexpected, EndRounds
  <1> USE DEF IInv
  <1>1. k' = k + 1 /\ pc' = "begin" /\ k <= Len(calls) /\ counter \in Counters
    BY CallFacts DEF Report
  <1>2. open' \subseteq open /\ fd' = fd
    BY DEF Report, LinuxEvents_close, perf
  <1>3. TypeOK'
    BY <1>1, <1>2, CallFacts DEF Report, TypeOK, sums, globals
  <1>4. RealOK' /\ Rounds'
    BY <1>1 DEF Report, RealOK, Rounds
  <1>5. linuxCalls' = linuxCalls \union (IF counter = "linux" THEN {k} ELSE {})
    BY <1>1, CallFacts DEF Report, linuxCalls, counter
  <1>6. /\ overhead' = overhead /\ measuredAt' = measuredAt /\ \A q : by(q)' = by(q)
        /\ k \in Nat \ {0} /\ measuredAt <= k
    BY CallFacts DEF Report, globals, by, TypeOK
  <1>7. \A q \in linuxCalls' : q <= measuredAt
    BY <1>5, <1>6 DEF Overhead
  <1>8. overhead["cycles"] = MAX => measuredAt = k
    BY DEF Overhead
  <1>9. Overhead'
    BY <1>1, <1>6, <1>7, <1>8 DEF Overhead, by
  <1> QED
    BY <1>3, <1>4, <1>9

LEMMA NextIInv == IInv /\ [Next]_timingVars => IInv'
  <1>1. IInv /\ UNCHANGED timingVars => IInv'
    BY DEF timingVars, IInv, TypeOK, RealOK, Rounds, Overhead, Best, Time, OneMore,
           Counted, linuxCalls, counter, by
  <1> QED
    BY <1>1, SetOverheadIInv, MeasureRoundIInv, MeasuredIInv, StartRoundsIInv,
       RoundIInv, PrintIInv DEF Next

LEMMA SpecIInv == Spec => []IInv
  BY InitIInv, NextIInv, PTL DEF Spec

-----------------------------------------------------------------------------
(***************************************************************************)
(* The descriptors.                                                        *)
(***************************************************************************)

\* Beyond the counters opened for an overhead, only that of the rounds is open.
Leaked ==
  /\ IsFiniteSet(open)
  /\ Cardinality(open) =
       opened + IF pc = "rounds" /\ counter = "linux" /\ fd # -1 THEN 1 ELSE 0
  /\ opened <=
       Cardinality(linuxCalls) + IF pc # "begin" /\ counter = "linux" THEN 1 ELSE 0

LEMMA LinuxCallsFinite ==
  ASSUME TypeOK
  PROVE  IsFiniteSet(linuxCalls) /\ Cardinality(linuxCalls) \in Nat
  <1>1. k - 1 \in Int /\ 1 \in Int
    BY CallFacts
  <1>2. IsFiniteSet(1 .. k - 1)
    BY <1>1, FS_Interval
  <1>3. linuxCalls \subseteq 1 .. k - 1
    BY DEF linuxCalls
  <1> QED
    BY <1>2, <1>3, FS_Subset, FS_CardinalityType

LEMMA OpenedOneMore ==
  ASSUME TypeOK, IsFiniteSet(open), LinuxEvents_init
  PROVE  /\ IsFiniteSet(open')
         /\ Cardinality(open') = Cardinality(open) + (IF fd' = -1 THEN 0 ELSE 1)
  <1>1. Cardinality(open) \in Nat
    BY FS_CardinalityType
  <1>2. CASE fd' = -1
    <2>1. open' = open
      BY <1>2 DEF LinuxEvents_init
    <2> QED
      BY <1>1, <1>2, <2>1
  <1>3. CASE fd' # -1
    <2>1. open' = open \union {fd'} /\ fd' \notin open
      BY <1>3 DEF LinuxEvents_init
    <2> QED
      BY <1>1, <1>3, <2>1, FS_AddElement
  <1> QED
    BY <1>2, <1>3

LEMMA DescriptorsStep ==
  ASSUME IInv, Leaked, [Next]_timingVars
  PROVE  Leaked'
  <1> USE DEF IInv, Leaked
  <1>1. /\ Cardinality(open) \in Nat /\ Cardinality(linuxCalls) \in Nat
        /\ IsFiniteSet(linuxCalls) /\ opened \in Nat
    BY LinuxCallsFinite, FS_CardinalityType DEF TypeOK
  <1>2. ASSUME openIfLinux, counter = "linux"
        PROVE  /\ IsFiniteSet(open')
               /\ Cardinality(open') = Cardinality(open) + (IF fd' = -1 THEN 0 ELSE 1)
    BY <1>2, OpenedOneMore DEF openIfLinux
  <1>3. CASE SetOverhead
    <2>1. /\ counter' = counter /\ linuxCalls' = linuxCalls
          /\ pc = "begin" /\ pc' = "overhead" /\ openIfLinux
          /\ opened' = opened + IF counter = "linux" /\ fd' # -1 THEN 1 ELSE 0
      BY <1>3 DEF SetOverhead, counter, linuxCalls
    <2>2. CASE counter = "linux"
      BY <2>1, <2>2, <1>1, <1>2
    <2>3. CASE counter # "linux"
      BY <2>1, <2>3, <1>1 DEF openIfLinux
    <2> QED
      BY <2>2, <2>3
  <1>4. CASE MeasureRound
    BY <1>1, <1>4 DEF MeasureRound, perf, linuxCalls, counter
  <1>5. CASE Measured
    <2>1. /\ counter' = counter /\ linuxCalls' = linuxCalls
          /\ pc = "overhead" /\ pc' = "rounds" /\ openIfLinux /\ opened' = opened
      BY <1>5 DEF Measured, toRounds, counter, linuxCalls
    <2>2. CASE counter = "linux"
      BY <2>1, <2>2, <1>1, <1>2
    <2>3. CASE counter # "linux"
      BY <2>1, <2>3, <1>1 DEF openIfLinux
    <2> QED
      BY <2>2, <2>3
  <1>6. CASE StartRounds
    <2>1. counter = "cycles"
      BY <1>6, CallFacts DEF StartRounds, unset, Counters
    <2> QED
      BY <2>1, <1>1, <1>6 DEF StartRounds, toRounds, openIfLinux, linuxCalls, counter
  <1>7. CASE Round
    BY <1>1, <1>7 DEF Round, perf, linuxCalls, counter
  <1>8. ASSUME pc = "rounds", Report
        PROVE  Leaked'
    <2>1. k \in Nat \ {0} /\ pc' = "begin" /\ opened' = opened
      BY <1>8, CallFacts DEF Report
    <2>2. CASE counter = "linux"
      <3>1. linuxCalls' = linuxCalls \union {k} /\ k \notin linuxCalls
        BY <2>1, <2>2, <1>8 DEF Report, linuxCalls, counter
      <3>2. Cardinality(linuxCalls') = Cardinality(linuxCalls) + 1
        BY <3>1, <1>1, FS_AddElement
      <3>3. open' = open \ {fd} /\ fd \in open \union {-1} /\ -1 \notin open
        BY <2>2, <1>8, DescriptorsAssumption DEF Report, LinuxEvents_close, TypeOK
      <3>4. /\ IsFiniteSet(open')
            /\ Cardinality(open') =
                 IF fd \in open THEN Cardinality(open) - 1 ELSE Cardinality(open)
        BY <3>3, FS_RemoveElement
      <3>5. Cardinality(open') = opened
        BY <3>3, <3>4, <2>2, <1>1, <1>8
      <3>6. opened <= Cardinality(linuxCalls')
        BY <3>2, <2>2, <1>1, <1>8
      <3> QED
        BY <3>2, <3>4, <3>5, <3>6, <2>1, <1>1
    <2>3. CASE counter # "linux"
      <3>1. linuxCalls' = linuxCalls
        BY <2>1, <2>3, <1>8 DEF Report, linuxCalls, counter
      <3>2. open' = open
        BY <2>3, <1>8 DEF Report
      <3> QED
        BY <3>1, <3>2, <2>1, <2>3, <1>1
    <2> QED
      BY <2>2, <2>3
  <1>9. CASE UNCHANGED timingVars
    BY <1>9 DEF timingVars, linuxCalls, counter
  <1> QED
    BY <1>3, <1>4, <1>5, <1>6, <1>7, <1>8, <1>9 DEF Next, Unexpected, EndRounds

(* The types, and that the global of BEST_TIME_LINUX is never set.         *)
THEOREM TimingTypeCorrect == Spec => []TypeOK
  <1>1. IInv => TypeOK
    BY DEF IInv
  <1> QED
    BY <1>1, SpecIInv, PTL

(* For any counter and any number of rounds: rounds cheaper than the       *)
(* overhead spoil neither the best nor the average cost.                   *)
THEOREM TimingBestIgnoresShortRounds == Spec => []BestIgnoresShortRounds
  <1>1. IInv => BestIgnoresShortRounds
    BY DEF IInv, Rounds, Best, BestIgnoresShortRounds
  <1> QED
    BY <1>1, SpecIInv, PTL

THEOREM TimingSumIsExact == Spec => []SumIsExact
  <1>1. IInv => SumIsExact
    BY DEF IInv, Rounds, SumIsExact
  <1> QED
    BY <1>1, SpecIInv, PTL

(* The best time is a lower bound of the shortest round's, exact when no   *)
(* round saw the seconds of the clock change, and short of every round     *)
(* that did.                                                               *)
THEOREM TimingTimeIsBest == Spec => []TimeIsBest
  <1>1. IInv => TimeIsBest
    BY DEF IInv, Rounds, Time, TimeIsBest
  <1> QED
    BY <1>1, SpecIInv, PTL

(* Cycles are reduced by an overhead in cycles that the first call has     *)
(* measured, and after a performance counter has been used, by what the    *)
(* last such call has stored; those counters by 2^64 - 1.                  *)
THEOREM TimingOverheadIsOfCycles == Spec => []OverheadIsOfCycles
  <1>1. ASSUME IInv, pc = "rounds", counter = "cycles"
        PROVE  /\ \A q \in linuxCalls : q <= measuredAt
               /\ measuredAt \in linuxCalls => overhead["cycles"] \in Elapsed \union Garbage
               /\ measuredAt \notin linuxCalls =>
                    /\ overhead["cycles"] \in Elapsed
                    /\ measuredAt = 1 \/ (measuredAt - 1 \in linuxCalls /\ MAX \in Garbage)
    <2> USE <1>1 DEF IInv
    <2>1. k \in Nat \ {0} /\ k <= Len(calls) /\ measuredAt \in 1 .. k
      BY CallFacts DEF Overhead, TypeOK
    <2>2. by(measuredAt) \in Counters
      BY <2>1, ProgramsAssumption DEF by, TypeOK
    <2>3. by(k) = "cycles"
      BY DEF counter, by
    <2>4. measuredAt \in linuxCalls <=> by(measuredAt) = "linux"
      BY <2>1, <2>3 DEF linuxCalls, by
    <2>5. measuredAt # 1 /\ by(measuredAt - 1) = "linux" => measuredAt - 1 \in linuxCalls
      BY <2>1 DEF linuxCalls, by
    <2> QED
      BY <2>1, <2>2, <2>4, <2>5 DEF Overhead, Counters
  <1>2. IInv => OverheadIsOfCycles
    BY <1>1 DEF OverheadIsOfCycles
  <1> QED
    BY <1>2, SpecIInv, PTL

THEOREM TimingLinuxCountsOneMore == Spec => []LinuxCountsOneMore
  <1>1. ASSUME IInv PROVE LinuxCountsOneMore
    <2>1. \A x \in 0 .. MAX : x < MAX => (x + 1) % Mod = x + 1
      BY ModFacts
    <2> QED
      BY <1>1, <2>1 DEF IInv, RealOK, Rounds, OneMore, Counted, LinuxCountsOneMore
  <1> QED
    BY <1>1, SpecIInv, PTL

(* Exactly the counters opened for an overhead stay open, whichever of the *)
(* two opens of a call were refused and whether or not its rounds were cut *)
(* short.                                                                  *)
THEOREM TimingDescriptorsLeak == Spec => []DescriptorsLeak
  <1>1. TimingInit => Leaked
    <2> SUFFICES ASSUME TimingInit PROVE Leaked
      OBVIOUS
    <2>1. open = {} /\ opened = 0 /\ pc = "begin"
      BY DEF TimingInit
    <2>2. Cardinality(linuxCalls) \in Nat
      BY InitIInv, LinuxCallsFinite DEF IInv
    <2> QED
      BY <2>1, <2>2, FS_EmptySet DEF Leaked
  <1>2. IInv /\ Leaked /\ [Next]_timingVars => Leaked'
    BY DescriptorsStep
  <1>3. ASSUME IInv, Leaked PROVE DescriptorsLeak
    <2>1. Cardinality(linuxCalls) \in Nat /\ opened \in Nat
      BY <1>3, LinuxCallsFinite DEF IInv, TypeOK
    <2> QED
      BY <1>3, <2>1 DEF Leaked, DescriptorsLeak
  <1> QED
    BY <1>1, <1>2, <1>3, SpecIInv, PTL DEF Spec

-----------------------------------------------------------------------------
(***************************************************************************)
(* The strings of the rounds: the inductive invariant of Benchmark adds to *)
(* that of Timing what pre has written, and what is known of it in demo    *)
(* and in demo_utf8.                                                       *)
(***************************************************************************)

\* A string is made only inside a round.
Stage ==
  /\ N \in Sizes
  /\ gpc \in {"idle", "loop", "done"}
  /\ gpc # "idle" => pc = "rounds" /\ i < Repeat

\* What populate_utf8 has written so far, and has when it returns.
Generated ==
  generating =>
    /\ actualN \in Nat /\ actualN <= N + 3
    /\ data \in Strings(IF gpc = "done" THEN actualN + 1 ELSE actualN)
    /\ WellFormed(data, actualN)
    /\ gpc = "done" => actualN >= N /\ data[actualN] = 0

\* What populate has written, and the byte after it.
Populated ==
  gpc # "idle" /\ demo # "utf8" =>
    gpc = "done" /\ data \in Strings(N + 1) /\ Ascii(data, N)

BenchIInv == IInv /\ Stage /\ Generated /\ Populated

\* The generator sees the same strings.
LEMMA SameUtf8 ==
  ASSUME NEW s, NEW n
  PROVE  /\ Gen!WellFormed(s, n) <=> WellFormed(s, n)
         /\ Gen!Strings(n) = Strings(n)
  BY DEF Gen!WellFormed, Gen!LegalAt, Gen!Continuation, Gen!Strings, Gen!Byte,
         WellFormed, LegalAt, Continuation, Strings, Byte

LEMMA DrawnIn ==
  ASSUME NEW lo \in Int, NEW hi \in Int, lo <= hi, NEW b \in Gen!Draw(lo, hi)
  PROVE  b \in lo .. hi
  <1> DEFINE m == hi - lo + 1
  <1>1. m \in Nat \ {0}
    OBVIOUS
  <1>2. PICK r \in Rand : b = lo + (r % m)
    BY DEF Gen!Draw
  <1>3. r \in Nat
    BY RandAssumption
  <1> HIDE DEF m
  <1>4. r % m \in 0 .. m - 1
    BY <1>1, <1>3
  <1> QED
    BY <1>1, <1>2, <1>4 DEF m

\* The ranges populate_utf8 draws from.
LEMMA Draws ==
  /\ \A b \in Gen!Trail : b \in 128 .. 191
  /\ \A b \in Gen!Draw(194, 223) : b \in 194 .. 223
  /\ \A b \in Gen!Draw(160, 191) : b \in 160 .. 191
  /\ \A b \in Gen!Draw(128, 159) : b \in 128 .. 159
  /\ \A b \in Gen!Draw(144, 191) : b \in 144 .. 191
  /\ \A b \in Gen!Draw(128, 143) : b \in 128 .. 143
  /\ \A b \in Gen!Draw(241, 243) : b \in 241 .. 243
  <1>1. Gen!Draw(128, 191) \subseteq 128 .. 191
    <2>1. 128 \in Int /\ 191 \in Int /\ 128 <= 191
      OBVIOUS
    <2> QED
      BY <2>1, DrawnIn, ZenonT(60)
  <1>2. Gen!Draw(194, 223) \subseteq 194 .. 223
    <2>1. 194 \in Int /\ 223 \in Int /\ 194 <= 223
      OBVIOUS
    <2> QED
      BY <2>1, DrawnIn, ZenonT(60)
  <1>3. Gen!Draw(160, 191) \subseteq 160 .. 191
    <2>1. 160 \in Int /\ 191 \in Int /\ 160 <= 191
      OBVIOUS
    <2> QED
      BY <2>1, DrawnIn, ZenonT(60)
  <1>4. Gen!Draw(128, 159) \subseteq 128 .. 159
    <2>1. 128 \in Int /\ 159 \in Int /\ 128 <= 159
      OBVIOUS
    <2> QED
      BY <2>1, DrawnIn, ZenonT(60)
  <1>5. Gen!Draw(144, 191) \subseteq 144 .. 191
    <2>1. 144 \in Int /\ 191 \in Int /\ 144 <= 191
      OBVIOUS
    <2> QED
      BY <2>1, DrawnIn, ZenonT(60)
  <1>6. Gen!Draw(128, 143) \subseteq 128 .. 143
    <2>1. 128 \in Int /\ 143 \in Int /\ 128 <= 143
      OBVIOUS
    <2> QED
      BY <2>1, DrawnIn, ZenonT(60)
  <1>7. Gen!Draw(241, 243) \subseteq 241 .. 243
    <2>1. 241 \in Int /\ 243 \in Int /\ 241 <= 243
      OBVIOUS
    <2> QED
      BY <2>1, DrawnIn, ZenonT(60)
  <1> QED
    BY <1>1, <1>2, <1>3, <1>4, <1>5, <1>6, <1>7 DEF Gen!Trail

\* One more legal sequence of m bytes, in a string of less than N.
LEMMA Appended ==
  ASSUME BenchIInv, generating, gpc = "loop", Gen!loops,
         NEW m \in 1 .. 4, NEW bytes, Len(bytes) = m, Gen!write(bytes),
         UNCHANGED timingVars,
         \A d \in 1 .. m : bytes[d] \in Byte,
         (/\ data'[actualN] = bytes[1]
          /\ m >= 2 => data'[actualN + 1] = bytes[2]
          /\ m >= 3 => data'[actualN + 2] = bytes[3]
          /\ m >= 4 => data'[actualN + 3] = bytes[4])
           => LegalAt(data', actualN, m)
  PROVE  Generated' /\ gpc' = gpc /\ N' = N
  <1>1. /\ actualN \in Nat /\ N \in Nat /\ actualN < N
        /\ data \in Strings(actualN) /\ WellFormed(data, actualN)
    BY SizesAssumption DEF BenchIInv, Stage, Generated, Gen!loops
  <1>2. /\ data' = [q \in 0 .. actualN + m - 1 |->
                      IF q < actualN THEN data[q] ELSE bytes[q - actualN + 1]]
        /\ actualN' = actualN + m /\ gpc' = gpc /\ N' = N
    BY DEF Gen!write
  <1>3. LegalAt(data', actualN, m)
    <2>1. \A d \in 1 .. m : data'[actualN + d - 1] = bytes[d]
      <3> SUFFICES ASSUME NEW d \in 1 .. m PROVE data'[actualN + d - 1] = bytes[d]
        OBVIOUS
      <3>1. /\ actualN + d - 1 \in 0 .. actualN + m - 1
            /\ ~ (actualN + d - 1 < actualN) /\ (actualN + d - 1) - actualN + 1 = d
        BY <1>1
      <3>2. data'[actualN + d - 1] = bytes[(actualN + d - 1) - actualN + 1]
        BY <1>2, <3>1
      <3> QED
        BY <3>1, <3>2
    <2>2. \A d \in 1 .. m : actualN + d - 1 = actualN + (d - 1)
      BY <1>1
    <2> QED
      BY <2>1, <2>2, <1>1
  <1>4. data' \in Strings(actualN')
    <2>1. \A q \in 0 .. actualN + m - 1 :
            (IF q < actualN THEN data[q] ELSE bytes[q - actualN + 1]) \in Byte
      BY <1>1 DEF Strings
    <2>2. data' \in [0 .. actualN + m - 1 -> Byte]
      BY <1>2, <2>1
    <2>3. data' \in Strings(actualN + m)
      BY <1>1, <2>2 DEF Strings
    <2> QED
      BY <1>2, <2>3
  <1>5. WellFormed(data', actualN)
    <2>1. \A q \in 0 .. actualN - 1 : data[q] = data'[q]
      BY <1>1, <1>2
    <2> QED
      BY <1>1, <2>1, SameBytes
  <1>6. WellFormed(data', actualN + m)
    BY <1>1, <1>3, <1>5, Extend
  <1>7. actualN' \in Nat /\ actualN' <= N' + 3 /\ WellFormed(data', actualN')
    BY <1>1, <1>2, <1>6
  <1>8. gpc' # "done"
    BY <1>2
  <1> QED
    BY <1>2, <1>4, <1>7, <1>8 DEF Generated

LEMMA GeneratorStep ==
  ASSUME BenchIInv, generating, Generate
  PROVE  Generated' /\ gpc' \in {"loop", "done"} /\ N' = N
  <1>0. UNCHANGED timingVars /\ Gen!Next
    BY DEF Generate
  <1>1. CASE Gen!OneByte
    <2>1. gpc = "loop" /\ Gen!loops /\ Gen!write(<<32>>)
      BY <1>1 DEF Gen!OneByte, Gen!drawn
    <2>2. Len(<<32>>) = 1 /\ \A d \in 1 .. 1 : <<32>>[d] = 32
      OBVIOUS
    <2>3. data'[actualN] = <<32>>[1] => LegalAt(data', actualN, 1)
      BY DEF LegalAt
    <2> QED
      BY <2>1, <2>2, <2>3, <1>0, Appended DEF Byte
  <1>2. CASE Gen!TwoBytes
    <2>1. PICK b0 \in Gen!Draw(194, 223), b1 \in Gen!Trail : Gen!write(<<b0, b1>>)
      BY <1>2 DEF Gen!TwoBytes
    <2>2. gpc = "loop" /\ Gen!loops
      BY <1>2 DEF Gen!TwoBytes, Gen!drawn
    <2>3. b0 \in 194 .. 223 /\ b1 \in 128 .. 191
      BY Draws
    <2> DEFINE bytes == <<b0, b1>>
    <2>4. Len(bytes) = 2 /\ bytes[1] = b0 /\ bytes[2] = b1
      OBVIOUS
    <2> HIDE DEF bytes
    <2>5. \A d \in 1 .. 2 : bytes[d] \in Byte
      BY <2>3, <2>4 DEF Byte
    <2>6. data'[actualN] = bytes[1] /\ data'[actualN + 1] = bytes[2] => LegalAt(data', actualN, 2)
      BY <2>3, <2>4 DEF LegalAt, Continuation
    <2>7. Gen!write(bytes)
      BY <2>1 DEF bytes
    <2> QED
      BY <2>2, <2>4, <2>5, <2>6, <2>7, <1>0, Appended
  <1>3. CASE Gen!ThreeBytes
    <2>1. PICK w \in 224 .. 239 :
            /\ gpc = "loop" /\ Gen!loops
            /\ \E b1 \in Gen!secondOfThree(w), b2 \in Gen!Trail :
                 Gen!write(<<w, b1, b2>>)
      BY <1>3 DEF Gen!ThreeBytes, Gen!drawn
    <2>2. PICK b1 \in Gen!secondOfThree(w), b2 \in Gen!Trail : Gen!write(<<w, b1, b2>>)
      BY <2>1
    <2>3. /\ b1 \in 128 .. 191 /\ b2 \in 128 .. 191
          /\ w = 224 => b1 >= 160
          /\ w = 237 => b1 <= 159
      BY Draws DEF Gen!secondOfThree, Gen!Trail
    <2> DEFINE bytes == <<w, b1, b2>>
    <2>4. Len(bytes) = 3 /\ bytes[1] = w /\ bytes[2] = b1 /\ bytes[3] = b2
      OBVIOUS
    <2> HIDE DEF bytes
    <2>5. \A d \in 1 .. 3 : bytes[d] \in Byte
      BY <2>3, <2>4 DEF Byte
    <2>6. /\ data'[actualN] = bytes[1] /\ data'[actualN + 1] = bytes[2]
          /\ data'[actualN + 2] = bytes[3]
          => LegalAt(data', actualN, 3)
      BY <2>3, <2>4 DEF LegalAt, Continuation
    <2>7. Gen!write(bytes)
      BY <2>2 DEF bytes
    <2> QED
      BY <2>1, <2>4, <2>5, <2>6, <2>7, <1>0, Appended
  <1>4. CASE Gen!FourBytes
    <2>1. PICK w \in 240 .. 244 :
            /\ gpc = "loop" /\ Gen!loops
            /\ \E s \in Gen!startOfFour(w), b2 \in Gen!Trail, b3 \in Gen!Trail :
                 Gen!write(s \o <<b2, b3>>)
      BY <1>4 DEF Gen!FourBytes, Gen!drawn
    <2>2. PICK s \in Gen!startOfFour(w), b2 \in Gen!Trail, b3 \in Gen!Trail :
            Gen!write(s \o <<b2, b3>>)
      BY <2>1
    <2>3. PICK b0 \in Byte, b1 \in 128 .. 191 :
            /\ s = <<b0, b1>>
            /\ b0 \in 240 .. 244
            /\ b0 = 240 => b1 >= 144
            /\ b0 = 244 => b1 <= 143
      <3>1. CASE w = 240
        <4>1. PICK x \in Gen!Draw(144, 191) : s = <<240, x>>
          BY <3>1 DEF Gen!startOfFour
        <4> QED
          BY <4>1, Draws DEF Byte
      <3>2. CASE w = 244
        <4>1. PICK x \in Gen!Draw(128, 143) : s = <<244, x>>
          BY <3>2 DEF Gen!startOfFour
        <4> QED
          BY <4>1, Draws DEF Byte
      <3>3. CASE w \notin {240, 244}
        <4>1. PICK y \in Gen!Draw(241, 243), x \in Gen!Trail : s = <<y, x>>
          BY <3>3 DEF Gen!startOfFour
        <4>2. y \in 241 .. 243 /\ x \in 128 .. 191
          BY Draws
        <4> QED
          BY <4>1, <4>2 DEF Byte
      <3> QED
        BY <3>1, <3>2, <3>3
    <2>4. b2 \in 128 .. 191 /\ b3 \in 128 .. 191
      BY Draws
    <2> DEFINE bytes == s \o <<b2, b3>>
    <2>5. /\ Len(bytes) = 4
          /\ bytes[1] = b0 /\ bytes[2] = b1 /\ bytes[3] = b2 /\ bytes[4] = b3
      BY <2>3
    <2>6. Gen!write(bytes)
      BY <2>2
    <2> HIDE DEF bytes
    <2>7. \A d \in 1 .. 4 : bytes[d] \in Byte
      BY <2>3, <2>4, <2>5 DEF Byte
    <2>8. /\ data'[actualN] = bytes[1] /\ data'[actualN + 1] = bytes[2]
          /\ data'[actualN + 2] = bytes[3] /\ data'[actualN + 3] = bytes[4]
          => LegalAt(data', actualN, 4)
      BY <2>3, <2>4, <2>5 DEF LegalAt, Continuation
    <2> QED
      BY <2>1, <2>5, <2>6, <2>7, <2>8, <1>0, Appended
  <1>5. CASE Gen!Finish
    <2>1. /\ actualN \in Nat /\ N \in Nat /\ ~(actualN < N) /\ actualN <= N + 3
          /\ data \in Strings(actualN) /\ WellFormed(data, actualN)
      BY <1>5, SizesAssumption DEF BenchIInv, Stage, Generated, Gen!Finish, Gen!loops
    <2>2. /\ data' = [q \in 0 .. actualN |-> IF q < actualN THEN data[q] ELSE 0]
          /\ gpc' = "done" /\ N' = N /\ actualN' = actualN
      BY <1>5 DEF Gen!Finish
    <2>3. data' \in Strings(actualN + 1) /\ data'[actualN] = 0
      BY <2>1, <2>2 DEF Strings, Byte
    <2>4. \A q \in 0 .. actualN - 1 : data[q] = data'[q]
      BY <2>1, <2>2
    <2>5. WellFormed(data', actualN)
      BY <2>1, <2>4, SameBytes
    <2> QED
      BY <2>1, <2>2, <2>3, <2>5 DEF Generated
  <1> QED
    BY <1>0, <1>1, <1>2, <1>3, <1>4, <1>5 DEF Gen!Next

LEMMA BenchTiming == [BenchNext]_benchVars => [Next]_timingVars
  BY DEF BenchNext, Pre, Generate, Expected, NotExpected, Untimed, benchVars, Next

LEMMA BenchCall ==
  ASSUME IInv, pc = "rounds"
  PROVE  /\ k \in 1 .. Len(calls)
         /\ demo \in {"ascii", "utf8"}
         /\ fn \in {"guava", "utf8", "ascii", "dfa", "double"}
         /\ fn = "ascii" => demo = "ascii"
  <1>1. calls \in Programs /\ k \in 1 .. Len(calls)
    BY CallFacts DEF IInv, TypeOK
  <1> QED
    BY <1>1, CallsAssumption DEF demo, fn

LEMMA BenchInitIInv == Init => BenchIInv
  BY InitIInv DEF Init, BenchIInv, Stage, Generated, Populated, generating

\* ASCII and the byte after it.
LEMMA PopulatedIs ==
  ASSUME NEW n \in Nat, NEW d \in [0 .. n - 1 -> 0 .. 127], NEW out \in Byte
  PROVE  /\ [q \in 0 .. n |-> IF q < n THEN d[q] ELSE out] \in Strings(n + 1)
         /\ Ascii([q \in 0 .. n |-> IF q < n THEN d[q] ELSE out], n)
  <1>1. \A q \in 0 .. n - 1 : d[q] \in 0 .. 127
    OBVIOUS
  <1>2. \A q \in 0 .. n : (IF q < n THEN d[q] ELSE out) \in Byte
    BY <1>1 DEF Byte
  <1> DEFINE s == [q \in 0 .. n |-> IF q < n THEN d[q] ELSE out]
  <1>3. s \in Strings(n + 1)
    <2>1. s \in [0 .. n -> Byte]
      BY <1>2
    <2> QED
      BY <2>1 DEF Strings
  <1>4. ASSUME NEW q \in 0 .. n - 1 PROVE s[q] < 128
    <2>1. s[q] = d[q] /\ d[q] \in 0 .. 127
      BY <1>1
    <2>2. \A x : x \in 0 .. 127 => x < 128
      OBVIOUS
    <2> HIDE DEF s
    <2> QED
      BY <2>1, <2>2, Zenon
  <1>5. Ascii(s, n)
    BY <1>4 DEF Ascii
  <1> QED
    BY <1>3, <1>5

LEMMA PreIInv ==
  ASSUME BenchIInv, Pre
  PROVE  Stage' /\ Generated' /\ Populated'
  <1>1. /\ gpc = "idle" /\ N \in Sizes /\ N \in Nat
        /\ pc = "rounds" /\ i < Repeat
    BY SizesAssumption DEF BenchIInv, Stage, Pre
  <1>2. /\ UNCHANGED <<N, calls, k, pc, i>>
        /\ demo' = demo
    BY DEF Pre, timingVars, demo
  <1>3. CASE demo = "utf8"
    <2>1. gpc' = "loop" /\ data' = empty /\ actualN' = 0
      BY <1>3 DEF Pre
    <2>2. empty \in Strings(0)
      BY DEF empty, Strings
    <2>3. WellFormed(empty, 0)
      BY DEF WellFormed
    <2> QED
      BY <2>1, <2>2, <2>3, <1>1, <1>2, <1>3 DEF Stage, Generated, Populated, generating
  <1>4. CASE demo # "utf8"
    <2>1. gpc' = "done" /\ data' \in populate
      BY <1>4 DEF Pre
    <2>2. {r % 128 : r \in Rand} \subseteq 0 .. 127
      <3>1. \A r \in Nat : r % 128 \in 0 .. 127
        OBVIOUS
      <3> QED
        BY <3>1, RandAssumption
    <2>3. PICK d \in [0 .. N - 1 -> 0 .. 127], out \in Byte :
            data' = [q \in 0 .. N |-> IF q < N THEN d[q] ELSE out]
      <3> DEFINE low == {r % 128 : r \in Rand}
      <3>1. PICK d \in [0 .. N - 1 -> low], out \in Outside :
              data' = [q \in 0 .. N |-> IF q < N THEN d[q] ELSE out]
        BY <2>1 DEF populate
      <3> HIDE DEF low
      <3>2. low \subseteq 0 .. 127
        BY <2>2 DEF low
      <3>3. d \in [0 .. N - 1 -> 0 .. 127] /\ out \in Byte
        BY <3>1, <3>2, OutsideAssumption
      <3> QED
        BY <3>1, <3>3
    <2>4. data' \in Strings(N + 1)
      BY <2>3, <1>1, PopulatedIs
    <2>5. Ascii(data', N)
      BY <2>3, <1>1, PopulatedIs
    <2> QED
      BY <2>1, <2>4, <2>5, <1>1, <1>2, <1>4 DEF Stage, Generated, Populated, generating
  <1> QED
    BY <1>3, <1>4

LEMMA BenchNextIInv == BenchIInv /\ [BenchNext]_benchVars => BenchIInv'
  <1> SUFFICES ASSUME BenchIInv, [BenchNext]_benchVars PROVE BenchIInv'
    OBVIOUS
  <1>1. IInv'
    BY BenchTiming, NextIInv DEF BenchIInv
  <1>2. CASE Pre
    BY <1>1, <1>2, PreIInv DEF BenchIInv
  <1>3. CASE Generate
    <2>1. gpc = "loop"
      BY <1>3 DEF Generate, Gen!Next, Gen!OneByte, Gen!TwoBytes, Gen!ThreeBytes,
                  Gen!FourBytes, Gen!Finish, Gen!drawn
    <2>2. generating
      BY <2>1 DEF BenchIInv, Populated, generating
    <2>3. Generated' /\ gpc' \in {"loop", "done"} /\ N' = N
      BY <1>3, <2>2, GeneratorStep
    <2>4. demo' = demo /\ pc' = pc /\ i' = i
      BY <1>3 DEF Generate, timingVars, demo
    <2> QED
      BY <1>1, <2>1, <2>2, <2>3, <2>4 DEF BenchIInv, Stage, Populated, generating
  <1>4. CASE Expected \/ NotExpected
    <2>1. gpc' = "idle" /\ N' = N
      BY <1>4 DEF Expected, NotExpected, nextPre
    <2> QED
      BY <1>1, <2>1 DEF BenchIInv, Stage, Generated, Populated, generating
  <1>5. CASE Untimed
    <2>1. gpc = "idle"
      BY <1>5 DEF BenchIInv, Stage, Untimed, SetOverhead, MeasureRound, Measured,
                  StartRounds, EndRounds
    <2>2. UNCHANGED <<gpc, N, data, actualN>>
      BY <1>5 DEF Untimed, preVars
    <2> QED
      BY <1>1, <2>1, <2>2 DEF BenchIInv, Stage, Generated, Populated, generating, empty
  <1>6. CASE UNCHANGED benchVars
    BY <1>1, <1>6 DEF benchVars, preVars, timingVars, BenchIInv, Stage, Generated,
                      Populated, generating, demo, empty
  <1> QED
    BY <1>2, <1>3, <1>4, <1>5, <1>6 DEF BenchNext

LEMMA BenchSpecIInv == BenchSpec => []BenchIInv
  BY BenchInitIInv, BenchNextIInv, PTL DEF BenchSpec

-----------------------------------------------------------------------------
(***************************************************************************)
(* What the validators answer to such strings.                             *)
(***************************************************************************)

LEMMA SplitIs ==
  ASSUME NEW n \in Nat
  PROVE  /\ split(n) \in 0 .. n \div 2
         /\ split(n) = 0 \/ data[split(n)] \notin 129 .. 191
  <1> DEFINE C == {q \in 0 .. n \div 2 : q = 0 \/ data[q] \notin 129 .. 191}
  <1>1. n \div 2 \in Nat /\ 0 \in C /\ C \in SUBSET (0 .. n \div 2)
    OBVIOUS
  <1>2. PICK h \in C : \A q \in C : q <= h
    <2> HIDE DEF C
    <2> QED
      BY <1>1, Largest
  <1>3. \A p \in h + 1 .. n \div 2 : data[p] \in 129 .. 191
    BY <1>2
  <1> QED
    BY <1>2, <1>3 DEF split

LEMMA AsciiIsLegal ==
  ASSUME NEW n \in Nat, NEW s, \A q \in 0 .. n - 1 : s[q] \in Byte, Ascii(s, n)
  PROVE  WellFormed(s, n) /\ LegalPrefix(s, n, n)
  <1>1. ASSUME NEW q \in 0 .. n - 1 PROVE s[q] \in 0 .. 127
    <2>1. s[q] \in Byte /\ s[q] < 128
      BY DEF Ascii
    <2> QED
      BY <2>1 DEF Byte
  <1>2. WellFormed(s, n)
    <2>1. \A q \in 0 .. n - 1 : q < q + 1 /\ q + 1 <= n /\ LegalAt(s, q, 1) /\ q \in 0 .. q
      BY <1>1 DEF LegalAt
    <2>2. 1 \in 1 .. 4
      OBVIOUS
    <2> QED
      BY <2>1, <2>2 DEF WellFormed
  <1>3. \A x : Padded(s, n, x) \in 0 .. 127
    BY <1>1 DEF Padded
  <1>4. \A x : WindowOK(s, n, x)
    BY <1>3 DEF WindowOK, Follows, Owed, Continuation
  <1> QED
    BY <1>2, <1>3, <1>4 DEF LegalPrefix, PrefixOK

LEMMA AsciiThenByte ==
  ASSUME NEW n \in Nat, NEW s \in Strings(n + 1), Ascii(s, n)
  PROVE  LegalPrefix(s, n + 1, n + 1) <=> s[n] \in 0 .. 127 \union 194 .. 244
  <1>1. s[n] \in Byte /\ \A q \in 0 .. n - 1 : s[q] \in 0 .. 127
    <2>1. s[n] \in Byte /\ \A q \in 0 .. n - 1 : s[q] \in Byte
      BY DEF Strings
    <2>2. \A q \in 0 .. n - 1 : s[q] < 128
      BY DEF Ascii
    <2>3. ASSUME NEW q \in 0 .. n - 1 PROVE s[q] \in 0 .. 127
      <3>1. s[q] \in 0 .. 255
        BY <2>1 DEF Byte
      <3>2. s[q] < 128
        BY <2>2
      <3> QED
        BY <3>1, <3>2
    <2> QED
      BY <2>1, <2>3
  <1>2. /\ Padded(s, n + 1, n) = s[n]
        /\ \A x \in Int : x < n => Padded(s, n + 1, x) \in 0 .. 127
    BY <1>1 DEF Padded
  <1>3. \A x \in 0 .. n - 1 : WindowOK(s, n + 1, x)
    <2> SUFFICES ASSUME NEW x \in 0 .. n - 1 PROVE WindowOK(s, n + 1, x)
      OBVIOUS
    <2>1. /\ Padded(s, n + 1, x - 3) \in 0 .. 127 /\ Padded(s, n + 1, x - 2) \in 0 .. 127
          /\ Padded(s, n + 1, x - 1) \in 0 .. 127 /\ Padded(s, n + 1, x) \in 0 .. 127
      BY <1>2
    <2> QED
      BY <2>1 DEF WindowOK, Follows, Owed, Continuation
  <1>4. WindowOK(s, n + 1, n) <=> s[n] <= 244 /\ ~Continuation(s[n])
    <2>1. /\ Padded(s, n + 1, n - 1) \in 0 .. 127 /\ Padded(s, n + 1, n - 2) \in 0 .. 127
          /\ Padded(s, n + 1, n - 3) \in 0 .. 127
      BY <1>2
    <2> QED
      BY <1>2, <2>1 DEF WindowOK, Follows, Owed, Continuation
  <1>5. PrefixOK(s, n + 1, n + 1) <=> WindowOK(s, n + 1, n)
    BY <1>3 DEF PrefixOK
  <1>6. Padded(s, n + 1, (n + 1) - 1) = s[n]
    BY <1>2
  <1>7. LegalPrefix(s, n + 1, n + 1)
          <=> s[n] <= 244 /\ ~Continuation(s[n]) /\ s[n] \notin {192, 193}
    BY <1>4, <1>5, <1>6 DEF LegalPrefix
  <1>8. s[n] \in 0 .. 255
    BY <1>1 DEF Byte
  <1>9. s[n] <= 244 /\ ~Continuation(s[n]) /\ s[n] \notin {192, 193}
          <=> s[n] \in 0 .. 127 \union 194 .. 244
    BY <1>8 DEF Continuation
  <1> QED
    BY <1>7, <1>9

\* A NUL more is an ASCII byte more.
LEMMA NulMore ==
  ASSUME NEW n \in Nat, NEW s, WellFormed(s, n), s[n] = 0
  PROVE  WellFormed(s, n + 1)
  <1>1. LegalAt(s, n, 1) /\ 1 \in 1 .. 4
    BY DEF LegalAt
  <1> QED
    BY <1>1, Extend

\* The bytes from h on, as the second automaton is given them.
rest(n, h) == [p \in 0 .. n - h - 1 |-> data[h + p]]

LEMMA RestIs ==
  ASSUME NEW n \in Nat, NEW h \in 0 .. n, data \in Strings(n)
  PROVE  /\ n - h \in Nat /\ rest(n, h) \in Strings(n - h)
         /\ \A p \in 0 .. n - h - 1 : rest(n, h)[p] = data[h + p]
  <1>1. \A p \in 0 .. n - h - 1 : data[h + p] \in Byte
    BY DEF Strings
  <1> QED
    BY <1>1 DEF rest, Strings

LEMMA BothOnAscii ==
  ASSUME NEW n \in Nat, data \in Strings(n + 1), Ascii(data, n), NEW h \in 0 .. n
  PROVE  bothAccept(n + 1, h) <=> data[n] \in 0 .. 127 \union 194 .. 244
  <1> DEFINE m == n - h
             r == rest(n + 1, h)
  <1>1. m \in Nat /\ (n + 1) - h = m + 1 /\ h \in Nat /\ n + 1 \in Nat /\ h \in 0 .. n + 1
    OBVIOUS
  <1>2. \A q \in 0 .. h - 1 : data[q] \in Byte /\ data[q] < 128
    BY DEF Strings, Ascii
  <1>3. LegalPrefix(data, h, h)
    BY <1>1, <1>2, AsciiIsLegal DEF Ascii
  <1>4. r \in Strings(m + 1) /\ \A p \in 0 .. m : r[p] = data[h + p]
    BY <1>1, RestIs
  <1>5. Ascii(r, m) /\ r[m] = data[n]
    <2>1. \A p \in 0 .. m - 1 : h + p \in 0 .. n - 1 /\ p \in 0 .. m
      OBVIOUS
    <2>2. \A p \in 0 .. m - 1 : r[p] < 128
      BY <2>1, <1>4 DEF Ascii
    <2> HIDE DEF r
    <2>3. h + m = n /\ m \in 0 .. m
      BY <1>1
    <2> QED
      BY <2>2, <2>3, <1>4 DEF Ascii
  <1>6. bothAccept(n + 1, h) <=> LegalPrefix(r, m + 1, m + 1)
    BY <1>1, <1>3 DEF bothAccept, rest
  <1> HIDE DEF r, m
  <1>7. LegalPrefix(r, m + 1, m + 1) <=> r[m] \in 0 .. 127 \union 194 .. 244
    BY <1>1, <1>4, <1>5, AsciiThenByte
  <1> QED
    BY <1>5, <1>6, <1>7

\* Half a character for the second automaton: it starts with a continuation.
LEMMA HalfACharacter ==
  ASSUME NEW n \in Nat, NEW h \in 0 .. n - 1, data[h] = 128
  PROVE  ~ bothAccept(n, h)
  <1> DEFINE m == n - h
             r == rest(n, h)
  <1>1. m \in Nat /\ m >= 1 /\ h + 0 = h /\ 0 \in 0 .. n - h - 1
    OBVIOUS
  <1>2. r[0] = 128
    BY <1>1 DEF rest
  <1>3. bothAccept(n, h) => LegalPrefix(r, m, m)
    BY DEF bothAccept, rest
  <1> HIDE DEF r, m
  <1>4. /\ Padded(r, m, 0 - 3) = 0 /\ Padded(r, m, 0 - 2) = 0
        /\ Padded(r, m, 0 - 1) = 0 /\ Padded(r, m, 0) = 128
    BY <1>1, <1>2 DEF Padded
  <1>5. ~ WindowOK(r, m, 0)
    <2>1. ~ Follows(0, 0, 0, 128)
      BY DEF Follows, Owed, Continuation
    <2> QED
      BY <1>4, <2>1 DEF WindowOK
  <1>6. 0 \in 0 .. m - 1
    BY <1>1
  <1> QED
    BY <1>3, <1>5, <1>6 DEF LegalPrefix, PrefixOK

LEMMA BothOnUtf8 ==
  ASSUME NEW n \in Nat, data \in Strings(n), WellFormed(data, n),
         NEW h \in 0 .. n - 1, h = 0 \/ data[h] \notin 129 .. 191
  PROVE  bothAccept(n, h) <=> data[h] # 128
  <1> DEFINE r == [x \in 0 .. h - 1 |-> data[x]]
  <1>1. data[h] = 128 => ~ bothAccept(n, h)
    BY HalfACharacter
  <1>2. ASSUME data[h] # 128 PROVE bothAccept(n, h)
    <2>1. ~Continuation(data[h])
      <3>1. CASE h = 0
        <4>1. PrefixOK(data, n, n + 1) /\ 0 \in 0 .. n
          BY WellFormedIsPrefixOK
        <4>2. WindowOK(data, n, 0)
          BY <4>1 DEF PrefixOK
        <4>3. /\ Padded(data, n, 0 - 3) = 0 /\ Padded(data, n, 0 - 2) = 0
              /\ Padded(data, n, 0 - 1) = 0 /\ Padded(data, n, 0) = data[h]
          BY <3>1 DEF Padded
        <4> QED
          BY <4>2, <4>3 DEF WindowOK, Follows, Owed
      <3>2. CASE h # 0
        BY <3>2, <1>2 DEF Continuation
      <3> QED
        BY <3>1, <3>2
    <2>2. WellFormed(data, h) /\ WellFormed(rest(n, h), n - h)
      BY <2>1, SplitWellFormed DEF rest
    <2>3. LegalPrefix(data, h, h)
      <3>1. r \in Strings(h) /\ h \in Nat /\ h \in 0 .. h + 1
        BY DEF Strings
      <3>2. \A x \in 0 .. h - 1 : data[x] = r[x] /\ r[x] = data[x]
        OBVIOUS
      <3> HIDE DEF r
      <3>3. WellFormed(r, h)
        BY <2>2, <3>1, <3>2, SameBytes
      <3>4. LegalPrefix(r, h, h)
        BY <3>1, <3>3, WellFormedIsLegal
      <3> QED
        BY <3>1, <3>2, <3>4, SameWindows
    <2>4. LegalPrefix(rest(n, h), n - h, n - h)
      <3>1. n - h \in Nat /\ n - h \in 0 .. (n - h) + 1 /\ h \in 0 .. n
        OBVIOUS
      <3>2. rest(n, h) \in Strings(n - h)
        BY <3>1, RestIs
      <3> QED
        BY <2>2, <3>1, <3>2, WellFormedIsLegal
    <2> QED
      BY <2>3, <2>4 DEF bothAccept, rest
  <1> QED
    BY <1>1, <1>2

\* What is handed over, to any validator.
LEMMA Handed ==
  ASSUME BenchIInv, tested
  PROVE  /\ N \in Nat
         /\ demo \in {"ascii", "utf8"}
         /\ fn \in {"guava", "utf8", "ascii", "dfa", "double"}
         /\ fn = "ascii" => demo = "ascii"
         /\ demo = "ascii" => data \in Strings(N + 1) /\ Ascii(data, N)
         /\ demo = "utf8" => /\ actualN \in Nat /\ data \in Strings(actualN + 1)
                             /\ WellFormed(data, actualN) /\ data[actualN] = 0
  BY BenchCall, SizesAssumption
     DEF BenchIInv, Stage, Generated, Populated, tested, generating

LEMMA Accepted ==
  ASSUME BenchIInv, tested
  PROVE  FALSE \in answers(length) <=>
           \/ fn = "utf8" /\ ~WellFormed(data, length)
           \/ fn = "ascii" /\ ~Ascii(data, length)
           \/ fn = "guava" /\ ~WellFormed(data, length)
           \/ fn = "dfa" /\ ~LegalPrefix(data, length, length)
           \/ fn = "double" /\ ~bothAccept(length, split(length))
  BY Handed DEF answers

LEMMA RefusedAscii ==
  ASSUME BenchIInv, tested, demo = "ascii"
  PROVE  FALSE \in answers(length) <=>
           byteMore /\ data[N] \notin 0 .. 127 \union 194 .. 244
  <1>1. N \in Nat /\ data \in Strings(N + 1) /\ Ascii(data, N)
    BY Handed
  <1>2. length = IF byteMore THEN N + 1 ELSE N
    BY <1>1 DEF length
  <1>3. WellFormed(data, N)
    <2>1. \A q \in 0 .. N - 1 : data[q] \in Byte
      BY <1>1 DEF Strings
    <2> QED
      BY <1>1, <2>1, AsciiIsLegal
  <1>4. LegalPrefix(data, N + 1, N + 1) <=> data[N] \in 0 .. 127 \union 194 .. 244
    BY <1>1, AsciiThenByte
  <1>5. bothAccept(N + 1, split(N + 1)) <=> data[N] \in 0 .. 127 \union 194 .. 244
    <2>1. N + 1 \in Nat /\ (N + 1) \div 2 <= N
      BY <1>1
    <2>2. split(N + 1) \in 0 .. N
      BY <2>1, <1>1, SplitIs
    <2> QED
      BY <2>2, <1>1, BothOnAscii
  <1> QED
    BY <1>1, <1>2, <1>3, <1>4, <1>5, Accepted, Handed DEF byteMore

LEMMA RefusedUtf8 ==
  ASSUME BenchIInv, tested, demo = "utf8"
  PROVE  FALSE \in answers(length) <=> fn = "double" /\ data[split(length)] = 128
  <1>1. /\ actualN \in Nat /\ data \in Strings(actualN + 1)
        /\ WellFormed(data, actualN) /\ data[actualN] = 0
    BY Handed
  <1>2. length = IF byteMore THEN actualN + 1 ELSE actualN
    BY <1>1 DEF length
  <1>3. LegalPrefix(data, actualN + 1, actualN + 1)
    BY <1>1, NulPads
  <1>4. bothAccept(actualN + 1, split(actualN + 1)) <=> data[split(actualN + 1)] # 128
    <2>1. /\ actualN + 1 \in Nat /\ (actualN + 1) \div 2 <= actualN
          /\ (actualN + 1) - 1 = actualN
      BY <1>1
    <2>2. /\ split(actualN + 1) \in 0 .. actualN
          /\ split(actualN + 1) = 0 \/ data[split(actualN + 1)] \notin 129 .. 191
      <3>1. /\ split(actualN + 1) \in 0 .. (actualN + 1) \div 2
            /\ split(actualN + 1) = 0 \/ data[split(actualN + 1)] \notin 129 .. 191
        BY <2>1, SplitIs
      <3>2. (actualN + 1) \div 2 \in Int
        BY <2>1
      <3> QED
        BY <3>1, <3>2, <2>1, <1>1
    <2>3. WellFormed(data, actualN + 1)
      BY <1>1, NulMore
    <2> QED
      BY <2>1, <2>2, <2>3, <1>1, BothOnUtf8
  <1> QED
    BY <1>1, <1>2, <1>3, <1>4, Accepted, Handed DEF byteMore

(* The benchmark is a behaviour of the timing macros, which so do in it    *)
(* what the theorems above say of them, whatever the validators answer.    *)
THEOREM BenchRefinesTiming == BenchSpec => Spec
  <1>1. Init => TimingInit
    BY DEF Init
  <1> QED
    BY <1>1, BenchTiming, PTL DEF BenchSpec, Spec

(* Every round writes its string in time and inside the buffer, and hands  *)
(* over nothing outside it but the byte more of demo.                      *)
THEOREM BenchTypeCorrect == BenchSpec => []BenchTypeOK
  <1>1. ASSUME BenchIInv PROVE BenchTypeOK
    <2>1. tested => data \in Strings(IF demo = "utf8" THEN actualN + 1 ELSE N + 1)
      BY <1>1, Handed
    <2>2. generating => Gen!TypeOK
      BY <1>1, SameUtf8 DEF BenchIInv, Stage, Generated, generating, Gen!TypeOK
    <2>3. N \in Nat
      BY <1>1, SizesAssumption DEF BenchIInv, Stage
    <2>4. ASSUME generating, N >= 4 PROVE DOMAIN data \subseteq 0 .. room - 1
      <3>1. /\ actualN \in Nat /\ actualN <= N + 3 /\ room = 2 * N
            /\ data \in Strings(actualN) \/ data \in Strings(actualN + 1)
        BY <1>1, <2>4 DEF BenchIInv, Generated, generating, room
      <3>2. DOMAIN data = 0 .. actualN - 1 \/ DOMAIN data = 0 .. (actualN + 1) - 1
        BY <3>1 DEF Strings
      <3>3. room \in Nat /\ actualN + 1 <= room
        BY <3>1, <2>3, <2>4
      <3> QED
        BY <3>1, <3>2, <3>3
    <2>5. ASSUME tested, N >= 4
          PROVE  length > room <=> demo = "ascii" /\ byteMore
      <3>1. demo \in {"ascii", "utf8"}
        BY <1>1, <2>5, Handed
      <3>2. CASE demo = "ascii"
        BY <3>2, <2>3 DEF length, room
      <3>3. CASE demo = "utf8"
        <4>1. generating
          BY <3>3, <2>5 DEF tested, generating
        <4>2. actualN \in Nat /\ actualN <= N + 3
          BY <1>1, <4>1 DEF BenchIInv, Generated
        <4> QED
          BY <3>3, <4>2, <2>3, <2>5 DEF length, room
      <3> QED
        BY <3>1, <3>2, <3>3
    <2> QED
      BY <1>1, <2>1, <2>2, <2>4, <2>5 DEF BenchIInv, Stage, BenchTypeOK
  <1> QED
    BY <1>1, BenchSpecIInv, PTL

(* populate_utf8 generates UTF-8, whatever rand() draws and for every N.   *)
THEOREM BenchGenerates == BenchSpec => []Generates
  <1>1. BenchIInv => Generates
    BY SameUtf8 DEF BenchIInv, Generated, Generates, Gen!Generates
  <1> QED
    BY <1>1, BenchSpecIInv, PTL

(* It writes at least N bytes and at most three more, and its NUL is still *)
(* inside the 2 * N bytes that demo_utf8 allocates, from N = 4 on.         *)
THEOREM BenchLengthIsAsPromised == BenchSpec => []LengthIsAsPromised
  <1>1. ASSUME BenchIInv PROVE LengthIsAsPromised
    <2> SUFFICES ASSUME generating PROVE Gen!LengthIsAsPromised
      BY DEF LengthIsAsPromised
    <2>1. N \in Nat /\ actualN \in Nat /\ actualN <= N + 3
      BY <1>1, SizesAssumption DEF BenchIInv, Stage, Generated
    <2>2. gpc = "done" => actualN >= N /\ data[actualN] = 0
      BY <1>1 DEF BenchIInv, Generated
    <2> QED
      BY <2>1, <2>2 DEF Gen!LengthIsAsPromised
  <1> QED
    BY <1>1, BenchSpecIInv, PTL

(* Only the two kinds of calls with a byte more are ever refused, in demo  *)
(* for what lies after the buffer and in demo_utf8 for a split at 80; and  *)
(* then they are, always.                                                  *)
THEOREM BenchRefusalsAreExplained == BenchSpec => []RefusalsAreExplained
  <1>1. ASSUME BenchIInv PROVE RefusalsAreExplained
    <2> SUFFICES ASSUME tested
                 PROVE  FALSE \in answers(length) <=>
                   \/ /\ demo = "ascii" /\ byteMore
                      /\ data[N] \notin 0 .. 127 \union 194 .. 244
                   \/ demo = "utf8" /\ fn = "double" /\ data[split(length)] = 128
      BY DEF RefusalsAreExplained
    <2>1. demo \in {"ascii", "utf8"}
      BY <1>1, Handed
    <2> QED
      BY <1>1, <2>1, RefusedAscii, RefusedUtf8
  <1> QED
    BY <1>1, BenchSpecIInv, PTL
=============================================================================
