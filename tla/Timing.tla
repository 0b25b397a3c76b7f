------------------------------- MODULE Timing -------------------------------
(***************************************************************************)
(* The macros BEST_TIME, RDTSC_SET_OVERHEAD, BEST_TIME_LINUX and           *)
(* RDTSC_SET_OVERHEAD_LINUX of benchmarks/benchmark.h, and the performance *)
(* counter of benchmarks/linux-perf-events.h they read: a program is a     *)
(* sequence of uses of the first and the third, each of which repeats a    *)
(* test and keeps the least and the sum of what it cost.                   *)
(*                                                                         *)
(* All counts are unsigned modulo Mod.  The cost of a round is any of      *)
(* Elapsed counter ticks, and any of Durations on the wall clock.          *)
(***************************************************************************)
EXTENDS Integers, Sequences, FiniteSets

CONSTANTS
  Mod,           \* 2^64, for the width of a uint64_t
  Repeat,        \* how often a test is repeated
  Elapsed,       \* what a counter may advance by between start and stop
  Garbage,       \* what an uninitialised unsigned long may hold
  Durations,     \* what the wall clock may advance by in a round
  Nano, Micro,   \* 1E9, the nanoseconds of a second, and the 1E6 of timespent
  Never,         \* 1e200, longer than any round
  Descriptors,   \* the file descriptors the process may open
  Programs       \* sequences of calls: records with their counter

Counters == {"cycles", "linux"}

ASSUME RepeatAssumption == Repeat \in Nat \ {0}
ASSUME CountsAssumption ==
  /\ Mod \in Nat \ {0}
  /\ Garbage \subseteq 0 .. Mod - 1
  \* below UINT64_MAX, which stands for "not measured"
  /\ Elapsed \subseteq 0 .. Mod - 2
ASSUME ClockAssumption ==
  /\ Micro \in Nat /\ Nano \in Nat /\ Micro < Nano
  /\ Durations \subseteq Nat
  /\ Never \in Nat /\ \A d \in Durations : d < Never
ASSUME DescriptorsAssumption ==
  Descriptors \subseteq Nat /\ IsFiniteSet(Descriptors)
ASSUME ProgramsAssumption ==
  \A p \in Programs :
    /\ Len(p) \in Nat /\ DOMAIN p = 1 .. Len(p)
    /\ \A q \in 1 .. Len(p) : p[q].counter \in Counters

VARIABLES
  calls, k,      \* the program, and the number of the call it is in
  pc,            \* "begin", then "overhead" if it is measured, then "rounds"
  i,             \* the rounds done
  min_diff, sum_diff, t,
  overhead,      \* global_rdtsc_overhead and global_rdtsc_overhead_linux
  fd, open,      \* cycles.fd, and the descriptors the process has open
  measuredAt,    \* history: the call that measured what "overhead" holds, or 0
  opened,        \* history: how many counters were opened for an overhead
  real           \* history: what the rounds of this call cost, see NoRounds

callVars == <<calls, k, pc, i>>
sums == <<min_diff, sum_diff, t>>
globals == <<overhead, measuredAt>>
perf == <<fd, open, opened>>
timingVars == <<calls, k, pc, i, min_diff, sum_diff, t, overhead, fd, open,
                measuredAt, opened, real>>

MAX == Mod - 1

\* The number of rounds, the sum of their costs without the overhead, the
\* least cost and the least of those that cover the overhead; the time of the
\* shortest round, and of the shortest during which the clock's seconds advanced.
NoRounds == [n |-> 0, total |-> 0, least |-> MAX, best |-> MAX, time |-> Never,
             crossed |-> Never]

TimingInit ==
  /\ calls \in Programs /\ k = 1
  /\ pc = "begin" /\ i = 0
  /\ min_diff = MAX /\ sum_diff = 0 /\ t = Never
  /\ overhead = [c \in Counters |-> MAX] /\ measuredAt = 0
  /\ fd = -1 /\ open = {} /\ opened = 0
  /\ real = NoRounds

counter == calls[k].counter

lesser(a, b) == IF a < b THEN a ELSE b

-----------------------------------------------------------------------------
\* Opening the counter may be refused, and is when no descriptor is left.
LinuxEvents_init ==
  LET free == Descriptors \ open IN
  /\ fd' \in {-1} \union {f \in free : \A g \in free : f <= g}
  /\ open' = open \union ({fd'} \ {-1})

\* Fault: the counter is not closed.
LinuxEvents_closeNot == UNCHANGED <<fd, open>>

LinuxEvents_close == open' = open \ {fd} /\ UNCHANGED fd

\* What LinuxEvents_end may return: result is not initialised, and a read from
\* the descriptor -1 leaves it so.
LinuxEvents_end == IF fd = -1 THEN Garbage ELSE Elapsed

\* What a round of either kind may cost.
cost == IF counter = "linux" THEN LinuxEvents_end ELSE Elapsed

-----------------------------------------------------------------------------
\* Fault: zero stands for an overhead that is not measured.
unsetAtZero == overhead[counter] = 0

unset == overhead[counter] = MAX

openIfLinux ==
  IF counter = "linux" THEN LinuxEvents_init ELSE UNCHANGED <<fd, open>>

SetOverhead ==
  /\ pc = "begin" /\ k <= Len(calls) /\ unset
  /\ pc' = "overhead"
  /\ i' = 0 /\ min_diff' = MAX
  /\ openIfLinux
  /\ opened' = opened + IF counter = "linux" /\ fd' # -1 THEN 1 ELSE 0
  /\ UNCHANGED <<calls, k, sum_diff, t, globals, real>>

MeasureRound ==
  /\ pc = "overhead" /\ i < Repeat
  /\ \E c \in cost : min_diff' = lesser(c, min_diff)
  /\ i' = i + 1
  /\ UNCHANGED <<calls, k, pc, sum_diff, t, globals, perf, real>>

\* Fault: a sum left from the call before.
toRoundsKeepingSum ==
  /\ pc' = "rounds"
  /\ i' = 0 /\ min_diff' = MAX /\ t' = Never
  /\ UNCHANGED sum_diff
  /\ real' = NoRounds
  /\ openIfLinux
  /\ UNCHANGED <<calls, k, opened>>

\* Start of the loop.  The counter's variable shadows the one used for the
\* overhead, which is not closed.
toRounds ==
  /\ pc' = "rounds"
  /\ i' = 0 /\ min_diff' = MAX /\ sum_diff' = 0 /\ t' = Never
  /\ real' = NoRounds
  /\ openIfLinux
  /\ UNCHANGED <<calls, k, opened>>

\* Both macros store into global_rdtsc_overhead.
Measured ==
  /\ pc = "overhead" /\ ~(i < Repeat)
  /\ overhead' = [overhead EXCEPT !["cycles"] = min_diff]
  /\ measuredAt' = k
  /\ toRounds

StartRounds ==
  /\ pc = "begin" /\ k <= Len(calls) /\ ~unset
  /\ toRounds
  /\ UNCHANGED globals

-----------------------------------------------------------------------------
\* Fault: clamped at zero, not modulo 2^64.
diffClamped(took) ==
  IF took < overhead[counter] THEN 0 ELSE took - overhead[counter]

\* Fault: a signed difference.
diffSigned(took) == took - overhead[counter]

\* Fault: the overhead is not subtracted.
diffWithOverhead(took) == took

diff(took) == (took - overhead[counter]) % Mod

\* timespent() of a round of d ns that starts at ns nanoseconds of a second:
\* a second of difference counts for 1E6.
timespent(ns, d) == ((ns + d) \div Nano) * Micro + (((ns + d) % Nano) - ns)

\* Fault: the last time, not the best.
shorterLast(ts) == ts

shorter(ts) == lesser(ts, t)

sumOf(took) == (sum_diff + diff(took)) % Mod

\* A round whose test gave the expected answer.  Only BEST_TIME reads the wall
\* clock.
Round ==
  /\ pc = "rounds" /\ i < Repeat
  /\ \E took \in cost, ns \in 0 .. Nano - 1, d \in Durations :
       LET timed == counter = "cycles"
           net == took - overhead[counter]
       IN
       /\ min_diff' = lesser(diff(took), min_diff)
       /\ sum_diff' = sumOf(took)
       /\ t' = IF timed THEN shorter(timespent(ns, d)) ELSE t
       /\ real' =
            [n |-> real.n + 1, total |-> real.total + net,
             least |-> lesser(took, real.least),
             best |-> IF net >= 0 THEN lesser(net, real.best) ELSE real.best,
             time |-> IF timed THEN lesser(d, real.time) ELSE real.time,
             crossed |-> IF timed /\ ns + d >= Nano
                         THEN lesser(d, real.crossed) ELSE real.crossed]
  /\ i' = i + 1
  /\ UNCHANGED <<calls, k, pc, globals, perf>>

\* The rest of the macro, which prints what the rounds have left.
Report ==
  /\ pc' = "begin" /\ k' = k + 1
  /\ IF counter = "linux" THEN LinuxEvents_close ELSE UNCHANGED <<fd, open>>
  /\ UNCHANGED <<calls, i, sums, globals, opened, real>>

\* A round whose test did not: the loop is left, with nothing added.
Unexpected == pc = "rounds" /\ i < Repeat /\ Report

EndRounds == pc = "rounds" /\ ~(i < Repeat) /\ Report

Next ==
  \/ SetOverhead \/ MeasureRound \/ Measured \/ StartRounds
  \/ Round \/ Unexpected \/ EndRounds

Spec == TimingInit /\ [][Next]_timingVars

-----------------------------------------------------------------------------
TypeOK ==
  /\ calls \in Programs /\ k \in 1 .. Len(calls) + 1
  /\ pc \in {"begin", "overhead", "rounds"}
  /\ k > Len(calls) => pc = "begin"
  /\ i \in 0 .. Repeat
  /\ min_diff \in 0 .. MAX /\ sum_diff \in 0 .. MAX
  /\ t \in Int /\ t <= Never
  /\ overhead \in [Counters -> 0 .. MAX] /\ overhead["linux"] = MAX
  /\ measuredAt \in 0 .. k /\ opened \in Nat
  /\ open \subseteq Descriptors /\ fd \in Descriptors \union {-1}
  /\ pc # "begin" /\ counter = "linux" => fd \in open \union {-1}

(* A round cheaper than the overhead costs a huge number, modulo   *)
(* 2^64; the best cost does not notice, once a round covers the overhead.  *)
BestIgnoresShortRounds ==
  pc = "rounds" /\ real.best # MAX => min_diff = real.best

(* The wraps of the cheap rounds cancel in the sum, from which the average *)
(* is taken: whatever the order of the rounds, it is their total cost less *)
(* as many overheads.                                                      *)
SumIsExact == pc = "rounds" => (sum_diff - real.total) % Mod = 0

(* The best time is the shortest round's, unless the clock reached a new   *)
(* second in some round: such a round seems shorter than it was by all of  *)
(* a second but a thousandth, and is then the best one, whatever the other *)
(* rounds took.                                                            *)
TimeIsBest ==
  pc = "rounds" =>
    /\ t <= real.time
    /\ real.crossed = Never => t = real.time
    /\ real.crossed < Never => t <= real.crossed - (Nano - Micro)

\* The calls of BEST_TIME_LINUX before this one.
linuxCalls == {q \in 1 .. k - 1 : calls[q].counter = "linux"}

(* The overhead that is subtracted from cycles is measured once, by the    *)
(* first call, and in cycles, until a call reads the performance counter:  *)
(* each of those stores its own overhead in its place, where it stays.     *)
(* Only if what a counter that was not opened returned is the mark of      *)
(* "not measured" does the next call measure cycles again.                 *)
OverheadIsOfCycles ==
  pc = "rounds" /\ counter = "cycles" =>
    /\ \A q \in linuxCalls : q <= measuredAt
    /\ measuredAt \in linuxCalls => overhead["cycles"] \in Elapsed \union Garbage
    /\ measuredAt \notin linuxCalls =>
         /\ overhead["cycles"] \in Elapsed
         /\ measuredAt = 1 \/ (measuredAt - 1 \in linuxCalls /\ MAX \in Garbage)

(* So the overhead subtracted from the performance counter is 2^64 - 1,    *)
(* and the best cost is one more than what the cheapest round counted.     *)
LinuxCountsOneMore ==
  pc = "rounds" /\ counter = "linux" /\ fd # -1 /\ real.n > 0 =>
    min_diff = (real.least + 1) % Mod

(* Every counter that a call of BEST_TIME_LINUX opens to measure the       *)
(* overhead is left open, at most one in each call; the one it opens for   *)
(* the rounds is closed, even if they are cut short.                       *)
DescriptorsLeak ==
  pc = "begin" =>
    /\ Cardinality(open) = opened
    /\ opened <= Cardinality(linuxCalls)
=============================================================================
