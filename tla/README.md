# fastvalidate-utf-8: specifications and proofs

TLA+ modules for the validators of this repository: the SIMD validators of
UTF-8 and of ASCII in `include/`, the validators in `benchmarks/` they are
compared with, and the benchmark program that does so.  TLC checks them on short
strings and narrow registers, and at the AVX widths on the strings of
`tests/unit.c`; TLAPS proves every invariant the runs check, for every string and
every width.

    tlc -config Block_short.cfg MCBlockValidator    # a run; PROJECT.json lists them
    tlapm BlockProofs.tla                           # a proof

## 1. The system

The library is header-only C without state of its own: every operation is a
function of a pointer and a length that returns a `bool`.  Only the benchmark
keeps state from one call to the next, in two globals.  Nothing is
concurrent and nothing is persisted.  What is hard is inside the functions: a
loop over registers of 16, 32 or 64 bytes whose every iteration depends on the
one before through a small summary, a tail that is copied into a padded buffer,
a separate rule for a string that ends with a register, and lane arithmetic
(saturating, signed, table-driven) that stands for the rules of UTF-8.

| component | source | state | operations | modules |
|---|---|---|---|---|
| SSE validator | `simdutf8check.h` 26-188 | `i`, `has_error`, `previous` (bytes, high nibbles, carried counts) | `validate_utf8_fast` | `BlockValidator` |
| AVX2 validators | `simdutf8check.h` 190-455 | the same, in two halves | `validate_utf8_fast_avx`, `..._asciipath` | `Avx2Validator` |
| AVX-512 validators | `simdutf8check_avx512.h` | the same, errors in a mask register | `validate_utf8_fast_avx512`, `..._asciipath` | `Avx512Validator` |
| ASCII checks | `simdasciicheck.h`, `simdasciicheck_avx512.h` | `i`, OR of the blocks, mask | `validate_ascii_fast`, `_avx`, `_avx512` | `AsciiValidator` |
| ASCII by words | `benchmark.c` 43-88 | a moving pointer, five masks | `validate_ascii_nosimd`, `_nointrin` | `AsciiWords` |
| automata | `hoehrmann.h` | the automaton's state | `validate_dfa_utf8`, `_branchless`, and both `shiftless_` | `DfaTables`, `Dfa` |
| double automata | `hoehrmann.h` 150-189 | two states, two offsets, the split | `validate_dfa_utf8_double`, `shiftless_...` | `DoubleDfa` |
| sequential validator | `benchmark.c` 145-200 | `index` | `validate_utf8` | `GuavaValidator` |
| test strings | `benchmark.c` 91-142 | the buffer, `i` | `populate_utf8` | `Generator` |
| benchmark program | `benchmark.c` 34-37, 202-317 | a buffer, its length | `populate`, `demo`, `demo_utf8`, `main` | `Benchmark` |
| timing | `benchmark.h` | two overhead globals, `min_diff`, `sum_diff`, `t` | `BEST_TIME`, `BEST_TIME_LINUX`, `RDTSC_SET_OVERHEAD`, `..._LINUX`, `timespent` | `Timing` |
| perf counters | `linux-perf-events.h` | a file descriptor | `LinuxEvents_*` | `Timing` |
| unit test | `tests/unit.c` | none | `main` | inputs of the runs, `UnitVectors` |

The components meet in two ways.  A program calls one validator with one
string; `ValidatorCall` is what it may rely on.  And the benchmark feeds all of
them strings it generates, with a length it computes, inside a macro that times
each call and expects the answer true; so each validator is measured against one
definition of the language, `Utf8!WellFormed`, and `Benchmark` composes the
generators, the macros and that answer.

Hazards are listed in `PROJECT.json`, each at its line with the properties that
would catch it.  The ones that matter most: the wrap-around of `len - 16`;
strings that end with a block; sequences across a block boundary; the summary
left stale by the ASCII path; carried counts compared as signed bytes; table
entries that stand for "never"; in the AVX code, bytes that cross a half or
a register; in the double automata, an `int` that counts up to a `size_t`; and in
the benchmark, a length of one byte more than the buffer, one overhead stored in
the place of the other, and unsigned differences that wrap.

## 2. Modules

**`Utf8`** holds the specification of the language: `LegalAt` is the table of
the headers (`simdutf8check.h` 9-24), a disjunct per row, and `WellFormed` says
that every byte of the string is in a legal sequence, which is to say that it is a
concatenation of those (theorem `WellFormedIsConcatenation`).  `Follows`, `WindowOK` and
`PrefixOK` describe the same strings by windows of four bytes; that it *is* the
same is the theorem `WellFormedIsLocal`.

**`Simd`** has the lanes of a register and the byte operations: saturating
subtraction, wrapping addition, signed comparison, the shift across two
registers, the table look-up.  `W`, the number of lanes, is a constant.

**`BlockValidator`** is `validate_utf8_fast`.  Each iteration of the loop is an
action, `CheckBlock`; `CheckTail` and `CheckEnd` are the two branches after it,
each with the `return`.  Every helper (`checkSmallerThan0xF4`,
`continuationLengths`, `carryContinuations`, `checkContinuations`,
`checkFirstContinuationMax`, `checkOverlong`) is an operator of the same name
on functions from lanes to bytes; an error vector is the set of its lanes that
are not zero, since the code only ever ORs it and tests it against zero.
`size_t` is kept modulo `SizeMod`: `len - W` wraps.  The variable `asciipath`, fixed
by the call, says which function it is: if it is TRUE the loop has the action
`SkipAsciiBlock`, the fast path of the AVX2 and AVX-512 functions, which the SSE
header does not have.  It is in this module because its argument does not depend
on how a register is built.

**`Avx2Validator`** and **`Avx512Validator`** extend it with what those headers
do differently: a register of two halves, `permute2x128` and two `alignr` for
every shift across registers, tables written twice; permutations by index
tables, tables of 32-bit words in little-endian order, comparisons into masks.
Each has its own next-state relation over the same variables, and implements
the block validator.

**`ValidatorCall`** is the abstract specification: a call is answered once, with
whether the string is in the language (a parameter: `WellFormed` or `Ascii`).

**`AsciiValidator`** covers the three ASCII checks: a byte is its sign bit, a
register the set of lanes where it is set, and the variable `reduction`, fixed by
the call, says how the register becomes an int (a bit per lane, or the OR of its 32-bit words).
**`AsciiWords`** has the two checks by 64-bit words.  They compare pointers with
`end - 32`, which may lie before the string; a pointer is an address modulo
`AddrMod`, compared as unsigned, and strings start at 32 or above, as in any
process whose lowest page is not mapped.

**`DfaTables`** has both tables of the automaton and the one-byte steps,
with what each state means (`Means`); **`Dfa`** is the loop.  Its variable `fn`, fixed by the call, says which of the four
functions it is: with or without the early exit, with the plain or the multiplied
table.  `decode` and `shiftless_decode`, the same step with the code point, are
operators on a record of both; nothing in the repository calls them, and the variable
`decoded`, which is not the program's, is what they would have at each byte.  Of the 32 bits of `codep` the lower 24 are kept, since
bits only move up and a code point has 21.
**`DoubleDfa`** is the experiment with two automata over the halves of the
string, with either table.  Its last loop counts in an `int`: the start of the loop
is converted to an int of `IntMod` values, the comparison converts it back to a
`size_t` of `SizeMod`, and going past the largest int, which is undefined, either
wraps or does not.

**`GuavaValidator`** is the benchmark's sequential validator; **`Generator`** is
`populate_utf8`.  Its iterations are steps: nothing looks at the buffer between
two bytes of a sequence.

**`Timing`** has the macros and the performance counter.  A program is a sequence
of uses of `BEST_TIME` (the record's `counter` is `"cycles"`) and `BEST_TIME_LINUX`
(`"linux"`).  A use goes from `"begin"` to `"overhead"` if the macro finds the global
unset (`SetOverhead`, `MeasureRound`, `Measured`), or straight to `"rounds"`
(`StartRounds`), where each iteration is a `Round` or, if the answer is not the
expected one, `Unexpected`; `EndRounds` and `Unexpected` end with what follows the
loop.  Counts are unsigned modulo `Mod`; a counter advances by any of `Elapsed`, the
wall clock by any of `Durations` from any nanosecond of a second, opening a
performance counter may fail, and what is read from one that failed is any of
`Garbage`.  Three variables are not the program's, but history: `measuredAt`, the call
that measured what the global holds; `opened`, how many performance counters were opened
to measure an overhead; and `real`, what the rounds cost before anything wraps.

**`Benchmark`** composes it with `demo` and `demo_utf8`: each round first fills the
buffer (`Pre`; the steps of `Generator` under `INSTANCE ... WITH` in `demo_utf8`,
`populate` in `demo`), then hands it to a validator with the length the call gives,
and the macro goes on with `Round` or `Unexpected` depending on the answer.  A
validator is not run again here: it answers what its own module shows of it
(`answers`), with freedom where that module leaves some.  The string stays in the buffer
until the next `Pre`, as `actualN` does.  The byte after the buffer of `demo` is any of
`Outside`, and `room` is what `malloc` was asked for.

`MC*` modules choose the strings; `InputFamilies` has those of the block
validators, among them every sequence of `tests/unit.c`; the carry vectors of that file are an `ASSUME`
(`UnitVectors`) of `MCAvx2Validator`, where the vectors of 16 lanes stand in either half of the
register, and of `MCAvx512Validator`.  Definitions preceded
by a comment "Fault:" are wrong on purpose: each is a plausible bug that some
property must detect when it is put in the place of the definition after it.
No specification uses one.

## 3. Runs

| run | question |
|---|---|
| `Block_short` | every pair of edge bytes, and every long lead with two more bytes, at every offset of strings of up to three blocks; an unfinished or finished block, an ASCII block checked or skipped, a block that may start with the rest: types, loads, carries, errors, stale summary, verdict, and the whole implements `ValidatorCall`, termination included |
| `Avx2_unit` | W = 32, the unit test's sequences at every offset and against the end of the string: the verdict, and that each step is one of the block validator |
| `Avx512_unit` | W = 64, the same sequences: each step is one of the block validator |
| `Ascii_blocks` | both reductions: loads, mask, `ValidatorCall` |
| `Words_calls` | every length around the strides, at the lowest addresses and higher |
| `Dfa_edges` | the four functions: meaning of the states; answers with and without the NUL; the decoded code point |
| `Dfa_double` | what the double automata guarantee, and what they overlook in strings that outgrow an int |
| `Timing_macros` | every program of three timing macros of the two kinds, and one of four |
| `Benchmark_calls` | every kind of call of `demo` and `demo_utf8`, with every draw in every order |
| `Benchmark_ascii` | finding: violated as expected |
| `Guava_edges` | never over-reads, accepts all that is legal, exact but for what `Guava_trailing` shows |
| `Guava_trailing` | finding: violated as expected |

*Properties.*  `LoadsInBounds` is the memory safety of the vector loads and of
the `memcpy` into the tail buffer, with the padding zero the tail needs.
`ErrorsAreExact` says after every block that the error vector is empty exactly
when nothing read so far is illegal: errors are not lost, not a block late, and
not raised for a sequence the next block may complete.  `PreviousSummarises`
says what the stale summary of the ASCII path still guarantees.
`CarriesStaySmall` bounds the counts on every input, malformed ones included:
33 in any lane, where 127 would do.  `VerdictCorrect` is the result.
For the other components: `MaskIsExact`, no sign bit lost or made up between the
loops of an ASCII check; `StateIsExact`, the automaton's state says what the last
bytes allow to follow; `VerdictIsOfPrefix` and `VerdictWithNul`, its answer without
and with the terminating NUL; `VerdictIsOfHalves` and `NoFalseAlarm`, what the
double automata can be relied on for, and which bytes they do not
read once twice the half is negative as an int; `DecodesLastSequence`, `decode`
gives the code point of the sequence that ends here;
`ExactOnTrailingBytes`, on which strings the sequential validator is right;
`Generates` and `LengthIsAsPromised`, that what the generator writes is legal and as
long as its comment says.

Of the timing macros: `BestIgnoresShortRounds`, a round cheaper than the overhead
wraps to a huge cost that never becomes the minimum; `SumIsExact`, in the sum
those wraps cancel; `TimeIsBest`, the time is the shortest round's, unless a round
passed a second: such a round seems shorter by a second less a thousandth, and the best
time is then no more than what is left of it; `OverheadIsOfCycles`, the overhead
subtracted was measured once and in cycles until the first `BEST_TIME_LINUX`, each of
which stores its own, or garbage, into the same global, where it stays (unless the
garbage is the very mark of "not measured"); `LinuxCountsOneMore`, the overhead
subtracted there is always 2^64 - 1, so that one is added; `DescriptorsLeak`, between
two calls exactly the descriptors opened to measure an overhead are open, one for each
such call at most, and none that was opened for the rounds, whichever way these ended.  They state what the code does,
its oddities included: `demo` calls `BEST_TIME_LINUX` twice and then `demo_utf8` is
timed with an overhead that was not measured in cycles.

Of the composition: `BenchTypeOK`, besides types, says that a validator is only handed
what the `pre` of its round has written and that this is inside the buffer: from N = 4
on, `demo_utf8` stays inside its 2 * N bytes, NUL included, and of all calls exactly
those of `demo` that pass N + 1 read past theirs.  `AsciiIsAlwaysOk` is what `demo`
prints, and does not hold of those (a finding).  `RefusalsAreExplained` says exactly when
a round may end with "not expected", and why: in `demo`, the byte after the buffer; in
`demo_utf8`, the double automata may split a generated string at a byte 80.  Every other call is always
answered with true.  `Finishes` says that the benchmark ends.

*Bounds.*  The checks reach three bytes back, so W = 4 is the narrowest register
in which a lane depends on one block before it and no more; three blocks are
needed for one to be skipped between two others.  The bytes are both ends of
every range of the table and of every gap between two ranges.  `SizeMod` is a
few registers, so that `len - W` wraps for every short string.  The runs at the
real AVX widths use the sequences of the unit test; there it is the tables and
shuffles that are in question.  They are placed in strings of two registers, which end with a
block, and of a register and nine bytes, which end in the tail.  `Words_calls` keeps the real strides of 32 and
8.  `Dfa_double` has an int of 4 bits and a size_t of 6: strings of up to 17 bytes
pass both the largest int and the largest unsigned one, and an int that is negative
is huge as a size_t.  `Timing_macros` has counts of 4 bits, three rounds and costs on both sides
of every overhead, so that rounds wrap before and after one that does not; a second of
four nanoseconds that counts for one; three descriptors, which the four Linux calls
use up.  `Benchmark_calls` has a first draw for each branch of the generator and both ends
of each range for the others, with N = 0, 1 and 4, the least N from which 2 * N bytes
are enough for the string, its three bytes more and its NUL (2 * 65536 in
`main`); there the clocks stand still, since `Timing_macros` has them.
The proofs need none of these bounds.

*Fairness.*  Each function is sequential and called once; weak fairness of its
next-state relation says that the processor goes on executing it.  In
`Benchmark` an iteration of the generator whose first draw is above F4 changes nothing and is a
stuttering step, so fairness also says that `rand()` does not return only such
values forever: with probability one, it does not.  `CHECK_DEADLOCK FALSE` is
everywhere because a function that has returned takes no more steps.

*Findings.*  `validate_utf8` of `benchmark.c`, copied from Java, tests trailing
bytes with `> 0xBF`.  Guava's bytes are signed, where that excludes ASCII; here
they are unsigned, and E2 82 28, which `tests/unit.c` lists as bad, is accepted.
`ExactOnTrailingBytes` shows that this is all that is wrong with it.  The
benchmark only feeds it valid strings.

`demo` allocates N bytes, fills N, and gives the automata N + 1 of them, which
in `demo_utf8`, where a NUL follows the string, is right.  It prints "We are feeding
ascii so it is always going to be ok": if the byte after the buffer is neither ASCII nor
the start of a sequence, the answer is false and the macro stops measuring
(`AsciiIsAlwaysOk` in `Benchmark_ascii`).  `RefusalsAreExplained` shows that no other
call of `demo` is ever answered with false.

## 4. Proofs

| theorem | module | says |
|---|---|---|
| `WellFormedIsConcatenation` | `Utf8Proofs` | the definition everything is measured against: the concatenations of legal sequences |
| `WellFormedIsLocal` | `Utf8Proofs` | the table and the windows of four bytes describe the same strings |
| `TypeCorrect`, `LoadsStayInBounds`, `CarriesAreSmall`, `BlocksAreExact`, `SummariesAreRight`, `VerdictIsCorrect` | `BlockProofs` | the invariants of the block runs, for every W >= 4 and every string |
| `SafetyOfCall` | `BlockProofs` | it implements the safety part of `ValidatorCall` |
| `Avx2RefinesBlocks`, `Avx2VerdictIsCorrect` | `BlockProofs` | the AVX2 code implements the block validator, so its verdict is right |
| `Avx512RefinesBlocks`, `Avx512VerdictIsCorrect` | `BlockProofs` | the same for AVX-512 |
| `AsciiTypeCorrect`, `AsciiLoadsStayInBounds`, `AsciiMaskIsExact`, `AsciiSafetyOfCall` | `AsciiProofs` | the ASCII checks |
| `WordsTypeCorrect`, `WordsLoadsInBounds`, `WordsMaskIsExact`, `WordsSafetyOfCall` | `WordsProofs` | the ASCII checks by words, at every address |
| `DfaTypeCorrect`, `DfaStateIsExact`, `DfaVerdictIsOfPrefix`, `DfaVerdictWithNul`, `DfaDecodesLastSequence` | `DfaProofs` | the automata, with either table, and `decode` |
| `DoubleTypeCorrect`, `DoubleVerdictIsOfHalves`, `DoubleNoFalseAlarm` | `DoubleDfaProofs` | the double automata, for every width of `int` and `size_t` |
| `GuavaTypeCorrect`, `GuavaExactOnTrailingBytes` | `GuavaProofs` | the sequential validator: exact but for the first finding |
| `TimingTypeCorrect`, `TimingBestIgnoresShortRounds`, `TimingSumIsExact`, `TimingTimeIsBest`, `TimingOverheadIsOfCycles`, `TimingLinuxCountsOneMore`, `TimingDescriptorsLeak` | `BenchmarkProofs` | every invariant of `Timing_macros`, for every width, number of rounds, cost and program |
| `BenchRefinesTiming` | `BenchmarkProofs` | the benchmark is a behaviour of the timing macros |
| `BenchTypeCorrect`, `BenchGenerates`, `BenchLengthIsAsPromised`, `BenchRefusalsAreExplained` | `BenchmarkProofs` | every invariant of `Benchmark_calls`, for every size, draw and sequence of calls |

*Assumptions.*  Only the named `ASSUME`s on the constants.  Of every validator: its
strings are functions into bytes, of a length that fits `size_t`.  Of the block
validators: W >= 4, in the AVX2 part of `BlockProofs` that W is two halves, in the
AVX-512 part that it is a multiple of 4.  Of `AsciiWords`: the string lies between
address 32 and the end of the address space.  Of `DoubleDfa`: an `int` is no wider
than a `size_t`, both counts are even, the string is not empty (the code reads
`c[half]` before it looks at the length) and no longer than half the address space.
Of `Timing`: counters advance by less than 2^64 - 1 between two reads, and a
thousandth of a second's nanoseconds is less than all of them.  Of `Benchmark`:
every call names one of the five kinds of validators, and the checks for ASCII are
only timed in `demo`.  TLC evaluates all of them in every run.

*The block validator.*  `VerdictCorrect` is not inductive: the next block's
errors depend on `previous`.  The inductive invariant adds two cases.  If no
error was found, every byte so far may follow the three before it (`PrefixOK`)
and the last two carried counts, the last byte and the last nibble say what is
owed (`PreviousSummarises`); in the ASCII path this holds of a summary several
blocks old, because bytes below 128 owe nothing.  If an error was found, it
stays, and all that is needed of the counts is that they are bytes and small.
Its first part shows for one lane that the two saturating additions compute the
debt of that byte, and that the four checks together are `Follows`; the second
carries this from lane to lane and from block to block.  The end of the string
is either the padding (a window of zeros, in the tail) or the comparison with
9, ..., 9, 1.  `WellFormedIsLocal` turns the windows into the table.

*The AVX validators.*  Each shift across registers is shown equal to the shift
of the block validator, lane by lane, then each helper, then each action: every
step maps to the same step of `BlockValidator` under the identity mapping.

*The automata.*  `Means` gives each state a meaning in terms of the last three
bytes.  One lemma per state shows that the table's row moves to the meaning of
the new byte, or to REJECT exactly when `Follows` fails.  The multiplied table is the
other times 16 (`ShiftlessUpdate`), so that one argument serves both.

*The timing macros.*  None of the properties is inductive.  That short rounds do not
matter to the minimum needs to know how far they wrap (`Best`: while no round has
covered the overhead the minimum is at least `Mod - overhead`, above anything a
covered one can cost); the sum is kept as a congruence, each round moving it by its
true cost or that plus `Mod` (`ModShift`); `OneMore` is a minimum that cannot wrap,
because no count is 2^64 - 1.  `Overhead` says for every value of `pc` which call
measured what the global holds and what the measurement under way has so far; that the
next call measures again only after garbage rests on the global being unset only from
one call to the next.  `Time` needs that a round which passes seconds seems shorter by
as many times a second less a thousandth (`Spent`).  `Leaked` counts the open
descriptors inside a call, with the one of its rounds: a descriptor is only opened where
none with that number is open, and what is closed is what the rounds have opened.

*What valid UTF-8 is.*  From a well-formed string the set of its positions that are
not continuation bytes, with its end, is the set of cuts: no legal sequence may end
inside another (`StartsFollow`).  From a set of cuts, the sequence that covers a
byte is the one from the last cut before it, which exists because a bounded set of
naturals has a largest element (`Largest`, from the well-founded order of finite
sets in the library); no induction over the string is needed.

*`decode`.*  `DecodesLastSequence` only speaks of accepting states.  `Decodes` says of
every state how many bytes of the sequence being read have been collected, and that
`codep` holds the bits of just these; then the last byte completes the code point.

*The checks by words.*  `Placed` keeps the string where the caller put it, `Left` says
of each loop how much the loops before it have left to read (at most a stride), and
`MaskIsExact` is inductive with these: each stride adds to the masks exactly the
bytes it read.

*The double automata.*  The two facts that make the answer right are of different
kinds.  `Counters` follows the two offsets modulo their widths: up to the largest
int the third loop goes on where the second stopped, from there to the largest
unsigned one it does not run, and in between it may wrap in the middle of the string
and stop.  `Reads` says that each state `Knows` its part of the string up to `taken`,
the bytes really read, and `KnowsStep` (shared with `Dfa`) is one step of it.
`NoFalseAlarm` then needs that both parts of a well-formed string are legal
prefixes if it is not split at 80 (`PartsAreLegal`, from `SplitWellFormed`).

*The sequential validator.*  The invariant holds only of strings in which no ASCII is
where a continuation byte is owed (`Trailing`): whenever the loop comes around, what
was skipped is well-formed (`Skipped`, by `Extend`), and when it answers, the answer is
right (`Verdict`; a refused form shows a position that no legal sequence covers,
`LeadStarts`).  `Plane` shows the packed test equal to the three conditions in the
comment above it.

*The benchmark.*  A step of `Benchmark` is a step of `Timing` or none of its variables
change, so the invariant of `Timing` holds.  It is extended by what the current
round's string is: `Generated`, a well-formed string of at most N + 3 bytes, to which
every iteration appends one legal sequence (`Appended`, by `Extend`; `Draws` bounds
what is drawn), ended by a NUL; or `Populated`, ASCII and a byte more.  Neither
`Generates` nor `LengthIsAsPromised` is inductive without the other parts: the loop
guard is what bounds the length, and with it the buffer that is enough (`BenchTypeOK`).  From it the answers follow: an automaton given the
NUL is right (`NulPads`), ASCII and one byte is legal exactly if the byte is ASCII or
a start (`AsciiThenByte`), and a string split at a byte that is no continuation is well-formed in both
parts (`SplitWellFormed`); split at 80, it is not in the second (`HalfACharacter`).

*Only model-checked:* liveness, which needs ENABLED: that each call returns (the
fairness of `Call!Spec` in the three `ImplementsCall`, whose safety part is proved),
and that the benchmark ends (`Finishes`).  `TrailingByteTests` and `AsciiIsAlwaysOk` are
the findings, and false.

## 5. Not modelled

Printing, and the quotients that are only printed (cost per byte, averages, GB/s);
among them, that an average is divided by the number of rounds asked for even if
the loop was left early.  The assembly that reads the time stamp counter, a wall
clock that is set back during a round, and `ioctl` and `read` failing on a counter
that was opened.  `is_ascii` of `hoehrmann.h`, a loop of one line that nothing
calls.  Of `tests/unit.c`, its ASCII arrays, whose kind of strings `Ascii_blocks`
and `Words_calls` have, and the order of its asserts.

## 6. Plan

Done, in this order: `Utf8` and `Simd`; `BlockValidator` with its call-level
specification; the AVX refinements; the ASCII checks; the automata; the
sequential validator and the generator; their proofs as listed above; the timing
macros and their proofs; the benchmark program; `decode`; the width of the double
automata's `int`; the carry vectors of `tests/unit.c`;
the proofs for the words, the double automata, the sequential validator, `decode`,
the generator and the benchmark, and that well-formed strings are concatenations.

Left: a variant for each loop, as an action property (what stands between the proofs
and termination is then only ENABLED).
