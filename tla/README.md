# Verification of Randen

TLA+ models of the Randen random number generator and of the programs beside
it (`src/`), checked with TLC on small instances and, but for liveness, proved with
TLAPS for all values of the constants. `PROJECT.json` lists the runs, the mutants
that show that each property can fail, and which lines every definition models.

## The system

| part | source | state | operations | what makes it correct |
|---|---|---|---|---|
| engine `Randen<T>` | `randen.h` | `state_` (256 bytes as words of T), `next_` | constructors, `seed`, `reseed`, `operator()`, `discard`, copy, move, `==` | an engine is a position on a tape of words: no operation repeats, loses or reorders words, shows the inner part, or shows words from before a reseed; equality is equality of futures |
| sponge, permutation | `randen.cc` | the same buffer, as 16 blocks of 128 bits | `Absorb`, `Generate` (`SwapIfBigEndian`, `Permute`, `BlockShuffle`, feed-forward) | the in-place loops compute the Feistel network; every function has its own key; two full diffusions; injective |
| vectors, AES, byte order | `vector128.h`, `randen.cc` | registers | `Load`, `Store`, `AES`, `ReverseBytes`, `RANDEN_LE`, `Keys` | same words on every platform |
| text streams | `randen.h` | text and stream flags | `<<`, `>>` | round trip; nothing half restored |
| Rust port | `contrib/rust/src/lib.rs` | state, byte `cursor` | `from_seed`, `randen_absorb`, `randen_generate`, `next_u32`, `next_u64`, `fill_bytes` | the state of `randen.cc`; one tape of bytes for any mix of calls |
| distributions | `randen_benchmark.cc` | none | `UniformInt`, `UniformDouble` | interval, uniformity, termination |
| nanobenchmark | `nanobenchmark.cc`, `.h` | samples, inputs, durations | `Measure`, `SampleUntilStable`, `NumSkip`, `ReplicateInputs`, `FillSubset`, robust statistics, timers | ends for any timer; one result per input or a reported failure; wraps of ticks cancel; an estimate is what most samples say; the reduced distribution is the full one without the chosen occurrences |
| benchmark programs | `randen_benchmark.cc` | vectors of ints | loop, shuffle, sample, Monte Carlo, driver | shuffle and sample lose no element; as many numbers as the report assumes |
| `EngineOS`, `ChaCha` | `engine_os.h`, `engine_chacha.h` | a buffer and an index, or a counter | `operator()`, `seed`, refill | no word twice, none stale; ChaCha's words are those of the cipher |

The parts interact by calls: the engine hands its buffer to `Absorb` and
`Generate`; these use the vector operations; the distributions call an engine;
`RunBenchmark` calls `Measure` with a benchmark bound to an engine; `Measure`
uses engines of its own to shuffle. There are no threads, messages or files
(apart from `/dev/urandom` in `EngineOS`). What is hard is therefore the state
that a sequence of calls leaves behind (an index, a half-used buffer, a reused
vector), boundaries of counts, loops that run in place, byte orders that one
machine cannot test, and loops whose end depends on random words or timers.
The list of hazards in `PROJECT.json` names them line by line.

## The modules

An arrow is "is proved, or checked, to implement".

    Randen --> RandomStream          RustRng --> ByteStream
    ChaCha --> WordTape of ChaChaCipher     EngineOS --> WordTape
    Sponge <- SpongeRounds --> FeistelRounds
      ^------ Diffusion, PermutePair, RustSponge, CrossPlatform
    StreamIO    Programs (call Distributions)
    Measure (calls FillSubset and Estimator)
    SampleUntilStable (uses RobustStatistics) --> Estimator

**RandomStream** is what an engine promises: a tape of words in blocks of
`kRateT`, given by a seed and by the entropy absorbed in front of each block,
and a position on it. Calls deliver, `discard(n)` skips n words in one step,
`reseed` skips the rest of the block and changes all later ones, copies
duplicate. Without `asked` a discard of too many words would pass for one that
was called with another argument.

**Randen** is `randen.h`. The variables are the members `state_` and `next_`
of every engine, `count`, the running argument of `discard`, and, for the
comparison with RandomStream, `asked` and `ret`: how many words the last
operation was to discard and the word it returned. Every member function is an
action; `discard` is one step per loop iteration (`DiscardBegin`,
`DiscardBlock`, `DiscardTail`), or `DiscardWithin` where it returns early. The
content of the buffer is symbolic: the seed, the number of `Generate`s and the
entropy absorbed before each of them. Entropy is a set, so that absorbing the same
twice cancels, as XOR does.
That contents are equal exactly if these histories are is the assumption of
the abstraction (no collisions of a permutation over 2048 bits). An engine is
an object of one thread, so an engine inside `discard` takes no other
operation, while others do.

**Sponge** is `randen.cc`. Blocks, `XOR`, `AES`, `Key` and `SwapIfBigEndian`
are parameters. A step is `Absorb`, the entry of `Generate` (`Begin`), one
Feistel function, one `BlockShuffle` or the end of `Generate` (`Finish`); the
variables are the buffer, `prev_inner`, the two loop counters and the position
of the key pointer.
**FeistelRounds** defines a round as one function of the whole state, and
**SpongeRounds** adds the history variable `before` that maps one to the other.
**Diffusion** adds to the same actions the dependency relation between blocks.
**PermutePair** sends a second buffer through each `Permute`. **RustSponge** is
the sponge of the Rust port next to the one of `randen.cc`: its own shuffle
table, its loops and its iterator over the keys, `from_seed`, `randen_absorb`;
it makes a function when `randen.cc` makes one and a shuffle when it shuffles,
each under the conditions of its own loops. A machine that swaps bytes has its
states converted (`SwapAssumption`: bytes are reversed, and added one by one).
The module **MCPermute** is the conjunction of the four, so that one run
observes the network in all these ways; TLC evaluates there that the two
programs have the same table and number of rounds (`SameNetwork`; the keys are a
parameter that both share, so their two tables of keys are not compared), and that the
table diffuses fully in eight rounds (`FullAfter`).

**CrossPlatform** instantiates Sponge with blocks that are the registers of
several platforms at once, in the order in which the AES instruction counts the
bytes. `Load` and `Store` depend on the platform, memory on its byte order and
on the width of T. POWER is modelled in both byte orders, as `RANDEN_PPC`
covers both and defines `RANDEN_BIG_ENDIAN` for both. The AES operators are
external (they are instructions); `MCCrossPlatform` assumes, and TLC evaluates,
that the x86 round gives the result that `vector128_test.cc` expects.

**StreamIO** is `operator<<` and `operator>>` over character codes, one operand
per step, with a stream that may lose its end in between; `offset` remembers
where each operand was put. How the library prints a number and what it makes of
digits are parameters (`Decimal`, `ValueOf`), of which `DecimalAssumption` says
that a number printed is read again and that a cut one is some other number;
`MCStreamIO` gives the decimal ones. **RustRng** is `RandenRng`, whose bytes are named
by the generate that made them and their place in the state; **ByteStream** is
its tape. **Distributions** is `UniformInt` and `UniformDouble` with words of
few bits and exact modular arithmetic, and **Programs** the four programs of the
benchmark, which draw from them number by number, retries included. The
vector that is shuffled holds, in place of its ints, where each of them was.

**ChaChaCipher** is the cipher as it is specified, with quarter rounds on
columns and diagonals; **ChaCha** is `engine_chacha.h`, with rows as vectors,
rotations of lanes, and the counter that doubles as index into the block.
Addition, exclusive or and rotation are parameters. **EngineOS** is
`engine_os.h`; a word is named by its place on the device, a read delivers any
number of words, and one that is short ends the program. Both implement
**WordTape**: a tape per key, a position, and calls that deliver the next
`width` words.

**FillSubset** is `ReplicateInputs` and the loop of `FillSubset`, one element
per step, and **Measure** is its caller: the control of `Measure` and `NumSkip`,
which chooses `num_skip` from measured durations, replicates the inputs that
often and calls `FillSubset` with one vector for all inputs. For Measure, a
duration comes from the **Estimator**, which may say any tick: a single
measurement, at most `max_evals` evaluations, the last of which is returned.
**SampleUntilStable** is the code behind that promise: its samples, the number
of which doubles, the median or the mode of all of them, the test of the median
absolute deviation. `TimerResolution`, which uses the same mode, is in it too.
**RobustStatistics** has the operators, on ticks that wrap; the halving loop of
`ModeOfSorted` is a step per iteration in SampleUntilStable. Samples are any
series of a few durations; they are appended in one step, as nothing looks at
them in between. `message` is that an error message went to stderr. Reading the
timer, the floating-point numbers of a result and what messages say are left
out. `NANOBENCHMARK_CHECK` is nothing unless a build asks
for it (`NANOBENCHMARK_ENABLE_CHECKS`); the runs are those of the default build.

## Runs and bounds

| run | instance | shows |
|---|---|---|
| `engine` | 2 engines, 4 words (1 inner), 2 blocks, `discard` up to 6; texts of 10 words, of one to ten digits, or some of them codes of spaces, and every cut of every text | type, inductive invariant, generated words only, equality, refinement of RandomStream, `discard` ends; round trip, all or nothing |
| `permutation` | 16 blocks of 2 bits, 17 rounds, the shuffle of the code, a byte swap that is not the identity, 32 second buffers | loops compute rounds, keys, two full diffusions, injective, same state as the Rust port |
| `platforms` | x86, ppc64le, ppc64; T of 1, 2, 4, 8 bytes; real AES, first keys; 4 blocks, 3 rounds, 2 generates | same words |
| `platforms_reseed` | x86 and ppc64, entropy of distinct 32-bit words | violated |
| `platforms_arm` | x86 and arm64 | violated |
| `other_engines` | Rust: 40 bytes (16 inner), 5 generates, slices from 0 to 51 bytes; ChaCha: 32-bit words, 64-bit calls, a counter of 64 words, 2 seeds; EngineOS: 4 words, 3 reads | cursor, refinement of ByteStream, `fill_bytes` ends; refinements of WordTape, the block in use, the buffer is fresh |
| `streams_uint8` | T a character type | violated |
| `benchmark` | all intervals and words of 4 bits; programs with 3 to 5 numbers, 2 chosen; samples of 4 durations below 8 ticks, up to 10 of them, 2 evaluations, two tolerances | interval, loop can end; single cycle, sample of the seen, numbers per call; reads inside, majority wins, samples kept, refinement of Estimator, sampling ends |
| `uniform_int`, `uniform_double` | the same | violated |
| `measure` | 2 inputs, `num_skip` up to 2, all arrangements and omissions, 2 evaluations, 3 ticks | subsets are right, nothing dropped, one result per input or none, durations exact, ends |
| `measure_message` | the same | violated |

The bounds are small where the code does not depend on them. The engine
distinguishes an exhausted buffer, a partly used one, and a count within it, at
a block boundary and beyond; two blocks with a count of six over three outer
words have all of these, and the proofs cover every size. What depends on the
numbers 16 and 17 is checked with these (`permutation`); a second buffer is one
that differs from a first one in a single block, each of the 16 in turn, which
a lost block would make equal, and the proof covers all pairs. Byte orders do
not depend on the number of blocks or rounds; three rounds of four blocks use
six keys and let every byte reach every block. The entropy of `platforms` has
each 32-bit word twice in a row, since `platforms_reseed` shows what happens
otherwise. `MaxGenerate`, `MaxDiscard` and `MaxGens` are bounds on counters;
they stand in the guards `HasRoom`, `Begin`, `NextWord` and `FillBegin` (of
RustRng). The 4-bit words of Distributions wrap as 32-bit words do, and
`Fraction` and `Bias` are scaled along. `Mod` of FillSubset is the range of
`uint32_t`, whose wrap at the first occurrence matters; two inputs are enough
since the loop only asks whether an element is the input to skip.

`engine`, `other_engines` and `benchmark` hold parts that do not interact, side
by side in `MCRanden`, `MCEngines` and `MCBenchmark`; `live` names the one that
moves. The counter of ChaCha wraps after four blocks, the low word
of its block number after two, so that the high word is used and every pair of
seeds and positions occurs; TLC also evaluates the quarter round of RFC 7539.
Three reads let EngineOS refill after a refill, and MaxReads stands in the guard
of `CallRefill`. The samples have sizes 3, 4, 7 and 10: with the median for an
odd and an even number, and with a mode whose intervals have 5 and then 2
elements, or 3 and then 1. Durations of 6 of 8 ticks make sums wrap. A program
of five numbers has three shuffle draws behind the first one and three elements
for a reservoir of two.

Deadlock is checked but for `measure`, `measure_message`, `other_engines` and
`benchmark`, whose code returns, aborts or closes.

Fairness is assumed where code is straight-line once entered: the loop of
`discard` of each engine, the loop of `fill_bytes`, `Measure`, and sampling
once it has begun. Nothing is
assumed of callers or of the words drawn: `UniformInt` is not claimed to end,
only that some word ends it (`LoopCanEnd`). `Terminates` excepts a timer that
shows no ticks at all, by which `SampleUntilStable` divides (`Trapped`); no
property claims that the division is safe.

## Proofs

The theorems hold for all values of the constants under the named `ASSUME`s of
the modules, which TLC evaluates in the runs, and under what a theorem itself
assumes, said below.

**RandenProofs**, for all engines, sizes with `kCapacityT < kStateT`, seeds,
entropies and bounds. `TypeOK` is not inductive: a step of `discard` stays in
its bounds only since it was entered with room (`RoomForDiscard`), and what is
absorbed in front of a block is only known to be empty for blocks not reached
yet (`NoFutureEntropy`), which `OnlyGeneratedWords` needs at a `Generate`.
`Canonical`, that an idle engine never sits in front of the first word of a
block, is what makes the representation of a position unique; from it follow
`Equality` and, with the position as refinement mapping, `Refinement`: every
iteration of `discard` but its first step is a stutter, as the position jumps
when the call is entered. `DiscardShrinks`: each of these iterations leaves fewer
words to skip, as a block has at least one, and other engines do not interfere.

The module also has the text streams, for any number of words with any number
of digits. The invariant `StreamInv` says what the text is in terms of `offset`
(`Layout`): as far as it has not been cut, each operand stands where it was put,
a space behind it and the next operand behind that. `operator>>` is at the end
of an operand, with the words in front of it read as they were, or it is at the
end of a text that was cut (`Reading`); hence `TextRestores` and `WordsTogether`.
A number ends at the space since that is no digit, whatever its length; it is
only at a cut that fewer digits are read. Both theorems assume `Readable`: if
words are characters, none is white space. `streams_uint8` shows a word that is.

**NetworkProofs**, for every network size, shuffle, key and AES of Sponge. They
assume of `AES`, `XOR`, `Key` and `SwapIfBigEndian` that they yield blocks.
- The key pointer is `round * kFeistelFunctions + branch / 2` at every function
  (`Keys`, with `AtPair`, that `branch` is even and within the state), hence no
  read beyond the table.
- In a round the odd blocks below `branch` are replaced, each from its neighbour
  of the start of the round (`RoundInPlace`), so that a shuffle completes a
  round of FeistelRounds (`RoundsRefinement`).
- Two buffers that differ stay different (`PermuteInjective`), assuming of AES
  that for one state, different round keys give different results; in particular
  nothing about how it treats the state.
- `DiffusesTwice`: at any place in a round the dependencies are those after some
  number of whole rounds since the last full diffusion, with the odd blocks below
  `branch` updated (`Diffusing`); a table that diffuses fully in K rounds
  therefore does so twice in the loops if `2 * K <= kFeistelRounds`. That K is 8
  for the table of the code is evaluated by TLC.
- `PortIsRanden`: the port has the state of `randen.cc`, converted when no
  `Generate` runs, and its `prev_inner`, key and loop counters (`PortInv`); it
  rests on `SameNetwork`, and on the byte swap being an involution that commutes
  with `XOR` where the inner block is folded back in the one order or the other.

**PlatformProofs**, for every network, all keys and seeds, and any substitution,
sum and double of bytes: x86 and POWER in both byte orders hold the same blocks
(`SameRegisters`). `Loaded` is where a platform has the byte of x86 after
loading it, `InAes` where while AES runs. Little-endian POWER has
registers the other way around until `SwapIfBigEndian` turns them; on big-endian
POWER the turned halves are exchanged, which `ShiftRows` and `MixColumns` do
not notice, as half a state is two whole columns (`RoundOnX86`); keys, loaded
without being turned, are reordered by `RANDEN_LE` to the same effect
(`KeyView`). `SameByteOrder` follows for words of every width and
`AnyByteOrder` for 64-bit words; the latter assumes `Paired`, entropy that has
each 32-bit word twice, without which it fails (`platforms_reseed`). ARM64 is
left out (`Comparable`), as `platforms_arm` shows that it must be.

**OtherEnginesProofs.** Rust port: the cursor stays within the outer part
although words round it up, which rests on both parts being multiples of 8 bytes
(`StateAssumption`); bytes returned are generated ones; and the generator
implements ByteStream (`TapeRefinement`); every iteration of `fill_bytes` writes
a byte (`FillShrinks`). ChaCha, for any addition, exclusive or
and rotation: the four vector operations between `ToDiagonals` and
`FromDiagonals` are the quarter rounds on the diagonals (`BlockIsChaCha`); the
block is that of the current counter and key whenever its middle is read
(`CurrentBlock`), which rests on seeding always to index 0; hence the refinement
of WordTape. EngineOS: from `next_` on, the buffer holds the last words of the
device unless a read failed (`FreshBuffer`), and it implements WordTape for
every size.

**MeasureProofs**, for all inputs, parameters and widths of a tick. The results
in front of input `u` are written (`Progress`) and `FillSubset` works for that
input (`SubsetOf`), hence `Results`; what is subtracted in a result is the less
(`Ordered`), hence `Durations` with the arithmetic of `WrapsCancel`. The counters
of the loop of `FillSubset` are the occurrences seen, those left out and the
elements copied, and what is copied is in its place (`Copied`), so that the checks
at the end hold (`NothingLost`) and the subset is full without the chosen ones
(`SubsetExact`). Assumed are that
`UniqueInputs` lists each input once and that the occurrences to leave out are
as many as asked for (`OccurrenceAssumption`). `MeasureDescends`: with each step
there are fewer phases of `Measure` left, or as many and fewer steps of the
evaluations or of `FillSubset` inside the phase, both natural numbers.
`OnlyNumSkipIsSilent`: a failure without a message is always that of `NumSkip`
returning zero, the case of `measure_message`.

**ProgramsProofs**, for every width of a word and size of a program. The high
half of the product of a word and a range is below the range (`IntInInterval`),
and for every range some word has a low half that is accepted (`LoopLeaves`).
Every cycle of the array that is shuffled has just one of the places not drawn
for yet (`Cycles`), as a swap with a place in front joins two of them
(`SwapJoins`), hence `ShuffleIsCycle`. A
reservoir holds different elements of those seen (`SampleIsOfSeen`), and
`NumbersDrawn` counts the numbers asked for. The invariant is `ProgramInv`.

**SamplingProofs**, with **Counting** for sums and ranks, for all durations and
parameters. `SamplingInv` says who runs with which samples (`Control`), that the
window of the mode lies in sorted samples (`Window`), and that a duration which
most samples have is in the window or is the estimate (`Robust`): of two halves,
the one of the least range has it. Hence `HalvesInside` and `MajorityIsEstimate`.
Both sorts put at each place the element of that rank (`SortElement`,
`CountingIsSort`), hence `SamplesKept`; and an evaluation is one of the Estimator
that Measure relies on (`SamplingIsEstimator`). `SamplingIsFinite`: each step
has fewer repetitions or evaluations left, or as many and fewer steps of one, or
both alike and a shorter window of the mode.

Only model-checked: the liveness properties `DiscardTerminates`,
`FillTerminates`, `Terminates` and `SamplingEnds`, as fairness and `ENABLED` are
beyond the proof system. What they rest on is proved, that no loop goes on
without coming nearer to its end (`DiscardShrinks`, `FillShrinks`,
`MeasureDescends`, `SamplingIsFinite`); left to TLC is that a step remains
possible until the end is reached.

## Findings

1. `vector128.h:159`: the ARM round is not the AES round of the other platforms
   (`platforms_arm`).
2. On big-endian POWER the 32-bit words of a seed sequence are absorbed in
   another order (`platforms_reseed`).
3. `Randen<uint8_t>` does not survive `<<` and `>>` (`streams_uint8`).
4. `UniformInt` compares the wrong half of the product (`uniform_int`);
   `UniformDouble` returns values from 1 to 2 for half of the words
   (`uniform_double`).
5. `Measure` returns zero without the error message that `nanobenchmark.h:144`
   and `nanobenchmark.cc:754` promise when the least duration equals the
   resolution of the timer (`measure_message`).

Some observations have no run of their own. On big-endian POWER, words of T
narrower than 64 bits come out in reverse order within each half of a block,
because `SwapIfBigEndian` reverses blocks whatever T is; `SameWords` therefore
compares narrow words only between platforms of the same byte order. The mean of two ticks of 2^31 or more wraps (`nanobenchmark.cc:476`,
`503`), a deviation of that size is negative and counts as stable (`590`), and
the largest of an odd number of samples has no say in the mode (`465`). A build
with `NANOBENCHMARK_ENABLE_CHECKS` cannot compile `Median`, which calls
`values->empty()` on a pointer (`495`). The shuffle of the benchmark only makes
single cycles, and its sample always takes the first element behind the
reservoir, since the intervals are half-open (`SingleCycle`, `SampleOfSeen`).

## Not modelled

The driver of the benchmark (`RunBenchmark`, `ForeachEngine`, `RunAll`) selects
engines at compile time, prints, and aborts if `Measure` fails. Reading timers,
fences, cpuid and thread affinity are machine instructions and system calls
without state of their own. The floating-point conversions of a result
(`duration * mul`, the variability) are not in the reach of the model checker.
The vendored PCG engine and the serialization and `seed_from_u64` of the Rust
port, which other crates provide, are not code of this repository.

Backtracking resistance, that a leaked state does not tell earlier words, is a
statement about what can be computed rather than about states; the model has
the feed-forward it rests on (`Finish`), not the statement.
