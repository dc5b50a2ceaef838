# iris-bench in TLA+

iris-bench downloads or generates benchmark corpora into a content addressed
store, runs ClickBench queries over database drivers under a three-run
protocol, compares a window with a buffer as a ratio with an interval, and
grades registered claims with the result. This directory holds TLA+ models of
those parts, the TLC configurations that check them on small instances, and
proofs that TLAPS checks for instances of any size: about the store, manifests
and the two corpus commands, sessions and their drivers, what a run records, what
is compared and graded, the claims and the sampling loop. Every safety property
of a passing run has a theorem; some have hypotheses, which section 4 names.

`PROJECT.json` maps every definition that models code to its source lines and
lists the runs, the mutants, the hazards and the theorems. Paths below are
relative to the repository.

    tlc -config MCCorpusStore_faults.cfg MCCorpusStore    # one run
    tlapm CorpusStoreProofs.tla                           # the proofs

## 1. Inventory

### Components with state and steps of their own

| Component | Code | State | Operations |
|---|---|---|---|
| Content addressed store | `bench-corpus/src/store.rs` | files under `objects/`, temporary files beside them | `insert_bytes`, `insert_file`, `insert_verified`, `insert_stream`, `contains`, `verify` |
| Fetching | `bench-corpus/src/fetch.rs`, `shape.rs`, `progress.rs`, `bench-cli/src/corpus.rs` | the entry the command is at, `Client::fallen_back`, `Counting::seen` | `corpus`, `one`, `Client::get`, `shape::check` |
| Generating | `bench-corpus/src/generate.rs` | the scratch directory, the generator process | `corpus`, `check_version`, `prepare`, `run`, `one` |
| Driver session | `bench-driver/src/phase.rs`, `driver.rs` | `prepared`, `loaded`, `Phases`; the system behind it and its database on disk | `prepare`, `load`, `query` |
| Drivers | `drivers/driver-{duckdb,datafusion,arrow-parquet,null}`, `bench-driver/src/answer.rs` | the fields a preparation sets, the names the system knows, the last answer | `prepare`, `load`, `run` of each, `Rows::push`, `Rows::finish` |
| `clickbench run` | `bench-cli/src/clickbench.rs`, `bench-workload/src/protocol.rs`, `bench-run/src/schedule.rs`, `cache.rs` | the rows so far, the runs of a query, the page cache, the record file | gates, schedule, `evict`, `measure`, the record |
| `clickbench check`, `calibrate` | `bench-cli/src/clickbench.rs`, `bench-workload/src/agree.rs`, `leaderboard.rs` | the records read so far | `read`, `compare`, `conditions`, the refusals, `Calibration::new` |
| Machine gates | `bench-env/src/*.rs` | what the machine is and is doing, as read | `Facts::read`, `classify`, `ceiling`, `gates`, `Capture::require`, `hash` |
| Resident comparison | `bench-cli/src/resident.rs` | two captures, the pairs, the position of a scan | `measure`, `scan`, `gate` |
| `reproduce` and claims | `bench-cli/src/reproduce.rs`, `bench-store/src/claim.rs` | control, reading, attempt, verdict | `windowed`, `resolution`, `Claim::decide`, `run` |
| Sampling loop | `bench-core/src/measure.rs` | the series | `Timing::run`, `Stop::should_stop` |

Without state of their own, and used by those: manifests
(`bench-corpus/src/manifest.rs`), which every corpus command reads first;
canonical answers and their digests (`bench-driver/src/answer.rs`,
`bench-workload/src/digest.rs`); the published numbers and the query sets
(`bench-workload/src/leaderboard.rs`, `clickbench.rs`).

### Interactions

* Every `iris-bench` process may open the same store; there is no lock. They
  meet only through `rename`, `remove_file` and `exists` on object paths.
* A fetch or generation calls `insert_stream` once per manifest entry, with a
  counting reader around the bytes, and judges the count before the answer.
* A corpus command reads and validates its manifest before it touches the
  network, a generator or the store.
* `clickbench run` owns one session, which borrows one driver; the driver turns
  what its system hands over into canonical values, whose digest goes into the
  record, and `clickbench check` compares the digests of different drivers. Two commands on
  one machine share the page cache, the scratch directory
  `run-scratch/<driver>` and, if told so, the path of `--out`.
* `clickbench check` reads files other processes write.
* `reproduce` runs the resident comparison twice, as a control and as a
  reading, on a machine that others use too.

### Behaviours that are hard

Interleavings of processes over one directory without locks; a check that
comes after the rename it decides about; deaths between those two; commands
that are run again over what a failed one left; gates that are asked at a
moment and relied on for an hour; phases that fail halfway with their clock
running; generators that outlive the command that waits for them; scans that
fail and are timed all the same; a bias that is known only up to an interval; stopping rules that are
asked only now and then. `PROJECT.json` lists them as hazards, at their lines.

### What makes each component correct

* Store: no truncated object; a success is of bytes that were checked; writers
  of one object do not mix; only a mismatching stream disturbs a name, and not
  for long while nothing dies; nothing is left behind by a call that ended.
* Fetching, generating: what a command has passed is in the store; what it
  refused is not; a command that is run again gets to the end.
* Manifests: what validation lets through pins every file it names, its
  identity moves exactly with what it pins, and a part is a selection.
* Session: flags, counters and the system behind them stay in step, and no
  phase is charged more than went by in it.
* Drivers: whatever failed before, a driver is up exactly when it lets a call
  through and answers from the last load that worked; two drivers have one
  digest exactly when they were told the same, in whatever types, units and
  order their systems hold it.
* `clickbench run`: a record has every query once and where the schedule says,
  and its columns mean what their headings say.
* `clickbench check`, `calibrate`: a pass means one answer, a failure two, and
  only records of one fit machine are graded; a driver that is slow where the
  others are not is out of the band, and a machine that is slow for all is not.
* Machine gates: a number that says it is a duration was taken on a machine whose
  boost, list of processors and first processor's clock were read and found right.
* Comparison and claims: a pass is a pass of what the machine showed, and a
  verdict over whole scans that nothing disturbed is the truth's.
* Sampling loop: it ends, not early, and not much late.

### Not modelled, and why

* `repetition.rs` (a variance decomposition), the quantiles, medians and the
  bootstrap of `stats.rs`: stateless arithmetic on floating point numbers, of
  which TLC has none. The bootstrap is modelled by what its interval promises
  (`Intervals` of `ResidentRatio`), the rest is left out.
* The ChaCha stream behind the shuffle of a schedule: an operator given as a
  constant.
* TOML, JSON and Parquet themselves: a manifest that parses is a record, a
  record file is there, torn, or a record.
* `noise.rs`, `overhead.rs`: sequential measurements that print. `noise` starts
  its rounds as processes and waits for each before it starts the next.
* `bench-report`: rendering and wording of pages from finished records.
* `main.rs`: argument parsing and dispatch.

## 2. Modules

| Module | Models | Extends |
|---|---|---|
| `ContentStore` | the promise: names are only added, a success names what is held | |
| `CorpusStore` | `store.rs`, several processes, every fault | refines `ContentStore` |
| `CorpusStoreProofs` | theorems about `CorpusStore` | `CorpusStore` |
| `Manifest` | `manifest.rs`: `read`, `validate` with every rule, `identity`, `is_part_of`, as operators | |
| `CorpusEntry` | what fetch and generate share: the manifest a command starts at, the counting reader, `Judge`, and the footers and assertions of `shape::check` | `CorpusStore`, `Manifest` |
| `CorpusFetch` | `corpus <name>` of a downloaded or mirrored corpus, with `url_for` and `shape::check` | `CorpusEntry` |
| `CorpusFetchProofs` | theorems about manifests, what a command reaches, what it has passed and what it refuses | `CorpusFetch`, `CorpusStoreProofs` |
| `CorpusGenerate` | `corpus <name> --generator`, the generator, `shape::check` | `CorpusEntry` |
| `CorpusGenerateProofs` | theorems about what a command has when it is done, whose files it takes and which it calls absent | `CorpusGenerate`, `CorpusStoreProofs` |
| `DriverSession` | `Session` over a driver and a database on disk | |
| `Answers` | `answer.rs` and `digest.rs`: the rendering of every kind of value, rows, their order, the digest, as operators | |
| `Drivers` | the four drivers under their sessions | `DriverSession`, `Answers` |
| `DriversProofs` | theorems about sessions, drivers, and answers and their digests | `Drivers` |
| `ClickbenchRun` | `clickbench run` | `DriverSession` |
| `ClickbenchRunProofs` | theorems about the rows of a record and what their columns mean | `ClickbenchRun` |
| `MachineGates` | `bench-env`: facts, class, ceiling, gates, permits, hash, as operators | |
| `Leaderboard` | `leaderboard.rs`: standings, the shared factor, drift and band, as operators | |
| `ClickbenchCheck` | `clickbench check` and `calibrate` | `MachineGates`, `Leaderboard` |
| `ClickbenchCheckProofs` | theorems about what `Capture::require` lets through, what is compared and graded, and the band | `ClickbenchCheck` |
| `ResidentRatio` | `resident::measure`, step by step | `MachineGates` |
| `Reproduce` | the commands `gate` and `reproduce`, and `Claim::decide` | `ResidentRatio` |
| `ReproduceProofs` | theorems about the comparison and the verdict | `Reproduce` |
| `TimingLoop` | `Timing::run` | |
| `TimingLoopProofs` | theorems about `TimingLoop` | `TimingLoop` |

`MC<Module>.tla` gives the constants of an instance their values. Operators
whose comment begins with "A slip in" are the definition below them with a
mistake somebody could make in that code: a property is worth having when
such a mistake violates it, and every checked property has one that does.

### How state and actions correspond to the code

**CorpusStore.** `object[d]` is the file at `Store::path(d)` and `temp[d][p]`
the file `.<d>.<pid>` beside it; both hold a content, nothing, or `Partial`, a
file that is open and not filled. `pc` cuts an insert at the points another
process can see between: `contains`, `create`, `fill` (the copy loop and
`sync_all`), `rename` and `settle` (the comparison of digests and the removal,
which only `insert_stream` does). The first reads of `insert_file` and
`insert_verified` happen before anything is visible and are part of the entry.
A failure to open or hash a file before that has no effect on any path, so
`CreateFails` stands for it too. `Crash` may come at every step; what is on
disk stays and the process id is used again, so a new call may find its own
old temporary file and truncates it. `insert_verified` and `insert_file` read
twice; the fault `"source"` is a file that is rewritten between two reads.
The rename and the removal are atomic, as POSIX has them. That written data is
durable after a power failure is not modelled: deaths are of processes.

**Manifest.** A manifest is a record with the fields of the file; what is
optional is a set of at most one value, a text is `""` when it is blank, and a
path is its place in the order of paths and whether it is blank, absolute,
climbing or inside. Each rule of `validate` is an operator; `validate` has the
error of the first that fails and the model only whether one does. `identity`
takes the hash to be injective and a text to end at its separator, so it is the
name and the sorted pins. `toml` stands for a file that is there and parses.

**CorpusEntry.** A command has the manifest `ManifestOf(p)`, asked for under
`NameOf(p)`, and `Files(p)` are its entries. `SeenBy` is `Counting::seen` when `insert_stream` comes back:
zero when the stream was not read because the name was taken. `Judge` asks the
size before the store's answer, as `one` does in both files. Then both commands
measure what they have, file by file: `JudgeFooter` is `of_corpus` at one entry,
which decides by the path what is Parquet, wants the object, its footer
(`Footer`, none of what is not Parquet) and as many columns as the first file
had; `measured` are its locals, and `AsAsserted` is `check`, with the assertion
nothing can be checked against. Right bytes can fail there, ragged files and
assertions that are not true of them.

**CorpusFetch.** A command goes `start`, `entry` by entry (`HaveEntry`,
`WantEntry`, a request, `storing` over the store's own actions, `Stored`), then
`shape`. `fallenBack` survives from one request to the next and not from one
run to the next. `shape::check` may pass wrong bytes, since a footer is not a
digest, and `OpenFails` is a file that is there and is not opened.
`Rerun` is a person who runs a failed command again, `Die` a death anywhere.

**CorpusGenerate.** The generator is an external program: it writes files one
by one (`GeneratorWrites`), leaves one out, fails, or could not be started
(`GeneratorFails`). `scratch` is a directory, by path, that `prepare` empties,
whoever's files are in it. `generate.rs:321-325` waits with `Command::status`, which
does not end the child when the command is killed: `Die` may leave what the
generator had still to write in `outliving`, and `OutlivingWrites` writes it at
any later time, after another `prepare` too. Two things about that are left to
constants: a file is written in one step, and `Offered(d)` has whatever may be
found where `d` is expected, the half of a file that is still being written
among it; so what one generator leaves at a path is in what the other's
manifest may find there (`SamePlaceAssumption`). `one` makes `Absent` of every
error of `File::open`; `TakeFile` has the file that is not there and
`OpenRefused` the one that is. `wrote`, `strayed` and `openError` remember who
wrote what and what `open` said, for the properties only.

**DriverSession.** A call into a driver is one step that takes some `Nanos`;
`spent` counts what went by and `phases` what was charged, which happens only
behind `result?`. `system[r]` is whether the system is up and which tables it
answers from; a system that `Keeps` its database starts on what is on disk.
`mine` is what this session loaded. `MaxCalls` bounds calls per phase.

**Answers.** A text is a sequence of characters, because the order of lines and
what is escaped is about characters; `Letters` is the alphabet of a file, `Figure`
and `Digits` write a number, `Padded` and `Year` what `{:02}` and `{year:04}` do.
`DayOf` and the clock are the two halves of a timestamp. A count of microseconds is whole seconds
and the rest, a finite float is `mantissa * 10^power`: enough for the six
digits, and exact where the code rounds a double. `Places` is zero-based as the
code's cast has it, which section 5 comes back to. `sort_unstable` is `Sorted`: a
rearrangement of the lines in which none stands behind one it comes before.

**Drivers.** Every action is a call of the session (`Prepare`, `LoadTable`,
`AskQuery`, `Ends`) together with what the driver does in it. `fields` are the
`Option`s of the driver's struct, `catalog` the names its system answers to,
`database` what DuckDB left in a directory. A cell is what a file holds or a
system hands over, with its type there (`Cells`), and a file is rows of them under
a schema (`Files`); `DuckDbValue`, `DataFusionValue` and `ArrowValue` are the three
`value` functions over a cell. A system computes the
right rows (`Result`) and may hand them over in another of its types and, where
no order was asked for, in any order (`HandedOver`): that is what the canonical
form is for. `arrow-parquet` is its own system: a reader hands it the columns
wanted in the order of the file (`Batch`), and `Projected` puts them back.
`Meaning` is what a cell says whatever it is held in, and `Faithful` and
`WrittenApart` say of which cells the text is of that alone: for the properties and
their hypotheses only.
`Micros` and `Days` are the conversions of units, with what they refuse: a
fraction of a microsecond, a count of seconds or milliseconds that does not fit
into microseconds (`Furthest`), a day that does not fit into 32 bits (`LastDay`). The
two edges are constants, and `EdgesAreRefused` in `MCDrivers` has TLC look on
either side of the first; the second, in milliseconds, is past the numbers TLC
counts with. Which loads work follows the code: DataFusion does not register a name
twice and puts a view over renamed files, `arrow-parquet` takes Parquet without
a select list and reads every footer first, DuckDB replaces.

**ClickbenchRun.** One action per step of `run` and `measure`. `held` is the
machine's page cache, at the grain of a query's bytes: reads add, `Evict`
empties it, a load reads everything, and `Reclaim` is the machine that is short
of memory and takes some of it back, at any moment; `lost` is what it took back
and nobody has read since. `Pools(r)` are the queries whose bytes `r`'s system may
hold in a buffer pool of its own, which no eviction reaches
(`protocol.rs:21-26`). How long a run took is abstracted to where it found its
bytes (`FoundIn`): on the disk, on the disk because the machine had taken them back,
in the page cache or in the pool. A record keeps the digests and not that
(`Written`). A command at work makes the gates of another
fail, because it is a busy process; gates may also fail for reasons of their
own. `StartRecord` truncates the file and `FinishRecord` fills it.

**MachineGates.** A machine is what it is; `NoTurboFile` and `BoostFile` are
what its kernel shows of it, and `Facts` what the program reads out of that. A
setting is a set of at most one reading, as is the load average. A machine has a
governor for each processor, and `Governor` reads the first one's, as
`facts.rs:203` does. `core-pinning` compares texts (`policy.rs:175-178`): of the only
processor of a machine `0` is not `0-0`, and passes; `Pinned` has that as its case
of its own. Class, ceiling
and gates are the operators of the same names; memory and load are whole units
instead of bytes and floating point numbers.

**ClickbenchCheck.** A record is what a run leaves that was started on some
machine (`Takings`): its environment is the hash, and it was `refused` when
`Require` did not say ok and `--anyway` was given; without it there is no
record. A record also carries its machine, for the properties only. Files hold
a record or are torn, and other processes write while the command reads. `Agreed`, `Disagreed` and `Unstable`
are `compare`; `Refuses` is what `calibrate` asks before it computes.

**Leaderboard.** A duration is its logarithm, so a geometric mean is a mean and
a ratio a difference, and `Whole`, the product of the numbers of queries, is a
common denominator that keeps the means whole. A duration of zero has no
logarithm: that `leaderboard.rs:271` leaves a query out that took none is not
modelled. What may be missing, a run or a column, is a set of at most one. `Standings` has a standing for every report
with something to be compared with, by the report's position.
`Calibrate` leaves `inside` or `outside`.

**ResidentRatio, Reproduce.** `command` is `gate` or `reproduce`, `anyway` is the command line. `doing` is what
the machine does now, whose gates are those of `MachineGates`, and `Change`
makes it do something else. A comparison is `TakeBefore`,
`SetUp`, scans range by range, `TakeAfter`, `Compare`. A range that cannot be read
ends the command while it warms up (`RangeFails`); of a recorded scan only
`time(..).1` is kept, so the scan is over, is as long as it got and counts
(`ScanIsCut`, `resident.rs:276-281`). Ratios are whole units
away from parity: the truth of the window, what the buffer is spared
(`favour`, `resident.rs:33-45`) and the bias of the harness are
fixed per session and unknown to the program. The control compares two
buffers, so it shows the bias alone; a reading shows all three (`Shown`). An
interval of whole scans that nothing disturbed contains what is shown, any
other may be anything, and the point
need not lie in its interval, because the interval is made of percentiles of
resamples. `cut`, `disturbed` and `facts` are for the properties only. `Reproduce` adds the attempt, `DecideBar` (`Bar::decide`), `Decide`
(`Claim::decide`) and the record.

**TimingLoop.** What a sample measured is abstracted to whether the interval
is narrow, which every sample may change. `Longest` is a period past every limit
of a rule (`LongestAssumption`): of a longer series `Longer` keeps only the
remainder by the period, all a rule can still tell of it. So a loop that goes on
for ever is a cycle, and `LoopReturns` is refuted by one where a rule does not
ask for its limit; with the rules as they are no series gets that far.

## 3. Runs

| Run | Instance | What it shows |
|---|---|---|
| `store_faults` | 2 processes, 2 contents, 2 digests, every fault but a rewritten source; processes symmetric | type; `NeverTruncated`, `StoredWasChecked`, `PublishesOwnBytes`, `DisturbedOnlyByMismatch` |
| `fetch_honest` | 2 commands over the same 2 files in opposite orders, 2 faults | `EventuallyReady`; the store inside the composition implements `ContentStore` (`KeepsPromise`) |
| `fetch_mixed` | 3 commands: a mirror of three files, a corpus with a URL that cannot be worked out, a mirror that says of one file not where it is; one name whose server sends anything and one shared honest name; 3 failed creates, writes or requests | `PassedHonestEntriesHeld`, `ReachedIsPinned`, `RefusedLeavesNothing`, `MismatchIsPending`, `NoStrayTemporaries` |
| `generate_own` | 3 commands over 2 scratch directories, one on an unsupported platform, 1 fault of any kind: a death with or without its generator, a file that is not opened; one manifest asserts rows it does not have | `DoneMeansHeld`, `TakesNothingOld`, `AbsentMeansUnwritten` |
| `drivers_agree` | DuckDB beside DataFusion, DataFusion beside `arrow-parquet`, and the null driver, in one directory; 7 loads, 2 queries, 2 preparations and loads each and one answer | `DriversKeepStep`, `PhasesInStep`, `ChargedWithinSpent`, `AnswersTheLastLoad`, `SameAnswerSameDigest`, `SameDigestSameAnswer` |
| `clickbench_turns` | 2 commands, one after another, one directory, one record path, 2 deaths, failures, reclaims or reruns; the first is cold, with a system that may hold one of the two queries in its pool, the second is warm | `RecordsAreComplete`, `ColumnsMeanWhatTheySay`, `AnsweredFromThisLoad`, `EveryQueryGetsARow` |
| `reproduce_quiet` | both commands, a file of 3 in ranges of 2, 2 pairs, 2 truths, 2 biases, the buffer spared something or not, intervals of at most a unit between -1 and 2 with a point at most a unit outside, scans cut anywhere, 1 change between idle and busy, 2 days, with and without `--anyway` | `VerdictIsTrue`, `VerdictBetweenPasses`, `FirstTurnsAreShared`, `PassedIsWithin`, `CommandEnds` |
| `check_grades` | 12 runs of 4 drivers on 5 machines, that differ in one respect each, one of them in the governors of its processors, 2 of them of a driver that is slower or faster than the others; 2 paths, up to 3 named, 1 write, a machine twice as slow | `PassedMeansOneAnswer`, `FailedMeansTwoAnswers`, `GradedIsOneFitMachine`, `GradedWasSteady`, `ApartMeansOutside`, `SlowMachineIsTheSame` |
| `timing_stops` | every rule with limits 0 to 7, asked every 3 samples, warmup 2 | `OvershootIsBounded`, `NeverTooFew`, `LoopReturns` |
| `drivers_sums` | DuckDB beside DataFusion and two sums below one | refutes `SameDigestSameAnswer` |
| `store_died` | 1 process that may die | refutes `QuietStoreHashesToName` |
| `generate_stuck` | 2 commands that share one file | refutes `EventuallyDone` |

`StoreTypeOK` and `DriversTypeOK` are checked in the first and fifth run.
`TimingTypeOK` is proved. The other modules state theirs for the reader; their
properties compare the same variables.

`MCDrivers` and `MCCorpusFetch` also assume facts about operators, which TLC
evaluates over bounded inputs before the run: `civil` follows the calendar day
by day from 1586 to 2106, no two texts of up to three characters and no text and
NULL are rendered alike, and over some 780 manifests the identity of two valid
ones is the same exactly when name and pins are, and `is_part_of` holds exactly
for selections. `SixDigitsDecide` says of 13 mantissas at 19 powers of ten that two
floats of the same six digits are written alike when both are inside or both
outside the limits of the plain notation, `LimitsDivide` that they are not
when a limit is between them, and `SixDigitsAreWrittenAlike`, which a proof takes
for granted, is evaluated for the loads of the runs. So is `CellsAreWrittenApart`,
which another takes for granted: it holds of every load but the two sums of
`drivers_sums`, the run that shows what comes of it.

### Bounds, and why they are enough

* Store: what goes wrong needs one process in the middle of a call and one that
  meets it at the same name. The third content a mismatch needs is the one that
  belongs to the other digest. The proofs remove the bound.
* `MaxTrouble` is the number of faults a behaviour may contain; two is a fault
  during the recovery from another. Without a bound a liveness property would
  ask for success while the disk fails for ever.
* Two files per corpus: one is passed and another at work. Opposite orders make
  the commands meet at both.
* Two queries and a reversed schedule tell every order from the order of the
  file; three runs are the code's own constant.
* A driver's calls meet another's only through the database in the directory
  and the comparison of two answers, so two runners at a time are enough, and
  which of the pairs is a choice at the start. Two preparations and loads are a
  failed one and its repetition, or a load and its replacement. The seven loads
  differ in one respect each: two files, files of different columns, a count
  finer than microseconds, a decimal and a double of the same six digits (each
  beside a null), a select list, a format one driver refuses. No
  float of the instance is below one: that case is `drivers_sums`.
* The published numbers leave one query without a cold and one without a hot
  number, so a mean that counts what was skipped is told from one that does
  not.
* Two pairs have a turn for each side to be first; ranges of 2 over a file of 3
  end in a short range.
* Points from -1 to 2, and ratios one beyond, with a tolerance of one have values
  inside, at and outside the bar on both sides; the bias points to one side, since
  `DecideBar` sees only distances, and what the buffer is spared to the other.
  What the harness shows stays inside the points, whatever the facts are. Wider
  intervals only make more verdicts inconclusive; the proofs have no such bounds.
* One reclaim between the runs of a query is what the columns can suffer; a
  second is inside the bound when nothing else goes wrong.
* Limits 0 to 7 around multiples of 3 include zero, limits on, before and
  behind a multiple, and a maximum below the minimum.

Deadlock is not checked where commands end and the system then stops
(`CHECK_DEADLOCK FALSE`).

### Fairness

Nothing in this code waits for another process: there is no lock, no condition
and no queue. A command that can take a step takes one, so the specifications
with liveness have weak fairness of `Run(p)`, `Command(r)`, or the whole next
step of a sequential command. `FetchFairSpec` and `GenerateFairSpec` also
assume `Rerun(p)`: a person who runs a failed command again, which is what the
documentation tells them to do. Faults need no fairness and are bounded. A
stream that is being read ends: the client has timeouts, and the model has
`FillFails` for them. `EveryQueryGetsARow` starts from the state in which the
bound on deaths is used up.

## 4. Proofs

### The store

`CorpusStoreProofs` proves, for any sets of processes, contents and digests,
any assignment of what streams deliver and any set of faults:

| Theorem | Statement |
|---|---|
| `StoreInvariant`, `StoreTypeCorrect` | `StoreSpec => []StoreInv`, `[]StoreTypeOK` |
| `NeverTruncatedHolds` | no object is a file that was still being filled |
| `StoredWasCheckedHolds` | a success is of bytes that hash to the name |
| `PublishesOwnBytesHolds` | a rename publishes the renaming process's own bytes |
| `DisturbedOnlyByMismatchHolds` | only a mismatching stream for a name disturbs it |
| `MismatchIsPendingHolds` | without deaths and refused removals, wrong bytes are about to be removed |
| `NoStrayTemporariesHolds` | without deaths, refused renames and clean-ups, ended calls leave no file |
| `HonestStoreKeepsPromise` | with honest streams `CorpusStore` implements `ContentStore` |

Assumptions: a digest for every content (`DigestAssumption`; nothing is assumed
about collisions), streams deliver contents (`OfferedAssumption`), the markers
`Absent` and `Partial` are no contents (`MarkerAssumption`), faults are of the
seven kinds (`FaultsAssumption`).

The argument. `StoreInv` strengthens the type invariant with five parts.
`NeverTruncated` is not inductive: a rename copies the temporary file, so one
needs `OwnsTemporary`, that a process about to rename has its complete bytes
under its own temporary name, which holds because no other process writes
there and its own call filled it. `StoredWasChecked` needs `NamedByContent`,
that the three calls which hash first work under the digest of what they read,
and `StreamSettles`, that only a stream gets to the comparison. The two action
properties follow from the invariant by asking which actions touch an object
at all (`WhoTouchesObjects`: the rename and the removal). `MismatchIsPending`
and `NoStrayTemporaries` are inductive once `StoreInv` is known.

The refinement maps `held` to the digests whose object hashes to its name and
`answer` to the outcome of a call that has returned. Under `Honest` it needs
`HonestInv`: every call works under the digest of its own bytes, every object
hashes to its name, and a success that was given is still held. Then a rename
is `Hold`, or `Answer` when it ends the call, an ended step is `Answer`, a
return or a death `Taken`, and everything else a stutter (`RefinesStep`).

### Manifests and fetching

`CorpusFetchProofs` proves of every manifest with a sequence of entries:
`PartIsSelection`, that counting entries is enough to call a
part proper, because no path of a valid manifest is listed twice and it has as
many pins as entries (`PinsAreCounted`, by a bijection); and `PartsOfParts`.
`ReachedIsPinnedHolds` is `FetchSpec => []ReachedIsPinned` for any commands,
manifests, servers and faults. Its inductive invariant `FetchInv` says that a
command past its start read a manifest that validates, and that one with a
request in flight is at one of its entries.

`FetchUsesTheStore` is `FetchSpec => StoreSpec`: every step of a fetch is a step
of the store or a stutter, so the theorems about the store hold under any number
of commands. `FetchMismatchIsPending` and `FetchLeavesNoTemporaries` are two
that a run of fetching checks.

`PassedHonestEntriesHeldHolds` says that what a command has passed stays,
although other commands may be sent wrong bytes under other names and die at any
step. `HeldInv` puts three parts beside the invariant of the store and
`FetchInv`: a command's call is a stream for the entry it is at (`AtTheEntry`),
which the store's own specification does not say; behind its rename an honest
name has an object; and what is at an honest name hashes to it. By
`HonestNameStays` of `CorpusStoreProofs` no stream then removes such an object,
and by `StreamGoesOn` a success is given with an object at the name.

`RefusedLeavesNothingHolds` has two hypotheses, and `MCCorpusFetch_mistyped` and
the fault `"remove"` are what happens without them: a manifest pins the size of
what its digests name (`SizesArePinned`), and the filesystem does not refuse to
remove what was refused. `RefusedInv` is about a name nobody else fetches: a
command at its entry that has not published holds no object there
(`OnlyFetcher`), since it has asked `contains` and only its own stream could have
put one, and the outcome of its call says what is there when it returns
(`Accounted`): after a mismatch the object is gone, and what was stored has the
digest, therefore the size.

### Generating

`CorpusGenerateProofs` proves `GenerateUsesTheStore` and `DoneMeansHeldHolds`
along the same lines; what is passed there is what was found in a sweep over the
stored files, or taken in since (`Passed`), and is forgotten when the generator
is started. `TakesNothingOldHolds` needs another invariant, `ScratchInv`: a
command past the platform is on one the manifest names, and in a directory no
other such command shares there is, at every stage and after any death, only
what was written since the last preparation (`NothingOld`), by its generator or
by one that outlived its process. The hypothesis of `TakesNothingOld` is what
makes it inductive: only a command on its platform, or what it left running,
ever empties or fills a directory (`WhoTouchesScratch`, `OutlivingWrite`).

`AbsentMeansUnwrittenHolds` is about commands with scratch directories of their
own (`ScratchApart`), and about an `Absent` that stands for a missing file: the
code reports every error of `File::open` so, and `openError` is the one it does
not report (`MCCorpusGenerate_shared` is what happens without either).
`WrittenInv` adds the other half of `ScratchInv`: what a command's generator has
written since the last preparation is in the directory (`StillThere`), because
nothing but a preparation of the same command takes it out.

### Sessions and drivers

`DriversProofs` proves `PhasesInStepHolds`, `ChargedWithinSpentHolds` and
`DriversKeepStepHolds` of `DriversSpec`, for any sessions, drivers, tables,
loads, queries and directories. `SessionInv` is the type invariant with two
parts per session. `InStep` adds to `PhasesInStep` that a session that has
loaded was prepared: without it a preparation could not be known to come before
any load. `Charged` adds that the tables of a session are finitely many, which
the step from n to n + 1 tables needs, and every call takes some time
(`NanosAssumption`), so that what was counted was charged for. A step of one
session leaves another's apart (`ApartKeeps`). `KeptInv` is about what drivers
keep. `DriversKeepStep` is not inductive: that a load of DuckDB leaves catalog
and directory alike needs that they were, and that no other DuckDB has that
directory open, which `Alone` says and the lock of the database file gives;
that a preparation starts from nothing needs that a system that is not up knows
no names. `PrepareEffect` and `LoadEffect` say once what a call makes of fields,
catalog and directory, driver by driver, and the step lemmas use nothing else
of the drivers.

`AnswersTheLastLoadHolds` is an action property. `LatestInv` says that what a
session was last told it got in is what its system has under that name, which a
load replaces together or not at all, and that nothing is got in before a
preparation; `AskEffect` says that an answer of any of the three drivers with a
system is read out of what is under the name. `DriversTypeOKHolds` is of the
same invariant.

### Answers and digests

`SameAnswerSameDigestHolds` is of any loads, files, cells and queries: two drivers
that were told the same have one digest, in whatever types, units, column order
and row order their systems hold it. It goes through the whole way from a file to
a digest, one conversion at a time.

* A cell. `SpokenIs` says what any of the three `value` functions can make of a
  cell or of what a system has recast it to, and `CellGoesByMeaning` that this is
  rendered by what the cell says. For a time that is arithmetic on units
  (`Finer`, `MicrosKeepInstant`): a count that is not refused keeps its instant.
  Days and milliseconds are `WholeDays`.
* A row. `ProjectedIsInOrder` says that `project` gives back every column where it
  was asked for, duplicates included, because the place of a column in the batch
  is the number of wanted columns up to it. `LineGoesByMeaning` then takes a line
  cell by cell.
* The rows. `StoredIsTyped` and `ResultIsTabular` have what is asked of a load as a
  table, `SystemsAreRead` and `FilesAreRead` have what each driver pushes as that
  table read cell by cell, in its order or in some other. `SortForgetsOrder` is why
  the other does not matter: rearrangements compose and can be undone (`Composed`,
  `Undone`), so both sequences of lines have the same ones to choose the sorted one
  from. `DigestGoesByLines` and `SameToldSameDigest` put that together.

The inductive invariant `ReadInv` puts two parts beside `LatestInv`: `arrow-parquet`
holds only files of one schema and without a select list, since its `load` refuses
the others, and every answer was read cell by cell (`WasRead`) from a load that its
query can be asked of (`Asked`).

This theorem has one hypothesis, `SixDigitsAreWrittenAlike`: that numbers which are
asked for and have the same six digits are written alike. It is a hypothesis and no
lemma because the code does not have it: the limits of the plain notation are
compared with what was not rounded yet, and section 5 has numbers on either side of
one. Away from the limits it is arithmetic of figures and powers of ten, which the
provers do not have; TLC evaluates it (section 3). An answer without floats and
decimals meets it whatever is in it.

`SameDigestSameAnswerHolds` is the other direction, which is what a user of
`clickbench check` relies on: two drivers with one digest were told the same rows,
each as often, and in one order if the query asked for one. For this the canonical
form has to be read back, character by character.

* Figures. `Digits` is a recursive function, and that there is one, defined for all
  numbers, is proved from the well-foundedness of `<`. The figures of a number then
  say which it is, and so do padded ones, signed ones and four figures of a year.
* The calendar. `civil` splits a day into era, year of the era and day of the year
  (`CivilIs`), the split can be undone, and so no two days have the same date
  (`CivilApart`), for every day there is. Dates, clocks with and without a fraction
  and timestamps follow, since their parts stand at known places or at known marks.
* Escapes. An escaped text has no mark of its own left and is read back from its
  first character on; a null is `\N`, which nothing else is (`RenderedIsClean`).
* Cells. `KindApart`: two cells of one type that are written alike say the same,
  whatever any of the three `value` functions made of them.
* Lines and body. Texts without a mark that are joined with it can be cut again
  (`JoinedApart`), at tabs into cells and at line ends into lines; for that, answers
  must be as wide as each other, which the columns in the digest say.
* Order. An order that is total on lines has a sorted rearrangement (`SortedIs`), so
  what `finish` sorts has the same lines as what it was given, and two answers with
  the same sorted lines are rearrangements of each other (`BodiesApart`,
  `DigestsApart`).

The hash is taken to be injective (`DigestOf`), as everywhere in these models. The
invariant is `ReadInv` once more. The hypothesis is `CellsAreWrittenApart`: whatever
two loads have in one column of an answer is written apart if it says different
things. `SameKind` is where this is proved and nothing is assumed: cells of one type
that are `Faithful` (texts, integers, booleans, nulls, 32-bit dates, timestamps,
64-bit dates on whole days, times within the day), and a null beside anything. Left
to the hypothesis is what the code does not keep apart: two floats below one that
share their places (`drivers_sums`), milliseconds past a day, which a driver cuts off, a
time of day beyond the day, and columns of two types, since a text of figures is
written like the number.

### A run and its record

`ClickbenchRunProofs` proves three properties of `RunSpec`, for any workload,
commands, paths and faults, and for every shuffle that draws each position once
(`ShuffleAssumption`, what `rand` promises). `Effect` says once what a step may
do to its command: quit, move on, evict or ask; it leaves the other commands
alone (`OthersStand`). `RunInv` then says that the rows of a record are a
beginning of the schedule (`Underway`), so that a record that is written has all
of them, and a schedule that is a permutation has every query
(`RecordsAreCompleteHolds`).

`ColumnsMeanWhatTheySayHolds` is under `OneAtATime`, without which
`MCClickbenchRun_overlap` refutes it, and for any pools and any moments at which
the machine takes bytes back. The invariant `ColumnsInv` says that no two
commands are at it together (`Turns`), and what is known between two runs of a
query (`Between`). It is not about `held`, which `Reclaim` may empty at any time,
but about `Known`, what is held or was taken back by the machine and not read
since, which `Reclaim` leaves alone (`Rests`): a query's bytes are known once it
has run, and were not before it if the cache was dropped. A reading of what is
not known is from the disk, or from the pool of a system that has one (`Fresh`);
a reading of what is known goes to the disk only for what the machine had taken
back, which `from` tells apart (`"lost"`).
`AnsweredFromThisLoadHolds` needs no such hypothesis: a session asks only when it
has loaded, and what it has loaded it keeps until it ends (`LoadInv`). That there
is one table, `hits`, is `TableAssumption`.

### The sampling loop

`TimingLoopProofs` proves `OvershootIsBoundedHolds`, `NeverTooFewHolds` and
`TimingTypeCorrect` for every rule, period and warmup. The invariant says of a
loop that has not returned that the last multiple it was asked at was below its
limit: samples minus their remainder. The remainder of the next number is a
lemma (`NextRemainder`), as the prover knows remainders only of fixed divisors.
A series is always over before its length would go round past `Longest`
(`LengthIsTold`, from `LongestAssumption`), so the bound is none of the theorems'.

### The comparison and the claim

`ReproduceProofs` proves four properties of `ReproduceSpec`, for every bar, bias,
truth, file, number of pairs and anything else that may go on on the machine.
`ClaimInv` has a part per question. `ControlIsSound` and `Compared` say that a
comparison that is over holds what the harness shows, unless it was disturbed or
a scan of it was cut short (`Clean`): both are only noted inside the scans of the
comparison that is going on, so what the first one found stays (`SoundStays`). `AttemptIsTheirs` says what an
attempt was made of, `VerdictIsDecided` what a verdict was, and
`RefusedIsTheEnd` that a capture which failed without `--anyway` is the end,
before there is an attempt. `VerdictIsTrueHolds` is then arithmetic: the
control's interval holds the bias, so its resolution covers it
(`ResolutionCovers`), the bar counts the resolution against either answer
(`DecidedByTheBar`), and distances add up (`Distances`). What the buffer is
spared in a reading and not in the control (`favour`) is in what was measured and
in no resolution. The comment at `resident.rs:33-45` says which way it leans,
against the window; the theorem says accordingly that a claim reproduced holds of
the truth and the favour together, and what that leaves of the truth alone.
`VerdictBetweenPassesHolds` and `PassedIsWithinHolds` follow from the same parts.
`FirstTurnsAreSharedHolds` needs `Turns`: of n scans recorded so far, (n + 1)
halved have begun a pair, and the first side began the larger half of those.

### What is compared and graded

`ClickbenchCheckProofs` begins with a fact about every machine:
`DurationsMeanSteady`, that `Capture::require(Durations)` lets through a Linux
workstation outside WSL with its boost off, nothing busy and the first
processor's governor on `performance`, and nothing else. That one governor is
all that is read (`facts.rs:200-211`); that every clock is held follows only where
all processors are governed alike (`GovernedAlike`, `ClockIsHeld`). Past the gates, the ceiling is
`durations` only where class, hypervisor and three readings allow it
(`DurationsPass`, `DurationsReadTheWorkstation`), and where a setting was read its
gate asked for the right one (`GatesOfSettings`).

The other theorems are about `CheckSpec`, for any records, machines, paths and
writers. The inductive invariant is `GradedInv`: what is read is a record some
run left, and what is graded without `--anyway` was not refused. From it follow
`GradedWasSteadyHolds`, if the processors a run may use are online (section 5 has
what happens without that), and, with what `compare` and the refusals see,
`PassedMeansOneAnswerHolds`, `FailedMeansTwoAnswersHolds` (`AnswersInv`) and
`GradedIsOneFitMachineHolds` (`OneMachineInv`). The code compares each record
with the one before it; that all of them are then of one machine is an induction
along the records (`UpTo`).

### The shared factor and the band

`ApartMeansOutsideHolds` and `SlowMachineIsTheSameHolds` are about means over any
finite set of queries (`QueryAssumption`) of any number of reports, for every
band and every published file whose runs have one number or none
(`PublishedAssumption`). `CalibratedInv` says that a verdict is the grade of what
was read.

Sums and products are folds of the community modules, and a fold is what a
recursive function over subsets makes of them. That there is such a function is
proved here, from the least size at which one could be missing (`OneByOne`,
`FoldsSoFar`, `FoldIs`); then a sum is what one term adds to the sum of the others
(`SumIs`), lies between bounds its terms lie between (`SumBetween`), and moves
with them (`SumMoves`), and every factor divides a product (`ProductDivides`),
which is why `Whole` makes every ratio whole (`RatiosAreWhole`).

The factor is the mean of the ratios (`MachineIs`). Two drivers inside the band
are therefore no further apart than its two sides together (`InsideIsClose`); if
one is outside on a side, some other is on the other side of the mean, further
away than the nearer edge (`OutsideIsApart`). On a machine that is slower for all
by the same, the first and the least run move by it and what is missing stays
missing (`SlowedColumn`), so the same queries are paired, every ratio moves alike,
the factor with them, and no drift moves (`SlowedStanding`, `SameDrift`,
`SameGrade`).

### Only model-checked

* `SixDigitsAreWrittenAlike` and `CellsAreWrittenApart`, the hypotheses of the two
  theorems about digests, for the loads of the runs. Of all loads both are false, as
  section 5 has it.
* `EventuallyReady`, `EveryQueryGetsARow`, `CommandEnds` and `LoopReturns`:
  liveness under fairness, and ENABLED, are out of this prover's reach.

The induction theorems of the library take an operator as a parameter, which no
prover here can use. Where an induction was needed it is over a set instead: the
least natural number outside it has a predecessor inside (`UpTo` and
`LeastMember` for numbers, `OneByOne` for finite sets). No module declares a recursive
operator; `Digits` and `Tens` are recursive functions.

## 5. Where the code and what it says of itself differ

Three are runs of the project:

* `drivers_sums`. `answer.rs:203` casts the decimal exponent of a float to a
  `usize`, which makes zero of every negative one, and so keeps five places of
  every number below one whatever its size: 0.0001234 and 0.0001239 are both
  `0.00012`. `answer.rs:61` says a float is rendered to six significant digits.
  Two systems that differ there are recorded as agreeing.
* `store_died`. `insert_stream` renames first and compares afterwards. A
  process that dies in between leaves bytes under a name they do not hash to,
  and no later insert or fetch looks again. `store.rs:218-219` says a mismatch
  "never reaches a path that asserts its own content".
* `generate_stuck`. A generated file whose name is taken is not read, counts
  zero bytes and is refused for its size. A corpus that shares a file with a
  stored one can therefore not be completed, however often it is run;
  `docs/CORPORA.md` names two corpora that share files and says they store
  them once.

The modules end with further statements quoted from comments, each with a
configuration under which TLC shows a trace that contradicts it. They are kept
for whoever changes that code, and are not among the runs:

| Configuration | Statement | Trace |
|---|---|---|
| `MCCorpusStore_two` | `GoodObjectsStay` | two streams for one name, one wrong: the removal takes the right bytes away |
| `MCCorpusFetch_mistyped` | `RefusedLeavesNothing` | a right digest beside a wrong size: refused, and stored |
| `MCCorpusFetch_race` | `NobodyFails` | two honest fetches at once, one fails with a size of 0 |
| `MCCorpusFetch_wrong` | `FetchedIsWhatWasNamed` | one command's wrong body is another's stored file |
| `MCCorpusGenerate_shared` | `AbsentMeansUnwritten` | two commands empty one default scratch directory |
| | `TakesOnlyItsOwn` | a generator outlives its killed command (`Command::status` does not stop it), writes into the directory after the next one has emptied it, and its file is taken |
| | `AbsentIsAboutTheProgram` | a file that is there and is not opened is "absent" |
| `MCDrivers_directory` | `DirectoryStartsEmpty` | a second command prepares over the first one's database |
| `MCDrivers_shape` | `ShapesAreTold` | a result with no rows has no columns either, so any two empty answers are one, the null driver's among them |
| `MCClickbenchRun_overlap` | `ColumnsMeanWhatTheySay` | two commands at once share the page cache |
| `MCClickbenchRun_dropped` | `AnsweredOnceIsAnswered` | a third run that fails drops the two before it |
| | `ColdReadsTheDisk` | a system that loaded into a pool of its own is asked after the drop and reads its pool |
| | `HotReadsMemory` | the machine takes bytes back between two runs, and a hot one reads the disk |
| `MCClickbenchCheck_alone` | `AgreedMeansTwoSystems` | two records of one system agree |
| `MCClickbenchCheck_offline` | `DurationsAreRestricted` | with processors offline, an unrestricted run's list is not that of the online ones, and the `core-pinning` gate passes |
| | `DurationsHoldTheClock` | the first processor is on `performance`, another is not, and the gate passes |
| `MCReproduce_unfit` | `UnfitIsRefused` | an idle machine whose class permits nothing is measured |
| `MCReproduce_caveat` | `OverriddenIsSaid` | gates that fail only afterwards leave no caveat |
| `MCReproduce_point` | `ReproducedReadsTheInterval` | the point is inside the bar, the interval far outside |
| | `MeasuresTheScan` | a recorded scan that fails halfway is timed, its error dropped, and its ratio compared |

Where a configuration has several, TLC stops at whichever it meets first: take the
others out of it to see each.

`Stop::After` is documented with "Take exactly this many samples"
(`measure.rs:78`), `Stop::IntervalWidth` with "always stop at this many", and both
overshoot to a multiple of `check_every`; `OvershootIsBounded` says by how much
at most. `protocol.rs:203` says of a report's queries that they are "in the order
the workload publishes them", which a shuffled run's are not: `Schedule` has them
in the order they were run, and the record keeps `order` beside them. The
module comment of `phase.rs` says there is no path by which work could happen
untimed; the time of a call that fails is charged to nothing, and
`ChargedWithinSpent` is an inequality for that reason. Two more have no
run. `answer.rs:190-192` compares a float with 1e-4 and 1e15, the limits of
the plain notation, before it is rounded to the six digits that `answer.rs:18` and
`answer.rs:61` promise: 999999.99e9 and 1e15 have the same six and only the second
has an exponent, so two systems that differ only beyond the six
digits disagree there (`LimitsDivide` in `MCDrivers`, which TLC evaluates). And `manifest.rs:61` and `docs/CORPORA.md` say
that a manifest without a category is fetched, and the field has no default, so
such a file does not parse.

These bound what the passing runs may claim. `TakesNothingOld` and
`AbsentMeansUnwritten` are about commands with scratch directories of their
own, the first allows for a generator that outlived its process and the second
speaks of files that were missing. `ColumnsMeanWhatTheySay` is about commands one
after another, and excepts what a system's pool and a machine short of memory
make of the two columns. `VerdictIsTrue` and `PassedIsWithin` are about whole
scans, `GradedWasSteady` about the governor that is read, and
`PassedHonestEntriesHeld` about names whose servers are honest.

## 6. Left to others, and left out

* A chunk of zero bytes is let through by the command line and left to
  `iris_source`, whose source is not in this repository: what an empty range
  comes to there decides between an error and a scan that never ends.
  `SizesAssumption` has a positive chunk.
* How much of a corpus a system's pool holds, and which pages a machine short of
  memory takes back first, are left open: a pool has a query's bytes or not
  (`Pools`), and `Reclaim` takes any. Neither shows in a record.
* `core-pinning` compares two texts (`policy.rs:175-178`), so on a machine of one
  processor `0` beside `0-0` passes for a restriction; the theorems about grading
  speak of restriction only where more than one processor is online.
* The machine's other load after the gates is visible to `ResidentRatio` and
  not to `ClickbenchRun`, where nothing in the record could show it.

## 7. Plan

The order so far: the store and its promise first, since every corpus rests on
it, then the two commands over it, the session and the run, the comparison and
the claims, the machine, the check and the loop; then manifests, answers, the
drivers and the calibration; and proofs beside each once TLC had agreed.

What is left, in the order of what it would add:

1. `ClickbenchRun` over `Drivers` instead of `DriverSession`, with records that
   carry digests into `ClickbenchCheck`.
2. The rounds of `noise`, and the notices a page must carry.
