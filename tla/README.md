# Specifications of the MPI sanitizer

TLA+ models of the LLVM-based MPI sanitizer of this repository, the TLC
configurations that check them on small instances, and TLAPS proofs of what
holds for every size. Paths below are relative to the root of the repository;
line numbers are those of the sources the models were written from, and
`PROJECT.json` maps every definition to its lines.

## 1. The system

| Part | State | Operations | Specified in |
| --- | --- | --- | --- |
| Instrumentation pass (`passes/MPISanitizePass.cpp`) | the instruction list it edits, the iterator | one visit per instruction: insert a hook before, after, or not at all | `InstrumentPass` |
| Runtime hooks (`runtime/runtime.c`) | per rank: `g_events`, `g_seq`, `g_rank`, `g_inited`, the error handler of `MPI_COMM_WORLD` | `__msan_init`, `__msan_before_send`, `__msan_after_recv`, `__msan_before_collective`, `__msan_finalize` | `Runtime` |
| Gather in `__msan_finalize` (runtime.c 166-212) | counts, byte displacements, the gathered array on rank 0 | `PMPI_Gather`, the layout loop, `PMPI_Gatherv`, release | `Runtime`, `GatherLayout` |
| Analysis (`runtime/detector.c`, `msan_analyze_events`) | the array, `used`, one counter per kind of defect | step 1 matching and latencies, size statistics, 2 unmatched sends, 2b replays, 2c stalls, 3 overlaps, 4 collectives, 5 graph, 6 deadlocks, 7 summary and JSON | `Matcher`, `AnomalyCheck`, `ReplayCheck`, `StallCheck`, `OverlapCheck`, `CollectiveCheck`, `CommGraph`, `WaitGraph`, `Summary`; `Detector` for all of them |
| Report file (`mpi_report.json`) | absent, torn, or a whole report | written by the analysis, removed or kept by nobody else | `ReportFile` |
| Extension host (`extension.ts`, `reportStore.ts`, `dashboardPanel.ts`) | report path, watcher, debounce timer, reads under way, the report, the panel | `activate`, `setReportPath`, `scheduleLoad`, `loadReport`, build and analyse, open and close the dashboard | `ReportStore` |
| Language server (`server.ts`) | report path, watcher, debounce timer, `lastUris`, the published diagnostics | `onInitialize`, `scheduleRead`, `readAndPublish`, `clearAllDiagnostics` | `DiagServer` |
| CodeLens provider (`codelens.ts`) | none of its own | the lenses of a source file, from the store's report | `Editor` |
| Both readers together | | the client hands its path to the server | `Editor` |
| Test suite (`tests/`, `examples/`, `evaluation/`, `run_all_tests.sh`) | none | the MPI calls of each program, the tags its output must have | `TestPrograms` |
| Dashboard page, task construction, some samples | none of their own | | not modelled (section 9) |

**How they interact.** The pass rewrites a program so that the hooks run around its MPI
calls. Every rank appends events to its own vector; the ranks only meet in
`__msan_finalize`, whose two collective calls bring all events to rank 0. Rank 0
analyses the array, check after check, and the checks share the array and the marks
`used` that the matching leaves: the replay check looks at the sends that were matched,
the stall check and the deadlock detection at the events that were not. The analysis
writes `mpi_report.json`. Two independent processes of the editor, the extension host
and the language server, watch that file, and each debounces, reads and shows it by
itself, the one as CodeLens actions and a dashboard, the other as squiggles. The test
suite runs programs through all of the first half and looks for tags in what the
analysis prints.

**What is hard.**

- *Concurrency of the ranks*: programs interleave freely; sends may be buffered
  or wait; collectives synchronise only partly; a rank may finish before another
  has begun. Logs are written at each rank's own pace.
- *Reconstruction after the fact*: the analysis sees neither the messages nor
  the time order between ranks, only envelopes and the order within a rank. That
  it pairs a receive with the send whose message it got rests on MPI's
  non-overtaking rule and on how the receive was logged.
- *Order in place*: the matching marks the array that it scans, the replay check
  sets marks that hide events from its own two loops, the closure updates the
  matrix that it reads, and the pass inserts into the list that it iterates.
- *Failure*: messages damaged or of the wrong size, MPI errors that abort or do
  not, programs that never get to `MPI_Finalize`, jobs that die while the report
  is being written.
- *Asynchrony of the editor*: reads that overlap, a file that is truncated when
  it is read, a path that changes with a read under way, timers re-armed, a file
  that does not exist yet.

**What makes each part correct.** The gather: the array is the logs, each whole
and in order, one rank after another. The matching: pairs of one envelope, in
order, each event at most once, nothing left that could be paired, counters that
agree with the pairs. The replay check: each repeat of a send is counted once.
The collective check: every rank's events are found, and a call is flagged
exactly when it differs from its reference. The deadlock detection: exactly the
ranks on cycles of waits are reported. The size statistics: the sends that are
flagged are the outliers, wherever rounding leaves the variance, and equal sizes never
are. The stall check: no receive that found its send is a stall. The overlap
check: exactly the neighbouring calls whose buffers share memory are counted. The
graph: one edge for each pair of ranks that sends connect. All checks together:
they are silent for exactly the exchanges that are clean. Runtime and analysis
together: what is paired, unmatched, damaged and late is what MPI delivered, and
every test of the suite gets the verdict that its runner expects. The store and
the server: once nothing is due, what is shown is what the file holds, and both
show the same. The pass: the program is unchanged but for one hook beside each
call, with the operands that the hook's prototype names.

## 2. Modules

| Module | Content |
| --- | --- |
| `Events` | `MsanEvent` (detector.h 20-36) with the fields that the checks compare, `ev_key_equal`; `num_ranks` |
| `EventArray` | the argument and the marks that the checks share, `all` and `used`; `Arrays`, what a gather may deliver: every sequence of events of ranks in which the events of a rank stand together and are numbered without gaps |
| `FifoPairing` | abstract: the order-independent pairing that MPI's rules determine |
| `Matcher` | steps 1 and 2: one action per iteration of the outer loops; implements `FifoPairing` |
| `Doubles` | the arithmetic of C's doubles: sums, products, quotients and roots, rounded to nearest |
| `AnomalyCheck` | the size statistics in doubles: one action per event summed, one for the mean and the deviation, one for the comparison |
| `StallCheck`, `OverlapCheck` | step 2c, step 3: one action each |
| `ReplayCheck` | step 2b: one action per iteration of the outer loop |
| `CollectiveCheck` | step 4, `check_collectives`: scan, count, compare |
| `CommGraph` | step 5: one action per event, the matrix as the set of its cells that are set |
| `WaitGraph` | step 6: edges, in-place closure (one action per iteration of the innermost loop), report |
| `Summary` | step 7: the total and the JSON report |
| `Detector` | all of them on one array, each beginning when the one before it has ended |
| `GatherLayout` | the loop of `__msan_finalize` that computes displacements in ints that wrap |
| `Runtime` | ranks, hooks and MPI: program steps, hooks, the gather |
| `MsanSystem` | `Runtime` with the whole of `Detector` on the gathered array |
| `TestPrograms` | the calls of the programs of the test suite, and the verdicts that `run_all_tests.sh` expects |
| `ReportFile` | the report files, the jobs that write them, what `fs.watch` and `readFile` see of them |
| `ReportStore`, `DiagServer` | the two readers |
| `Editor` | both on the same files, and the lenses |
| `InstrumentPass` | the pass on one function |
| `MC*` | the small instances: arrays, programs, calls, functions, reports |
| `*Proofs` | theorems and proofs: `MatcherProofs`; `WaitGraphProofs`; `CheckProofs` for the other checks; `DetectorProofs` for all of them on one array; `RuntimeProofs` for the layout, the logs and the gather; `SystemProofs` for messages and what the analysis makes of them; `EditorProofs` for the two readers; `InstrumentProofs` for the pass |

Correspondence, in short:

- **Arrays.** Positions count from 1, the code's indices from 0. `used` and `reported`
  are Boolean sequences; `adj` is the set of pairs whose entry is not 0. Searches of
  inner loops are sets with a first or n-th element (`Candidates`/`FirstCandidate`,
  `Duplicates`, `NthCollective`); the outer loops are actions. The history variables
  `partner`, `flagged`, `deadlocked`, `base`, `stalled`, `exact_total` and `delivered`
  are only written, never read, by the actions.
- **`Matcher`**: `Analyze` is the entry; `SkipEvent`, `MatchRecv`,
  `UnmatchedRecv` the three ways through an iteration of loop 1; `Compare` the
  type, size and checksum comparison; `ReportSend` loop 2. `total_lat` and
  `lat_count` are the sum and the number of the latencies.
- **`AnomalyCheck`**: `AddSize` is an iteration of the loop that sums, `EndSum` the
  mean and the deviation, `FlagSizes` the loop that compares. Numbers are the doubles
  of `Doubles`, a significand and an exponent, and every operation rounds where the
  code's does, so that the variance (`Var`) can cancel to anything, or below 0, as
  detector.c:327 lets it. The constant `Exact` is 2^53 in C; the proofs hold for every
  precision, the runs have a smaller one.
- **The checks of one pass** (`StallCheck`, `OverlapCheck`): each
  is one action, since no other process can see rank 0 between its iterations and
  nothing they read changes.
- **`CommGraph`**: cells of the matrix are flat indices, as in the code. A
  destination below 0 (`MPI_PROC_NULL`) names a cell of another row or none of the
  matrix; what is read before the matrix may be anything.
- **`Summary`**: the report is written, or its file cannot be opened.
- **`Runtime`**: `pc[r]` says where a rank is. A send hook and the entry into `MPI_Send`
  are one action (nothing of another rank can come between that anyone could see); a
  receive is logged in a step after `MPI_Recv` has returned. `InitIfNeeded` is called
  from every hook, as in the code. An error of MPI returns where the hook has set
  `MPI_ERRORS_RETURN`, which it does for `MPI_COMM_WORLD` only (runtime.c:36); anywhere
  else it is fatal (`RecvAborts`), and a fatal error ends the job: MPI stops every other
  rank (`Stopped`), also those that have run a hook. `now` is the clock that
  `PMPI_Wtime` reads; it ticks at any time. `prog` names the program that is run, an
  entry of the constant `Programs`: for each rank and each place in it the calls that
  may be made there, whether messages may be damaged, how often the clock ticks, and
  whether the file that calls `MPI_Init` is instrumented. `Damaged` is the message with
  another content. `Checksum` is an injective function (for messages below `HashLimit`
  bytes) of the content, the length of the message and the capacity of the buffer,
  because the hook hashes the whole buffer (runtime.c 121-122), and 0 for a buffer that
  is empty or NULL (runtime.c:91).
- **`ReportStore`, `DiagServer`**: the statements between two `await`s are one
  action, since Node runs a callback to its end. A timer, a `readFile` and the
  continuation after it are separate actions; `reads` holds the calls under way.
  The listener that `onDidUpdate` runs is part of `LoadReport`. `setReportPath` returns
  early when neither the path nor the root has changed; `root` is the root in which the
  store resolves the relative names of a report's entries, and `PathsIn[r]` what the
  setting may resolve to in root `r`.
- **`ReportFile`**: `fopen(..., "w")` and `fclose` are two changes of the file,
  between which it is torn; the job can die in either state.
- **`TestPrograms`**: each program is written down as its calls with their
  buffers, counts, types, ranks and tags; variables of a rank have addresses that
  are far apart, elements of an array neighbouring ones. `Tags` are the tags of the
  analysis's output that `run_all_tests.sh` greps for.
- **`Editor`**: `Lenses` is the provider's answer, a function of the store's
  report and root; a report stands, in each root, for the set of source files it has
  entries for. The server resolves them in the root of the workspace.
- **`InstrumentPass`**: an inserted hook is one instruction with the operands of
  the call that it is passed; an invoke ends its
  block, so the hook after it goes where the code puts it, before the terminator, which
  is the invoke.

**External parts** are modelled from how the code uses them: MPI (envelope matching,
non-overtaking order, buffered and synchronous sends, which ranks a collective waits
for, error handlers and the abort of a job), doubles, `fs.watch` (reports changes of an
existing file, may merge several into one event, throws when the file does not exist)
and the file system.

## 3. Abstract specifications

`FifoPairing` states what the matching promises without a loop: in every
envelope the earliest free send and the earliest free receive may be paired, in
any order across envelopes, and it ends only when nothing can be paired. The
refinement mapping of `Matcher` takes the pairs from `partner` and both phases of
the loops to "pairing"; `ImplementsPairing` is checked by TLC and proved.

`ASpec`, `RSpec`, `TSpec`, `OSpec`, `CSpec`, `GSpec`, `WSpec` (and `MSpec`) let a
check run alone, in surroundings
that may change the array and the marks until it begins (`Prepare`). `Detector`
implements each of them, which is proved (`DetectorMatches`, `DetectorChecks`), and so
does the analysis inside `MsanSystem`, where the array is not any array but what
the ranks have logged (`SystemAnalyses`). In the same way `Editor` implements the
specification of `ReportStore` (`EditorStore`).

## 4. Runs

Passing:

| Run | Instance | What it shows |
| --- | --- | --- |
| `detector` | three ranks, some 7000 arrays in seven families, 919000 states | `Detector` on arrays that exercise each check: `PairsAreFifo`, `NothingPairableLeft`, `CountsAgree`, `ImplementsPairing`; `AnomaliesAreOutliers`, `EqualSizesAreUsual`; `ReplayCountIsRepeats`; `OverlapsAreNeighbours`; `SegmentsExact`, `VerdictExact`; `GraphIsTopology`; `ClosureIsExact`, `ReportedAreOnCycles`; and of all together `SilentIffClean` |
| `system_pair` | two ranks: four families of small programs and the eleven tests of two ranks, 198000 states | `PairsAreDeliveries`: the matching pairs each logged receive with the send whose message it got; `UnmatchedIsUndelivered`, `IntegrityIsDamageOrMisfit`, `LatencyIsTransit`, `StallsAreUnresolved`, `NoAbort`, `SuiteVerdicts`; and the liveness properties `ReportEventually` and `TestsReport` |
| `system_ranks` | four ranks: senders and collectives, and the five tests of four ranks, 314000 states | `GatheredIsTheLogs`, `BlocksTile`, `SilentIffCleanRun`: the report is silent for exactly the runs in which MPI delivered every message as it should, `SuiteVerdicts` |
| `store` | two project roots with a path each, or with one path for both, three jobs, one read at a time, 192000 states | `SettledIsCurrent`, `PanelIsCurrent`, and the liveness property `WrittenIsShown` |
| `editor` | both readers, two roots and paths, two source files, two jobs, 658000 states | `SquigglesAreOneReport` at all times, `SquigglesAreCurrent`, `ViewsAgree` |
| `instrument` | all functions of up to three calls of twelve kinds, or of no interest, and a return | `ProgramIsKept`, `HooksAreInPlace` with the operands of every hook |

Most runs also check the type invariant of their module. Every property has a
mutant: a plausible mistake in a definition of the model (an operator
commented "mutated form") under which TLC finds the property violated.

The system runs go from `MPI_Init` of every rank to the report, through every
interleaving of the ranks, and with every choice that MPI has to buffer a
message. `SuiteVerdicts` therefore says more than a run of the test suite does:
no schedule makes a correct program raise one of the nine tags, and none hides
the defect of a buggy one.

Violations (what a document says and the code does not do):

| Run | Claim | What happens |
| --- | --- | --- |
| `system_deadlock` | docs/runtime.md:84, a cycle of waits "is reported" | receives are logged after they return and the analysis runs in `MPI_Finalize`, so ranks that block for ever, as in the sample `mpi_deadlock.c`, are never analysed. (What step 6 can report are cycles of calls that did return and found no partner in the logs, as in `tests/deadlock.c`.) |
| `system_split` | README.md:31, "compares matching communication operations" | an event names its own rank in `MPI_COMM_WORLD` (runtime.c:112) and its peer in the call's communicator (:113); on a communicator with other numbers a delivered message is unmatched on both sides |
| `collectives_missed` | docs/runtime.md:49, "Validates that all ranks participate in the same collective sequence" | the reference is the first rank that has an n-th call (detector.c:130), and ranks before it are not looked at again |
| `store_overlap` | README.md:107, the command "reads the generated report back into the editor" | a timer may fire while a read is under way (reportStore.ts:107); the read that resolves last wins, so an older content can replace a newer one, for good |
| `editor_written` | README.md:7, the extension "surfaces diagnostics directly inside the editor through squiggles, CodeLens actions, and a dashboard panel" | every report that the runtime writes ends with `"errors": []` (detector.c:232), whatever its summary counts, and squiggles and warning lenses are made of that list alone. Only the dashboard shows the counters |
| `instrument_invoke` | MPISanitizePass.cpp:160, "insert right after the call" | a call ends its block exactly when it is an invoke; the terminator that line 161 inserts before is then the invoke itself, so the hook of a receive runs before the receive and logs a status and a buffer that MPI has not filled |

The passing `editor` run gives its reports entries, as another writer of
`mpi_report.json` could: what it shows of the readers does not depend on the
runtime's empty list.

Other disagreements, found by reading and visible in the models, without a run:

- docs/runtime.md:69 calls a checksum mismatch corruption "during transit"; a
  message shorter than the receive buffer mismatches too, because the receiver
  hashes the buffer's capacity (runtime.c:122). `IntegrityIsDamageOrMisfit`
  states what is true.
- docs/runtime.md:35 says wildcards are resolved from the status; with
  `MPI_STATUS_IGNORE` (runtime.c:145) they are not, and both halves of the
  exchange are unmatched. `UnmatchedIsUndelivered` states how many there are.
- detector.c:391 says that the stall check is for "every unmatched recv" that
  waited too long; a receive is logged when it has returned, so only wildcard
  receives without a status can be called stalls (`StallsAreUnresolved`), and of
  those none in fact waits.
- detector.c:327 subtracts two rounded numbers of nearly equal size when messages are
  large and hardly differ: in doubles, 200 sends of 804099631 bytes of which the first
  122 have 100 more are all "unusual". `AnomaliesAreOutliers` excludes such arrays, and
  `EqualSizesAreUsual` says that sends of one size are never flagged.
- docs/runtime.md:81 speaks of the ranks "in a communicator"; ranks outside of
  it are reported as missing the call (detector.c:136).
- reportStore.ts:87 says that reloads go on when the file does not exist yet;
  after one read nothing is scheduled until the path changes.
- README.md:121 says the report is shown as squiggles and as a dashboard; after
  a run in another project root the store follows (extension.ts:147), the
  language server and the root of the lenses' partner paths (codelens.ts:50) do
  not. `ViewsAgree` has the condition that the paths and the roots agree.
- run_all_tests.sh:127 says of several tags that "any one match = pass"; the code
  asks for all of them (line 190), and `SuiteVerdicts` with it. Under
  `set -e` (line 12) a failing compiler ends the script before the branches for
  a failed build (lines 146-160) are reached.
- Step 3 flags neighbouring calls that use one buffer one after the other, which
  blocking calls may do: the ping-pong in one variable of
  `samples/mpi_correct_pingpong.c` raises `overlap-warning`, although
  samples/README.md:3 calls it a "correct send/recv pair". The tests use different
  variables where `SuiteVerdicts` needs them to.

## 5. Bounds, and why they are enough

- **Arrays** (`MCDetector`, where `Inputs` are the arrays that arrive; TLC evaluates
  that all of them are in `Arrays`): three ranks, because a cycle of three and an
  intermediate rank in a chain need three. *Matching*: up to three events of
  rank 0 and two of rank 1 over shapes that differ in tag, size, type and content, with
  an unresolved wildcard and a collective; two events of one envelope on both
  sides, with a third between them, are the smallest case where order matters.
  *Waits*: all 512 graphs on three ranks, self-loops included. *Replays*: up to
  four sends over four shapes, one of them empty, with all numbers of receives
  that match some; three equal sends are the smallest case where marks hide one.
  *Collectives*: all programs of up to two calls of each rank over four calls on
  two communicators that MPI does not leave waiting. *Sizes*: up to thirteen
  sends with at most two of another size; eleven are needed for the first
  outlier. `Exact` is 2^12 instead of 2^53, so that squares of sizes of two digits are
  rounded, and some pairs of sizes differ so little that the rounding decides which
  sends are flagged. *Buffers*: all sequences of three of six buffers that touch, overlap,
  contain each other, are empty or absent. *Destinations*: sends to -1 among
  others. Every family runs through all checks. `GraphRanks` is the side of the
  graph's matrix, 1024 in the code and 3 here, so that every rank has a row and a
  cell of the wrong row is one of another rank. `MSAN_TIMEOUT_THRESHOLD` is one
  tick.
- **`GatherLayout`**: in `system_ranks` the layout runs on every log of its programs,
  with the size of the C structure; their bytes never come to `IntMax`, which is the
  precondition of `BlocksTile`. The wrap is modelled (`ToInt`), and the proof covers
  every width and every number of events.
- **Programs** (`MCSystem`): each family has its own bounds, in its entry of
  `Programs`: the calls of each rank before `MPI_Finalize` (three in
  `exchanges`, two or three elsewhere), `faults` damaged messages (one in
  `faulty`), `ticks` of the clock (two in `delays` and `unasked`, one more than the
  threshold), and `init_hooks`. Two messages in flight and two receives are enough
  for reordering; three calls allow a receive between.
- **Tests** (`TestPrograms`): as they are, but for two constants:
  `NUM_ITERATIONS` of the evaluation is 2 instead of 10, so that an iteration has
  a predecessor, and `HUGE_COUNT` of the large message is 100 ints, which are an
  outlier among 20 single ones as its 1000000 are. The runner starts some tests
  on two ranks and others on four, and so do the two runs.
- **Editor**: `MaxRuns` jobs (a third run distinguishes "newest" from "not the
  first"; `editor` has two, and a file that may be left from before), two roots and
  paths (in the second root the setting may be relative to it or name the file of the
  first), two source files, and `MaxReads` reads under way. With `MaxReads = 1` the runs
  assume that a read takes less than the debounce time; `store_overlap` drops that
  assumption and shows what it hides.
- **Pass**: three calls and a return; a hook inserted before and one inserted
  after can both have a call on either side.

`CHECK_DEADLOCK FALSE` stands where the system ends: the analysis, the loop and
the pass finish, and a job ends or its ranks wait for each other for ever.

## 6. Fairness

`MsanSystem`: one weak fairness condition on everything but the faults and the
clock: as long as a rank can go on, MPI can move data, or rank 0 has analysis
left, some of it goes on. No fairness between ranks is needed, since calls are
bounded and no rank can go on for ever: each reaches `MPI_Finalize` or blocks.
It assumes nothing about the order in which MPI or the machine serves the ranks.
`RankStep` of a rank with calls left may go on with any of them, so no program
is forced to a particular call. `ReportEventually` has the premise that all
ranks have entered `__msan_finalize`; `TestsReport` has none but the name of the
test, and leaves out the three (`NeedBuffers`) that come to a report only if MPI
buffers a message.

`ReportStore`: weak fairness of the watcher's callback, the timer and the reads,
which is what the event loop of Node gives. Users, jobs and panels are not fair.

## 7. Proofs

The theorems hold for every number of ranks, every program, every array that a
gather may deliver, every function, and any number of report paths and jobs. They
rest on assumptions about constants, which TLC evaluates in the runs:

- `RanksAssumption`: there is at least one rank. `LayoutAssumption`: an event has a
  size, an int has a limit. `GraphAssumption`: the graph's matrix has a side.
  `ThresholdAssumption`: the timeout is a number of ticks. `ExactAssumption`: the
  precision of a double is a power of 2, of at most 53 bits.
- `RuntimeAssumption`: the programs are MPI programs whose arguments are correct (a
  partner is a rank of the communicator, a tag is not negative), and two
  communicators of one rank differ in their handles.
- `StoreAssumption`, `EditorAssumption`: the root and the path at activation are such,
  reads and jobs are numbers. `FunctionsAssumption`: a function is a list of
  instructions, none of which calls a hook already.

Four more are hypotheses of theorems about `MsanSystem` where they are needed, and
evaluated by `MCSystem`: `LogsFit`, that the events of a program fit an int in bytes
(without it the displacements wrap, which is `GatherLayout`'s subject); `OnWorld`, that
messages are sent on communicators that number the ranks as `MPI_COMM_WORLD` does
(without it the pairing is wrong, which `system_split` shows); `ReceivesOnWorld`, that
messages are received on `MPI_COMM_WORLD`, for `NoRankAborts` alone (on another
communicator an error stays fatal); and `HashesDiffer`, that messages are shorter than
the numbers that stand for hashes tell apart, and buffers are not at NULL (without it
`Checksum` would not be injective: two contents could have one checksum, as with a hash
that collides).

| Module | Theorems | Argument |
| --- | --- | --- |
| `MatcherProofs` | `MatcherTypeCorrect`, `PairingInvariant`, `PairsKeyed`, `PairsFifo`, `NothingLeft`, `CountsAreExact`, `Refinement` | `PairsAreFifo` is not inductive: it does not say why the first candidate is the right one. `PairingInv` adds which events are used and by whom (`Marks`), and that of every receive before the loop index that is unmatched, no free send has the envelope (`NothingLeftBehind`). `CountInv` relates each counter to the set of events passed so far. The refinement proves that each step is a step of `FifoPairing` or a stutter. |
| `WaitGraphProofs` | `WaitTypeCorrect`, `WaitInvariant`, `ClosureExact`, `ReportedOnCycles` | The matrix is read while it is updated; with `base`, the matrix when the round began, it always holds `base` and the pairs already visited that `base` joins through the round's rank (`ThroughBase`: reading the updated matrix gives what reading `base` would). A full round makes it transitive through one more rank (`RoundIsTransitive`) and adds nothing that a transitive relation could do without (`RoundIsBetween`). The report: a rank is reported if the closed matrix has it on its diagonal; a chain of waits from a rank to itself is in every transitive relation with the waits (`WalkIsJoined`), and the pairs joined by chains are such a relation (`WalkPairsTransitive`), so that the diagonal is exactly the cycles. |
| `CheckProofs` | `CollectiveTypeCorrect`, `CollectiveInvariant`, `SegmentsCorrect`, `VerdictIsExact`; `ReplayTypeCorrect`, `ReplayInvariant`, `CountIsRepeats`; `AnomalyTypeCorrect`, `EqualSizesUsual`, `StallTypeCorrect`, `OverlapsExact`; `GraphTypeCorrect`, `GraphInvariant`, `GraphExact` | Collectives: while the scan runs, each rank's segment is the set of its events passed; a change of rank is the first event of the new one because the events of a rank stand together. While the comparison runs, what is flagged is exactly what differs among the calls already looked at, and the reference is the n-th call of the first rank that has one. Replays: before index n the marked sends are those in a class with at least two members, one of them before n, and the count is the number of sends that repeat one before n. Equal sizes: while the sum runs it is the number of sends so far times their size (`UsualInv`), which stays a double, so no addition rounds; the mean is then exact and every distance from it 0, whatever the rounding has made of the variance. Overlaps: in a gathered array two events of one rank whose numbers differ by one are neighbours, so the pairs that are counted are in one-to-one correspondence with the first of each; two half-open ranges meet exactly when they share a byte or one is empty and strictly inside the other. Graph: a cell of the flat matrix names one pair of ranks as long as both are below its side, so that a cell is set exactly when an edge of its pair has been drawn. |
| `DetectorProofs` | `DetectorMatches`, `DetectorTurns`, `DetectorChecks`, `DetectorEnds`, `DetectorTypeCorrect`, `DetectorCorrect`, `DetectorImplementsPairing`; `ReportIsCounters`, `CleanIsSilent` | The checks take their turns (`TurnInv`), so that a step of the matching is the array arriving to the others, and everything proved of the parts holds of the whole. What the report counts is what the checks counted (`ReportTells`). Silence: a pair is a receive and the send whose turn in the envelope is the same, so all receives and sends are paired with equal payloads exactly if each envelope was exchanged in order; no call is flagged exactly if every rank's n-th call is that of rank 0; and where nothing is unmatched nothing waits or stalls. |
| `RuntimeProofs` | `LayoutTypeCorrect`, `LayoutTiles`; `JobTypeCorrect`, `LogsAreWhole`, `NoRankAborts`, `LayoutIsRight`, `SystemInvariant`, `GatherCorrect`; `SystemAnalyses`, `SystemTypeCorrect`, `SystemReportsCorrect` | As long as the exact sum fits, no result wraps (`ToIntFits`), and the blocks placed so far tile a prefix. For the system, the invariant `SysInv` has five parts: types (`JobTypes`); the call that a rank is inside of is one its program has at that place (`CallsInHand`); each log is numbered from 1 by `g_seq` and names its rank, and has no more events than the program has places (`RankLogs`); what rank 0 knows of the counts is the logs' lengths, for every rank that has entered the gather, and the displacements tile (`RootInv`); the array is the logs, joined (`GatherInv`). The array is therefore one that `Detector` may be given, and all its theorems hold in the system. Errors: a rank past `MPI_Init` has run a hook unless the file that calls it is not instrumented, and a rank that has run one has set `MPI_ERRORS_RETURN` on the communicator it receives on (`AbortInv`). |
| `SystemProofs` | `MessagesAreLogged`, `SystemLinks`, `PairsAreTheDeliveries`, `StallsAreOfUnresolved`, `UnmatchedAreUndelivered`; `ContentsAreLogged`, `IntegrityIsOfDamagedAndMisfits`, `LatenciesAreTransits`, `SizesAreOfMisfits`; `CleanRunIsSilent`; `EventsStay` | The analysis sees no messages, so the invariant `MessageInv` ties them to the logs: a message in a channel, in a receiver's hands or delivered is the logged send with its number; channels are in the order of the log; no send is received twice; no later message of an envelope is received before an earlier one; and every logged send is on its way, in hand or delivered. It holds until a fatal error ends the job (`Collecting`), after which nothing is analysed. When the analysis begins, this becomes a statement about positions of the array (`Links`, `Transits`), which nothing changes any more. Both the deliveries and the pairs of the matching are first-in-first-out per envelope; the least receive that had another send in the one than in the other would contradict that (`NamedGetTheirs`). Unmatched events are counted by the one-to-one correspondence between receives and the sends they got. A second invariant (`ContentInv`) follows what a message carries: unless it was damaged, what the checksum of its send was computed of, the size of that send and its time. So the two events of a delivery have equal checksums exactly if the message was not damaged and filled the buffer, and they are as many ticks apart as it was on its way; pairs and deliveries correspond one to one, and with them what is counted of either (`AsManyDeliveries`, `AsManyTicks`). The silent report, end to end (`SilentIffCleanRun`): `SilentIffClean` speaks of the array, and each of its counters is 0 exactly if no delivery of the run has the flaw that it counts; what remains unmatched is 0 exactly if no message is undelivered and no receive leaves its source or tag open. The action property (`NothingIsLost`) follows from the first invariant: a rank hands its log to MPI before it frees it, and rank 0 has the array by then. |
| `EditorProofs` | `StoreTypeCorrect`, `PanelCurrent`, `StoreCurrentInOrder`, `StoreCurrent`; `EditorStore`, `EditorTypeCorrect`, `SquigglesOneReport`, `SquigglesCurrentInOrder`, `SquigglesCurrent`, `ViewsAgreeWhenSettled` | `SettledIsCurrent` is false for reads that overtake each other (`store_overlap`), so the hypothesis is that reads are answered in the order in which they began (`LoadsInOrder`, `AnswersInOrder`), however many are under way; that at most one is (`MaxReads = 1`, as in the runs) is a corollary. The invariant (`StoreInv`, `ServerInv`): the path is watched, and either something is still due (an event not yet seen, a timer, a read) or the last read, when it is answered, has what the file holds. The squiggles of all files are of one report without any hypothesis: `readAndPublish` clears what it published last and publishes anew in one step. |
| `InstrumentProofs` | `PassInvariant`, `PassTypeCorrect`, `PassKeepsProgram`, `PassPlacesHooks` | The pass inserts into the list that it walks over. Behind the iterator (`PassInv`) are the instructions passed, each call with its own hook, and before it the rest of the function, untouched; the iterator is just after the last instruction passed, or on the hook just inserted behind it, which the next step skips since a hook is no MPI call. |

Only model-checked, and why:

- `AnomaliesAreOutliers`: the bound of the rounding errors is arithmetic of products of
  variables, on which the prover's solver fails; what no rounding can spoil is proved
  (`EqualSizesUsual`);
- liveness (`ReportEventually`, `TestsReport`, `WrittenIsShown`), which is out of the
  prover's reach;
- `SuiteVerdicts`: a statement about the concrete programs of the test suite.

## 8. Abstractions

Source locations and the texts of reports and diagnostics are left out, and so are the
casts that the pass inserts to convert the operands of a hook, each of which keeps its
value, and the debug location it passes. A checksum collision is left out (`Checksum` is
injective below `HashLimit` bytes). Ranks have one thread and one common clock: clocks
of different machines that disagree would make latencies negative (the code drops them,
detector.c:286) and stalls of receives that did not wait. Time stamps are ticks and sums
of latencies exact; sums, mean and deviation of the sizes are doubles, whose exponents
have no bounds, as none is ever reached. An address and the end of a buffer do not wrap.
Failed allocations are left out: where `calloc` fails, the code skips the check
silently, or, for the matrix of the graph (detector.c:164), does not test it. Message
damage changes the content of a message in transit, once, never its length or envelope.

## 9. Not modelled, and why

- Test runner: the build, the link and `mpirun` of `run_all_tests.sh` are a
  sequential script around external tools. What it compares is modelled
  (`Suite`, `Errors`, `Tags`); that it ignores the exit status and the timeout of
  `mpirun` (line 113), so that a correct program that never reaches its report
  passes, is a hazard without a property.
- Dashboard page: rendering of one report. That the first message to a new panel
  is posted before the page can have installed its listener (dashboardPanel.ts:39,
  index.html:304) depends on the webview host.
- The path of a deadlock partner in the lenses, which is resolved against the
  root at activation (codelens.ts:13 and 50): the runtime writes no entry that
  has a partner.
- Task construction and path resolution (extension.ts 93-134, 182-296): string
  building without state; a launched task is an action of `ReportFile`.
- Remaining samples and programs: `mpi_type_mismatch.c`, `mpi_size_mismatch.cpp`
  and `mpi_correct_pingpong.c` repeat calls of the examples and tests with other
  buffers and tags, `mpi_collective_mismatch.c` brings stubs in place of MPI, in
  which every process is rank 0,
  `helloworld.c` and `mpi1.c` are not in the test suite, and `mypass.cpp` is an
  earlier pass that the build does not use.
- Threads of a rank, communicator handles that differ between ranks
  (`CommHandle` is a parameter; no run uses it), the event vector that cannot
  grow.

## 10. Plan

The order follows what the sanitizer's verdict rests on: first the analysis and its
proofs, then the ranks that feed it, then the editor that shows it. Done: the whole of
the analysis; the ranks with the whole of the analysis behind them, and the test suite
run through both; the editor with both readers; the pass; the proofs of section 7, from
the loops of the analysis to the messages that MPI delivered. Nothing of the plan is
left. Every safety property of a passing run is also proved for all values of the
constants, except `SuiteVerdicts`, which is about given programs, and
`AnomaliesAreOutliers`; the liveness properties stay with TLC. What a run does not check
but a theorem states (`LayoutTypeCorrect`, `SizesAreOfMisfits`, `EventsStay`) rests on
the same invariants as the properties that are checked.
