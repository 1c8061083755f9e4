# QuantVerify: TLA+ models, checks and proofs

QuantVerify captures market data from providers, stores the raw responses
immutably, judges their quality, derives series, computes causal trading
signals, runs them through a transparent reference engine and stores the
result with its provenance.  This directory models the parts of it whose
correctness depends on order, interleaving, failure or boundaries.

## 1. Inventory

Paths are relative to `src/quantverify`.

| Component | State it keeps | Operations | What is hard | What makes it correct |
|---|---|---|---|---|
| Capture store, `data/store.py` | a directory tree: content objects, manifests, mkstemp files | `write`, `load_verified` | several processes, any system call failing, kill, power loss, retries | acknowledged captures are durable, manifests never dangle, objects are whole and final, retries succeed |
| Run artifact store, `artifacts/store.py` | the same kind of tree, without directory syncs | `write_reference_result`, `inspect_reference_result` | the same | whole and final objects, no dangling manifest while the machine is up |
| Raw snapshot writer, `data/snapshots.py` | raw files and manifests, filled in place | `write_akshare_daily` | half-written files seen by others | manifests beside complete content, complete files final |
| Quality suite, `data/quality/*` | none (a function of its inputs) | `evaluate`, `verify_report` | eleven checks whose findings have ranges; eligibility of a sub-range | eligible ranges hold no blocking evidence; order of inputs is irrelevant; a report can be replayed |
| Raw capture and providers, `data/capture.py`, `data/providers/*` | none | `capture_daily`, `normalize_daily` | what a vendor answers in any order, with repetitions, gaps and missing cells, is normalized offline, later | the bars do not depend on the order of the rows; what is normalized the quality suite can judge |
| Bars and series contracts, `data/models.py`, `data/validation.py`, `core/models.py` | immutable values | validators, `compare`, `structurally_supports_consumed_schedule` | a comparison that depends on which source is primary; a schedule tested by its ends | what a release lets an experiment consume is eligible throughout |
| Resampler, `research/frequency/resample.py` | none | `resample`, `require_complete_period_bars` | incomplete periods, availability of a period bar | a period is complete only with every expected session; available only with its last constituent |
| Features, `features/*` | rolling state of a loop | SMA, RSI, Donchian, momentum | warm-up and off-by-one of windows | equal to their definition; never look past their index |
| Strategies, `strategies/*` | hysteresis, running availability | one target function each | late bars, state carried between sessions | a target is decided on data available before it takes effect |
| Reference engine, `engines/reference.py` | cash, quantity, target weight, trades | `run` | targets out of order, repeated or unchanged; costs | cash or quantity, never both; trades alternate and reconcile |
| Metrics, `metrics/*` | none | calculators v1, v2 | every operation is rounded before it is compared | no return, fall or fluctuation is lost; zero volatility is recognised |
| Implementation registry, `implementation_registry/*` | an immutable table; the files and distributions around it | `resolve_*`, `verify_all` | transitive and cyclic imports; files replaced during the walk | the pinned files are those that run; a refusal has a cause; the walk ends |
| Application contracts, identity, `application/contracts.py`, `core/identity.py` | immutable values | validators, ids | one number in many scales, one instant in many offsets | equal intent has equal ids, and only equal intent |
| Fixtures, config, ports | immutable values | lookups | – | – |

Interaction: providers produce a `RawCapture`; `CaptureStore.write` persists it
and `load_verified` replays it to the quality suite and to the offline
normalizer; normalized bars and a session schedule feed resampler and
strategies; targets feed the engine; `RunArtifactStore` persists the engine's
result.  The stores are the only shared mutable state: processes meet there,
in the file system, and nowhere else; the registry reads files that an
installer may replace.  There are no threads, callbacks or timers inside the
package.


## 2. Modules

| Module | Models | Extends / uses |
|---|---|---|
| `DurableFS` | a POSIX directory tree: what processes see, what has reached the disk, write-back and loss of power | – |
| `CaptureStore` | `data/store.py` | `DurableFS`, instantiates `ObservationLedger` |
| `RunArtifactStore` | `artifacts/store.py` | `DurableFS`, instantiates `ObservationLedger` |
| `ObservationLedger` | what both stores promise their callers (abstract) | – |
| `SnapshotWriter` | `data/snapshots.py` | – |
| `QualitySuite` | `data/quality/*` | – |
| `Fraction` | exact values for Decimals | – |
| `ReferenceEngine` | `engines/reference.py` | `Fraction` |
| `Features` | `features/*` | – |
| `Signals` | sessions, bars, targets: what strategies share | `Features` |
| `DailySignals` | `strategies/trend.py`, `rsi_pullback.py` (S1), `donchian.py` (S2) | `Signals` |
| `PeriodBars` | `research/frequency/resample.py`, `DerivedPeriodBar` | `Signals` |
| `PeriodSignals` | `strategies/weekly_dual_ma.py` (S3), `monthly_sma.py` (S4), `dual_momentum.py` (S5) | `PeriodBars` |
| `Providers` | `data/providers/*`, `NormalizedBar`, `data/validation.py` | `QualitySuite` |
| `Releases` | `SessionSchedule`, `EligibleInterval`, `DatasetReleaseRef` of `core/models.py` | `QualitySuite` |
| `Decimals` | arithmetic of a decimal context, rounded half even | `Fraction` |
| `Metrics` | `MetricInputV2` and `metrics/v2_calculator.py` | `Decimals` |
| `MeasuredRun` | an engine run handed to the metrics | `ReferenceEngine`, `Metrics` |
| `ImplementationRegistry` | `implementation_registry/*` | – |
| `CanonicalDecimals` | the four forms numbers take in hashed documents | – |
| `RunIdentity` | `FixtureRunSpec`, `PlanResult`, `ExperimentConfig` and their ids | `CanonicalDecimals` |
| `MCCaptureStore`, `MCSnapshotWriter`, `MCMetrics`, `MCRunIdentity` | one instance for TLC | the module they name |
| `WriterWorlds` | the run artifact store or the snapshot writer, for what one run promises of both | `RunArtifactStore`, instantiates `SnapshotWriter` |
| `SignalWorlds` | the period strategies or the daily ones, for what is promised of all | `PeriodSignals`, instantiates `DailySignals` |
| `QualityWorlds` | the suite over one provider's rows, over the life of a report, and over what the adapters normalize | `Providers`, `Releases`, instantiates `QualitySuite` |
| `RunPinWorlds` | the registry or the planned commands, for what a run is pinned by | `ImplementationRegistry`, instantiates `RunIdentity` |
| `MCWriters`, `MCSignals`, `MCQualitySuite`, `MCRunPins` | small instances of the worlds | `WriterWorlds`, `SignalWorlds`, `QualityWorlds`, `RunPinWorlds` |
| `MCReferenceEngine` | a small instance | `MeasuredRun` |
| `DurableFSProofs`, `CaptureStoreProofs`, `RunArtifactStoreProofs`, `SnapshotWriterProofs`, `RegistryProofs`, `QualitySuiteProofs`, `ReferenceEngineProofs`, `SignalProofs` | theorems | the module they name; `QualitySuiteProofs` all of `QualityWorlds`, `SignalProofs` of `SignalWorlds`, `RegistryProofs` of `RunPinWorlds`, `ReferenceEngineProofs` of `MeasuredRun` |

A definition whose comment begins with "Fault:" or "Mutant:" is a plausible bug
of the definition that follows it.  It is used by no specification; it exists so that
each property can be shown to fail when the code is wrong in that way.

### The stores

`DurableFS` keeps four variables.  `visible` is the set of entries processes
see, `durable` those that would survive a loss of power, `data` the bytes of a
file (`partial`, `whole`, or `foreign` for bytes the store did not write) and
`flushed` the files whose bytes are on disk.  An entry is safe (`Settled`) when
every directory entry on the way to it is durable: the fsync of a file says
nothing of its name.  The kernel may write an entry back at any time
(`Writeback`), and a loss of power keeps what is durable and reachable.

`CaptureStore` has a program counter `pc[w]` for each process inside `write`,
with the object it publishes in `stage[w]`, its mkstemp file in `temp[w]` and
the directory reached by `_fsync_directory_chain` in `cursor[w]`.  One action
is one system call with the bookkeeping around it:

| `pc` | code | actions |
|---|---|---|
| `idle` | `write` to line 372 | `BeginWrite`, `RejectWrite` |
| `setup` | mkdir, mkstemp (523–532) | `SetupDirectory`, `SetupTemp`, `SetupFails` |
| `stage` | write, flush, fsync of the file | `StageBytes`, `StageFails` |
| `link` | `os.link` | `Publish`, `MeetExisting`, `PublishFails` |
| `compare` | `_existing_regular_file_matches` | `AdoptExisting`, `CollisionRaised` |
| `sync` | `_fsync_directory_chain` | `SyncStep`, `SyncRoot`, `SyncFails` |
| `unlink`, `resync` | the cleanup block | `UnlinkTemp`, `ResyncStep`, `RaiseError`, `CleanupFails` |
| either | the end of a publication | `ContentDone`, `ReturnStored` |

`RunArtifactStore` has the same shape without the syncs; its write is artifact
first, run manifest second.  `SnapshotWriter` opens the canonical path itself
with mode `xb` and fills it in a second step.  `except Exception` in
`_write_immutable` does not catch KeyboardInterrupt; such an end of a call is
covered by `Kill`.

`Foreign` paths hold bytes the store did not write, which the code must refuse
to adopt.  The credential scan and the model validation before the first system
call are the constant `Admissible`.

### The quality suite

The state is a query `q` (range, adjustment, expected sessions, policy, sources
with their rows, revisions) that grows (`AddSource`, `AddBar`, `AddRevision`),
is normalized again (`Renormalize`) or restated, and a report made of it
(`Evaluate`) and replayed later (`VerifyReport`).  The eleven checks are the
operators `SchemaContract` … `AdjustmentSemantics`, `CheckResults` runs them in
the code's order, `EvaluateRange` decides eligibility.  Prices are integers or
NaN, basis points are compared by the code's formula without the division.
`TextRank` is the order of a row's text, by which the code chooses one row per
session for the cross-source checks.  A Python NaN differs from itself, so an
unchanged NaN field counts as a revision; the model keeps that.  `Reported` leaves
out that a finding whose days are in the wrong order raises (`ValidFinding`), for
`TypeOK` shows that no check makes one, although an inversion must name its days
against the order of its rows.

### The engine

`ReferenceEngine` is one call of `run`: `Refuse` or `Start` for the checks,
then one of `HoldBar`, `BuyBar`, `SellBar` per bar, then `Return`; a point that
`PortfolioPoint` rejects ends the call (`outcome = "invalid"`), as the
ValidationError does.  Money is a fraction in lowest terms.  `EquityCompounds`
computes the equity of a session from the bars and targets alone; `BooksBalance`
replays cash and quantity from what the trades report.

### Signals

The strategies are pure functions.  In `DailySignals` the state is the history
`bars`, which grows by a session at a time; in `PeriodSignals` it is the
histories of two assets and the `cutoff` at which periods are derived.  A
strategy returns targets, or raises (`Raised`).  `PeriodOf` gives each session
its natural week or month.

### Providers and releases

`Providers` puts the two adapters in front of the suite.  A vendor answers with
a capture (`Answers`), which `CaptureDaily` keeps as it is and `NormalizeDaily`
turns into the rows of a source, over the range of the query or over all days,
with the adapter's own captures or with another's.  The two adapters differ
where the code does: AkShare misses columns in every row and takes its range
out of the whole history, yfinance renames columns first and must answer within
the range.  The exchange calendar is one set of days (`OpenDays`).  `Compare` is
`CrossSourceValidator`, whose division is compared as a product.

`Releases` has no state of its own: `Issued` are the releases one can make of
up to two eligible reports of the query, `Requests` the schedules an experiment
may ask for, `Supports` the gate between them.

### Metrics

`Decimals` rounds each operation to `Precision` digits, half even, for fractions
as exact values; 34 digits are replaced by two, which makes ties and
lost digits frequent instead of rare; the proofs hold for every number of digits.
`MeasuredRun` hands each finished engine
run to `MetricInputV2.from_equity` and to the five metrics.

### Registry and identities

`ImplementationRegistry` is one call at a time of `resolve_strategy`,
`resolve_engine`, `resolve_versions` or `verify_all`: `Ask` and `Check` read the
installed versions, `Open` starts a walk, `Visit` reads one file, `Compare` ends
it; `Edit` and `Upgrade` change the installation in between.  A path is a
sequence of names, a source the set of its import statements.  The properties
do not use the walk's own operators: `Loaded` is what Python's import statement
runs (`Runs`, `Loads`).

`RunIdentity` plans two commands and compares their ids, a hash being its
preimage.  `CanonicalDecimals` has the forms of a number in `core/identity.py`,
`application/contracts.py`, `data/quality/identity.py` and
`metrics/v2_identity.py`, the last of them read back as well.

## 3. What the runs check

| Run | Bounds | States | What it shows |
|---|---|---|---|
| `store_states` | 2 processes, 3 calls, 2 observations of one content, a 3-level tree, 1 failing call, 1 crash (kill or power), 1 reader | 820 000 | acknowledged captures survive (`AckedIsDurable`); no manifest without its content, on disk either (`NeverDangling`); whole objects (`NeverTorn`); a verified manifest replays (`ReplayResolves`); mkstemp files stay only after a kill or a failed cleanup (`NoSilentDebris`) |
| `store_promises` | 2 contents, one path held by foreign bytes, 1 inadmissible observation | 75 000 | nothing overwritten; the store implements `ObservationLedger`; `RetrySucceeds` under fairness |
| `store_fresh_root` | 1 process, root not there yet | – | finding 1 below |
| `writers` | artifacts: 2 processes, 2 calls, 1 failure, 1 kill, 1 power loss, a reader; snapshots: 4 calls, 2 contents, 2 modes, 1 failure, 1 kill | 157 000 | formal artifacts whole or absent, never replaced, the ledger while the machine stays up, mkstemp files accounted for; `SnapshotsAreKept`: snapshot manifests beside complete content, complete files final, an acknowledgement reads back |
| `snapshot_reuse` | 2 processes, one response | – | finding 2 |
| `quality_verdicts` | three worlds: 1 provider with every sequence of up to 4 rows of 7 kinds, 5 ranges (one inverted) and 3 calendars; 2 of 3 sources (one authority spelled twice) with a row each, revisions, reports, restated queries; 2 adapters over every answer of up to 3 (AkShare) and 2 (yfinance) rows of 5 and 6 kinds, foreign and outdated captures | 88 000 | the verdict is inherited by parts of a range, joined from adjacent ranges, independent of rows outside, never repaired by further rows, and sound; no finding has its days in the wrong order (`TypeOK`); a trusted report pins its inputs; adapters and suite agree on what is well-formed; both close comparisons agree; what a release admits is eligible throughout |
| `quality_repeated` | 1 provider, 2 rows | – | finding 3 |
| `engine_runs` | up to 4 sessions of 2 kinds, every plan of targets in both orders, 5 cost pairs, 2 metric policies, few digits | 135 000 | equity compounds, books balance, trades alternate; every finished run can be measured, no return is lost, and rounding hides neither the worst fall nor a fluctuation |
| `metrics_sharpe` | 3 equities, 2 digits | – | finding 4 |
| `signals` | daily world: 6 sessions of 3 kinds, one late bar; period world: 6 sessions in 5 periods, 2 assets, 3 kinds of days, one late bar, every cutoff, whole and truncated schedules | 33 000 | causality, no repainting, the definitions of SMA, S1 and S2; derived periods are final and tell gaps; S3, S4, S5 agree with the daily bars |
| `run_pins` | 6 files, 5 ways to import, cycles, 50 installations (right and wrong tables), 3 runtimes (1 not reviewed), 1 change during a call; pairs of commands out of 96 specs | 505 000 | what is verified is what runs; a refusal has a cause; walks end; equal spec ids mean equal science |
| `identity_experiments` | pairs of commands | – | finding 5 |

Several runs hold worlds that never meet (a variable `world` says which): the
modules are unrelated and each world is explored whole, so one run answers for
both.  Three properties gather named ones of the modules beneath: `SnapshotsAreKept`
those of `SnapshotWriter`, `SignalsMatchDailyBars` the two of `PeriodSignals`,
`TargetsAreCausal` those of the daily and the period strategies; likewise
`AcceptedRunsAreMeasured`, `RoundingHidesNothing`, `AdaptersSatisfySuite` and
`SpecIdIsScience`.  Each is documented where it is gathered.

Why the bounds are enough.  A hazard of the stores needs one process between
two of its steps, another meeting what it left, one failure or crash there, and
a third call that retries: two processes, three calls, one fault, one crash.
The deep tree has a directory that is neither root nor parent, so that a chain
of syncs has a middle.  Rows are compared pairwise and per day by the suite, so
four rows on three days hold two interacting pairs; the kinds hold one row for
every finding code a row can cause.  The engine's state after a bar is one of
two shapes, and four sessions hold a purchase, a holding, a sale and a second
purchase.  The windows of the strategies are shortened (`S1_SMA_WINDOW` 4 for
200, and so on); six sessions then hold an entry, a day held, an exit, and a
bar late enough to cross each boundary.  It was checked that each of these, and
every selection and completeness status of `PeriodSignals`, is reached.  A walk
meets a cycle as soon as a package imports its module; one change is enough to
put a file of one installation beside a file of another.

Symmetry is used where the definitions never choose between the permuted
values: processes, mkstemp names of one directory, observations that share
their content and (in `writers`) runs of one result, contents and modes.  It is used in no
run with a liveness property.

Deadlock is not checked: calls, bounds and histories end, and the systems may
stop there.

### Fairness

`store_promises` assumes weak fairness of each process inside `write`
(`Advance(w)`): a thread that is inside a system call or between two of them is
scheduled again.  Nothing is assumed of starting calls, of crashes, faults or
write-back.  `RetrySucceeds` speaks only of calls that start after the last
fault and crash of the bounds; it says that what earlier calls left never
blocks a retry.

`run_pins` assumes weak fairness of the steps of a call of the registry
(`CallStep`): it is a loop of one thread.  Nothing is assumed of edits and
upgrades, nor of the beginning of calls.  `CallsEnd` says that a walk then ends.

### Findings

1. `store_fresh_root`: when `mkdir(parents=True)` creates the store's root, the
   root's entry in its parent is never synced, for `_fsync_directory_chain`
   ends at the root.  A loss of power then takes every acknowledged capture.
2. `snapshot_reuse`: a second writer of the identical response meets the
   half-written file of the first and raises a content collision; after a kill,
   for ever.
3. `quality_repeated`: two equal defective rows give two findings of one
   identity, and `evaluate` raises instead of reporting.
4. `metrics_sharpe`: returns that are the same number have a rounded mean that
   is not, so volatility is tiny instead of zero and the Sharpe ratio is a huge
   number instead of undefined.  With the 34 digits of the code the equities
   9, 15, 25 do it.
5. `identity_experiments`: configs that are equal, but write a cost in another
   scale or an instant in another offset, have different experiment ids.

## 4. What is proved

TLAPS checks these for every value of the constants.  What the modules assume of
their constants is named and evaluated by TLC on every run: `TreeAssumption`,
`StoreAssumption` and `RunStoreAssumption` (paths form a tree, contents are not
manifests), `SnapshotAssumption`, `CatalogAssumption` and `SourceAssumption`
(the hand-written catalogue has the packages of its modules), `DomainAssumption`
and `InputAssumption` (queries are what the models' validators let through),
`RankAssumption` (the rows a caller supplies are ordered by their text),
`AnswerAssumption` and `NameAssumption` (a missing cell or column is no number;
adapters are providers), `WorldsAssumption`, `PlansAssumption`,
`DailyAssumption` and `ResponseAssumption` (the same of instantiated modules),
`EngineAssumption` (positive cash, rates in lowest terms, slippage below one),
`PrecisionAssumption` and `PoliciesAssumption` (one digit or more; a metric
policy has positive whole periods and a ddof that is not negative),
`PeriodsAssumption`, `PeriodSignalsAssumption` and `SignalsAssumption` (weeks and
months do not go back, bars are well-formed, windows are positive and ordered as
in the strategies).

A recurring matter is recursion.  A recursive function is a CHOOSE of a function
that satisfies its equations, so each proof about one first shows that such a
function exists, by a least counterexample over the initial segments of Nat
(`GroupsExist`, `RollsExist`, `EuclidExists` and so on, all of one form), and
then argues by the least index at which a claim would fail.  `IterationExists`,
`Iterated` and `RecursionExists` are the general form: the step of the recursion is a
function, not an operator, so that the lemma can be instantiated.

**Capture store** (`CaptureStoreProofs`; durability under the hypothesis
`RootPreexists`, without which finding 1 refutes it).  None of the
promises is inductive: that `ReturnStored` may acknowledge rests on what the
call has synced so far, that `Publish` is whole on what it staged, and that its
file is its own on every other call.  `IInv` adds to `TypeOK`
- `TreeInv`: facts of the tree (`FSInv`), foreign bytes settled, canonical
  objects complete, visible manifests with content intact, and
  `AckedIsDurable` itself;
- `OwnTemps`: two calls never hold one mkstemp file;
- `CallOK(w)`: what each `pc` guarantees, above all `Climbed(w)`: the entries on
  the way to the object are durable but for those of directories the cursor has
  still to sync.

`StepIInv` has a lemma for each action.  From `IInv` follow `TypeCorrect`,
`Durability`, `ContentFirst`, `AtomicPublication`, `NoOverwrite`,
`ReplayTheorem` and `Refinement` (every step is a step or a stutter of
`ObservationLedger`, `PublishRefines` being the one that matters).
`CleanCalls` needs a second invariant on where mkstemp files may be.

**Run artifact store** (`RunArtifactStoreProofs`).  The same shape with less to
stand on: nothing syncs a directory, so names can be lost and `LedgerHeld` (a
manifest stands beside its artifact, acknowledged runs are there) is guarded by
`losses = 0`, while `ObjectsComplete` (what has a name is complete and flushed)
survives a loss of power.  Hence `RunsAreNeverTorn` and
`RunsAreNeverOverwritten` hold always, `RunStoreKeepsLedger`,
`InspectionsResolve` and `RunDebrisIsKnown` as long as the machine stays up,
as their definitions say.  A reader's verdict needs `ReadInv`: what it has
verified stays.

**Snapshot writer** (`SnapshotWriterProofs`).  Files are filled in place, so the
invariant must say who fills: `OneFiller` (no two calls fill one path) and
`CallOK` (a call at `fill` has a partial file; one at its manifest has complete
content behind it).  `WholeKept` is the heart of `SnapshotsAreFinal`.
`SnapshotsTheorem` of `RunArtifactStoreProofs` restates both for the
composition that the run `writers` checks.

**Registry** (`RegistryProofs`).  `VerifiedPinsWhatRuns` compares a worklist
with a least closure.  `RunsInitializers` and `ReachedIsLoaded` show that what
the walk follows from one file is what Python's import runs.  `WalkInv` says
that the walk has found what it must (the sources of whatever it has read) and
nothing that it need not: every set that encloses what was read contains it.
When nothing is pending the two meet (`FinishedWalk`), whatever was edited
meanwhile.  `RefusalsHaveCauses` adds `SoundInv`: if the request is genuine, the
versions reviewed, the files intact and nothing changed, the walk stays within
the pinned files and reads what is pinned.

`SpecIdTheorem` is about the forms in which numbers are hashed.  The invariant
`PlansHold` says that a plan is that of its command; the rest is arithmetic.
Two decimals are one number if they are worth the same in the smaller of their
units.  `StrippedMeans` shows that dropping last zeros keeps the worth and ends at
digits that ten does not divide, so that equal worth means equal stripped
decimals (`SameMeans`); `WrittenOnce` that fixed and scientific notation
determine what they write; `FormsMeans` puts it together for each of the forms.

**Quality suite** (`QualitySuiteProofs`).  Most of these are theorems about the
function rather than about steps: they hold of every query of the type.
`EligibleMeans` and `IneligibleMeans` turn the verdict into findings, `SteadyDated`
and `FindingsSplit` date the findings of each check; `Silent` and `RowSilent`
turn the absence of a finding into a fact about a row.
- `TypeCorrect`: the steps keep the `Shape` of the state (`ShapeKept`); that every
  finding of an admissible query is valid is a fact about the checks, of the
  range (`RangeDated`) and of the rows (`SteadyDated`), put together by
  `FindingsValid`.
- `SoundTheorem`: `RowsIncrease` is not local, for checks compare neighbouring
  rows and the promise speaks of any two in range; the proof takes the least
  inversion.  `ProvidersCounted` goes from sources to authorities,
  `OrderedAgreement` from the chosen rows to all rows.
- `SubrangeTheorem`: `IntervalExists` finds the maximal run of missing sessions
  a missing day lies in, whose finding would have touched the range.
- `JoinTheorem`: the other way, a finding that touches the whole touches a part
  (`TouchesPart`), and a gap across the seam would show on one side.
- `FinalTheorem`: a blocking finding need not survive further rows, for another
  row may then be chosen for the session; but then the session is a duplicate,
  which blocks as well (`ConflictEchoes`, `DuplicateIsFound`, `Condemned`).
- `TrustTheorem`: the invariant is that the report is that of `made`.  The
  identity of a source determines it (`IdentityIsWhole`, `ContextPinsSources`).
- `OutsideTheorem`: what trimming keeps of a source is described by an embedding
  of the rows that keeps their order (`KeptEmbed`), and with it the sessions,
  the sessions with two rows and the row that stands for each (`TrimIsSame`;
  this is where `RankAssumption` is needed: the first of several rows exists).
  Each finding that decides then has its like in the other query
  (`MattersAlike`), both ways, so the verdicts are equal.
- `ReleasedIsEligible` (of `Releases`) rests on `SubrangeTheorem`: the interval
  that supports a schedule was reported eligible as a whole.
- `AdaptersTheorem` (of `Providers`): `InOrderSorts` and `AscendingUnique` show
  that rows sorted by distinct days are determined by their set, hence
  `NormalizePermuted` (the order of an answer does not matter) and
  `NormalizePart` (a part of a history normalizes to the part of the whole).
  That the suite always reports is `FetchedUnique`: on ascending, well-formed
  rows no check makes two findings of one identity, taken check by check.  The
  invariant `FetchHolds` says that the sources of the query are such rows.
- `ClosesTheorem`: `StatusMeans` says when the one comparison passes or fails a
  session, `CloseMeans` when the suite has a finding about it, both as an
  inequality between the closes of the rows that the session shows, and
  `OverlapMeans` that both miss the same days.

**Reference engine and metrics** (`ReferenceEngineProofs`).  First arithmetic: `Gcd`, by
Euclid's recursion, divides and reduces to the one fraction in lowest terms
(`RatioReduces`, `LowestTermsUnique`), so that equal values are equal fractions
and `Times`, `Plus`, `Minus`, `Over` keep the laws of arithmetic.  Then
`AccountInv`:
- `Typed` and `CallOK`: how many points and trades there are in each outcome;
- `FollowsTargets`: the account is all cash or all shares, as the targets
  asked, and is worth what the bars compounded so far;
- `Solvent`: it stays worth something unless a commission takes all;
- `TargetsMet`, `EquityCompounds`, `BooksBalance`: what is recorded agrees.

`HoldSettles`, `BuySettles` and `SellSettles` carry it over a bar.  From it
follow `TypeCorrect`, `EquityTheorem`, `BooksTheorem`, `AcceptedTheorem` (an
accepted call fails only on a commission of all proceeds or more) and
`TradeDiscipline`.

What the calculators make of a run is proved for every precision.  `ScaleFits`
shows that the recursion of `Scale` ends at the one scale that leaves Precision
digits; two values of different scales then round in order because a value
with more digits before the point rounds to no less than the power of ten
between them (`KeptDigits`, `RoundedUpOrder`).  So rounding keeps order and sign
(`RoundedOrder`, `RoundedIs`), which is all that is needed of it:
- `MeasuredTheorem`: `Chained` multiplies the exact returns back into the last
  equity; `PowerSide` (a power is on the side of one of what is raised) gives
  total return and CAGR one sign.
- `RoundingTheorem`: `WorstFall` carries through the loop that the running
  peak is the highest equity so far and the worst fall the deepest: a fall from
  a lower start is no deeper, rounded (`FallOrder`).  `WithheldIs` follows a
  zero volatility back through product, root, quotient and sum (`RootIs`,
  `TotalFacts`, `SquareIs`): none is zero unless its argument is, so each
  return equals the mean.  The returns meant are the rounded ones, as ADR-0013
  defines them; what rounding a return loses is not covered.
Both rest on `PointsSolvent` beside `AccountInv`: recorded equities are
positive, and the initial cash as long as there is no trade.

**Signals** (`SignalProofs`).
- Periods: `GroupsAreGrouped` and `GroupsGrow` say what `_group_sessions` makes
  of a calendar and of more of it.  `GapsTheorem` follows state by state; for
  `FinalTheorem`, `CompleteBarKept` compares two derivations: a complete bar has
  every session of its period, so it does not see what came after.
- S3 and S4: `PeriodTargetsPrompt` shows that no target is returned that was
  decided too late, `OffersDerived` that what is offered was derived, and
  `DeriveValid` that high and low of a derived bar enclose its open and close.
- Daily strategies: two calls whose histories agree up to a bar agree in every
  recursion up to it (`RollsAgree`, `WildersAgree`, `RoundsAgree`, `SmasAgree`).
  Hence `NoRepaint`.  For `NothingFromTheFuture` a bar in the middle is changed:
  if it arrived after the decision the decision did not depend on it
  (`RoundsKnow` bounds the availability of everything the state carries), but
  for the rolling sum, which is updated bar by bar from all before;
  `RollShift` shows that it holds nothing of a bar that has left the window.
- `CausalTheorem` and `NoRepaintTheorem` state both for `SignalWorlds`.
- `DefinitionTheorem`: a definition sums a window anew, with a recursive
  function of its own.  `RolledIsSum` shows that the rolling sum is that sum,
  `WilderIsSmoothed` that Wilder's averages are the weighted sums of all gains
  and losses (cleared of denominators, as powers of the window), `TurnsMatch`
  and `LongIsHeld` that the state the loop carries is the position held from
  the last entry with no exit since.
- `DailyBarsTheorem`: the invariants `Typed` and `Recorded` say that bars are
  what the market quoted.  `PeriodBarWhole` and `DeriveWhole` describe a
  derived bar by the daily ones, `WindowInformed` and `SeriesSum` the windows of
  offered bars by whole periods, and `TargetsMatch` and `MomentumMatches` put the
  decisions together.

## 5. What is only model-checked, and what is not modelled

Only checked by TLC: `RetrySucceeds` and `CallsEnd`, for liveness under fairness
is beyond the prover.  Every other property of the passing runs is a theorem.
The five runs that find a disagreement need no proof.

Not modelled, by choice:
- the rounding and overflow of Decimal in engine, indicators and close
  comparison; `BooksBalance`, `EquityCompounds` and `ClosesCompareAlike` are
  about exact arithmetic.  Metrics are rounded, but do not overflow, and a power
  has a whole exponent;
- hashes, which are taken to be collision-free, and the text of JSON;
- order and repetition in the sequence of revisions of a query (a repetition is
  refused by the code; the model has a set);
- in `RunArtifactStore`, that an unlink that was not synced may be undone by a
  loss of power, which would bring a mkstemp file back;
- in the strategies, bars that differ from the schedule, mix assets, sources or
  series, and calendars with another label policy: all refused before anything
  else happens;
- what `data/capture.py` does to freeze and thaw a response, beyond refusing
  numbers that are not finite; the adapters' parsing of dates and numbers, whose
  outcome is a day or number, or none; errors of the SDKs;
- of releases, ids and text patterns, and the label policies of schedules;
- in the registry, links and special files (the no-follow reads refuse them,
  like a missing file), and files that change within one read;
- `InspectRunCommand`, `InspectResult` and the failure table of
  `application/contracts.py` (syntax of paths), ports (no code), settings,
  exceptions and the fixture registry: no state, no order, no arithmetic.

A source catalogue that lacks a module of the package would let it escape the
hash (`registry.py:104`); the catalogue is a constant here.  The adjustment mode
of a quality query is the caller's word: `quality_source_from_verified_capture`
does not compare it with the `adjust` of an AkShare capture, so the models let a
`qfq` capture be judged as raw, as the code does.

Two things the models made plain that are neither wrong nor written down.  A
bar that arrives after the next open makes S1, S2 and SMA refuse not only that
session but every longer history.  And the last target of S1 and S2 takes
effect after the bars it was computed from, so the engine refuses it when it is
given the same bars.

## 6. Plan

Modelled: every component with state, order, failure or arithmetic of its own.
What is left out is listed above with its reason.

Proved: every safety and action property of the passing runs, and that both
stores implement their ledger.

What could follow:
1. Powers with a fractional exponent (CAGR over other spans), for which the model
   would need the correctly rounded exponential of `decimal`.
2. Overflow of the Decimal contexts, one more refusal of engine and calculators.
3. `InspectRunCommand` and the failure table of `application/contracts.py`.
