# Verification of harnessx

harnessx is a Go library that runs security checks against a target: checks depend
on one another, run concurrently level by level, share their results through
snapshots of a store, discover resources that other checks fan out over, and tell
reporters what happens. This directory holds TLA+ models of that machinery, the
TLC runs that check them, and TLAPS proofs of what matters most. Paths are relative
to the repository (`src/` here).

## 1. Inventory

| Part | State it keeps | Operations | What is hard |
|---|---|---|---|
| Engine (`engine.go`, `options.go`) | `checks` under a RWMutex, the configuration, `initErr` | `New`, `Register`, `Run`, `RunScenario` | registration racing a run; all or nothing; an error that `New` cannot return |
| Scan (`engine.go`: `run` to `runSafe`) | `resultStore` (results, per-resource results, aggregates, resources), level semaphore, summary, one goroutine for each check and resource | the level loop, the fan-out, `record`, `finalize`, `recordCancelled` | concurrency inside a level, snapshots that must not be stale, cancellation between any two steps, counts that must add up on every path |
| Levels (`graph.go`) | in-degrees, queue | `levels` | duplicate, self, unknown and cyclic dependencies |
| Semaphore (`internal/semaphore`) | a buffered channel | `Acquire`, `Release` | a slot that frees up as the scan is cancelled |
| Variants (`variant.go`) | one attempt for each variant | `runVariants`, roll-up | three schedules, the end of the context, panics, completion order |
| Run options (`run_options.go`) | `selected`, the worklist | `unknownOnly`, `filter` | closure over a graph that may be cyclic or broken, in random order |
| Skip decisions, conditions, stand-alone store (`check.go`, `condition.go`, `teststore.go`) | the seeds of a fixture; the rest reads a snapshot | `Eval`, `EvalResource`, `IfCheck...`, `StaticResultStore` | what they may see, and when; a fixture that answers otherwise than the engine |
| Baselines (`baseline.go`, `baseline_compare.go`) | snapshots passed through the store | capture, probe, compare | a missing or failed capture, one of the other scope, a resource discovered after it, a comparator that shares its slice |
| Probe: retries (`probe/http.go`, `probe/do.go`) | attempt counter, request body, context | `RoundTrip`, `DoResponse` | retries, Retry-After, backoff overflow, body replay, cancellation during a wait |
| Probe: requests and credentials (`request.go`, `probe/request.go`, `probe/credential.go`) | requests that point at the readers of their bodies | `NewRequest`, the mutators, `ApplyCredential`, `NewCredentialRequest` | a body that can be read once, copies made before, between and after sends, a copy whose `GetBody` belongs to another body |
| Reporters (`reporter.go`, `reporters/`) | spans by check and resource (OTel) | five callbacks | concurrent callbacks, one reporter in several scans |
| checkdef, helpers, examples | none | text conversions, accessors | nothing with a history |

How they interact. `Run` copies the registered checks under the read lock, `filter`
narrows them, `validateChecks` and `levels` accept or refuse them, and a `scan` runs
them; `RunScenario` does the same with a list of its own. `runLevel` takes one snapshot of the store and starts one goroutine for each check;
each takes a slot of the level semaphore, evaluates the skip decision and the
conditions against the snapshot, and runs the check once, or once for each resource of
the snapshot, each of those in a goroutine of its own that takes a slot of a second
semaphore. A check with variants runs them inside that call. Results go to the store,
to the reporters (callbacks, not serialised) and to the summary (under a mutex).
Nothing is persisted, so there is no recovery; a scan's memory ends with it.

What makes each part correct is listed with its module in section 3; what is hard to
test is listed line by line under "hazards" in `PROJECT.json`.

## 2. Modules

| Module | Models | Checked by | Proved in |
|---|---|---|---|
| `Slots` | what callers rely on in a semaphore (abstract) | through `Semaphore` | |
| `Semaphore` | `Acquire` and `Release`, one step for each channel operation | `MCSemaphore` | `SemaphoreProof` |
| `Levels` | `levels`, Kahn's algorithm | `MCLevels` | `LevelsProof` |
| `Scan` | one call of `run`: the core | `MCScan` | `ScanProof` |
| `Variants` | `runVariants` | `MCVariants` | `VariantsProof` |
| `Engine` | `New`, `Register` | `MCPrepare` | |
| `RunSelect` | `unknownOnly` and `filter` | `MCPrepare` | |
| `Prepare` | `Engine` and `RunSelect` composed by `Run` and `RunScenario` | `MCPrepare` | `PrepareProof` |
| `Reporters` | `OTelReporter`, `TextReporter`, `JSONReporter` | `MCReporters` | `ReportersProof` |
| `Store` | the values a result store holds, the merge of resources, the roll-up, conditions, `StaticResultStore` (no behaviour of its own) | through `Baseline` | `BaselineProof` (lemmas) |
| `Baseline` | capturing and comparing checks on the levels of a scan, over `Store` | `MCBaseline` | `BaselineProof` |
| `Probe` | one request: `RoundTrip` and `DoResponse` | `MCProbe` | `ProbeProof` |
| `Credential` | requests, the credentials placed on copies of them, and what a server receives | `MCCredential` | `ProbeProof` |

The modules are stacked by what one asks of another. `Scan` uses a semaphore as the
atomic `Slots`, which `Semaphore` implements; it takes the order of the checks
as a constant of which it assumes only that dependencies come first
(`OrderAssumption`), which is what `Levels!DependenciesFirst` establishes for every
graph; the outcome of a check is any result of a set, among them what `Variants` rolls
up. `Prepare` stands before `Scan`: it says which checks it gets. `Reporters` stands behind it:
it takes the callbacks in the order that `Scan!ReporterProtocol` establishes, each unit's from a
goroutine of its own. `Baseline` stands beside it: the same levels, with the contents of results,
resources and observations in place of the steps of one invocation; the barrier between levels, which `Scan`
establishes step by step, is what lets `Baseline` take an invocation as one step against the level's snapshot.
`Probe` and `Credential` stand apart: they are what the code of a check uses to talk to its target.

Each module also holds a few operators introduced by a comment that starts with "Mutant":
they are plausible faults of the code, and each property listed for a run is violated
once the corresponding definition is replaced by its mutant.

## 3. Correspondence and properties

### Semaphore (`internal/semaphore/semaphore.go`)

`ch` is the number of tokens in the channel, `done` the closed done channel, `pc` the
place of each caller. `FirstCheck`, `Send`/`SeeDone` (the two cases of the select),
`SecondCheck`, `GiveBack` and `Release` are lines 15-17, 19, 27, 23, 24 and 42.
`ImplementsSlots`:
nobody is let in after the cancellation, never more than N are in, and a cancelled
caller returns without any holder having to leave. `EveryCallReturns`: with holders that
release, every caller returns. Proved only: the channel holds the tokens of exactly those that have not given
theirs back (`TokensTheorem`), and never more than N hold one (`CapacityTheorem`).

### Levels (`graph.go`)

`Count` is lines 15 to 38, `TakeLevel` 42 to 49, `Relax` one turn of the loop at 51,
`Finish` what follows the loop. Queues are sets: the order inside a level has no
meaning for a scan. In-degrees count list entries as the code does, and
`LevelsTyped` (proved only: they never go below zero) says that the code decrements as often as it
increments, repeated dependencies included. `DependenciesFirst`, `NoNeedlessWait`
(a check is on the earliest level it can be on), `VerdictRight` (a cycle is reported
exactly when there is one, and the checks named are those on or behind a cycle, defined
independently as the largest set each of whose members waits for another member),
`Terminates`. `PlacedOnce` is proved only.

### Scan (`engine.go`)

A goroutine is a unit `<<c, r>>`; `<<c, None>>` is the goroutine `runLevel` starts for
check c, `<<c, r>>` the one `runPerResource` starts for resource r. `pc[u]` moves
through `acquire` (386, 456), `decide` (398, 466), `exec` (the check's code), `merge` and
`set` (417-418, 473-475, in the order of each path), `report` (the callbacks of `record`),
`count` (its locked half), `fan` (wg.Wait, 480) and `exit` (the deferred Release and
Done). The caller's goroutine is `phase`: `start`, `level` (the top of the loop), `wait`
(394), `drain` (359-364), `final`, `done`. `Cancel` may happen at any moment.
A result is what the properties can tell apart: an error, the skip with its reason,
the number of observations, the IDs of the resources.

- `EveryCheckAccounted`: on every path, cancelled ones included, each check ends with
  exactly one entry in the summary, or one for each resource known when its level began,
  the three counters count them, and a nil error means that none was dropped for a cancellation.
- `DependenciesVisible`, `SameLevelInvisible`: a check that decides or runs sees the final
  results of all its dependencies and nothing of its own or a later level.
- `AggregateFaithful`: the rolled-up result agrees with the per-resource results in the store.
- `ObservationsOnce`: neither a snapshot nor the summary counts an observation twice.
- `ConcurrencyBounds`: both limits hold together.
- `ResourcesAppend`: a resource is known once, for good, at one index, whichever check finds it first, and none that an
  invocation discovered is lost.
- `ReporterProtocol`, `NothingAfterScanComplete`, `ProgressBarFills`: the callbacks come in an order a
  reporter can rely on, and the announced totals are those that arrive.
- `Completes`: the scan ends.

### Variants (`variant.go`)

`pc[i]` moves through `waiting`, `ready` (past the look at the context or past Acquire: 67, 71, 79), `running` (in fn,
107), `returned`, `stored` (`attempts[i]` assigned: 73, 83) and `over`. `Turn` is the loop of the sequential mode,
`LooksAtContext` the places where a variant can see that the context ended (the loop's own look, or Acquire when there
is a cap). The look (`Enter`, `Refuse`) and the call of fn (`Begin`) are two steps, and the context can end between them.
`Attempted` is what `runVariantAttempt` makes of what fn did, `given` remembers the latter. `aggregateAttempts` is `RollUp`, one step for
each turn of its loop, and `Conclude`. Observations are a sequence, each with the variant it names; the resources of an attempt go the same way and are left out.

- `EveryAttemptLeft`: once the group returned, the attempt at each variant's index is its own: what its code did, with
  its observations in their order and under its name, a panic, or the context's error if it was not called.
- `RollUpInOrder`: the observations of the Result are those of the attempts one after the other in the variants' order,
  its error is the first in that order, and it is skipped when all are, whatever order they finished in.
- `EndStopsTheRest`: after the context ended, the loop calls the code of at most one more variant, a group under a cap of
  at most as many as the cap.

### Engine, RunSelect and Prepare (`engine.go`, `run_options.go`)

A check is its ID and the batch it came in. `Lock`, `Accept` and `Reject` are `Register`; `Run` is the copy
under the read lock and the look at `initErr`, `RunScenario` neither of the two. `Unknown` is `unknownOnly`, `Select` the seeds of
`filter`, `Pop` one turn of its worklist, in any order.

- `AllOrNothing`: a Run that races registrations sees whole batches in their order, IDs that differ, and
  nothing when `New` failed; a RunScenario works on its own list, whatever is registered.
- `LeastClosure`: the scan gets the least set that contains the seeds and is closed under
  registered dependencies that are not excluded.
- `Terminates`: the worklist empties on cyclic graphs too.

### Reporters (`reporters/`)

`active` is the `sync.Map`, `scanSpan` both `scanSpan` and the span in `scanCtx` (they are set together
under `scanMu`). `StartScan`/`SetScan` are `OnScanStart`, `Parent`/`Open` `OnCheckStart`, `Take`,
`End` or `Look`/`Event` `OnCheckComplete`, `Swap`/`Close` `OnScanComplete`; each is followed by the
line of the writer that comes next in the list (`Header`, `Line`, `Footer`). The tracer is
external: what is done to a span that has ended leaves no trace. The writers differ in one
thing: after a failed write, the encoder of a `JSONReporter` returns that error for ever.

- `SpanTree`: each check's span hangs under its own scan's, ends once, with its own result, and first.
- `EveryResultTraced`: a result whose start was announced is on one span of its own scan, ended with that result, also
  if the check skipped itself, and no event tells of it; one that was not is a skip, and one event of its scan's span.
- `MetricsAgree`: the metrics count what was reported.
- `FirstErrorKept`: the first error is the one remembered, and the writer is offered every line all the same.

### Store and Baseline (`engine.go`, `condition.go`, `teststore.go`, `baseline.go`, `baseline_compare.go`)

A store is a record of four functions, `Put`, `SetAggregate` and `MergeResources` its writers, `Get`,
`GetForResource` and `Observations` its readers; the fixture is a store filled by `Put` with two readers of
its own. In `Baseline`, an invocation `<<c, r>>` is the run of check c for resource r, or as a whole. `OpenLevel`
is the snapshot at the top of `runLevel` and everything that depends on it alone: which checks their conditions or an
empty list of resources skip, and over what the others fan out. `Capture`, `NoBaseline`, `ProbeNoBaseline`, `Compare`
and `Unanswered` are the ways through the run functions of `baseline.go`; `Finish` is what `execute`, the store and
`record` make of the result; `FanIn` is the roll-up after the resources; `Finalize` sorts the summary.

The target is external. Each place (a resource, or the target itself) has a page, and when it is asked the page may be
another than at the last answer. Only answers are visible, so that this is the same as a page that changes at any time.
Bodies are sequences of words, and a SimHash has a bit for each hash bit that more words have than not, which is what
`simhash` computes over its features; a custom comparator flags a change of status, and may return one slice of the package to every caller.
A check of `NewBaselineCheck` has one comparator or none, a caller of `ProbeAndCompareBaseline` gives any set of them: `Deviates` asks whether
any of them flags the answer, and without one it is `CompareStatusCode`.

- `VerdictFaithful`: whoever judges an answer held it against what the same place answered the capture: a status that
  changed is observed, a length that did as well where `CompareStatusAndLength` is among the comparators and both were
  read to the end, a page that did not change is not. Similarity of prefixes cut at different caps is excepted, as its
  comment says. What is said is about captures of checks; a static baseline or one of a resource is any snapshot its
  author likes, with nothing to hold a verdict against.
- `MissingIsSkipped`: where the capture failed, was of the other scope, or came before the resource, nothing is judged.
- `Attributed`: every observation stored names its check and resource, also when comparators share a slice, which
  stays as it was.
- `SummaryTellsStore`: a fixture seeded with the summary decides every condition as the engine's store does, and
  the summary is ordered whatever finished first. The fixture's rolled-up error is not compared: it is the first in the
  order of the resource IDs, the engine's in the order of discovery.
- `MergeKeeps`: a resource is listed once, where it was first found, with the version the merge function is for.
- `PassedMeansAll` is violated (section 7).

### Credential (`request.go`, `probe/request.go`, `probe/credential.go`)

A request holds the index of a reader, and a reader what it still has to give: `cloneBody` replaces the original's
reader and gives the copy one of its own, or opens another through `GetBody`. `Build` is `NewRequest` with its mutators,
`ApplyCredential` and `ApplyFails` the two ends of that function (an invalid location changes nothing and is no step),
`NewCredentialRequest` the one that builds its own. Sending is external: `net/http` reads a body a chunk at a
time while other requests are built, copied and sent, and a retry takes the body from `GetBody`. A caller hands over a
request whose body has no `GetBody` from one goroutine at a time, and before it sends it: the code reads and
assigns `src.Body`, as its comment says. Cookies are kept by name: the order between two names is left
out, and so are cookies and queries that do not parse. They are apart from the other headers: a caller who writes the
`Cookie` header by name (`WithHeader`, or a header location of that name) instead of `WithCookie` is left out (`NamesAssumption`). The specification is `RequestSpec`, with `RequestInit` and `RequestNext`.

- `SentAsMeant`: the server receives each request as its plan says but for the credentials placed on it, each once, the
  last one of its place, with the whole body, replays included.
- `OriginalIntact`: a request that waits to be sent is what its caller meant, however many copies were made or sent.

### Probe (`probe/http.go`, `probe/do.go`)

`pc` is the place in `RoundTrip`: `snapshot` (219), `loop` (229), `limit` (233), `send` and
`flight` (before and after the call at 247), `failed` (248-262), `answered` (265-282), `sleep`
(inside `sleepCtx`); `read` is the rest of `DoResponse`. `Cancel` may happen between any two.
The transport, the server and the limiter are the environment: they answer or fail as they
like, and the headers of a response are any of a set. `source` is what `req.Body` has left, `data` what `snapshotBody` read,
from there or through `GetBody`; each attempt gets a reader over `data`, from which the transport reads as it likes (`TransportReads`),
also after it has answered, and which it may open again on another connection (`TransportRewinds`). All readers are over the same
bytes, so that numbers say which are left. Durations are in units of which `MaxWait` is
60 seconds, and `Wrap` is the arithmetic of 64-bit integers, with `MaxInt` for the largest.

- `NeverAppliedTwice`: a request that is not idempotent is repeated only after a 429.
- `OutcomeFaithful`: the error or response returned is what the last attempt came to;
  exhaustion is reported after all the attempts, and only then.
- `NothingLeaks`: whichever way out is taken, the bodies are closed.
- `WholeBodyEachTime`: what the transport has read and has left to read is the whole body in each attempt, whatever it
  read, or is still reading, for the others.
- `CancelStops`: at most one attempt begins after the context ended. One can: the look at the context
  and the call of the transport are not one step.
- `WaitBounded`: neither a header nor the doubling leads beyond the cap, or below zero.
- `KeptWithinCap`, violated (section 7): what is kept of a body, and `Truncated`, agree with `WithMaxBodySize`.

## 4. Runs

| Run | Instance | Shows |
|---|---|---|
| `semaphore` | three goroutines, two tokens | every interleaving of channel operations with a cancellation |
| `levels` | four checks, every graph of at most four edges, each also with a repeated entry or an unknown ID | levels and verdicts |
| `scan` | five checks on three levels, three resources, two level slots, one resource slot | the properties of `Scan` |
| `variants` | three variants, three schedules, four outcomes | attempts and roll-up in every completion order, the context ending between any two steps |
| `prepare` | two registrars, clashing and invalid batches, three ways New can go, a scenario with a duplicate, three graphs, thirty-six options | what a Run or a RunScenario sees and selects |
| `reporters` | two scans in turn, two keys, a writer that fails at most twice | traces, metrics, lines |
| `probe` | three retries, caps below the largest integer | one request with every mix of answers, failures and headers |
| `baseline` | six checks on three levels, two resources, three pages, three comparators, also two at once, both merge functions, every source | captures, verdicts, the store and its fixture |
| `credential` | three requests, two plans, five locations, two sends each | what the server gets of requests that share bodies |
| `probe_widest`, `variants_cancel`, `conditions_passed` | as above | a sentence of the documentation that the code does not keep (section 7) |

Why the bounds are enough. Four checks hold a chain, a diamond, a cycle with a tail and
two components. Three goroutines on two tokens are the smallest number with a holder, a
second holder and a waiter. In `scan`, a check of the first level discovers two
resources, the second level runs a fan-out over them beside two other checks, on two slots, where
the resources of the fan-out and one of the checks discover the same third
resource, and the last level reads both: the smallest shape with a discovery race, a
snapshot that could be stale, both semaphores in contention, and an aggregate someone
depends on. The check whose resources run has one slot for them, so that both waiting and refusal
happen there. In `probe`, the fourth attempt is the first whose slot
would overflow were the exponent not capped (delay 3, cap 1, largest integer 7), and the headers are
absent, below zero, zero, in range and beyond the cap of 4. Bodies have one byte or none (`BodyLengths`): a reader is then either
untouched or used up, which is what tells a shared one from a new one. In `variants`, three variants on a cap of two leave one waiting while
two hold slots. In `reporters`, the second scan uses the same
keys as the first, and either may be refused; `MaxLost` bounds how often the writer fails, and two
failures tell the first from the last. In `baseline`, one resource is known before the captures and the other is found
beside them, so that a comparing check fans out over one with a capture and one without; a rediscovery brings another
version of the first. `MaxEdits` lets one page change once: with an answer that comes from somewhere else, or one that is held
against the wrong place, a single change is enough to tell, and both prefixes of different caps and both sides of
each comparator's limit are among the three pages. In `credential`, `MaxRequests` is three: a plan, a copy, and a copy of
either; `MaxSends` is two: a send and one replay, which takes the same way as every later one. No other run cuts a counter
short: their state spaces are finite as they stand.

`CHECK_DEADLOCK FALSE` is set where the program stops: a scan, a sort, a selection end.

## 5. Fairness

In `Scan`, as long as some goroutine can run, one does (weak fairness of `Progress`, less
than what the Go scheduler gives); that includes `Return`, that is, **the code of a check returns**:
the engine cancels a context but cannot stop code that ignores it. Blocked
sends on a channel are served in arrival order, hence strong fairness of `Send` in
`Semaphore`. `Release` is not fair in `Semaphore`'s own specification; `EveryCallReturns` states it
as a hypothesis. In `Prepare` the goroutine of the Run goes on, and whoever holds the engine's lock leaves
`Register`; nobody has to register anything. Nothing ever has to be cancelled. `Probe` has no fairness: a server may never answer. `Baseline` and
`Credential` have none either: that their levels end is `Scan!Completes`, and nobody has to send a request.

## 6. Proofs

What is proved holds for every value of the constants that satisfies the named
assumptions of the modules: finite sets of checks and resources, dependencies on
earlier levels, at least one slot (`options.go` replaces lower values by a default).

**Semaphore** (`SemaphoreProof`). The invariant is `TokensAccounted` with the types and with the
fact that a caller gives its token back only when the scan is cancelled; the bound on
holders is a cardinality argument on top, and `Refinement` maps `pc` to the three sets
of `Slots`. This is what entitles `Scan` to use a semaphore as one atomic step.

**Levels** (`LevelsProof`). A check's in-degree is at all times the number of entries of its list whose
dependency has not been taken, so it is never negative, it reaches zero exactly when all of
them were taken, and it does so while the level just before is relaxed. `DependenciesFirst`
is what `Scan` assumes as `OrderAssumption`. `VerdictRight` needs two halves. No check of the blocked set is ever placed, as
one of its dependencies is in the set and would have to be placed before it (`BlockedNeverPlaced`). And when the queue is
empty, the checks that are left form such a set themselves, so that they are the largest one; both together make it
equal to what the error names, whatever the graph.

**Prepare** (`PrepareProof`). `Copied` says that the registered checks are one whole block for each batch that was
accepted and nothing else, which survives an append because a batch is appended only if its IDs are new; the
copy of a Run is one such list at one moment. For `LeastClosure`, `Worklist` says of every turn of the loop that what is
selected and not on the list has its dependencies selected, and that whatever is selected belongs to every closed
set that contains the seeds. When the list is empty, the first half is closure and the second one leastness.

**Scan** (`ScanProof`). None of the properties is inductive: what a check may see says
nothing about why the goroutines of other levels cannot be in the way. The
strengthening is `Control`, the barrier: while the level loop waits, every check of an
earlier level is done, every check of a later one is idle, and a resource runs only
while its check is at `fan`. From it follows that only goroutines of the current level move,
and each property adds what it needs for them:

- `Data`: a check has a check-level result in the store exactly from the place where its
  goroutine stored it, and the snapshot agrees with the store about the earlier levels,
  which no longer change. `DependenciesVisible` and `SameLevelInvisible` follow.
- `DataTypes`: the types, with the shape of the records, which the prover needs to know.
- `Reports`: for each place of a goroutine, how many of its callbacks are behind it, and for
  each place of the loop, which of the scan's. `ReporterProtocol` follows, and since a goroutine that
  can still call back has not ended, `NothingAfterScanComplete`.
- `Limits`: both semaphores are never overdrawn, and whoever decides, runs or waits for its
  resources holds a slot. `ConcurrencyBounds` counts checks, not slots: `LimitsHold` injects the
  checks that run into the slots they hold.
- `ResourcesAppend` needs that the list is injective before the step: a merge lists what is new in some order,
  and an injective list of a finite set lists all of it (`ListingsCover`). That nothing discovered is lost is `Gathered`, below.
- `RollUps`: the store has a resource's result exactly from the place where its goroutine stored it, and a roll-up is
  made of results that no longer change, as its resources are done by then. `AggregateFaithful` follows, the number of
  observations included, without unfolding the sum.
- `Entries`: where a goroutine is tells how many entries its unit has (`Entry`); a check that fanned out has none, and one
  goroutine for each resource that earlier levels emitted (`Fanned`); the store knows what those past their merge emitted,
  and the snapshot what earlier levels did (`Gathered`, which holds at `OpenLevel` because nobody runs there and
  is kept because only the current level moves). With the counters (`Counters`), the ways out (`Ending`) and the ways a unit
  is dropped (`Honest`), `EveryCheckAccounted` follows at the end of every scan.
- `Sums`: a snapshot holds exactly the results of the units recorded below its level, each under its own
  key (`SnapshotOfBelow`), and a roll-up is read by nobody who counts; so a sum over a snapshot is one over units, each
  counted once. With the summary's total (`Observed`), `ObservationsOnce` follows. `Announced` says that a check announces as
  many resources as it starts goroutines, `Sized` that the scan announces its checks, and `Tallied` that a unit has as many
  callbacks as entries, or one more between the two halves of `record`. At the end the two agree, which is `ProgressBarFills`. Both rest on lemmas about sums over a finite
  set (an element added or changed, two disjoint parts, an injective renaming), each by `SubsetInduction`.

`SubsetInduction` stands for the induction the library's theorems offer with an operator as a parameter: the
property is given as the set of the subsets that have it, and the well-founded order of the subsets of a finite set does the rest.

**Variants** (`VariantsProof`). The invariant says of each variant that what it did and what it left are what its place calls
for (`Fits`); of the Result, that it is made of the attempts up to the one the loop is at (`RolledTo`), where one turn adds one
attempt's observations behind the others (`OneMore`); and of the slots, that no more are held than there are (`Limited`), so that when the
context ends at most that many are past their look without having begun (`AtTheEnd`). `EveryAttemptLeft`, `RollUpInOrder` and
`EndStopsTheRest` are read off.

**Reporters** (`ReportersProof`). That scans which share a reporter take turns is an assumption (`InTurnAssumption`), as the
code's comment asks (`otel.go:64`); without it `SpanTree` is false. `Turns` draws from it that a scan's checks
move only while it is open and no other is, `Current` that the current span is then this scan's, and `Actives` that an entry of the
map belongs to an execution that is still running: hence no `End` or `Event` finds another scan's span.
`RootTraced` and `Traced` give, for each place of a scan and of an execution, the span or event there is and whether it has
ended. `SpanTree` and `EveryResultTraced` follow. `MInv` equates each metric with a cardinality: the executions reported
with a status, those of them with a span, the scans that ended. For the writers, `WInv` finds exactly one line for
each callback that was made, the error of the first line lost, and, for the encoder that keeps its error, that every line
after a lost one is lost as well (`Stops`).

**Baseline** (`BaselineProof`). `Control` is the barrier again; `Stored` says that who has a result is done, that who has
not run has asked nothing, and that a roll-up holds no baseline; `SnapshotHolds`, that the snapshot and the store agree
on earlier levels while a level runs. From these `MissingIsSkipped` follows for an invocation's own step, and later
steps of other invocations leave both results alone. They assume that the absent value is none of the errors
(`NoneAssumption`) and that a source names a check of the scan (`SourcesAssumption`).

`VerdictFaithful` needs `Kept`: what an invocation captured is a page that its place answered it, whatever the place has answered
since. `FoundIsReference` shows that what a comparing check looks up in the snapshot is the result of the
invocation the property calls its reference, `SamePage` that no comparator flags two captures of one
page, prefixes of different length under the similarity excepted, and `ReadWhole` that a page read to its end has its length. Assumed are a tolerance and a threshold the code
reaches after it has clamped them (`LimitsAssumption`), caps of at least a byte (`PagesAssumption`), and lists
that are sequences (`ListingsAssumption`).

`MergeKeeps` is an invariant about a fold. `MergeAll` is a `FoldLeft` over what was discovered, which the library defines through a
function over the subsets of its indices; `FoldExists` and `FoldUnique` show, by induction over those subsets, that
there is one such function and what each turn does (`FoldedSteps`, for any starting value and any operation of
the code). Each turn keeps `Keeps`, the property spelled out for any
list of known resources and any versions offered so far (`MergeOneKeeps`), and so does the merge as a whole (`MergeAllKeeps`).

`SummaryTellsStore` relates three things that no step writes together: the store, the summary, and a fixture that is folded
from the summary. Its invariant `SumInv` has three parts.

- `Told`: the summary lists exactly the results in the store that are not roll-ups, each at one row. Every way through an invocation appends what
  it stores (`Tellings`), and nobody runs twice.
- `Rolled`: the result of a resource is either still awaited by its check's `FanIn` or rolled up already, and an aggregate
  says of *all* results of its check what `aggregateResources` makes of them (`RolledUp`). That no resource is left out
  is where the barrier and the snapshot come in: `FanIn` reads the resources the snapshot lists, and these are those that ran.
- `Ordered`: a finished summary is in the order of level, check and resource. `Sorted` is the permutation of the summary without two
  rows out of order; in a finite set with ranks that differ, the rank is the place (`Ranked`), so there is one (`SortedAre`), and
  it lists the same rows.

At the end the fixture is a fold of `Put` over rows that are told once each: it holds the same results under the same
keys (`PutTells`, `FixtureTells`). Its own roll-up goes over the keys in sorted order (`SortedKeysAre`), the engine's over the resources in
the order of discovery; all that a condition can see of a roll-up depends only on the set of results
(`AggregateIs`, `AggregatesAlike`), hence both answer alike (`SameAnswers`). Assumed are ranks that are integers and differ, which is
what comparing two Go strings gives (`RankAssumption`), checks on levels below `Depth` (`PlanAssumption`), and that
the resources a check lists are among those of the model (`ListingsAssumption`).

**Probe** (`ProbeProof`). What was sent in earlier attempts says nothing by itself about the next
step. The invariant counts, for each place in `RoundTrip`, the attempts behind it and the responses
still open (`Counted`), says that the snapshot is the whole body once it is taken (`Snapshotted`), says what the last answer can have been there (`Answered`), and that
before another attempt every earlier one was answered by a 429 unless the request may be
repeated (`Earlier`). `WrapFits` is where `DelayAssumption` enters: a retry delay
below 104 days does not overflow when doubled ten times. With it `WaitsBounded` holds for every
number of retries.

**Credential** (`ProbeProof`, second half). `RequestInv` is `Sound`, about the requests, and `Delivered`, about what the server has.
`Linked` says that no two requests share a reader: this is what `cloneBody` is for, and what its own step has to show, as it
gives the original a new reader and the copy another (`CloneBodyKeeps`). Then `Whole` holds of each request by itself: its
fields are its plan's with the last credential of each place on top (`Fields`), what it has sent followed by what its reader still has is
one of the bodies its plan and credentials allow (`Payloads`), and so is what `GetBody` would give a replay. The reader of a request whose copy
failed (`broken`) is excepted, as it is never sent. `SentAsMeant` and `OriginalIntact` are read off from it (`RequestInvMeant`).

What a request is meant to be is a statement about the last credential of each place, and what the code does is a fold of mutators.
`NewRequestIsFold` connects the two for a plan of any length, and `PlacedFields` shows for each of the four places that one
more credential replaces what was in its place and disturbs no other; a form credential also sets a header
(`SetsHeader`), which is why the header `Content-Type` is a case of its own. Assumed are names that the constants know
(`NamesAssumption`, `PlansAssumption`, `LocationsAssumption`), no header called `Cookie` among them, and that no body is the absent value (`NoneAssumption`). The
number of requests and of sends may be any.

Only model-checked: liveness (`Completes`, `Terminates`, `EveryCallReturns`, and the fairness in `ImplementsSlots`, of which
`Refinement` proves the safety half; the prover has no rule for fairness here). Every
other property of the runs that pass is stated by a theorem. `KeptWithinCap`, `PassedMeansAll` and `EndStopsEveryVariant`, the
stronger form of `EndStopsTheRest` that `variants_cancel` checks, do not hold, and are stated only to be refuted.

## 7. Where code and documentation part

- `variants_cancel`: parallel variants without `VariantConcurrency` never look at the context
  before they begin, against `variant.go:37`.
- `probe_widest`: with `WithMaxBodySize(math.MaxInt64)` the code reads one byte more than the cap,
  which wraps to a negative limit (`probe/do.go:91`): the body comes back empty and not
  `Truncated`, against `probe/do.go:44`.
- `conditions_passed`: `IfCheckPassed` holds for a per-resource check of which one resource was skipped and another
  passed, since only all of them make the roll-up a skip (`engine.go:600`), against `docs/reference/api.mdx:576`.

Four more are plain from the code and need no run: a check that reports a skip itself, such as `NewBaselineCheck`, was
announced by `OnCheckStart`, against `reporter.go:10`, and gets a span marked `check.skipped` (`reporters/otel.go:172`) and no event, against
`reporters/otel.go:26` and `docs/guides/reporters.mdx:251`; a scan refused for its configuration calls `OnScanComplete` without
`OnScanStart`, against `reporter.go:8`; `WithOnly` pulls in dependencies, as the comments of `run_options.go` say, against
`docs/guides/check-selection.mdx:22`; and `ProbeAndCompareBaseline` on the capture of a per-resource check never finds a
baseline, because it looks for the check's own result (`baseline.go:134`).

## 8. Not modelled, and the plan

Left out for good: text conversions (`checkdef`, the writers), examples, wall-clock
durations. A check's code, its skip decision and its conditions are any function that
returns; a panic in the latter two ends the process and with it the model.

Next, in this order:

1. `Nested`: two scans, one started from inside a check of the other, to show that semaphores
   of their own keep them from waiting on each other; and what two scans at once do to one `OTelReporter`.
2. `Baseline` with a cancellation between two invocations, which today only `Scan` has.
