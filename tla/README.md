# Operator overhead, verified

This project models the benchmark in this repository: the operators it compares,
the host two of them run on, and the harness that measures them.  The models are
TLA+, checked with TLC.  For every value of the constants, TLAPS also proves what
each of the three relays guarantees and that it implements the abstract relay, and
every safety property of the harness that a run checks and the code keeps.

The benchmark asks one question, "what does the N-th operator cost", and five
*arms* answer it by doing the same job N times: copy `data.v` of ConfigMap
`src-i` to `dst-i`, and write beside it `data.t`, a stamp `<value>@<clock>` that
says when the operator acted.  What has to be right is therefore of two kinds: an
arm must *relay* (the numbers mean nothing if it does not do the job, or does it
twice), and the harness must *measure what it says it measures*.

## 1. Inventory

| Part | State it keeps | Operations | Interacts with |
|---|---|---|---|
| **Arm A, `cmd/crrelay`** (A1 with leader election, A2 without, A3 one manager for every pair) | informer cache, workqueue, the pass in progress | `Reconcile`, informer events through a predicate, resync, start | apiserver by watch and merge patch |
| **Arm B, `perseid/relay`** (one program per pair) | none between passes; its phase is the host's | one pass `run()`: up to four observations, then yield, park, terminate, or declare a write | the host, by observations, outcomes and obligations |
| **Arm B2, `perseid/fused`** (one program for every pair) | as B | one pass over `RELAY_COUNT` pairs, one clock read | as B |
| **radiant** (host of B and B2; source not in the repository) | informer store, phase of each program, wake hint, obligations | tick, park check, wake by index / poll / backstop, servicing obligations | apiserver |
| **bench: fixtures, convergence control** (`fixture.go`, `converge.go`) | the ConfigMaps in the namespace | `Fixtures`, `SetSource`, `ProveConvergence` | apiserver; whoever relays |
| **bench: window** (`measure.go`, `run.go`) | latency record, tick count, watch position | `Load`, `WatchDestinations`, `drain`, `Observe`, `measure` | two goroutines and a deadline |
| **bench: counters** (`run.go`, `apiload.go`, `procsample.go`) | two readings of CPU and of request counters | `Collect`, `scrapeArm`, `Parse`, `Delta`, `DeltaByMethod`, `ScrapeByLabelPrefix`, `ScrapeCounters` | the measured processes |
| **bench: up / run / down, `hack/ladder.sh`** (`perseid.go`, `fixture.go`, `main.go`) | pods and Perseids in the cluster | create, wait, preflight, health, windows, teardown; the loop over cells | kubelet, radiant, all of the above |
| **procsample** (`procsample.go`, `conns.go`) | the set of processes found | `Collect`, `Totals`, `CountConnsAnyOf`, `ConnsTo` | `/proc` of the local host, while processes come and go |
| **bench: quantiles** (`measure.go`) | none | `Summarize`, `quantilesOf`, `quantile` | called when a window closes |
| **bench: sizes** (`size.go`) | the count of one file | `MeasureSizes`, `imageSizes`, `CountSource` | `apsis images`, the build directory |
| **cmd/bench** (`main.go`) | one command, its record, the context a signal cancels | `run`, `size`, `writeRecord`, `writeJSON`, printing | all of the harness |
| text of `/proc` and metrics files, flags, layout of tables | none | parsing and I/O | |

What is hard here, and what makes each part correct:

* **Arm A**: the pass reads a cache that lags its own writes, the PATCH names no
  resourceVersion and may outlive the client that sent it.  Correct: value and
  stamp are never torn or misdated; a stale cache delays a value and never undoes
  one; every pair converges after any crash, and the arm then stops writing.
* **Arms B and B2**: `absent` has two meanings, an observation may answer
  `unknown`, an obligation may be dropped unseen, and a change may arrive exactly
  while the program goes to sleep.  Correct: never terminated for a live source,
  never asleep on a change, converges, goes quiet.
* **Harness**: a control must not be satisfied by an earlier arm's leftovers; a
  watch that expires must lose and repeat nothing; a window must close whatever
  its goroutines are doing; a difference of two readings must survive processes
  that exit in between; a cell must measure the workers it created.
* **Sampling and records**: `/proc` is read file by file while processes exec, exit
  and are reaped, and the sockets are read later still.  Correct: no worker that
  lived through a walk is missing and nothing that never was one is in it; what
  could not be read is marked and never a zero; what is printed passed and is on
  disk, wherever the interrupt came.

Every hazard is listed with its line in `PROJECT.json` ("hazards"), with the
properties that would catch it, or the reason none does.

## 2. Plan

Modules in the order they were written; `->` reads "extends".

1. `RelayPromise`: the abstract relay, what any arm may do to a destination.
2. `Cluster`, then `CRRelay -> Cluster` (arm A).
3. `Radiant -> Cluster`, then `PerseidRelay -> Radiant` (arm B).
4. `FusedRelay -> Radiant` (arm B2).
5. `Window` (the change window), 6. `Controls` (fixtures and convergence control),
7. `Ladder` with `MCLadder`, 8. `Counters`.
9. `Quantiles`, and `Window -> Quantiles`.
10. `Sums`, the totals that `Counters` and `Sampling` take, both `-> Sums`; `Sampling` and
    `Sizes`, composed by `Bench -> Sampling, Sizes`, with `MCBench`.
11. The proofs: `Cluster_proofs -> Cluster`, which knows no arm, and on top of it
    `CRRelay_proofs`, `PerseidRelay_proofs` and `FusedRelay_proofs`, each `->` its arm
    and `Cluster_proofs`; `Ladder_proofs`; `Sums_proofs -> Sums`, and on top of it
    `Window_proofs -> Window, Counters`, which is about a window (what it records, and
    what its instruments report), and `Bench_proofs -> Bench, Controls`, which is about
    the commands.

All of these exist, and are checked and proved.  What TLC checks and TLAPS does not
prove is liveness (see 7).  What the plan has left is more model: the entries of
section 8, of which radiant's memory and connections would come first.

## 3. The models

**Time and values.**  `EncodeValue(seq, now)` renders every value from the instant
it was made, to the nanosecond; every arm's stamp carries an instant too, in whole
milliseconds (`UnixMilli`, `now()`).  All modules with time share one clock, the
number of values encoded so far, so *a value is its own origin instant*.  `Milli`
ticks of it make a millisecond, and what an arm stamps is the last whole one
(`Millis`, `StampOf`), which may lie before the origin of a value relayed within it:
"the stamp is not earlier than the origin" holds only up to a millisecond (`After`).
A stamp is the record `[val, at]` that `data.t` is parsed into.

**`Cluster`** holds the fixtures (`obj`), one informer (`cache`, and `watch`, the
events not delivered yet) and the harness: `CreateFixture`/`DeleteFixture` in
`Fixtures`' order, `StartRound` for one tick of `Load`, `WriteSource` for one Get
and Update of `SetSource`, which ends the round at a missing source.  `Relist`
stands for a watch that is lost: the cache jumps and the events in between are
gone.  `held` (the values each source ever held) and `deletes` (the keys deleted,
in order) are history.

**`CRRelay`** splits `Reconcile` where something can happen in between:
`Take` (workqueue) / `ReadSource` / `ReadDestination` (guard) / `SendPatch` (clock
read and request sent) / `PatchSucceeds`, `PatchNotFound`, `PatchFails`.  A failed
PATCH was refused, or was applied and its answer lost, or is still on its way
(`orphans`).  `Restart` rebuilds cache and queue from a list and may leave its
PATCH behind.  N = 1 is a manager of A1 and A2, N > 1 the one of A3.

**`Radiant`** is the host as the steps, the contract and the repository's README
describe it: `Running`, `Parking` (subscribed, resume not evaluated yet), `Parked`,
`Terminated`; a hint channel of one slot that exists only while subscribed;
obligations serviced later, one at a time, in any order, or dropped.  It is the
only large part modelled from its use; its entries are external in the map.

**`PerseidRelay`** splits `run()` at each observation; what follows the last one
is one action (`Decide`).  `host` fixes, from the start, whether the program got
its config, whether the host narrows `path#field` reads (an older one answers
`absent`, which is what the second look is for), and which of its two wakes can be
relied on.  **`FusedRelay`** is the walk over the pairs, with `now()` read in
`BeginPass` and the resume comparing two collections by position.

**`Window`** has `Load`, the watcher goroutine (`list`, `watch`, `drain`) and the
deadline as separate actors, and an arm that may write value and stamp together
or apart.  `log` is the destinations' history in resourceVersion order; `rv` is
where the watcher resumes; `lat` is `Latencies`; `summary` is the window's latency
column, made when it closes.  The window does not know which arm it measures, so
`clockFirst`, fixed from the start, says when that arm reads its clock: after its
sources, as A and B do, or before them, as B2 does, which may then stamp any instant
before the origin (`ClockRead`).

**`Quantiles`** is `Summarize` down to the rank, as operators; `Sorted` is the sample in
any order in which none is above the next.  `Window` applies them to the latency record
of every window that closes; `NearestRank` is what such a quantile promises.

**`Sums`** is one operator, the total over a set that `Totals`, `Parse` and `sumDeltas`
take.

**`Controls`** runs `Fixtures` and `ProveConvergence` as commands, request by
request, in any order, with any n, each able to fail anywhere.

**`Ladder`** is the loop of `ladder.sh` over cells (arm, size): `Create`, `Wait`,
`Sample` (preflight's counts), `Judge`, two windows with a health check at each
boundary, `Delete`, `WaitGone`.  Workers start, crash, are refused, fail, and stay
around while they are being deleted.  `RequestFails` ends `up` or `run` anywhere.
A worker's `pod` says where the scheduler put it and whether its runtime passes the
config on; `PodPlacement` and `ConfigReachesGuest` look at it once, as preflight
does, and a process on another host is not one the sampler counts.  A cell of size
zero is a baseline: it wants no worker, although `up` still creates the one of a
consolidated arm (`Creations`).

**`Counters`** is `measure` around the window: processes work, call, exit and
restart with counters at zero; `Collect` reads CPU, `Scrape` one endpoint at a
time; `Report` is the difference with its guards.  `kind` says whether the
processes are an arm's workers or radiant, with per-program series or without; the
`bucket` is what radiant counts for everybody, read by `ScrapeCounters` before the
per-program series at either end.
The walk of `/proc` is taken at once (its own races are in `Sampling`), and the list
of endpoints does not change within a window.

**`Sampling`** is `Collect`, one file of one process per action, and
`CountConnsAnyOf`, one address of one process per action, beside processes that
start, exec, exit, are reaped, connect and disconnect.  A process is what its argv
and its `/proc` files distinguish: supervisor (or child before its exec), worker,
another arm's, zombie, gone.  PSS is computed as the kernel does, by sharing the
text among those that map it at that moment, rounded down.

**`Sizes`** is `MeasureSizes` and the line classifier of `CountSource`, for a file that
compiles.  A line is what the two readers of it can tell: how it begins and whether it
has a `*/` (`CountSource`), whether it has code and whether a block comment is open at
its end (the compiler).  `Compiles` relates the two, so that every kind of line is one
of these records: `/* a */ /* b`, `end */ /* again` and `/*/` are lines without code
that have a `*/` and end in a comment.

**`Bench`** composes the two under the commands `run` and `size` of `cmd/bench`: the
steps of `Run` and `measure` in order, each with the ways it can fail, the record,
the table, and an interrupt (`Cancel`) at any moment, which `/proc` does not notice
and every request does.

**`RelayPromise`** is the abstract specification: a relay may, at any time, put
into an *existing* destination a value its source holds or has held, together
with a stamp naming that value, in one write.  `CRRelay`, `PerseidRelay` and
`FusedRelay` are each shown to implement it, by TLC and by proof:
`Promise == INSTANCE RelayPromise WITH` the destination objects of the apiserver for
`destination` and the sources' history for `held`, stated once in `Cluster` for all of
them; `KeepsPromise` is `Promise!Spec`.  Caches, queues, passes, obligations
and hosts are gone in the image, so all of them must be stutters, and a delete, a
crash or a late PATCH may not look like anything the promise does not allow.  It
allows an old value over a newer one; that arm A does so only through a PATCH that
outlived its client is `OnlyOrphansRegress`.

Definitions named `Something_Slip`, that is `Something_` and a few words, are what
`Something` would be with one plausible mistake.  No action uses them.  The
"mutants" of `PROJECT.json` put each in the place of the original and expect the
property named there to be violated: it is how we know that the property notices.

## 4. The runs

Bounds are CONSTANTS whose names begin with `Max`; each appears in a guard.

| Run | Bounds | What it shows |
|---|---|---|
| `cr_pair` | 1 pair, 2 values, 2 deletes, 1 hiccup, a millisecond of 2 | `StampDatesItsValue`, `OnlyOrphansRegress`, `Settles`, `KeepsPromise` of one manager under deletion, re-creation, a restart, resync, relist or failed PATCH at any point |
| `cr_shared` | 2 pairs, 1 value, 1 hiccup | the manager of A3: two pairs share its informer, queue and worker; neither starves the other and both settle |
| `b_run` | 1 pair, 2 values, 2 deletes, 1 hiccup, lag 3, a millisecond of 2 | arm B on all eight hosts: `StampDatesItsValue`, `TerminatedMeansDeleted`, `NoLostWake`, `Settles`, `KeepsPromise` |
| `b2_run` | 2 pairs, 1 value, 1 delete, 1 hiccup, lag 2 | `NoLostWake`, `Settles`, `KeepsPromise` of the fused step, with a delete and a hiccup anywhere |
| `b2_negative` | 1 pair, 1 value, a millisecond of 1 | violation, see 6 |
| `window_change` | 2 pairs, 2 rounds, 3 destination writes, 1 hiccup, a millisecond of 2 | `ObservedOnce`, `ReactionIsSane`, `SummaryIsObserved`, `TicksAreWholeRounds`, `WindowEnds` |
| `controls` | n up to 2, 4 commands, 1 failing request | `ProvedByThisArm`, `FixturesAreExact`, `CommandsReturn` |
| `ladder` | 5 ladders of 2 or 3 cells, 2 hiccups | `ForeignersCameBack`, `MeasuresFreshPrograms`, `NoFailureRecorded`, `LadderEnds` |
| `ladder_stale_spec` | the fused arm at sizes 2 and 1 | violation, see 6 |
| `counters` | 2 workers, or radiant; 1 tick each, 4 calls, 1 restart | `NeverOverstated`, `ExactWhenNobodyExits` |
| `counters_reset` | 1 worker, 3 calls, 1 restart | violation, see 6 |
| `bench_run` | 3 pids of which 2 are wanted, 2 addresses, 2 moves of processes or connections, files of 3 lines; two runs and one `size`; 5 pages of shared text, which no two or three divide | `PopulationBracket`, `TextCountedOnce`, `ConnsBracket`, `CodeAgreesWithCloc`, `PrintedRunsPassed` |

Why these bounds are enough to be interesting:

* *Two values* is what a stale value, a regression, a torn stamp and a late
  obligation take; *one hiccup* (restart, relist, failed PATCH, unknown answer,
  dropped obligation) can fall at every point, and the deletes are bounded apart
  from it, so the two combine.  Two deletes let both members of a pair go and
  come back.  Two pairs are what it takes to confuse pairs, and to starve one.
* *Lag* (`MaxLag`) is how far the watch may be behind when the host services one
  more obligation.  A host that is never allowed to catch up can be made to write
  for ever; 1 to 3 undelivered events cover a pass before, between and after its
  own writes come back.  Harness writes are not limited by it.
* `controls`: four commands are a proof, a changed size, and a proof again, with
  one to spare.  `window_change`: three destination writes are a value, a stamp
  for it, and one more after the watch has expired.
* `ladder`: a rung that shrinks leaves workers above the new size, and two hiccups
  are a failed teardown and a crash that hides its survivors from preflight.
* `bench_run`: a third pid is the supervisor, the other arm's process or the pod that
  is still starting; two moves are a worker that execs and one that dies within one
  walk, or a connection that moves while its owner exits.  Every walk is bounded by
  the same two, which may all fall in one of them.  Three lines open a block comment,
  have it closed, reopened or not, and go on.
* `cr_pair`, `b_run`, `window_change`: with two ticks to the millisecond the second
  value's stamp is exact and the first one's is rounded below its origin.  In
  `b2_negative` a millisecond is one tick, so what it shows is the order of the clock
  and the reads, not the rounding.  `cr_shared` and `b2_run` say nothing about stamps.
* `window_change` covers both kinds of arm: the lower bound of `ReactionIsSane` is met
  exactly by one that reads its clock after its sources and is not claimed of the other.
* `counters`: four calls are enough for a restarted process to pass its earlier
  reading.

Deadlock is not checked: every harness is bounded, so every run comes to rest.

**Symmetry** is not used: pairs are ordered in `Fixtures`, `SetSource`, and in the
positions the fused resume compares.

## 5. Fairness

Only what the code's scheduling gives.  The harness, the resync, hiccups and
orphans are never fair.

* `CRRelay`: strong fairness for `Take(k)`, since the workqueue is FIFO and hands
  out every key it keeps being given; weak fairness for the worker's next step and
  for the watch.  `Settles` so holds *without* the resync period.
* `PerseidRelay`: weak fairness for the steps of a pass, delivery and the park
  check; strong fairness for servicing obligations, which the lag bound may
  interrupt.  Exactly one wake is fair, the index's or the poll's, and the run
  covers both; the backstop is never needed.
* `FusedRelay`: as above with the index's wake, and servicing is strongly fair
  *for each destination*.  With one fairness condition for all of them a host that
  always prefers one pair's obligation starves the other, and TLC shows it.
* `Window`: the deadline passes; `measure`, which runs `Load` itself, and its watcher's
  goroutine are scheduled; nothing of the arm.
* `Ladder`: the harness moves, because each of its waits has a deadline; nothing of
  the workers.  `Controls`: a command keeps issuing its requests, nothing of the
  arm.  `Counters` and `Bench` have safety properties only.

## 6. Where the code and its own words disagree

Three runs check a statement the repository makes and TLC finds it violated:

* `b2_negative`.  `measure.go` says that a stamp earlier than the write it reacts
  to "on a single host cannot happen", and the tables void a column that has one.
  The fused step reads the clock once, before it reads any pair, so a source
  written while the pass is under way is stamped before its origin.
* `ladder_stale_spec`.  `UpPerseids` refuses a Perseid that is already there,
  because accepting it "is what let two runs in a row measure a stale
  declaration".  `UpFused` accepts it, so after a teardown that did not finish the
  next cell measures a program with the previous cell's `RELAY_COUNT`.
* `counters_reset`.  "A COUNTER RESET IS REPORTED, NOT CLAMPED" (`apiload.go`): a
  worker that restarts and counts past its old reading before the second scrape is
  measured as if it had not restarted.

Seen while modelling, most of them present in the models, and not given a run of
their own:

* `Reconcile`'s guard reads the cache, so a pass between a PATCH and its event
  sends the same PATCH again; "ONE apiserver request per change" (crrelay
  `main.go:219`) is not an upper bound.  `Settles` shows the repetition ends.
* The last observation of arm B takes `unknown` for an empty destination
  (`relay/src/main.ts:172`), where every other one yields, and rewrites the value.
* An interrupt in a window ends the same context as the window's deadline.  For a
  manager arm nothing has to notice: the run goes on to the next window, and both are
  recorded with their full `Seconds` and printed.  What marks them is the failed
  scrape.  `Preflight.Err` is empty in that record, and in every record whose run
  failed after its preflight, although it is said to be non-nil "whenever that
  reading would not be safe" (`run.go:67`).
* `conns.go:65` says that "a caller that cannot enumerate the endpoints gets an error
  rather than a zero", and `apiEndpoints` drops an `-apiserver` that does not parse.
  One that names the ClusterIP again counts every connection twice.
* The host's connections (`run.go:543`) are kept without the flag that says whether
  every table could be read; the arm's are kept with it.
* `ConnsTo` attributes a connection "to the process that holds it", but reads the
  table of a network namespace: processes that share one are each given all of it.
* An image that the library does not list is zero bytes, next to the line that calls
  a missing artifact reported so "the smallest possible lie" (`size.go:119`).
* Blank lines inside a block comment are comments to `CountSource` and blank to cloc;
  only the code lines agree "to the line", as `CodeAgreesWithCloc` shows, and only in
  a file without a `Tangled` line.  `CountSource` lets any `*/` end a comment
  (`size.go:205`, `212`) and looks no further, so a line with code that begins or ends
  in a block comment or begins with one is misread, and after a line that closes one
  comment and opens another, or after a `/*/`, comments count as code.
* A reaction below one millisecond may come out negative in every arm: A stamps
  `UnixMilli` (`crrelay/main.go:225`), B and B2 `now()` in whole milliseconds
  (`relay/src/main.ts:51`, `206`; `fused/src/main.ts:52`), while the origin is
  `UnixNano` (`measure.go:34`).  The table then voids the column, as if two clocks were
  at work, which `measure.go:112` says is the only way to get one on a single host.
  `StampDatesItsValue` and `ReactionIsSane` bound the error by a millisecond for A and
  B; B2 is `b2_negative`.
* Placement and config delivery are looked at once.  If a leftover of the arm stands
  in for a program that has not started, that program may start anywhere later.
* The baseline of A3 and of B2 creates the arm's one worker and waits for none; the
  wait passes if it looks soon enough, and the cell then fails its health check or its
  population control.
* `ProveConvergence` "waits until every destination carries it"; one that does not
  exist is in no list and is not waited for.
* The ladder ignores the outcome of `bench down`, and the pod arms and B2 accept
  what is there, so a cell may measure a process that is still being deleted, which
  is what the wait in `Down` is said to prevent.
* The check that the CPU population held compares the number of processes and the
  sum of ticks; a restart can leave both as they should be.
* `APIErr` carries the population's note and the scrape's error; the second
  replaces the first.  Its `case apiErr != nil` (`run.go:592`) is unreachable, since
  a failed first scrape returns a nil map, which an earlier case takes.
* On a radiant with no per-program series both readings are sums over nothing, and
  their difference is reported as a measured zero.
* "Radiant's counters bracket the SAME window as everything else, so the delta is over
  one interval" (`run.go:519`): the bucket is scraped before the per-program series at
  both ends, so a write between the two scrapes is in one delta and not in the other,
  and our programs may be reported with more writes than radiant as a whole.
* A family of radiant's bucket that registers with its first count inside the window is
  left out of `HostCounters`, where `DeltaByMethod` counts the same case from zero.
* `endpoints` knows arm B but not B2, which falls through to pod addresses;
  `HostCounters` are filled for arm B only.
* `WatchDestinations` reopens an expired watch at the same version without listing,
  so a version the apiserver no longer has is retried until the deadline.

## 7. Proofs

| Module | Theorem | States |
|---|---|---|
| `CRRelay_proofs` | `InductiveInvariant`, `TypeCorrect` | `Spec => []IInv`, `[]TypeOK` |
| | `StampsAreRight` | `[]StampDatesItsValue` |
| | `ImplementsPromise` | `Spec => KeepsPromise` |
| | `NothingElseRegresses` | `Spec => OnlyOrphansRegress` |
| `PerseidRelay_proofs` | `InductiveInvariant`, `TypeCorrect` | `[]IInv`, `[]TypeOK` |
| | `StampsAreRight` | `[]StampDatesItsValue` |
| | `ImplementsPromise` | `Spec => KeepsPromise` |
| | `OnlyDeletesTerminate` | `[]TerminatedMeansDeleted` |
| | `NoWakeIsLost` | `[]NoLostWake` |
| `FusedRelay_proofs` | `InductiveInvariant`, `TypeCorrect` | `[]IInv`, `[]TypeOK` |
| | `ImplementsPromise` | `Spec => KeepsPromise` |
| | `NoWakeIsLost` | `[]NoLostWake` |
| `Window_proofs` | `InductiveInvariant`, `TypeCorrect` | `[]IInv`, `[]TypeOK` |
| | `EachVersionOnce` | `[]ObservedOnce` |
| | `ReactionsAreSane` | `[]ReactionIsSane` |
| | `TicksAreRounds` | `[]TicksAreWholeRounds` |
| | `DenominatorsAddUp` | `[]Balanced`: everything observed is accounted for |
| | `RankIsNearest` | the rank is an index of the sample, the least whose position holds `q` percent of it |
| | `RankIsMonotone` | a larger percentage never has a smaller rank, so p50, p90 and p99 are in order |
| | `QuantileIsNearestRank` | in a sorted sample, `quantile` returns an observed value, with at least `q` percent at or below it and less than `q` percent below |
| | `SummariesAreObserved` | `[]SummaryIsObserved`: of every window that closes, however sorting orders equal samples |
| | `CountersInductive`, `CountersTypeCorrect` | `CountersSpec => []CountersInv`, `[]CountersTypeOK` |
| | `CountersNeverOverstate` | `[]NeverOverstated` |
| | `CountersExact` | `[]ExactWhenNobodyExits` |
| `Ladder_proofs` | `InductiveInvariant`, `TypeCorrect` | `[]IInv`, `[]TypeOK` |
| | `StrangersCameLater` | `[]ForeignersCameBack` |
| | `ProgramsAreFresh` | `[]MeasuresFreshPrograms` |
| | `FailuresAreCaught` | `[]NoFailureRecorded` |
| `Bench_proofs` | `InductiveInvariant`, `TypeCorrect` | `[]IInv`, `[]TypeOK` |
| | `WalkKeepsTheWorkers` | `[]PopulationBracket` |
| | `TextIsCountedOnce` | `[]TextCountedOnce` |
| | `ConnectionsAreBracketed` | `[]ConnsBracket` |
| | `CodeLinesAreCode` | `[]CodeAgreesWithCloc` |
| | `PrintedIsMeasured` | `[]PrintedRunsPassed` |
| | `ControlsInductive`, `ControlsTypeCorrect` | `ControlsSpec => []ControlsInv`, `[]ControlsTypeOK` |
| | `ProofsAreEarned` | `[]ProvedByThisArm` |
| | `NamespaceIsExact` | `[]FixturesAreExact` |

*Assumptions.*  Only the named ones on the constants, which every run evaluates.  Each
bound is a natural number, so it limits no finite behaviour.  Beyond that there is at
least one pair (`ClusterAssumption`, `WindowAssumption`, `ControlsAssumption`); arm B's
pair is one of them (`ProgramAssumption`); B2 walks at most all of them
(`CountAssumption`); a millisecond is at least one tick of the clock, however many
(`ClusterAssumption`, `WindowAssumption`); ladders are
finitely many, not empty, and made of cells (`LadderAssumption`); pids are finitely
many numbers and a process maps something alone (`SamplingAssumption`); the workers are
finitely many and at least one (`CountersAssumption`); the ClusterIP
is an address, and a command is `run` or `size` of some arm (`BenchAssumption`).  The
theorems about ranks have the ranges of `q` (1 to 100) and `n` (at least 1) as
hypotheses, and that the sample is sorted.

*The relays.*  What a destination shows is not inductive: the value a PATCH carries was
read from a cache, the cache is fed by the watch, and the PATCH may land long after its
sender is gone.  `Cluster_proofs` says what holds of the pairs whatever the arm.  An
object lives in the apiserver, in the events still on the watch and in the informer's
store; `CopyOrigin` says that after a step each of these copies was there before or is
what the apiserver now holds.  On it rests `ClusterInv`:

* `HeldInv`: what a source has held was encoded by now; `ClusterGrows`: `held` and the
  clock only grow;
* `SourcesInv`: every copy of a source carries nothing or a value that source has held;
* `BareInv`: a copy that says an object is missing carries nothing;
* `OrderInv`: later copies of a source never carry an older value;
* `StandingInv`, where it is needed: an object that was never deleted is missing nowhere.

An arm then shows that each of its steps is a `ClusterStep` of the PATCHes it has in
flight (`ArmIsCluster`), and only has to follow a value through its own hands: `WorkInv`
and `OrphansInv` for the manager's worker and the requests that outlived it, `PassInv`
and `ObligInv` for a pass and for obligations that are serviced late.
`DestinationsInv` is what follows for the destinations.  For the promise, a PATCH that
lands is `Relay` with the witnesses these supply; a harness step is the abstract one;
everything else leaves the abstract variables alone.

* `OnlyOrphansRegress` compares ages, so it needs `AgeInv`: what a destination shows and
  what may still land there is no newer than what the worker is about to write, and none
  of them is newer than any copy of the source that a later pass can read.
* `TerminatedMeansDeleted` is about the program's own source: a destination deleted
  behind it must not end it.  It needs `StandingInv`: `absent` is terminal only if the
  second look finds no object, and the source is in every copy until it is deleted.
* `StampDatesItsValue` has two halves.  Value and stamp belong together because both
  leave in one write; the stamp is less than a millisecond before the origin at the
  earliest because the clock is read after the source (`Dated`, over `MillisAfter`).
* `NoLostWake` looks at one step in which something the resume compares changes: the
  informer notified somebody of it, or it was a relist, which leaves a hint.  `BareInv`
  is what keeps a relist from changing a value without anybody being told.
* B2's obligations are dated less well than B's, since the clock is read first: its
  `ObligInv` asks only that a stamp is not from the future, and `StampDatesItsValue` is
  not claimed for it (see `b2_negative`).

*The harness.*  The properties compare the end of something with what happened while it
ran, so the invariants say how far it has come.

* `Controls`: `FreshInv`, no fixture holds a sentinel that was not made yet, so whoever
  holds this one was told it in this proof; `ExactInv`, what the creating and the
  deleting half of `Fixtures` have achieved at each request.
* `Window`: `LoadInv` (the round in progress), `WatchInv` (nothing is observed before the
  list), `LogInv` (no stamp in the destinations' history is from the future or of a value
  not made yet, and it is less than a millisecond before the value it names unless the
  arm reads its clock first) and `Balanced` (the accounting of what was seen).
  `ReactionIsSane` asks for a pairing of samples, which each step extends by one.
  `SummaryInv` is that a window that closed was summarized with the record it closed
  with.  That a sample has a sorted order, so that the CHOOSE in `Sorted` finds one, is
  `OrderExists`: an order of the first m members, of which the largest is put last.
* `Counters`: a report is compared with what was true when its readings were taken, so
  an invariant over the present state says too little.  Each reading carries that truth
  as history, and two relations say how an earlier reading compares with a later one:
  `Since` (what was counted gained no more than what was made) and `Exact` (it gained just
  that, and the process was there, if nobody exited).  `CountersInv` says that each reading
  taken relates so to the next one and to what it would be if it were taken now (`Now`,
  `CPUNow`, `BucketNow`).  A process that works, calls, exits or starts moves "now" along
  (`Moves`), the relations compose (`SinceSince`, `ExactExact`, `CPUSinceSince`), and the
  report is arithmetic over readings that relate: by process, by series, and by both
  (`TotalSwap`).
* `Ladder`: a window opens on counts that were taken before it, and trusts them.
  `CreatedInv` is what the cell brought about by its own hand, `CountedInv` what the
  counts still mean after workers came and went (a count of zero: whoever is there came
  back since), `JudgedInv` what the verdict added, `ShapeInv` that a process is in a pod.
* `Bench`: `WalkInv` (whoever was a worker throughout is kept or not read yet) and
  `PssInv` (while only they have shared the text, each PSS known is an equal share of it,
  rounded down, so that n of them lose less than n of it),
  `CountInv` (the totals lie between the two histories, restricted to what has been
  asked so far), `LineInv` (counter and compiler agree on whether a comment goes on) and
  `RunInv` (what a command that has not failed has done by each pc).  That the least pid
  exists, on which both walks rest, is `LeastElement`: an induction over finite sets,
  through the library's well-founded strict subsets.

*Totals.*  The library defines a total as a fold whose parameter is an operator, and its
theorems about folds have one too, which the installed provers cannot instantiate.
`Sums_proofs` goes below them: unfolded, a total is a function chosen by its recursion
equation.  That one exists is `SummedExists`, that two of them agree `SummedAgree`, both by
`SetInduction`, which asks for a *set* of subsets where an induction theorem would ask for
a predicate.  From there a total is what one member and the rest of the set make
(`TotalRemove`), and monotone, additive, bounded, and the same by rows and by columns.

TLC checked each of the inductive invariants on the runs' instances before it was proved,
`CountersInv` with a second restart as well.

*What is only model-checked.*  All liveness: `Settles` of each arm, `CommandsReturn`,
`WindowEnds`, `LadderEnds`.  Fairness and ENABLED are beyond the prover.  The three
violations of section 6 are counterexamples, and TLC's.

The theorems' modules and what they extend declare no RECURSIVE operator, which would
cost the prover its arithmetic.

## 8. Not modelled

* Radiant's memory, peak and connections beside arm B, and `APITotals` of preflight:
  single readings, with no control that a step of another actor could upset.
* The text of `/proc`, of metrics and of `/proc/net/tcp` (`parseProcAddr`), which the
  repository's table tests cover; a pid that is used twice within one walk; and
  `CountConns`, which nothing calls.  Strings are out of TLC's reach in earnest.
* `cached`, `attribution`, `commit` and `runtimeVersions`, which describe a record and
  take no part in a control; flags and the layout of the tables.
* A1's Lease renewal, which happens inside the manager library and touches no pair.
* `perseid/probe`, a diagnostic with no state; the vendored `world.wit`; manifests and
  build scripts.
* Radiant beyond what its use shows: its source is not in the repository.
