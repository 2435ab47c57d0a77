# Verification of the S3 workload generator

TLA+ models of the benchmark tool in `src/internal`, the TLC configurations that
check them on small instances, and TLAPS proofs of the properties that matter
most. The tool runs a number of worker goroutines that draw S3 operations from a
mix, execute them with retries against a bucket, verify what they read, and
report metrics.

## The system

| Component | State | Operations | Hard behaviours | What makes it correct | Modules |
|---|---|---|---|---|---|
| Runner (`runner.go`) | opsCounter, stopChan, WaitGroup, context, gauge | Run, Stop, worker | stop, cancellation, duration and limit race; check-then-add on the limit; deferred calls | returns when asked to, with nothing in flight; limit kept up to a known overshoot | `Runner`, `WorkloadContract` |
| Operations (`runner.go`, `client.go`, `verifier.go`) | the bucket, verification counters | put, multipart put, get, delete, copy, list, head | shared keys, lost answers, retries of what was done | an object keeps the hash of its data, unless its parts sent something else | `ObjectOps` |
| Body of a PUT (`generator.go`, `runner.go`) | one reader | hash, attempt, read, seek | a reader used in part and used again | stored bytes are the hashed bytes | `PutBody`, `SeekReader` |
| Multipart upload (`client.go`) | shared reader, parts, errors, server-side upload | create, part, abort, complete | goroutines on one reader; failures of some parts; lost answers | content, accounting, return, no upload left | `MultipartUpload`, `SeekReader` |
| Retry loop (`retry.go`) | attempt, delay, context | WithRetry | deadline during call or backoff | bounded calls, right backoff, no work after the end | `RetryLoop` |
| Cleanup (`client.go`, `runner.go`) | paging token, count | list, head, delete | others write between two requests; failures are skipped | sweeps what is marked, spares the rest | `Cleanup` |
| Rate limiters (`ratelimit.go`) | token bucket, random source | Wait | reservations that queue up, waits that a stop does not end | the rate is kept, no wait is longer than a token per worker | `PacedRunner`, on top of `Runner` |
| Scheduler, key generator (`workload/`) | cumulative weights, random source | Next, NextKey | the order of a map, the boundaries of the weights | an operation is drawn by its share | `Startup`; in `ObjectOps` as free choices |
| Metrics (`metrics.go`) | counters, gauge | Record... | two counters for one event | agrees with what happened | in the modules that raise them |
| Configuration (`config.go`) | the Config | Load, Validate | defaults that stay, truncation, options checked only with others | what is accepted can be run, shares are those asked for | `Startup` |
| Size distributions (`generator.go`) | random source | Next | an empty range | | `Startup`; the parsing of their text is not modelled |
| Circuit breaker (`retry.go`) | state, failures | Call, IsOpen | no lock | | not modelled: it has no caller |
| Health handlers (`health.go`) | checkers | /healthz, /readyz | | | not modelled: no state, no caller |

How they interact: `Run` starts the workers, each of which waits for the shared
rate limiter, takes an operation and a key from the shared scheduler, and calls
an execute function. That calls `WithRetry`, whose function sends one request of
the client (or a whole multipart upload). Every request has the operation's
context, a child of the worker context which `Run` cancels. Cleanup mode replaces
the workload. The program's main package is not in the repository, so the caller
of `Run` and `Stop` is an environment that may stop the run once and cancel its
context at any moment.

`hazards` in `PROJECT.json` lists what is hard to test, each at its line.

## Modules

**`WorkloadContract`**: what a run promises its caller. Operations
of a client do not overlap and their number has a bound; once the run is asked to
close, each client begins at most one more; the call returns with nothing in
flight and is final.

**`Runner`** (`MCRunner`): `main` is the place of the goroutine inside `Run`
(setup, cleanup, spawn, select, drain, returned), `pc[w]` that of a worker: `top`
is the non-blocking select, `limit` the check of the limit, `wait` and `sleep` the
rate limiter, `count` to `exec` the increment and the execution, `exit` and
`leave` the two deferred calls. `SelectCancelled`, `SelectStopped` and
`SelectElapsed` are the arms of the select. `late` is a history variable. `Runner`
implements `WorkloadContract` under the refinement mapping in `Contract`: the
budget is the limit plus the largest overshoot less the counter.

**`PacedRunner`** (`MCPacedRunner`): `Runner` with the limiters in the place of its
undetermined wait, and a clock. A tick is the interval of one token,
`1/rateLimit` seconds. `tokens` is the bucket of `golang.org/x/time/rate`, which is
outside the repository and modelled from its use: a caller reserves one token, which
may take the bucket below 0, and sleeps until the one it owes has come; `wait[w]` is
what is left of that sleep, or of a Poisson worker's gap. A timer that has run out
may be noticed late (`Granted` needs `wait[w] = 0` and no more), and an ended
context ends the sleep (`Cancelled`). The cancelled reservation gives its token back;
the model keeps it, as nobody asks for a token any more: all workers share the
context that has ended. The caller's context is taken to have no deadline of its own,
with one the limiter gives up at once when the wait would be longer.

**`SeekReader`**: the two readers as pure operators. A byte of the random reader
is its place in the seed's stream, and `rng` says how far the generator has been
drawn, apart from `pos`.

**`RetryLoop`**: `WithRetry` statement by statement, one operation after the other. An
error is one of the classes that `isRetryable` distinguishes. The jitter, which takes
at most half of a delay away, and the counter the callers raise are left out; so is
a worker that is kept from reaching the backoff's select for the whole backoff.

**`PutBody`** (`MCPutRetry`): extends `RetryLoop` and `SeekReader`, and is the two
composed: what `WithRetry` calls is an attempt of `executePut`, after
`GenerateAndHash` has drawn the reader once. `Send` is one read of the HTTP client;
`Measure` and `Rewind` are what the SDK may do with a seekable body.

**`MultipartUpload`** (`MCMultipartUpload`): the call (`main`), the goroutines of
the parts (`pc`), the reader they share, and the uploads on the server. The
configuration is a variable that never changes, so one run covers many. Each
request is answered, refused, or carried out with its answer lost. Two admitted
parts that touch the reader at once are a data race: `SeekRaced` and `ReadRaced`
leave it anywhere and yield an unknown byte, `SourcePanics` ends the process (an
index out of range in `math/rand`). The result of a body that ends early, and of
the SDK's refusal of a body it cannot seek, is `PartFails`. `upload` is the server's upload
of each attempt: `lost` was opened without an answer, so that nobody has its ID; `refused`
is one whose abort was asked for and failed, or came with the ended context.

**`Cleanup`**: `DeleteObjectsByMetadata` page by page and request by request
against a bucket another client writes to. A DELETE that was given up, or that the SDK
repeated, stays in `late` and may be carried out (`LateDelete`) when the loop has gone on,
or ended. `lost` are the keys whose unmarked object a DELETE removed, `raced` those that
others changed while one was due. `--keep-data` is not in the module: nothing in `runCleanup`
and `DeleteObjectsByMetadata` reads it.

**`ObjectOps`** (`MCObjectOps`): the execute functions and the effect of their
requests on the bucket, metadata and verification. The content of a key and size
is a pair, and stands for its own SHA-256. A namespace tag either adds to the
metadata or, as `sha256=...`, replaces the hash. A request that was given up, or
that the SDK repeated, stays in `inflight` and may be carried out at any later time,
any number of times (`LateEffect`; of the completions of one upload the server takes only
the first, so this is more than it does). A put of at least `MultipartThreshold`, and every
`multipart_put`, is the completion of an upload here. Its parts are in `MultipartUpload`,
and `cfg.intact` stands for what that module shows of them: one part at a time with the
repeating pattern they send the source, otherwise the data may be anything (`Garbled`), beside
the hash of the source. A panic of the racing parts, which ends the process, is not in
this module. `keepData` skips the workload's DELETE.

**`Startup`** (`MCStartup`): from the options to the first operations. `Load` decodes what
was given into the defaults, `Validate` refuses or normalises, `Build` is `New`,
`WeighOp` is one turn of `NewScheduler`'s loop over a map (in any order), `Draw` is
`Scheduler.Next` for every number it may draw, `DrawSize` a size distribution, and
`Upload` the multipart call up to where it starts its parts. A text is what it parses to;
sizes are in MiB, the unit of the smallest part that `Validate` accepts. `Validate` does
not look at the names in a mix, so `unknown` is one that no operation has: it is drawn by
its share like the others and `executeOp` does nothing for it. `FloatShort` is the
normalisation's floating point: for totals up to 800 (eight names of 100) the
product `pct * (100.0 / total)` falls short of a whole number in five cases only,
and is then truncated to one less.

Operators such as `WaitDoneEarly` or `SeekPartSkipped`, placed before the
definition they vary, are deliberately wrong versions (a dropped guard, a missing
reset) with which each property has been seen to fail; no specification uses them.

## Runs

Properties that hold:

| Run | Instance | What it shows |
|---|---|---|
| `runner_safety` | `PacedRunner`: 3 workers; limits 0, 1, 2, 4 without pacing, 0 and 2 with each limiter; bursts of 1 and 2; gaps of 0 and 1 ticks; 3 ticks; setup and cleanup configurations | overshoot below the number of workers, drained return, gauge clear at return, one late operation per worker, no unjustified exit, the invariant of the proofs; the rate is kept, waits are bounded and distinct |
| `runner_live` | `Runner`: 2 workers; limits 0 and 2 | refinement of the contract; a stop, cancellation or expired duration makes `Run` return; a limit ends the workers |
| `put_retry` | `PutBody`: 2 PUTs, several `--max-retries`, both readers, several sizes and buffers, ends of the context anywhere | call bound, one late call, backoff schedule, no unjustified retry, stored bytes are the hashed bytes, termination |
| `multipart` | serial uploads of 0 to 3 parts with retries; 3 parts, two at a time, with data races; both readers | a serial upload of a fixed pattern stores its source; every part accounted for at the join, one record per attempt, the call returns |
| `cleanup_sweep` | 5 keys in pages of 2, one foreign write, one fault, late DELETEs, cancellation | sweep; an unmarked object goes only if it was put while a DELETE of its key was due; exact count; termination |
| `objects_integrity` | 2 workers on 2 keys, all operations, sizes below and at the multipart threshold, lost answers, retries, requests carried out late | data and hash part only where parts did not send the source; counters |
| `startup` | 14 mixes, all failing checks, sizes of each distribution, 512 choices of part options | operations are drawn by their shares; shares proportional up to the truncation; before its parts start an upload panics or hangs only through two gaps of the validation |

Properties stated by the documentation or the comments that the code does not
have (`findings` in `PROJECT.json` quotes each line):

| Run | What happens |
|---|---|
| `runner_hang` | a limited run without a duration never returns: the workers end, the select in `Run` does not watch them |
| `runner_gauge` | the first worker to leave sets `s3_active_workers` to 0 while operations run |
| `multipart_random` | parts of random data differ from what was hashed, even one at a time, because a Seek ahead leaves the generator behind |
| `multipart_orphan` | every part is sent, the completion fails, and the call returns without having asked for an abort |
| `startup_mix` | `--mix get=95,head=5`, the documentation's read-heavy workload, is added to the default mix: a third of the operations are puts |

Other disagreements met while modelling, which are plain in the code and have no
run of their own:

* `docs/CLI.md:31` says that `--operations` "overrides duration"; the duration ends
  such a run all the same (runner.go:153), and the total may be exceeded
  (runner.go:196; `QuotaOvershoot` says by how much).
* `docs/CLI.md:71` calls `--max-retries` "Maximum retry attempts"; it is the number of
  calls, and with 0 nothing is tried (retry.go:40). `docs/CLI.md:72` has an "Initial
  retry backoff" that nothing reads.
* `metrics.go:95` says "Total number of retries by operation"; the counter is raised
  when an operation has failed for good (runner.go:284).
* `metrics.go:74` says "Total bytes read from S3"; the announced length is counted
  before the body is read (client.go:213).
* `docs/CLI.md:86` says of `--cleanup` "delete only tool-created objects". The DELETE is
  unconditional and the mark was read by an earlier HEAD (client.go:527 and 528): an object that
  another program puts in between is deleted without the mark. `lost = {}` is therefore
  not true of `Cleanup` (List, Head, OtherClient, Delete); `UnmarkedSurvives` says that
  nothing else loses an unmarked object.
* `docs/CLI.md:85` and config.go:176 say of `--keep-data` "Keep data (skip cleanup
  deletes)". It is the workload's DELETE that is skipped (runner.go:375); the cleanup
  deletes whether it is set or not (runner.go:118).
* Failures of the HEAD and the DELETE in the cleanup are logged and skipped, and success is
  reported (client.go:518). A DELETE that was given up may still be carried out afterwards;
  `UnmarkedSurvives` and `DeletedIsConfirmed` say what is true of it.
* An abort uses the operation's context, which may be what ended the parts (client.go:443),
  and its failure is only logged; an initiation whose answer is lost leaves an upload that
  nobody can abort (client.go:363).
* The size that decides over multipart counts only with `--multipart-enabled`, but the data
  of every multipart object with a random pattern, or with more than one part at a time, may
  differ from the hash stored with it: a verification of it then fails (`HashesFit` has the
  exception).
* A namespace tag `sha256=...` or `created-by=...` replaces the metadata the tool relies
  on (verifier.go:88).
* Parts in parallel use one reader without a lock, whatever the pattern
  (client.go:401); `multipart` includes the races.
* `docs/CLI.md:239` says percentages "will be normalized to 100%". They are truncated: a
  share below one percent becomes 0, the sum may be less than 100, and floating point
  takes another point in five cases (97 of 97 becomes 99). `SharesNearProportional` and
  `DrawsFollowShares` say what is true.
* config.go:304 says "S3 supports up to 10,000 parts per upload" over a check of
  `MultipartMaxParts`, which is the number of parts at a time (client.go:379).
* The part options are checked with `--multipart-enabled` only (config.go:294), but an
  operation `multipart_put` in the mix uses them without: 0 parts at a time hangs, a
  part size of 0 panics. `uniform` sizes with min above max panic. `StartBreaksOnlyUnvalidated`
  says that these are all before the parts start. After that validated options may panic too:
  the parts race on one reader (`SourcePanics` in `MultipartUpload`); and a limited run
  without a duration hangs (`runner_hang`).
* `docs/CLI.md:64` and ratelimit.go:53 give the mean rate of the Poisson limiter; each
  worker draws and sleeps a gap of its own, so the rate grows with the workers.
* A flag or `S3BENCH_` variable of two words (`--max-retries`) is bound under its dashed
  name, the field under `max_retries` (config.go:60 and 192): without code outside the
  repository that renames the flags, such an option has no effect.
* `--random-keys` (`docs/CLI.md:45`) is read by nothing: keys are always random.
* `random:0` passes for "no seed" (generator.go:67) and yields zero bytes.
* A mix may name an operation that does not exist: it is drawn, counted, and does
  nothing (runner.go:227).

### Bounds

Every bound is a constant. `CounterCap` saturates the operation counter; it lies
above every limit plus the workers (an assumption of the module), so it matters
only without a limit; in `runner_safety` it also lies above what burst and ticks
allow, so that `RateConforms` compares the true count. Three workers are the smallest
number for which an overshoot of more than one, a gauge cleared under two others, a
drain with workers in three different places and two workers in debt at a time all
happen; the proofs cover every other number. `MaxTicks` stops the clock: with three
ticks every one of three workers in the debt of one bucket can be served, and the
waits end after it as well, but `RateConforms` is about the ticks before. `SomeRates`
gives a burst of one and of two tokens. Liveness is checked with two workers and
without a clock.

Sizes of the data exceed the buffers and the parts so that short reads, a short last part and
reads across part boundaries occur; size 0 is included. `OtherWrites` and `Faults` are
budgets of the environment: one write and one fault, which may come together and at
every point of the run. `OpsBound` and `Operations` bound how many operations are
begun, two workers and enough of them that a GET overlaps an overwrite and a retry.
`inflight` is a set: a request may be carried out any number of times, so a second
copy of it adds nothing. `Startup`'s instances are the boundaries of each check
(4 and 5 MiB, 0, 1 and 10001 parts), the totals that are 100, above, below and 0, and
cases that floating point truncates.

### Fairness

Weak fairness of each goroutine (`MainStep`, `WorkerStep(w)`) is what the Go scheduler
gives; of the parts of an upload some one that can go on does, which is weaker and
suffices. The timer fires because `time.After` does. A request ends because
`--op-timeout` gives it a context with a deadline, which also ends a PUT that goes on
reading and rewinding its body (`PutStep`); a limiter's wait has a finite timer. A
select with several ready arms is taken in any way. Nothing is assumed of the caller,
of the ends of contexts, of other clients or of failures.

## Proofs

All are checked by TLAPS for every value of the constants that satisfies the named
assumptions (`RunnerAssumption`, `RetryAssumption`, `CleanupAssumption`,
`ObjectOpsAssumption`, `MultipartAssumption`, `PacedAssumption`, `PutBodyAssumption`,
`SeekReaderAssumption`, `StartupAssumption`). Every invariant that the runs check is a
theorem, and so are the action properties and the refinement of the contract.

* `InductionFacts`. Induction over the natural numbers as two facts about sets, because the
  provers do not instantiate the library's induction theorems with an operator: a set of
  numbers has a least one (`LeastNumber`, from the library's `WFMin`), and a set that holds
  0 and with each number the next holds all (`SetInduction`).

* `RunnerProofs`. `IInv` is inductive (`Inductive`). The limit's bound is not
  inductive alone: what is preserved is `QuotaInv`, the counter plus the workers
  that passed the check and are not counted yet. A worker enters that set only with
  the counter below the limit, and the set has at most as many members as there are
  workers. `WgInv` ties the WaitGroup to the set of live workers, so `wg = 0` in the
  drain means that all are done; `GaugeInv` says that while the gauge is up some
  worker has still to clear it; `LateInv` that a worker past the top of the loop has
  not begun a late operation before. From it follow `TypeCorrect`,
  `QuotaOvershootBounded`, `ReturnIsClean`, `GaugeIsCleared`, `AtMostOneLateOp`, `WorkersQuitForCause`, and
  `RunnerImplementsContract`: initial states map to initial states, and each action
  to an action of the contract or to a stutter.
* `PacedProofs`. `PacedRefinesRunner`: each step of a paced run is a step of the runner or
  leaves it alone, so that everything above holds of it. `BucketInv` is inductive on
  top of `IInv`: the tokens that are owed are exactly those that the waiting workers wait
  for, one each (`DebtInv` with `WaitersSpread`), and tokens, counted operations and
  workers that hold a token without an operation together never exceed the burst and the
  ticks (`TokensInv`). That the debt is at most the number of waiting workers
  (`DebtWithinWaiters`: a map of tokens to workers is injective) gives `FixedRateKept`
  and `WaitsAreBounded`.
* `RetryProofs`. `RetryInv`: `attempt` numbers the calls (`CountInv`), and a call that
  began late is the last one, because the backoff never sleeps with an ended
  context (`LateInv`). Hence `RetryCallsBounded`, `RetryOneLateCall`, `RetryRepeatsRightly`.
  `DelayInv` ties the delay to the power of the factor that the calls made so far stand
  for, and cutting each delay at the maximum is the same as cutting the last one
  (`NextIsCut`, `RetryBacksOff`). The powers are a recursive function; that it is defined
  for every number is proved by induction over its tables (`PowersExist`, `PowersAgree`).
  About the body of a PUT: `ReadInSync`, `SeekStartInSync` and `MeasureInSync` are facts
  about the readers; with `Continues` (the bytes read extend the prefix of the source) they
  give `PutStoresHashed` and `PutReaderInSync`. `PutRefinesRetry`: a PUT with its body
  implements the bare retry loop, so the theorems about that hold of it.
* `CleanupProofs`. `CleanupInv` is inductive. `CleanupSparesUnmarked`: a key is `Due` from
  the HEAD that found its mark until its DELETE is carried out, late ones included, and
  `DeleteInv` says that the object of such a key is not unmarked unless others have
  changed it meanwhile. `SweepInv`: until it is deleted, a marked key that nothing disturbed is on
  the page or ahead of the token, which is the last key of the page (`PageInv`), so
  deleting behind the token loses none (`CleanupSweeps`). `BehindInv`: what was deleted or
  skipped is behind the token and off the page, so that no key is counted twice, and
  `LateInv` that a DELETE that is late changes nothing that was counted
  (`CleanupTypeCorrect`, `CleanupCounts`).
* `ObjectProofs`. `ObjectInv` is inductive. `SoundInv`: unless a tag names `sha256`,
  whatever is in the bucket or on its way to a worker fits its hash or went up in parts
  that did not send the source, and `EffectSound` that no request, on time or late, changes
  that; hence `HashesAlwaysFit`. A verification counts a failure only after the total
  or while its worker is between the two counters (`CountersAgree`).
* `MultipartProofs`. `MultipartInv` is inductive. `JoinInv`: until the parts are joined,
  errors and entries together are as many as the parts that have ended, and only those
  have entries; a set of entries with as many members as there are parts is all of them
  (`PartsAccounted`). `RecordInv`: the calls recorded are the attempts begun, less the one
  under way (`AttemptsAreRecorded`). `PartsWithin`, that no part begins beyond the
  object, is the arithmetic of the division that counts the parts; with `ReadWithin` and
  `SeekWithin` no read or race takes the reader outside its data
  (`MultipartTypeCorrect`). `SerialUploadsStore` is about the content, one part at a time:
  `SerialInv` says that at most one part holds the semaphore, that the reader stands where
  this part goes on, and that what any part has sent is the beginning of its piece; a race
  needs two parts, and what a failed attempt has left in the reader is undone by the Seek of
  the next part. The object is a fold over the parts. `FoldUnfolds` shows that the fold is
  defined and appends one part after the other, and `PiecesMakeSource`, by induction over
  the parts, that the pieces make the source; `PartsFill` is the arithmetic it needs.
* `StartupProofs`. `StartupInv` is inductive. `ShareIsNear` is the arithmetic of one share,
  the five cases of floating point included, and `SharesAreMix` adds them up for a mix of
  any of the eight names (`SharesAreNear`). `WeighInv`: in whichever order the map is
  visited, the scheduler holds each operation with a share once, and its weight is the one
  before it plus the share. The first weight above a number exists (`PickIsFirst`) and the
  numbers for which it is a given one are an interval as long as the share (`DrawsFollow`).
  `PartsAreFine`: with options that `Validate` accepts the count of the parts is not
  negative and the semaphore has room, so that before the parts start only the two gaps of
  the validation are left (`StartBreaksAreUnvalidated`).

Only model-checked: liveness (`ShutdownCompletes`, `LimitEndsWorkers`,
`UploadReturns`, `OperationsEnd`, `CleanupEnds`), since the prover does not handle fairness
and `ENABLED`. Of the arithmetic, `FloatShort` itself was found by computing the product of
`config.go` for all percentages and totals; the proofs take it as the model's definition.
No module with proofs declares a RECURSIVE operator: `Power` is a recursive function.

## Not modelled

* The circuit breaker (`retry.go`): nothing in the repository calls it, so which
  goroutines share it, and what they expect of it, is not determined.
* The health and readiness handlers: no state, and nothing registers a checker.
* Text: the formatting of keys, the parsing of sizes and patterns, the names of options
  and where their values come from. `VerifyKey` and `NormalizeMix` have no caller.
* Quantities: latencies, the jitter, the distribution of random draws. The byte,
  latency and retry metrics are left out of the models, with the divergences above.
* The SDK beyond what the code relies on: its rewind of a body and its repeated
  requests are in `PutBody` and `ObjectOps`.
* The main package, which is not in the repository; images, manifests and scripts.

## Plan

Done: every component but those above, and a proof of every safety property that the runs
check. What is left:

1. The safety half of the liveness properties: that a state in which a run, an upload or a
   cleanup has not ended always has a step that goes on (no deadlock), and a measure that
   each such step lowers, as invariants and action properties that can be proved.
2. What `ObjectOps` promises a reader of the bucket as an abstract specification, with
   `ObjectOps` shown to implement it.
