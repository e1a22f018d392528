# TLA+ models of the fundex query load manager, stopwatch, retry helper and HTTP transport

This directory holds TLA+ specifications of the concurrent parts of this
repository's Rust code and the TLC configurations that check them. Every
module is written from the source under `src/`. `PROJECT.json` maps each
definition to the lines it models.

## The system

| Part | Source | Concurrency and state |
|---|---|---|
| Query load manager | `src/src/data/graphql/effort.rs` | Many GraphQL handlers call `query_permit`, `decide` and `record_work` at the same time. Shared state: the fair tokio semaphore `query_semaphore`, `jailed_queries`, `kill_state` (kill_rate, last_update, overload_start, last_overload_log), `QueryEffort` (per-shape and total moving stats) and `semaphore_wait_stats`. Each lives behind its own lock. `decide` takes them one after another and never holds two at once. |
| Section stopwatch | `src/src/components/metrics/stopwatch.rs` | `StopwatchMetrics` is `Clone`. All clones share one mutex-protected stack of section names, a timer and a counter per section. A `Section` guard ends its section on drop. `disable` is an atomic flag. |
| Retry helper | `src/src/util/futures.rs` | A builder whose properties may be set once each, then `run_retry` over `tokio_retry::Retry::spawn`. Each attempt can succeed, fail or time out. A condition (`RetryIf::Error` or a predicate) decides whether to retry. An exponential backoff is cut to `limit - 1` delays. |
| HTTP transport | `src/web3/src/transports/http.rs` | An event loop sends requests through `buffer_unordered(max_parallel)` and answers each caller through a oneshot channel. Request ids come from an `AtomicUsize`. |
| Event signatures | `src/src/util/ethereum.rs` | Pure string formatting, a Keccak hash, and the event lookup with its unique-name fallback. |
| Status, PoI, spawn, traits | `src/src/data/sub/status.rs`, `components/sub/proof_of_indexing/mod.rs`, `task_spawn.rs`, the `mod.rs` files | Formatting, tests, spawn wrappers and declarations. |

### How the load manager's parts interact

A handler first awaits a permit. The wait time feeds `semaphore_wait_stats`.
The handler then calls `decide`:

1. Blocked shape: `TooExpensive`.
2. Load management disabled (`LOAD_THRESHOLD = 0`): `Proceed`.
3. Jailed shape: `TooExpensive`.
4. Otherwise `decide` calls `overloaded()`, the larger of the store's and the semaphore's average waits against the threshold, and reads a snapshot of `(kill_rate, last_update)`. It returns `Proceed` when the system is not overloaded and nothing is being dropped.
5. It reads the effort. With no effort recorded at all it returns `Proceed`.
6. It may jail a shape that takes more than the jail threshold of the total.
7. Otherwise `update_kill_rate` may step the kill rate and commit it under the write lock. Then a random draw with probability `kill_rate * q / t` throttles the query.

If the query runs, `record_work` adds its duration. The permit is dropped at
the end of the request. Every one of these lock sections is a separate atomic
step, and the hard behaviours come from their interleaving:

- Commits computed from stale snapshots.
- `now` read before the lock.
- A jail test that reads the jail set before another handler adds the shape.

## Modules

| Module | Models | State (variables) | Actions |
|---|---|---|---|
| `KillState` | The pure part of the kill-rate control: `KillState::new`, the step up and down, the interval check, `log_event` and the commit under the lock. | none (operators) | n/a |
| `LoadManager` | Handlers around the load manager. | `clock`, `killState`, `jailed`, `effort` (shape to summed duration), `total`, `storeAvg`, `semWait`, `permits`, `waitQ` (FIFO semaphore), `pc`/`loc` per handler, `served` | `QueryPermit`, `Grant`, `AddWaitTime`, `DecideAdmission` (blocked, disabled, jailed), `Overloaded`, `ReadKillState`, `ReadEffort`, `JailQuery`, `UpdateKillRate`, `CommitUpdate`, `DropOrProceed` (both outcomes of `gen_bool`), `RecordWork` (with `AddEffort` = `QueryEffort::add`), `ReleasePermit`. The environment steps are `Tick` and `PoolWaitChange`. |
| `KillRateControl` | Only the control loop of `decide`, with unbounded time. Time is unbounded because once the clock reaches its horizon, every stored instant moves back one tick (`TickAtHorizon`). Only differences of instants matter, and differences longer than the horizon are merged. | `clock`, `overloadedNow`, `killState`, `pc`, `snap` | `Snapshot` (lines 350-354), `EarlyReturn` (no effort or jailed), `Update` (before the lock), `Commit` (under it), `Tick`, `TickAtHorizon`, `LoadChange` |
| `Stopwatch` | `StopwatchMetrics` shared by several tasks. Each task drops its guards in scope order. | `clock`, `disabled`, `stack`, `timer`, `counter`, `guards` (per task), and the history variable `onTop` (time each section spent on top while enabled) | `StartSection`, `EndSection` (drop of the innermost guard, matching / mismatched / empty stack), `Disable`, `Tick` |
| `Retry` | One call of the retry helper after another. | `phase`, `condition`, `limit` (`RetryConfigProperty`), `mode` (timeout or not), `remaining` (delays left), `attempts`, `last`, and the history variable `sets` (limit()/no_limit() calls) | `When`, `Limit(n)`, `NoLimit` (panic when set twice), `ChooseTimeout`, `Run` (unwrap panic, strategy, `limit - 1` at 0 in both build modes), `Attempt` (with `Check` = `RetryIf::check` and `IsElapsed`), `NewCall` |
| `HttpTransport` | The web3 HTTP transport: callers calling `prepare` and `send`, the event loop spawned in `with_event_loop_internal`, and the owner dropping the event-loop handle. | `nextId` (the `AtomicUsize`, wrapping at `2^IdBits`), per caller `pc`, `calls`, `reqId` and `answer` (the request it answers and the result), `loopUp`, `writeQ` (the unbounded mpsc queue), `inflight` and `ready` (the `buffer_unordered` slots: sent, and answered by the server), `current` (the response `for_each` is handling), and the history variable `dropped` | `Prepare` (`fetch_add`), `PrepareEmptyBatch` (`send_batch` with no call: id 0), `Send` (for `send` and `send_batch`: one request under the first call's id) (`unbounded_send`, or `BrokenPipe` once the loop is gone), `Abandon` (the caller drops its `Response`), `Consume`, `Pull` (a free slot takes the next request), `Respond(r)` (the server's answer: success, bad status or hyper error), `Yield` (any ready response, in any order), `Finish` (status check, body read that may fail, `tx.send` to a live or dropped receiver), `DropHandle` (the loop stops and every pending `tx` is dropped, so its caller gets `Canceled`) |
| `RpcChannel` | What the transport promises a caller, with no queue or ids: call, reply once, give up, shutdown that cancels waiting calls and fails later ones at once, and every waiting call eventually answered. | `rpcPc`, `rpcRes`, `rpcDown` | `Call`, `FailFast`, `Reply`, `GiveUp`, `Take`, `Shutdown` |
| `Admission` | What the load manager promises a request, with no kill rate, effort or clock: a FIFO semaphore with `MaxConcurrent` permits, one decision per request, blocked shapes always refused, other shapes refused only when they are in the jail (which only grows), and Proceed or Throttle for any unblocked shape, because the jail test may be stale. | `aPc`, `aShape`, `aResult`, `aQueue`, `aFree`, `aJailed` | `Arrive`, `Admit`, `Refuse`, `Decide`, `Execute`, `Release` |
| `MC*` | Model values and small sets for the configurations. | | |

### Data abstraction

- **kill_rate** is an f64 in [0, 1]. Here it is an integer in `0..KillScale` with `KillScale = 10`, so the step up of 0.1 is one unit. The asymptotic step up `0.1 * (1 - kr)` is rounded up to a whole unit: the f64 rate keeps rising towards 1.0 while below it, and so does the model's, which reaches `KillScale`. The step down is `max(0, kr - 2)`, exact as in the code.
- **Instants** are clock ticks.
- **Durations** are counted in units of `1/SubMs` ms. This lets `as_millis` truncate a non-zero duration to 0 ms, as it does in the code.
- **Draws and results are nondeterministic.** `gen_bool(p)` is both outcomes wherever `p` allows them. In the retry helper, an attempt's result and a predicate's verdict are nondeterministic choices too.
- **MovingStats** (`util/stats`, not in this tree) is abstracted:
  - the effort as an unwindowed sum per shape. In the code a shape's bins are pruned only on its own `add_at` and the total's on every add, so a shape's effort can exceed the total. The model cannot show that, and no property depends on how the two compare;
  - the semaphore wait as a cumulative truncated average;
  - the store's average as an environment value.
- **Logging, metrics gauges and message text** are left out.

## Runs

| Run | Config | Expect | Checks | What it shows |
|---|---|---|---|---|
| LoadManager_admission | `LoadManager_admission.cfg` | pass | TypeOK, AdmissionSpec | `LoadManager` refines `Admission` through the mapping `Adm`: every step of `decide` before its return is *deciding*, and the decision is the handler's result. Permits go out in arrival order and come back after each request's one decision; a blocked shape is always refused, and another shape only while the jail holds it. |
| LoadManager_nan | `LoadManager_nan.cfg` | violation | ThrottleNeedsKillRate | Sub-millisecond effort gives a NaN probability, clamped to 1: every query reaching the draw is throttled at kill rate 0. |
| LoadManager_last_update | `LoadManager_last_update.cfg` | violation | LastUpdateMonotonic | Two commits land out of order and `last_update` moves back. |
| KillRateControl_live | `MCKillRateControl.cfg` | pass | TypeOK, Recovers, Engages | After an overload ends for good, kill_rate returns to 0 and overload_start is cleared. While an overload lasts, kill_rate rises above 0 and overload_start is set. Both hold with concurrent stale commits. |
| KillRateControl_overload_start | `KillRateControl_overload_start.cfg` | violation | OverloadStartConsistent | A stale calm commit after `Resolved` leaves `overload_start = None` with kill_rate > 0. |
| Stopwatch | `Stopwatch.cfg` | pass | TypeOK, TimeAttributedToTop | Every section's counter gets exactly the time it spent on top of the stack, including after mismatched ends. |
| Stopwatch_shared | `Stopwatch_shared.cfg` | violation | StackReturnsToBase | Two tasks that nest correctly still corrupt the shared stack. |
| Retry | `Retry.cfg` | pass | TypeOK, AttemptsWithinLimit, GivesUpOnlyAtLimit, PanicsOnlyOnMisuse | `limit(n)` makes at most n attempts. A retryable result (including a timeout) is returned only after exactly n attempts, and never under `no_limit`. The builder panics only on misuse: the limit configured twice or never. |
| Retry_limit_zero | `Retry_limit_zero.cfg` | violation | AttemptsWithinLimit | `limit(0)` underflows `limit - 1`: a release build retries up to `usize::MAX` times. |
| HttpTransport | `HttpTransport.cfg` | pass | TypeOK, CanceledOnlyAfterDrop, RpcSpec | Responses complete out of order, ids wrap, and callers abandon calls and start new ones. Even so, `Canceled`/`BrokenPipe` only follow the handle's drop. The transport refines `RpcChannel` through the mapping `Rpc` (a prepared call counts as idle). That includes its liveness: no waiting call is left unanswered, although `for_each` reads one body at a time. |

Each property of a passing run has a mutant in `PROJECT.json`. A mutant is a
plausible bug in a mapped definition, and TLC finds the property violated
under it:

- an unfloored step down;
- a geometric decay instead of the linear step;
- a commit that drops the rate;
- a swapped subtraction;
- a timer reset before it is read;
- off-by-one strategies;
- an endless backoff counted down;
- a semaphore that grants any waiter instead of the first;
- an inverted "configured before" test in `RetryConfigProperty::set`;
- ids that never wrap;
- a loop that stops when a receiver is gone;
- a `send_request` that ignores the failed `unbounded_send`.

### Findings

- **`effort.rs:388` (code bug).** The NaN probability throttles queries at kill rate 0 when all recorded work is below one millisecond.
- **`effort.rs:446` (spec divergence).** The spec says `last_update` is monotonic, but `now` is read before the lock.
- **`effort.rs:456` (spec divergence).** The spec says `overload_start = None` exactly when kill_rate is 0. A stale commit breaks that.
- **`stopwatch.rs:143` (spec gap).** A stopwatch shared between tasks cannot keep its stack.
- **`futures.rs:324` (code bug).** `limit(0)` underflows.

## Bounds

### LoadManager

| Parameter | Value | Why |
|---|---|---|
| Handlers | 2 | Enough for every pairwise interleaving of lock sections. |
| Shapes | 2 or 3 | One shape is blocked, so the blocked path runs alongside jail and throttle. |
| MaxConcurrent | 1 (refinement), 2 (violation runs) | One permit makes handlers queue, so a handler that comes back queues behind the other and the order of grants is tested. Two permits let two `decide`s race on the kill state; the violation runs use them. The refinement also holds with two permits and three shapes, but that run takes just over 5 minutes. |
| MaxRequests | 2 per handler | |
| ClockLimit | 4 or 5 | With `UpdateInterval = 1`, `LongAgo = 2` and start times 0 or 2, several kill-rate updates happen. |
| Durations | 1 and 2 half-ms units | This includes a sub-millisecond duration. |
| JailNum/JailDen | 9/10 | Jail threshold 0.9. |
| LoadThreshold | 1 | The store's average (0 or 2) can be under or over it. |

With 3 handlers the state space passes 20 million states without adding any new
kind of interleaving.

### KillRateControl

Two deciders with a clock horizon of 4 give unbounded behaviours, because of the
time shift. The violation needs three deciders, because it needs two stale
commits.

### Stopwatch

Two tasks, two section names, two guards per task, clock 4. The stack is cut at 4
entries by a state constraint. Mismatched ends can grow it without bound.

### Retry

Limits 1 to 3 plus `no_limit`. The attempt count (`attempt_count`, which
the code uses only to decide when to log) saturates at 4, one more than the
largest limit, so an extra attempt would be seen. Because the count saturates
instead of a state constraint cutting the run, every state is explored.
`usize::MAX` stands in as 1000, which is larger than any reachable count.

### HttpTransport

Two callers with two calls each and two parallel slots. A call is a single call or an empty batch, whose request takes id 0. The other calls of a non-empty batch only advance the counter, as other callers' `prepare`s do, so they are not enumerated separately. Two slots let responses
complete out of request order. The ids are 1 bit wide, so they wrap after two
`prepare`s and two calls in flight can share an id. The handle may be dropped in
any state. Three callers give more than 2 million states without a new kind of
interleaving. A `Terminating` stutter marks the end, once every caller has made
its calls.

## Fairness

- **LoadManager:** no fairness; only safety and the refinement's safety part are checked. A request's completion would follow from the shape of `decide` (straight-line code) and the RAII permit, so it is not checked.
- **KillRateControl:**
  - `Snapshot` is weakly fair: queries keep arriving while the system is overloaded or the kill rate is above 0.
  - `Update` is strongly fair: a decider reaching `update_kill_rate` is not always cut short by an early return.
  - `Commit` is weakly fair: the write lock is eventually taken.
  - The clock steps (`Tick` or `TickAtHorizon`) are weakly fair: time passes.
  - `LoadChange` is not fair. The properties assume the load becomes stable (`<>[]`).
- **HttpTransport:**
  - `Pull`, `Yield` and `Finish` are weakly fair: the spawned loop is polled by the reactor thread whenever it can progress.
  - Each `Respond(r)` is weakly fair: the transport sets no timeout, so the model assumes the server answers every request, well or badly. Without this, a caller's wait would be unbounded by design.
  - Callers are not fair: they may stop calling at any time.
  - A server that never answers is outside the model. `client.request` has no timeout, so such a server would hold a slot forever. This is listed as a hazard in `PROJECT.json`.
- **Retry and Stopwatch:** no liveness is checked, and no fairness is assumed. That a limited call with a timeout ends would follow from `AttemptsWithinLimit` alone.

## Not modelled

- **MovingStats windows and bin pruning** (`util/stats` is not in this tree). The spec describes them only in outline, and windows of bins per shape would multiply the load manager's state space.
- **Parts of the HTTP transport:**
  - `send_batch`, and the JSON parsing in `single_response`/`batch_response`. These are pure conversions, and the response is abstracted to its outcome.
  - Request building and the basic-auth header (formatting).
  - The memory growth of the unbounded queue.
- **Event signature lookup** (`util/ethereum.rs`). The lookup compares formatted signature strings (the `indexed ` prefix, tuple and array formatting, the name cut at the first `(`). A faithful model would have to build those strings character by character. An abstraction to structures would turn the formatting into the identity and check nothing.
- **status.rs, proof of indexing, task_spawn, and the trait declarations:** they have no state machine. `status.rs` is GraphQL value formatting. `proof_of_indexing/mod.rs` holds only a test, and the streams it tests (`online.rs`, `reference.rs`) are not in this tree. `task_spawn.rs` wraps `tokio::spawn` with abort-on-panic.
- **Logging, metric gauges, `log_after`/`warn_after`,** which only affect log output.
- **`Simulate = TRUE`** is supported by the model (`Reject`) but not enabled in any configuration.
- **`LOAD_THRESHOLD = 0`** is likewise supported but not enabled.

## Plan

Next, in order:

1. Configurations with `Simulate` and with load management disabled.
