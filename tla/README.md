# Stock simulator: a specification in TLA+

This directory specifies the trading simulator in `src/src/stock_simulator/`: a
deterministic environment that replays a bar series, keeps a cash/units book
under a two-tier margin model, matches market and limit orders with latency,
time to live and partial fills, and is served over HTTP and gRPC. Line numbers
below and in `PROJECT.json` are those of the source files.

## 1. The system

| Part | State it keeps | Operations | Talks to |
|---|---|---|---|
| step core, `core.py` | none of its own: `CoreState` in, `CoreStepOutput` out | `step_core`: copy, `_apply_action`, `_match_orders` slot by slot, two settlements at two marks, publish; `initial_core_state` | called by the environment |
| margin arithmetic, `core.py` 88-224, 817-835 | none | leverage clip, execution price, trade, maintenance margin, the settlements | called by the step core |
| compiled core, `core.py` 333-693 | none | `step_core_jit`, a second copy of all of the above | reached by `step` through `step_core_numba`, by `step_many` directly |
| environment, `env.py` | `_core_state`, `_rng` | `reset`, `step`, `step_many`, `observe`, `market_window`, `close` | core, portal, recorder, trace sink, telemetry |
| market portal, `portal.py` | none (the series) | `view_handle`, `window_content` | called by the environment |
| recorders, `recorder.py` | episode number, buffer, one Parquet file | `start_episode`, `on_step`, `end_episode`, `replay` | called back by `reset` and `step`, not by `step_many` |
| trace sink, `trace_writer.py` | an open file | `write`, `close` | called by `step_many` |
| HTTP service, `server.py` | one environment, ready flags; its trace file outlives it | start-up and shutdown; one coroutine per endpoint, none of which awaits | all clients share the environment |
| gRPC service, `grpc/server.py` | one environment | handlers on a pool of 16 threads | all threads share the environment, no lock |
| gRPC client, `grpc/client.py` | a channel | one blocking call per operation | gRPC service |
| configuration, `config.py` | none | defaults, then the YAML file, then the environment variables | read once, when a process starts |
| summaries, `orders.py`, `portfolio.py`, `execution.py` | none | open orders per side, equity, leverage | called for each observation and trace row |
| telemetry, `telemetry.py` | counters and the equity gauge | `on_order`, `on_fill`, `on_step`, `on_episode_end` | called by `step`, not by `step_many` |
| types, `types.py` | none | validation; the models and messages of both services | all of the above |
| market data, `data.py` | none | reading a series | once, at the start |

What is hard about it, part by part (every item is a hazard of `PROJECT.json`
with its line and the properties that watch it):

* **Order slots.** `_find_side_slot_or_free` promises one live buy and one live
  sell for any number of slots; latency and time to live count on different
  clocks. It takes several orders, fills and expiries on both sides to break.
* **Margin.** Each step settles twice, at two marks, on a book its own fills
  have just changed; the clip solves for the largest allowed size with the fee
  of that very size in it.
* **Accounting.** Rewards are differences of equity read from two different
  states; liquidations must be in them exactly once.
* **What a step reports.** The last fill is noted inside the match loop and returned
  after two settlements; orders are counted before the core may refuse them, fills
  and rewards after it has published. Only `step` counts: rows of `step_many` move the
  same core and count nothing (`env.py` 277), and a recorder that raises when it ends an
  episode keeps the end from being counted (`env.py` 235-239).
* **Batches.** `step_many` takes its draws first, goes on past the end of the
  episode, and stops half way at a row it refuses, leaving the rows before it
  applied.
* **Two copies of the core.** Kept equal by hand.
* **Recording.** The Parquet file is rewritten in place, on three occasions;
  each may raise or die after the environment has already moved.
* **Restarts.** The trace file is appended to by one process after the other. One
  that dies in the middle of a line leaves it without an end, and the next row is
  written onto it. Readiness and the engine are set in several steps, in three ways.
* **Absent or zero.** A seed, a start bar, a limit price and a fill may be missing,
  and may be zero: a null in JSON, a flag in protobuf, NaN or -1 in the engine.
* **Sharing.** Handlers on the gRPC pool interleave at each read and write of the
  environment, which has no lock. HTTP requests do not: the coroutines of
  `server.py` never await, so each runs alone on the event loop.

## 2. Modules

| Module | Models | Notes |
|---|---|---|
| `Margin` | margin arithmetic | operators only; exact integers |
| `EngineCore` | `step_core` and `reset` | state machine; extends `Margin` |
| `Episode` | what a caller is promised | abstract; `EngineCore` implements it |
| `TwoSidedBook` | what the slots promise | abstract; `EngineCore` implements it |
| `EngineCoreProofs` | | theorems about `Margin` and `EngineCore` |
| `StepReport` | the last fill, the summaries, the counters of `env.step` | extends `EngineCore`, whose steps it takes |
| `NumbaKernel` | `step_core_jit` and its helpers | one function of state, row and draws |
| `NumbaParity` | an environment with `use_numba` or without | extends `NumbaKernel` |
| `StepProofs` | | theorems about `StepReport`, `NumbaKernel` and `NumbaParity` |
| `SeededEpisode` | the clock and the draws a caller is promised | abstract; `MarketEnv` implements it, and `GrpcService` while writers do not overlap |
| `MarketEnv` | `reset`, `step`, `step_many`, `close`, the random stream, the trace sink | state machine |
| `MarketEnvProofs` | | theorems about `MarketEnv`, and the refinement |
| `Portal` | `view_handle`, `window_content` | state machine of a client and a clock |
| `PortalProofs` | | theorems about `Portal` |
| `RecorderPort` | `InMemoryRecorder` | abstract |
| `ParquetRecorder` | `ParquetRecorder` with the environment's calls, faults and crashes | implements `RecorderPort` |
| `ParquetRecorderProofs` | | theorems about `ParquetRecorder`, and the refinement |
| `HttpService` | the process of `server.py`, its settings and its trace file | extends `MarketEnv`, whose calls it makes |
| `HttpServiceProofs` | | theorems about `HttpService`; it implements `SeededEpisode` too |
| `GrpcService` | handler threads of `grpc/server.py` inside `env.py` | state machine |
| `GrpcServiceProofs` | | theorems about `GrpcService`, and the refinement |
| `Transports` | one session held directly, over HTTP and over gRPC | state machine |
| `TransportsProofs` | | theorems about `Transports` |
| `MC...` | | instances for TLC |

**EngineCore.** `state` is `MarketEnv._core_state`; `work` is the copy a step
works on; `cursor` is where the step stands. A step is `StepHold` or `StepPlace`
(copy and `_apply_action`), one `Visit...` action per slot in index order (the
body of `_match_orders`), and `StepFinish` (settle, advance, settle, publish).
A refusal (`StepRefused`) raises from `_apply_action` before anything is
published. `earned` is a history variable: the rewards since the reset. The
fields of a free slot, which nothing reads, are one record.

Numbers are exact. Basis points divide by `Scale` (10 000 in the code), so
execution prices are integers in 1/Scale and money in 1/Scale². A draw is the
quantity filled per unit ordered, an integer, so that a position is counted in
the smallest quantity a fill may have. The rounding of binary floating point is
abstracted, and the clip's one quotient is rounded down to a whole quantity.
`maintenance_margin_rate` is in basis points of Scale. Where the code would
divide by a non-positive execution price it returns early, and so does the model.

**StepReport** takes each step of `EngineCore` together with what it tells: `last` is
the match loop's note of a fill, which the step returns and an observation's
execution summary repeats; `meter` is what telemetry has counted since the last
reset (the process's counters only grow; a reset changes none of them, and leaves the
equity gauge at its value). `inRow` says that the running step is a row of `step_many`
(`RowPlace`, `RowFinish`), which takes the same steps and tells nobody. `missed` is a
history variable with what went by uncounted: rows, and the end of an episode whose
`end_episode` raised (`ReportUnended`). The counters are held against the account
together with it, since alone they promise less than they seem to: an order that a row
placed may fill in a step, so that more fills than orders are counted, and the gauge is
stale after a batch. All traffic of both services goes through `step_many`, so a served
environment counts nothing. `Summary` and `Snapshot` are functions of the published
state. A quotient is kept as its two terms.

**NumbaKernel** writes the compiled step as one function, the last fill with it. Codes
the interpreted path refuses are kept with what the kernel makes of them: an order
type other than 0 is a limit order, a side other than 0 a side of its own, a NaN limit
0. A code wider than an int8 never gets there: numpy's cast raises (`Fits`). The loop over the slots is a recursive function (`KernelAfter`), the working state
after each slot.

**MarketEnv** abstracts the core to the list of what it was fed since the reset:
action, draws, bar. The core is deterministic, so equal lists are equal states.
Draws are positions in the seed's stream. Whether a step closes the account out,
and whether an order finds no slot, is left open; EngineCore decides it. One
caller at a time: the batch runs row by row and nothing interleaves, as on the
event loop of the HTTP service, whose clients are the callers of this module.

**SeededEpisode** is what `MarketEnv` and the services have in common for whoever steps
them: a bar, a done flag, a stream and how much of it has been used. A step moves one
bar on, never after the end, with draws behind the last ones; a restart begins anywhere
on a stream's beginning. Draws may be skipped (a refused row, a row after the end). In
`MarketEnv` these are the core and the seed, in `GrpcService` the last assignment of
`_core_state`.

**HttpService** puts a process around `MarketEnv`: `proc` is `RuntimeState` with the
settings the process found (`Setting`: whether an engine is wanted, whether data and
trace file can be opened, the seed of the YAML file and of the environment variable,
each possibly missing or unparsable) and the seed its last reset asked for. `file` is
the trace file, a list of lines; a row is told by its number, and a line that was cut
short has no end, so that the next row goes onto it (`Appended`). `told` has the rows
whose batches were answered with 200, `tears` the writes that were cut. A process may
die between two rows or in the middle of a write, and a write may fail with the
process alive (`LoseTrace`: an `OSError`, which no handler catches). A request that
reached the environment runs alone until it is answered; the batch goes row by row.
A refused write of a closed sink cannot happen here: only `Shutdown` closes it.

**Transports** makes the same calls three times, to three environments: directly, as
an HTTP body and as a protobuf message, each with what it does to a value that may be
absent. It keeps apart absent, zero, NaN and other numbers, and nothing else of a
number. Fields that are copied are not spelled out, and the core is "the same for the
same rows": the early close-out, which the rows decide, is left out of `BarAfter`.

**ParquetRecorder** has the environment's episodes (`run`, never repeated)
beside the recorder's own numbers; `log` is all that was ever recorded and
`faults` which faults there have been.

**Portal** serves windows at a clock that moves between the observation that
handed out a handle and the request that uses it.

**GrpcService** has one action for each read or write of an attribute of the
environment in a handler: `reset` assigns `_rng`, assigns `_core_state` and reads it
for its answer; `step_many` draws for all its rows, then for each row asks for the
done flag, reads the arguments, assigns, and observes in four reads. The
interpreted step reads `_core_state` once, the compiled one once per argument
(`Arguments`; the order arrays count as one). A core state is never changed after
it was assigned, so a state is its position in the `log` of assignments, and what a
step computes is told by the positions its arguments were read from. A reset to a bar
the series does not have is refused before it has touched anything (`Refuse`, as is a
row). A request takes a thread in the order it came; a client waits for its answer, as the blocking
calls of `grpc/client.py` do. A draw is atomic (numpy's generator holds a lock while
it fills an array). Reset is always modelled with a stream of its own.

## 3. Runs

| Run | Question | Bounds |
|---|---|---|
| `engine_core` | slots, margin, rewards, what a step reports and what is counted, both refinements | 5 bars, 3 markets, 2 slots, 6 actions, draws 0 and 2, up to 2 rows of `step_many` among the steps of an episode |
| `engine_edge` | capacity refusals while an order rests, and liveness of a driven episode | 1 slot, no latency, 3 bars of life, no borrowing, a driver that need not hold |
| `no_fill_keeps_cash` | a statement of the repository that TLC refutes | as `engine_core` |
| `portal` | windows and handles | 5 bars, every bound from -1 to 6 |
| `market_env` | draws, batches, sink, refinement of `SeededEpisode` | 4 bars, batches of up to 3 rows, 6 draws |
| `parquet_recorder` | what is stored, numbering, refinement of `RecorderPort` | 4 bars, 3 runs over all processes, 4 rows |
| `numba_parity` | the compiled step equals the interpreted one; alone, with codes nobody validated, it keeps the margin | as `engine_core`, draws 0-2, 9 coded rows, no counters |
| `kernel_two_live` | a statement TLC refutes | 3 slots, 3 resting rows |
| `grpc_pool` | what survives overlapping handlers, interpreted | 3 clients, 2 threads, 3 requests, batches of 2 |
| `grpc_answers` | the compiled path: refinement of `SeededEpisode` while writers take turns, and liveness of the pool when all its threads are taken | 3 clients, 2 threads, 3 requests, single rows, 2 bars, a start out of range |
| `http_service` | readiness, the seed, the trace file over restarts, liveness of a batch | 3 bars, 2 processes, 6 settings, batches of 2, 3 draws, up to 3 rows in the file when a batch begins |
| `transports` | what was said is what is heard, by every way | 3 bars, seeds and start bars with 0 and absent, a start out of range, batches of up to 2 |

**Why the bounds are enough.** The three markets of `MCEngineCore` are built to make
the interesting cases happen in five bars: a fall that first takes a long book below
maintenance and then gaps it past zero, a rise that does the same to a short one, and
a range that touches both limit prices. Five bars are longer than latency plus time to
live, so orders wait, age, expire, fill and are replaced within an episode, and resets
start anywhere. Two slots are the smallest number for which capacity never refuses,
one is the number for which it does (`engine_edge`: there a limit order rests for up to
two bars, the other side is refused all the while, and the driver gets on by replacing
it), and three let the slots outnumber
the sides (`kernel_two_live`). Orders are counted without bound
except before a refusal, which a caller could repeat for ever (`MaxMetered`). Rows of
`step_many` that step are bounded by `MaxRows`: two of the four steps of an episode, in
any places, so that a row places what a step fills and the other way round, and a batch
is behind and the gauge catches up again. In
`MarketEnv` four bars and batches of three let a batch start before, at and after the
end and be refused in each of its rows. In `ParquetRecorder` three runs and four rows
let a failed flush of one run be retried in the next, with a crash in between. In
`HttpService` two processes are the fewest for which one finds what another left,
batches of two let a write fail after one that succeeded, and three rows before a
batch leave room for a torn line, the row that is lost behind it and one that is not;
what refuses an order is in `MarketEnv`'s own run (`Orders` is empty here). In
`Transports` every value that may be absent is also zero once and something else once.
In `Portal` the bounds reach past both ends of the series. In `GrpcService` two
threads are the smallest number that overlap, three clients leave one waiting, three
requests let a reset, a batch and an observer meet in every order, and a batch of two
rows gives another handler the place between a row and the next. Liveness needs the
third client as well: with two, no request ever waits for a thread. Bounds on counters
are the constants `MaxBatch`, `MaxDraws`, `MaxRuns`, `MaxRows`, `MaxRequests`,
`MaxStarts`, `MaxWritten`, `MaxMetered` and `StepReport`'s `MaxRows`; `EngineCore` needs
none, its bars are finite.

**What threads share.** Under any overlap: no two steps use the same draws
(`NoDrawsShared`), an observation is never older than its own row
(`ObservationIsRecent`), and a client's own steps are taken account of by its next
one (`OwnStepsAreKept`). As long as writers do not overlap, that is with one thread,
or with one client that resets and steps and any number that observe, the episode is
a single caller's (`SerialUnlessOverlapped`), and the shared state goes through the
steps and restarts of `SeededEpisode` (`ImplementsSeededEpisode`). Once writers overlap, the unlocked code
does lose steps of other clients and undo resets, sets a done flag back, draws for
one episode from the stream of another, and on the compiled path makes a step from
parts of several states; no line of the repository promises otherwise.

Deadlock is checked in every run but the gRPC ones, whose clients may stop asking, and
`http_service`, whose last process may have been shut down.

**Fairness.** `EpisodeSpec`, `FairSpec` and `HttpSpec` state some. `WF(Visit \/
StepFinish)`: a call that was made runs on, because the step is a loop of plain code
without a wait. `WF(\E action : StepPlace(action))`: the driver gets round to an order the core
accepts, as the loops of the examples and clients do (`while not done: step`); it may
hold in between, but is not relied on to. Neither
resets nor a driver that gives up are in `EpisodeNext`; refused actions and steps of a
finished episode are. That some order is always accepted is part of what is checked: in
`engine_edge` one that finds the slot taken by the other side is refused, and only one
that replaces what rests gets the driver on. In `FairSpec`, `WF(Dispatch)` and `WF(Handle(c))`: an idle
thread of the pool takes the head of its queue, and every running thread gets its turn
at the interpreter. Nothing in a handler waits for another. In `HttpSpec`,
`WF(Handle)`: a handler that runs has no await, so nothing takes the event loop from
it before it has answered; the process may die instead.

**Statements refuted.** Two statements of the repository are not what the code
does; each has a violation run and an entry under `findings`: a step without fills
leaves the cash alone (`tests/unit_tests/test_invariants.py` 108-109; a forced
liquidation moves the position into cash without a fill, which
`test_trace_writer.py` 179-237 expects, so that the repository's tests do not agree with
each other), and at most two orders are
live (`core.py` 56-57; not for side codes the compiled path does not check).

## 4. Theorems

All proofs hold for every value of the constants that satisfies the
assumptions: `MarginAssumption` (slippage at most 100 %, rates and fees not
negative, any leverage cap), `CoreAssumption` (at least one bar, prices natural
numbers, any number of slots including none, any latency, any time to live,
actions of the type `Action.__post_init__` lets through, draws natural
numbers), `ReportAssumption` (any ceiling and bounds), `KernelAssumption` and `ParityAssumption`
(NaN is not an integer; the rows sent to `step_many` hold integers, and a NaN at most
for the limit), `PortalAssumption`, `MarketEnvAssumption`
and `ParquetAssumption` (at least one bar; any rows, refusals, seeds and sizes),
`HttpAssumption` (any settings; the tokens for "no seed" and "unparsable" are not
seeds), `GrpcAssumption` (at least one bar and one thread, either path, any start bars
and sizes) and `TransportAssumption` (absent and NaN are not numbers). The type
invariants of `EngineCore`, `StepReport`, `MarketEnv`, `HttpService`, `Portal`,
`ParquetRecorder` and `GrpcService` are proved and therefore not among the properties of
the runs.

* **Margin.** `ClipHonoursCap`: the clip's closed form leaves the position
  within the cap, fee included, or does not grow it. `SettleIsSafe`: after the
  two settlements at a mark the book meets its maintenance margin, and is flat
  if either closed it.
* **Slots.** `OneLiveOrderPerSide` is not inductive: a slot about to be
  overwritten must be known to be the side's own or free, in the working copy as
  well as in the published state, and live orders must have a side. `SlotsInv`
  says so. `CapacityNeverRefuses` follows by cases on two slots; capacity refuses when
  every slot holds an order of the other side (`NoSlotLeft`).
* **Margin and rewards.** `MarginInv` joins `PublishedBookIsMargined`,
  `EarlyEndIsFlat` and `RewardsAddUp`; only `Reset` and `StepFinish` publish, the
  first a flat book, the second what `SettleIsSafe` speaks of. `EarlyEndIsFlat` is a
  theorem only: no run checks it, since `ImplementsEpisode` says it and more.
* **Lifetime.** `OrderLifetime` speaks of published states only. `LifetimeInv` adds
  `LoopInv`: while the loop runs, slots before the cursor have paid for this bar
  and the others have not.
* **Fills.** `FillKeepsInitialMargin` and `FillOnlyCosts` are action properties,
  proved from the type invariant and the lemmas about the clip.
* **Refinement.** `EngineImplementsEpisode`: every step is a step of `Episode` under
  `exposed <- state.units # 0`, or a stutter; the close-out case rests on
  `SettleIsSafe`. `EngineImplementsTwoSidedBook`: every step is one of `TwoSidedBook`
  or a stutter, a side's order being the live one of its slots. By `SlotsInv` there is
  at most one, so writing a slot writes the entry of that side (`RestingWritten`);
  when the bar passes, `LoopInv` with the cursor past every slot says that what was
  eligible has paid; `CopyInv` says that between steps the copy is what was published.
* **Reports.** `ReportKeepsTheEngine`: a step with its report is a step of `EngineCore`,
  so that everything above holds of it too. `LeverageIsBacked` follows from the margin
  of published books by arithmetic (`MarginedLeverage`). However a step ends, told, told
  but for its episode's end, or as a row, it adds the same to the counters and the
  history together (`FinishedReport`), and so does an order (`OrderCounts`). `MeterInv`
  equates the changes of both with `earned`; an end is counted or missed once because a
  finished episode takes no step. `ConservedInv` bounds fills and live orders by the
  orders placed, in the published book and, while a step runs, in the working copy.
  `NotedInv` says that what
  the loop has noted so far explains what it has done to the book; at `StepFinish` a
  settlement that leaves the position open has changed nothing (`SettleOpen`).
* **Compiled core.** First the helpers, for all numbers: `KernelClipIsClipUnits`,
  `KernelSettleIsSettle` and `KernelSlotIsTheSlot` (the kernel's one slot is the only
  member of the engine's `SlotsFor`). Then the loop. Induction over the slots goes by
  the least slot at which a claim would fail (`Least`): such a slot has one before it,
  for which the claim holds. It gives `LoopUnfolds` and `LoopSteps`, that the recursive
  function exists and obeys its own equation, and `KernelAfterType`. `KernelAgrees`
  compares the two copies only when the step publishes, and is not inductive. `InStep`
  says more: a running step that stands at a slot holds what the kernel holds after the
  slots before it, *whatever draws are yet to come*, for the kernel is given all draws
  at the start and the engine takes them one by one. Visiting a slot keeps that
  (`VisitAlike`, `NextSlot`); past the last slot no draw is open, and the settlements
  are equal (`FinishAlike`). `EitherPathIsMargined` is about unvalidated rows: whatever
  book the loop leaves, an outcome of the kernel ends with `Settle`, of which
  `SettleIsSafe` speaks.
* **Portal.** `WindowIsMostRecentOfAsked` is about the pure function, for every bar
  and every bounds; `PortalInv` remembers that a reply was served from it, and
  that a handle was observed at a bar that has been reached.
* **Draws.** `DrawsAreFresh` and `BatchingIsInvisible` are not inductive, because a
  batch takes its draws before its rows use them. `DrawsInv` speaks of a horizon: the
  draws of the row a running batch stands at, the stream's position otherwise. Every
  draw used lies below it, and while nothing was refused and the episode is not over,
  the number of steps is the horizon.
* **Batches.** `BatchAppliesItsPrefix` is inductive with the types: while the episode
  goes on, a running batch has applied as many rows as it has answered.
  `ReturnedBatchIsWhole` needs `AnsweredInv`: the flags answered so far are in order and
  the last of them is `core.over` while the batch runs.
* **Trace sink.** `SinkHasEveryBatchedStep` is inductive with the types, because nothing
  reopens a closed sink. That a step keeps it is counting: a row and a step appended to
  what was told are told (`RowForStepTells`), as are a row that moved nothing
  (`RowAloneTells`) and a step that was in no batch (`StepAloneTells`).
* **Seeded episodes.** `EnvImplementsSeededEpisode`: whatever the calls, batches,
  refusals and failed writes, the core is stepped only while it is not over and at the
  horizon of `DrawsInv`, which lies behind all draws used (`UsedIsBelow`); everything
  else leaves core and seed alone or begins anew. `ServiceImplementsSeededEpisode`
  extends it to a process that dies and starts again. `PoolImplementsSeededEpisode` says
  the same of the gRPC pool for every behaviour in which writers have not overlapped so
  far: the assignment of a step's state is `Step`, that of a reset's is `Restart`, and no
  other read or write shows. It rests on `SerialInv`, for the bar, the flag and the
  stream, and on `BehindInv`, for the draws: the draw of the current state is one its
  stream has given out, and before all that a writer's handler still holds.
* **HTTP service.** `ServiceStep`: to its environment, a step of the service is one of
  `MarketEnv`'s, the loss of a trace, or another environment; so `DrawsInv` carries over.
  `ProcInv` ties readiness to what the settings ask for, and gives `ReadyIsServed`.
  `EpisodeIsReproducible` joins `DrawsInv` with `SeedInv`, the seed of the stream.
  `AnsweredRowsAreTraced` rests on the shape of the file (`FileOK`: numbers without gaps
  on a line, growing from line to line, only the last line without its end) and on
  `TraceInv`: every row told, and every row of the running batch, ends a line that has
  its end, which no later write can change. A row that is told and cannot be read is
  then the end of a line that was cut before, one for each, and there are no more such
  lines than cuts.
* **Recording.** `TypeInv` adds to the types that numbers never overtake episodes.
  `NothingLostOrRepeated` and `BufferIsOfThisRun` are inductive with it; `NumberInv`
  orders the rows by number and bar as long as nothing has failed.
  `RecorderImplementsPort`: every step is one of `RecorderPort` or a stutter under
  `records <- Stored`, file and buffer together; a crash or a torn file loses a part
  of a concatenation, which `PartsOfConcat` and `TornIsLoss` show to be a loss the
  port allows.
* **gRPC pool.** `TypeInv` describes where each handler stands and what it holds there,
  and that a client is in the queue or on a thread at most once. `RecentInv`: what
  a handler has seen it saw in order, not before the state it began with, and nothing
  its own client published lies between.
  `NoDrawsShared` needs `DrawInv`, about the draws a handler *holds*: taken, and not yet
  used. Held and used draws lie below how far the stream has been drawn from, and are
  pairwise different. `OwnStepsAreKept` needs `OwnInv`, about arguments on their way:
  while a handler gathers them, nothing its own client has published is later than any
  it holds, because the client is in no other handler. `SerialUnlessOverlapped` needs
  `SerialInv`: as long as writers have not overlapped, at most one handler writes
  (`Alone`), what it holds stays the last state published, and that state's stream is
  `_rng`, except between the two assignments of a reset.
* **Transports.** Each conversion, there and back, returns what it was given
  (`RowsSurvive`, `ResetsSurvive`, `MatricesSurvive`, `TracesSurvive`), from which
  `EveryCallArrives` and `EveryAnswerArrives` follow by induction over the session.

**Model-checked only.** Liveness: `EpisodeEnds`, `EveryRequestAnswered` and
`BatchIsAnswered`, which rest on fairness and are out of the prover's reach. Every other
property of a passing run is a theorem.

## 5. What is not modelled, and why

* Market data: reading CSV and Parquet files; a series is a value of `Markets`.
* Telemetry's spans, and the exporter.
* Configuration other than the seed: the other keys are the constants of the modules,
  loaded by the same precedence; `stable_hash`.
* The gRPC client's channel, `ping` and `close`; `Ping` of the service; a `StepMany` or
  HTTP batch without actions, which only observes.
* Models and messages whose fields are copied one by one; the observation's vectors. The
  messages' int64 and int32 fields are unbounded integers in `Transports`: a seed or a
  code that does not fit is refused by protobuf before it is sent.
* Floating-point rounding (section 2).
* The HTTP service's host, port and `/metrics`; a recorder or a trace sink used by
  several threads (the gRPC service sets up neither).

Remarks that are not findings: slippage is added to a limit price, so a limit order
trades past its limit (`core.py` 791); the row cap of `window_content` cuts an
observation window that is wider (`portal.py` 80); under threads `reset` answers with
whatever state is current when it reads it again (`env.py` 141); the recorder's
numbers start at 0 again after a restart, on the same file, so a replay by number may
mix two episodes (`NumbersFollowRuns` therefore assumes no fault); an order clipped to
zero units still counts as a fill; a reset at the last bar still takes one step, on
that bar; a refused `step` has already consumed its draws, so what follows differs
from the same episode without it (`BatchingIsInvisible` assumes no refusal); an order
that is refused has already been counted (`env.py` 170), so the counters bound fills
and open orders but do not add up to them; the first row written behind a torn one
cannot be read, though its batch may have been answered (`AnsweredRowsAreTraced`
allows one such row for each cut); the gRPC service's `main` builds its configuration
without the YAML file and the `STOCK_SIM_*` variables, which the HTTP service reads; a
YAML value `"false"` is true for `bool()`, the same text in an environment variable is
false.

## 6. Plan

Done, in this order: `Margin` and `EngineCore` with their abstract
specifications and proofs; `Portal` with its proofs; `MarketEnv` with its proofs;
`RecorderPort` and `ParquetRecorder`; `NumbaKernel` and `NumbaParity`; `GrpcService`;
`StepReport`, `HttpService` and `Transports`; proofs for all of these and for
`ParquetRecorder` and `GrpcService`; then, as theorems, the trace sink, the two copies
of the core and what threads share; last `SeededEpisode` and what implements it. What is
left to TLC is liveness (section 4), and what is left out is in section 5.
