------------------------------ MODULE MarketEnv ------------------------------
(***************************************************************************)
(* The environment's calls (env.py: reset, step, step_many, close) over    *)
(* the core: which actions reach it, with which fill draws, what a batch   *)
(* that fails half way leaves behind, and what the trace sink gets.        *)
(*                                                                         *)
(* The core is deterministic, so its state is the list of what it was fed  *)
(* since the reset, here `applied', with the clock and the end of the      *)
(* episode beside it.  The draws of one step (one per order slot) are      *)
(* identified by their position in the stream of the seed.  Whether a step *)
(* closes the account out is left open: EngineCore decides it.             *)
(*                                                                         *)
(* One caller at a time, as on the event loop of the HTTP service: a batch *)
(* runs row by row and nothing else runs until it returns or raises.       *)
(***************************************************************************)
EXTENDS Integers, Sequences, FiniteSets

CONSTANTS N,            \* number of bars
          Seeds,        \* seeds a caller may reset with
          DefaultSeed,  \* config.seed
          Rows,         \* encoded actions
          Malformed,    \* those the decoder, Action or _apply_action refuses
          Orders,       \* those the core may refuse when its slots are taken
          MaxBatch,     \* bound: rows of a batch
          MaxDraws,     \* bound: steps' worth of draws taken from one stream
          HasSink       \* STOCK_SIM_TRACE_JSONL is set

ASSUME MarketEnvAssumption ==
  /\ N \in Nat \ {0}
  /\ DefaultSeed \in Seeds
  /\ Malformed \subseteq Rows
  /\ Orders \subseteq Rows \ Malformed
  /\ MaxBatch \in Nat
  /\ MaxDraws \in Nat
  /\ HasSink \in BOOLEAN

VARIABLES core,    \* _core_state: [t, over, applied]
          rng,     \* _rng: [seed, pos]
          call,    \* the call that is running, or the last one's result
          sink,    \* _trace_sink: [open, rows], the rows since the last reset
          spoiled  \* history: a call has raised since the last reset

vars == <<core, rng, call, sink, spoiled>>

Bars == 0 .. N - 1

\* One step the core has taken: the action, its draws, the bar it led to, and
\* whether it came with a batch.
Step == [row : Rows, draw : Nat, t : Bars, batched : BOOLEAN]

\* One trace row, as far as it is told apart: the bar, the done flag, and
\* whether the core took a step for it.
TraceRow == [t : Bars, done : BOOLEAN, moved : BOOLEAN]

NoSteps == <<>>
NewCore(start) == [t |-> start, over |-> FALSE, applied |-> NoSteps]

\* A batch with the results of its rows so far; `first' and `before' are the
\* positions in the stream and in `applied' where it began.
NewBatch(rows) ==
  [phase |-> "running", rows |-> rows, first |-> rng.pos,
   before |-> Len(core.applied), dones |-> <<>>, moved |-> <<>>]
NoBatch ==
  [phase |-> "idle", rows |-> <<>>, first |-> 0, before |-> 0,
   dones |-> <<>>, moved |-> <<>>]

Running == call.phase = "running"

\* The bar after t, or the last bar again.
NextBar(t) == IF t + 1 >= N THEN N - 1 ELSE t + 1
-----------------------------------------------------------------------------
\* (The names with a suffix, here and below, are faulty variants of the
\* definition that follows them; no specification uses them.)
Take_PerCall(n) == [rng EXCEPT !.pos = @ + 1]

\* Draw the fractions of n steps from the stream.
Take(n) == [rng EXCEPT !.pos = @ + n]

DrawOfRow_Shifted == call.first + Len(call.dones) + 1
\* The draws of the row a batch stands at: its line of random_draws_batch.
DrawOfRow == call.first + Len(call.dones)

\* The core takes a step; at the last bar, or when it is closed out, the
\* episode is over.
Advance(row, draw, batched) ==
  LET t == NextBar(core.t)
  IN  \E over \in BOOLEAN :
        /\ t = N - 1 => over
        /\ core' = [t |-> t, over |-> over,
                    applied |-> Append(core.applied,
                                       [row |-> row, draw |-> draw, t |-> t,
                                        batched |-> batched])]

Init ==
  /\ core = NewCore(0)
  /\ rng = [seed |-> DefaultSeed, pos |-> 0]
  /\ call = NoBatch
  /\ sink = [open |-> HasSink, rows |-> <<>>]
  /\ spoiled = FALSE

\* A start bar outside the series raises before anything is touched.
Reset(seed, start) ==
  /\ ~Running
  /\ rng' = [seed |-> seed, pos |-> 0]
  /\ core' = NewCore(start)
  /\ call' = NoBatch
  /\ sink' = [sink EXCEPT !.rows = <<>>]
  /\ spoiled' = FALSE

\* step: the draws are taken before the core may refuse.
StepAccepted(row) ==
  /\ ~Running
  /\ ~core.over
  /\ row \notin Malformed
  /\ rng.pos < MaxDraws
  /\ rng' = Take(1)
  /\ Advance(row, rng.pos, FALSE)
  /\ call' = NoBatch
  /\ UNCHANGED <<sink, spoiled>>

StepRefused(row) ==
  /\ ~Running
  /\ ~core.over
  /\ row \in Malformed \cup Orders
  /\ rng.pos < MaxDraws
  /\ rng' = Take(1)
  /\ spoiled' = TRUE
  /\ call' = NoBatch
  /\ UNCHANGED <<core, sink>>

\* step on an episode that is over returns before it draws.
StepAfterEnd ==
  /\ ~Running
  /\ core.over
  /\ call' = NoBatch
  /\ UNCHANGED <<core, rng, sink, spoiled>>

\* step_many: the draws of the whole batch are taken first, rows that will
\* find the episode over included.
StepMany(rows) ==
  /\ ~Running
  /\ rng.pos + Len(rows) <= MaxDraws
  /\ rng' = Take(Len(rows))
  /\ call' = NewBatch(rows)
  /\ UNCHANGED <<core, sink, spoiled>>

MoreRows_UntilTheEnd ==
  Running /\ Len(call.dones) < Len(call.rows) /\ ~core.over
\* A batch has rows left, whether or not the episode is over.
MoreRows == Running /\ Len(call.dones) < Len(call.rows)
Row == call.rows[Len(call.dones) + 1]

\* A row's result enters the arrays of the batch, and the sink if there is one.
Answer(moved) ==
  call' = [call EXCEPT !.dones = Append(@, core'.over), !.moved = Append(@, moved)]
TraceOf(moved) == [t |-> core'.t, done |-> core'.over, moved |-> moved]
Write_NotTheLast(moved) ==
  sink' = IF sink.open /\ ~core'.over THEN [sink EXCEPT !.rows = Append(@, TraceOf(moved))]
                                      ELSE sink
Write(moved) ==
  sink' = IF sink.open THEN [sink EXCEPT !.rows = Append(@, TraceOf(moved))] ELSE sink

\* A row that finds the episode over is not even decoded.
RowAfterEnd ==
  /\ MoreRows
  /\ core.over
  /\ HasSink => sink.open
  /\ UNCHANGED core
  /\ Answer(FALSE)
  /\ Write(FALSE)
  /\ UNCHANGED <<rng, spoiled>>

RowAccepted_EvenWhenOver ==
  /\ MoreRows
  /\ Row \notin Malformed
  /\ HasSink => sink.open
  /\ Advance(Row, DrawOfRow, TRUE)
  /\ Answer(TRUE)
  /\ Write(TRUE)
  /\ UNCHANGED <<rng, spoiled>>

RowAccepted ==
  /\ MoreRows
  /\ ~core.over
  /\ Row \notin Malformed
  /\ HasSink => sink.open
  /\ Advance(Row, DrawOfRow, TRUE)
  /\ Answer(TRUE)
  /\ Write(TRUE)
  /\ UNCHANGED <<rng, spoiled>>

RowRefused_Skipped ==
  /\ MoreRows
  /\ ~core.over
  /\ Row \in Malformed \cup Orders
  /\ UNCHANGED core
  /\ Answer(FALSE)
  /\ spoiled' = TRUE
  /\ UNCHANGED <<rng, sink>>

\* A row that is refused raises out of the batch: what came before it stays.
RowRefused ==
  /\ MoreRows
  /\ ~core.over
  /\ Row \in Malformed \cup Orders
  /\ call' = [call EXCEPT !.phase = "raised"]
  /\ spoiled' = TRUE
  /\ UNCHANGED <<core, rng, sink>>

\* A closed sink raises after the row has been applied.
RowUntraced ==
  /\ MoreRows
  /\ HasSink /\ ~sink.open
  /\ \/ core.over /\ UNCHANGED core
     \/ ~core.over /\ Row \notin Malformed /\ Advance(Row, DrawOfRow, TRUE)
  /\ call' = [call EXCEPT !.phase = "raised"]
  /\ spoiled' = TRUE
  /\ UNCHANGED <<rng, sink>>

Return_WhenOver ==
  /\ Running
  /\ ~MoreRows
  /\ core.over
  /\ call' = [call EXCEPT !.phase = "returned"]
  /\ UNCHANGED <<core, rng, sink, spoiled>>

Return ==
  /\ Running
  /\ ~MoreRows
  /\ call' = [call EXCEPT !.phase = "returned"]
  /\ UNCHANGED <<core, rng, sink, spoiled>>

Close ==
  /\ ~Running
  /\ sink.open
  /\ sink' = [sink EXCEPT !.open = FALSE]
  /\ UNCHANGED <<core, rng, call, spoiled>>

Batches == UNION {[1 .. n -> Rows] : n \in 0 .. MaxBatch}
ProcessRow == RowAfterEnd \/ RowAccepted \/ RowRefused \/ RowUntraced \/ Return

Next ==
  \/ \E seed \in Seeds, start \in Bars : Reset(seed, start)
  \/ \E row \in Rows : StepAccepted(row) \/ StepRefused(row)
  \/ StepAfterEnd
  \/ \E rows \in Batches : StepMany(rows)
  \/ ProcessRow
  \/ Close

Spec == Init /\ [][Next]_vars
-----------------------------------------------------------------------------
Core == [t : Bars, over : BOOLEAN, applied : Seq(Step)]
Call == [phase : {"idle", "running", "returned", "raised"}, rows : Seq(Rows),
         first : Nat, before : Nat, dones : Seq(BOOLEAN), moved : Seq(BOOLEAN)]

\* The shape of the environment's fields and of a batch's arrays.
EnvTypeOK ==
  /\ core \in Core
  /\ rng \in [seed : Seeds, pos : Nat]
  /\ call \in Call
  /\ sink \in [open : BOOLEAN, rows : Seq(TraceRow)]
  /\ spoiled \in BOOLEAN

\* No two steps of an episode share their draws, in whatever mix of single
\* steps, batches, refusals and batches that outlive the episode.
DrawsAreFresh ==
  /\ \A j \in 1 .. Len(core.applied) : core.applied[j].draw < rng.pos
  /\ \A j, k \in 1 .. Len(core.applied) :
       j < k => core.applied[j].draw < core.applied[k].draw

\* How the actions of an episode are cut into calls makes no difference: as
\* long as no call raised, the j-th step gets the j-th draws of the seed,
\* which is what "same seed, same outcome" needs from step_many.
BatchingIsInvisible ==
  ~spoiled => \A j \in 1 .. Len(core.applied) : core.applied[j].draw = j - 1

\* A batch, while it runs and after it returned or raised, has fed the core
\* its first rows, in order and each with its own draws, and nothing else: all
\* those it reports as moved and, if the sink raised, at most one more.
BatchAppliesItsPrefix ==
  LET done == Len(core.applied) - call.before
  IN  call.phase # "idle" =>
        /\ \A k \in 1 .. done :
             LET step == core.applied[call.before + k]
             IN  /\ step.row = call.rows[k]
                 /\ step.draw = call.first + k - 1
                 /\ step.row \notin Malformed
        /\ done >= 0
        /\ \/ done < Len(call.dones) /\ core.over
           \/ done = Len(call.dones)
           \/ done = Len(call.dones) + 1 /\ call.phase = "raised" /\ ~sink.open

\* A batch that returns answers one result per row; the flags it answers stay
\* true once true, and exactly the rows before moved the core.
ReturnedBatchIsWhole ==
  call.phase = "returned" =>
    /\ Len(call.dones) = Len(call.rows)
    /\ call.rows # <<>> => call.dones[Len(call.dones)] = core.over
    /\ \A k \in 2 .. Len(call.dones) :
         /\ call.dones[k - 1] => call.dones[k]
         /\ call.moved[k] <=> ~call.dones[k - 1]

\* How many of the first k rows of a trace belong to a step, and how many of
\* the first k steps came in a batch.
MovedUpTo(rows, k)    == Cardinality({i \in 1 .. k : rows[i].moved})
BatchedUpTo(steps, k) == Cardinality({i \in 1 .. k : steps[i].batched})

\* A trace tells the batched steps of an episode: as many rows as steps, and
\* the n-th such row shows the bar of the n-th such step.
Tells(rows, steps) ==
  /\ MovedUpTo(rows, Len(rows)) = BatchedUpTo(steps, Len(steps))
  /\ \A k \in 1 .. Len(rows), j \in 1 .. Len(steps) :
       rows[k].moved /\ steps[j].batched /\ MovedUpTo(rows, k) = BatchedUpTo(steps, j)
         => rows[k].t = steps[j].t

\* "the sink captures every step's trace": as long as it is open, the sink
\* has the steps that came in batches, one row each, in order.
SinkHasEveryBatchedStep == sink.open => Tells(sink.rows, core.applied)
-----------------------------------------------------------------------------
\* The environment is a seeded episode: through every call, batch, refusal and
\* failure, the core has been stepped bar by bar up to its end and not beyond,
\* on draws that only ever go forward in the stream of the last reset.
Used ==
  IF core.applied = NoSteps THEN 0 ELSE core.applied[Len(core.applied)].draw + 1

AsSeededEpisode ==
  INSTANCE SeededEpisode WITH t <- core.t, over <- core.over, stream <- rng.seed,
                              used <- Used, Streams <- Seeds
ImplementsSeededEpisode == AsSeededEpisode!Spec
=============================================================================
