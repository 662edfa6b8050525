--------------------------- MODULE MarketEnvProofs ---------------------------
(***************************************************************************)
(* Theorems about MarketEnv: for every series, set of seeds and actions,   *)
(* batch size and position of the refusals, the draws of an episode are    *)
(* fresh, cutting its actions into calls makes no difference, and a batch  *)
(* applies a prefix of its rows.                                           *)
(***************************************************************************)
EXTENDS MarketEnv, FiniteSetTheorems, TLAPS

USE DEF Bars, Step, TraceRow, Core, Call

\* The clock stays within the series.
LEMMA NextBarInSeries == \A t \in Bars : NextBar(t) \in Bars
  BY MarketEnvAssumption DEF NextBar

\* A step of the core appends one step, the rest of the list stands.
LEMMA AdvanceAppends ==
  ASSUME EnvTypeOK, NEW row \in Rows, NEW draw \in Nat, NEW batched \in BOOLEAN,
         Advance(row, draw, batched)
  PROVE  LET old == core.applied
             new == core'.applied
         IN  /\ core' \in Core
             /\ Len(new) = Len(old) + 1
             /\ \A j \in 1 .. Len(old) : new[j] = old[j]
             /\ new[Len(old) + 1].row = row
             /\ new[Len(old) + 1].draw = draw
             /\ new[Len(old) + 1].t = core'.t
             /\ new[Len(old) + 1].batched = batched
<1> DEFINE step == [row |-> row, draw |-> draw, t |-> NextBar(core.t), batched |-> batched]
<1>1. core.applied \in Seq(Step) /\ core.t \in Bars
  BY DEF EnvTypeOK
<1>2. step \in Step
  BY <1>1, NextBarInSeries
<1>3. PICK over \in BOOLEAN :
        core' = [t |-> NextBar(core.t), over |-> over, applied |-> Append(core.applied, step)]
  BY DEF Advance
<1> HIDE DEF step, Step
<1>4. core'.applied = Append(core.applied, step)
  BY <1>3
<1>5. Append(core.applied, step) \in Seq(Step)
  BY <1>1, <1>2
<1>6. core' \in Core
  BY <1>1, <1>3, <1>5, NextBarInSeries
<1>7. step.row = row /\ step.draw = draw /\ step.t = core'.t /\ step.batched = batched
  BY <1>3 DEF step
<1> QED
  BY <1>1, <1>2, <1>4, <1>6, <1>7

\* The result of a row enters the arrays of the batch.
LEMMA AnswerTypes ==
  ASSUME EnvTypeOK, core' \in Core, NEW moved \in BOOLEAN, Answer(moved)
  PROVE  /\ call' \in Call
         /\ call'.phase = call.phase /\ call'.rows = call.rows
         /\ call'.first = call.first /\ call'.before = call.before
         /\ Len(call'.dones) = Len(call.dones) + 1
<1>1. call \in Call /\ core'.over \in BOOLEAN
  BY DEF EnvTypeOK
<1>2. /\ Append(call.dones, core'.over) \in Seq(BOOLEAN)
      /\ Append(call.moved, moved) \in Seq(BOOLEAN)
      /\ Len(Append(call.dones, core'.over)) = Len(call.dones) + 1
  BY <1>1
<1>3. call' = [call EXCEPT !.dones = Append(call.dones, core'.over),
                           !.moved = Append(call.moved, moved)]
  BY DEF Answer
<1> QED
  BY <1>1, <1>2, <1>3

\* A row of the trace enters the sink.
LEMMA WriteTypes ==
  ASSUME EnvTypeOK, core' \in Core, NEW moved \in BOOLEAN, Write(moved)
  PROVE  sink' \in [open : BOOLEAN, rows : Seq(TraceRow)]
<1>1. TraceOf(moved) \in TraceRow
  BY DEF TraceOf
<1>2. sink \in [open : BOOLEAN, rows : Seq(TraceRow)]
  BY DEF EnvTypeOK
<1> HIDE DEF TraceRow
<1>3. Append(sink.rows, TraceOf(moved)) \in Seq(TraceRow)
  BY <1>1, <1>2
<1> QED
  BY <1>2, <1>3 DEF Write

\* What a batch is when it begins, and when none runs.
LEMMA NewCalls ==
  ASSUME EnvTypeOK
  PROVE  NoBatch \in Call /\ \A rows \in Seq(Rows) : NewBatch(rows) \in Call
<1>1. <<>> \in Seq(BOOLEAN) /\ <<>> \in Seq(Rows)
  OBVIOUS
<1>2. rng.pos \in Nat /\ Len(core.applied) \in Nat
  BY DEF EnvTypeOK
<1> QED
  BY <1>1, <1>2 DEF NoBatch, NewBatch

\* The row a batch stands at is one of its rows, and its draws are a position
\* in the stream.
LEMMA RowTypes ==
  ASSUME EnvTypeOK, MoreRows
  PROVE  Row \in Rows /\ DrawOfRow \in Nat
<1>1. call \in Call
  BY DEF EnvTypeOK
<1>2. Len(call.dones) + 1 \in 1 .. Len(call.rows)
  BY <1>1 DEF MoreRows
<1> QED
  BY <1>1, <1>2 DEF Row, DrawOfRow

\* Draws move the stream on and leave its seed alone.
LEMMA TakeTypes ==
  ASSUME EnvTypeOK, NEW n \in Nat
  PROVE  Take(n) \in [seed : Seeds, pos : Nat] /\ Take(n).pos = rng.pos + n
<1>1. rng \in [seed : Seeds, pos : Nat]
  BY DEF EnvTypeOK
<1>2. Take(n) = [rng EXCEPT !.pos = rng.pos + n]
  BY DEF Take
<1> QED
  BY <1>1, <1>2

\* The batches a caller may submit are sequences of rows.
LEMMA BatchesAreSequences == \A rows \in Batches : rows \in Seq(Rows)
BY MarketEnvAssumption DEF Batches

\* EnvTypeOK holds at first,
LEMMA TypeInit == Init => EnvTypeOK
<1> SUFFICES ASSUME Init PROVE EnvTypeOK
  OBVIOUS
<1>1. core \in Core
  <2>1. 0 \in Bars /\ <<>> \in Seq(Step)
    BY MarketEnvAssumption
  <2> QED BY <2>1 DEF Init, NewCore, NoSteps
<1>2. rng \in [seed : Seeds, pos : Nat]
  BY MarketEnvAssumption DEF Init
<1>3. call \in Call
  <2>1. <<>> \in Seq(BOOLEAN) /\ <<>> \in Seq(Rows)
    OBVIOUS
  <2> QED BY <2>1 DEF Init, NoBatch
<1>4. sink \in [open : BOOLEAN, rows : Seq(TraceRow)]
  <2>1. <<>> \in Seq(TraceRow)
    OBVIOUS
  <2> QED BY <2>1, MarketEnvAssumption DEF Init
<1> QED
  BY <1>1, <1>2, <1>3, <1>4 DEF Init, EnvTypeOK

\* and every step keeps it.
LEMMA TypeStep == EnvTypeOK /\ [Next]_vars => EnvTypeOK'
<1> SUFFICES ASSUME EnvTypeOK, [Next]_vars PROVE EnvTypeOK'
  OBVIOUS
<1> DEFINE Streams == [seed : Seeds, pos : Nat]
           Sink    == [open : BOOLEAN, rows : Seq(TraceRow)]
<1>0. core \in Core /\ rng \in Streams /\ call \in Call /\ sink \in Sink /\ spoiled \in BOOLEAN
  BY DEF EnvTypeOK
<1> SUFFICES /\ core' \in Core /\ rng' \in Streams /\ call' \in Call
             /\ sink' \in Sink /\ spoiled' \in BOOLEAN
  BY DEF EnvTypeOK
<1>1. ASSUME NEW seed \in Seeds, NEW start \in Bars, Reset(seed, start)
      PROVE  /\ core' \in Core /\ rng' \in Streams /\ call' \in Call
             /\ sink' \in Sink /\ spoiled' \in BOOLEAN
  <2>1. core' \in Core
    <3>1. <<>> \in Seq(Step)
      OBVIOUS
    <3> QED BY <1>1, <3>1 DEF Reset, NewCore, NoSteps
  <2>2. sink' \in Sink
    <3>1. <<>> \in Seq(TraceRow)
      OBVIOUS
    <3> QED BY <1>0, <1>1, <3>1 DEF Reset
  <2> QED
    BY <1>1, <2>1, <2>2, NewCalls DEF Reset
<1>2. ASSUME NEW row \in Rows, StepAccepted(row)
      PROVE  /\ core' \in Core /\ rng' \in Streams /\ call' \in Call
             /\ sink' \in Sink /\ spoiled' \in BOOLEAN
  <2>1. core' \in Core
    BY <1>0, <1>2, AdvanceAppends DEF StepAccepted
  <2> QED
    BY <1>0, <1>2, <2>1, NewCalls, TakeTypes DEF StepAccepted
<1>3. ASSUME NEW row \in Rows, StepRefused(row)
      PROVE  /\ core' \in Core /\ rng' \in Streams /\ call' \in Call
             /\ sink' \in Sink /\ spoiled' \in BOOLEAN
  BY <1>0, <1>3, NewCalls, TakeTypes DEF StepRefused
<1>4. CASE StepAfterEnd
  BY <1>0, <1>4, NewCalls DEF StepAfterEnd
<1>5. ASSUME NEW rows \in Batches, StepMany(rows)
      PROVE  /\ core' \in Core /\ rng' \in Streams /\ call' \in Call
             /\ sink' \in Sink /\ spoiled' \in BOOLEAN
  BY <1>0, <1>5, NewCalls, TakeTypes, BatchesAreSequences DEF StepMany
<1>6. CASE RowAfterEnd
  <2>1. core' \in Core
    BY <1>0, <1>6 DEF RowAfterEnd
  <2> QED
    BY <1>0, <1>6, <2>1, AnswerTypes, WriteTypes DEF RowAfterEnd
<1>7. CASE RowAccepted
  <2>1. core' \in Core
    BY <1>7, RowTypes, AdvanceAppends DEF RowAccepted
  <2> QED
    BY <1>0, <1>7, <2>1, AnswerTypes, WriteTypes DEF RowAccepted
<1>8. CASE RowRefused
  BY <1>0, <1>8 DEF RowRefused
<1>9. CASE RowUntraced
  <2>1. core' \in Core
    BY <1>0, <1>9, RowTypes, AdvanceAppends DEF RowUntraced
  <2> QED
    BY <1>0, <1>9, <2>1 DEF RowUntraced
<1>10. CASE Return
  BY <1>0, <1>10 DEF Return
<1>11. CASE Close
  BY <1>0, <1>11 DEF Close
<1>12. CASE UNCHANGED vars
  BY <1>0, <1>12 DEF vars
<1> QED
  BY <1>1, <1>2, <1>3, <1>4, <1>5, <1>6, <1>7, <1>8, <1>9, <1>10, <1>11, <1>12
     DEF Next, ProcessRow

\* EnvTypeOK: the shape of the environment's fields, for every configuration.
THEOREM EnvTypeCorrect == Spec => []EnvTypeOK
BY TypeInit, TypeStep, PTL DEF Spec
-----------------------------------------------------------------------------
(***************************************************************************)
(* The draws.  DrawsAreFresh is not inductive: a batch has taken its draws *)
(* from the stream before its rows use them, so that for the next row it   *)
(* is not the stream's position but the row's place in the batch that lies *)
(* above every draw used so far.                                           *)
(***************************************************************************)
Horizon == IF Running THEN DrawOfRow ELSE rng.pos

\* A batch owns the draws up to the stream's position, and no more rows have
\* been answered than it has.
BatchOwnsDraws ==
  Running => /\ call.first + Len(call.rows) = rng.pos
             /\ Len(call.dones) <= Len(call.rows)

FreshDraws ==
  /\ \A j \in 1 .. Len(core.applied) : core.applied[j].draw < Horizon
  /\ \A j, k \in 1 .. Len(core.applied) :
       j < k => core.applied[j].draw < core.applied[k].draw

\* As long as nothing was refused, the steps of the episode have used one
\* position each; once it is over a batch may leave some unused.
Unbroken ==
  ~spoiled =>
    /\ \A j \in 1 .. Len(core.applied) : core.applied[j].draw = j - 1
    /\ ~core.over => Len(core.applied) = Horizon

DrawsInv == EnvTypeOK /\ BatchOwnsDraws /\ FreshDraws /\ Unbroken

\* The horizon never passes the stream's position.
LEMMA HorizonReached == EnvTypeOK /\ BatchOwnsDraws => Horizon <= rng.pos /\ Horizon \in Nat
BY DEF EnvTypeOK, BatchOwnsDraws, Horizon, DrawOfRow, Running

\* A step that uses the draws at the horizon and moves the horizon beyond them
\* keeps the draws fresh.
LEMMA AppendKeepsFresh ==
  ASSUME DrawsInv, NEW row \in Rows, NEW batched \in BOOLEAN,
         Advance(row, Horizon, batched), Horizon' \in Nat, Horizon' > Horizon
  PROVE  FreshDraws'
<1> DEFINE old == core.applied
           new == core'.applied
<1>1. /\ Horizon \in Nat /\ old \in Seq(Step)
      /\ \A j \in 1 .. Len(old) : old[j].draw \in Nat
  <2>1. Horizon \in Nat
    BY HorizonReached DEF DrawsInv
  <2>2. old \in Seq(Step)
    BY DEF DrawsInv, EnvTypeOK
  <2>3. \A j \in 1 .. Len(old) : old[j] \in Step
    <3> HIDE DEF old, Step
    <3> QED BY <2>2
  <2> QED BY <2>1, <2>2, <2>3
<1>2. /\ Len(new) = Len(old) + 1
      /\ \A j \in 1 .. Len(old) : new[j] = old[j]
      /\ new[Len(old) + 1].draw = Horizon
  BY <1>1, AdvanceAppends DEF DrawsInv
<1>3. /\ \A j \in 1 .. Len(old) : old[j].draw < Horizon
      /\ \A j, k \in 1 .. Len(old) : j < k => old[j].draw < old[k].draw
  BY DEF DrawsInv, FreshDraws
<1> HIDE DEF old, new
<1>4. Len(old) \in Nat
  BY <1>1 DEF old
<1>5. ASSUME NEW j \in 1 .. Len(new)
      PROVE  new[j].draw < Horizon'
  <2>1. CASE j \in 1 .. Len(old)
    <3>1. new[j].draw = old[j].draw /\ old[j].draw \in Nat /\ old[j].draw < Horizon
      BY <1>1, <1>2, <1>3, <2>1 DEF old
    <3> QED BY <1>1, <3>1
  <2>2. CASE j = Len(old) + 1
    BY <1>1, <1>2, <2>2
  <2> QED BY <1>2, <1>4, <2>1, <2>2
<1>6. ASSUME NEW j \in 1 .. Len(new), NEW k \in 1 .. Len(new), j < k
      PROVE  new[j].draw < new[k].draw
  <2>1. j \in 1 .. Len(old)
    BY <1>2, <1>4, <1>6
  <2>2. CASE k \in 1 .. Len(old)
    BY <1>2, <1>3, <1>6, <2>1, <2>2
  <2>3. CASE k = Len(old) + 1
    BY <1>2, <1>3, <2>1, <2>3
  <2> QED BY <1>2, <1>4, <2>2, <2>3
<1> QED
  BY <1>5, <1>6 DEF FreshDraws, new

\* and, if nothing was refused, the episode unbroken.
LEMMA AppendKeepsUnbroken ==
  ASSUME DrawsInv, NEW row \in Rows, NEW batched \in BOOLEAN, ~core.over, ~spoiled,
         Advance(row, Horizon, batched), Horizon' = Horizon + 1
  PROVE  Unbroken'
<1> DEFINE old == core.applied
           new == core'.applied
<1>1. Horizon \in Nat /\ Len(old) \in Nat
  BY HorizonReached DEF DrawsInv, EnvTypeOK
<1>2. /\ Len(new) = Len(old) + 1
      /\ \A j \in 1 .. Len(old) : new[j] = old[j]
      /\ new[Len(old) + 1].draw = Horizon
  BY <1>1, AdvanceAppends DEF DrawsInv
<1>3. /\ \A j \in 1 .. Len(old) : old[j].draw = j - 1
      /\ Len(old) = Horizon
  BY DEF DrawsInv, Unbroken
<1> HIDE DEF old, new
<1>4. ASSUME NEW j \in 1 .. Len(new)
      PROVE  new[j].draw = j - 1
  <2>1. CASE j \in 1 .. Len(old)
    BY <1>2, <1>3, <2>1
  <2>2. CASE j = Len(old) + 1
    BY <1>1, <1>2, <1>3, <2>2
  <2> QED BY <1>1, <1>2, <2>1, <2>2
<1>5. Len(new) = Horizon'
  BY <1>2, <1>3
<1> QED
  BY <1>4, <1>5 DEF Unbroken, new

\* A step that feeds the core nothing keeps the draws fresh, wherever it moves
\* the horizon to above,
LEMMA StandKeepsFresh ==
  ASSUME DrawsInv, core'.applied = core.applied, Horizon' \in Nat, Horizon' >= Horizon
  PROVE  FreshDraws'
<1> DEFINE old == core.applied
<1>1. Horizon \in Nat
  BY HorizonReached DEF DrawsInv
<1>2. \A j \in 1 .. Len(old) : old[j].draw \in Nat
  <2>1. old \in Seq(Step)
    BY DEF DrawsInv, EnvTypeOK
  <2>2. \A j \in 1 .. Len(old) : old[j] \in Step
    <3> HIDE DEF old, Step
    <3> QED BY <2>1
  <2> QED BY <2>2
<1>3. /\ \A j \in 1 .. Len(old) : old[j].draw < Horizon
      /\ \A j, k \in 1 .. Len(old) : j < k => old[j].draw < old[k].draw
  BY DEF DrawsInv, FreshDraws
<1> HIDE DEF old
<1>4. \A j \in 1 .. Len(old) : old[j].draw < Horizon'
  BY <1>1, <1>2, <1>3
<1> QED
  BY <1>3, <1>4 DEF FreshDraws, old

\* and the episode unbroken if it stays where it is or the episode is over.
LEMMA StandKeepsUnbroken ==
  ASSUME DrawsInv, core' = core, spoiled' = spoiled, core.over \/ Horizon' = Horizon
  PROVE  Unbroken'
BY DEF DrawsInv, Unbroken

\* A row that raises after it was applied, or instead, keeps the draws fresh:
\* the rest of the batch will never use its own.
LEMMA RaiseKeepsDraws ==
  ASSUME DrawsInv, EnvTypeOK', MoreRows,
         UNCHANGED core \/ Advance(Row, DrawOfRow, TRUE),
         call' = [call EXCEPT !.phase = "raised"], spoiled', UNCHANGED rng
  PROVE  DrawsInv'
<1>1. /\ call \in Call /\ rng.pos \in Nat /\ call.first \in Nat
      /\ Len(call.dones) \in Nat /\ Len(call.rows) \in Nat /\ Horizon \in Nat
  BY HorizonReached DEF DrawsInv, EnvTypeOK
<1>2. call'.phase = "raised"
  BY <1>1
<1>3. BatchOwnsDraws' /\ Horizon' = rng.pos /\ Horizon = DrawOfRow /\ Horizon' > Horizon
  BY <1>1, <1>2 DEF DrawsInv, BatchOwnsDraws, Horizon, DrawOfRow, MoreRows, Running
<1>4. CASE UNCHANGED core
  BY <1>1, <1>3, <1>4, StandKeepsFresh DEF DrawsInv, Unbroken
<1>5. CASE Advance(Row, DrawOfRow, TRUE)
  BY <1>1, <1>3, <1>5, RowTypes, AppendKeepsFresh DEF DrawsInv, Unbroken
<1> QED
  BY <1>4, <1>5

\* DrawsInv holds at first,
LEMMA DrawsInit == Init => DrawsInv
<1> SUFFICES ASSUME Init PROVE DrawsInv
  OBVIOUS
<1>1. core.applied = <<>> /\ ~Running /\ rng.pos = 0 /\ Horizon = 0
  BY DEF Init, NewCore, NoSteps, NoBatch, Running, Horizon
<1> QED
  BY <1>1, TypeInit DEF DrawsInv, BatchOwnsDraws, FreshDraws, Unbroken

\* and every step keeps it.
LEMMA DrawsStep == DrawsInv /\ [Next]_vars => DrawsInv'
<1> SUFFICES ASSUME DrawsInv, [Next]_vars PROVE DrawsInv'
  OBVIOUS
<1> USE DEF Running
<1>0. /\ EnvTypeOK /\ EnvTypeOK' /\ BatchOwnsDraws
      /\ core \in Core /\ call \in Call /\ rng.pos \in Nat /\ rng'.pos \in Nat /\ Horizon \in Nat
  BY TypeStep, HorizonReached DEF DrawsInv, EnvTypeOK
<1>idle. ~Running => Horizon = rng.pos
  BY DEF Horizon
<1>row. ASSUME MoreRows, NEW moved \in BOOLEAN, Answer(moved), UNCHANGED rng
        PROVE  BatchOwnsDraws' /\ Horizon = DrawOfRow /\ Horizon' = Horizon + 1
  <2>1. call.first \in Nat /\ Len(call.dones) \in Nat /\ Len(call.rows) \in Nat
    BY <1>0
  <2>2. core' \in Core
    BY <1>0 DEF EnvTypeOK
  <2>3. /\ call'.phase = call.phase /\ call'.rows = call.rows /\ call'.first = call.first
        /\ Len(call'.dones) = Len(call.dones) + 1
    BY <1>0, <1>row, <2>2, AnswerTypes
  <2>4. Len(call'.dones) <= Len(call'.rows)
    BY <1>row, <2>1, <2>3 DEF MoreRows
  <2>5. call'.first + Len(call'.rows) = rng'.pos
    BY <1>0, <1>row, <2>3 DEF BatchOwnsDraws, MoreRows
  <2>6. Horizon = DrawOfRow /\ Horizon' = DrawOfRow'
    BY <1>row, <2>3 DEF MoreRows, Horizon
  <2>7. DrawOfRow' = DrawOfRow + 1
    BY <2>1, <2>3 DEF DrawOfRow
  <2> QED
    BY <2>4, <2>5, <2>6, <2>7 DEF BatchOwnsDraws
<1>1. ASSUME NEW seed \in Seeds, NEW start \in Bars, Reset(seed, start)
      PROVE  DrawsInv'
  <2>1. core'.applied = <<>> /\ ~Running' /\ rng'.pos = 0 /\ Horizon' = 0
    BY <1>1 DEF Reset, NewCore, NoSteps, NoBatch, Horizon
  <2> QED
    BY <1>0, <2>1 DEF DrawsInv, BatchOwnsDraws, FreshDraws, Unbroken
<1>2. ASSUME NEW row \in Rows, StepAccepted(row)
      PROVE  DrawsInv'
  <2>1. ~Running' /\ Horizon = rng.pos /\ Horizon' = Horizon + 1
    BY <1>0, <1>2, TakeTypes DEF StepAccepted, NoBatch, Horizon
  <2>2. Advance(row, Horizon, FALSE) /\ ~core.over /\ spoiled' = spoiled
    BY <1>2, <2>1 DEF StepAccepted
  <2>3. FreshDraws'
    <3>1. Horizon' \in Nat /\ Horizon' > Horizon
      BY <1>0, <2>1
    <3> QED BY <2>2, <3>1, AppendKeepsFresh
  <2>4. Unbroken'
    BY <2>1, <2>2, AppendKeepsUnbroken DEF Unbroken
  <2> QED
    BY <1>0, <2>1, <2>3, <2>4 DEF DrawsInv, BatchOwnsDraws
<1>3. ASSUME NEW row \in Rows, StepRefused(row)
      PROVE  DrawsInv'
  <2>1. ~Running' /\ Horizon = rng.pos /\ Horizon' = Horizon + 1
    BY <1>0, <1>3, TakeTypes DEF StepRefused, NoBatch, Horizon
  <2>2. FreshDraws'
    BY <1>0, <1>3, <2>1, StandKeepsFresh DEF StepRefused
  <2> QED
    BY <1>0, <1>3, <2>1, <2>2 DEF DrawsInv, BatchOwnsDraws, Unbroken, StepRefused
<1>4. CASE StepAfterEnd
  <2>1. ~Running' /\ Horizon' = Horizon
    BY <1>0, <1>4 DEF StepAfterEnd, NoBatch, Horizon
  <2>2. FreshDraws' /\ Unbroken'
    BY <1>0, <1>4, <2>1, StandKeepsFresh, StandKeepsUnbroken DEF StepAfterEnd
  <2> QED
    BY <1>0, <2>1, <2>2 DEF DrawsInv, BatchOwnsDraws
<1>5. ASSUME NEW rows \in Batches, StepMany(rows)
      PROVE  DrawsInv'
  <2>1. rows \in Seq(Rows) /\ Len(rows) \in Nat
    BY BatchesAreSequences
  <2>2. /\ call'.first = rng.pos /\ call'.rows = rows /\ call'.dones = <<>>
        /\ rng'.pos = rng.pos + Len(rows)
    BY <1>0, <1>5, <2>1, TakeTypes DEF StepMany, NewBatch
  <2>3. Running' /\ Horizon' = Horizon /\ BatchOwnsDraws'
    BY <1>0, <1>5, <2>1, <2>2 DEF StepMany, NewBatch, Horizon, DrawOfRow, BatchOwnsDraws
  <2>4. FreshDraws' /\ Unbroken'
    BY <1>0, <1>5, <2>3, StandKeepsFresh, StandKeepsUnbroken DEF StepMany
  <2> QED
    BY <1>0, <2>3, <2>4 DEF DrawsInv
<1>6. CASE RowAfterEnd
  <2>1. BatchOwnsDraws' /\ Horizon' = Horizon + 1
    BY <1>6, <1>row DEF RowAfterEnd
  <2>2. FreshDraws' /\ Unbroken'
    BY <1>0, <1>6, <2>1, StandKeepsFresh, StandKeepsUnbroken DEF RowAfterEnd
  <2> QED
    BY <1>0, <2>1, <2>2 DEF DrawsInv
<1>7. CASE RowAccepted
  <2>1. BatchOwnsDraws' /\ Horizon = DrawOfRow /\ Horizon' = Horizon + 1
    BY <1>7, <1>row DEF RowAccepted
  <2>2. Advance(Row, Horizon, TRUE) /\ Row \in Rows /\ ~core.over /\ spoiled' = spoiled
    BY <1>0, <1>7, <2>1, RowTypes DEF RowAccepted
  <2>3. FreshDraws'
    <3>1. Horizon' \in Nat /\ Horizon' > Horizon
      BY <1>0, <2>1
    <3> QED BY <2>2, <3>1, AppendKeepsFresh
  <2>4. Unbroken'
    BY <2>1, <2>2, AppendKeepsUnbroken DEF Unbroken
  <2> QED
    BY <1>0, <2>1, <2>3, <2>4 DEF DrawsInv
<1>8. CASE RowRefused
  BY <1>0, <1>8, RaiseKeepsDraws DEF RowRefused
<1>9. CASE RowUntraced
  BY <1>0, <1>9, RaiseKeepsDraws DEF RowUntraced
<1>10. CASE Return
  <2>1. ~Running' /\ Horizon' = Horizon
    BY <1>0, <1>10 DEF Return, MoreRows, Horizon, DrawOfRow, BatchOwnsDraws
  <2>2. FreshDraws' /\ Unbroken'
    BY <1>0, <1>10, <2>1, StandKeepsFresh, StandKeepsUnbroken DEF Return
  <2> QED
    BY <1>0, <2>1, <2>2 DEF DrawsInv, BatchOwnsDraws
<1>11. ASSUME Close \/ UNCHANGED vars
       PROVE  DrawsInv'
  <2>1. UNCHANGED <<core, rng, call, spoiled>>
    BY <1>11 DEF Close, vars
  <2> QED
    BY <1>0, <2>1 DEF DrawsInv, BatchOwnsDraws, FreshDraws, Unbroken, Horizon, DrawOfRow
<1> QED
  BY <1>1, <1>2, <1>3, <1>4, <1>5, <1>6, <1>7, <1>8, <1>9, <1>10, <1>11
     DEF Next, ProcessRow

\* DrawsAreFresh: no two steps of an episode share their draws, in whatever mix
\* of single steps, batches, refusals and batches that outlive the episode.
THEOREM DrawsAreFreshHolds == Spec => []DrawsAreFresh
<1>1. DrawsInv => DrawsAreFresh
  <2> SUFFICES ASSUME DrawsInv PROVE DrawsAreFresh
    OBVIOUS
  <2>1. Horizon \in Nat /\ Horizon <= rng.pos /\ rng.pos \in Nat
    BY HorizonReached DEF DrawsInv, EnvTypeOK
  <2>2. \A j \in 1 .. Len(core.applied) : core.applied[j].draw \in Nat
    <3>1. core.applied \in Seq(Step)
      BY DEF DrawsInv, EnvTypeOK
    <3>2. \A j \in 1 .. Len(core.applied) : core.applied[j] \in Step
      <4> HIDE DEF Step
      <4> QED BY <3>1
    <3> QED BY <3>2
  <2> QED
    BY <2>1, <2>2 DEF DrawsInv, FreshDraws, DrawsAreFresh
<1> QED
  BY <1>1, DrawsInit, DrawsStep, PTL DEF Spec

\* BatchingIsInvisible: as long as no call raised, the j-th step of an episode
\* gets the j-th draws of its seed, however its actions are cut into calls.
THEOREM BatchingIsInvisibleHolds == Spec => []BatchingIsInvisible
<1>1. DrawsInv => BatchingIsInvisible
  BY DEF DrawsInv, Unbroken, BatchingIsInvisible
<1> QED
  BY <1>1, DrawsInit, DrawsStep, PTL DEF Spec
-----------------------------------------------------------------------------
(***************************************************************************)
(* Batches.  BatchAppliesItsPrefix is inductive: a batch that still runs   *)
(* and whose episode is not over has applied as many rows as it has        *)
(* answered, so that the next row is the next step.                        *)
(***************************************************************************)
Applied == Len(core.applied) - call.before
PrefixStep(k) ==
  LET step == core.applied[call.before + k]
  IN  /\ step.row = call.rows[k]
      /\ step.draw = call.first + k - 1
      /\ step.row \notin Malformed

\* A row that is applied continues the prefix.
LEMMA RowContinuesPrefix ==
  ASSUME EnvTypeOK, BatchAppliesItsPrefix, MoreRows, ~core.over,
         Row \notin Malformed, Advance(Row, DrawOfRow, TRUE),
         call'.before = call.before, call'.first = call.first, call'.rows = call.rows
  PROVE  /\ Applied = Len(call.dones) /\ Applied' = Applied + 1
         /\ \A k \in 1 .. Applied' : PrefixStep(k)'
<1>1. /\ call.before \in Nat /\ call.first \in Nat /\ Len(call.dones) \in Nat
      /\ Len(core.applied) \in Nat
  BY DEF EnvTypeOK
<1>2. call.phase = "running"
  BY DEF MoreRows, Running
<1>3. Applied = Len(call.dones) /\ \A k \in 1 .. Applied : PrefixStep(k)
  BY <1>1, <1>2 DEF BatchAppliesItsPrefix, Applied, PrefixStep
<1>4. Row \in Rows /\ DrawOfRow \in Nat
  BY RowTypes
<1>5. /\ Len(core'.applied) = Len(core.applied) + 1
      /\ \A j \in 1 .. Len(core.applied) : core'.applied[j] = core.applied[j]
      /\ core'.applied[Len(core.applied) + 1].row = Row
      /\ core'.applied[Len(core.applied) + 1].draw = DrawOfRow
  BY <1>4, AdvanceAppends
<1>6. Applied' = Applied + 1
  BY <1>1, <1>5 DEF Applied
<1>7. ASSUME NEW k \in 1 .. Applied'
      PROVE  PrefixStep(k)'
  <2>1. CASE k \in 1 .. Applied
    <3>1. call.before + k \in 1 .. Len(core.applied)
      BY <1>1, <2>1 DEF Applied
    <3>2. core'.applied[call'.before + k] = core.applied[call.before + k]
      BY <1>5, <3>1
    <3> QED
      BY <1>3, <2>1, <3>2 DEF PrefixStep
  <2>2. CASE k = Applied + 1
    <3>1. call.before + k = Len(core.applied) + 1 /\ k = Len(call.dones) + 1
      BY <1>1, <1>3, <2>2 DEF Applied
    <3>2. call.first + k - 1 = DrawOfRow /\ call.rows[k] = Row
      BY <1>1, <3>1 DEF DrawOfRow, Row
    <3> QED
      BY <1>5, <3>1, <3>2 DEF PrefixStep
  <2> QED
    BY <1>1, <1>3, <1>6, <2>1, <2>2
<1> QED
  BY <1>3, <1>6, <1>7

\* Every step keeps the batch a prefix of its rows.
LEMMA PrefixKept ==
  EnvTypeOK /\ BatchAppliesItsPrefix /\ [Next]_vars => BatchAppliesItsPrefix'
<1> SUFFICES ASSUME EnvTypeOK, BatchAppliesItsPrefix, [Next]_vars
             PROVE  BatchAppliesItsPrefix'
  OBVIOUS
<1>0. /\ core \in Core /\ call \in Call /\ EnvTypeOK'
      /\ call.before \in Nat /\ Len(call.dones) \in Nat /\ Len(core.applied) \in Nat
  BY TypeStep DEF EnvTypeOK
<1>1. ASSUME call'.phase = "idle" PROVE BatchAppliesItsPrefix'
  BY <1>1 DEF BatchAppliesItsPrefix
<1>2. ASSUME NEW rows \in Batches, StepMany(rows)
      PROVE  BatchAppliesItsPrefix'
  <2>1. call'.dones = <<>> /\ call'.before = Len(core'.applied) /\ core' = core
    BY <1>2 DEF StepMany, NewBatch
  <2> QED
    BY <1>0, <2>1 DEF BatchAppliesItsPrefix
<1>3. CASE RowAfterEnd
  <2>1. core'.over /\ core' = core
    BY <1>3 DEF RowAfterEnd
  <2>2. /\ call'.phase = "running" /\ call.phase = "running" /\ call'.rows = call.rows
        /\ call'.first = call.first /\ call'.before = call.before
        /\ Len(call'.dones) = Len(call.dones) + 1
    BY <1>0, <1>3, AnswerTypes DEF RowAfterEnd, MoreRows, Running
  <2> QED
    BY <1>0, <2>1, <2>2 DEF BatchAppliesItsPrefix
<1>4. CASE RowAccepted
  <2>1. core' \in Core
    BY <1>0 DEF EnvTypeOK
  <2>2. /\ call'.phase = "running" /\ call'.rows = call.rows
        /\ call'.first = call.first /\ call'.before = call.before
        /\ Len(call'.dones) = Len(call.dones) + 1
    BY <1>4, <2>1, AnswerTypes DEF RowAccepted, MoreRows, Running
  <2>3. /\ Applied = Len(call.dones) /\ Applied' = Applied + 1
        /\ \A k \in 1 .. Applied' : PrefixStep(k)'
    BY <1>4, <2>2, RowContinuesPrefix DEF RowAccepted
  <2> QED
    BY <1>0, <2>2, <2>3 DEF BatchAppliesItsPrefix, Applied, PrefixStep
<1>5. CASE RowUntraced
  <2>1. /\ call'.phase = "raised" /\ call'.rows = call.rows /\ call'.dones = call.dones
        /\ call'.first = call.first /\ call'.before = call.before
        /\ call.phase = "running" /\ ~sink'.open
    BY <1>0, <1>5 DEF RowUntraced, MoreRows, Running
  <2>2. CASE core.over /\ UNCHANGED core
    BY <1>0, <2>1, <2>2 DEF BatchAppliesItsPrefix
  <2>3. CASE ~core.over /\ Row \notin Malformed /\ Advance(Row, DrawOfRow, TRUE)
    <3>1. /\ Applied = Len(call.dones) /\ Applied' = Applied + 1
          /\ \A k \in 1 .. Applied' : PrefixStep(k)'
      BY <1>5, <2>1, <2>3, RowContinuesPrefix DEF RowUntraced
    <3> QED
      BY <1>0, <2>1, <3>1 DEF BatchAppliesItsPrefix, Applied, PrefixStep
  <2> QED
    BY <1>5, <2>2, <2>3 DEF RowUntraced
<1>6. CASE RowRefused \/ Return
  <2>1. /\ core' = core /\ call'.rows = call.rows /\ call'.dones = call.dones
        /\ call'.first = call.first /\ call'.before = call.before
        /\ call.phase = "running"
    BY <1>0, <1>6 DEF RowRefused, Return, MoreRows, Running
  <2> QED
    BY <1>0, <2>1 DEF BatchAppliesItsPrefix
<1>7. CASE Close \/ UNCHANGED vars
  <2>1. core' = core /\ call' = call /\ (sink'.open => sink.open)
    BY <1>7 DEF Close, vars
  <2> QED
    BY <2>1 DEF BatchAppliesItsPrefix
<1>8. ASSUME \/ \E seed \in Seeds, start \in Bars : Reset(seed, start)
             \/ \E row \in Rows : StepAccepted(row) \/ StepRefused(row)
             \/ StepAfterEnd
      PROVE  call'.phase = "idle"
  <2>1. call' = NoBatch
    <3>1. ASSUME NEW seed \in Seeds, NEW start \in Bars, Reset(seed, start)
          PROVE  call' = NoBatch
      BY <3>1 DEF Reset
    <3>2. ASSUME NEW row \in Rows, StepAccepted(row) \/ StepRefused(row)
          PROVE  call' = NoBatch
      BY <3>2 DEF StepAccepted, StepRefused
    <3>3. ASSUME StepAfterEnd PROVE call' = NoBatch
      BY <3>3 DEF StepAfterEnd
    <3> QED BY <1>8, <3>1, <3>2, <3>3
  <2> QED BY <2>1 DEF NoBatch
<1> QED
  BY <1>1, <1>2, <1>3, <1>4, <1>5, <1>6, <1>7, <1>8 DEF Next, ProcessRow

\* BatchAppliesItsPrefix: a batch, running, returned or raised half way, has fed
\* the core exactly its first rows, in order and each with its own draws.
THEOREM BatchAppliesItsPrefixHolds == Spec => []BatchAppliesItsPrefix
<1>1. Init => BatchAppliesItsPrefix
  BY DEF Init, NoBatch, BatchAppliesItsPrefix
<1> QED
  BY <1>1, TypeInit, TypeStep, PrefixKept, PTL DEF Spec
-----------------------------------------------------------------------------
(***************************************************************************)
(* Answers.  The flag answered last is the core's own, so the next row     *)
(* moves the core exactly if that flag is down.                            *)
(***************************************************************************)
FlagsAreSteps(dones, moved) ==
  \A k \in 2 .. Len(dones) :
    /\ dones[k - 1] => dones[k]
    /\ moved[k] <=> ~dones[k - 1]

AnsweredInv ==
  call.phase \in {"running", "returned"} =>
    /\ Len(call.moved) = Len(call.dones)
    /\ Len(call.dones) <= Len(call.rows)
    /\ call.phase = "returned" => Len(call.dones) = Len(call.rows)
    /\ Len(call.dones) > 0 => call.dones[Len(call.dones)] = core.over
    /\ FlagsAreSteps(call.dones, call.moved)

\* One more row: it has moved the core unless the episode was over, and over
\* it stays.
LEMMA AnswerContinues ==
  ASSUME EnvTypeOK, AnsweredInv, MoreRows, core' \in Core, NEW moved \in BOOLEAN,
         Answer(moved), moved <=> ~core.over, core.over => core'.over
  PROVE  AnsweredInv'
<1> DEFINE n == Len(call.dones)
<1>1. /\ call \in Call /\ call.phase = "running" /\ n \in Nat /\ n < Len(call.rows)
      /\ call.dones \in Seq(BOOLEAN) /\ call.moved \in Seq(BOOLEAN)
      /\ Len(call.moved) = n /\ core.over \in BOOLEAN /\ core'.over \in BOOLEAN
  BY DEF EnvTypeOK, MoreRows, Running, AnsweredInv
<1>2. /\ call'.dones = Append(call.dones, core'.over)
      /\ call'.moved = Append(call.moved, moved)
      /\ call'.rows = call.rows /\ call'.phase = call.phase
  BY <1>1 DEF Answer
<1>3. \A s \in Seq(BOOLEAN), b \in BOOLEAN :
        /\ Len(Append(s, b)) = Len(s) + 1
        /\ Append(s, b)[Len(s) + 1] = b
        /\ \A j \in 1 .. Len(s) : Append(s, b)[j] = s[j]
  OBVIOUS
<1>4. /\ Len(call'.dones) = n + 1 /\ Len(call'.moved) = n + 1
      /\ call'.dones[n + 1] = core'.over /\ call'.moved[n + 1] = moved
      /\ \A j \in 1 .. n : call'.dones[j] = call.dones[j] /\ call'.moved[j] = call.moved[j]
  BY <1>1, <1>2, <1>3
<1>5. n > 0 => call.dones[n] = core.over
  BY <1>1 DEF AnsweredInv
<1>6. FlagsAreSteps(call.dones, call.moved)
  BY <1>1 DEF AnsweredInv
<1>7. ASSUME NEW k \in 2 .. n + 1
      PROVE  /\ call'.dones[k - 1] => call'.dones[k]
             /\ call'.moved[k] <=> ~call'.dones[k - 1]
  <2>1. CASE k = n + 1
    <3>1. k - 1 = n /\ n > 0 /\ n \in 1 .. n
      BY <1>1, <2>1
    <3>2. call'.dones[k - 1] = core.over
      BY <1>4, <1>5, <3>1
    <3>3. call'.dones[k] = core'.over /\ call'.moved[k] = moved
      BY <1>4, <2>1
    <3> QED BY <3>2, <3>3, Zenon
  <2>2. CASE k # n + 1
    <3>1. k \in 2 .. n /\ k \in 1 .. n /\ k - 1 \in 1 .. n
      BY <1>1, <2>2
    <3>2. /\ call'.dones[k] = call.dones[k] /\ call'.moved[k] = call.moved[k]
          /\ call'.dones[k - 1] = call.dones[k - 1]
      BY <1>4, <3>1
    <3>3. (call.dones[k - 1] => call.dones[k]) /\ (call.moved[k] <=> ~call.dones[k - 1])
      BY <1>6, <3>1, Zenon DEF FlagsAreSteps
    <3> QED BY <3>2, <3>3, Zenon
  <2> QED BY <2>1, <2>2
<1>8. FlagsAreSteps(call'.dones, call'.moved)
  BY <1>4, <1>7, Zenon DEF FlagsAreSteps
<1>9. call'.phase = "running" /\ Len(call'.dones) <= Len(call'.rows)
  BY <1>1, <1>2, <1>4
<1>10. call'.dones[Len(call'.dones)] = core'.over
  BY <1>4
<1> QED
  BY <1>4, <1>8, <1>9, <1>10 DEF AnsweredInv

\* Every step keeps the answers whole.
LEMMA AnsweredKept == EnvTypeOK /\ AnsweredInv /\ [Next]_vars => AnsweredInv'
<1> SUFFICES ASSUME EnvTypeOK, AnsweredInv, [Next]_vars PROVE AnsweredInv'
  OBVIOUS
<1>0. /\ core \in Core /\ core' \in Core /\ call \in Call
      /\ Len(call.dones) \in Nat /\ Len(call.rows) \in Nat
  BY TypeStep DEF EnvTypeOK
<1>1. ASSUME call' = NoBatch PROVE AnsweredInv'
  BY <1>1 DEF AnsweredInv, NoBatch
<1>2. ASSUME NEW seed \in Seeds, NEW start \in Bars, Reset(seed, start)
      PROVE  AnsweredInv'
  BY <1>1, <1>2 DEF Reset
<1>3. ASSUME NEW row \in Rows, StepAccepted(row) \/ StepRefused(row)
      PROVE  AnsweredInv'
  BY <1>1, <1>3 DEF StepAccepted, StepRefused
<1>4. CASE StepAfterEnd
  BY <1>1, <1>4 DEF StepAfterEnd
<1>5. ASSUME NEW rows \in Batches, StepMany(rows) PROVE AnsweredInv'
  <2>1. /\ call'.phase = "running" /\ call'.dones = <<>> /\ call'.moved = <<>>
        /\ call'.rows = rows
    BY <1>5 DEF StepMany, NewBatch
  <2>2. Len(rows) \in Nat
    BY <1>5, BatchesAreSequences
  <2>3. FlagsAreSteps(<<>>, <<>>)
    BY DEF FlagsAreSteps
  <2> QED
    BY <2>1, <2>2, <2>3 DEF AnsweredInv
<1>6. CASE RowAfterEnd
  <2>1. MoreRows /\ core.over /\ Answer(FALSE) /\ core' = core
    BY <1>6 DEF RowAfterEnd
  <2>2. (FALSE <=> ~core.over) /\ (core.over => core'.over)
    BY <2>1, Zenon
  <2> QED
    BY <1>0, <2>1, <2>2, AnswerContinues
<1>7. CASE RowAccepted
  <2>1. MoreRows /\ ~core.over /\ Answer(TRUE)
    BY <1>7 DEF RowAccepted
  <2>2. (TRUE <=> ~core.over) /\ (core.over => core'.over)
    BY <2>1, Zenon
  <2> QED
    BY <1>0, <2>1, <2>2, AnswerContinues
<1>8. CASE RowRefused \/ RowUntraced
  <2>1. call'.phase = "raised"
    BY <1>0, <1>8 DEF RowRefused, RowUntraced
  <2> QED
    BY <2>1 DEF AnsweredInv
<1>9. CASE Return
  <2>1. /\ call.phase = "running" /\ call'.phase = "returned" /\ call'.dones = call.dones
        /\ call'.moved = call.moved /\ call'.rows = call.rows /\ core' = core
        /\ ~(Len(call.dones) < Len(call.rows))
    BY <1>0, <1>9 DEF Return, MoreRows, Running
  <2> QED
    BY <1>0, <2>1 DEF AnsweredInv
<1>10. CASE Close \/ UNCHANGED vars
  BY <1>10 DEF Close, vars, AnsweredInv
<1> QED
  BY <1>2, <1>3, <1>4, <1>5, <1>6, <1>7, <1>8, <1>9, <1>10 DEF Next, ProcessRow

\* ReturnedBatchIsWhole: a batch that returns has answered every row, its last
\* flag is the episode's, and exactly the rows before the end moved the core.
THEOREM ReturnedBatchIsWholeHolds == Spec => []ReturnedBatchIsWhole
<1>1. Init => AnsweredInv
  BY DEF Init, NoBatch, AnsweredInv
<1>2. EnvTypeOK /\ AnsweredInv => ReturnedBatchIsWhole
  <2> SUFFICES ASSUME EnvTypeOK, AnsweredInv, call.phase = "returned"
               PROVE  /\ Len(call.dones) = Len(call.rows)
                      /\ call.rows # <<>> => call.dones[Len(call.dones)] = core.over
                      /\ FlagsAreSteps(call.dones, call.moved)
    BY DEF ReturnedBatchIsWhole, FlagsAreSteps
  <2>1. call.rows # <<>> => Len(call.rows) > 0
    BY DEF EnvTypeOK
  <2> QED
    BY <2>1 DEF AnsweredInv
<1> QED
  BY <1>1, <1>2, TypeInit, TypeStep, AnsweredKept, PTL DEF Spec
-----------------------------------------------------------------------------
(***************************************************************************)
(* The trace.  SinkHasEveryBatchedStep is inductive: nothing opens the     *)
(* sink again, and while it is open a row enters it for every step that a  *)
(* batch takes, in the same step.                                          *)
(***************************************************************************)

\* Of the first n + 1 indices, one more is in a set than of the first n, or none.
LEMMA OneMore ==
  ASSUME NEW A, NEW n \in Nat
  PROVE  /\ Cardinality(A \cap (1 .. n)) \in Nat
         /\ Cardinality(A \cap (1 .. n + 1))
              = Cardinality(A \cap (1 .. n)) + (IF n + 1 \in A THEN 1 ELSE 0)
<1> DEFINE B == A \cap (1 .. n)
<1>1. IsFiniteSet(B) /\ Cardinality(B) \in Nat
  <2>1. IsFiniteSet(1 .. n)
    BY FS_Interval
  <2>2. IsFiniteSet(B)
    BY <2>1, FS_Subset
  <2> QED BY <2>2, FS_CardinalityType
<1>2. CASE n + 1 \in A
  <2>1. A \cap (1 .. n + 1) = B \cup {n + 1} /\ n + 1 \notin B
    BY <1>2
  <2>2. Cardinality(B \cup {n + 1}) = Cardinality(B) + 1
    BY <1>1, <2>1, FS_AddElement
  <2> QED BY <1>1, <1>2, <2>1, <2>2
<1>3. CASE n + 1 \notin A
  <2>1. A \cap (1 .. n + 1) = B
    BY <1>3
  <2> QED BY <1>1, <1>3, <2>1
<1> QED
  BY <1>2, <1>3, <1>1

\* ... and no fewer are in it than of the first k.
LEMMA NoFewer ==
  ASSUME NEW A, NEW n \in Nat, NEW k \in 0 .. n
  PROVE  /\ Cardinality(A \cap (1 .. k)) \in Nat
         /\ Cardinality(A \cap (1 .. k)) <= Cardinality(A \cap (1 .. n))
<1>1. IsFiniteSet(1 .. n) /\ IsFiniteSet(1 .. k)
  BY FS_Interval
<1>2. IsFiniteSet(A \cap (1 .. n)) /\ IsFiniteSet(A \cap (1 .. k))
  BY <1>1, FS_Subset
<1>3. A \cap (1 .. k) \in SUBSET (A \cap (1 .. n))
  OBVIOUS
<1> QED
  BY <1>2, <1>3, FS_Subset, FS_CardinalityType

\* The counts of a trace that one row enters, and
LEMMA RowCounted ==
  ASSUME NEW rows \in Seq(TraceRow), NEW row \in TraceRow
  PROVE  LET n   == Len(rows)
             new == Append(rows, row)
         IN  /\ \A k \in 0 .. n : /\ MovedUpTo(new, k) = MovedUpTo(rows, k)
                                  /\ MovedUpTo(rows, k) \in Nat
                                  /\ MovedUpTo(rows, k) <= MovedUpTo(rows, n)
             /\ MovedUpTo(new, n + 1) = MovedUpTo(rows, n) + (IF row.moved THEN 1 ELSE 0)
<1> DEFINE n   == Len(rows)
           new == Append(rows, row)
           A   == {i \in 1 .. n + 1 : new[i].moved}
<1>1. /\ n \in Nat /\ Len(new) = n + 1 /\ new[n + 1] = row
      /\ \A i \in 1 .. n : new[i] = rows[i]
  OBVIOUS
<1> HIDE DEF n, new
<1>2. \A k \in 0 .. n + 1 : MovedUpTo(new, k) = Cardinality(A \cap (1 .. k))
  <2> SUFFICES ASSUME NEW k \in 0 .. n + 1
               PROVE  {i \in 1 .. k : new[i].moved} = A \cap (1 .. k)
    BY DEF MovedUpTo
  <2> QED BY <1>1
<1>3. \A k \in 0 .. n : MovedUpTo(rows, k) = Cardinality(A \cap (1 .. k))
  <2> SUFFICES ASSUME NEW k \in 0 .. n
               PROVE  {i \in 1 .. k : rows[i].moved} = A \cap (1 .. k)
    BY DEF MovedUpTo
  <2> QED BY <1>1
<1>4. n + 1 \in A <=> row.moved
  BY <1>1
<1> HIDE DEF A
<1>5. \A k \in 0 .. n : /\ Cardinality(A \cap (1 .. k)) \in Nat
                        /\ Cardinality(A \cap (1 .. k)) <= Cardinality(A \cap (1 .. n))
  BY <1>1, NoFewer
<1>6. Cardinality(A \cap (1 .. n + 1))
        = Cardinality(A \cap (1 .. n)) + (IF row.moved THEN 1 ELSE 0)
  BY <1>1, <1>4, OneMore
<1>7. n \in 0 .. n /\ n + 1 \in 0 .. n + 1 /\ \A k \in 0 .. n : k \in 0 .. n + 1
  BY <1>1
<1> QED
  BY <1>2, <1>3, <1>5, <1>6, <1>7 DEF n, new

\* of a list of steps that one step enters.
LEMMA StepCounted ==
  ASSUME NEW steps \in Seq(Step), NEW new \in Seq(Step), NEW batched \in BOOLEAN,
         Len(new) = Len(steps) + 1, \A j \in 1 .. Len(steps) : new[j] = steps[j],
         new[Len(steps) + 1].batched = batched
  PROVE  LET n == Len(steps)
         IN  /\ \A k \in 0 .. n : /\ BatchedUpTo(new, k) = BatchedUpTo(steps, k)
                                  /\ BatchedUpTo(steps, k) \in Nat
                                  /\ BatchedUpTo(steps, k) <= BatchedUpTo(steps, n)
             /\ BatchedUpTo(new, n + 1) = BatchedUpTo(steps, n) + (IF batched THEN 1 ELSE 0)
<1> DEFINE n == Len(steps)
           A == {i \in 1 .. n + 1 : new[i].batched}
<1>1. n \in Nat /\ \A i \in 1 .. n : new[i] = steps[i]
  OBVIOUS
<1>a. new[n + 1].batched = batched
  OBVIOUS
<1> HIDE DEF n
<1>2. \A k \in 0 .. n + 1 : BatchedUpTo(new, k) = Cardinality(A \cap (1 .. k))
  <2> SUFFICES ASSUME NEW k \in 0 .. n + 1
               PROVE  {i \in 1 .. k : new[i].batched} = A \cap (1 .. k)
    BY DEF BatchedUpTo
  <2> QED BY <1>1
<1>3. \A k \in 0 .. n : BatchedUpTo(steps, k) = Cardinality(A \cap (1 .. k))
  <2> SUFFICES ASSUME NEW k \in 0 .. n
               PROVE  {i \in 1 .. k : steps[i].batched} = A \cap (1 .. k)
    BY DEF BatchedUpTo
  <2>1. \A i \in 1 .. k : i \in 1 .. n /\ i \in 1 .. n + 1
    BY <1>1
  <2>2. \A i \in 1 .. k : steps[i].batched <=> i \in A
    <3> SUFFICES ASSUME NEW i \in 1 .. k PROVE steps[i].batched <=> i \in A
      OBVIOUS
    <3>1. i \in 1 .. n + 1 /\ new[i] = steps[i]
      BY <1>1, <2>1
    <3> QED BY <3>1
  <2> HIDE DEF A
  <2> QED BY <2>2, Zenon
<1>4. n + 1 \in A <=> batched
  BY <1>1, <1>a
<1> HIDE DEF A
<1>5. \A k \in 0 .. n : /\ Cardinality(A \cap (1 .. k)) \in Nat
                        /\ Cardinality(A \cap (1 .. k)) <= Cardinality(A \cap (1 .. n))
  BY <1>1, NoFewer
<1>6. Cardinality(A \cap (1 .. n + 1))
        = Cardinality(A \cap (1 .. n)) + (IF batched THEN 1 ELSE 0)
  BY <1>1, <1>4, OneMore
<1>7. n \in 0 .. n /\ n + 1 \in 0 .. n + 1 /\ \A k \in 0 .. n : k \in 0 .. n + 1
  BY <1>1
<1> QED
  BY <1>2, <1>3, <1>5, <1>6, <1>7 DEF n

\* An empty trace tells an episode without steps.
LEMMA TellsAtFirst == Tells(<<>>, <<>>)
<1>1. Len(<<>>) = 0 /\ 1 .. 0 = {}
  OBVIOUS
<1>2. MovedUpTo(<<>>, 0) = Cardinality({}) /\ BatchedUpTo(<<>>, 0) = Cardinality({})
  BY DEF MovedUpTo, BatchedUpTo
<1> QED
  BY <1>1, <1>2 DEF Tells

\* A row without a step, a step outside the batches, and a row with the step it
\* was written for: the trace still tells the steps.
LEMMA RowAloneTells ==
  ASSUME NEW rows \in Seq(TraceRow), NEW row \in TraceRow, NEW steps \in Seq(Step),
         ~row.moved, Tells(rows, steps)
  PROVE  Tells(Append(rows, row), steps)
<1> DEFINE new == Append(rows, row)
           n   == Len(rows)
<1>1. /\ n \in Nat /\ Len(new) = n + 1 /\ new[n + 1] = row
      /\ \A i \in 1 .. n : new[i] = rows[i]
  OBVIOUS
<1>2. /\ \A k \in 0 .. n : MovedUpTo(new, k) = MovedUpTo(rows, k) /\ MovedUpTo(rows, k) \in Nat
      /\ MovedUpTo(new, n + 1) = MovedUpTo(rows, n)
  <2>1. n \in 0 .. n
    BY <1>1
  <2>2. /\ \A k \in 0 .. n : MovedUpTo(new, k) = MovedUpTo(rows, k) /\ MovedUpTo(rows, k) \in Nat
        /\ MovedUpTo(new, n + 1) = MovedUpTo(rows, n) + (IF row.moved THEN 1 ELSE 0)
    BY RowCounted
  <2> HIDE DEF new, n
  <2> QED BY <2>1, <2>2
<1> HIDE DEF new, n
<1>3. /\ MovedUpTo(rows, n) = BatchedUpTo(steps, Len(steps))
      /\ \A k \in 1 .. n, j \in 1 .. Len(steps) :
           rows[k].moved /\ steps[j].batched /\ MovedUpTo(rows, k) = BatchedUpTo(steps, j)
             => rows[k].t = steps[j].t
  BY DEF Tells, n
<1>4. ASSUME NEW k \in 1 .. n + 1, NEW j \in 1 .. Len(steps),
             new[k].moved, steps[j].batched, MovedUpTo(new, k) = BatchedUpTo(steps, j)
      PROVE  new[k].t = steps[j].t
  <2>1. k # n + 1
    BY <1>1, <1>4
  <2>2. k \in 1 .. n /\ k \in 0 .. n
    BY <1>1, <2>1
  <2> QED BY <1>1, <1>2, <1>3, <1>4, <2>2
<1>5. MovedUpTo(new, n + 1) = BatchedUpTo(steps, Len(steps))
  BY <1>2, <1>3
<1> QED
  BY <1>1, <1>4, <1>5 DEF Tells, new

LEMMA StepAloneTells ==
  ASSUME NEW rows \in Seq(TraceRow), NEW steps \in Seq(Step), NEW new \in Seq(Step),
         Len(new) = Len(steps) + 1, \A j \in 1 .. Len(steps) : new[j] = steps[j],
         new[Len(steps) + 1].batched = FALSE, Tells(rows, steps)
  PROVE  Tells(rows, new)
<1> DEFINE n == Len(steps)
<1>1. n \in Nat /\ n \in 0 .. n
  OBVIOUS
<1>2. /\ \A k \in 0 .. n : BatchedUpTo(new, k) = BatchedUpTo(steps, k)
      /\ BatchedUpTo(steps, n) \in Nat
      /\ BatchedUpTo(new, n + 1) = BatchedUpTo(steps, n) + (IF FALSE THEN 1 ELSE 0)
  <2>1. FALSE \in BOOLEAN
    OBVIOUS
  <2> QED BY <1>1, <2>1, StepCounted
<1>3. BatchedUpTo(new, n + 1) = BatchedUpTo(steps, n)
  BY <1>2
<1>4. /\ Len(new) = n + 1 /\ ~new[n + 1].batched
      /\ \A i \in 1 .. n : new[i] = steps[i]
  OBVIOUS
<1> HIDE DEF n
<1>5. /\ MovedUpTo(rows, Len(rows)) = BatchedUpTo(steps, n)
      /\ \A k \in 1 .. Len(rows), j \in 1 .. n :
           rows[k].moved /\ steps[j].batched /\ MovedUpTo(rows, k) = BatchedUpTo(steps, j)
             => rows[k].t = steps[j].t
  BY DEF Tells, n
<1>6. ASSUME NEW k \in 1 .. Len(rows), NEW j \in 1 .. n + 1,
             rows[k].moved, new[j].batched, MovedUpTo(rows, k) = BatchedUpTo(new, j)
      PROVE  rows[k].t = new[j].t
  <2>1. j # n + 1
    BY <1>4, <1>6
  <2>2. j \in 1 .. n /\ j \in 0 .. n
    BY <1>1, <2>1
  <2> QED BY <1>2, <1>4, <1>5, <1>6, <2>2
<1> QED
  BY <1>3, <1>4, <1>5, <1>6 DEF Tells

LEMMA RowForStepTells ==
  ASSUME NEW rows \in Seq(TraceRow), NEW row \in TraceRow,
         NEW steps \in Seq(Step), NEW new \in Seq(Step),
         Len(new) = Len(steps) + 1, \A j \in 1 .. Len(steps) : new[j] = steps[j],
         new[Len(steps) + 1].batched = TRUE, row.moved, row.t = new[Len(steps) + 1].t,
         Tells(rows, steps)
  PROVE  Tells(Append(rows, row), new)
<1> DEFINE trace == Append(rows, row)
           m     == Len(rows)
           n     == Len(steps)
<1>1. /\ m \in Nat /\ Len(trace) = m + 1 /\ trace[m + 1] = row
      /\ \A i \in 1 .. m : trace[i] = rows[i]
  OBVIOUS
<1>2. /\ n \in Nat /\ Len(new) = n + 1 /\ row.t = new[n + 1].t
      /\ \A i \in 1 .. n : new[i] = steps[i]
  OBVIOUS
<1>3. /\ \A k \in 0 .. m : /\ MovedUpTo(trace, k) = MovedUpTo(rows, k)
                            /\ MovedUpTo(rows, k) \in Nat
                            /\ MovedUpTo(rows, k) <= MovedUpTo(rows, m)
      /\ MovedUpTo(trace, m + 1) = MovedUpTo(rows, m) + 1
  BY RowCounted
<1>4. /\ \A k \in 0 .. n : /\ BatchedUpTo(new, k) = BatchedUpTo(steps, k)
                            /\ BatchedUpTo(steps, k) \in Nat
                            /\ BatchedUpTo(steps, k) <= BatchedUpTo(steps, n)
      /\ BatchedUpTo(new, n + 1) = BatchedUpTo(steps, n) + (IF TRUE THEN 1 ELSE 0)
  <2>1. TRUE \in BOOLEAN
    OBVIOUS
  <2> QED BY <2>1, StepCounted
<1>5. BatchedUpTo(new, n + 1) = BatchedUpTo(steps, n) + 1
  BY <1>4
<1>6. /\ MovedUpTo(rows, m) = BatchedUpTo(steps, n)
      /\ \A k \in 1 .. m, j \in 1 .. n :
           rows[k].moved /\ steps[j].batched /\ MovedUpTo(rows, k) = BatchedUpTo(steps, j)
             => rows[k].t = steps[j].t
  BY DEF Tells
<1> HIDE DEF trace, m, n
<1>7. m \in 0 .. m /\ n \in 0 .. n
  BY <1>1, <1>2
<1>8. ASSUME NEW k \in 1 .. m + 1, NEW j \in 1 .. n + 1,
             trace[k].moved, new[j].batched, MovedUpTo(trace, k) = BatchedUpTo(new, j)
      PROVE  trace[k].t = new[j].t
  <2>1. CASE k = m + 1 /\ j = n + 1
    BY <1>1, <1>2, <2>1
  <2>2. CASE k = m + 1 /\ j \in 1 .. n
    <3>1. j \in 0 .. n
      BY <2>2
    <3>2. MovedUpTo(trace, k) > BatchedUpTo(new, j)
      BY <1>3, <1>4, <1>6, <1>7, <2>2, <3>1
    <3> QED BY <1>3, <1>4, <1>7, <1>8, <2>2, <3>1, <3>2
  <2>3. CASE k \in 1 .. m /\ j = n + 1
    <3>1. k \in 0 .. m
      BY <2>3
    <3>2. BatchedUpTo(new, j) > MovedUpTo(trace, k)
      BY <1>3, <1>5, <1>6, <1>7, <2>3, <3>1
    <3> QED BY <1>3, <1>5, <1>6, <1>7, <1>8, <2>3, <3>1, <3>2
  <2>4. CASE k \in 1 .. m /\ j \in 1 .. n
    <3>1. k \in 0 .. m /\ j \in 0 .. n
      BY <2>4
    <3> QED BY <1>1, <1>2, <1>3, <1>4, <1>6, <1>8, <2>4, <3>1
  <2> QED BY <1>1, <1>2, <2>1, <2>2, <2>3, <2>4
<1>9. MovedUpTo(trace, m + 1) = BatchedUpTo(new, n + 1)
  BY <1>3, <1>5, <1>6
<1> QED
  BY <1>1, <1>2, <1>8, <1>9 DEF Tells, trace, n

\* Every step keeps an open sink telling.
LEMMA SinkKept == EnvTypeOK /\ SinkHasEveryBatchedStep /\ [Next]_vars => SinkHasEveryBatchedStep'
<1> SUFFICES ASSUME EnvTypeOK, SinkHasEveryBatchedStep, [Next]_vars, sink'.open
             PROVE  Tells(sink'.rows, core'.applied)
  BY DEF SinkHasEveryBatchedStep
<1>0. /\ core \in Core /\ core' \in Core
      /\ sink \in [open : BOOLEAN, rows : Seq(TraceRow)]
      /\ core.applied \in Seq(Step) /\ core'.applied \in Seq(Step)
      /\ sink.rows \in Seq(TraceRow)
  BY TypeStep DEF EnvTypeOK
<1>1. ASSUME sink.open PROVE Tells(sink.rows, core.applied)
  BY <1>1 DEF SinkHasEveryBatchedStep
<1> HIDE DEF Step, TraceRow
<1>2. ASSUME NEW seed \in Seeds, NEW start \in Bars, Reset(seed, start)
      PROVE  Tells(sink'.rows, core'.applied)
  <2>1. sink'.rows = <<>> /\ core'.applied = <<>>
    BY <1>0, <1>2 DEF Reset, NewCore, NoSteps
  <2> QED
    BY <2>1, TellsAtFirst
<1>3. ASSUME NEW row \in Rows, StepAccepted(row)
      PROVE  Tells(sink'.rows, core'.applied)
  <2>1. sink' = sink /\ Advance(row, rng.pos, FALSE) /\ rng.pos \in Nat /\ FALSE \in BOOLEAN
    BY <1>3 DEF StepAccepted, EnvTypeOK
  <2>2. /\ Len(core'.applied) = Len(core.applied) + 1
        /\ \A j \in 1 .. Len(core.applied) : core'.applied[j] = core.applied[j]
        /\ core'.applied[Len(core.applied) + 1].batched = FALSE
    BY <2>1, AdvanceAppends
  <2> QED
    BY <1>0, <1>1, <2>1, <2>2, StepAloneTells
<1>4. CASE RowAfterEnd
  <2>1. sink.open /\ sink'.rows = Append(sink.rows, TraceOf(FALSE)) /\ core' = core
    BY <1>0, <1>4 DEF RowAfterEnd, Write
  <2>2. TraceOf(FALSE) \in TraceRow /\ ~TraceOf(FALSE).moved
    BY <1>0 DEF TraceOf, TraceRow
  <2> QED
    BY <1>0, <1>1, <2>1, <2>2, RowAloneTells
<1>5. CASE RowAccepted
  <2>1. /\ sink.open /\ sink'.rows = Append(sink.rows, TraceOf(TRUE))
        /\ MoreRows /\ Advance(Row, DrawOfRow, TRUE) /\ TRUE \in BOOLEAN
    BY <1>0, <1>5 DEF RowAccepted, Write
  <2>2. /\ Len(core'.applied) = Len(core.applied) + 1
        /\ \A j \in 1 .. Len(core.applied) : core'.applied[j] = core.applied[j]
        /\ core'.applied[Len(core.applied) + 1].batched = TRUE
        /\ core'.applied[Len(core.applied) + 1].t = core'.t
    BY <2>1, RowTypes, AdvanceAppends
  <2>3. TraceOf(TRUE) \in TraceRow /\ TraceOf(TRUE).moved /\ TraceOf(TRUE).t = core'.t
    BY <1>0 DEF TraceOf, TraceRow
  <2> QED
    BY <1>0, <1>1, <2>1, <2>2, <2>3, RowForStepTells
<1>6. ASSUME UNCHANGED core, sink'.rows = sink.rows, sink.open
      PROVE  Tells(sink'.rows, core'.applied)
  BY <1>1, <1>6
<1>7. CASE \/ \E row \in Rows : StepRefused(row)
           \/ StepAfterEnd \/ RowRefused \/ Return \/ Close \/ UNCHANGED vars
           \/ \E rows \in Batches : StepMany(rows)
  <2>1. UNCHANGED core /\ (sink' = sink \/ ~sink'.open)
    BY <1>0, <1>7 DEF StepRefused, StepAfterEnd, RowRefused, Return, Close, vars, StepMany
  <2> QED
    BY <1>6, <2>1
<1>8. CASE RowUntraced
  BY <1>8 DEF RowUntraced
<1> QED
  BY <1>2, <1>3, <1>4, <1>5, <1>7, <1>8 DEF Next, ProcessRow

\* SinkHasEveryBatchedStep: as long as the sink is open, whatever mix of single
\* steps and batches ran, it has the steps of the batches, one row each, in order.
THEOREM SinkHasEveryBatchedStepHolds == Spec => []SinkHasEveryBatchedStep
<1>1. Init => SinkHasEveryBatchedStep
  <2> SUFFICES ASSUME Init PROVE Tells(sink.rows, core.applied)
    BY DEF SinkHasEveryBatchedStep
  <2>1. sink.rows = <<>> /\ core.applied = <<>>
    BY DEF Init, NewCore, NoSteps
  <2> QED
    BY <2>1, TellsAtFirst
<1> QED
  BY <1>1, TypeInit, TypeStep, SinkKept, PTL DEF Spec

-----------------------------------------------------------------------------
(***************************************************************************)
(* The refinement.  The core is stepped at the horizon, and every draw     *)
(* used lies below it; everything else leaves what the caller of a seeded  *)
(* episode sees alone, or begins anew.                                     *)
(***************************************************************************)
\* What has been used lies below the horizon.
LEMMA UsedIsBelow == DrawsInv => Used \in Nat /\ Used <= Horizon
<1> SUFFICES ASSUME DrawsInv PROVE Used \in Nat /\ Used <= Horizon
  OBVIOUS
<1>1. /\ Horizon \in Nat /\ core.applied \in Seq(Step) /\ Len(core.applied) \in Nat
      /\ \A j \in 1 .. Len(core.applied) : core.applied[j] \in Step
  <2>1. core.applied \in Seq(Step)
    BY DEF DrawsInv, EnvTypeOK
  <2>2. Len(core.applied) \in Nat
        /\ \A j \in 1 .. Len(core.applied) : core.applied[j] \in Step
    <3> HIDE DEF Step
    <3> QED BY <2>1
  <2> QED BY <2>1, <2>2, HorizonReached DEF DrawsInv
<1>2. core.applied # NoSteps => Len(core.applied) \in 1 .. Len(core.applied)
  <2> HIDE DEF Step
  <2> QED BY <1>1 DEF NoSteps
<1>3. \A j \in 1 .. Len(core.applied) : core.applied[j].draw \in Nat /\ core.applied[j].draw < Horizon
  BY <1>1 DEF DrawsInv, FreshDraws
<1> QED
  BY <1>1, <1>2, <1>3 DEF Used

\* A step of the core at the horizon is a step of the episode.
LEMMA AdvanceIsStep ==
  ASSUME DrawsInv, NEW row \in Rows, NEW batched \in BOOLEAN, ~core.over,
         Advance(row, Horizon, batched), rng'.seed = rng.seed
  PROVE  AsSeededEpisode!Next
<1>1. Used \in Nat /\ Used <= Horizon /\ Horizon \in Nat /\ EnvTypeOK
  BY UsedIsBelow, HorizonReached DEF DrawsInv
<1>2. /\ core' \in Core /\ Len(core'.applied) = Len(core.applied) + 1
      /\ core'.applied[Len(core.applied) + 1].draw = Horizon
  BY <1>1, AdvanceAppends
<1>3. core'.applied # NoSteps /\ core'.applied[Len(core'.applied)].draw = Horizon
  <2>1. Len(core.applied) \in Nat
    BY <1>1 DEF EnvTypeOK
  <2>2. Len(NoSteps) = 0
    BY DEF NoSteps
  <2> QED BY <1>2, <2>1, <2>2
<1>4. Used' = Horizon + 1
  BY <1>3 DEF Used
<1>5. PICK over \in BOOLEAN :
        core'.t = NextBar(core.t) /\ core'.over = over /\ (NextBar(core.t) = N - 1 => over)
  BY DEF Advance
<1>6. core.t \in 0 .. N - 1
  BY <1>1 DEF EnvTypeOK
<1>7. NextBar(core.t) = IF core.t = N - 1 THEN core.t ELSE core.t + 1
  BY <1>6, MarketEnvAssumption DEF NextBar
<1>8. Used' \in Nat /\ Used' > Used
  BY <1>1, <1>4
<1>9. AsSeededEpisode!Step
  BY <1>5, <1>7, <1>8 DEF AsSeededEpisode!Step
<1> QED
  BY <1>9 DEF AsSeededEpisode!Next

\* An environment whose core and seed stay as they are shows the same episode.
LEMMA StandIsStutter ==
  ASSUME core' = core, rng'.seed = rng.seed
  PROVE  UNCHANGED AsSeededEpisode!vars
BY DEF AsSeededEpisode!vars, Used

\* A core that has been fed nothing, on a stream from its beginning.
LEMMA AnewIsRestart ==
  ASSUME NEW seed \in Seeds, NEW start \in Bars, core' = NewCore(start), rng'.seed = seed
  PROVE  AsSeededEpisode!Next
<1>1. core'.t = start /\ core'.over = FALSE /\ core'.applied = NoSteps
  BY DEF NewCore
<1>2. AsSeededEpisode!Restart(start)
  BY <1>1 DEF AsSeededEpisode!Restart, Used
<1> QED
  BY <1>2 DEF AsSeededEpisode!Next, AsSeededEpisode!Bars

\* A row that reaches the core of a running batch steps it at the horizon.
LEMMA RowIsStep ==
  ASSUME DrawsInv, MoreRows, ~core.over, Advance(Row, DrawOfRow, TRUE), rng'.seed = rng.seed
  PROVE  AsSeededEpisode!Next
<1>1. EnvTypeOK /\ Horizon = DrawOfRow
  BY DEF DrawsInv, MoreRows, Horizon
<1>2. Row \in Rows
  BY <1>1, RowTypes
<1> QED
  BY <1>1, <1>2, AdvanceIsStep

\* Every call and every row maps to a step of the episode, a restart or a stutter.
LEMMA SeededStep == DrawsInv /\ [Next]_vars => [AsSeededEpisode!Next]_(AsSeededEpisode!vars)
<1> SUFFICES ASSUME DrawsInv, [Next]_vars
             PROVE  AsSeededEpisode!Next \/ UNCHANGED AsSeededEpisode!vars
  OBVIOUS
<1>0. EnvTypeOK /\ rng \in [seed : Seeds, pos : Nat]
  BY DEF DrawsInv, EnvTypeOK
<1>1. ASSUME NEW seed \in Seeds, NEW start \in Bars, Reset(seed, start)
      PROVE  AsSeededEpisode!Next
  BY <1>1, AnewIsRestart DEF Reset
<1>2. ASSUME NEW row \in Rows, StepAccepted(row) PROVE AsSeededEpisode!Next
  <2>1. Horizon = rng.pos /\ rng'.seed = rng.seed
    BY <1>0, <1>2 DEF StepAccepted, Take, Horizon
  <2> QED
    BY <1>2, <2>1, AdvanceIsStep DEF StepAccepted
<1>3. CASE (\E row \in Rows : StepRefused(row)) \/ (\E rows \in Batches : StepMany(rows))
  <2>1. core' = core /\ rng'.seed = rng.seed
    BY <1>0, <1>3 DEF StepRefused, StepMany, Take
  <2> QED
    BY <2>1, StandIsStutter
<1>4. CASE StepAfterEnd \/ RowAfterEnd \/ RowRefused \/ Return \/ Close \/ UNCHANGED vars
  <2>1. core' = core /\ rng' = rng
    BY <1>4 DEF StepAfterEnd, RowAfterEnd, RowRefused, Return, Close, vars
  <2> QED
    BY <2>1, StandIsStutter
<1>5. CASE RowAccepted
  BY <1>5, RowIsStep DEF RowAccepted
<1>6. CASE RowUntraced
  <2>1. CASE core' = core
    BY <1>6, <2>1, StandIsStutter DEF RowUntraced
  <2>2. CASE core' # core
    BY <1>6, <2>2, RowIsStep DEF RowUntraced
  <2> QED BY <2>1, <2>2
<1> QED
  BY <1>1, <1>2, <1>3, <1>4, <1>5, <1>6 DEF Next, ProcessRow

\* ImplementsSeededEpisode: through every call, batch, refusal and failure, the
\* core is stepped bar by bar up to its end and not beyond, on draws that only
\* ever go forward in the stream of the last reset.
THEOREM EnvImplementsSeededEpisode == Spec => ImplementsSeededEpisode
<1>1. Init => AsSeededEpisode!Init
  BY MarketEnvAssumption DEF Init, NewCore, AsSeededEpisode!Init, Used
<1> QED
  BY <1>1, DrawsInit, DrawsStep, SeededStep, PTL
     DEF Spec, ImplementsSeededEpisode, AsSeededEpisode!Spec
=============================================================================
