----------------------------- MODULE StepReport -----------------------------
(***************************************************************************)
(* What a step tells about itself, over the step of EngineCore: the last   *)
(* fill (core.py: filled_order_slot and exec_price), the summaries an      *)
(* observation and a trace row are made of (orders.py, portfolio.py), and  *)
(* the counters env.step feeds (telemetry.py).  Nothing here changes what  *)
(* EngineCore does; a call of it is taken together with its report.        *)
(*                                                                         *)
(* Only env.step counts; a row of step_many steps the same core and tells  *)
(* nobody, and a recorder that raises at the end of an episode keeps that  *)
(* end from being counted.  What went by uncounted is kept as history, so  *)
(* that the counters can be held against the account.                      *)
(*                                                                         *)
(* The counters of the process only grow; here they are counted from the   *)
(* last reset, which does not touch them.  The gauge keeps its value.      *)
(***************************************************************************)
EXTENDS EngineCore, FiniteSets

CONSTANTS LeverageCeiling,  \* portfolio.INSOLVENT_LEVERAGE
          MaxMetered,       \* bound: orders counted before a refused one
          MaxRows           \* bound: rows of step_many that step in an episode

ASSUME ReportAssumption ==
  /\ LeverageCeiling \in Nat
  /\ MaxMetered \in Nat
  /\ MaxRows \in Nat

VARIABLES last,   \* the match loop's filled_order_slot and last_exec_price,
                  \* which the step returns as they are
          meter,  \* what telemetry has counted since the last reset
          inRow,  \* the running step is a row of step_many
          missed  \* history: what happened since the last reset uncounted

counted    == <<meter, inRow, missed>>
reportVars == <<vars, last, counted>>
-----------------------------------------------------------------------------
\* summarize_orders: the live orders, and those of each side.
LiveSlots(orders) == {i \in Slots : orders[i].active}
Summary(orders) ==
  [open |-> Cardinality(LiveSlots(orders)),
   buys |-> Cardinality(OwnSlots(orders, Buy)),
   sells |-> Cardinality(OwnSlots(orders, Sell))]

\* leverage_ratio, as a quotient of money: a book without exposure has none,
\* exposure without equity has no bound.
NoLeverage == [exposure |-> 0, equity |-> 1]
Unbounded  == [exposure |-> 1, equity |-> 0]
Exposure(book, price) == Magnitude(book.units) * price * Scale * Scale
LeverageRatio(book, price) ==
  IF Equity(book, price) > 0
    THEN [exposure |-> Exposure(book, price), equity |-> Equity(book, price)]
  ELSE IF Exposure(book, price) > 0 THEN Unbounded ELSE NoLeverage

\* snapshot_from_state never reports more than the ceiling.
Ceiling == [exposure |-> LeverageCeiling, equity |-> 1]
Capped(ratio) ==
  IF ratio.exposure > LeverageCeiling * ratio.equity THEN Ceiling ELSE ratio
Snapshot(s) ==
  LET price == market[s.t].close
  IN  [cash |-> s.cash, units |-> s.units, equity |-> Equity(BookOf(s), price),
       leverage |-> Capped(LeverageRatio(BookOf(s), price))]
-----------------------------------------------------------------------------
\* No fill: None for the slot and for the price.
NoSlot == 0
NoFill == [slot |-> NoSlot, price |-> 0]

\* (The names with a suffix, here and below, are faulty variants of the
\* definition that follows them; no specification uses them.)
VisitedFill_TriggerPrice(order, bar, draw) ==
  [slot |-> cursor, price |-> FillPrice(order, bar) * Scale]
\* What the loop notes of a fill: its slot and the price it traded at.
VisitedFill(order, bar, draw) ==
  [slot |-> cursor,
   price |-> ExecutionPrice(FillPrice(order, bar), order.side * order.units * draw)]

\* The counters: steps, orders, fills, episodes, the change of equity, and the
\* equity gauge.
NewMeter == [steps |-> 0, orders |-> 0, fills |-> 0, episodes |-> 0, deltas |-> 0, gauge |-> 0]

CountOrder_Market(action) ==
  IF action.kind = "market" THEN [meter EXCEPT !.orders = @ + 1] ELSE meter
\* on_order, before the core may refuse the action.
CountOrder(action) ==
  IF action.side # Hold THEN [meter EXCEPT !.orders = @ + 1] ELSE meter

CountStep_GaugeFirst(fills, delta, ended) ==
  [meter EXCEPT !.steps = @ + 1, !.fills = @ + fills, !.deltas = @ + delta,
                !.episodes = IF ended THEN @ + 1 ELSE @, !.gauge = Snapshot(state).equity]
\* on_fill, on_step, and on_episode_end when the step gets there.
CountStep(fills, delta, ended) ==
  [meter EXCEPT !.steps = @ + 1, !.fills = @ + fills, !.deltas = @ + delta,
                !.episodes = IF ended THEN @ + 1 ELSE @, !.gauge = Snapshot(state').equity]

\* The history: steps, orders, fills, ends of episodes and changes of equity that
\* were not counted, and whether the gauge is behind what was published last.
NothingMissed ==
  [steps |-> 0, orders |-> 0, fills |-> 0, episodes |-> 0, deltas |-> 0, behind |-> TRUE]

MissOrder(action) ==
  IF action.side # Hold THEN [missed EXCEPT !.orders = @ + 1] ELSE missed
MissStep(fills, delta, ended) ==
  [missed EXCEPT !.steps = @ + 1, !.fills = @ + fills, !.deltas = @ + delta,
                 !.episodes = IF ended THEN @ + 1 ELSE @, !.behind = TRUE]
MissEnd(ended) ==
  [missed EXCEPT !.episodes = IF ended THEN @ + 1 ELSE @, !.behind = FALSE]
-----------------------------------------------------------------------------
ReportInit ==
  /\ Init
  /\ last = NoFill
  /\ meter = NewMeter
  /\ inRow = FALSE
  /\ missed = NothingMissed

\* Also when the recorder's start_episode raises: the core has been reset then.
ReportReset(start) ==
  /\ Reset(start)
  /\ meter' = [NewMeter EXCEPT !.gauge = meter.gauge]
  /\ missed' = NothingMissed
  /\ UNCHANGED <<last, inRow>>

\* A finished episode: neither step nor a row counts anything.
ReportWhenDone == StepWhenDone /\ UNCHANGED <<last, counted>>

\* A refused order has been counted; the call raises and reports nothing.
ReportRefused(action) ==
  /\ meter.orders < MaxMetered
  /\ StepRefused(action)
  /\ meter' = CountOrder(action)
  /\ UNCHANGED <<last, inRow, missed>>

ReportPlace(action) ==
  /\ Place(action)
  /\ meter' = CountOrder(action)
  /\ UNCHANGED <<last, inRow, missed>>

\* A row of step_many: the same core, no telemetry and no recorder.
RowRefused(action) == StepRefused(action) /\ UNCHANGED <<last, counted>>

RowPlace(action) ==
  /\ missed.steps < MaxRows
  /\ Place(action)
  /\ inRow' = TRUE
  /\ missed' = MissOrder(action)
  /\ UNCHANGED <<last, meter>>

\* The match loop is the same for both.
ReportFill ==
  /\ \E draw \in Draws :
       /\ VisitFill(draw)
       /\ last' = VisitedFill(work.orders[cursor], market[state.t], draw)
  /\ UNCHANGED counted

ReportNoFill == (VisitWaiting \/ VisitMiss) /\ UNCHANGED <<last, counted>>

\* The step publishes and returns `last'; the next one begins with none.  Then
\* it counts, and, when it was the last of the episode, has the recorder end
\* it before it counts the end.
Tell(ended) ==
  /\ ~inRow
  /\ StepFinish
  /\ last' = NoFill
  /\ meter' = CountStep(out'.fills, out'.delta, ended)
  /\ missed' = MissEnd(state'.done /\ ~ended)
  /\ UNCHANGED inRow

ReportFinish == Tell(state'.done)

\* The recorder's end_episode raises: the step is published and counted, its
\* caller gets the error, and the end of the episode goes uncounted.  (`out' is
\* what the core returned.)
ReportUnended == Tell(FALSE) /\ state'.done

\* A row is published and nothing is counted.
RowFinish ==
  /\ inRow
  /\ StepFinish
  /\ last' = NoFill
  /\ missed' = MissStep(out'.fills, out'.delta, state'.done)
  /\ inRow' = FALSE
  /\ UNCHANGED meter

ReportNext ==
  \/ \E start \in Bars : ReportReset(start)
  \/ ReportWhenDone
  \/ \E action \in Actions : ReportRefused(action) \/ ReportPlace(action)
  \/ \E action \in Actions : RowRefused(action) \/ RowPlace(action)
  \/ ReportFill \/ ReportNoFill
  \/ ReportFinish \/ ReportUnended \/ RowFinish

ReportSpec == ReportInit /\ [][ReportNext]_reportVars
-----------------------------------------------------------------------------
Fill  == [slot : Slots \cup {NoSlot}, price : Nat]
Meter == [steps : Nat, orders : Nat, fills : Nat, episodes : Nat, deltas : Int, gauge : Int]

Missed == [steps : Nat, orders : Nat, fills : Nat, episodes : Nat, deltas : Int, behind : BOOLEAN]

\* The shape of the report; no row runs between calls.
ReportTypeOK ==
  /\ last \in Fill /\ meter \in Meter /\ missed \in Missed /\ inRow \in BOOLEAN
  /\ cursor = Idle => ~inRow

\* What a caller can make of the fill a step reports.  There is one if and only
\* if something filled, its slot is free in the published state, and, when it
\* was the only one and the position is still open, its price explains the
\* change of cash, fee included, from the change of the position.
ReportAccountsForFill ==
  [][cursor = Past /\ cursor' = Idle =>
       LET moved == state'.units - state.units
       IN  /\ last.slot = NoSlot <=> out'.fills = 0
           /\ last.slot # NoSlot => ~state'.orders[last.slot].active
           /\ out'.fills = 1 /\ state'.units # 0 =>
                state.cash - state'.cash
                  = moved * last.price * Scale + Magnitude(moved) * last.price * FeeBps]_reportVars

\* No order is filled twice, nor filled and left in the book: whatever mixture of
\* steps and rows placed, replaced, refused and filled them, the fills and the
\* orders still open never exceed the orders, counted and uncounted together,
\* and every open order is on one side.  (The counters alone promise less: an
\* order that a row placed may fill in a step.)
OrdersAreConserved ==
  LET summary == Summary(state.orders)
  IN  /\ meter.fills + missed.fills + summary.open <= meter.orders + missed.orders
      /\ summary.open = summary.buys + summary.sells

\* "The engine now liquidates such a book at the step boundary" (portfolio.py):
\* an observation never reports leverage without equity to carry it, and what
\* it reports is within what the maintenance margin allows.
LeverageIsBacked ==
  LET ratio == LeverageRatio(BookOf(state), market[state.t].close)
  IN  /\ Snapshot(state).equity <= 0 => Snapshot(state).leverage = NoLeverage
      /\ ratio.exposure * MaintenanceRateBps <= Scale * (ratio.equity + MaintenanceAmount)

\* The counters follow the account up to what went by uncounted: the changes of
\* equity lead from the initial cash to what is published, the gauge shows it
\* unless rows have been stepped since, and the end of an episode has been
\* counted or missed exactly once when it is over, and not before.
MeterFollowsAccount ==
  LET equity == Snapshot(state).equity
  IN  /\ meter.deltas + missed.deltas = equity - InitialCash
      /\ ~missed.behind => meter.gauge = equity
      /\ meter.episodes + missed.episodes = IF state.done THEN 1 ELSE 0
=============================================================================
