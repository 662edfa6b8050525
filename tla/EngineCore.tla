----------------------------- MODULE EngineCore -----------------------------
(***************************************************************************)
(* The step of the simulator (core.py: step_core) and the reset that puts  *)
(* a new episode in its place (env.py: MarketEnv.reset).                   *)
(*                                                                         *)
(* step_core copies the published state, lets the copy take the action,    *)
(* visits the order slots one by one in index order, settles the margin    *)
(* twice and publishes the result; an action the core refuses raises       *)
(* before anything is published.  Here `state' is what is published,       *)
(* `work' is the copy, and `cursor' is where the step stands: Idle, at a   *)
(* slot of the match loop, or past the last slot.                          *)
(*                                                                         *)
(* Bars count from 0 as in the code, slots count from 1.                   *)
(***************************************************************************)
EXTENDS Margin

CONSTANTS N,                 \* number of bars (MarketArrays.n)
          Markets,           \* the bar series an environment may be given
          MaxOrders,         \* config.max_open_orders
          InitialCash,       \* config.initial_cash, in money
          MarketLatencyBars, \* config.market_latency_bars
          LimitTtlBars,      \* config.limit_ttl_bars
          Actions,           \* actions a caller may submit
          Draws              \* fill fractions: quantity filled per unit ordered

Bars  == 0 .. N - 1
Slots == 1 .. MaxOrders
Bar   == [open : Nat, high : Nat, low : Nat, close : Nat]

Buy  == 1
Sell == -1
Hold == 0
Kinds == {"market", "limit"}

\* What Action.__post_init__ lets through, except that it also lets a limit
\* price ride along on a market order, which nothing reads.
Action == [side : {Buy, Sell, Hold}, units : Nat, kind : Kinds, limit : Nat]

ASSUME CoreAssumption ==
  /\ N \in Nat \ {0}
  /\ Markets \subseteq [Bars -> Bar]
  /\ MaxOrders \in Nat
  /\ InitialCash \in Nat \ {0}
  /\ MarketLatencyBars \in Nat
  /\ LimitTtlBars \in Int
  /\ Actions \subseteq Action
  /\ Draws \subseteq Nat

VARIABLES market,  \* the bar series, fixed when the environment is built
          state,   \* MarketEnv._core_state
          work,    \* the copy the step works on, and the fills it counted
          cursor,  \* where the step stands
          out,     \* what the last call returned: CoreStepOutput, or a raise
          earned   \* history: the sum of the rewards since the last reset

vars == <<market, state, work, cursor, out, earned>>
-----------------------------------------------------------------------------
\* Order slots.  The fields of a free slot are never read, so one record
\* stands for all of them.
Order == [active : BOOLEAN, side : {Buy, Sell, Hold}, kind : Kinds,
          units : Nat, limit : Nat, eligible : Nat, ttl : Int]

NoOrder == [active |-> FALSE, side |-> Hold, kind |-> "market",
            units |-> 0, limit |-> 0, eligible |-> 0, ttl |-> 0]

NewOrder(action, t) ==
  [active |-> TRUE, side |-> action.side, kind |-> action.kind,
   units |-> action.units, limit |-> action.limit,
   eligible |-> t + MarketLatencyBars, ttl |-> LimitTtlBars]

OwnSlots(orders, side) ==
  {i \in Slots : orders[i].active /\ orders[i].side = side}
FreeSlots(orders) == {i \in Slots : ~orders[i].active}

\* (The names with a suffix, here and below, are faulty variants of the
\* definition that follows them; no specification uses them.)
SlotsFor_FreeFirst(orders, side) ==
  LET candidates == IF FreeSlots(orders) # {} THEN FreeSlots(orders)
                                              ELSE OwnSlots(orders, side)
  IN  {i \in candidates : \A j \in candidates : i <= j}

SlotsFor_AnyWhenFull(orders, side) ==
  LET candidates == IF OwnSlots(orders, side) # {} THEN OwnSlots(orders, side)
                    ELSE IF FreeSlots(orders) # {} THEN FreeSlots(orders) ELSE Slots
  IN  {i \in candidates : \A j \in candidates : i <= j}

\* The slots _find_side_slot_or_free may return: the lowest slot live on this
\* side, else the lowest free one; none when every slot is live elsewhere.
SlotsFor(orders, side) ==
  LET candidates == IF OwnSlots(orders, side) # {} THEN OwnSlots(orders, side)
                                                   ELSE FreeSlots(orders)
  IN  {i \in candidates : \A j \in candidates : i <= j}

\* Why _apply_action raises.
NoCapacity_WhenFull(orders, action) == action.side # Hold /\ FreeSlots(orders) = {}
NoCapacity(orders, action) == action.side # Hold /\ SlotsFor(orders, action.side) = {}
Refused(orders, action) ==
  \/ action.side # Hold /\ action.units = 0
  \/ NoCapacity(orders, action)

\* A limit order triggers when the bar reaches its price, and fills at it.
Triggers(order, bar) ==
  \/ order.kind = "market"
  \/ order.side = Buy  /\ bar.low  <= order.limit
  \/ order.side = Sell /\ bar.high >= order.limit
FillPrice(order, bar) == IF order.kind = "market" THEN bar.open ELSE order.limit

Aged_Forever(order) == order

\* What a bar that does not fill an eligible order leaves of it.
Aged(order) ==
  IF order.ttl - 1 <= 0 THEN NoOrder ELSE [order EXCEPT !.ttl = order.ttl - 1]
-----------------------------------------------------------------------------
Idle == 0
Past == MaxOrders + 1

BookOf(s) == [cash |-> s.cash, units |-> s.units]

InitialState(start) ==
  [t |-> start, done |-> FALSE, cash |-> InitialCash, units |-> 0,
   orders |-> [i \in Slots |-> NoOrder]]

WorkOn(s) == [cash |-> s.cash, units |-> s.units, orders |-> s.orders, fills |-> 0]

Ready_EvenWhenDone == cursor = Idle
\* A call may start a step: none is running and the episode is not over.
Ready == cursor = Idle /\ ~state.done

\* What a call returns when it changes nothing, and when it raises.
Nothing == [raised |-> FALSE, fills |-> 0, delta |-> 0]
Raised  == [raised |-> TRUE,  fills |-> 0, delta |-> 0]

Init ==
  /\ market \in Markets
  /\ state = InitialState(0)
  /\ work = WorkOn(state)
  /\ cursor = Idle
  /\ out = Nothing
  /\ earned = 0

\* MarketEnv.reset with a start bar inside the series.
Reset(start) ==
  /\ cursor = Idle
  /\ state' = InitialState(start)
  /\ work' = WorkOn(state')
  /\ out' = Nothing
  /\ earned' = 0
  /\ UNCHANGED <<market, cursor>>

\* step_core on a finished episode: the same state, no reward.
StepWhenDone ==
  /\ cursor = Idle
  /\ state.done
  /\ out' = Nothing
  /\ UNCHANGED <<market, state, work, cursor, earned>>

\* _apply_action raises: nothing is published.
StepRefused(action) ==
  /\ Ready
  /\ Refused(state.orders, action)
  /\ out' = Raised
  /\ UNCHANGED <<market, state, work, cursor, earned>>

\* step_core up to the match loop, for an action that holds.
StepHold(action) ==
  /\ Ready
  /\ action.side = Hold
  /\ work' = WorkOn(state)
  /\ cursor' = cursor + 1
  /\ UNCHANGED <<market, state, out, earned>>

\* step_core up to the match loop, for an action that places an order.
StepPlace(action) ==
  /\ Ready
  /\ action.side # Hold
  /\ ~Refused(state.orders, action)
  /\ \E i \in SlotsFor(state.orders, action.side) :
       work' = [WorkOn(state) EXCEPT !.orders[i] = NewOrder(action, state.t)]
  /\ cursor' = cursor + 1
  /\ UNCHANGED <<market, state, out, earned>>

\* The match loop at one slot: a free slot, or an order not yet eligible.
AtSlot == cursor \in Slots
Waiting_OneBarMore(order) == ~order.active \/ state.t <= order.eligible
Waiting(order) == ~order.active \/ state.t < order.eligible

VisitWaiting ==
  /\ AtSlot
  /\ Waiting(work.orders[cursor])
  /\ cursor' = cursor + 1
  /\ UNCHANGED <<market, state, work, out, earned>>

\* ... an eligible order that the bar fills, by the draw of its slot.
VisitFill(draw) ==
  LET order     == work.orders[cursor]
      bar       == market[state.t]
      requested == order.side * order.units * draw
      x         == ExecutionPrice(FillPrice(order, bar), requested)
      signed    == ClipUnits(BookOf(work), requested, x)
      book      == ExecuteTrade(BookOf(work), signed, x)
  IN  /\ AtSlot
      /\ ~Waiting(order)
      /\ Triggers(order, bar)
      /\ work' = [cash |-> book.cash, units |-> book.units,
                  orders |-> [work.orders EXCEPT ![cursor] = NoOrder],
                  fills |-> work.fills + 1]
      /\ cursor' = cursor + 1
      /\ UNCHANGED <<market, state, out, earned>>

\* ... an eligible order that the bar does not fill: it ages, and may expire.
VisitMiss ==
  LET order == work.orders[cursor]
  IN  /\ AtSlot
      /\ ~Waiting(order)
      /\ ~Triggers(order, market[state.t])
      /\ work' = [work EXCEPT !.orders[cursor] = Aged(order)]
      /\ cursor' = cursor + 1
      /\ UNCHANGED <<market, state, out, earned>>

\* The bar after t, or the last bar again.
NextBar(t) == IF t + 1 >= N THEN N - 1 ELSE t + 1

AtLastBar(t) == t >= N - 1

EquityBefore_OfCopy == Equity(BookOf(work), market[state.t].close)
\* The published book at this bar's close: what the reward is counted from.
EquityBefore == Equity(BookOf(state), market[state.t].close)

\* After the loop: settle on this bar's close, advance, settle on the next
\* close, publish, and report the change of equity as the reward.
StepFinish ==
  LET fillPrice == market[state.t].close
      filled    == Settle(BookOf(work), fillPrice)
      nextT     == NextBar(state.t)
      markPrice == market[nextT].close
      marked    == Settle(filled, markPrice)
      done      == \/ AtLastBar(nextT)
                   \/ ForcesClose(BookOf(work), fillPrice)
                   \/ ForcesClose(filled, markPrice)
      delta     == Equity(marked, markPrice) - EquityBefore
  IN  /\ cursor = Past
      /\ state' = [t |-> nextT, done |-> done,
                   cash |-> marked.cash, units |-> marked.units,
                   orders |-> work.orders]
      /\ work' = WorkOn(state')
      /\ cursor' = Idle
      /\ out' = [raised |-> FALSE, fills |-> work.fills, delta |-> delta]
      /\ earned' = earned + delta
      /\ UNCHANGED market

Visit == VisitWaiting \/ (\E draw \in Draws : VisitFill(draw)) \/ VisitMiss
Place(action) == StepHold(action) \/ StepPlace(action)

Next ==
  \/ \E start \in Bars : Reset(start)
  \/ StepWhenDone
  \/ \E action \in Actions : StepRefused(action)
  \/ \E action \in Actions : Place(action)
  \/ Visit
  \/ StepFinish

Spec == Init /\ [][Next]_vars

\* One episode driven to its end, as the loops of the examples and of a client
\* do: nobody resets, a call that was made runs to its return, and as long as
\* the episode is not over the driver gets round to submitting an order, if there
\* is one that the core accepts.  It may hold, submit refused orders and step a
\* finished episode as often as it likes, but need not.
EpisodeNext ==
  \/ StepWhenDone
  \/ \E action \in Actions : StepRefused(action) \/ Place(action)
  \/ Visit
  \/ StepFinish

EpisodeSpec ==
  /\ Init
  /\ [][EpisodeNext]_vars
  /\ WF_vars(Visit \/ StepFinish)
  /\ WF_vars(\E action \in Actions : StepPlace(action))
-----------------------------------------------------------------------------
\* The published state and the working copy have the shape of CoreState.
Orders == [Slots -> Order]
StateType == [t : Bars, done : BOOLEAN, cash : Int, units : Int, orders : Orders]
WorkType  == [cash : Int, units : Int, orders : Orders, fills : Nat]
OutType   == [raised : BOOLEAN, fills : Nat, delta : Int]

TypeOK ==
  /\ market \in Markets
  /\ state \in StateType
  /\ work \in WorkType
  /\ cursor \in Idle .. Past
  /\ out \in OutType
  /\ earned \in Int

\* At most one buy and one sell order are live at once, in what is published
\* and throughout the match loop (CoreStepOutput's claim, which the reading of
\* filled_order_slot as "the last fill" rests on).
OneLivePerSide(orders) ==
  \A i, j \in Slots :
    orders[i].active /\ orders[j].active /\ i # j => orders[i].side # orders[j].side
OneLiveOrderPerSide == OneLivePerSide(state.orders) /\ OneLivePerSide(work.orders)

\* With two slots or more, no sequence of orders ever fills the book up so
\* that an action is refused for capacity.
CapacityNeverRefuses ==
  MaxOrders >= 2 => \A action \in Actions : ~NoCapacity(state.orders, action)

\* Whatever is published, the book meets its maintenance margin at the close
\* of the bar it is published for; if it is insolvent there it is flat and
\* the episode is over.
PublishedBookIsMargined ==
  LET price == market[state.t].close
  IN  /\ ~BelowMaintenance(BookOf(state), price)
      /\ Insolvent(BookOf(state), price) => state.done /\ state.units = 0

\* An episode that is over before the last bar was closed out: no position is
\* left to drift while the caller holds on to the final state.
EarlyEndIsFlat == state.done /\ state.t < N - 1 => state.units = 0

\* An order stays live no longer than it may: before its first eligible bar
\* its time to live is untouched, from then on it loses one per bar, and only
\* a limit order that still has some left outlives an eligible bar.
LivesAt(order, t) ==
  /\ order.eligible <= t + MarketLatencyBars
  /\ \/ t <= order.eligible /\ order.ttl = LimitTtlBars
     \/ /\ t > order.eligible
        /\ order.kind = "limit"
        /\ order.ttl = LimitTtlBars - (t - order.eligible)
        /\ order.ttl > 0

OrderLifetime ==
  ~state.done =>
    \A i \in Slots : state.orders[i].active => LivesAt(state.orders[i], state.t)

\* The rewards of an episode add up to the change of its equity: no liquidation,
\* fill or repeated call on a finished episode is counted twice or left out.
RewardsAddUp ==
  earned = Equity(BookOf(state), market[state.t].close) - InitialCash

\* The price at which the order in the visited slot trades.
VisitedOrder == work.orders[cursor]
VisitedFillPrice == FillPrice(VisitedOrder, market[state.t])
VisitedPrice == ExecutionPrice(VisitedFillPrice, VisitedOrder.side)

\* A fill that makes the position larger leaves it within the initial margin,
\* marked at the price of the fill, fee included.  (Where the price is zero the
\* code does not clip.)
FillKeepsInitialMargin ==
  [][AtSlot /\ VisitedPrice > 0 /\ Magnitude(work'.units) > Magnitude(work.units) =>
       Magnitude(work'.units) * VisitedPrice * Scale
         <= Cap * EquityAt(BookOf(work'), VisitedPrice)]_vars

\* A fill never makes money by itself: marked at the price the order triggered
\* at, slippage and fee only cost. It goes the order's way and stays within
\* its size.
FillOnlyCosts ==
  [][AtSlot =>
       LET size == (work'.units - work.units) * VisitedOrder.side
       IN  /\ work'.units # work.units =>
                 /\ size >= 0
                 /\ \E draw \in Draws : size <= VisitedOrder.units * draw
           /\ Equity(BookOf(work'), VisitedFillPrice)
                 <= Equity(BookOf(work), VisitedFillPrice)]_vars

\* Every driven episode reaches its end and stays there, even if the driver never
\* holds: an order that rests may fill the book up and have the other side
\* refused, but it can always be replaced, and neither liquidations nor the last
\* bar hold the clock up.
EpisodeEnds == <>[]state.done

-----------------------------------------------------------------------------
\* What the repository says of a step and the code does not do.

\* "if row.fills == 0: assert state.cash == previous_cash": a step without a
\* fill leaves the cash alone (tests/unit_tests/test_invariants.py).
NoFillKeepsCash == [][cursor = Past /\ work.fills = 0 => state'.cash = state.cash]_vars

-----------------------------------------------------------------------------
\* What the abstract specifications are about.

\* The caller's view of the published state.
AsEpisode == INSTANCE Episode WITH t <- state.t, over <- state.done,
                                   exposed <- state.units # 0
ImplementsEpisode == AsEpisode!Spec

\* The order slots read as one order per side.
Resting(orders) ==
  [side \in {Buy, Sell} |->
     IF OwnSlots(orders, side) = {} THEN NoOrder
     ELSE orders[CHOOSE i \in OwnSlots(orders, side) : TRUE]]

AsTwoSidedBook ==
  INSTANCE TwoSidedBook WITH
    Sides <- {Buy, Sell}, None <- NoOrder,
    Latency <- MarketLatencyBars, Ttl <- LimitTtlBars,
    Orders <- {NewOrder(action, t) : action \in Actions, t \in Bars},
    now <- state.t, resting <- Resting(work.orders)
ImplementsTwoSidedBook == AsTwoSidedBook!Spec
=============================================================================
