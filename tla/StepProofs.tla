----------------------------- MODULE StepProofs -----------------------------
(***************************************************************************)
(* Theorems about the step as its callers see it, for every configuration, *)
(* bar series and sequence of calls: what it reports (StepReport), and     *)
(* that its compiled twin does the same (NumbaKernel, NumbaParity).  A     *)
(* step of the report is a step of the engine, so what EngineCoreProofs    *)
(* shows of the engine is there to use.                                    *)
(***************************************************************************)
EXTENDS NumbaParity, EngineCoreProofs, FiniteSetTheorems

\* A call with its report is that call.
LEMMA ReportStep == [ReportNext]_reportVars => [Next]_vars
BY DEF ReportNext, reportVars, vars, Next, Visit, ReportReset, ReportWhenDone,
       ReportRefused, ReportPlace, RowRefused, RowPlace, ReportFill, ReportNoFill,
       ReportFinish, ReportUnended, RowFinish, Tell, counted

\* The engine under the report is the engine: nothing in the report steers it.
THEOREM ReportKeepsTheEngine == ReportSpec => Spec
<1>1. ReportInit => Init
  BY DEF ReportInit
<1>. QED
  BY <1>1, ReportStep, PTL DEF ReportSpec, Spec

-----------------------------------------------------------------------------
\* The equity an observation shows is an integer.
LEMMA SnapshotType ==
  ASSUME TypeOK
  PROVE  /\ market[state.t].close \in Nat
         /\ BookOf(state) \in Book
         /\ Snapshot(state).equity = Equity(BookOf(state), market[state.t].close)
         /\ Snapshot(state).equity \in Int
<1>1. market[state.t].close \in Nat
  BY CloseType DEF TypeOK, StateType
<1>2. BookOf(state) \in Book
  BY BookOfType DEF TypeOK
<1>. QED
  BY <1>1, <1>2, EquityType DEF Snapshot

\* What a fill is noted as has the shape of a fill.
LEMMA VisitedFillType ==
  ASSUME TypeOK, AtSlot, NEW draw \in Draws
  PROVE  VisitedFill(work.orders[cursor], market[state.t], draw) \in Fill
<1>1. /\ VisitedFillPrice \in Nat
      /\ VisitedOrder.side * VisitedOrder.units * draw \in Int
  BY FillTypes
<1>2. ExecutionPrice(VisitedFillPrice, VisitedOrder.side * VisitedOrder.units * draw) \in Nat
  BY <1>1, ExecutionPriceType
<1>. QED
  BY <1>2 DEF VisitedFill, Fill, AtSlot, VisitedOrder, VisitedFillPrice

\* Everything that happened since the last reset, counted or not.
AllOrders   == meter.orders + missed.orders
AllFills    == meter.fills + missed.fills
AllEpisodes == meter.episodes + missed.episodes
AllDeltas   == meter.deltas + missed.deltas

\* The calls that place an order or hold, and the ends of a step, by env.step or
\* as a row of step_many.
Places(action) == ReportPlace(action) \/ RowPlace(action)
Refuses(action) == ReportRefused(action) \/ RowRefused(action)
Finishes == ReportFinish \/ ReportUnended \/ RowFinish

\* The counters and the history are made of integers.
LEMMA CountedTypes ==
  ASSUME ReportTypeOK
  PROVE  /\ meter.orders \in Nat /\ missed.orders \in Nat
         /\ meter.fills \in Nat /\ missed.fills \in Nat
         /\ meter.episodes \in Nat /\ missed.episodes \in Nat
         /\ meter.deltas \in Int /\ missed.deltas \in Int
         /\ meter.steps \in Nat /\ missed.steps \in Nat
         /\ meter.gauge \in Int /\ missed.behind \in BOOLEAN
BY DEF ReportTypeOK, Meter, Missed

\* Nothing is counted or missed in an episode that has just begun.
LEMMA ResetCounts ==
  ASSUME ReportTypeOK, NEW start \in Bars, ReportReset(start)
  PROVE  /\ meter' \in Meter /\ missed' \in Missed
         /\ meter'.orders = 0 /\ missed'.orders = 0 /\ meter'.fills = 0 /\ missed'.fills = 0
         /\ meter'.episodes = 0 /\ missed'.episodes = 0
         /\ meter'.deltas = 0 /\ missed'.deltas = 0
         /\ missed'.behind
BY CountedTypes DEF ReportReset, NewMeter, NothingMissed, Meter, Missed

\* An order adds one to the orders, counted or not, and disturbs nothing else that
\* the account is compared with.
LEMMA OrderCounts ==
  ASSUME ReportTypeOK, NEW action \in Actions, Places(action) \/ Refuses(action)
  PROVE  /\ meter' \in Meter /\ missed' \in Missed
         /\ AllFills' = AllFills /\ AllDeltas' = AllDeltas /\ AllEpisodes' = AllEpisodes
         /\ meter'.gauge = meter.gauge /\ missed'.behind = missed.behind
         /\ AllOrders' \in Nat /\ AllOrders' >= AllOrders
         /\ Places(action) =>
              AllOrders' = IF action.side # Hold THEN AllOrders + 1 ELSE AllOrders
<1>0. meter \in Meter /\ missed \in Missed
  BY DEF ReportTypeOK
<1>1. \/ meter' = CountOrder(action) /\ missed' = missed
      \/ meter' = meter /\ missed' = MissOrder(action)
      \/ meter' = meter /\ missed' = missed /\ ~Places(action)
  <2>1. CASE RowRefused(action)
    BY <2>1 DEF RowRefused, counted, StepRefused, Places, ReportPlace, RowPlace, Place,
                StepHold, StepPlace, Refused, NoCapacity
  <2>. QED
    BY <2>1 DEF Places, Refuses, ReportPlace, RowPlace, ReportRefused
<1>2. CASE meter' = CountOrder(action) /\ missed' = missed
  BY <1>0, <1>2, CountedTypes
     DEF CountOrder, Meter, AllOrders, AllFills, AllDeltas, AllEpisodes
<1>3. CASE meter' = meter /\ missed' = MissOrder(action)
  BY <1>0, <1>3, CountedTypes
     DEF MissOrder, Missed, AllOrders, AllFills, AllDeltas, AllEpisodes
<1>4. CASE meter' = meter /\ missed' = missed /\ ~Places(action)
  BY <1>0, <1>4, CountedTypes DEF AllOrders, AllFills, AllDeltas, AllEpisodes
<1>. QED
  BY <1>1, <1>2, <1>3, <1>4

\* What a step tells when it publishes.
LEMMA ToldStep ==
  ASSUME TypeOK, TypeOK', ReportTypeOK, NEW ended \in BOOLEAN, Tell(ended), ended => state'.done
  PROVE  /\ meter' \in Meter /\ missed' \in Missed
         /\ AllOrders' = AllOrders /\ AllFills' = AllFills + work.fills
         /\ AllEpisodes' = IF state'.done THEN AllEpisodes + 1 ELSE AllEpisodes
         /\ AllDeltas' = AllDeltas + (earned' - earned)
         /\ meter'.gauge = Snapshot(state').equity
<1>0. meter \in Meter /\ missed \in Missed
  BY DEF ReportTypeOK
<1>1. /\ out'.fills = work.fills /\ earned' = earned + out'.delta
      /\ meter' = CountStep(out'.fills, out'.delta, ended)
      /\ missed' = MissEnd(state'.done /\ ~ended)
  BY DEF Tell, StepFinish
<1>2. /\ out'.fills \in Nat /\ out'.delta \in Int /\ state'.done \in BOOLEAN
      /\ earned \in Int
  BY DEF TypeOK, OutType, StateType
<1>3. Snapshot(state').equity \in Int
  <2>1. market'[state'.t].close \in Nat /\ market' = market
    BY CoreAssumption DEF TypeOK, StateType, Bar, Tell, StepFinish
  <2>2. BookOf(state') \in Book
    BY BookOfType DEF TypeOK
  <2>. QED
    BY <2>1, <2>2, EquityType DEF Snapshot
<1>4. PICK gauge \in Int : gauge = Snapshot(state').equity
  BY <1>3
<1>5. meter' = [steps |-> meter.steps + 1, orders |-> meter.orders,
                fills |-> meter.fills + out'.fills,
                episodes |-> IF ended THEN meter.episodes + 1 ELSE meter.episodes,
                deltas |-> meter.deltas + out'.delta,
                gauge |-> gauge]
  BY <1>0, <1>1, <1>4, Zenon DEF CountStep, Meter
<1>6. missed' = [missed EXCEPT !.episodes = IF state'.done /\ ~ended THEN @ + 1 ELSE @,
                               !.behind = FALSE]
  BY <1>1, Zenon DEF MissEnd
<1>7. meter' \in Meter /\ missed' \in Missed
  <2>1. meter' \in Meter
    BY <1>2, <1>5, CountedTypes DEF Meter
  <2>2. missed.episodes + 1 \in Nat
    BY CountedTypes
  <2>3. missed' \in Missed
    BY <1>0, <1>6, <2>2 DEF Missed
  <2>. QED
    BY <2>1, <2>3
<1>8. /\ missed'.orders = missed.orders /\ missed'.fills = missed.fills
      /\ missed'.deltas = missed.deltas
      /\ missed'.episodes = IF state'.done /\ ~ended THEN missed.episodes + 1
                                                     ELSE missed.episodes
  BY <1>0, <1>6 DEF Missed
<1>9. AllOrders' = AllOrders /\ AllFills' = AllFills + work.fills
  BY <1>1, <1>2, <1>5, <1>8, CountedTypes DEF AllOrders, AllFills
<1>10. AllEpisodes' = IF state'.done THEN AllEpisodes + 1 ELSE AllEpisodes
  BY <1>2, <1>5, <1>8, CountedTypes DEF AllEpisodes
<1>11. AllDeltas' = AllDeltas + (earned' - earned)
  BY <1>1, <1>2, <1>5, <1>8, CountedTypes DEF AllDeltas
<1>. QED
  BY <1>4, <1>5, <1>7, <1>9, <1>10, <1>11

\* What a row leaves untold when it publishes.
LEMMA UntoldRow ==
  ASSUME TypeOK, TypeOK', ReportTypeOK, RowFinish
  PROVE  /\ meter' \in Meter /\ missed' \in Missed
         /\ AllOrders' = AllOrders /\ AllFills' = AllFills + work.fills
         /\ AllEpisodes' = IF state'.done THEN AllEpisodes + 1 ELSE AllEpisodes
         /\ AllDeltas' = AllDeltas + (earned' - earned)
         /\ missed'.behind
<1>0. meter \in Meter /\ missed \in Missed
  BY DEF ReportTypeOK
<1>1. /\ out'.fills = work.fills /\ earned' = earned + out'.delta
      /\ meter' = meter /\ missed' = MissStep(out'.fills, out'.delta, state'.done)
  BY DEF RowFinish, StepFinish
<1>2. /\ out'.fills \in Nat /\ out'.delta \in Int /\ state'.done \in BOOLEAN
      /\ earned \in Int
  BY DEF TypeOK, OutType, StateType
<1>3. missed' = [steps |-> missed.steps + 1, orders |-> missed.orders,
                 fills |-> missed.fills + out'.fills,
                 episodes |-> IF state'.done THEN missed.episodes + 1 ELSE missed.episodes,
                 deltas |-> missed.deltas + out'.delta,
                 behind |-> TRUE]
  BY <1>0, <1>1, Zenon DEF MissStep, Missed
<1>4. meter' \in Meter /\ missed' \in Missed
  BY <1>0, <1>1, <1>2, <1>3, CountedTypes DEF Missed
<1>5. AllOrders' = AllOrders /\ AllFills' = AllFills + work.fills
  BY <1>1, <1>2, <1>3, CountedTypes DEF AllOrders, AllFills
<1>6. AllEpisodes' = IF state'.done THEN AllEpisodes + 1 ELSE AllEpisodes
  BY <1>1, <1>2, <1>3, CountedTypes DEF AllEpisodes
<1>7. AllDeltas' = AllDeltas + (earned' - earned)
  BY <1>1, <1>2, <1>3, CountedTypes DEF AllDeltas
<1>. QED
  BY <1>3, <1>4, <1>5, <1>6, <1>7

\* However a step ends, told, half told or as a row.
LEMMA FinishedReport ==
  ASSUME TypeOK, TypeOK', ReportTypeOK, Finishes
  PROVE  /\ StepFinish /\ last' = NoFill
         /\ meter' \in Meter /\ missed' \in Missed /\ inRow' = FALSE
         /\ AllOrders' = AllOrders /\ AllFills' = AllFills + work.fills
         /\ AllEpisodes' = IF state'.done THEN AllEpisodes + 1 ELSE AllEpisodes
         /\ AllDeltas' = AllDeltas + (earned' - earned)
         /\ ~missed'.behind => meter'.gauge = Snapshot(state').equity
<1>1. CASE RowFinish
  BY <1>1, UntoldRow DEF RowFinish
<1>2. ASSUME NEW ended \in BOOLEAN, Tell(ended), ended => state'.done
      PROVE  /\ StepFinish /\ last' = NoFill
             /\ meter' \in Meter /\ missed' \in Missed /\ inRow' = FALSE
             /\ AllOrders' = AllOrders /\ AllFills' = AllFills + work.fills
             /\ AllEpisodes' = IF state'.done THEN AllEpisodes + 1 ELSE AllEpisodes
             /\ AllDeltas' = AllDeltas + (earned' - earned)
             /\ meter'.gauge = Snapshot(state').equity
  BY <1>2, ToldStep DEF Tell, ReportTypeOK
<1>3. CASE ReportFinish
  <2>1. state'.done \in BOOLEAN /\ Tell(state'.done)
    BY <1>3 DEF ReportFinish, TypeOK, StateType
  <2>. QED
    BY <1>2, <2>1
<1>4. CASE ReportUnended
  BY <1>2, <1>4 DEF ReportUnended
<1>. QED
  BY <1>1, <1>3, <1>4 DEF Finishes

\* Every step keeps the shape of the report.
LEMMA ReportTypeStep ==
  TypeOK /\ TypeOK' /\ ReportTypeOK /\ [ReportNext]_reportVars => ReportTypeOK'
<1>. SUFFICES ASSUME TypeOK, TypeOK', ReportTypeOK, [ReportNext]_reportVars
              PROVE  ReportTypeOK'
  OBVIOUS
<1>0. /\ last \in Fill /\ meter \in Meter /\ missed \in Missed /\ inRow \in BOOLEAN
      /\ NoFill \in Fill
      /\ cursor = Idle => ~inRow
  BY DEF ReportTypeOK, NoFill, Fill
<1>1. ASSUME NEW start \in Bars, ReportReset(start) PROVE ReportTypeOK'
  BY <1>0, <1>1, ResetCounts DEF ReportReset, Reset, ReportTypeOK
<1>2. CASE ReportWhenDone \/ ReportNoFill \/ UNCHANGED reportVars
  <2>1. UNCHANGED <<last, counted>> /\ (cursor' = Idle => cursor = Idle)
    BY <1>2, CoreAssumption DEF ReportWhenDone, StepWhenDone, ReportNoFill, VisitWaiting,
       VisitMiss, AtSlot, Slots, Idle, reportVars, vars
  <2>. QED
    BY <1>0, <2>1 DEF counted, ReportTypeOK
<1>3. ASSUME NEW action \in Actions, Places(action) \/ Refuses(action)
      PROVE  ReportTypeOK'
  <2>1. CASE Refuses(action)
    <3>1. last' = last /\ inRow' = inRow /\ cursor' = cursor
      BY <2>1 DEF Refuses, ReportRefused, RowRefused, StepRefused, counted
    <3>. QED
      BY <1>0, <1>3, <3>1, OrderCounts DEF ReportTypeOK
  <2>2. CASE Places(action)
    <3>1. cursor' = 1
      BY <2>2 DEF Places, ReportPlace, RowPlace, Place, StepHold, StepPlace, Ready, Idle
    <3>2. last' = last /\ inRow' \in BOOLEAN
      BY <1>0, <2>2 DEF Places, ReportPlace, RowPlace
    <3>. QED
      BY <1>0, <1>3, <3>1, <3>2, OrderCounts DEF ReportTypeOK, Idle
  <2>. QED
    BY <1>3, <2>1, <2>2
<1>4. CASE ReportFill
  <2>1. PICK draw \in Draws :
          /\ VisitFill(draw)
          /\ last' = VisitedFill(work.orders[cursor], market[state.t], draw)
    BY <1>4 DEF ReportFill
  <2>2. AtSlot /\ cursor' # Idle
    BY <2>1 DEF VisitFill, AtSlot, Slots, Idle
  <2>3. last' \in Fill
    BY <2>1, <2>2, VisitedFillType
  <2>. QED
    BY <1>0, <1>4, <2>2, <2>3 DEF ReportFill, ReportTypeOK, counted
<1>5. CASE Finishes
  <2>1. /\ last' = NoFill /\ inRow' = FALSE
        /\ meter' \in Meter /\ missed' \in Missed
    BY <1>5, FinishedReport
  <2>2. ~inRow' /\ inRow' \in BOOLEAN
    BY <2>1, Zenon
  <2>3. last' \in Fill
    BY <1>0, <2>1
  <2>. QED
    BY <2>1, <2>2, <2>3 DEF ReportTypeOK
<1>. QED
  BY <1>1, <1>2, <1>3, <1>4, <1>5 DEF ReportNext, Places, Refuses, Finishes

\* Type correctness of the report.
THEOREM ReportTypeCorrect == ReportSpec => []ReportTypeOK
<1>1. ReportInit => ReportTypeOK
  <2>1. NoFill \in Fill
    BY DEF NoFill, Fill
  <2>2. NewMeter \in Meter
    BY DEF NewMeter, Meter
  <2>3. NothingMissed \in Missed
    BY DEF NothingMissed, Missed
  <2>. QED
    BY <2>1, <2>2, <2>3 DEF ReportInit, ReportTypeOK
<1>2. ReportSpec => []TypeOK
  BY ReportKeepsTheEngine, TypeCorrect, PTL
<1>. QED
  BY <1>1, <1>2, ReportTypeStep, PTL DEF ReportSpec

-----------------------------------------------------------------------------
(***************************************************************************)
(* Leverage.  What is published is margined; in an insolvent book that     *)
(* leaves no exposure, and otherwise the maintenance margin is the bound.  *)
(***************************************************************************)

\* A margined book that is flat when insolvent reports bounded leverage.
LEMMA MarginedLeverage ==
  ASSUME NEW book \in Book, NEW price \in Nat,
         ~BelowMaintenance(book, price),
         Insolvent(book, price) => book.units = 0
  PROVE  /\ Equity(book, price) <= 0 => Capped(LeverageRatio(book, price)) = NoLeverage
         /\ LeverageRatio(book, price).exposure * MaintenanceRateBps
              <= Scale * (LeverageRatio(book, price).equity + MaintenanceAmount)
<1> DEFINE equity == Equity(book, price)
           exposure == Exposure(book, price)
           size == Magnitude(book.units)
<1>1. /\ equity \in Int /\ size \in Nat /\ book.units \in Int
      /\ Scale \in Nat \ {0} /\ MaintenanceRateBps \in Nat /\ MaintenanceAmount \in Nat
  BY EquityType, MagnitudeType, MarginAssumption DEF Book
<1>2. CASE equity <= 0
  <2>1. size = 0
    BY <1>2 DEF Insolvent, Magnitude
  <2>2. exposure = 0
    <3>1. \A p, s \in Nat : 0 * p * s * s = 0
      OBVIOUS
    <3>. QED
      BY <1>1, <2>1, <3>1 DEF Exposure
  <2>3. LeverageRatio(book, price) = NoLeverage
    BY <1>1, <1>2, <2>2 DEF LeverageRatio
  <2>4. Capped(NoLeverage) = NoLeverage
    BY ReportAssumption DEF Capped, NoLeverage
  <2>5. 0 * MaintenanceRateBps <= Scale * (1 + MaintenanceAmount)
    <3>1. Scale * (1 + MaintenanceAmount) \in Nat
      BY <1>1
    <3>. QED
      BY <1>1, <3>1
  <2>. QED
    BY <2>3, <2>4, <2>5 DEF NoLeverage
<1>3. CASE equity > 0
  <2>1. LeverageRatio(book, price) = [exposure |-> exposure, equity |-> equity]
    BY <1>3 DEF LeverageRatio
  <2> DEFINE notional == size * price * Scale
  <2>2. notional \in Nat
    BY <1>1
  <2>3. notional * MaintenanceRateBps <= equity + MaintenanceAmount
    <3>1. CASE book.units * price = 0
      <4>1. size * price = 0
        BY <1>1, <3>1 DEF Magnitude
      <4>2. \A s, r \in Nat : 0 * s * r = 0
        OBVIOUS
      <4>. QED
        BY <1>1, <1>3, <4>1, <4>2
    <3>2. CASE book.units * price # 0
      <4>1. ~(equity < MaintenanceMargin(book.units, price))
        BY <3>2 DEF BelowMaintenance
      <4>2. notional * MaintenanceRateBps \in Int
        BY <1>1, <2>2
      <4>. HIDE DEF equity
      <4>3. notional * MaintenanceRateBps - MaintenanceAmount
              <= MaintenanceMargin(book.units, price)
        BY <1>1, <4>2 DEF MaintenanceMargin
      <4>4. MaintenanceMargin(book.units, price) \in Int
        BY <1>1, <4>2 DEF MaintenanceMargin
      <4>. QED
        BY <1>1, <4>1, <4>2, <4>3, <4>4
    <3>. QED
      BY <3>1, <3>2
  <2>4. exposure = Scale * notional
    BY <1>1 DEF Exposure
  <2>. HIDE DEF notional, exposure, equity, size
  <2>5. exposure * MaintenanceRateBps = Scale * (notional * MaintenanceRateBps)
    BY <1>1, <2>2, <2>4
  <2>6. Scale * (notional * MaintenanceRateBps) <= Scale * (equity + MaintenanceAmount)
    <3>1. \A s \in Nat, a, b \in Int : a <= b => s * a <= s * b
      OBVIOUS
    <3>2. notional * MaintenanceRateBps \in Int /\ equity + MaintenanceAmount \in Int
      BY <1>1, <2>2
    <3>. QED
      BY <1>1, <2>3, <3>1, <3>2
  <2>. QED
    BY <1>1, <1>3, <2>1, <2>5, <2>6 DEF equity
<1>. QED
  BY <1>1, <1>2, <1>3

\* No observation shows leverage without equity to carry it, or more than the
\* maintenance margin allows: the ceiling hides nothing.
THEOREM LeverageIsBackedHolds == ReportSpec => []LeverageIsBacked
<1>1. TypeOK /\ PublishedBookIsMargined => LeverageIsBacked
  <2>. SUFFICES ASSUME TypeOK, PublishedBookIsMargined PROVE LeverageIsBacked
    OBVIOUS
  <2> DEFINE price == market[state.t].close
  <2>1. /\ price \in Nat /\ BookOf(state) \in Book
        /\ Snapshot(state).equity = Equity(BookOf(state), price)
    BY SnapshotType
  <2>2. /\ ~BelowMaintenance(BookOf(state), price)
        /\ Insolvent(BookOf(state), price) => BookOf(state).units = 0
    BY DEF PublishedBookIsMargined, BookOf
  <2>3. Snapshot(state).leverage = Capped(LeverageRatio(BookOf(state), price))
    BY DEF Snapshot
  <2>. HIDE DEF price
  <2>4. /\ Equity(BookOf(state), price) <= 0
             => Capped(LeverageRatio(BookOf(state), price)) = NoLeverage
        /\ LeverageRatio(BookOf(state), price).exposure * MaintenanceRateBps
             <= Scale * (LeverageRatio(BookOf(state), price).equity + MaintenanceAmount)
    BY <2>1, <2>2, MarginedLeverage
  <2>. QED
    BY <2>1, <2>3, <2>4 DEF LeverageIsBacked, price
<1>2. ReportSpec => [](TypeOK /\ PublishedBookIsMargined)
  BY ReportKeepsTheEngine, TypeCorrect, PublishedBookIsMarginedHolds, PTL
<1>. QED
  BY <1>1, <1>2, PTL

-----------------------------------------------------------------------------
(***************************************************************************)
(* The counters, and what went by uncounted.  The changes of equity are    *)
(* the rewards the engine adds up, and an end is counted or missed once    *)
(* because a finished episode is never stepped.                            *)
(***************************************************************************)
MeterInv ==
  /\ AllDeltas = earned
  /\ ~missed.behind => meter.gauge = Snapshot(state).equity
  /\ AllEpisodes = IF state.done THEN 1 ELSE 0

\* Every step keeps the counters and the history with the account.
LEMMA MeterInvStep ==
  /\ TypeOK /\ TypeOK' /\ ReportTypeOK /\ LifetimeInv /\ MeterInv
  /\ [ReportNext]_reportVars
  => MeterInv'
<1>. SUFFICES ASSUME TypeOK, TypeOK', ReportTypeOK, LifetimeInv, MeterInv,
                     [ReportNext]_reportVars
              PROVE  MeterInv'
  OBVIOUS
<1>1. ASSUME NEW start \in Bars, ReportReset(start) PROVE MeterInv'
  <2>1. earned' = 0 /\ ~state'.done
    BY <1>1, Zenon DEF ReportReset, Reset, InitialState
  <2>. QED
    BY <1>1, <2>1, ResetCounts DEF MeterInv, AllDeltas, AllEpisodes
<1>2. CASE ReportWhenDone \/ ReportNoFill \/ ReportFill \/ UNCHANGED reportVars
  <2>1. UNCHANGED <<market, state, earned, meter, missed>>
    BY <1>2 DEF ReportWhenDone, ReportNoFill, ReportFill, reportVars, vars, counted,
                StepWhenDone, VisitWaiting, VisitMiss, VisitFill
  <2>. QED
    BY <2>1 DEF MeterInv, AllDeltas, AllEpisodes, Snapshot
<1>3. ASSUME NEW action \in Actions, Places(action) \/ Refuses(action)
      PROVE  MeterInv'
  <2>1. UNCHANGED <<market, state, earned>>
    BY <1>3 DEF Places, Refuses, ReportRefused, ReportPlace, RowRefused, RowPlace,
                StepRefused, Place, StepHold, StepPlace
  <2>2. /\ AllDeltas' = AllDeltas /\ AllEpisodes' = AllEpisodes
        /\ meter'.gauge = meter.gauge /\ missed'.behind = missed.behind
    BY <1>3, OrderCounts
  <2>. QED
    BY <2>1, <2>2 DEF MeterInv, Snapshot
<1>4. CASE Finishes
  <2>1. /\ AllEpisodes' = IF state'.done THEN AllEpisodes + 1 ELSE AllEpisodes
        /\ AllDeltas' = AllDeltas + (earned' - earned)
        /\ ~missed'.behind => meter'.gauge = Snapshot(state').equity
        /\ StepFinish
    BY <1>4, FinishedReport
  <2>2. ~state.done
    BY <2>1, CoreAssumption DEF LifetimeInv, LoopInv, StepFinish, Past, Idle
  <2>3. earned \in Int /\ earned' \in Int
    BY DEF TypeOK
  <2>4. AllDeltas' = earned'
    BY <2>1, <2>3 DEF MeterInv
  <2>5. AllEpisodes' = IF state'.done THEN 1 ELSE 0
    BY <2>1, <2>2 DEF MeterInv
  <2>6. Snapshot(state)' = Snapshot(state')
    BY <2>1 DEF Snapshot, StepFinish
  <2>. QED
    BY <2>1, <2>4, <2>5, <2>6 DEF MeterInv
<1>. QED
  BY <1>1, <1>2, <1>3, <1>4 DEF ReportNext, Places, Refuses, Finishes

\* Whatever mixture of steps and rows an episode is made of, and whichever calls
\* raise, the counters follow the account up to what went by uncounted: no change
\* of equity and no end of an episode is counted twice or in both places, and the
\* gauge is right after every step that counts.
THEOREM MeterFollowsAccountHolds == ReportSpec => []MeterFollowsAccount
<1>1. ReportInit => MeterInv
  <2>1. \A start : ~InitialState(start).done
    BY Zenon DEF InitialState
  <2>. QED
    BY <2>1 DEF ReportInit, Init, MeterInv, AllDeltas, AllEpisodes, NewMeter, NothingMissed
<1>2. TypeOK /\ RewardsAddUp /\ MeterInv => MeterFollowsAccount
  BY SnapshotType DEF RewardsAddUp, MeterInv, AllDeltas, AllEpisodes, MeterFollowsAccount
<1>3. ReportSpec => [](TypeOK /\ RewardsAddUp /\ LifetimeInv)
  BY ReportKeepsTheEngine, TypeCorrect, RewardsAddUpHolds, LifetimeInvariant, PTL
<1>. QED
  BY <1>1, <1>2, <1>3, MeterInvStep, ReportTypeCorrect, PTL DEF ReportSpec

-----------------------------------------------------------------------------
(***************************************************************************)
(* The orders.  A fill frees the slot it counts, placing takes at most one *)
(* slot more, and nothing else makes an order live.                        *)
(***************************************************************************)
Live(orders) == Cardinality(LiveSlots(orders))

\* The live slots are few enough to count.
LEMMA LiveSlotsFinite ==
  ASSUME NEW orders
  PROVE  IsFiniteSet(LiveSlots(orders)) /\ Live(orders) \in Nat
<1>1. IsFiniteSet(Slots)
  BY FS_Interval, CoreAssumption DEF Slots
<1>2. LiveSlots(orders) \in SUBSET Slots
  BY DEF LiveSlots
<1>. QED
  BY <1>1, <1>2, FS_Subset, FS_CardinalityType DEF Live

\* Writing one slot: an order that is put there adds at most one live slot, one
\* that is not live any more takes one off.
LEMMA WritingCounts ==
  ASSUME NEW orders \in Orders, NEW i \in Slots, NEW order
  PROVE  LET written == [orders EXCEPT ![i] = order]
         IN  /\ Live(written) <= Live(orders) + 1
             /\ orders[i].active => Live(written) <= Live(orders)
             /\ orders[i].active /\ ~order.active => Live(written) = Live(orders) - 1
<1> DEFINE written == [orders EXCEPT ![i] = order]
<1>1. /\ IsFiniteSet(LiveSlots(orders)) /\ Live(orders) \in Nat
      /\ IsFiniteSet(LiveSlots(written)) /\ Live(written) \in Nat
  BY LiveSlotsFinite
<1>2. written[i] = order /\ \A j \in Slots \ {i} : written[j] = orders[j]
  BY DEF Orders
<1>. HIDE DEF written
<1>3. /\ LiveSlots(written) \subseteq LiveSlots(orders) \cup {i}
      /\ orders[i].active => i \in LiveSlots(orders)
      /\ orders[i].active => LiveSlots(written) \subseteq LiveSlots(orders)
      /\ ~order.active => LiveSlots(written) = LiveSlots(orders) \ {i}
  BY <1>2 DEF LiveSlots
<1>4. /\ IsFiniteSet(LiveSlots(orders) \cup {i})
      /\ Cardinality(LiveSlots(orders) \cup {i}) <= Live(orders) + 1
  <2>1. /\ IsFiniteSet(LiveSlots(orders) \cup {i})
        /\ Cardinality(LiveSlots(orders) \cup {i})
             = IF i \in LiveSlots(orders) THEN Cardinality(LiveSlots(orders))
                                          ELSE Cardinality(LiveSlots(orders)) + 1
    BY <1>1, FS_AddElement
  <2>. QED
    BY <1>1, <2>1 DEF Live
<1>5. Live(written) <= Live(orders) + 1
  <2>1. Cardinality(LiveSlots(written)) <= Cardinality(LiveSlots(orders) \cup {i})
    BY <1>3, <1>4, FS_Subset
  <2>2. Cardinality(LiveSlots(orders) \cup {i}) \in Nat
    BY <1>4, FS_CardinalityType
  <2>. QED
    BY <1>1, <1>4, <2>1, <2>2 DEF Live
<1>6. orders[i].active => Live(written) <= Live(orders)
  BY <1>1, <1>3, FS_Subset DEF Live
<1>7. orders[i].active /\ ~order.active => Live(written) = Live(orders) - 1
  BY <1>1, <1>3, FS_RemoveElement DEF Live
<1>. QED
  BY <1>5, <1>6, <1>7 DEF written

\* Between calls and inside the loop: filled and live orders within those placed.
ConservedInv ==
  /\ AllFills + Live(state.orders) <= AllOrders
  /\ cursor # Idle => AllFills + work.fills + Live(work.orders) <= AllOrders

\* Every step keeps the fills and the live orders within the orders.
LEMMA ConservedInvStep ==
  /\ TypeOK /\ TypeOK' /\ ReportTypeOK /\ ConservedInv /\ [ReportNext]_reportVars
  => ConservedInv'
<1>. SUFFICES ASSUME TypeOK, TypeOK', ReportTypeOK, ConservedInv, [ReportNext]_reportVars
              PROVE  ConservedInv'
  OBVIOUS
<1>0. /\ AllFills \in Nat /\ AllOrders \in Nat
      /\ state.orders \in Orders /\ work.orders \in Orders /\ work.fills \in Nat
      /\ \A orders : Live(orders) \in Nat
  <2>1. AllFills \in Nat /\ AllOrders \in Nat
    BY CountedTypes DEF AllFills, AllOrders
  <2>. QED
    BY <2>1, LiveSlotsFinite DEF TypeOK, StateType, WorkType
<1>1. ASSUME NEW start \in Bars, ReportReset(start) PROVE ConservedInv'
  <2>1. /\ state'.orders = [i \in Slots |-> NoOrder] /\ cursor' = Idle
        /\ AllFills' = 0 /\ AllOrders' = 0
    BY <1>1, ResetCounts DEF ReportReset, Reset, InitialState, AllFills, AllOrders
  <2>2. ~NoOrder.active
    BY DEF NoOrder
  <2>. HIDE DEF NoOrder
  <2>3. LiveSlots(state'.orders) = {}
    BY <2>1, <2>2 DEF LiveSlots
  <2>. QED
    BY <2>1, <2>3, FS_EmptySet DEF ConservedInv, Live
<1>2. CASE ReportWhenDone \/ UNCHANGED reportVars
  BY <1>2 DEF ReportWhenDone, StepWhenDone, reportVars, vars, counted, ConservedInv,
              AllFills, AllOrders
<1>3. ASSUME NEW action \in Actions, Refuses(action) PROVE ConservedInv'
  <2>1. /\ UNCHANGED <<state, work, cursor>>
        /\ AllFills' = AllFills /\ AllOrders' >= AllOrders /\ AllOrders' \in Nat
    BY <1>3, OrderCounts DEF Refuses, ReportRefused, RowRefused, StepRefused
  <2>. QED
    BY <1>0, <2>1 DEF ConservedInv
<1>4. ASSUME NEW action \in Actions, Places(action) PROVE ConservedInv'
  <2>1. /\ state' = state /\ AllFills' = AllFills
        /\ AllOrders' = IF action.side # Hold THEN AllOrders + 1 ELSE AllOrders
    BY <1>4, OrderCounts DEF Places, ReportPlace, RowPlace, Place, StepHold, StepPlace
  <2>2. CASE StepHold(action)
    <3>1. work'.orders = state.orders /\ work'.fills = 0 /\ action.side = Hold
      BY <2>2 DEF StepHold, WorkOn
    <3>. QED
      BY <1>0, <2>1, <3>1 DEF ConservedInv
  <2>3. CASE StepPlace(action)
    <3>1. action.side # Hold
      BY <2>3 DEF StepPlace
    <3>2. PICK i \in SlotsFor(state.orders, action.side) :
            work' = [WorkOn(state) EXCEPT !.orders[i] = NewOrder(action, state.t)]
      BY <2>3 DEF StepPlace
    <3>3. /\ work'.orders = [state.orders EXCEPT ![i] = NewOrder(action, state.t)]
          /\ work'.fills = 0
      BY <3>2 DEF WorkOn
    <3>4. i \in Slots
      BY DEF SlotsFor, OwnSlots, FreeSlots
    <3>5. Live(work'.orders) <= Live(state.orders) + 1
      BY <1>0, <3>3, <3>4, WritingCounts
    <3>. QED
      BY <1>0, <2>1, <3>1, <3>3, <3>5 DEF ConservedInv
  <2>. QED
    BY <1>4, <2>2, <2>3 DEF Places, ReportPlace, RowPlace, Place
<1>5. CASE ReportFill
  <2>1. PICK draw \in Draws : VisitFill(draw)
    BY <1>5 DEF ReportFill
  <2>2. /\ cursor \in Slots /\ work.orders[cursor].active
        /\ work'.orders = [work.orders EXCEPT ![cursor] = NoOrder]
        /\ work'.fills = work.fills + 1
        /\ state' = state
    BY <2>1 DEF VisitFill, AtSlot, Waiting
  <2>3. ~NoOrder.active
    BY DEF NoOrder
  <2>4. Live(work'.orders) = Live(work.orders) - 1
    BY <1>0, <2>2, <2>3, WritingCounts
  <2>5. cursor # Idle
    BY <2>2, CoreAssumption DEF Slots, Idle
  <2>6. AllFills' = AllFills /\ AllOrders' = AllOrders
    BY <1>5 DEF ReportFill, counted, AllFills, AllOrders
  <2>. QED
    BY <1>0, <2>2, <2>4, <2>5, <2>6 DEF ConservedInv
<1>6. CASE ReportNoFill
  <2>1. /\ state' = state /\ cursor \in Slots /\ cursor # Idle
        /\ AllFills' = AllFills /\ AllOrders' = AllOrders
    BY <1>6, CoreAssumption
       DEF ReportNoFill, VisitWaiting, VisitMiss, AtSlot, Slots, Idle, counted, AllFills, AllOrders
  <2>2. work'.fills = work.fills /\ Live(work'.orders) <= Live(work.orders)
    <3>1. CASE VisitWaiting
      BY <1>0, <3>1 DEF VisitWaiting
    <3>2. CASE VisitMiss
      <4>1. /\ work'.orders = [work.orders EXCEPT ![cursor] = Aged(work.orders[cursor])]
            /\ work'.fills = work.fills
            /\ work.orders[cursor].active
        BY <1>0, <3>2 DEF VisitMiss, Waiting, TypeOK, WorkType
      <4>. QED
        BY <1>0, <2>1, <4>1, WritingCounts
    <3>. QED
      BY <1>6, <3>1, <3>2 DEF ReportNoFill
  <2>. QED
    BY <1>0, <2>1, <2>2 DEF ConservedInv
<1>7. CASE Finishes
  <2>1. /\ state'.orders = work.orders /\ cursor' = Idle /\ cursor # Idle
        /\ AllFills' = AllFills + work.fills /\ AllOrders' = AllOrders
    <3>1. AllFills' = AllFills + work.fills /\ AllOrders' = AllOrders /\ StepFinish
      BY <1>7, FinishedReport
    <3>2. state'.orders = work.orders
      BY <3>1, FinishedStep
    <3>3. cursor' = Idle /\ cursor # Idle
      BY <3>1, CoreAssumption DEF StepFinish, Past, Idle
    <3>. QED
      BY <3>1, <3>2, <3>3
  <2>. QED
    BY <1>0, <2>1 DEF ConservedInv
<1>. QED
  BY <1>1, <1>2, <1>3, <1>4, <1>5, <1>6, <1>7 DEF ReportNext, Places, Refuses, Finishes

\* Every live order of a well-formed book is on exactly one side.
LEMMA SidesAddUp ==
  ASSUME NEW orders \in Orders, WellFormed(orders)
  PROVE  Summary(orders).open = Summary(orders).buys + Summary(orders).sells
<1>1. LiveSlots(orders) = OwnSlots(orders, Buy) \cup OwnSlots(orders, Sell)
  BY DEF WellFormed, LiveSlots, OwnSlots
<1>2. OwnSlots(orders, Buy) \cap OwnSlots(orders, Sell) = {}
  BY DEF OwnSlots, Buy, Sell
<1>3. IsFiniteSet(OwnSlots(orders, Buy)) /\ IsFiniteSet(OwnSlots(orders, Sell))
  BY <1>1, LiveSlotsFinite, FS_Subset
<1>4. /\ Cardinality(OwnSlots(orders, Buy)) \in Nat
      /\ Cardinality(OwnSlots(orders, Sell)) \in Nat
  BY <1>3, FS_CardinalityType
<1>5. Cardinality(LiveSlots(orders))
        = Cardinality(OwnSlots(orders, Buy)) + Cardinality(OwnSlots(orders, Sell))
  <2>1. Cardinality(OwnSlots(orders, Buy) \cup OwnSlots(orders, Sell))
          = Cardinality(OwnSlots(orders, Buy)) + Cardinality(OwnSlots(orders, Sell))
              - Cardinality(OwnSlots(orders, Buy) \cap OwnSlots(orders, Sell))
    BY <1>3, FS_Union
  <2>2. Cardinality(OwnSlots(orders, Buy) \cap OwnSlots(orders, Sell)) = 0
    BY <1>2, FS_EmptySet
  <2>. QED
    BY <1>1, <1>4, <2>1, <2>2
<1>. QED
  BY <1>5 DEF Summary

\* However orders are placed, replaced, filled, expired and refused, by steps and
\* by rows, no order is filled twice nor filled and left in the book: those that
\* filled and those still open are within those placed, each on one side.
THEOREM OrdersAreConservedHolds == ReportSpec => []OrdersAreConserved
<1>1. ReportInit => ConservedInv
  <2>. SUFFICES ASSUME ReportInit PROVE ConservedInv
    OBVIOUS
  <2>1. /\ state.orders = [i \in Slots |-> NoOrder] /\ cursor = Idle
        /\ AllFills = 0 /\ AllOrders = 0
    BY DEF ReportInit, Init, InitialState, NewMeter, NothingMissed, AllFills, AllOrders
  <2>2. ~NoOrder.active
    BY DEF NoOrder
  <2>. HIDE DEF NoOrder
  <2>3. LiveSlots(state.orders) = {}
    BY <2>1, <2>2 DEF LiveSlots
  <2>. QED
    BY <2>1, <2>3, FS_EmptySet DEF ConservedInv, Live
<1>2. SlotsInv /\ ConservedInv => OrdersAreConserved
  <2>. SUFFICES ASSUME SlotsInv, ConservedInv PROVE OrdersAreConserved
    OBVIOUS
  <2>1. state.orders \in Orders /\ WellFormed(state.orders)
    BY DEF SlotsInv, TypeOK, StateType
  <2>2. Summary(state.orders).open = Live(state.orders)
    BY DEF Summary, Live
  <2>. QED
    <3>1. meter.fills + missed.fills + Live(state.orders) <= meter.orders + missed.orders
      BY <2>1 DEF ConservedInv, AllFills, AllOrders
    <3>. QED
      BY <2>1, <2>2, <3>1, SidesAddUp DEF OrdersAreConserved
<1>3. ReportSpec => [](TypeOK /\ SlotsInv)
  BY ReportKeepsTheEngine, TypeCorrect, SlotsInvariant, PTL
<1>. QED
  BY <1>1, <1>2, <1>3, ConservedInvStep, ReportTypeCorrect, PTL DEF ReportSpec

-----------------------------------------------------------------------------
(***************************************************************************)
(* The last fill.  What the loop has noted so far explains what it has     *)
(* done to the book, as long as there was one fill.                        *)
(***************************************************************************)
Costs(spent, moved, price) ==
  spent = moved * price * Scale + Magnitude(moved) * price * FeeBps

\* The last fill is noted exactly when there was one, behind the loop and off the
\* book, and a lone fill accounts for all that moved.
NotedInv ==
  /\ cursor = Idle => last = NoFill
  /\ cursor # Idle =>
       /\ last.slot = NoSlot <=> work.fills = 0
       /\ last.slot # NoSlot => last.slot < cursor /\ ~work.orders[last.slot].active
       /\ work.fills = 0 => BookOf(work) = BookOf(state)
       /\ work.fills = 1 =>
            Costs(state.cash - work.cash, work.units - state.units, last.price)

\* A settlement that leaves a position open changed nothing.
LEMMA SettleOpen ==
  ASSUME NEW book, NEW price, Settle(book, price).units # 0
  PROVE  Settle(book, price) = book
BY DEF Settle, SettleMaintenance, SettleInsolvency, Liquidate

\* Every step keeps what was noted true.
LEMMA NotedInvStep ==
  /\ TypeOK /\ TypeOK' /\ ReportTypeOK /\ NotedInv /\ [ReportNext]_reportVars
  => NotedInv'
<1>. SUFFICES ASSUME TypeOK, TypeOK', ReportTypeOK, NotedInv, [ReportNext]_reportVars
              PROVE  NotedInv'
  OBVIOUS
<1>0. /\ work.orders \in Orders /\ work.fills \in Nat
      /\ last \in Fill /\ last.slot \in Slots \cup {NoSlot}
      /\ cursor \in Nat /\ Slots \subseteq Nat \ {0}
  BY CoreAssumption DEF ReportTypeOK, Fill, TypeOK, WorkType, Slots, Idle, Past
<1>1. ASSUME NEW start \in Bars, ReportReset(start) PROVE NotedInv'
  BY <1>1 DEF ReportReset, Reset, NotedInv
<1>2. CASE ReportWhenDone \/ UNCHANGED reportVars
  BY <1>2 DEF ReportWhenDone, StepWhenDone, reportVars, vars, NotedInv
<1>3. ASSUME NEW action \in Actions, Refuses(action) PROVE NotedInv'
  BY <1>3 DEF Refuses, ReportRefused, RowRefused, StepRefused, NotedInv
<1>4. ASSUME NEW action \in Actions, Places(action) PROVE NotedInv'
  <2>1. /\ cursor = Idle /\ cursor' # Idle /\ last' = last /\ state' = state
    BY <1>4 DEF Places, ReportPlace, RowPlace, Place, StepHold, StepPlace, Ready, Idle
  <2>2. work'.fills = 0 /\ work'.cash = state.cash /\ work'.units = state.units
    BY <1>4 DEF Places, ReportPlace, RowPlace, Place, StepHold, StepPlace, WorkOn
  <2>3. last.slot = NoSlot
    BY <2>1 DEF NotedInv, NoFill
  <2>. QED
    BY <2>1, <2>2, <2>3 DEF NotedInv, BookOf
<1>5. CASE ReportFill
  <2>1. PICK draw \in Draws :
          /\ VisitFill(draw)
          /\ last' = VisitedFill(work.orders[cursor], market[state.t], draw)
    BY <1>5 DEF ReportFill
  <2> DEFINE requested == VisitedOrder.side * VisitedOrder.units * draw
             x == ExecutionPrice(VisitedFillPrice, requested)
             signed == ClipUnits(BookOf(work), requested, x)
             book == ExecuteTrade(BookOf(work), signed, x)
  <2>2. /\ cursor \in Slots /\ cursor # Idle /\ cursor' = cursor + 1 /\ cursor' # Idle
    BY <1>0, <2>1 DEF VisitFill, AtSlot, Idle
  <2>3. /\ work' = [cash |-> book.cash, units |-> book.units,
                    orders |-> [work.orders EXCEPT ![cursor] = NoOrder],
                    fills |-> work.fills + 1]
        /\ state' = state
    BY <2>1 DEF VisitFill, VisitedOrder, VisitedFillPrice
  <2>4. last' = [slot |-> cursor, price |-> x]
    BY <2>1 DEF VisitedFill, VisitedOrder, VisitedFillPrice
  <2>5. /\ BookOf(work) \in Book /\ x \in Nat /\ signed \in Int
    BY <2>1, <2>2, FillTypes, ExecutionPriceType, ClipUnitsType DEF AtSlot
  <2>6. ~work'.orders[last'.slot].active
    <3>1. ~NoOrder.active
      BY DEF NoOrder
    <3>. HIDE DEF NoOrder, book
    <3>. QED
      BY <1>0, <2>2, <2>3, <2>4, <3>1 DEF Orders
  <2>7. work.fills = 0 => Costs(state'.cash - work'.cash, work'.units - state'.units, x)
    <3>. SUFFICES ASSUME work.fills = 0
                  PROVE  Costs(state'.cash - work'.cash, work'.units - state'.units, x)
      OBVIOUS
    <3>1. work.cash = state.cash /\ work.units = state.units
      BY <2>2 DEF NotedInv, BookOf
    <3>2. /\ work'.cash = work.cash - (signed * x * Scale + Magnitude(signed) * x * FeeBps)
          /\ work'.units = work.units + signed
      BY <2>3 DEF ExecuteTrade, BookOf
    <3>3. work.units \in Int /\ work.cash \in Int
      BY DEF TypeOK, WorkType
    <3>4. signed * x * Scale + Magnitude(signed) * x * FeeBps \in Int
      BY <2>5, MagnitudeType, MarginAssumption
    <3>. HIDE DEF signed, x
    <3>5. work'.units - state'.units = signed
      BY <2>3, <2>5, <3>1, <3>2, <3>3
    <3>6. state'.cash - work'.cash = signed * x * Scale + Magnitude(signed) * x * FeeBps
      BY <2>3, <3>1, <3>2, <3>3, <3>4
    <3>. QED
      BY <3>5, <3>6 DEF Costs
  <2>8. last'.slot = cursor /\ last'.price = x /\ work'.fills = work.fills + 1
    BY <2>3, <2>4
  <2>9. work'.fills = 1 => work.fills = 0
    BY <1>0, <2>8
  <2>10. /\ last'.slot # NoSlot /\ last'.slot < cursor' /\ work'.fills # 0
    BY <1>0, <2>2, <2>8 DEF NoSlot
  <2>. HIDE DEF x
  <2>. QED
    BY <2>2, <2>6, <2>7, <2>8, <2>9, <2>10 DEF NotedInv
<1>6. CASE ReportNoFill
  <2>1. /\ state' = state /\ last' = last /\ cursor \in Slots /\ cursor # Idle
        /\ cursor' = cursor + 1 /\ cursor' # Idle
    BY <1>0, <1>6 DEF ReportNoFill, VisitWaiting, VisitMiss, AtSlot, Idle
  <2>2. /\ work'.fills = work.fills /\ work'.cash = work.cash /\ work'.units = work.units
        /\ \A i \in Slots \ {cursor} : work'.orders[i] = work.orders[i]
    BY <1>0, <1>6 DEF ReportNoFill, VisitWaiting, VisitMiss, TypeOK, WorkType, Orders
  <2>3. last.slot # NoSlot => last.slot \in Slots \ {cursor}
    BY <1>0, <2>1 DEF NotedInv
  <2>4. last'.slot # NoSlot => last'.slot < cursor' /\ ~work'.orders[last'.slot].active
    <3>. SUFFICES ASSUME last.slot # NoSlot
                  PROVE  last.slot < cursor + 1 /\ ~work'.orders[last.slot].active
      BY <2>1
    <3>1. last.slot < cursor /\ ~work.orders[last.slot].active
      BY <2>1 DEF NotedInv
    <3>2. work'.orders[last.slot] = work.orders[last.slot]
      BY <2>2, <2>3
    <3>3. last.slot \in Int /\ cursor \in Int
      <4>1. last.slot \in Slots /\ cursor \in Slots
        BY <2>1, <2>3
      <4>. QED
        BY <4>1 DEF Slots
    <3>4. last.slot < cursor + 1
      BY <3>1, <3>3
    <3>. QED
      BY <3>1, <3>2, <3>4
  <2>5. /\ last'.slot = NoSlot <=> work'.fills = 0
        /\ work'.fills = 0 => BookOf(work') = BookOf(state')
        /\ work'.fills = 1 =>
             Costs(state'.cash - work'.cash, work'.units - state'.units, last'.price)
    BY <2>1, <2>2 DEF NotedInv, BookOf
  <2>. QED
    BY <2>1, <2>4, <2>5 DEF NotedInv
<1>7. CASE Finishes
  BY <1>7, FinishedReport DEF StepFinish, NotedInv
<1>. QED
  BY <1>1, <1>2, <1>3, <1>4, <1>5, <1>6, <1>7 DEF ReportNext, Places, Refuses, Finishes

\* A finished step's fill, when it was the only one and the position is still
\* open, is the whole change of the account.
LEMMA FinishAccounts ==
  ASSUME TypeOK, ReportTypeOK, NotedInv, StepFinish
  PROVE  LET moved == state'.units - state.units
         IN  /\ last.slot = NoSlot <=> out'.fills = 0
             /\ last.slot # NoSlot => ~state'.orders[last.slot].active
             /\ out'.fills = 1 /\ state'.units # 0 =>
                  state.cash - state'.cash
                    = moved * last.price * Scale + Magnitude(moved) * last.price * FeeBps
<1>1. /\ cursor # Idle /\ out'.fills = work.fills
  BY CoreAssumption DEF StepFinish, Past, Idle
<1>2. state'.orders = work.orders
  BY FinishedStep
<1>3. state'.units # 0 => state'.cash = work.cash /\ state'.units = work.units
  <2>1. PICK filled \in Book, marked \in Book :
          /\ filled = Settle(BookOf(work), market[state.t].close)
          /\ marked = Settle(filled, market[NextBar(state.t)].close)
          /\ BookOf(state') = marked
    BY FinishedStep, Zenon
  <2>2. state'.units = marked.units /\ state'.cash = marked.cash
    BY <2>1 DEF BookOf
  <2>3. marked.units # 0 => marked = filled
    BY <2>1, SettleOpen
  <2>4. filled.units # 0 => filled = BookOf(work)
    BY <2>1, SettleOpen
  <2>. QED
    BY <2>2, <2>3, <2>4 DEF BookOf
<1>. QED
  BY <1>1, <1>2, <1>3 DEF NotedInv, Costs

\* Whatever the loop did and the settlements after it, a caller can rely on the
\* fill a step reports.
THEOREM ReportAccountsForFillHolds == ReportSpec => ReportAccountsForFill
<1>1. ReportInit => NotedInv
  BY DEF ReportInit, Init, NotedInv
<1>2. TypeOK /\ ReportTypeOK /\ NotedInv /\ [ReportNext]_reportVars =>
        [cursor = Past /\ cursor' = Idle =>
           LET moved == state'.units - state.units
           IN  /\ last.slot = NoSlot <=> out'.fills = 0
               /\ last.slot # NoSlot => ~state'.orders[last.slot].active
               /\ out'.fills = 1 /\ state'.units # 0 =>
                    state.cash - state'.cash
                      = moved * last.price * Scale
                        + Magnitude(moved) * last.price * FeeBps]_reportVars
  <2>. SUFFICES ASSUME TypeOK, ReportTypeOK, NotedInv, ReportNext,
                       cursor = Past, cursor' = Idle
                PROVE  StepFinish
    BY FinishAccounts
  <2>1. cursor # Idle /\ cursor \notin Slots /\ cursor' # cursor
    BY CoreAssumption DEF Past, Idle, Slots
  <2>. QED
    BY <2>1 DEF ReportNext, ReportReset, Reset, ReportWhenDone, StepWhenDone,
       ReportRefused, StepRefused, ReportPlace, RowRefused, RowPlace, Place, StepHold,
       StepPlace, Ready, ReportFill, VisitFill, ReportNoFill, VisitWaiting, VisitMiss,
       AtSlot, ReportFinish, ReportUnended, RowFinish, Tell
<1>3. ReportSpec => []TypeOK
  BY ReportKeepsTheEngine, TypeCorrect, PTL
<1>. QED
  BY <1>1, <1>2, <1>3, NotedInvStep, ReportTypeCorrect, PTL
     DEF ReportSpec, ReportAccountsForFill

-----------------------------------------------------------------------------
(***************************************************************************)
(* The compiled step (NumbaKernel).  Its loop is a recursive function over *)
(* the slots; what follows uses the least slot at which a claim about the  *)
(* loop would fail.                                                        *)
(***************************************************************************)

\* The kernel's Min and Max, on the sets it uses them for.
LEMMA MinOfSlots ==
  ASSUME NEW S, S \subseteq Slots, S # {}
  PROVE  Min(S) \in S /\ \A j \in S : Min(S) <= j
<1>1. S \subseteq Nat
  BY DEF Slots
<1>2. \E n \in S : \A m \in S : n <= m
  BY <1>1, Least
<1>. QED
  BY <1>2 DEF Min

\* The lesser of two integers.
LEMMA MinOfTwo ==
  ASSUME NEW a \in Int, NEW b \in Int
  PROVE  Min({a, b}) = IF a < b THEN a ELSE b
<1>1. \A n \in {a, b} :
        (\A m \in {a, b} : n <= m) => n = IF a < b THEN a ELSE b
  OBVIOUS
<1>2. \E n \in {a, b} : \A m \in {a, b} : n <= m
  OBVIOUS
<1>. QED
  BY <1>1, <1>2 DEF Min

\* The greater of two integers.
LEMMA MaxOfTwo ==
  ASSUME NEW a \in Int, NEW b \in Int
  PROVE  Max({a, b}) = IF a > b THEN a ELSE b
<1>1. \A n \in {a, b} :
        (\A m \in {a, b} : n >= m) => n = IF a > b THEN a ELSE b
  OBVIOUS
<1>2. \E n \in {a, b} : \A m \in {a, b} : n >= m
  OBVIOUS
<1>. QED
  BY <1>1, <1>2 DEF Max

\* The clip of the kernel is the clip of the engine.
THEOREM KernelClipIsClipUnits ==
  ASSUME NEW book \in Book, NEW signed \in Int, NEW x \in Nat
  PROVE  KernelClip(book.cash, book.units, signed, x) = ClipUnits(book, signed, x)
<1> DEFINE size        == Magnitude(signed)
           equity      == book.cash + book.units * x * Scale
           equityAfter == equity - size * x * FeeBps
           unitsAfter  == Magnitude(book.units + signed)
           after       == ExecuteTrade(book, signed, x)
           allowed     == (Cap * equity - Direction(signed) * book.units * x * Scale)
                            \div (x * (Scale + Cap * FeeBps))
<1>1. EquityAt(book, x) = equity
  BY DEF EquityAt
<1>2. EquityAt(after, x) = equityAfter
  BY <1>1, EquityAfterTrade
<1>3. /\ DeRisks(book, signed) <=> unitsAfter <= Magnitude(book.units)
      /\ WithinCap(after, x) <=> unitsAfter * x * Scale <= MaxLeverage * equityAfter
  <2>1. after.units = book.units + signed
    BY DEF ExecuteTrade
  <2>. HIDE DEF after, equityAfter
  <2>. QED BY <1>2, <2>1 DEF DeRisks, WithinCap
<1>4. Headroom(book, signed, x) \div UnitMargin(x) = allowed
  BY DEF Headroom, UnitMargin, EquityAt
<1>5. x > 0 => allowed \in Int
  BY <1>4, HeadroomType, UnitMarginType, FloorBelow
<1>6. size \in Nat /\ (x > 0 => Min({allowed, size}) = IF allowed < size THEN allowed ELSE size)
  BY <1>5, MagnitudeType, MinOfTwo
<1>7. KernelClip(book.cash, book.units, signed, x)
        = IF x <= 0 THEN signed
          ELSE IF unitsAfter <= Magnitude(book.units) THEN signed
          ELSE IF equityAfter > 0 /\ unitsAfter * x * Scale <= MaxLeverage * equityAfter
            THEN signed
          ELSE IF allowed <= 0 THEN 0
          ELSE Direction(signed) * Min({allowed, size})
  BY DEF KernelClip, Cap, Direction
<1>8. ClipUnits(book, signed, x)
        = IF x <= 0 \/ DeRisks(book, signed) \/ (EquityAt(after, x) > 0 /\ WithinCap(after, x))
            THEN signed
          ELSE IF allowed <= 0 THEN 0
          ELSE Direction(signed) * (IF allowed < size THEN allowed ELSE size)
  BY <1>4 DEF ClipUnits
<1>. HIDE DEF size, equity, equityAfter, unitsAfter, after, allowed
<1>. QED
  BY <1>2, <1>3, <1>6, <1>7, <1>8

\* A clipped size is an integer, whatever was coded.
LEMMA KernelClipType ==
  ASSUME NEW cash \in Int, NEW units \in Int, NEW signed \in Int, NEW x \in Int
  PROVE  KernelClip(cash, units, signed, x) \in Int
<1>1. CASE x <= 0
  BY <1>1 DEF KernelClip
<1>2. CASE x > 0
  <2> DEFINE book == [cash |-> cash, units |-> units]
  <2>1. book \in Book /\ x \in Nat
    BY <1>2 DEF Book
  <2>2. KernelClip(book.cash, book.units, signed, x) = ClipUnits(book, signed, x)
    BY <2>1, KernelClipIsClipUnits
  <2>3. ClipUnits(book, signed, x) \in Int
    BY <2>1, ClipUnitsType
  <2>. QED BY <2>2, <2>3
<1>. QED
  BY <1>1, <1>2

\* What the kernel asks of a position is the maintenance margin.
LEMMA KernelMarginIsMaintenance ==
  ASSUME NEW units \in Int, NEW price \in Nat
  PROVE  /\ KernelMargin(Magnitude(units) * price) = MaintenanceMargin(units, price)
         /\ Magnitude(units) * price # 0 <=> units * price # 0
<1> DEFINE notional == Magnitude(units) * price
           required == notional * Scale * MaintenanceRateBps - MaintenanceAmount
<1>1. notional \in Nat
  BY MagnitudeType
<1>2. Magnitude(notional) = notional
  BY <1>1 DEF Magnitude
<1>3. required \in Int
  BY <1>1, MarginAssumption
<1>4. KernelMargin(notional) = IF required > 0 THEN required ELSE 0
  <2>1. KernelMargin(notional) = Max({required, 0})
    BY <1>2 DEF KernelMargin
  <2>. HIDE DEF required
  <2>. QED BY <1>3, <2>1, MaxOfTwo
<1>5. MaintenanceMargin(units, price) = IF required > 0 THEN required ELSE 0
  BY DEF MaintenanceMargin
<1>6. notional # 0 <=> units * price # 0
  <2>1. notional = units * price \/ notional = -(units * price)
    BY DEF Magnitude
  <2>2. units * price \in Int
    OBVIOUS
  <2>. HIDE DEF notional
  <2>. QED BY <2>1, <2>2
<1>. QED
  BY <1>4, <1>5, <1>6

\* The two settlements of the kernel are those of the engine, and its flag says
\* whether they closed the book.
THEOREM KernelSettleIsSettle ==
  ASSUME NEW book \in Book, NEW price \in Nat
  PROVE  KernelSettle(book, price)
           = [book |-> Settle(book, price), closed |-> ForcesClose(book, price)]
<1>1. \A b \in Book : /\ b.cash + b.units * price * Scale * Scale = Equity(b, price)
                      /\ b.cash \in Int /\ b.units \in Int
  <2>. SUFFICES ASSUME NEW b \in Book
                PROVE  /\ b.cash + b.units * price * Scale * Scale = Equity(b, price)
                       /\ b.cash \in Int /\ b.units \in Int
    OBVIOUS
  <2>1. b.cash \in Int /\ b.units \in Int /\ Scale \in Int
    BY MarginAssumption DEF Book
  <2>2. b.units * (price * Scale) = b.units * price * Scale
    BY <2>1
  <2>. QED BY <2>1, <2>2 DEF Equity, EquityAt
<1>2. \A b \in Book : KernelLiquidate(b, price) = Liquidate(b, price)
  BY <1>1 DEF KernelLiquidate, Liquidate
<1> DEFINE below == KernelBelow(book.cash + book.units * price * Scale * Scale,
                                Magnitude(book.units) * price)
           kept  == IF below THEN KernelLiquidate(book, price) ELSE book
           broke == kept.cash + kept.units * price * Scale * Scale <= 0
<1>3. below <=> BelowMaintenance(book, price)
  BY <1>1, KernelMarginIsMaintenance DEF KernelBelow, BelowMaintenance
<1>4. kept = SettleMaintenance(book, price) /\ kept \in Book
  BY <1>2, <1>3, SettleType DEF SettleMaintenance
<1>5. KernelSettle(book, price)
        = [book |-> IF broke THEN KernelLiquidate(kept, price) ELSE kept,
           closed |-> below \/ broke]
  BY DEF KernelSettle
<1>. HIDE DEF below, kept
<1>6. broke <=> Insolvent(kept, price)
  BY <1>1, <1>4 DEF Insolvent
<1>. HIDE DEF broke
<1>7. (IF broke THEN KernelLiquidate(kept, price) ELSE kept) = Settle(book, price)
  BY <1>2, <1>4, <1>6 DEF Settle, SettleInsolvency
<1>8. (below \/ broke) = ForcesClose(book, price)
  BY <1>3, <1>4, <1>6, Zenon DEF ForcesClose, broke
<1>. QED
  BY <1>5, <1>7, <1>8, Zenon

\* The kernel refuses for its slots when the engine does, and otherwise takes the
\* engine's slot.
THEOREM KernelSlotIsTheSlot ==
  ASSUME NEW orders, NEW side
  PROVE  /\ KernelSlot(orders, side) = 0
              <=> \A i \in Slots : orders[i].active /\ orders[i].side # side
         /\ KernelSlot(orders, side) # 0 =>
              /\ KernelSlot(orders, side) \in Slots
              /\ SlotsFor(orders, side) = {KernelSlot(orders, side)}
<1> DEFINE own  == OwnSlots(orders, side)
           free == FreeSlots(orders)
           both == IF own # {} THEN own ELSE free
<1>1. KernelSlot(orders, side) = IF both # {} THEN Min(both) ELSE 0
  BY DEF KernelSlot, OwnSlots, FreeSlots
<1>2. both \subseteq Slots
  BY DEF OwnSlots, FreeSlots
<1>3. both = {} <=> \A i \in Slots : orders[i].active /\ orders[i].side # side
  BY DEF OwnSlots, FreeSlots
<1>4. SlotsFor(orders, side) = {i \in both : \A j \in both : i <= j}
  BY DEF SlotsFor
<1>. HIDE DEF both
<1>5. both # {} => /\ Min(both) \in both /\ \A j \in both : Min(both) <= j
  BY <1>2, MinOfSlots
<1>6. \A i \in Slots : i \in Int /\ i # 0
  BY DEF Slots
<1>7. both # {} => {i \in both : \A j \in both : i <= j} = {Min(both)}
  <2>. SUFFICES ASSUME both # {}, NEW i \in both
                PROVE  (\A j \in both : i <= j) <=> i = Min(both)
    BY <1>5
  <2>. QED BY <1>2, <1>5, <1>6
<1>. QED
  BY <1>1, <1>2, <1>3, <1>4, <1>5, <1>6, <1>7

-----------------------------------------------------------------------------
(***************************************************************************)
(* The loop.  After each slot the kernel holds what its body makes of what *)
(* it held before.                                                         *)
(***************************************************************************)
Unfolds(after, n, s, handed, draws) ==
  after = [i \in 0 .. n |-> IF i = 0 THEN KernelStart(s, handed)
                            ELSE KernelVisit(after[i - 1], i, s.t, draws[i])]

\* For every number of slots there is a function that unfolds the loop, so the
\* one the kernel names does.
LEMMA LoopUnfolds ==
  ASSUME NEW s, NEW handed, NEW draws
  PROVE  Unfolds(KernelAfter(s, handed, draws), MaxOrders, s, handed, draws)
<1> DEFINE None == {n \in Nat : ~\E after : Unfolds(after, n, s, handed, draws)}
<1>1. None = {}
  <2>. SUFFICES ASSUME None # {} PROVE FALSE
    OBVIOUS
  <2>1. PICK n \in None : \A m \in None : n <= m
    <3>1. None \subseteq Nat
      OBVIOUS
    <3>. HIDE DEF None
    <3>. QED BY <3>1, Least
  <2>2. n \in Nat /\ ~\E after : Unfolds(after, n, s, handed, draws)
    BY <2>1
  <2>3. n # 0
    <3>. SUFFICES ASSUME n = 0 PROVE FALSE
      OBVIOUS
    <3> DEFINE zero == [i \in 0 .. 0 |-> KernelStart(s, handed)]
    <3>1. \A i \in 0 .. 0 : i = 0
      OBVIOUS
    <3>2. zero = [i \in 0 .. 0 |-> IF i = 0 THEN KernelStart(s, handed)
                                   ELSE KernelVisit(zero[i - 1], i, s.t, draws[i])]
      BY <3>1
    <3>3. Unfolds(zero, 0, s, handed, draws)
      BY <3>2 DEF Unfolds
    <3>. QED BY <2>2, <3>3
  <2>4. n - 1 \in Nat /\ n - 1 \notin None
    BY <2>1, <2>2, <2>3
  <2>5. PICK before : Unfolds(before, n - 1, s, handed, draws)
    BY <2>4
  <2> DEFINE step(i)  == KernelVisit(before[i - 1], i, s.t, draws[i])
             after    == [i \in 0 .. n |-> IF i = 0 THEN KernelStart(s, handed) ELSE step(i)]
  <2>6. \A i \in 0 .. n - 1 :
          before[i] = IF i = 0 THEN KernelStart(s, handed) ELSE step(i)
    BY <2>5 DEF Unfolds
  <2>7. \A i \in 0 .. n - 1 : after[i] = before[i]
    <3>. HIDE DEF step
    <3>. QED BY <2>2, <2>6
  <2>8. \A i \in 0 .. n : i # 0 => step(i) = KernelVisit(after[i - 1], i, s.t, draws[i])
    <3>. SUFFICES ASSUME NEW i \in 0 .. n, i # 0
                  PROVE  step(i) = KernelVisit(after[i - 1], i, s.t, draws[i])
      OBVIOUS
    <3>1. i - 1 \in 0 .. n - 1
      BY <2>2
    <3>2. after[i - 1] = before[i - 1]
      BY <2>7, <3>1
    <3>. HIDE DEF after
    <3>. QED BY <3>2
  <2>9. Unfolds(after, n, s, handed, draws)
    <3>1. after = [i \in 0 .. n |-> IF i = 0 THEN KernelStart(s, handed)
                                    ELSE KernelVisit(after[i - 1], i, s.t, draws[i])]
      <4> DEFINE unfolded == [i \in 0 .. n |-> IF i = 0 THEN KernelStart(s, handed)
                                         ELSE KernelVisit(after[i - 1], i, s.t, draws[i])]
      <4>1. \A i \in 0 .. n : after[i] = unfolded[i]
        <5>. HIDE DEF step
        <5>1. \A i \in 0 .. n : after[i] = IF i = 0 THEN KernelStart(s, handed) ELSE step(i)
          OBVIOUS
        <5>2. \A i \in 0 .. n : unfolded[i] = IF i = 0 THEN KernelStart(s, handed)
                                  ELSE KernelVisit(after[i - 1], i, s.t, draws[i])
          OBVIOUS
        <5>. HIDE DEF after, unfolded
        <5>. QED BY <2>8, <5>1, <5>2
      <4>2. after = unfolded
        BY <4>1, Zenon
      <4>. QED BY <4>2
    <3>. HIDE DEF after
    <3>. QED BY <3>1 DEF Unfolds
  <2>. QED BY <2>2, <2>9
<1>2. \E after : Unfolds(after, MaxOrders, s, handed, draws)
  <2>1. MaxOrders \in Nat
    BY CoreAssumption
  <2>. QED BY <1>1, <2>1
<1>3. KernelAfter(s, handed, draws)
        = CHOOSE after : Unfolds(after, MaxOrders, s, handed, draws)
  BY Zenon DEF KernelAfter, Unfolds
<1>. QED
  BY <1>2, <1>3

\* The loop starts at KernelStart and visits slot i with what slot i - 1 left.
LEMMA LoopSteps ==
  ASSUME NEW s, NEW handed, NEW draws
  PROVE  /\ KernelAfter(s, handed, draws)[0] = KernelStart(s, handed)
         /\ \A i \in Slots :
              KernelAfter(s, handed, draws)[i]
                = KernelVisit(KernelAfter(s, handed, draws)[i - 1], i, s.t, draws[i])
<1> DEFINE after == KernelAfter(s, handed, draws)
<1>1. after = [i \in 0 .. MaxOrders |-> IF i = 0 THEN KernelStart(s, handed)
                                        ELSE KernelVisit(after[i - 1], i, s.t, draws[i])]
  <2>1. Unfolds(after, MaxOrders, s, handed, draws)
    BY LoopUnfolds
  <2>. HIDE DEF after
  <2>. QED BY <2>1 DEF Unfolds
<1>2. MaxOrders \in Nat /\ 0 \in 0 .. MaxOrders
      /\ \A i \in Slots : i \in 0 .. MaxOrders /\ i # 0
  BY CoreAssumption DEF Slots
<1>. HIDE DEF after
<1>3. \A i \in 0 .. MaxOrders :
        after[i] = IF i = 0 THEN KernelStart(s, handed)
                   ELSE KernelVisit(after[i - 1], i, s.t, draws[i])
  BY <1>1
<1>. QED
  BY <1>2, <1>3 DEF after

\* The shape of what the kernel works on, whatever was coded.
KernelOrder == [active : BOOLEAN, side : Int, kind : Kinds, units : Int, limit : Int,
                eligible : Int, ttl : Int]
KernelOrders == [Slots -> KernelOrder]
KernelState  == [t : Bars, done : BOOLEAN, cash : Int, units : Int, orders : KernelOrders]
KernelWork   == [cash : Int, units : Int, orders : KernelOrders, fills : Nat,
                 slot : Int, price : Int \cup {NoPrice}]
CodedRow     == [side : Int, units : Int, type : Int, limit : Int]

\* What the engine publishes has that shape.
LEMMA EngineStateIsKernelState == StateType \subseteq KernelState
<1>1. Order \subseteq KernelOrder
  BY DEF Order, KernelOrder, Buy, Sell, Hold
<1>2. Orders \subseteq KernelOrders
  BY <1>1 DEF Orders, KernelOrders
<1>. QED
  BY <1>2 DEF StateType, KernelState

\* An emptied slot has the shape of an order.
LEMMA NoOrderIsKernelOrder == NoOrder \in KernelOrder
BY DEF NoOrder, KernelOrder, Kinds, Hold

\* A row the kernel does not refuse enters a slot.
LEMMA KernelPlaceType ==
  ASSUME NEW s \in KernelState, NEW handed \in CodedRow, ~s.done, ~KernelRefuses(s, handed)
  PROVE  KernelPlace(s, handed) \in KernelOrders
<1>1. s.orders \in KernelOrders /\ s.t \in Nat
  BY CoreAssumption DEF KernelState, Bars
<1>2. handed.side # 0 => KernelSlot(s.orders, handed.side) \in Slots
  BY KernelSlotIsTheSlot DEF KernelRefuses
<1> DEFINE order == [active |-> TRUE, side |-> handed.side, kind |-> KindOf(handed.type),
                     units |-> handed.units, limit |-> handed.limit,
                     eligible |-> s.t + MarketLatencyBars, ttl |-> LimitTtlBars]
<1>3. order \in KernelOrder
  BY <1>1, CoreAssumption DEF KernelOrder, CodedRow, KindOf, Kinds
<1>. HIDE DEF order
<1>4. handed.side # 0 =>
        [s.orders EXCEPT ![KernelSlot(s.orders, handed.side)] = order] \in KernelOrders
  BY <1>1, <1>2, <1>3 DEF KernelOrders
<1>. QED
  BY <1>1, <1>4 DEF KernelPlace, order

\* The body of the loop keeps the shape,
LEMMA KernelVisitType ==
  ASSUME NEW w \in KernelWork, NEW i \in Slots, NEW t \in Bars, NEW draw \in Nat,
         market \in Markets
  PROVE  KernelVisit(w, i, t, draw) \in KernelWork
<1>1. /\ w.orders[i] \in KernelOrder /\ w.orders \in KernelOrders
      /\ w.cash \in Int /\ w.units \in Int /\ w.fills \in Nat /\ i \in Int
  <2>1. /\ w.orders \in KernelOrders /\ w.cash \in Int /\ w.units \in Int
        /\ w.fills \in Nat
    BY DEF KernelWork
  <2>2. w.orders[i] \in KernelOrder
    BY <2>1 DEF KernelOrders
  <2>. QED BY <2>1, <2>2 DEF Slots
<1> DEFINE order     == w.orders[i]
           price     == IF order.kind = "market" THEN market[t].open ELSE order.limit
           requested == order.side * order.units * draw
           x         == IF requested > 0 THEN price * (Scale + SlippageBps)
                                         ELSE price * (Scale - SlippageBps)
           signed    == KernelClip(w.cash, w.units, requested, x)
           fee       == Magnitude(signed) * x * FeeBps
           ttl       == order.ttl - 1
           filled    == [cash |-> w.cash - (signed * x * Scale + fee),
                         units |-> w.units + signed,
                         orders |-> [w.orders EXCEPT ![i] = NoOrder],
                         fills |-> w.fills + 1, slot |-> i - 1, price |-> x]
           left      == IF ttl <= 0 THEN NoOrder ELSE [order EXCEPT !.ttl = ttl]
           expired    == [w EXCEPT !.orders[i] = left]
<1>2. market[t].open \in Nat
  BY CoreAssumption DEF Bar
<1>3. /\ order.side \in Int /\ order.units \in Int /\ order.limit \in Int /\ ttl \in Int
  BY <1>1 DEF KernelOrder
<1>4. price \in Int /\ requested \in Int
  BY <1>2, <1>3
<1>5. Scale + SlippageBps \in Int /\ Scale - SlippageBps \in Int
      /\ Scale \in Int /\ FeeBps \in Int
  BY MarginAssumption
<1>6. x \in Int
  <2>1. \A p \in Int, f \in Int : p * f \in Int
    OBVIOUS
  <2>. HIDE DEF price, requested
  <2>. QED BY <1>4, <1>5, <2>1
<1>. HIDE DEF price, requested, x
<1>7. signed \in Int
  BY <1>1, <1>4, <1>6, KernelClipType
<1>. HIDE DEF signed
<1>8. fee \in Int /\ signed * x * Scale \in Int
  BY <1>5, <1>6, <1>7, MagnitudeType
<1>. HIDE DEF fee
<1>9. filled \in KernelWork
  <2>1. [w.orders EXCEPT ![i] = NoOrder] \in KernelOrders
    BY <1>1, NoOrderIsKernelOrder DEF KernelOrders
  <2>2. w.cash - (signed * x * Scale + fee) \in Int /\ w.units + signed \in Int
        /\ w.fills + 1 \in Nat /\ i - 1 \in Int
    BY <1>1, <1>7, <1>8
  <2>. QED BY <1>6, <2>1, <2>2 DEF KernelWork
<1>10. expired \in KernelWork
  <2>1. left \in KernelOrder
    BY <1>1, <1>3, NoOrderIsKernelOrder DEF KernelOrder
  <2>. HIDE DEF left
  <2>2. [w.orders EXCEPT ![i] = left] \in KernelOrders
    BY <1>1, <2>1 DEF KernelOrders
  <2>. QED BY <2>2 DEF KernelWork
<1>11. KernelVisit(w, i, t, draw) \in {w, filled, expired}
  BY DEF KernelVisit, filled, expired, left, fee, signed, x, requested, price
<1>. HIDE DEF filled, expired
<1>. QED
  BY <1>9, <1>10, <1>11

\* and so does the whole loop.
LEMMA KernelAfterType ==
  ASSUME NEW s \in KernelState, NEW handed \in CodedRow, NEW draws \in [Slots -> Nat],
         market \in Markets, KernelPlace(s, handed) \in KernelOrders
  PROVE  \A i \in 0 .. MaxOrders : KernelAfter(s, handed, draws)[i] \in KernelWork
<1> DEFINE after == KernelAfter(s, handed, draws)
           Off   == {i \in 0 .. MaxOrders : after[i] \notin KernelWork}
<1>1. /\ after[0] = KernelStart(s, handed)
      /\ \A i \in Slots : after[i] = KernelVisit(after[i - 1], i, s.t, draws[i])
  BY LoopSteps
<1>2. KernelStart(s, handed) \in KernelWork
  BY DEF KernelStart, KernelWork, KernelState, NoFillSlot
<1>. HIDE DEF after
<1>3. Off = {}
  <2>. SUFFICES ASSUME Off # {} PROVE FALSE
    OBVIOUS
  <2>1. PICK n \in Off : \A m \in Off : n <= m
    <3>1. Off \subseteq Nat
      OBVIOUS
    <3>. HIDE DEF Off
    <3>. QED BY <3>1, Least
  <2>2. n \in 0 .. MaxOrders /\ after[n] \notin KernelWork /\ n # 0
    BY <1>1, <1>2, <2>1
  <2>3. n \in Slots /\ n - 1 \in 0 .. MaxOrders /\ ~(n <= n - 1)
    BY <2>2, CoreAssumption DEF Slots
  <2>4. after[n - 1] \in KernelWork
    BY <2>1, <2>3
  <2>5. s.t \in Bars /\ draws[n] \in Nat
    BY <2>3 DEF KernelState
  <2>6. after[n] \in KernelWork
    BY <1>1, <2>3, <2>4, <2>5, KernelVisitType
  <2>. QED BY <2>2, <2>6
<1>. QED
  BY <1>3 DEF after

-----------------------------------------------------------------------------
(***************************************************************************)
(* The compiled path alone, for rows whose codes nothing has validated:    *)
(* what it publishes is margined like what the engine publishes.           *)
(***************************************************************************)
Margined(s) ==
  LET price == market[s.t].close
  IN  /\ ~BelowMaintenance(BookOf(s), price)
      /\ Insolvent(BookOf(s), price) => s.done /\ s.units = 0

\* A step of the kernel in the engine's terms: the book its loop leaves, and what
\* the two settlements make of it.
Outcome(s, step, looped, book, filled, marked) ==
  LET here  == market[s.t].close
      there == market[NextBar(s.t)].close
  IN  /\ here \in Nat /\ there \in Nat /\ NextBar(s.t) \in Bars
      /\ book = BookOf(looped)
      /\ filled = Settle(book, here)
      /\ marked = Settle(filled, there)
      /\ step.state = [t |-> NextBar(s.t),
                       done |-> \/ AtLastBar(NextBar(s.t))
                                \/ ForcesClose(book, here)
                                \/ ForcesClose(filled, there),
                       cash |-> marked.cash, units |-> marked.units,
                       orders |-> looped.orders]
      /\ step.fills = looped.fills
      /\ step.delta = KernelDelta(s, here, marked, there)
      /\ step.last = [slot |-> SlotFromJit(looped.slot),
                      price |-> PriceFromJit(looped.price)]

\* Every step of the kernel on an open episode has such an outcome.
LEMMA KernelStepUnfolds ==
  ASSUME NEW s \in KernelState, NEW handed, NEW draws, market \in Markets, ~s.done,
         NEW looped \in KernelWork, looped = KernelLoop(s, handed, draws)
  PROVE  \E book \in Book, filled \in Book, marked \in Book :
           Outcome(s, KernelStep(s, handed, draws), looped, book, filled, marked)
<1> DEFINE book   == BookOf(looped)
           here   == market[s.t].close
           nextT  == NextBar(s.t)
           there  == market[nextT].close
           filled == Settle(book, here)
           marked == Settle(filled, there)
           step   == KernelStep(s, handed, draws)
<1>1. s.t \in Bars
  BY DEF KernelState
<1>2. nextT \in Bars /\ nextT = (IF s.t + 1 >= N THEN N - 1 ELSE s.t + 1)
  BY <1>1, NextBarType DEF NextBar
<1>3. here \in Nat /\ there \in Nat
  <2>. HIDE DEF nextT
  <2>. QED BY <1>1, <1>2, CoreAssumption DEF Bar
<1>4. book \in Book
  BY DEF BookOf, Book, KernelWork
<1>. HIDE DEF here, there, nextT
<1>5. filled \in Book
  BY <1>3, <1>4, SettleType
<1>6. marked \in Book
  BY <1>3, <1>5, SettleType
<1>7. KernelSettle(book, here) = [book |-> filled, closed |-> ForcesClose(book, here)]
  BY <1>3, <1>4, KernelSettleIsSettle
<1>8. KernelSettle(filled, there) = [book |-> marked, closed |-> ForcesClose(filled, there)]
  BY <1>3, <1>5, KernelSettleIsSettle
<1>9. book = [cash |-> looped.cash, units |-> looped.units]
  BY DEF BookOf
<1>. HIDE DEF book, filled, marked
<1>10. PICK first : first = KernelSettle(book, here)
  OBVIOUS
<1>11. PICK second : second = KernelSettle(filled, there)
  OBVIOUS
<1>a. first.book = filled /\ first.closed = ForcesClose(book, here)
  <2>1. first = [book |-> filled, closed |-> ForcesClose(book, here)]
    BY <1>7, <1>10, Zenon
  <2>2. first.book = filled
    BY <2>1, Zenon
  <2>3. first.closed = ForcesClose(book, here)
    BY <2>1, Zenon
  <2>. QED BY <2>2, <2>3, Zenon
<1>b. second.book = marked /\ second.closed = ForcesClose(filled, there)
  <2>1. second = [book |-> marked, closed |-> ForcesClose(filled, there)]
    BY <1>8, <1>11, Zenon
  <2>2. second.book = marked
    BY <2>1, Zenon
  <2>3. second.closed = ForcesClose(filled, there)
    BY <2>1, Zenon
  <2>. QED BY <2>2, <2>3, Zenon
<1>12. step = [state |-> [t |-> nextT,
                          done |-> nextT >= N - 1 \/ first.closed \/ second.closed,
                          cash |-> second.book.cash, units |-> second.book.units,
                          orders |-> looped.orders],
               fills |-> looped.fills,
               delta |-> KernelDelta(s, here, second.book, there),
               last |-> [slot |-> SlotFromJit(looped.slot),
                         price |-> PriceFromJit(looped.price)]]
  <2>1. second = KernelSettle(first.book, there)
    BY <1>11, <1>a
  <2>. QED BY <1>2, <1>9, <1>10, <2>1, Zenon DEF KernelStep, here, there
<1>. HIDE DEF step
<1>13. step = [state |-> [t |-> nextT,
                          done |-> \/ AtLastBar(nextT)
                                   \/ ForcesClose(book, here)
                                   \/ ForcesClose(filled, there),
                          cash |-> marked.cash, units |-> marked.units,
                          orders |-> looped.orders],
               fills |-> looped.fills,
               delta |-> KernelDelta(s, here, marked, there),
               last |-> [slot |-> SlotFromJit(looped.slot),
                         price |-> PriceFromJit(looped.price)]]
  BY <1>a, <1>b, <1>12, Zenon DEF AtLastBar
<1>14. /\ step.state = [t |-> nextT,
                        done |-> \/ AtLastBar(nextT)
                                 \/ ForcesClose(book, here)
                                 \/ ForcesClose(filled, there),
                        cash |-> marked.cash, units |-> marked.units,
                        orders |-> looped.orders]
       /\ step.fills = looped.fills
       /\ step.delta = KernelDelta(s, here, marked, there)
       /\ step.last = [slot |-> SlotFromJit(looped.slot),
                       price |-> PriceFromJit(looped.price)]
  BY <1>13, Zenon
<1>15. Outcome(s, step, looped, book, filled, marked)
  BY <1>2, <1>3, <1>14, Zenon DEF Outcome, book, filled, marked, here, there, nextT
<1>. QED
  BY <1>4, <1>5, <1>6, <1>15, Zenon DEF step

\* The working state the kernel leaves its loop with.
LEMMA KernelLoopType ==
  ASSUME NEW s \in KernelState, NEW handed \in CodedRow, NEW draws \in [Slots -> Nat],
         market \in Markets, ~s.done, ~KernelRefuses(s, handed)
  PROVE  KernelLoop(s, handed, draws) \in KernelWork
<1>1. MaxOrders \in 0 .. MaxOrders
  BY CoreAssumption
<1>. QED
  BY <1>1, KernelPlaceType, KernelAfterType DEF KernelLoop

\* What the kernel publishes has the shape of a state and is margined.
LEMMA KernelStepMargined ==
  ASSUME NEW s \in KernelState, NEW handed \in CodedRow, NEW draws \in [Slots -> Nat],
         market \in Markets, ~KernelRefuses(s, handed), Margined(s)
  PROVE  LET next == KernelStep(s, handed, draws).state
         IN  next \in KernelState /\ Margined(next)
<1> DEFINE next == KernelStep(s, handed, draws).state
<1>1. CASE s.done
  <2>1. next = s
    BY <1>1, Zenon DEF KernelStep, KernelFinished
  <2>. HIDE DEF next
  <2>. QED BY <2>1 DEF next
<1>2. CASE ~s.done
  <2> DEFINE here  == market[s.t].close
             there == market[NextBar(s.t)].close
  <2>1. PICK looped \in KernelWork : looped = KernelLoop(s, handed, draws)
    BY <1>2, KernelLoopType
  <2>2. PICK book \in Book, filled \in Book, marked \in Book :
          Outcome(s, KernelStep(s, handed, draws), looped, book, filled, marked)
    BY <1>2, <2>1, KernelStepUnfolds
  <2>a. /\ here \in Nat /\ there \in Nat /\ NextBar(s.t) \in Bars
        /\ filled = Settle(book, here)
        /\ marked = Settle(filled, there)
        /\ next = [t |-> NextBar(s.t),
                   done |-> \/ AtLastBar(NextBar(s.t))
                            \/ ForcesClose(book, here)
                            \/ ForcesClose(filled, there),
                   cash |-> marked.cash, units |-> marked.units,
                   orders |-> looped.orders]
    BY <2>2, Zenon DEF Outcome
  <2>. HIDE DEF next
  <2>3. next \in KernelState
    <3>1. marked.cash \in Int /\ marked.units \in Int
      BY DEF Book
    <3>2. looped.orders \in KernelOrders
      BY <2>1 DEF KernelWork
    <3>3. (\/ AtLastBar(NextBar(s.t)) \/ ForcesClose(book, here)
           \/ ForcesClose(filled, there)) \in BOOLEAN
      OBVIOUS
    <3>. QED BY <2>a, <3>1, <3>2, <3>3, Zenon DEF KernelState
  <2>4. /\ next.t = NextBar(s.t) /\ next.units = marked.units /\ BookOf(next) = marked
        /\ ForcesClose(filled, there) => next.done
    <3>1. /\ next.t = NextBar(s.t) /\ next.cash = marked.cash /\ next.units = marked.units
          /\ next.done = (\/ AtLastBar(NextBar(s.t))
                          \/ ForcesClose(book, here)
                          \/ ForcesClose(filled, there))
      BY <2>a, Zenon
    <3>2. BookOf(next) = marked
      BY <3>1 DEF BookOf, Book
    <3>. QED BY <3>1, <3>2, Zenon
  <2>. HIDE DEF there
  <2>5. /\ ~BelowMaintenance(marked, there)
        /\ ForcesClose(filled, there) => marked.units = 0
        /\ Insolvent(marked, there) => ForcesClose(filled, there)
    BY <2>a, SettleIsSafe
  <2>6. market[next.t].close = there
    BY <2>4 DEF there
  <2>7. Margined(next)
    BY <2>4, <2>5, <2>6 DEF Margined
  <2>. QED BY <2>3, <2>7 DEF next
<1>. QED
  BY <1>1, <1>2

\* What step_many hands the kernel for a row has no NaN left.
LEMMA HandedType == \A row \in CodedRows : Handed(row) \in CodedRow
BY ParityAssumption DEF Handed, CodedRow

\* Beside the engine's own invariant, for an environment with use_numba: no call
\* is ever caught half way, and what is published is margined.
PathsInv ==
  /\ useNumba \in BOOLEAN
  /\ ~useNumba => TypeOK /\ MarginInv
  /\ useNumba => /\ market \in Markets /\ cursor = Idle
                 /\ state \in KernelState /\ Margined(state)

\* What the Python path does beside the kernel is a step of the engine.
LEMMA ParityStep == ParityNext => [Next]_vars
BY DEF ParityNext, Next, vars, Visit, Place

\* The invariant holds of a fresh environment on either path.
LEMMA PathsInvInit == PathsInit => PathsInv
<1>. SUFFICES ASSUME PathsInit PROVE PathsInv
  OBVIOUS
<1>1. Init /\ useNumba \in BOOLEAN
  BY DEF PathsInit, ReportInit
<1>2. TypeOK
  BY <1>1, TypeInit
<1>3. MarginInv
  <2>1. 0 \in Bars
    BY CoreAssumption DEF Bars
  <2>. QED BY <1>1, <1>2, <2>1, MarginInvFresh DEF Init
<1>4. state \in KernelState /\ Margined(state)
  BY <1>2, <1>3, EngineStateIsKernelState
     DEF TypeOK, MarginInv, PublishedBookIsMargined, Margined
<1>. QED
  BY <1>1, <1>2, <1>3, <1>4 DEF PathsInv, TypeOK, Init

\* Every step of either path keeps it.
LEMMA PathsInvStep == PathsInv /\ [PathsNext]_pvars => PathsInv'
<1>. SUFFICES ASSUME PathsInv, [PathsNext]_pvars PROVE PathsInv'
  OBVIOUS
<1>1. CASE UNCHANGED pvars
  BY <1>1 DEF pvars, reportVars, vars, PathsInv, TypeOK, MarginInv, PublishedBookIsMargined,
              EarlyEndIsFlat, RewardsAddUp, Margined
<1>2. CASE ~useNumba /\ ParityNext /\ UNCHANGED useNumba
  <2>1. TypeOK /\ MarginInv /\ [Next]_vars
    BY <1>2, ParityStep DEF PathsInv
  <2>. QED
    BY <1>2, <2>1, TypeStep, MarginInvStep DEF PathsInv
<1>3. CASE useNumba /\ KernelNext /\ UNCHANGED useNumba
  <2>. SUFFICES market' \in Markets /\ cursor' = Idle /\ state' \in KernelState /\ Margined(state)'
    BY <1>3 DEF PathsInv
  <2>0. market \in Markets /\ cursor = Idle /\ state \in KernelState /\ Margined(state)
    BY <1>3 DEF PathsInv
  <2>1. ASSUME NEW start \in Bars, Reset(start)
        PROVE  market' \in Markets /\ cursor' = Idle /\ state' \in KernelState /\ Margined(state)'
    <3>1. state' = InitialState(start) /\ market' = market /\ cursor' = cursor
      BY <2>1 DEF Reset
    <3>2. InitialState(start) \in KernelState
      BY InitialStateType, EngineStateIsKernelState
    <3>3. /\ BookOf(state').units = 0 /\ state'.t = start
          /\ BookOf(state').cash = InitialCash
      BY <3>1 DEF InitialState, BookOf
    <3>4. market[start].close \in Nat
      BY <2>0, CoreAssumption DEF Bar
    <3>5. ~BelowMaintenance(BookOf(state'), market[start].close)
      BY <3>3, <3>4, FlatIsMaintained
    <3>6. ~Insolvent(BookOf(state'), market[start].close)
      <4>1. 0 * (market[start].close * Scale) * Scale = 0
        BY <3>4, MarginAssumption
      <4>. QED
        BY <3>3, <4>1, CoreAssumption DEF Insolvent, Equity, EquityAt
    <3>. QED
      BY <2>0, <3>1, <3>2, <3>3, <3>5, <3>6 DEF Margined
  <2>2. ASSUME NEW row \in CodedRows, KernelStepMany(row)
        PROVE  market' \in Markets /\ cursor' = Idle /\ state' \in KernelState /\ Margined(state)'
    <3>1. PICK draws \in [Slots -> Draws] :
            /\ ~KernelRefuses(state, Handed(row))
            /\ state' = KernelStep(state, Handed(row), draws).state
            /\ UNCHANGED <<market, cursor>>
      BY <2>2, Zenon DEF KernelStepMany
    <3>2. draws \in [Slots -> Nat]
      BY CoreAssumption
    <3>3. state' \in KernelState
      BY <2>0, <3>1, <3>2, HandedType, KernelStepMargined
    <3>4. Margined(state)'
      <4>1. PICK next : next = state'
        OBVIOUS
      <4>2. Margined(next)
        BY <2>0, <3>1, <3>2, <4>1, HandedType, KernelStepMargined
      <4>. QED
        BY <3>1, <4>1, <4>2 DEF Margined
    <3>. QED BY <2>0, <3>1, <3>3, <3>4
  <2>3. ASSUME NEW row \in CodedRows, KernelRaises(row)
        PROVE  market' \in Markets /\ cursor' = Idle /\ state' \in KernelState /\ Margined(state)'
    BY <2>0, <2>3 DEF KernelRaises, Margined
  <2>. QED
    BY <1>3, <2>1, <2>2, <2>3 DEF KernelNext
<1>. QED
  BY <1>1, <1>2, <1>3 DEF PathsNext

\* PublishedBookIsMargined on either path: whatever codes step_many is sent, what
\* the compiled path publishes meets its maintenance margin, and an insolvent
\* account is flat and over.
THEOREM EitherPathIsMargined == PathsSpec => []PublishedBookIsMargined
<1>1. PathsInv => PublishedBookIsMargined
  BY DEF PathsInv, MarginInv, PublishedBookIsMargined, Margined
<1>. QED
  BY <1>1, PathsInvInit, PathsInvStep, PTL DEF PathsSpec

\* KernelRefusesAlike: the two paths refuse the same actions, and neither moves a
\* finished episode.
THEOREM KernelRefusesAlikeHolds == PathsSpec => []KernelRefusesAlike
<1>1. KernelRefusesAlike
  <2>. SUFFICES ASSUME NEW action \in Actions
                PROVE  /\ ~state.done => (KernelRefuses(state, Encode(action))
                                            <=> Refused(state.orders, action))
                       /\ state.done => /\ ~KernelRefuses(state, Encode(action))
                                        /\ KernelStep(state, Encode(action), NoDraws).state = state
    BY Zenon DEF KernelRefusesAlike
  <2>1. Encode(action).side = action.side /\ Encode(action).units = action.units
    BY DEF Encode
  <2>2. action.units \in Nat
    BY CoreAssumption DEF Action
  <2>3. KernelSlot(state.orders, action.side) = 0
          <=> \A i \in Slots : state.orders[i].active /\ state.orders[i].side # action.side
    BY KernelSlotIsTheSlot
  <2>4. ~state.done => (KernelRefuses(state, Encode(action)) <=> Refused(state.orders, action))
    BY <2>1, <2>2, <2>3, NoSlotLeft DEF KernelRefuses, Refused, NoCapacity, Hold
  <2>5. state.done => /\ ~KernelRefuses(state, Encode(action))
                      /\ KernelStep(state, Encode(action), NoDraws).state = state
    <3>1. state.done => KernelStep(state, Encode(action), NoDraws).state = state
      BY Zenon DEF KernelStep, KernelFinished
    <3>. QED BY <3>1 DEF KernelRefuses
  <2>. QED BY <2>4, <2>5
<1>. QED
  BY <1>1, PTL

-----------------------------------------------------------------------------
(***************************************************************************)
(* The two paths side by side.  KernelAgrees compares them when the step   *)
(* publishes; for that it has to be known that they agreed at every slot   *)
(* on the way: the step of EngineCore, standing at a slot, holds what the  *)
(* kernel holds after the slots before it, whatever draws are yet to come. *)
(***************************************************************************)

\* What the kernel holds is what the engine holds, and the same last fill.
Holds(w, v, fill) ==
  /\ w.cash = v.cash /\ w.units = v.units /\ w.orders = v.orders /\ w.fills = v.fills
  /\ fill = [slot |-> SlotFromJit(w.slot), price |-> PriceFromJit(w.price)]

\* ... after the slots below k, for all draws that begin with the given ones.
HoldsBelow(k, s, action, given, v, fill) ==
  \A draws \in [Slots -> Nat] :
    (\A i \in Slots : i < k => draws[i] = given[i]) =>
      Holds(KernelAfter(s, Encode(action), draws)[k - 1], v, fill)

\* A running step of the Python path is in step with the kernel fed the same.
InStep ==
  /\ cursor = Idle => last = NoFill
  /\ cursor # Idle =>
       /\ ~state.done /\ fed.action \in Actions /\ ~Refused(state.orders, fed.action)
       /\ fed = [action |-> fed.action, draws |-> fed.draws]
       /\ fed.draws \in [Slots -> Nat]
       /\ HoldsBelow(cursor, state, fed.action, fed.draws, work, last)

\* An action of the Python path, encoded, is a row the kernel can take.
LEMMA EncodeType ==
  ASSUME NEW action \in Actions
  PROVE  /\ Encode(action) \in CodedRow
         /\ Encode(action).side = action.side /\ Encode(action).units = action.units
         /\ Encode(action).limit = action.limit /\ KindOf(Encode(action).type) = action.kind
<1>1. action \in Action
  BY CoreAssumption
<1>2. /\ action.side \in Int /\ action.units \in Int /\ action.limit \in Int
      /\ action.kind \in {"market", "limit"}
  BY <1>1 DEF Action, Buy, Sell, Hold, Kinds
<1>. QED
  BY <1>2 DEF Encode, CodedRow, KindOf, MarketCode, LimitCode

\* The kernel refuses an action exactly when the engine does.
LEMMA RefusesAlike ==
  ASSUME NEW s, ~s.done, NEW action \in Actions
  PROVE  KernelRefuses(s, Encode(action)) <=> Refused(s.orders, action)
<1>1. Encode(action).side = action.side /\ Encode(action).units = action.units
  BY EncodeType
<1>2. action.units \in Nat
  BY CoreAssumption DEF Action
<1>. QED
  BY <1>1, <1>2, KernelSlotIsTheSlot, NoSlotLeft DEF KernelRefuses, Refused, NoCapacity, Hold

\* Both paths enter the loop with the same book, the same orders and no fill.
LEMMA StartAlike ==
  ASSUME TypeOK, NEW action \in Actions, Place(action)
  PROVE  Holds(KernelStart(state, Encode(action)), work', NoFill)
<1> DEFINE handed == Encode(action)
           placed == KernelPlace(state, handed)
           start  == KernelStart(state, handed)
<1>1. start = [cash |-> state.cash, units |-> state.units, orders |-> placed,
               fills |-> 0, slot |-> NoFillSlot, price |-> NoPrice]
  BY DEF KernelStart
<1>2. ~state.done
  BY DEF Place, StepHold, StepPlace, Ready
<1>3. NoFill = [slot |-> SlotFromJit(start.slot), price |-> PriceFromJit(start.price)]
  BY <1>1 DEF NoFill, SlotFromJit, PriceFromJit, NoFillSlot, NoSlot
<1>4. /\ work'.cash = state.cash /\ work'.units = state.units /\ work'.fills = 0
      /\ work'.orders = placed
  <2>1. handed.side = action.side /\ handed.units = action.units
        /\ handed.limit = action.limit /\ KindOf(handed.type) = action.kind
    BY EncodeType
  <2>2. CASE StepHold(action)
    <3>1. placed = state.orders
      BY <2>1, <2>2 DEF StepHold, KernelPlace, Hold
    <3>. HIDE DEF placed
    <3>. QED BY <2>2, <3>1 DEF StepHold, WorkOn
  <2>3. CASE StepPlace(action)
    <3>1. PICK i \in SlotsFor(state.orders, action.side) :
            work' = [WorkOn(state) EXCEPT !.orders[i] = NewOrder(action, state.t)]
      BY <2>3 DEF StepPlace
    <3>2. KernelSlot(state.orders, action.side) # 0
      <4>1. ~KernelRefuses(state, handed) /\ action.side # 0
        BY <1>2, <2>3, RefusesAlike DEF StepPlace, Hold
      <4>. QED BY <1>2, <2>1, <4>1 DEF KernelRefuses
    <3>3. i = KernelSlot(state.orders, action.side)
      BY <3>1, <3>2, KernelSlotIsTheSlot
    <3>4. placed = [state.orders EXCEPT ![i] = NewOrder(action, state.t)]
      BY <2>1, <2>3, <3>3 DEF StepPlace, KernelPlace, NewOrder, Hold
    <3>. HIDE DEF placed
    <3>. QED BY <3>1, <3>4 DEF WorkOn
  <2>. QED BY <2>2, <2>3 DEF Place
<1>. HIDE DEF placed, start
<1>. QED
  BY <1>1, <1>3, <1>4 DEF Holds, start

\* At a slot the body of the loop does what the visit does.
LEMMA VisitAlike ==
  ASSUME TypeOK, AtSlot, NEW w \in KernelWork, NEW fill, Holds(w, work, fill), NEW draw \in Nat
  PROVE  LET order     == work.orders[cursor]
             bar       == market[state.t]
             requested == order.side * order.units * draw
             x         == ExecutionPrice(FillPrice(order, bar), requested)
             signed    == ClipUnits(BookOf(work), requested, x)
             book      == ExecuteTrade(BookOf(work), signed, x)
             after     == KernelVisit(w, cursor, state.t, draw)
         IN  /\ Waiting(order) => Holds(after, work, fill)
             /\ ~Waiting(order) /\ Triggers(order, bar) =>
                  Holds(after, [cash |-> book.cash, units |-> book.units,
                                orders |-> [work.orders EXCEPT ![cursor] = NoOrder],
                                fills |-> work.fills + 1],
                        [slot |-> cursor, price |-> x])
             /\ ~Waiting(order) /\ ~Triggers(order, bar) =>
                  Holds(after, [work EXCEPT !.orders[cursor] = Aged(order)], fill)
<1> DEFINE order     == work.orders[cursor]
           bar       == market[state.t]
           requested == order.side * order.units * draw
           price     == FillPrice(order, bar)
           x         == ExecutionPrice(price, requested)
           signed    == ClipUnits(BookOf(work), requested, x)
           book      == ExecuteTrade(BookOf(work), signed, x)
           after     == KernelVisit(w, cursor, state.t, draw)
           traded    == [cash |-> w.cash - (signed * x * Scale + Magnitude(signed) * x * FeeBps),
                         units |-> w.units + signed,
                         orders |-> [w.orders EXCEPT ![cursor] = NoOrder],
                         fills |-> w.fills + 1, slot |-> cursor - 1, price |-> x]
           expired    == [w EXCEPT !.orders[cursor] = Aged(order)]
<1>1. /\ w.cash = work.cash /\ w.units = work.units /\ w.orders = work.orders
      /\ w.fills = work.fills
      /\ fill = [slot |-> SlotFromJit(w.slot), price |-> PriceFromJit(w.price)]
  BY DEF Holds
<1>2. order \in Order /\ bar \in Bar
  BY CoreAssumption DEF TypeOK, AtSlot, WorkType, Orders, StateType
<1>3. price \in Nat
  BY <1>2 DEF FillPrice, Order, Bar
<1>4. requested \in Int
  <2>1. order.side \in Int /\ order.units \in Int
    BY <1>2 DEF Order, Buy, Sell, Hold
  <2>. HIDE DEF order
  <2>. QED BY <2>1
<1>5. x \in Nat /\ BookOf(work) \in Book /\ BookOf(work).cash = w.cash
      /\ BookOf(work).units = w.units
  <2>1. BookOf(work) \in Book
    BY BookOfType DEF TypeOK
  <2>2. x \in Nat
    <3>. HIDE DEF price, requested
    <3>. QED BY <1>3, <1>4, ExecutionPriceType
  <2>3. BookOf(work).cash = w.cash /\ BookOf(work).units = w.units
    BY <1>1 DEF BookOf
  <2>. QED BY <2>1, <2>2, <2>3
<1>6. signed = KernelClip(w.cash, w.units, requested, x)
  <2>. HIDE DEF x, requested
  <2>. QED BY <1>4, <1>5, KernelClipIsClipUnits
<1>7. after = IF Waiting(order) THEN w
              ELSE IF Triggers(order, bar) THEN traded ELSE expired
  <2>1. order.kind \in {"market", "limit"}
    BY <1>2 DEF Order, Kinds
  <2>2. price = IF order.kind = "market" THEN bar.open ELSE order.limit
    BY DEF FillPrice
  <2>3. x = IF requested > 0 THEN price * (Scale + SlippageBps)
                             ELSE price * (Scale - SlippageBps)
    BY DEF ExecutionPrice
  <2>4. Waiting(order) <=> ~order.active \/ state.t < order.eligible
    BY DEF Waiting
  <2>5. Triggers(order, bar) <=>
          \/ order.kind = "market"
          \/ order.side = 1 /\ bar.low <= order.limit
          \/ order.side = -1 /\ bar.high >= order.limit
    BY DEF Triggers, Buy, Sell
  <2>6. expired = [w EXCEPT !.orders[cursor] =
                    IF order.ttl - 1 <= 0 THEN NoOrder ELSE [order EXCEPT !.ttl = order.ttl - 1]]
    BY DEF Aged
  <2>7. w.orders[cursor] = order
    BY <1>1
  <2> DEFINE visited(o) ==
          LET b         == market[state.t]
              atLimit   == \/ o.side = 1 /\ b.low <= o.limit
                           \/ o.side = -1 /\ b.high >= o.limit
              filled    == o.kind = "market" \/ atLimit
              p         == IF o.kind = "market" THEN b.open ELSE o.limit
              q         == o.side * o.units * draw
              y         == IF q > 0 THEN p * (Scale + SlippageBps)
                                    ELSE p * (Scale - SlippageBps)
              clipped   == KernelClip(w.cash, w.units, q, y)
              fee       == Magnitude(clipped) * y * FeeBps
              ttl       == o.ttl - 1
          IN  IF ~o.active \/ state.t < o.eligible THEN w
              ELSE IF filled
                THEN [cash |-> w.cash - (clipped * y * Scale + fee),
                      units |-> w.units + clipped,
                      orders |-> [w.orders EXCEPT ![cursor] = NoOrder],
                      fills |-> w.fills + 1, slot |-> cursor - 1, price |-> y]
              ELSE [w EXCEPT !.orders[cursor] =
                      IF ttl <= 0 THEN NoOrder ELSE [o EXCEPT !.ttl = ttl]]
  <2>8. after = visited(order)
    <3>1. after = visited(w.orders[cursor])
      BY Zenon DEF KernelVisit
    <3>. HIDE DEF visited, after, order
    <3>. QED BY <2>7, <3>1
  <2>. HIDE DEF order, price, requested, x, signed, bar, traded, expired
  <2>. QED BY <1>6, <2>2, <2>3, <2>4, <2>5, <2>6, <2>8
       DEF traded, requested, bar
<1>8. /\ book.cash = w.cash - (signed * x * Scale + Magnitude(signed) * x * FeeBps)
      /\ book.units = w.units + signed
  <2>. HIDE DEF signed, x
  <2>. QED BY <1>5 DEF ExecuteTrade
<1>. HIDE DEF book, after, order, x, signed, bar
<1>9. Waiting(order) => Holds(after, work, fill)
  BY <1>7, Zenon
<1>10. ASSUME ~Waiting(order), Triggers(order, bar)
       PROVE  Holds(after, [cash |-> book.cash, units |-> book.units,
                            orders |-> [work.orders EXCEPT ![cursor] = NoOrder],
                            fills |-> work.fills + 1],
                    [slot |-> cursor, price |-> x])
  <2>1. after = traded
    BY <1>7, <1>10
  <2>2. cursor - 1 \in Nat /\ SlotFromJit(cursor - 1) = cursor
    BY DEF AtSlot, Slots, SlotFromJit
  <2>3. PriceFromJit(x) = x
    BY <1>5, KernelAssumption DEF PriceFromJit
  <2>. QED
    BY <1>1, <1>8, <2>1, <2>2, <2>3 DEF Holds
<1>11. ASSUME ~Waiting(order), ~Triggers(order, bar)
       PROVE  Holds(after, [work EXCEPT !.orders[cursor] = Aged(order)], fill)
  <2>1. after = expired
    BY <1>7, <1>11
  <2>2. work \in WorkType /\ w \in KernelWork
    BY DEF TypeOK
  <2>3. /\ expired.cash = w.cash /\ expired.units = w.units /\ expired.fills = w.fills
        /\ expired.slot = w.slot /\ expired.price = w.price
        /\ expired.orders = [w.orders EXCEPT ![cursor] = Aged(order)]
    BY <2>2 DEF KernelWork
  <2>. QED
    BY <1>1, <2>1, <2>2, <2>3 DEF Holds, WorkType
<1>. QED
  BY <1>9, <1>10, <1>11 DEF book, after, order, x, signed, bar

\* One visit further: for draws that begin with the given ones, the kernel visits
\* the slot with what the engine holds.
LEMMA NextSlot ==
  ASSUME TypeOK, AtSlot, NEW action \in Actions, ~state.done, ~Refused(state.orders, action),
         NEW given, HoldsBelow(cursor, state, action, given, work, last),
         NEW draws \in [Slots -> Nat], \A i \in Slots : i < cursor => draws[i] = given[i]
  PROVE  \E w \in KernelWork :
           /\ Holds(w, work, last)
           /\ KernelAfter(state, Encode(action), draws)[cursor]
                = KernelVisit(w, cursor, state.t, draws[cursor])
<1> DEFINE w == KernelAfter(state, Encode(action), draws)[cursor - 1]
<1>1. cursor \in Slots /\ cursor - 1 \in 0 .. MaxOrders
  BY CoreAssumption DEF AtSlot, Slots
<1>2. Holds(w, work, last)
  BY DEF HoldsBelow
<1>3. w \in KernelWork
  <2>1. state \in KernelState /\ market \in Markets
    BY EngineStateIsKernelState DEF TypeOK
  <2>2. Encode(action) \in CodedRow /\ ~KernelRefuses(state, Encode(action))
    BY EncodeType, RefusesAlike
  <2>3. KernelPlace(state, Encode(action)) \in KernelOrders
    BY <2>1, <2>2, KernelPlaceType
  <2>. QED BY <1>1, <2>1, <2>2, <2>3, KernelAfterType
<1>4. KernelAfter(state, Encode(action), draws)[cursor]
        = KernelVisit(w, cursor, state.t, draws[cursor])
  BY <1>1, LoopSteps
<1>. HIDE DEF w
<1>. QED
  BY <1>2, <1>3, <1>4

\* A step leaves the market alone, and with it what the kernel makes of it.
LEMMA VisitStands ==
  ASSUME market' = market, NEW CONSTANT w, NEW CONSTANT i, NEW CONSTANT t, NEW CONSTANT draw
  PROVE  KernelVisit(w, i, t, draw)' = KernelVisit(w, i, t, draw)
BY DEF KernelVisit

\* So does the loop: it is the same before the step and after it.
LEMMA AfterStands ==
  ASSUME market' = market, NEW CONSTANT s, NEW CONSTANT handed, NEW CONSTANT draws
  PROVE  KernelAfter(s, handed, draws)' = KernelAfter(s, handed, draws)
BY VisitStands, SMT DEF KernelAfter

\* What holds below a slot holds there after the step as well.
LEMMA HoldsStands ==
  ASSUME market' = market, NEW CONSTANT k, NEW CONSTANT s, NEW CONSTANT action,
         NEW CONSTANT given, NEW CONSTANT v, NEW CONSTANT fill,
         HoldsBelow(k, s, action, given, v, fill)
  PROVE  HoldsBelow(k, s, action, given, v, fill)'
<1>. SUFFICES ASSUME NEW CONSTANT draws \in [Slots -> Nat],
                     \A i \in Slots : i < k => draws[i] = given[i]
              PROVE  Holds(KernelAfter(s, Encode(action), draws)[k - 1], v, fill)'
  BY DEF HoldsBelow
<1>1. Holds(KernelAfter(s, Encode(action), draws)[k - 1], v, fill)
  BY DEF HoldsBelow
<1>2. KernelAfter(s, Encode(action), draws)' = KernelAfter(s, Encode(action), draws)
  BY AfterStands
<1>. QED
  BY <1>1, <1>2 DEF Holds

\* A slot the step has come to is in step once the loop is where the engine is.
LEMMA InStepNext ==
  ASSUME market' = market, state' = state, ~state.done, cursor' # Idle,
         fed'.action \in Actions, ~Refused(state.orders, fed'.action),
         fed' = [action |-> fed'.action, draws |-> fed'.draws],
         fed'.draws \in [Slots -> Nat],
         HoldsBelow(cursor', state, fed'.action, fed'.draws, work', last')
  PROVE  InStep'
<1>1. PICK k, s, action, given, v, fill :
        /\ k = cursor' /\ s = state' /\ v = work' /\ fill = last'
        /\ action = fed'.action /\ given = fed'.draws
  OBVIOUS
<1>2. HoldsBelow(k, s, action, given, v, fill)
  BY <1>1
<1>3. HoldsBelow(k, s, action, given, v, fill)'
  BY <1>2, HoldsStands
<1>4. HoldsBelow(cursor, state, fed.action, fed.draws, work, last)'
  BY <1>1, <1>3
<1>. QED
  BY <1>4 DEF InStep

\* Every step of the Python path keeps the two in step.
LEMMA InStepKept == TypeOK /\ InStep /\ ParityNext => InStep'
<1>. SUFFICES ASSUME TypeOK, InStep, ParityNext PROVE InStep'
  OBVIOUS
<1>0. Idle \notin Slots /\ Past \notin Slots /\ Past # Idle /\ cursor \in Idle .. Past
      /\ \A i \in Slots : i \in Int /\ i + 1 # Idle
  BY CoreAssumption DEF Idle, Past, Slots, TypeOK
<1>a. cursor # Idle =>
        /\ ~state.done /\ fed.action \in Actions /\ ~Refused(state.orders, fed.action)
        /\ fed = [action |-> fed.action, draws |-> fed.draws]
        /\ fed.draws \in [Slots -> Nat]
        /\ HoldsBelow(cursor, state, fed.action, fed.draws, work, last)
  BY DEF InStep
<1>1. ASSUME NEW action \in Actions, Place(action), fed' = Fed(action), last' = last
      PROVE  InStep'
  <2>1. /\ cursor = Idle /\ cursor' = 1 /\ state' = state /\ ~state.done
        /\ ~Refused(state.orders, action)
    BY <1>1 DEF Place, StepHold, StepPlace, Ready, Idle, Refused, NoCapacity
  <2>2. last' = NoFill
    BY <1>1, <2>1 DEF InStep
  <2>3. fed' = [action |-> action, draws |-> NoDraws] /\ NoDraws \in [Slots -> Nat]
    BY <1>1 DEF Fed, NoDraws
  <2>4. fed'.action = action /\ fed'.draws = NoDraws
    BY <2>3
  <2>5. Holds(KernelStart(state, Encode(action)), work', NoFill)
    BY <1>1, StartAlike
  <2>6. HoldsBelow(1, state, action, NoDraws, work', NoFill)
    <3>1. \A draws : KernelAfter(state, Encode(action), draws)[1 - 1]
                       = KernelStart(state, Encode(action))
      BY LoopSteps
    <3>. QED BY <2>5, <3>1 DEF HoldsBelow
  <2>7. market' = market /\ cursor' # Idle
    BY <1>1, <2>1 DEF Place, StepHold, StepPlace, Idle
  <2>8. /\ fed' = [action |-> fed'.action, draws |-> fed'.draws] /\ fed'.draws \in [Slots -> Nat]
        /\ HoldsBelow(cursor', state, fed'.action, fed'.draws, work', last')
    BY <2>1, <2>2, <2>3, <2>4, <2>6
  <2>. HIDE DEF NoDraws
  <2>. QED
    BY <2>1, <2>4, <2>7, <2>8, InStepNext
<1>2. ASSUME NEW draw \in Draws, VisitFill(draw), fed' = [fed EXCEPT !.draws[cursor] = draw],
             last' = VisitedFill(work.orders[cursor], market[state.t], draw)
      PROVE  InStep'
  <2> DEFINE order     == work.orders[cursor]
             bar       == market[state.t]
             requested == order.side * order.units * draw
             x         == ExecutionPrice(FillPrice(order, bar), requested)
             signed    == ClipUnits(BookOf(work), requested, x)
             book      == ExecuteTrade(BookOf(work), signed, x)
             next      == [fed.draws EXCEPT ![cursor] = draw]
  <2>1. /\ AtSlot /\ ~Waiting(order) /\ Triggers(order, bar)
        /\ work' = [cash |-> book.cash, units |-> book.units,
                    orders |-> [work.orders EXCEPT ![cursor] = NoOrder],
                    fills |-> work.fills + 1]
        /\ cursor' = cursor + 1 /\ state' = state
    BY <1>2, Zenon DEF VisitFill
  <2>2. last' = [slot |-> cursor, price |-> x]
    BY <1>2, Zenon DEF VisitedFill
  <2>3. cursor \in Slots /\ cursor # Idle /\ cursor' # Idle
    BY <1>0, <2>1 DEF AtSlot
  <2>4. draw \in Nat
    BY CoreAssumption
  <2>5. fed' = [action |-> fed.action, draws |-> next]
    BY <1>2, <1>a, <2>3
  <2>6. fed'.action = fed.action /\ fed'.draws = next /\ next \in [Slots -> Nat]
    BY <1>a, <2>3, <2>4, <2>5
  <2>. HIDE DEF order, bar, x, book
  <2>7. ASSUME NEW draws \in [Slots -> Nat], \A i \in Slots : i < cursor + 1 => draws[i] = next[i]
        PROVE  Holds(KernelAfter(state, Encode(fed.action), draws)[cursor], work', last')
    <3>1. draws[cursor] = draw /\ \A i \in Slots : i < cursor => draws[i] = fed.draws[i]
      BY <1>0, <1>a, <2>3, <2>4, <2>7
    <3>2. PICK w \in KernelWork :
            /\ Holds(w, work, last)
            /\ KernelAfter(state, Encode(fed.action), draws)[cursor]
                 = KernelVisit(w, cursor, state.t, draw)
      BY <1>a, <2>1, <2>3, <3>1, NextSlot
    <3>3. Holds(KernelVisit(w, cursor, state.t, draw), work', last')
      BY <2>1, <2>2, <2>4, <3>2, VisitAlike DEF order, bar, x, book
    <3>. QED BY <3>2, <3>3
  <2>8. HoldsBelow(cursor + 1, state, fed.action, next, work', last')
    <3>1. (cursor + 1) - 1 = cursor
      BY <1>0, <2>3
    <3>. HIDE DEF next
    <3>. QED BY <2>7, <3>1 DEF HoldsBelow
  <2>. HIDE DEF next
  <2>9. market' = market
    BY <1>2, Zenon DEF VisitFill
  <2>10. /\ fed' = [action |-> fed'.action, draws |-> fed'.draws]
         /\ HoldsBelow(cursor', state, fed'.action, fed'.draws, work', last')
    BY <2>1, <2>5, <2>6, <2>8
  <2>. QED
    BY <1>a, <2>1, <2>3, <2>6, <2>9, <2>10, InStepNext
<1>3. ASSUME VisitWaiting \/ VisitMiss, last' = last, fed' = fed PROVE InStep'
  <2> DEFINE order == work.orders[cursor]
  <2>1. AtSlot /\ cursor' = cursor + 1 /\ state' = state
    BY <1>3 DEF VisitWaiting, VisitMiss
  <2>2. cursor \in Slots /\ cursor # Idle /\ cursor' # Idle
    BY <1>0, <2>1 DEF AtSlot
  <2>3. \/ Waiting(order) /\ work' = work
        \/ /\ ~Waiting(order) /\ ~Triggers(order, market[state.t])
           /\ work' = [work EXCEPT !.orders[cursor] = Aged(order)]
    BY <1>3 DEF VisitWaiting, VisitMiss
  <2>. HIDE DEF order
  <2>4. ASSUME NEW draws \in [Slots -> Nat], \A i \in Slots : i < cursor + 1 => draws[i] = fed.draws[i]
        PROVE  Holds(KernelAfter(state, Encode(fed.action), draws)[cursor], work', last)
    <3>1. draws[cursor] \in Nat /\ \A i \in Slots : i < cursor => draws[i] = fed.draws[i]
      BY <1>0, <2>2, <2>4
    <3>2. PICK w \in KernelWork :
            /\ Holds(w, work, last)
            /\ KernelAfter(state, Encode(fed.action), draws)[cursor]
                 = KernelVisit(w, cursor, state.t, draws[cursor])
      BY <1>a, <2>1, <2>2, <3>1, NextSlot
    <3>3. Holds(KernelVisit(w, cursor, state.t, draws[cursor]), work', last)
      BY <2>1, <2>3, <3>1, <3>2, VisitAlike DEF order
    <3>. QED BY <3>2, <3>3
  <2>5. HoldsBelow(cursor + 1, state, fed.action, fed.draws, work', last)
    <3>1. (cursor + 1) - 1 = cursor
      BY <1>0, <2>2
    <3>. QED BY <2>4, <3>1 DEF HoldsBelow
  <2>6. market' = market
    BY <1>3 DEF VisitWaiting, VisitMiss
  <2>7. HoldsBelow(cursor', state, fed'.action, fed'.draws, work', last')
    BY <1>3, <2>1, <2>5
  <2>8. fed' = [action |-> fed'.action, draws |-> fed'.draws]
    BY <1>3, <1>a, <2>2
  <2>. QED
    BY <1>3, <1>a, <2>1, <2>2, <2>6, <2>7, <2>8, InStepNext
<1>4. ASSUME \/ \E start \in Bars : Reset(start)
             \/ StepWhenDone
             \/ \E action \in Actions : StepRefused(action),
             last' = last
      PROVE  InStep'
  BY <1>4 DEF InStep, Reset, StepWhenDone, StepRefused, Ready
<1>5. ASSUME StepFinish, last' = NoFill PROVE InStep'
  BY <1>5 DEF InStep, StepFinish
<1>. QED
  BY <1>1, <1>2, <1>3, <1>4, <1>5 DEF ParityNext

\* When the step publishes, the kernel gives the same for the same.
LEMMA FinishAlike ==
  ASSUME TypeOK, InStep, StepFinish
  PROVE  LET step == KernelStep(state, Encode(fed.action), fed.draws)
         IN  /\ step.state = state'
             /\ step.fills = out'.fills
             /\ step.delta = out'.delta
             /\ step.last = last
<1> DEFINE handed == Encode(fed.action)
           looped == KernelLoop(state, handed, fed.draws)
           step   == KernelStep(state, handed, fed.draws)
           here   == market[state.t].close
           there  == market[NextBar(state.t)].close
           first  == Settle(BookOf(work), here)
           second == Settle(first, there)
<1>1. cursor = Past /\ cursor # Idle /\ cursor - 1 = MaxOrders
  BY CoreAssumption DEF StepFinish, Past, Idle
<1>2. /\ ~state.done /\ fed.action \in Actions /\ ~Refused(state.orders, fed.action)
      /\ fed.draws \in [Slots -> Nat]
      /\ HoldsBelow(cursor, state, fed.action, fed.draws, work, last)
  BY <1>1 DEF InStep
<1>3. state \in KernelState /\ market \in Markets
  BY EngineStateIsKernelState DEF TypeOK
<1>4. handed \in CodedRow /\ ~KernelRefuses(state, handed)
  BY <1>2, EncodeType, RefusesAlike
<1>5. looped \in KernelWork
  BY <1>2, <1>3, <1>4, KernelLoopType
<1>6. Holds(looped, work, last)
  BY <1>1, <1>2 DEF HoldsBelow, KernelLoop
<1>. HIDE DEF looped, handed
<1>7. PICK book \in Book, filled \in Book, marked \in Book :
        Outcome(state, step, looped, book, filled, marked)
  BY <1>2, <1>3, <1>5, KernelStepUnfolds DEF looped
<1>. HIDE DEF step
<1>8. /\ here \in Nat /\ there \in Nat
      /\ book = BookOf(looped) /\ filled = Settle(book, here) /\ marked = Settle(filled, there)
      /\ step.state = [t |-> NextBar(state.t),
                       done |-> \/ AtLastBar(NextBar(state.t))
                                \/ ForcesClose(book, here)
                                \/ ForcesClose(filled, there),
                       cash |-> marked.cash, units |-> marked.units,
                       orders |-> looped.orders]
      /\ step.fills = looped.fills
      /\ step.delta = KernelDelta(state, here, marked, there)
      /\ step.last = [slot |-> SlotFromJit(looped.slot), price |-> PriceFromJit(looped.price)]
  BY <1>7, Zenon DEF Outcome
<1>9. book = BookOf(work) /\ looped.orders = work.orders /\ looped.fills = work.fills
  BY <1>6, <1>8 DEF Holds, BookOf
<1>10. filled = first /\ marked = second
  BY <1>8, <1>9
<1>11. /\ state' = [t |-> NextBar(state.t),
                    done |-> \/ AtLastBar(NextBar(state.t))
                             \/ ForcesClose(BookOf(work), here)
                             \/ ForcesClose(first, there),
                    cash |-> second.cash, units |-> second.units,
                    orders |-> work.orders]
       /\ out' = [raised |-> FALSE, fills |-> work.fills,
                  delta |-> Equity(second, there) - EquityBefore]
  BY Zenon DEF StepFinish
<1>. HIDE DEF first, second, here, there
<1>12. step.state = state'
  BY <1>8, <1>9, <1>10, <1>11, Zenon
<1>13. KernelDelta(state, here, marked, there) = Equity(second, there) - EquityBefore
  <2>1. \A b \in Book, price \in Nat :
          b.cash + b.units * price * Scale * Scale = Equity(b, price)
    <3>. SUFFICES ASSUME NEW b \in Book, NEW price \in Nat
                  PROVE  b.cash + b.units * price * Scale * Scale = Equity(b, price)
      OBVIOUS
    <3>1. b.cash \in Int /\ b.units \in Int /\ Scale \in Int
      BY MarginAssumption DEF Book
    <3>2. b.units * (price * Scale) = b.units * price * Scale
      BY <3>1
    <3>. QED BY <3>1, <3>2 DEF Equity, EquityAt
  <2>2. BookOf(state) \in Book /\ BookOf(state).cash = state.cash
        /\ BookOf(state).units = state.units
    <3>1. BookOf(state) \in Book
      BY BookOfType DEF TypeOK
    <3>. QED BY <3>1 DEF BookOf
  <2>3. EquityBefore = Equity(BookOf(state), here)
    BY DEF EquityBefore, here
  <2>4. /\ marked.cash + marked.units * there * Scale * Scale = Equity(second, there)
        /\ state.cash + state.units * here * Scale * Scale = EquityBefore
    BY <1>8, <1>10, <2>1, <2>2, <2>3
  <2>. QED BY <2>4 DEF KernelDelta
<1>14. step.fills = out'.fills /\ step.delta = out'.delta
  BY <1>8, <1>9, <1>11, <1>13, Zenon
<1>15. step.last = last
  BY <1>6, <1>8, Zenon DEF Holds
<1>. QED
  BY <1>12, <1>14, <1>15 DEF step, handed

\* KernelAgrees: "the two bodies must stay identical" - for every configuration,
\* market, action and draws, the compiled kernel publishes, counts, tells and
\* rewards what the step of the Python path does.
THEOREM KernelAgreesHolds == PathsSpec => KernelAgrees
<1> DEFINE Inv == PathsInv /\ (~useNumba => InStep)
<1>1. PathsInit => Inv
  <2>1. PathsInit => PathsInv
    BY PathsInvInit
  <2>2. PathsInit => InStep
    BY DEF PathsInit, ReportInit, Init, InStep
  <2>. QED BY <2>1, <2>2
<1>2. Inv /\ [PathsNext]_pvars => Inv'
  <2>. SUFFICES ASSUME Inv, [PathsNext]_pvars PROVE Inv'
    OBVIOUS
  <2>1. PathsInv'
    BY PathsInvStep
  <2>2. CASE UNCHANGED pvars
    <3>1. /\ market' = market /\ state' = state /\ work' = work /\ cursor' = cursor
          /\ last' = last /\ fed' = fed /\ useNumba' = useNumba
      BY <2>2 DEF pvars, reportVars, vars
    <3>2. ASSUME InStep PROVE InStep'
      <4>1. CASE cursor = Idle
        BY <3>1, <3>2, <4>1 DEF InStep
      <4>2. CASE cursor # Idle
        <5>1. /\ ~state.done /\ fed.action \in Actions /\ ~Refused(state.orders, fed.action)
              /\ fed = [action |-> fed.action, draws |-> fed.draws]
              /\ fed.draws \in [Slots -> Nat]
              /\ HoldsBelow(cursor, state, fed.action, fed.draws, work, last)
          BY <3>2, <4>2 DEF InStep
        <5>2. HoldsBelow(cursor', state, fed'.action, fed'.draws, work', last')
          BY <3>1, <5>1
        <5>3. fed' = [action |-> fed'.action, draws |-> fed'.draws]
          BY <3>1, <5>1
        <5>. QED BY <3>1, <4>2, <5>1, <5>2, <5>3, InStepNext
      <4>. QED BY <4>1, <4>2
    <3>. QED BY <2>1, <3>1, <3>2
  <2>3. CASE ~useNumba /\ ParityNext /\ UNCHANGED useNumba
    BY <2>1, <2>3, InStepKept DEF PathsInv
  <2>4. CASE useNumba /\ KernelNext /\ UNCHANGED useNumba
    BY <2>1, <2>4
  <2>. QED BY <2>2, <2>3, <2>4 DEF PathsNext
<1>3. Inv /\ [PathsNext]_pvars =>
        [cursor = Past /\ cursor' = Idle =>
           LET step == KernelStep(state, Encode(fed.action), fed.draws)
           IN  /\ step.state = state'
               /\ step.fills = out'.fills
               /\ step.delta = out'.delta
               /\ step.last = last]_pvars
  <2>. SUFFICES ASSUME Inv, PathsNext, cursor = Past, cursor' = Idle
                PROVE  LET step == KernelStep(state, Encode(fed.action), fed.draws)
                       IN  /\ step.state = state'
                           /\ step.fills = out'.fills
                           /\ step.delta = out'.delta
                           /\ step.last = last
    OBVIOUS
  <2>0. Past # Idle /\ Past \notin Slots
    BY CoreAssumption DEF Past, Idle, Slots
  <2>1. ~useNumba /\ ParityNext
    BY <2>0 DEF PathsNext, PathsInv
  <2>2. StepFinish
    BY <2>0, <2>1 DEF ParityNext, Place, StepHold, StepPlace, Ready, VisitFill, AtSlot,
                      Reset, StepWhenDone, StepRefused, VisitWaiting, VisitMiss
  <2>. QED
    BY <2>1, <2>2, FinishAlike DEF PathsInv
<1>. QED
  BY <1>1, <1>2, <1>3, PTL DEF PathsSpec, KernelAgrees
=============================================================================
