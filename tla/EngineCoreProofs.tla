-------------------------- MODULE EngineCoreProofs --------------------------
(***************************************************************************)
(* Theorems about the engine, for every configuration, every bar series    *)
(* and every sequence of actions and resets.                               *)
(***************************************************************************)
EXTENDS EngineCore, TLAPS, WellFoundedInduction

-----------------------------------------------------------------------------
(***************************************************************************)
(* The margin arithmetic.                                                  *)
(***************************************************************************)
\* Types.
LEMMA MagnitudeType == ASSUME NEW x \in Int PROVE Magnitude(x) \in Nat
BY DEF Magnitude

\* The cap used in the clip is never negative.
LEMMA CapType == Cap \in Nat
BY MarginAssumption DEF Cap

\* Equity marked at an execution price is an integer.
LEMMA EquityAtType ==
  ASSUME NEW book \in Book, NEW x \in Int
  PROVE  EquityAt(book, x) \in Int
<1>1. book.cash \in Int /\ book.units \in Int
  BY DEF Book
<1>2. book.units * x * Scale \in Int
  BY <1>1, MarginAssumption
<1>. QED
  BY <1>1, <1>2 DEF EquityAt

\* Equity marked at a market price is an integer.
LEMMA EquityType ==
  ASSUME NEW book \in Book, NEW price \in Nat
  PROVE  Equity(book, price) \in Int
<1>1. price * Scale \in Int
  BY MarginAssumption
<1>. QED
  BY <1>1, EquityAtType DEF Equity

\* A slipped price is a natural number, slippage being at most the whole price.
LEMMA ExecutionPriceType ==
  ASSUME NEW price \in Nat, NEW requested \in Int
  PROVE  ExecutionPrice(price, requested) \in Nat
<1>1. Scale + SlippageBps \in Nat /\ Scale - SlippageBps \in Nat
  BY MarginAssumption
<1>2. \A f \in Nat : price * f \in Nat
  OBVIOUS
<1>. QED
  BY <1>1, <1>2 DEF ExecutionPrice

\* A trade takes a book to a book.
LEMMA ExecuteTradeType ==
  ASSUME NEW book \in Book, NEW signed \in Int, NEW x \in Nat
  PROVE  ExecuteTrade(book, signed, x) \in Book
<1>1. book.cash \in Int /\ book.units \in Int
  BY DEF Book
<1>2. signed * x * Scale \in Int
  BY MarginAssumption
<1>3. Magnitude(signed) * x * FeeBps \in Int
  BY MagnitudeType, MarginAssumption
<1>. QED
  BY <1>1, <1>2, <1>3 DEF ExecuteTrade, Book

-----------------------------------------------------------------------------
\* The one quotient of the arithmetic, rounded down.
LEMMA FloorBelow ==
  ASSUME NEW a \in Int, NEW d \in Nat \ {0}
  PROVE  (a \div d) \in Int /\ (a \div d) * d <= a
OBVIOUS

\* The clip's divisor is positive at a positive price.
LEMMA UnitMarginType ==
  ASSUME NEW x \in Nat \ {0} PROVE UnitMargin(x) \in Nat \ {0}
<1>1. Scale + Cap * FeeBps \in Nat \ {0}
  <2>1. Cap * FeeBps \in Nat
    BY CapType, MarginAssumption
  <2>. QED
    BY <2>1, MarginAssumption
<1>2. \A f \in Nat \ {0} : x * f \in Nat \ {0}
  OBVIOUS
<1>. QED
  BY <1>1, <1>2 DEF UnitMargin

\* The clip's dividend is an integer.
LEMMA HeadroomType ==
  ASSUME NEW book \in Book, NEW signed \in Int, NEW x \in Nat
  PROVE  Headroom(book, signed, x) \in Int
<1>1. book.units \in Int
  BY DEF Book
<1>2. Cap * EquityAt(book, x) \in Int
  BY CapType, EquityAtType
<1>3. Direction(signed) * book.units * x * Scale \in Int
  BY <1>1, MarginAssumption DEF Direction
<1>. QED
  BY <1>2, <1>3 DEF Headroom

\* A clipped size is an integer.
LEMMA ClipUnitsType ==
  ASSUME NEW book \in Book, NEW signed \in Int, NEW x \in Nat
  PROVE  ClipUnits(book, signed, x) \in Int
<1>1. CASE x <= 0
  BY <1>1 DEF ClipUnits
<1>2. CASE x > 0
  <2>1. Headroom(book, signed, x) \div UnitMargin(x) \in Int
    BY <1>2, HeadroomType, UnitMarginType, FloorBelow
  <2>. QED
    BY <2>1, MagnitudeType DEF ClipUnits, Direction
<1>. QED
  BY <1>1, <1>2

\* A clip only shrinks, and never turns an order round.
LEMMA ClipShrinks ==
  ASSUME NEW book \in Book, NEW signed \in Int, NEW x \in Nat
  PROVE  /\ signed >= 0 => ClipUnits(book, signed, x) \in 0 .. signed
         /\ signed <= 0 => -ClipUnits(book, signed, x) \in 0 .. -signed
<1>1. CASE x <= 0
  BY <1>1 DEF ClipUnits
<1>2. CASE x > 0
  <2>1. Headroom(book, signed, x) \div UnitMargin(x) \in Int
    BY <1>2, HeadroomType, UnitMarginType, FloorBelow
  <2>2. signed = 0 => DeRisks(book, signed)
    BY DEF DeRisks, Magnitude, Book
  <2>. QED
    BY <2>1, <2>2 DEF ClipUnits, Direction, Magnitude
<1>. QED
  BY <1>1, <1>2

-----------------------------------------------------------------------------
\* Marked at its own price, a trade changes the equity by its fee and by
\* nothing else.
LEMMA EquityAfterTrade ==
  ASSUME NEW book \in Book, NEW signed \in Int, NEW x \in Nat
  PROVE  EquityAt(ExecuteTrade(book, signed, x), x)
           = EquityAt(book, x) - Magnitude(signed) * x * FeeBps
<1>1. book.cash \in Int /\ book.units \in Int /\ Scale \in Int
  BY MarginAssumption DEF Book
<1>2. Magnitude(signed) * x * FeeBps \in Int
  BY MagnitudeType, MarginAssumption
<1>3. (book.units + signed) * x * Scale
        = book.units * x * Scale + signed * x * Scale
  BY <1>1
<1>4. book.units * x * Scale \in Int /\ signed * x * Scale \in Int
  BY <1>1
<1>. QED
  BY <1>1, <1>2, <1>3, <1>4 DEF ExecuteTrade, EquityAt

\* Multiplication by a natural number is monotone; the solvers need it spelled out.
LEMMA NatTimesMonotone ==
  ASSUME NEW a \in Int, NEW b \in Int, a <= b, NEW c \in Nat
  PROVE  a * c <= b * c
OBVIOUS

\* A size within the quotient leaves the side it grows within the cap.
LEMMA AllowedSizeIsWithinCap ==
  ASSUME NEW book \in Book, NEW signed \in Int, NEW x \in Nat \ {0}, NEW m \in Nat,
         m <= Headroom(book, signed, x) \div UnitMargin(x)
  PROVE  (Direction(signed) * book.units + m) * x * Scale
           <= Cap * (EquityAt(book, x) - m * x * FeeBps)
<1> DEFINE h == Headroom(book, signed, x)
           g == UnitMargin(x)
           q == h \div g
           du == Direction(signed) * book.units
           eq == EquityAt(book, x)
<1>1. /\ h \in Int /\ g \in Nat \ {0} /\ q \in Int /\ q * g <= h
      /\ eq \in Int /\ du \in Int /\ Cap \in Nat /\ Scale \in Nat /\ FeeBps \in Nat
  <2>1. h \in Int /\ g \in Nat \ {0}
    BY HeadroomType, UnitMarginType
  <2>2. q \in Int /\ q * g <= h
    <3>. HIDE DEF h, g
    <3>. QED
      BY <2>1, FloorBelow
  <2>3. eq \in Int /\ du \in Int
    BY EquityAtType DEF Direction, Book
  <2>. QED
    BY <2>1, <2>2, <2>3, CapType, MarginAssumption
<1>2. m * g <= h
  <2>1. m * g <= q * g
    BY <1>1, NatTimesMonotone
  <2>. QED
    BY <1>1, <2>1
<1>3. h = Cap * eq - du * x * Scale
  BY DEF Headroom
<1>4. m * g = m * x * Scale + Cap * (m * x * FeeBps)
  <2>1. g = x * (Scale + Cap * FeeBps)
    BY DEF UnitMargin
  <2>. HIDE DEF g
  <2>2. m * (x * (Scale + Cap * FeeBps)) = m * x * Scale + Cap * (m * x * FeeBps)
    BY <1>1
  <2>. QED
    BY <2>1, <2>2
<1>. HIDE DEF h, g, q, du, eq
<1>5. (du + m) * x * Scale = du * x * Scale + m * x * Scale
  BY <1>1
<1>6. Cap * (eq - m * x * FeeBps) = Cap * eq - Cap * (m * x * FeeBps)
  BY <1>1
<1>7. /\ du * x * Scale \in Int /\ m * x * Scale \in Int
      /\ Cap * eq \in Int /\ Cap * (m * x * FeeBps) \in Int
  BY <1>1
<1>8. (du + m) * x * Scale <= Cap * (eq - m * x * FeeBps)
  BY <1>2, <1>3, <1>4, <1>5, <1>6, <1>7
<1>. QED
  BY <1>8 DEF du, eq

\* What the clip is for: a fill either does not grow the position or leaves
\* it within the initial margin, at its price and after its fee.
THEOREM ClipHonoursCap ==
  ASSUME NEW book \in Book, NEW signed \in Int, NEW x \in Nat \ {0}
  PROVE  LET after == ExecuteTrade(book, ClipUnits(book, signed, x), x)
         IN  \/ Magnitude(after.units) <= Magnitude(book.units)
             \/ Magnitude(after.units) * x * Scale <= Cap * EquityAt(after, x)
<1> DEFINE a == ClipUnits(book, signed, x)
           after == ExecuteTrade(book, a, x)
           whole == ExecuteTrade(book, signed, x)
           q == Headroom(book, signed, x) \div UnitMargin(x)
<1>1. /\ book.units \in Int /\ a \in Int /\ q \in Int
      /\ after \in Book /\ whole \in Book
      /\ after.units = book.units + a
  BY ClipUnitsType, ExecuteTradeType, HeadroomType, UnitMarginType, FloorBelow
     DEF Book, ExecuteTrade
<1>2. CASE DeRisks(book, signed)
  <2>1. a = signed
    BY <1>2 DEF ClipUnits
  <2>. QED
    BY <1>1, <1>2, <2>1 DEF DeRisks
<1>3. CASE EquityAt(whole, x) > 0 /\ WithinCap(whole, x)
  <2>1. a = signed
    BY <1>3 DEF ClipUnits
  <2>2. EquityAt(whole, x) \in Nat
    BY <1>1, <1>3, EquityAtType
  <2>3. MaxLeverage * EquityAt(whole, x) <= Cap * EquityAt(whole, x)
    BY <2>2, NatTimesMonotone, MarginAssumption DEF Cap
  <2>4. Magnitude(whole.units) * x * Scale \in Int
    BY <1>1, MagnitudeType, MarginAssumption DEF Book
  <2>5. /\ MaxLeverage * EquityAt(whole, x) \in Int
        /\ Cap * EquityAt(whole, x) \in Int
    BY <2>2, CapType, MarginAssumption
  <2>. HIDE DEF whole
  <2>6. Magnitude(whole.units) * x * Scale <= MaxLeverage * EquityAt(whole, x)
    BY <1>3 DEF WithinCap
  <2>7. Magnitude(whole.units) * x * Scale <= Cap * EquityAt(whole, x)
    BY <2>3, <2>4, <2>5, <2>6
  <2>. QED
    BY <2>1, <2>7 DEF whole
<1>4. CASE /\ ~DeRisks(book, signed)
           /\ ~(EquityAt(whole, x) > 0 /\ WithinCap(whole, x))
           /\ q <= 0
  <2>1. a = 0
    BY <1>4 DEF ClipUnits
  <2>2. Magnitude(after.units) <= Magnitude(book.units)
    <3>. HIDE DEF a
    <3>1. after.units = book.units
      BY <1>1, <2>1
    <3>2. Magnitude(book.units) \in Nat
      BY <1>1, MagnitudeType
    <3>. QED
      BY <3>1, <3>2
  <2>. QED
    BY <2>2
<1>5. CASE /\ ~DeRisks(book, signed)
           /\ ~(EquityAt(whole, x) > 0 /\ WithinCap(whole, x))
           /\ q > 0
  <2> DEFINE m == IF q < Magnitude(signed) THEN q ELSE Magnitude(signed)
             d == Direction(signed)
  <2>1. m \in Nat /\ m <= q
    BY <1>1, <1>5, MagnitudeType
  <2>2. a = d * m
    BY <1>1, <1>5, MagnitudeType DEF ClipUnits, Direction
  <2>3. d \in {1, -1}
    BY DEF Direction
  <2>4. (d * book.units + m) * x * Scale <= Cap * (EquityAt(book, x) - m * x * FeeBps)
    BY <2>1, AllowedSizeIsWithinCap
  <2> DEFINE good == \/ Magnitude(after.units) <= Magnitude(book.units)
                     \/ Magnitude(after.units) * x * Scale <= Cap * EquityAt(after, x)
  <2>. HIDE DEF m, d, a, q
  <2>5. Magnitude(a) = m
    BY <2>1, <2>2, <2>3 DEF Magnitude
  <2>6. EquityAt(after, x) = EquityAt(book, x) - m * x * FeeBps
    BY <1>1, <2>5, EquityAfterTrade
  <2>7. CASE d * book.units + m >= 0
    <3>1. Magnitude(after.units) = d * book.units + m
      BY <1>1, <2>1, <2>2, <2>3, <2>7 DEF Magnitude
    <3>2. good
      BY <2>4, <2>6, <3>1
    <3>. QED
      BY <3>2 DEF a
  <2>8. CASE d * book.units + m < 0
    <3>1. Magnitude(book.units + a) <= Magnitude(book.units)
      BY <1>1, <2>1, <2>2, <2>3, <2>8 DEF Magnitude
    <3>. QED
      BY <1>1, <3>1 DEF a
  <2>9. d * book.units + m \in Int
    BY <1>1, <2>1, <2>3
  <2>. QED
    BY <2>7, <2>8, <2>9
<1>. QED
  BY <1>1, <1>2, <1>3, <1>4, <1>5

\* Slippage and fee: marked at the price it triggered at, a fill in the
\* direction requested never raises the equity.
THEOREM TradeOnlyCosts ==
  ASSUME NEW book \in Book, NEW price \in Nat, NEW requested \in Int,
         NEW signed \in Int,
         requested >= 0 => signed \in 0 .. requested,
         requested <= 0 => -signed \in 0 .. -requested
  PROVE  Equity(ExecuteTrade(book, signed, ExecutionPrice(price, requested)), price)
           <= Equity(book, price)
<1> DEFINE x == ExecutionPrice(price, requested)
           p == price * Scale
           fee == Magnitude(signed) * x * FeeBps
           after == ExecuteTrade(book, signed, x)
<1>1. /\ book.cash \in Int /\ book.units \in Int /\ x \in Nat /\ p \in Nat
      /\ Scale \in Nat /\ FeeBps \in Nat
  BY ExecutionPriceType, MarginAssumption DEF Book
<1>2. fee \in Nat
  BY <1>1, MagnitudeType
<1>3. /\ after.cash = book.cash - (signed * x * Scale + fee)
      /\ after.units = book.units + signed
  BY DEF ExecuteTrade
<1>4. signed * p <= signed * x
  <2>1. price * SlippageBps \in Nat
    BY MarginAssumption
  <2>2. CASE requested > 0
    <3>1. x = p + price * SlippageBps
      BY <2>2, MarginAssumption DEF ExecutionPrice
    <3>. QED
      BY <1>1, <2>1, <2>2, <3>1, NatTimesMonotone
  <2>3. CASE requested <= 0
    <3>1. x = p - price * SlippageBps
      BY <2>3, MarginAssumption DEF ExecutionPrice
    <3>2. -signed \in Nat /\ x <= p
      BY <1>1, <2>1, <2>3, <3>1
    <3>3. x * (-signed) <= p * (-signed)
      BY <1>1, <3>2, NatTimesMonotone
    <3>. QED
      BY <1>1, <3>3
  <2>. QED
    BY <2>2, <2>3
<1>. HIDE DEF x, p
<1>5. (signed * p) * Scale <= (signed * x) * Scale
  BY <1>1, <1>4, NatTimesMonotone
<1>6. (book.units + signed) * p * Scale = book.units * p * Scale + (signed * p) * Scale
  BY <1>1
<1>7. /\ book.units * p * Scale \in Int /\ (signed * p) * Scale \in Int
      /\ (signed * x) * Scale \in Int
  BY <1>1
<1>. HIDE DEF fee, after
<1>8. Equity(after, price) = after.cash + after.units * p * Scale
  BY DEF Equity, EquityAt, p
<1>9. Equity(book, price) = book.cash + book.units * p * Scale
  BY DEF Equity, EquityAt, p
<1>10. Equity(after, price) <= Equity(book, price)
  BY <1>1, <1>2, <1>3, <1>5, <1>6, <1>7, <1>8, <1>9
<1>. QED
  BY <1>10 DEF after, x

-----------------------------------------------------------------------------
\* Settling takes a book to a book.
LEMMA SettleType ==
  ASSUME NEW book \in Book, NEW price \in Nat
  PROVE  /\ SettleMaintenance(book, price) \in Book
         /\ Settle(book, price) \in Book
<1>1. \A b \in Book : Liquidate(b, price) \in Book
  BY EquityType DEF Liquidate, Book
<1>. QED
  BY <1>1 DEF Settle, SettleMaintenance, SettleInsolvency

\* A flat book is below no maintenance margin.
LEMMA FlatIsMaintained ==
  ASSUME NEW book, book.units = 0, NEW price \in Nat
  PROVE  ~BelowMaintenance(book, price)
BY DEF BelowMaintenance

\* The two checks leave a book that meets its maintenance margin; when they
\* close it, it is flat; and they close every book they leave insolvent.
THEOREM SettleIsSafe ==
  ASSUME NEW book \in Book, NEW price \in Nat
  PROVE  LET settled == Settle(book, price)
         IN  /\ ~BelowMaintenance(settled, price)
             /\ ForcesClose(book, price) => settled.units = 0
             /\ Insolvent(settled, price) => ForcesClose(book, price)
<1> DEFINE kept == SettleMaintenance(book, price)
           settled == Settle(book, price)
<1>1. settled = IF Insolvent(kept, price) THEN Liquidate(kept, price) ELSE kept
  BY DEF Settle, SettleInsolvency
<1>2. BelowMaintenance(book, price) => kept.units = 0
  BY DEF SettleMaintenance, Liquidate
<1>3. ~BelowMaintenance(book, price) => kept = book
  BY DEF SettleMaintenance
<1>. HIDE DEF kept, settled
<1>4. CASE Insolvent(kept, price)
  <2>1. settled.units = 0
    BY <1>1, <1>4 DEF Liquidate
  <2>2. ~BelowMaintenance(settled, price)
    BY <2>1, FlatIsMaintained
  <2>3. ForcesClose(book, price)
    BY <1>4 DEF ForcesClose, kept
  <2>. QED
    BY <2>1, <2>2, <2>3 DEF settled
<1>5. CASE ~Insolvent(kept, price)
  <2>1. settled = kept
    BY <1>1, <1>5
  <2>2. ~BelowMaintenance(settled, price)
    BY <1>2, <1>3, <2>1, FlatIsMaintained
  <2>3. ForcesClose(book, price) => settled.units = 0
    BY <1>2, <1>5, <2>1 DEF ForcesClose, kept
  <2>. QED
    BY <1>5, <2>1, <2>2, <2>3 DEF settled
<1>. QED
  BY <1>4, <1>5

\* Settling a flat book leaves it flat.
LEMMA SettleFlat ==
  ASSUME NEW book \in Book, book.units = 0, NEW price \in Nat
  PROVE  Settle(book, price).units = 0
BY DEF Settle, SettleMaintenance, SettleInsolvency, Liquidate

-----------------------------------------------------------------------------
(***************************************************************************)
(* The engine.                                                             *)
(***************************************************************************)
\* Types of the operators the actions are built from.
LEMMA NoOrderType == NoOrder \in Order
BY DEF NoOrder, Order, Kinds, Hold, Buy, Sell

\* A placed order has the shape of an order.
LEMMA NewOrderType ==
  ASSUME NEW action \in Actions, NEW t \in Bars
  PROVE  NewOrder(action, t) \in Order
<1>1. action \in Action /\ MarketLatencyBars \in Nat /\ LimitTtlBars \in Int
  BY CoreAssumption
<1>2. t + MarketLatencyBars \in Nat
  BY <1>1, CoreAssumption DEF Bars
<1>. QED
  BY <1>1, <1>2 DEF NewOrder, Order, Action

\* An order that a bar missed has the shape of an order.
LEMMA AgedType == ASSUME NEW order \in Order PROVE Aged(order) \in Order
<1>1. order.ttl - 1 \in Int
  BY DEF Order
<1>2. [order EXCEPT !.ttl = order.ttl - 1] \in Order
  BY <1>1 DEF Order
<1>. QED
  BY <1>2, NoOrderType DEF Aged

\* A reset inside the series publishes a well-shaped state.
LEMMA InitialStateType ==
  ASSUME NEW start \in Bars PROVE InitialState(start) \in StateType
<1>1. [i \in Slots |-> NoOrder] \in Orders
  BY NoOrderType DEF Orders
<1>. QED
  BY <1>1, CoreAssumption DEF InitialState, StateType

\* The copy a step works on is well shaped.
LEMMA WorkOnType == ASSUME NEW s \in StateType PROVE WorkOn(s) \in WorkType
BY DEF WorkOn, StateType, WorkType

\* What a call returns without a step is well shaped.
LEMMA OutTypes ==
  /\ Nothing \in OutType
  /\ Raised \in OutType
  /\ \A f \in Nat, d \in Int : [raised |-> FALSE, fills |-> f, delta |-> d] \in OutType
<1>1. \A r \in BOOLEAN, f \in Nat, d \in Int :
        [raised |-> r, fills |-> f, delta |-> d] \in OutType
  BY Zenon DEF OutType
<1>2. 0 \in Nat /\ 0 \in Int
  OBVIOUS
<1>. QED
  BY <1>1, <1>2, Zenon DEF Nothing, Raised

\* The next bar stays inside the series and is the last one when the step says so.
LEMMA NextBarType ==
  ASSUME NEW t \in Bars
  PROVE  /\ NextBar(t) \in Bars
         /\ NextBar(t) = IF t = N - 1 THEN t ELSE t + 1
         /\ AtLastBar(NextBar(t)) <=> NextBar(t) = N - 1
BY CoreAssumption DEF NextBar, Bars, AtLastBar

\* Every bar's close is a natural number.
LEMMA CloseType ==
  ASSUME TypeOK, NEW t \in Bars PROVE market[t].close \in Nat
BY CoreAssumption DEF TypeOK, Bar

\* The book inside a state or a copy is a book.
LEMMA BookOfType ==
  /\ \A s \in StateType : BookOf(s) \in Book
  /\ \A w \in WorkType : BookOf(w) \in Book
BY DEF BookOf, Book, StateType, WorkType

\* The quantities VisitFill computes.
LEMMA FillTypes ==
  ASSUME TypeOK, AtSlot, NEW draw \in Draws
  PROVE  /\ VisitedOrder \in Order
         /\ VisitedFillPrice \in Nat
         /\ VisitedOrder.side * VisitedOrder.units * draw \in Int
         /\ BookOf(work) \in Book
<1>1. VisitedOrder \in Order
  BY DEF TypeOK, AtSlot, WorkType, Orders, VisitedOrder
<1>2. market[state.t] \in Bar
  BY CoreAssumption DEF TypeOK, StateType
<1>3. VisitedFillPrice \in Nat
  BY <1>1, <1>2 DEF VisitedFillPrice, FillPrice, Order, Bar
<1>4. /\ VisitedOrder.side \in {Buy, Sell, Hold} /\ VisitedOrder.units \in Nat
      /\ draw \in Nat
  BY <1>1, CoreAssumption DEF Order
<1>5. VisitedOrder.side * VisitedOrder.units * draw \in Int
  BY <1>4 DEF Buy, Sell, Hold
<1>. QED
  BY <1>1, <1>3, <1>5, BookOfType DEF TypeOK

\* Type correctness: the published state and the copy keep their shape.
LEMMA TypeInit == Init => TypeOK
<1>. SUFFICES ASSUME Init PROVE TypeOK
  OBVIOUS
<1>1. 0 \in Bars /\ Idle \in Idle .. Past
  BY CoreAssumption DEF Bars, Idle, Past
<1>2. state \in StateType /\ work \in WorkType
  BY <1>1, InitialStateType, WorkOnType DEF Init
<1>. QED
  BY <1>1, <1>2, OutTypes DEF Init, TypeOK

\* Leaving a slot, the step stands at the next one or past the last.
LEMMA CursorStep ==
  ASSUME TypeOK, cursor # Past PROVE cursor + 1 \in Idle .. Past
BY CoreAssumption DEF TypeOK, Idle, Past

\* Every action preserves the type invariant.
LEMMA TypeStep == TypeOK /\ [Next]_vars => TypeOK'
<1>. SUFFICES ASSUME TypeOK, [Next]_vars PROVE TypeOK'
  OBVIOUS
<1>. USE DEF TypeOK
<1>1. ASSUME NEW start \in Bars, Reset(start) PROVE TypeOK'
  BY <1>1, InitialStateType, WorkOnType, OutTypes DEF Reset
<1>2. CASE StepWhenDone
  BY <1>2, OutTypes DEF StepWhenDone
<1>3. ASSUME NEW action \in Actions, StepRefused(action) PROVE TypeOK'
  BY <1>3, OutTypes DEF StepRefused
<1>4. ASSUME NEW action \in Actions, Place(action) PROVE TypeOK'
  <2>1. cursor' \in Idle .. Past
    <3>1. cursor = Idle /\ cursor # Past
      BY <1>4, CoreAssumption DEF Place, StepHold, StepPlace, Ready, Idle, Past
    <3>. QED
      BY <1>4, <3>1, CursorStep DEF Place, StepHold, StepPlace
  <2>2. CASE StepHold(action)
    BY <2>1, <2>2, WorkOnType DEF StepHold
  <2>3. CASE StepPlace(action)
    <3>1. PICK i \in SlotsFor(state.orders, action.side) :
            work' = [WorkOn(state) EXCEPT !.orders[i] = NewOrder(action, state.t)]
      BY <2>3 DEF StepPlace
    <3>2. WorkOn(state) \in WorkType /\ NewOrder(action, state.t) \in Order
      BY WorkOnType, NewOrderType DEF StateType
    <3>3. work' \in WorkType
      BY <3>1, <3>2 DEF WorkType, Orders
    <3>. QED
      BY <2>1, <2>3, <3>3 DEF StepPlace
  <2>. QED
    BY <1>4, <2>2, <2>3 DEF Place
<1>5. CASE Visit
  <2>1. AtSlot /\ cursor' = cursor + 1
    BY <1>5 DEF Visit, VisitWaiting, VisitFill, VisitMiss
  <2>2. cursor' \in Idle .. Past
    BY <2>1, CursorStep, CoreAssumption DEF AtSlot, Slots, Past
  <2>3. CASE VisitWaiting
    BY <2>2, <2>3 DEF VisitWaiting
  <2>4. ASSUME NEW draw \in Draws, VisitFill(draw) PROVE TypeOK'
    <3> DEFINE requested == VisitedOrder.side * VisitedOrder.units * draw
               x == ExecutionPrice(VisitedFillPrice, requested)
               signed == ClipUnits(BookOf(work), requested, x)
               book == ExecuteTrade(BookOf(work), signed, x)
    <3>1. x \in Nat
      BY <2>1, FillTypes, ExecutionPriceType
    <3>2. signed \in Int
      BY <2>1, <3>1, FillTypes, ClipUnitsType
    <3>3. book \in Book
      BY <2>1, <3>1, <3>2, FillTypes, ExecuteTradeType
    <3>4. work' = [cash |-> book.cash, units |-> book.units,
                   orders |-> [work.orders EXCEPT ![cursor] = NoOrder],
                   fills |-> work.fills + 1]
      BY <2>4 DEF VisitFill, VisitedOrder, VisitedFillPrice
    <3>5. [work.orders EXCEPT ![cursor] = NoOrder] \in Orders
      BY NoOrderType DEF WorkType, Orders
    <3>. HIDE DEF book
    <3>6. work' \in WorkType
      BY <3>3, <3>4, <3>5 DEF WorkType, Book
    <3>. QED
      BY <2>2, <2>4, <3>6 DEF VisitFill
  <2>5. CASE VisitMiss
    <3>1. Aged(work.orders[cursor]) \in Order
      BY <2>1, AgedType DEF AtSlot, WorkType, Orders
    <3>2. work' \in WorkType
      BY <2>5, <3>1 DEF VisitMiss, WorkType, Orders
    <3>. QED
      BY <2>2, <2>5, <3>2 DEF VisitMiss
  <2>. QED
    BY <1>5, <2>3, <2>4, <2>5 DEF Visit
<1>6. CASE StepFinish
  <2> DEFINE nextT == NextBar(state.t)
             filled == Settle(BookOf(work), market[state.t].close)
             marked == Settle(filled, market[nextT].close)
  <2>1. state.t \in Bars /\ nextT \in Bars
    BY NextBarType DEF StateType
  <2>2. market[state.t].close \in Nat /\ market[nextT].close \in Nat
    BY <2>1, CloseType
  <2>3. filled \in Book /\ marked \in Book
    BY <2>2, BookOfType, SettleType
  <2>4. EquityBefore \in Int /\ Equity(marked, market[nextT].close) \in Int
    BY <2>2, <2>3, BookOfType, EquityType DEF EquityBefore
  <2>5. /\ state'.t = nextT /\ state'.done \in BOOLEAN
        /\ state' = [t |-> nextT, done |-> state'.done, cash |-> marked.cash,
                     units |-> marked.units, orders |-> work.orders]
        /\ out'.delta = Equity(marked, market[nextT].close) - EquityBefore
        /\ out' = [raised |-> FALSE, fills |-> work.fills, delta |-> out'.delta]
        /\ earned' = earned + out'.delta
        /\ cursor' = Idle
        /\ work' = WorkOn(state')
        /\ market' = market
    BY <1>6 DEF StepFinish
  <2>. HIDE DEF filled, marked, nextT
  <2>6. state' \in StateType
    BY <2>1, <2>3, <2>5 DEF StateType, WorkType, Book
  <2>7. work' \in WorkType
    BY <2>5, <2>6, WorkOnType
  <2>8. Idle \in Idle .. Past
    BY CoreAssumption DEF Idle, Past
  <2>9. work.fills \in Nat /\ out'.delta \in Int /\ earned' \in Int
    BY <2>4, <2>5 DEF WorkType
  <2>10. out' \in OutType
    BY <2>5, <2>9, OutTypes
  <2>. QED
    BY <2>5, <2>6, <2>7, <2>8, <2>9, <2>10
<1>7. CASE UNCHANGED vars
  BY <1>7 DEF vars
<1>. QED
  BY <1>1, <1>2, <1>3, <1>4, <1>5, <1>6, <1>7 DEF Next

\* Type correctness: the published state, the working copy and the outputs
\* keep the shape of CoreState under every action of every configuration.
THEOREM TypeCorrect == Spec => []TypeOK
<1>. QED
  BY TypeInit, TypeStep, PTL DEF Spec

-----------------------------------------------------------------------------
(***************************************************************************)
(* The order slots.  One live order per side is inductive once it is said  *)
(* of both copies of the slots; that a live order has a side of its own is *)
(* what the capacity argument needs on top.                                *)
(***************************************************************************)
WellFormed(orders) ==
  /\ OneLivePerSide(orders)
  /\ \A i \in Slots : orders[i].active => orders[i].side \in {Buy, Sell}

SlotsInv == TypeOK /\ WellFormed(state.orders) /\ WellFormed(work.orders)

\* A new order takes its own side's slot, or a slot no live order is using.
LEMMA PlacingKeepsWellFormed ==
  ASSUME NEW orders \in Orders, WellFormed(orders),
         NEW action \in Actions, action.side # Hold, NEW t,
         NEW i \in SlotsFor(orders, action.side)
  PROVE  WellFormed([orders EXCEPT ![i] = NewOrder(action, t)])
<1>1. i \in Slots
  BY DEF SlotsFor, OwnSlots, FreeSlots
<1>2. \A j \in Slots : j # i /\ orders[j].active => orders[j].side # action.side
  <2>1. CASE OwnSlots(orders, action.side) # {}
    <3>1. orders[i].active /\ orders[i].side = action.side
      BY <2>1 DEF SlotsFor, OwnSlots
    <3>. QED
      BY <1>1, <3>1 DEF WellFormed, OneLivePerSide
  <2>2. CASE OwnSlots(orders, action.side) = {}
    BY <2>2 DEF OwnSlots
  <2>. QED
    BY <2>1, <2>2
<1>3. action.side \in {Buy, Sell}
  BY CoreAssumption DEF Action
<1> DEFINE new == NewOrder(action, t)
           placed == [orders EXCEPT ![i] = new]
<1>4. new.active /\ new.side = action.side
  BY DEF NewOrder
<1>. HIDE DEF new
<1>5. /\ placed[i] = new
      /\ \A j \in Slots : j # i => placed[j] = orders[j]
  BY <1>1 DEF Orders
<1>. HIDE DEF placed
<1>6. WellFormed(placed)
  BY <1>1, <1>2, <1>3, <1>4, <1>5 DEF WellFormed, OneLivePerSide
<1>. QED
  BY <1>6 DEF placed, new

\* Freeing a slot keeps at most one live order per side.
LEMMA FreeingKeepsWellFormed ==
  ASSUME NEW orders \in Orders, WellFormed(orders), NEW i \in Slots
  PROVE  WellFormed([orders EXCEPT ![i] = NoOrder])
<1>1. ~NoOrder.active
  BY DEF NoOrder
<1>. HIDE DEF NoOrder
<1>. QED
  BY <1>1 DEF WellFormed, OneLivePerSide, Orders

\* So does ageing the order in a slot.
LEMMA AgeingKeepsWellFormed ==
  ASSUME NEW orders \in Orders, WellFormed(orders), NEW i \in Slots, orders[i].active
  PROVE  WellFormed([orders EXCEPT ![i] = Aged(orders[i])])
<1>1. CASE Aged(orders[i]) = NoOrder
  BY <1>1, FreeingKeepsWellFormed
<1>2. CASE Aged(orders[i]) = [orders[i] EXCEPT !.ttl = orders[i].ttl - 1]
  <2> DEFINE aged == Aged(orders[i])
  <2>1. aged.side = orders[i].side /\ aged.active = orders[i].active
    BY <1>2 DEF Orders, Order
  <2>. HIDE DEF aged
  <2>2. WellFormed([orders EXCEPT ![i] = aged])
    BY <2>1 DEF WellFormed, OneLivePerSide, Orders
  <2>. QED
    BY <2>2 DEF aged
<1>. QED
  BY <1>1, <1>2 DEF Aged

\* A book without orders has at most one per side.
LEMMA EmptyIsWellFormed ==
  ASSUME NEW start PROVE WellFormed(InitialState(start).orders)
<1>1. ~NoOrder.active
  BY DEF NoOrder
<1>. HIDE DEF NoOrder
<1>. QED
  BY <1>1 DEF InitialState, WellFormed, OneLivePerSide

\* Every action preserves the slot invariant.
LEMMA SlotsInvStep == SlotsInv /\ [Next]_vars => SlotsInv'
<1>. SUFFICES ASSUME SlotsInv, [Next]_vars PROVE SlotsInv'
  OBVIOUS
<1>0. /\ TypeOK /\ TypeOK'
      /\ WellFormed(state.orders) /\ WellFormed(work.orders)
      /\ state.orders \in Orders /\ work.orders \in Orders
  BY TypeStep DEF SlotsInv, TypeOK, StateType, WorkType
<1>. SUFFICES WellFormed(state'.orders) /\ WellFormed(work'.orders)
  BY <1>0 DEF SlotsInv
<1>1. ASSUME NEW start \in Bars, Reset(start)
      PROVE  WellFormed(state'.orders) /\ WellFormed(work'.orders)
  BY <1>1, EmptyIsWellFormed DEF Reset, WorkOn
<1>2. CASE StepWhenDone \/ \E action \in Actions : StepRefused(action)
  BY <1>0, <1>2 DEF StepWhenDone, StepRefused
<1>3. ASSUME NEW action \in Actions, Place(action)
      PROVE  WellFormed(state'.orders) /\ WellFormed(work'.orders)
  <2>1. CASE StepHold(action)
    BY <1>0, <2>1 DEF StepHold, WorkOn
  <2>2. CASE StepPlace(action)
    <3>1. PICK i \in SlotsFor(state.orders, action.side) :
            work' = [WorkOn(state) EXCEPT !.orders[i] = NewOrder(action, state.t)]
      BY <2>2 DEF StepPlace
    <3>2. work'.orders = [state.orders EXCEPT ![i] = NewOrder(action, state.t)]
      BY <3>1 DEF WorkOn
    <3>. QED
      BY <1>0, <2>2, <3>2, PlacingKeepsWellFormed DEF StepPlace
  <2>. QED
    BY <1>3, <2>1, <2>2 DEF Place
<1>4. CASE VisitWaiting
  BY <1>0, <1>4 DEF VisitWaiting
<1>5. ASSUME NEW draw \in Draws, VisitFill(draw)
      PROVE  WellFormed(state'.orders) /\ WellFormed(work'.orders)
  <2>1. work'.orders = [work.orders EXCEPT ![cursor] = NoOrder] /\ state' = state
    BY <1>5 DEF VisitFill
  <2>. QED
    BY <1>0, <1>5, <2>1, FreeingKeepsWellFormed DEF VisitFill, AtSlot
<1>6. CASE VisitMiss
  <2>1. /\ work'.orders = [work.orders EXCEPT ![cursor] = Aged(work.orders[cursor])]
        /\ state' = state /\ cursor \in Slots /\ work.orders[cursor].active
    BY <1>0, <1>6 DEF VisitMiss, TypeOK, WorkType, AtSlot, Waiting
  <2>. QED
    BY <1>0, <2>1, AgeingKeepsWellFormed
<1>7. CASE StepFinish
  BY <1>0, <1>7 DEF StepFinish, WorkOn
<1>8. CASE UNCHANGED vars
  BY <1>0, <1>8 DEF vars
<1>. QED
  BY <1>1, <1>2, <1>3, <1>4, <1>5, <1>6, <1>7, <1>8 DEF Next, Visit

\* The slot invariant holds of a new environment.
LEMMA SlotsInvInit == Init => SlotsInv
BY TypeInit, EmptyIsWellFormed DEF Init, SlotsInv, WorkOn

\* The slot invariant: typed, one live order per side in the published state
\* and in the copy, and every live order a buy or a sell.
THEOREM SlotsInvariant == Spec => []SlotsInv
BY SlotsInvInit, SlotsInvStep, PTL DEF Spec

\* At most one live order per side, whatever is ordered, filled, replaced,
\* expired or reset, at every point of the match loop.
THEOREM OneLiveOrderPerSideHolds == Spec => []OneLiveOrderPerSide
<1>1. SlotsInv => OneLiveOrderPerSide
  BY DEF SlotsInv, WellFormed, OneLiveOrderPerSide
<1>. QED
  BY <1>1, SlotsInvariant, PTL

\* A set of natural numbers has a least element.
LEMMA Least ==
  ASSUME NEW S, S \subseteq Nat, S # {}
  PROVE  \E n \in S : \A m \in S : n <= m
<1> DEFINE R == OpToRel(<, Nat)
<1>1. IsWellFoundedOn(R, Nat)
  BY NatLessThanWellFounded
<1>2. \A x, y \in Nat : <<x, y>> \in R <=> x < y
  BY DEF OpToRel
<1>. HIDE DEF R
<1>3. PICK x \in S : \A y \in S : ~(<<y, x>> \in R)
  BY <1>1, WFMin
<1>4. x \in Nat /\ \A y \in S : ~(y < x)
  BY ONLY S \subseteq Nat, x \in S, <1>2, <1>3, Zenon
<1>. QED
  BY <1>4

\* There is no slot for an order exactly when all are live on the other side.
LEMMA NoSlotLeft ==
  ASSUME NEW orders, NEW side
  PROVE  SlotsFor(orders, side) = {}
           <=> \A i \in Slots : orders[i].active /\ orders[i].side # side
<1> DEFINE candidates == IF OwnSlots(orders, side) # {} THEN OwnSlots(orders, side)
                                                       ELSE FreeSlots(orders)
<1>1. candidates = {} <=> \A i \in Slots : orders[i].active /\ orders[i].side # side
  BY DEF OwnSlots, FreeSlots
<1>2. candidates \subseteq Nat
  BY DEF OwnSlots, FreeSlots, Slots
<1>3. SlotsFor(orders, side) = {i \in candidates : \A j \in candidates : i <= j}
  BY DEF SlotsFor
<1>. HIDE DEF candidates
<1>4. candidates # {} => \E i \in candidates : \A j \in candidates : i <= j
  BY <1>2, Least
<1>. QED
  BY <1>1, <1>3, <1>4

\* With two slots the refusal for capacity is dead code: were the book full of
\* the other side, two slots would be live on it.
THEOREM CapacityNeverRefusesHolds == Spec => []CapacityNeverRefuses
<1>1. SlotsInv => CapacityNeverRefuses
  <2>. SUFFICES ASSUME SlotsInv, MaxOrders >= 2,
                       NEW action \in Actions, NoCapacity(state.orders, action)
                PROVE  FALSE
    BY DEF CapacityNeverRefuses
  <2>1. 1 \in Slots /\ 2 \in Slots
    BY CoreAssumption DEF Slots
  <2>2. action.side \in {Buy, Sell}
    BY CoreAssumption DEF NoCapacity, Action
  <2>. QED
    BY <2>1, <2>2, NoSlotLeft DEF SlotsInv, WellFormed, OneLivePerSide, NoCapacity
<1>. QED
  BY <1>1, SlotsInvariant, PTL

-----------------------------------------------------------------------------
(***************************************************************************)
(* The margin.  The two checks at the new mark decide both what a step     *)
(* publishes and whether it ends the episode.                              *)
(***************************************************************************)

\* What StepFinish publishes, in terms of the two settlements.
LEMMA FinishedStep ==
  ASSUME TypeOK, StepFinish
  PROVE  \E filled \in Book, marked \in Book :
           /\ NextBar(state.t) \in Bars
           /\ market[state.t].close \in Nat
           /\ market[NextBar(state.t)].close \in Nat
           /\ BookOf(work) \in Book /\ BookOf(state) \in Book
           /\ filled = Settle(BookOf(work), market[state.t].close)
           /\ marked = Settle(filled, market[NextBar(state.t)].close)
           /\ state'.t = NextBar(state.t)
           /\ state'.done = (\/ AtLastBar(NextBar(state.t))
                             \/ ForcesClose(BookOf(work), market[state.t].close)
                             \/ ForcesClose(filled, market[NextBar(state.t)].close))
           /\ BookOf(state') = marked
           /\ state'.orders = work.orders
           /\ work' = WorkOn(state')
           /\ market' = market
           /\ earned' = earned + (Equity(marked, market[NextBar(state.t)].close) - EquityBefore)
<1> DEFINE filled == Settle(BookOf(work), market[state.t].close)
           marked == Settle(filled, market[NextBar(state.t)].close)
<1>1. NextBar(state.t) \in Bars /\ state.t \in Bars
  BY NextBarType DEF TypeOK, StateType
<1>2. market[state.t].close \in Nat /\ market[NextBar(state.t)].close \in Nat
  BY <1>1, CloseType
<1>3. BookOf(work) \in Book /\ BookOf(state) \in Book
  BY BookOfType DEF TypeOK
<1>4. filled \in Book /\ marked \in Book
  BY <1>2, <1>3, SettleType
<1>5. /\ state' = [t |-> NextBar(state.t),
                   done |-> \/ AtLastBar(NextBar(state.t))
                            \/ ForcesClose(BookOf(work), market[state.t].close)
                            \/ ForcesClose(filled, market[NextBar(state.t)].close),
                   cash |-> marked.cash, units |-> marked.units, orders |-> work.orders]
      /\ work' = WorkOn(state')
      /\ earned' = earned + (Equity(marked, market[NextBar(state.t)].close) - EquityBefore)
      /\ market' = market
  BY DEF StepFinish
<1>. HIDE DEF filled, marked
<1>6. BookOf(state') = marked
  BY <1>4, <1>5 DEF BookOf, Book
<1>7. /\ filled = Settle(BookOf(work), market[state.t].close)
      /\ marked = Settle(filled, market[NextBar(state.t)].close)
  BY DEF filled, marked
<1>8. /\ state'.t = NextBar(state.t)
      /\ state'.done = (\/ AtLastBar(NextBar(state.t))
                        \/ ForcesClose(BookOf(work), market[state.t].close)
                        \/ ForcesClose(filled, market[NextBar(state.t)].close))
      /\ state'.orders = work.orders
  BY <1>5, Zenon
<1>. QED
  BY <1>1, <1>2, <1>3, <1>4, <1>5, <1>6, <1>7, <1>8, Zenon

\* Every step but a reset and the last one leaves the published state alone.
LEMMA OnlyResetAndFinishPublish ==
  ASSUME [Next]_vars
  PROVE  \/ StepFinish
         \/ \E start \in Bars : Reset(start)
         \/ UNCHANGED <<market, state, earned>>
BY DEF Next, vars, StepWhenDone, StepRefused, Place, StepHold, StepPlace,
       Visit, VisitWaiting, VisitFill, VisitMiss

\* A new episode: flat, solvent and not over.
LEMMA FreshAccount ==
  ASSUME TypeOK, NEW start \in Bars, NEW s, s = InitialState(start)
  PROVE  /\ BookOf(s) \in Book /\ s.units = 0 /\ ~s.done /\ s.t = start
         /\ Equity(BookOf(s), market[start].close) = InitialCash
<1>1. /\ BookOf(s) = [cash |-> InitialCash, units |-> 0]
      /\ s.units = 0 /\ s.t = start
  BY DEF InitialState, BookOf
<1>2. ~s.done
  BY Zenon DEF InitialState
<1>3. BookOf(s) \in Book
  BY <1>1, CoreAssumption DEF Book
<1>4. 0 * (market[start].close * Scale) * Scale = 0
  <2>1. market[start].close * Scale \in Nat /\ Scale \in Nat
    BY CloseType, MarginAssumption
  <2>. QED
    BY <2>1
<1>5. Equity(BookOf(s), market[start].close) = InitialCash
  BY <1>1, <1>4, CoreAssumption DEF Equity, EquityAt
<1>. QED
  BY <1>1, <1>2, <1>3, <1>5

MarginInv == PublishedBookIsMargined /\ EarlyEndIsFlat /\ RewardsAddUp

\* A new episode satisfies the margin invariant.
LEMMA MarginInvFresh ==
  ASSUME TypeOK, NEW start \in Bars, state = InitialState(start), earned = 0
  PROVE  MarginInv
<1>1. /\ BookOf(state).units = 0 /\ ~state.done /\ state.t = start
      /\ Equity(BookOf(state), market[start].close) = InitialCash
      /\ market[start].close \in Nat
  BY FreshAccount, CloseType DEF BookOf
<1>2. PublishedBookIsMargined
  BY <1>1, FlatIsMaintained, CoreAssumption DEF PublishedBookIsMargined, Insolvent
<1>. QED
  BY <1>1, <1>2, CoreAssumption DEF MarginInv, EarlyEndIsFlat, RewardsAddUp

\* Every action preserves the margin invariant.
LEMMA MarginInvStep == TypeOK /\ TypeOK' /\ MarginInv /\ [Next]_vars => MarginInv'
<1>. SUFFICES ASSUME TypeOK, TypeOK', MarginInv, [Next]_vars PROVE MarginInv'
  OBVIOUS
<1>1. CASE StepFinish
  <2> DEFINE nextT == NextBar(state.t)
             here == market[state.t].close
             there == market[nextT].close
  <2>1. PICK filled \in Book, marked \in Book :
           /\ nextT \in Bars /\ here \in Nat /\ there \in Nat
           /\ BookOf(work) \in Book /\ BookOf(state) \in Book
           /\ filled = Settle(BookOf(work), here)
           /\ marked = Settle(filled, there)
           /\ state'.t = nextT
           /\ state'.done = (\/ AtLastBar(nextT)
                             \/ ForcesClose(BookOf(work), here)
                             \/ ForcesClose(filled, there))
           /\ BookOf(state') = marked
           /\ market' = market
           /\ earned' = earned + (Equity(marked, there) - EquityBefore)
    BY <1>1, FinishedStep
  <2>2. market'[state'.t].close = there
    BY <2>1
  <2>3. state'.units = marked.units
    BY <2>1 DEF BookOf
  <2>. HIDE DEF here, there, nextT
  <2>4. /\ ~BelowMaintenance(marked, there)
        /\ ForcesClose(filled, there) => marked.units = 0
        /\ Insolvent(marked, there) => ForcesClose(filled, there)
    BY <2>1, SettleIsSafe
  <2>5. ForcesClose(BookOf(work), here) => marked.units = 0
    <3>1. ForcesClose(BookOf(work), here) => filled.units = 0
      BY <2>1, SettleIsSafe
    <3>. QED
      BY <2>1, <3>1, SettleFlat
  <2>6. PublishedBookIsMargined'
    BY <2>1, <2>2, <2>3, <2>4 DEF PublishedBookIsMargined
  <2>7. EarlyEndIsFlat'
    <3>. SUFFICES ASSUME state'.done, state'.t < N - 1 PROVE state'.units = 0
      BY DEF EarlyEndIsFlat
    <3>1. ~AtLastBar(nextT)
      BY <2>1, CoreAssumption DEF AtLastBar, Bars
    <3>2. ForcesClose(BookOf(work), here) \/ ForcesClose(filled, there)
      BY <2>1, <3>1
    <3>. QED
      BY <2>3, <2>4, <2>5, <3>2
  <2>8. RewardsAddUp'
    <3>1. EquityBefore = Equity(BookOf(state), here)
      BY DEF EquityBefore, here
    <3>2. earned = Equity(BookOf(state), here) - InitialCash
      BY DEF MarginInv, RewardsAddUp, here
    <3>3. Equity(BookOf(state), here) \in Int /\ Equity(marked, there) \in Int
      BY <2>1, EquityType
    <3>4. earned' = Equity(marked, there) - InitialCash
      BY <2>1, <3>1, <3>2, <3>3, CoreAssumption
    <3>. QED
      BY <2>1, <2>2, <3>4 DEF RewardsAddUp
  <2>. QED
    BY <2>6, <2>7, <2>8 DEF MarginInv
<1>2. ASSUME NEW start \in Bars, Reset(start) PROVE MarginInv'
  <2>1. state' = InitialState(start) /\ earned' = 0 /\ market' = market
    BY <1>2 DEF Reset
  <2>2. /\ BookOf(state').units = 0 /\ ~state'.done /\ state'.t = start
        /\ Equity(BookOf(state'), market[start].close) = InitialCash
        /\ market[start].close \in Nat /\ state'.units = 0
    BY <2>1, FreshAccount, CloseType DEF BookOf
  <2>3. ~BelowMaintenance(BookOf(state'), market[start].close)
    BY <2>2, FlatIsMaintained
  <2>. QED
    BY <2>1, <2>2, <2>3, CoreAssumption
       DEF MarginInv, PublishedBookIsMargined, EarlyEndIsFlat, RewardsAddUp, Insolvent
<1>3. CASE UNCHANGED <<market, state, earned>>
  BY <1>3 DEF MarginInv, PublishedBookIsMargined, EarlyEndIsFlat, RewardsAddUp
<1>. QED
  BY <1>1, <1>2, <1>3, OnlyResetAndFinishPublish

\* The margin invariant: a maintained book, flat when closed early, and rewards
\* that add up; step_core and reset keep the three together.
THEOREM MarginInvariant == Spec => []MarginInv
<1>1. Init => MarginInv
  <2>. SUFFICES ASSUME Init PROVE MarginInv
    OBVIOUS
  <2>1. 0 \in Bars
    BY CoreAssumption DEF Bars
  <2>. QED
    BY <2>1, TypeInit, MarginInvFresh DEF Init
<1>. QED
  BY <1>1, TypeCorrect, MarginInvStep, PTL DEF Spec

\* Whatever the market does between two closes, what is published meets its
\* maintenance margin, and an insolvent account is flat and over.
THEOREM PublishedBookIsMarginedHolds == Spec => []PublishedBookIsMargined
BY MarginInvariant, PTL DEF MarginInv

\* An episode that ends before the last bar leaves no position behind.
THEOREM EarlyEndIsFlatHolds == Spec => []EarlyEndIsFlat
BY MarginInvariant, PTL DEF MarginInv

\* The rewards of an episode telescope to its change of equity.
THEOREM RewardsAddUpHolds == Spec => []RewardsAddUp
BY MarginInvariant, PTL DEF MarginInv

-----------------------------------------------------------------------------
(***************************************************************************)
(* Fills.                                                                  *)
(***************************************************************************)

\* What a fill does to the book: a trade of the clipped size at the price of
\* the order's side, or of nothing.
LEMMA FilledStep ==
  ASSUME TypeOK, NEW draw \in Draws, VisitFill(draw)
  PROVE  \E requested \in Int, signed \in Int, x \in Nat :
           /\ BookOf(work) \in Book /\ VisitedFillPrice \in Nat
           /\ requested = VisitedOrder.side * VisitedOrder.units * draw
           /\ x = ExecutionPrice(VisitedFillPrice, requested)
           /\ signed = ClipUnits(BookOf(work), requested, x)
           /\ BookOf(work') = ExecuteTrade(BookOf(work), signed, x)
           /\ work'.units = work.units + signed
           /\ requested >= 0 => signed \in 0 .. requested
           /\ requested <= 0 => -signed \in 0 .. -requested
           /\ signed # 0 => x = VisitedPrice
<1> DEFINE requested == VisitedOrder.side * VisitedOrder.units * draw
           x == ExecutionPrice(VisitedFillPrice, requested)
           signed == ClipUnits(BookOf(work), requested, x)
           book == ExecuteTrade(BookOf(work), signed, x)
<1>0. AtSlot
  BY DEF VisitFill
<1>1. /\ VisitedOrder \in Order /\ VisitedFillPrice \in Nat
      /\ requested \in Int /\ BookOf(work) \in Book
  BY <1>0, FillTypes
<1>2. x \in Nat
  BY <1>1, ExecutionPriceType
<1>3. signed \in Int /\ book \in Book
  BY <1>1, <1>2, ClipUnitsType, ExecuteTradeType
<1>4. /\ requested >= 0 => signed \in 0 .. requested
      /\ requested <= 0 => -signed \in 0 .. -requested
  BY <1>1, <1>2, ClipShrinks
<1>5. /\ work'.cash = book.cash /\ work'.units = book.units
  BY DEF VisitFill, VisitedOrder, VisitedFillPrice
<1>6. signed # 0 => x = VisitedPrice
  <2>1. /\ VisitedOrder.side \in {1, -1, 0} /\ VisitedOrder.units \in Nat /\ draw \in Nat
    BY <1>1, CoreAssumption DEF Order, Buy, Sell, Hold
  <2>2. requested > 0 => VisitedOrder.side > 0
    BY <2>1
  <2>3. requested < 0 => VisitedOrder.side <= 0
    BY <2>1
  <2>4. signed # 0 => requested # 0
    BY <1>1, <1>3, <1>4
  <2>. HIDE DEF requested, signed
  <2>5. signed # 0 => (requested > 0 <=> VisitedOrder.side > 0)
    BY <1>1, <2>1, <2>2, <2>3, <2>4
  <2>. QED
    BY <2>5 DEF VisitedPrice, ExecutionPrice
<1>. HIDE DEF book
<1>7. BookOf(work') = book
  BY <1>3, <1>5 DEF BookOf, Book
<1>8. work'.units = work.units + signed
  BY <1>5 DEF book, ExecuteTrade, BookOf
<1>9. BookOf(work') = ExecuteTrade(BookOf(work), signed, x)
  BY <1>7 DEF book
<1>. HIDE DEF requested, signed, x
<1>10. /\ requested = VisitedOrder.side * VisitedOrder.units * draw
       /\ x = ExecutionPrice(VisitedFillPrice, requested)
       /\ signed = ClipUnits(BookOf(work), requested, x)
  BY DEF requested, x, signed
<1>. QED
  BY <1>1, <1>2, <1>3, <1>4, <1>6, <1>8, <1>9, <1>10

\* At a slot, only a fill touches the book.
LEMMA OnlyFillsTrade ==
  ASSUME TypeOK, AtSlot, [Next]_vars
  PROVE  \/ \E draw \in Draws : VisitFill(draw)
         \/ work'.cash = work.cash /\ work'.units = work.units
<1>1. cursor # Idle /\ cursor # Past
  BY CoreAssumption DEF AtSlot, Slots, Idle, Past
<1>2. CASE VisitMiss
  BY <1>2 DEF VisitMiss, TypeOK, WorkType
<1>. QED
  BY <1>1, <1>2 DEF Next, vars, Reset, StepWhenDone, StepRefused, Place, StepHold, StepPlace,
                    Ready, Visit, VisitWaiting, StepFinish

\* One step of a fill honours the initial margin.
LEMMA FillKeepsInitialMarginStep ==
  ASSUME TypeOK, [Next]_vars, AtSlot, VisitedPrice > 0,
         Magnitude(work'.units) > Magnitude(work.units)
  PROVE  Magnitude(work'.units) * VisitedPrice * Scale
           <= Cap * EquityAt(BookOf(work'), VisitedPrice)
<1>1. work'.units # work.units
  <2>1. work.units \in Int
    BY DEF TypeOK, WorkType
  <2>. QED
    BY <2>1, MagnitudeType
<1>2. PICK draw \in Draws : VisitFill(draw)
  BY <1>1, OnlyFillsTrade
<1>3. PICK requested \in Int, signed \in Int, x \in Nat :
        /\ BookOf(work) \in Book
        /\ signed = ClipUnits(BookOf(work), requested, x)
        /\ BookOf(work') = ExecuteTrade(BookOf(work), signed, x)
        /\ work'.units = work.units + signed
        /\ signed # 0 => x = VisitedPrice
  BY <1>2, FilledStep
<1>4. signed # 0
  BY <1>1, <1>3 DEF TypeOK, WorkType
<1>5. x = VisitedPrice /\ x \in Nat \ {0}
  BY <1>3, <1>4
<1> DEFINE after == ExecuteTrade(BookOf(work), ClipUnits(BookOf(work), requested, x), x)
<1>6. \/ Magnitude(after.units) <= Magnitude(BookOf(work).units)
      \/ Magnitude(after.units) * x * Scale <= Cap * EquityAt(after, x)
  BY <1>3, <1>5, ClipHonoursCap
<1>7. after = BookOf(work') /\ after.units = work'.units /\ BookOf(work).units = work.units
  BY <1>3 DEF BookOf
<1>. HIDE DEF after
<1>8. Magnitude(work'.units) \in Nat /\ Magnitude(work.units) \in Nat
  BY <1>3, MagnitudeType DEF TypeOK, WorkType
<1>. QED
  BY <1>5, <1>6, <1>7, <1>8

\* No fill opens more exposure than the initial margin allows, whatever the
\* position, the price, the fee and the draw.
THEOREM FillKeepsInitialMarginHolds == Spec => FillKeepsInitialMargin
<1>1. TypeOK /\ [Next]_vars =>
        [AtSlot /\ VisitedPrice > 0 /\ Magnitude(work'.units) > Magnitude(work.units) =>
           Magnitude(work'.units) * VisitedPrice * Scale
             <= Cap * EquityAt(BookOf(work'), VisitedPrice)]_vars
  BY FillKeepsInitialMarginStep
<1>. QED
  BY <1>1, TypeCorrect, PTL DEF Spec, FillKeepsInitialMargin

\* One step of a fill goes its order's way and never makes money.
LEMMA FillOnlyCostsStep ==
  ASSUME TypeOK, [Next]_vars, AtSlot
  PROVE  LET size == (work'.units - work.units) * VisitedOrder.side
         IN  /\ work'.units # work.units =>
                   /\ size >= 0
                   /\ \E draw \in Draws : size <= VisitedOrder.units * draw
             /\ Equity(BookOf(work'), VisitedFillPrice)
                   <= Equity(BookOf(work), VisitedFillPrice)
<1>1. CASE work'.cash = work.cash /\ work'.units = work.units
  <2>1. BookOf(work') = BookOf(work)
    BY <1>1 DEF BookOf
  <2>2. VisitedFillPrice \in Nat /\ BookOf(work) \in Book
    <3>1. market[state.t] \in Bar
      BY CoreAssumption DEF TypeOK, StateType
    <3>. QED
      BY <3>1, BookOfType DEF TypeOK, AtSlot, WorkType, Orders, VisitedOrder, VisitedFillPrice,
                             FillPrice, Order, Bar
  <2>3. Equity(BookOf(work), VisitedFillPrice) \in Int
    BY <2>2, EquityType
  <2>. QED
    BY <1>1, <2>1, <2>3
<1>2. ASSUME NEW draw \in Draws, VisitFill(draw)
      PROVE  /\ (work'.units - work.units) * VisitedOrder.side >= 0
             /\ (work'.units - work.units) * VisitedOrder.side <= VisitedOrder.units * draw
             /\ Equity(BookOf(work'), VisitedFillPrice)
                   <= Equity(BookOf(work), VisitedFillPrice)
  <2>1. PICK requested \in Int, signed \in Int, x \in Nat :
          /\ BookOf(work) \in Book /\ VisitedFillPrice \in Nat
          /\ requested = VisitedOrder.side * VisitedOrder.units * draw
          /\ x = ExecutionPrice(VisitedFillPrice, requested)
          /\ BookOf(work') = ExecuteTrade(BookOf(work), signed, x)
          /\ work'.units = work.units + signed
          /\ requested >= 0 => signed \in 0 .. requested
          /\ requested <= 0 => -signed \in 0 .. -requested
    BY <1>2, FilledStep
  <2>2. /\ VisitedOrder.side \in {1, -1, 0} /\ VisitedOrder.units * draw \in Nat
        /\ requested = VisitedOrder.side * (VisitedOrder.units * draw)
    BY <2>1, FillTypes, CoreAssumption DEF Order, Buy, Sell, Hold
  <2>3. work'.units - work.units = signed
    BY <2>1 DEF TypeOK, WorkType
  <2>4. signed * VisitedOrder.side \in 0 .. VisitedOrder.units * draw
    <3> DEFINE most == VisitedOrder.units * draw
    <3>. HIDE DEF most
    <3>1. /\ most \in Nat /\ requested = VisitedOrder.side * most
          /\ VisitedOrder.side \in {1, -1, 0}
      BY <2>2 DEF most
    <3>2. signed * VisitedOrder.side \in 0 .. most
      BY <2>1, <3>1
    <3>. QED
      BY <3>2 DEF most
  <2>5. Equity(BookOf(work'), VisitedFillPrice) <= Equity(BookOf(work), VisitedFillPrice)
    BY <2>1, TradeOnlyCosts
  <2>. QED
    BY <2>3, <2>4, <2>5
<1>. QED
  BY <1>1, <1>2, OnlyFillsTrade

\* Slippage and fee are costs on every path, and a fill never exceeds or
\* reverses its order.
THEOREM FillOnlyCostsHolds == Spec => FillOnlyCosts
<1>1. TypeOK /\ [Next]_vars =>
        [AtSlot =>
           LET size == (work'.units - work.units) * VisitedOrder.side
           IN  /\ work'.units # work.units =>
                     /\ size >= 0
                     /\ \E draw \in Draws : size <= VisitedOrder.units * draw
               /\ Equity(BookOf(work'), VisitedFillPrice)
                     <= Equity(BookOf(work), VisitedFillPrice)]_vars
  BY FillOnlyCostsStep
<1>. QED
  BY <1>1, TypeCorrect, PTL DEF Spec, FillOnlyCosts

-----------------------------------------------------------------------------
(***************************************************************************)
(* The lifetime of orders.  During the match loop the slots before the     *)
(* cursor have paid for this bar and those from the cursor on have not.    *)
(***************************************************************************)
LoopInv ==
  cursor # Idle =>
    /\ ~state.done
    /\ \A i \in Slots :
         work.orders[i].active =>
           LivesAt(work.orders[i], IF i < cursor THEN state.t + 1 ELSE state.t)

LifetimeInv == OrderLifetime /\ LoopInv

\* One slot's order is rewritten, its new content has paid for the bar, and
\* the cursor moves on.
LEMMA LoopAdvances ==
  ASSUME TypeOK, LifetimeInv, AtSlot, cursor' = cursor + 1, state' = state,
         \A i \in Slots \ {cursor} : work'.orders[i] = work.orders[i],
         work'.orders[cursor].active => LivesAt(work'.orders[cursor], state.t + 1)
  PROVE  LifetimeInv'
<1>1. OrderLifetime'
  BY DEF LifetimeInv, OrderLifetime
<1>2. cursor \in Nat /\ cursor # Idle
  BY CoreAssumption DEF AtSlot, Slots, Idle
<1>3. ~state'.done
  BY <1>2 DEF LifetimeInv, LoopInv
<1>4. ASSUME NEW i \in Slots, work'.orders[i].active
      PROVE  LivesAt(work'.orders[i], IF i < cursor' THEN state'.t + 1 ELSE state'.t)
  <2>1. CASE i = cursor
    BY <1>2, <1>4, <2>1
  <2>2. CASE i # cursor
    <3>1. i < cursor' <=> i < cursor
      BY <1>2, <2>2, CoreAssumption DEF Slots
    <3>2. LivesAt(work.orders[i], IF i < cursor THEN state.t + 1 ELSE state.t)
      BY <1>2, <1>4, <2>2 DEF LifetimeInv, LoopInv
    <3>. QED
      BY <2>2, <3>1, <3>2
  <2>. QED
    BY <2>1, <2>2
<1>5. LoopInv'
  BY <1>3, <1>4 DEF LoopInv
<1>. QED
  BY <1>1, <1>5 DEF LifetimeInv

\* Every action preserves the lifetime invariant.
LEMMA LifetimeInvStep == TypeOK /\ TypeOK' /\ LifetimeInv /\ [Next]_vars => LifetimeInv'
<1>. SUFFICES ASSUME TypeOK, TypeOK', LifetimeInv, [Next]_vars PROVE LifetimeInv'
  OBVIOUS
<1>0. /\ state.t \in Nat /\ state.orders \in Orders /\ work.orders \in Orders
      /\ MarketLatencyBars \in Nat /\ LimitTtlBars \in Int
  BY CoreAssumption DEF TypeOK, StateType, WorkType, Bars
<1>1. ASSUME NEW start \in Bars, Reset(start) PROVE LifetimeInv'
  <2>1. cursor' = Idle /\ state'.orders = [i \in Slots |-> NoOrder]
    BY <1>1 DEF Reset, InitialState
  <2>2. ~NoOrder.active
    BY DEF NoOrder
  <2>. HIDE DEF NoOrder
  <2>. QED
    BY <2>1, <2>2 DEF LifetimeInv, OrderLifetime, LoopInv
<1>2. CASE StepWhenDone \/ \E action \in Actions : StepRefused(action)
  BY <1>2 DEF StepWhenDone, StepRefused, LifetimeInv, OrderLifetime, LoopInv
<1>3. ASSUME NEW action \in Actions, Place(action) PROVE LifetimeInv'
  <2>1. /\ cursor' = 1 /\ state' = state /\ ~state.done
    BY <1>3 DEF Place, StepHold, StepPlace, Ready, Idle
  <2>2. \A i \in Slots : state.orders[i].active => LivesAt(state.orders[i], state.t)
    BY <2>1 DEF LifetimeInv, OrderLifetime
  <2>3. \A i \in Slots : ~(i < cursor')
    BY <2>1, CoreAssumption DEF Slots
  <2>4. \A i \in Slots : work'.orders[i].active => LivesAt(work'.orders[i], state.t)
    <3>1. CASE StepHold(action)
      BY <2>2, <3>1 DEF StepHold, WorkOn
    <3>2. CASE StepPlace(action)
      <4>1. PICK i \in SlotsFor(state.orders, action.side) :
              work' = [WorkOn(state) EXCEPT !.orders[i] = NewOrder(action, state.t)]
        BY <3>2 DEF StepPlace
      <4>2. work'.orders = [state.orders EXCEPT ![i] = NewOrder(action, state.t)]
        BY <4>1 DEF WorkOn
      <4>3. LivesAt(NewOrder(action, state.t), state.t)
        BY <1>0 DEF NewOrder, LivesAt
      <4>. QED
        BY <1>0, <2>2, <4>2, <4>3 DEF Orders
    <3>. QED
      BY <1>3, <3>1, <3>2 DEF Place
  <2>5. OrderLifetime'
    BY <2>1, <2>2 DEF OrderLifetime
  <2>6. LoopInv'
    BY <2>1, <2>3, <2>4 DEF LoopInv
  <2>. QED
    BY <2>5, <2>6 DEF LifetimeInv
<1>4. CASE VisitWaiting
  <2>1. /\ AtSlot /\ cursor' = cursor + 1 /\ state' = state /\ work' = work
        /\ Waiting(work.orders[cursor])
    BY <1>4 DEF VisitWaiting
  <2>2. /\ cursor \in Slots /\ cursor # Idle /\ ~(cursor < cursor)
    BY <2>1, CoreAssumption DEF AtSlot, Slots, Idle
  <2>3. ASSUME work.orders[cursor].active
        PROVE  LivesAt(work.orders[cursor], state.t + 1)
    <3>1. LivesAt(work.orders[cursor], state.t)
      BY <2>2, <2>3 DEF LifetimeInv, LoopInv
    <3>2. state.t < work.orders[cursor].eligible /\ work.orders[cursor] \in Order
      BY <1>0, <2>1, <2>2, <2>3 DEF Waiting, Orders
    <3>. QED
      BY <1>0, <3>1, <3>2 DEF LivesAt, Order
  <2>. QED
    BY <2>1, <2>3, LoopAdvances
<1>5. ASSUME NEW draw \in Draws, VisitFill(draw) PROVE LifetimeInv'
  <2>1. /\ AtSlot /\ cursor' = cursor + 1 /\ state' = state
        /\ work'.orders = [work.orders EXCEPT ![cursor] = NoOrder]
    BY <1>5 DEF VisitFill
  <2>2. ~NoOrder.active
    BY DEF NoOrder
  <2>. HIDE DEF NoOrder
  <2>3. /\ \A i \in Slots \ {cursor} : work'.orders[i] = work.orders[i]
        /\ ~work'.orders[cursor].active
    BY <1>0, <2>1, <2>2 DEF Orders, AtSlot
  <2>. QED
    BY <2>1, <2>3, LoopAdvances
<1>6. CASE VisitMiss
  <2> DEFINE order == work.orders[cursor]
  <2>1. /\ AtSlot /\ cursor' = cursor + 1 /\ state' = state
        /\ work'.orders = [work.orders EXCEPT ![cursor] = Aged(order)]
        /\ ~Waiting(order) /\ ~Triggers(order, market[state.t])
    BY <1>6 DEF VisitMiss, TypeOK, WorkType
  <2>2. /\ cursor \in Slots /\ cursor # Idle /\ ~(cursor < cursor)
    BY <2>1, CoreAssumption DEF AtSlot, Slots, Idle
  <2>3. order \in Order
    BY <1>0, <2>2 DEF Orders
  <2>4. /\ order.active /\ order.eligible <= state.t /\ order.kind = "limit"
    BY <1>0, <2>1, <2>3 DEF Waiting, Triggers, Order, Kinds
  <2>5. LivesAt(order, state.t)
    BY <2>2, <2>4 DEF LifetimeInv, LoopInv
  <2>6. Aged(order).active => LivesAt(Aged(order), state.t + 1)
    <3>1. CASE order.ttl - 1 <= 0
      BY <3>1 DEF Aged, NoOrder
    <3>2. CASE ~(order.ttl - 1 <= 0)
      <4> DEFINE aged == [order EXCEPT !.ttl = order.ttl - 1]
      <4>1. /\ aged.ttl = order.ttl - 1 /\ aged.eligible = order.eligible
            /\ aged.kind = order.kind
        BY <2>3 DEF Order
      <4>. HIDE DEF aged
      <4>2. LivesAt(aged, state.t + 1)
        BY <1>0, <2>3, <2>4, <2>5, <3>2, <4>1 DEF LivesAt, Order
      <4>. QED
        BY <3>2, <4>2 DEF Aged, aged
    <3>. QED
      BY <3>1, <3>2
  <2>7. /\ \A i \in Slots \ {cursor} : work'.orders[i] = work.orders[i]
        /\ work'.orders[cursor] = Aged(order)
    BY <1>0, <2>1, <2>2 DEF Orders
  <2>. QED
    BY <2>1, <2>6, <2>7, LoopAdvances
<1>7. CASE StepFinish
  <2>1. /\ cursor = Past /\ cursor' = Idle /\ cursor # Idle
        /\ state'.orders = work.orders
        /\ state'.t = NextBar(state.t)
    BY <1>7, CoreAssumption DEF StepFinish, Past, Idle
  <2>2. AtLastBar(state'.t) => state'.done
    BY <1>7, FinishedStep
  <2>3. \A i \in Slots : i < cursor
    BY <2>1, CoreAssumption DEF Past, Slots
  <2>4. ~state'.done => state'.t = state.t + 1
    BY <1>0, <2>1, <2>2, CoreAssumption DEF NextBar, AtLastBar
  <2>. QED
    BY <2>1, <2>3, <2>4 DEF LifetimeInv, OrderLifetime, LoopInv
<1>8. CASE UNCHANGED vars
  BY <1>8 DEF vars, LifetimeInv, OrderLifetime, LoopInv
<1>. QED
  BY <1>1, <1>2, <1>3, <1>4, <1>5, <1>6, <1>7, <1>8 DEF Next, Visit

\* The lifetime invariant holds, at the visited slot and at the others.
LEMMA LifetimeInvariant == Spec => []LifetimeInv
<1>1. Init => LifetimeInv
  <2>1. ~NoOrder.active
    BY DEF NoOrder
  <2>. HIDE DEF NoOrder
  <2>. QED
    BY <2>1 DEF Init, LifetimeInv, OrderLifetime, LoopInv, InitialState
<1>. QED
  BY <1>1, TypeCorrect, LifetimeInvStep, PTL DEF Spec

\* No order outlives its latency and its time to live, however often it is
\* skipped, aged or replaced.
THEOREM OrderLifetimeHolds == Spec => []OrderLifetime
BY LifetimeInvariant, PTL DEF LifetimeInv

-----------------------------------------------------------------------------
(***************************************************************************)
(* The caller's view: the engine implements the abstract episode.          *)
(***************************************************************************)
LEMMA EpisodeInit == Init => AsEpisode!Init
<1>. SUFFICES ASSUME Init PROVE AsEpisode!Init
  OBVIOUS
<1>1. state.t = 0 /\ state.units = 0
  BY DEF Init, InitialState
<1>2. state.done = FALSE
  BY Zenon DEF Init, InitialState
<1>. QED
  BY <1>1, <1>2 DEF AsEpisode!Init

\* Every step of the engine is a step of the abstract episode or a stutter.
LEMMA EpisodeStep ==
  TypeOK /\ TypeOK' /\ LifetimeInv /\ [Next]_vars => [AsEpisode!Next]_(AsEpisode!vars)
<1>. SUFFICES ASSUME TypeOK, TypeOK', LifetimeInv, [Next]_vars
              PROVE  AsEpisode!Next \/ UNCHANGED AsEpisode!vars
  OBVIOUS
<1>1. CASE StepFinish
  <2> DEFINE nextT == NextBar(state.t)
             here == market[state.t].close
             there == market[nextT].close
  <2>1. PICK filled \in Book, marked \in Book :
           /\ nextT \in Bars /\ here \in Nat /\ there \in Nat
           /\ BookOf(work) \in Book
           /\ filled = Settle(BookOf(work), here)
           /\ marked = Settle(filled, there)
           /\ state'.t = nextT
           /\ state'.done = (\/ AtLastBar(nextT)
                             \/ ForcesClose(BookOf(work), here)
                             \/ ForcesClose(filled, there))
           /\ BookOf(state') = marked
    BY <1>1, FinishedStep
  <2>2. state'.units = marked.units
    BY <2>1 DEF BookOf
  <2>3. ~state.done
    BY <1>1, CoreAssumption DEF LifetimeInv, LoopInv, StepFinish, Past, Idle
  <2>4. /\ state'.t = IF state.t = N - 1 THEN state.t ELSE state.t + 1
        /\ AtLastBar(nextT) <=> state'.t = N - 1
    BY <2>1, NextBarType DEF TypeOK, StateType
  <2>. HIDE DEF here, there, nextT
  <2>5. CASE ForcesClose(BookOf(work), here) \/ ForcesClose(filled, there)
    <3>1. ForcesClose(BookOf(work), here) => filled.units = 0
      BY <2>1, SettleIsSafe
    <3>2. filled.units = 0 => marked.units = 0
      BY <2>1, SettleFlat
    <3>3. ForcesClose(filled, there) => marked.units = 0
      BY <2>1, SettleIsSafe
    <3>4. (state'.units # 0) = FALSE
      BY <2>2, <2>5, <3>1, <3>2, <3>3
    <3>5. state'.done = TRUE
      BY <2>1, <2>5
    <3>6. AsEpisode!CloseOut
      BY <2>3, <2>4, <3>4, <3>5 DEF AsEpisode!CloseOut, AsEpisode!Tick
    <3>. QED
      BY <3>6 DEF AsEpisode!Next
  <2>6. CASE ~(ForcesClose(BookOf(work), here) \/ ForcesClose(filled, there))
    <3>1. state'.done = (state'.t = N - 1)
      BY <2>1, <2>4, <2>6
    <3>2. AsEpisode!Advance
      BY <2>3, <2>4, <3>1 DEF AsEpisode!Advance, AsEpisode!Tick
    <3>. QED
      BY <3>2 DEF AsEpisode!Next
  <2>. QED
    BY <2>5, <2>6
<1>2. ASSUME NEW start \in Bars, Reset(start) PROVE AsEpisode!Next
  <2>1. state' = InitialState(start)
    BY <1>2 DEF Reset
  <2>2. state'.t = start /\ state'.units = 0
    BY <2>1 DEF InitialState
  <2>3. state'.done = FALSE
    BY <2>1, Zenon DEF InitialState
  <2>4. AsEpisode!Restart(start)
    BY <2>2, <2>3 DEF AsEpisode!Restart
  <2>. QED
    BY <2>4 DEF AsEpisode!Next, AsEpisode!Bars, Bars
<1>3. CASE UNCHANGED <<market, state, earned>>
  BY <1>3 DEF AsEpisode!vars
<1>. QED
  BY <1>1, <1>2, <1>3, OnlyResetAndFinishPublish

\* For every configuration and every market, the engine's published state is
\* an episode: one bar per accepted step, an end at the last bar or at a
\* close-out that leaves no position, and nothing after the end but a reset.
THEOREM EngineImplementsEpisode == Spec => ImplementsEpisode
BY LifetimeInvariant, TypeCorrect, EpisodeInit, EpisodeStep, PTL
   DEF Spec, ImplementsEpisode, AsEpisode!Spec

-----------------------------------------------------------------------------
(***************************************************************************)
(* The slots, seen as one order per side.  A side's order is the one live  *)
(* on it, so that writing a slot writes the entry of that side.            *)
(***************************************************************************)
LEMMA RestingLive ==
  ASSUME NEW orders \in Orders, WellFormed(orders), NEW i \in Slots, orders[i].active
  PROVE  orders[i].side \in {Buy, Sell} /\ Resting(orders)[orders[i].side] = orders[i]
<1>1. orders[i].side \in {Buy, Sell}
  BY DEF WellFormed
<1>2. OwnSlots(orders, orders[i].side) = {i}
  BY DEF OwnSlots, WellFormed, OneLivePerSide
<1>. QED
  BY <1>1, <1>2 DEF Resting

\* What is not empty is a live order.
LEMMA RestingIsLive ==
  ASSUME NEW orders, NEW side \in {Buy, Sell}, Resting(orders)[side] # NoOrder
  PROVE  \E i \in Slots :
           orders[i].active /\ orders[i].side = side /\ Resting(orders)[side] = orders[i]
<1>1. OwnSlots(orders, side) # {}
  BY DEF Resting
<1>2. (CHOOSE i \in OwnSlots(orders, side) : TRUE) \in OwnSlots(orders, side)
  BY <1>1
<1>3. Resting(orders)[side] = orders[CHOOSE i \in OwnSlots(orders, side) : TRUE]
  BY <1>1 DEF Resting
<1>. QED
  BY <1>2, <1>3 DEF OwnSlots

\* A slot that belongs to a side, or to none, is written for that side.
LEMMA RestingWritten ==
  ASSUME NEW orders \in Orders, NEW side \in {Buy, Sell}, NEW i \in Slots, NEW order,
         order.active \/ order = NoOrder,
         order.active => order.side = side,
         orders[i].active => orders[i].side = side,
         \A j \in Slots : j # i /\ orders[j].active => orders[j].side # side
  PROVE  Resting([orders EXCEPT ![i] = order]) = [Resting(orders) EXCEPT ![side] = order]
<1> DEFINE written == [orders EXCEPT ![i] = order]
<1>1. /\ written[i] = order
      /\ \A j \in Slots : j # i => written[j] = orders[j]
  BY DEF Orders
<1>2. ~NoOrder.active
  BY DEF NoOrder
<1>. HIDE DEF written, NoOrder
<1>3. Resting(written)[side] = order
  <2>1. CASE order.active
    <3>1. OwnSlots(written, side) = {i}
      BY <1>1, <2>1 DEF OwnSlots
    <3>. QED
      BY <1>1, <3>1 DEF Resting
  <2>2. CASE ~order.active
    <3>1. OwnSlots(written, side) = {}
      BY <1>1, <2>2 DEF OwnSlots
    <3>2. order = NoOrder
      BY <2>2
    <3>. QED
      BY <3>1, <3>2 DEF Resting
  <2>. QED
    BY <2>1, <2>2
<1>4. ASSUME NEW other \in {Buy, Sell}, other # side
      PROVE  Resting(written)[other] = Resting(orders)[other]
  <2>1. OwnSlots(written, other) = OwnSlots(orders, other) /\ i \notin OwnSlots(orders, other)
    BY <1>1, <1>2, <1>4 DEF OwnSlots
  <2>2. \A j \in OwnSlots(orders, other) : written[j] = orders[j]
    BY <1>1, <2>1 DEF OwnSlots
  <2>3. CASE OwnSlots(orders, other) = {}
    BY <2>1, <2>3 DEF Resting
  <2>4. CASE OwnSlots(orders, other) # {}
    <3>1. (CHOOSE j \in OwnSlots(orders, other) : TRUE) \in OwnSlots(orders, other)
      BY <2>4
    <3>. QED
      BY <2>1, <2>2, <2>4, <3>1 DEF Resting
  <2>. QED
    BY <2>3, <2>4
<1>5. /\ Resting(written) = [s \in {Buy, Sell} |-> Resting(written)[s]]
      /\ Resting(orders) = [s \in {Buy, Sell} |-> Resting(orders)[s]]
  BY DEF Resting
<1>6. Resting(written) = [Resting(orders) EXCEPT ![side] = order]
  BY <1>3, <1>4, <1>5
<1>. QED
  BY <1>6 DEF written

\* Without orders both sides are empty.
LEMMA RestingEmpty ==
  ASSUME NEW start PROVE Resting(InitialState(start).orders) = AsTwoSidedBook!Empty
<1>1. ~NoOrder.active
  BY DEF NoOrder
<1>. HIDE DEF NoOrder
<1>2. \A side : OwnSlots(InitialState(start).orders, side) = {}
  BY <1>1 DEF InitialState, OwnSlots
<1>. QED
  BY <1>2 DEF Resting, AsTwoSidedBook!Empty

\* Between steps the copy is what was published.
CopyInv == cursor = Idle => work.orders = state.orders

LEMMA CopyInvStep == TypeOK /\ CopyInv /\ [Next]_vars => CopyInv'
<1>. SUFFICES ASSUME TypeOK, CopyInv, [Next]_vars PROVE CopyInv'
  OBVIOUS
<1>1. CASE (\E start \in Bars : Reset(start)) \/ StepFinish
  <2>1. work' = WorkOn(state')
    BY <1>1 DEF Reset, StepFinish
  <2>. QED
    BY <2>1 DEF WorkOn, CopyInv
<1>2. CASE StepWhenDone \/ (\E action \in Actions : StepRefused(action)) \/ UNCHANGED vars
  BY <1>2 DEF StepWhenDone, StepRefused, vars, CopyInv
<1>3. CASE (\E action \in Actions : Place(action)) \/ Visit
  <2>1. cursor' = cursor + 1 /\ cursor \in Nat
    BY <1>3, CoreAssumption
       DEF Place, StepHold, StepPlace, Visit, VisitWaiting, VisitFill, VisitMiss,
           TypeOK, Idle, Past
  <2>. QED
    BY <2>1 DEF CopyInv, Idle
<1>. QED
  BY <1>1, <1>2, <1>3 DEF Next

\* An order that was eligible at a bar and outlives it has paid for it.
LEMMA PaidUp ==
  ASSUME NEW order \in Order, NEW t \in Nat, LivesAt(order, t + 1), order.eligible <= t
  PROVE  order.ttl = LimitTtlBars - (t + 1 - order.eligible)
<1>1. order.eligible \in Nat /\ order.ttl \in Int
  BY DEF Order
<1>2. ~(t + 1 <= order.eligible)
  BY <1>1
<1>. QED
  BY <1>1, <1>2, CoreAssumption DEF LivesAt

\* Every step of the engine is a step of the two-sided book or a stutter.
LEMMA BookStep ==
  TypeOK /\ TypeOK' /\ SlotsInv /\ SlotsInv' /\ LifetimeInv /\ CopyInv /\ [Next]_vars
  => [AsTwoSidedBook!Next]_(AsTwoSidedBook!vars)
<1>. SUFFICES ASSUME TypeOK, TypeOK', SlotsInv, SlotsInv', LifetimeInv, CopyInv, [Next]_vars
              PROVE  AsTwoSidedBook!Next \/ UNCHANGED AsTwoSidedBook!vars
  OBVIOUS
<1>0. /\ work.orders \in Orders /\ work'.orders \in Orders
      /\ WellFormed(work.orders) /\ WellFormed(work'.orders)
      /\ state.t \in Bars /\ state.t \in Nat /\ N \in Nat \ {0}
  BY CoreAssumption DEF TypeOK, StateType, WorkType, SlotsInv, Bars
<1>1. ASSUME NEW start \in Bars, Reset(start) PROVE AsTwoSidedBook!Next
  <2>1. state' = InitialState(start) /\ work' = WorkOn(state')
    BY <1>1 DEF Reset
  <2>2. state'.t = start /\ work'.orders = InitialState(start).orders
    BY <2>1 DEF InitialState, WorkOn
  <2>3. start \in Nat
    BY CoreAssumption DEF Bars
  <2>4. AsTwoSidedBook!Restart
    BY <2>2, <2>3, RestingEmpty DEF AsTwoSidedBook!Restart
  <2>. QED
    BY <2>4 DEF AsTwoSidedBook!Next
<1>2. CASE \/ StepWhenDone \/ VisitWaiting \/ UNCHANGED vars
           \/ \E action \in Actions : StepRefused(action) \/ StepHold(action)
  <2>1. state' = state /\ work'.orders = work.orders
    BY <1>2 DEF StepWhenDone, VisitWaiting, StepRefused, StepHold, vars, WorkOn,
                CopyInv, Ready
  <2>. QED
    BY <2>1 DEF AsTwoSidedBook!vars
<1>3. ASSUME NEW action \in Actions, StepPlace(action) PROVE AsTwoSidedBook!Next
  <2> DEFINE order == NewOrder(action, state.t)
  <2>1. PICK i \in SlotsFor(state.orders, action.side) :
          work' = [WorkOn(state) EXCEPT !.orders[i] = order]
    BY <1>3 DEF StepPlace
  <2>2. /\ work'.orders = [work.orders EXCEPT ![i] = order] /\ state' = state
        /\ work.orders = state.orders
    BY <1>3, <2>1 DEF WorkOn, StepPlace, CopyInv, Ready
  <2>3. i \in Slots /\ (work.orders[i].active => work.orders[i].side = action.side)
    BY <2>1, <2>2 DEF SlotsFor, OwnSlots, FreeSlots
  <2>4. action.side \in {Buy, Sell}
    BY <1>3, CoreAssumption DEF Action, StepPlace
  <2>5. /\ order.active /\ order.side = action.side
        /\ order.eligible = state.t + MarketLatencyBars
    BY DEF NewOrder
  <2>. HIDE DEF order
  <2>6. work'.orders[i] = order /\ \A j \in Slots : j # i => work'.orders[j] = work.orders[j]
    BY <1>0, <2>2, <2>3 DEF Orders
  <2>7. \A j \in Slots : j # i /\ work.orders[j].active => work.orders[j].side # action.side
    BY <1>0, <2>3, <2>5, <2>6 DEF WellFormed, OneLivePerSide
  <2>8. Resting(work'.orders) = [Resting(work.orders) EXCEPT ![action.side] = order]
    BY <1>0, <2>2, <2>3, <2>4, <2>5, <2>7, RestingWritten
  <2>9. order \in {NewOrder(a, t) : a \in Actions, t \in Bars}
    BY <1>0 DEF order
  <2>10. AsTwoSidedBook!Submit(action.side)
    <3>1. \E new \in {NewOrder(a, t) : a \in Actions, t \in Bars} :
            /\ new.side = action.side
            /\ new.eligible = state.t + MarketLatencyBars
            /\ Resting(work.orders)' = [Resting(work.orders) EXCEPT ![action.side] = new]
      <4>. WITNESS order \in {NewOrder(a, t) : a \in Actions, t \in Bars}
      <4>. QED
        BY <2>5, <2>8
    <3>2. state'.t = state.t
      BY <2>2
    <3>. QED
      BY <3>1, <3>2, SMTT(60) DEF AsTwoSidedBook!Submit
  <2>. QED
    BY <2>4, <2>10 DEF AsTwoSidedBook!Next
<1>visit. ASSUME AtSlot, ~Waiting(work.orders[cursor])
          PROVE  LET order == work.orders[cursor]
                 IN  /\ cursor \in Slots /\ order.active /\ order.side \in {Buy, Sell}
                     /\ Resting(work.orders)[order.side] = order
                     /\ AsTwoSidedBook!Eligible(order.side)
                     /\ \A j \in Slots : j # cursor /\ work.orders[j].active
                                           => work.orders[j].side # order.side
  <2> DEFINE order == work.orders[cursor]
  <2>1. cursor \in Slots /\ order.active /\ ~(state.t < order.eligible) /\ order \in Order
    BY <1>0, <1>visit DEF AtSlot, Waiting, Orders
  <2>2. order.side \in {Buy, Sell} /\ Resting(work.orders)[order.side] = order
    BY <1>0, <2>1, RestingLive
  <2>3. order # NoOrder /\ order.eligible <= state.t
    BY <1>0, <2>1 DEF NoOrder, Order
  <2>4. AsTwoSidedBook!Eligible(order.side)
    BY <2>2, <2>3 DEF AsTwoSidedBook!Eligible
  <2>5. \A j \in Slots : j # cursor /\ work.orders[j].active
                           => work.orders[j].side # order.side
    BY <1>0, <2>1 DEF WellFormed, OneLivePerSide
  <2>. QED
    BY <2>1, <2>2, <2>4, <2>5
<1>leave. ASSUME AtSlot, ~Waiting(work.orders[cursor]), state' = state,
                 work'.orders = [work.orders EXCEPT ![cursor] = NoOrder]
          PROVE  AsTwoSidedBook!Next
  <2> DEFINE side == work.orders[cursor].side
  <2>1. /\ cursor \in Slots /\ side \in {Buy, Sell} /\ AsTwoSidedBook!Eligible(side)
        /\ \A j \in Slots : j # cursor /\ work.orders[j].active => work.orders[j].side # side
    BY <1>visit, <1>leave
  <2>2. ~NoOrder.active
    BY DEF NoOrder
  <2>3. Resting(work'.orders) = [Resting(work.orders) EXCEPT ![side] = NoOrder]
    BY <1>0, <1>leave, <2>1, <2>2, RestingWritten
  <2>4. AsTwoSidedBook!Leave(side)
    BY <1>leave, <2>1, <2>3 DEF AsTwoSidedBook!Leave
  <2>. QED
    BY <2>1, <2>4 DEF AsTwoSidedBook!Next
<1>4. ASSUME NEW draw \in Draws, VisitFill(draw) PROVE AsTwoSidedBook!Next
  <2>1. /\ AtSlot /\ ~Waiting(work.orders[cursor]) /\ state' = state
        /\ work'.orders = [work.orders EXCEPT ![cursor] = NoOrder]
    BY <1>4 DEF VisitFill
  <2>. QED
    BY <1>leave, <2>1
<1>5. CASE VisitMiss
  <2> DEFINE order == work.orders[cursor]
  <2>1. /\ AtSlot /\ ~Waiting(order) /\ ~Triggers(order, market[state.t]) /\ state' = state
        /\ work'.orders = [work.orders EXCEPT ![cursor] = Aged(order)]
    BY <1>5 DEF VisitMiss, TypeOK, WorkType
  <2>2. CASE Aged(order) = NoOrder
    BY <1>leave, <2>1, <2>2
  <2>3. CASE Aged(order) # NoOrder
    <3> DEFINE side == order.side
               aged == [order EXCEPT !.ttl = order.ttl - 1]
    <3>1. /\ cursor \in Slots /\ side \in {Buy, Sell} /\ AsTwoSidedBook!Eligible(side)
          /\ order.active /\ Resting(work.orders)[side] = order
          /\ \A j \in Slots : j # cursor /\ work.orders[j].active
                                => work.orders[j].side # side
      BY <1>visit, <2>1
    <3>2. order \in Order
      BY <1>0, <3>1 DEF Orders
    <3>3. Aged(order) = aged /\ order.ttl > 1
      BY <2>3, <3>2 DEF Aged, Order
    <3>4. order.kind = "limit"
      BY <2>1, <3>2 DEF Triggers, Order, Kinds
    <3>5. aged.active = order.active /\ aged.side = side
      BY <3>2 DEF Order
    <3>6. Resting(work'.orders) = [Resting(work.orders) EXCEPT ![side] = aged]
      <4>. HIDE DEF aged
      <4>1. aged.active /\ aged.side = side
        BY <3>1, <3>5
      <4>2. work'.orders = [work.orders EXCEPT ![cursor] = aged]
        BY <2>1, <3>3
      <4>. QED
        BY <1>0, <3>1, <4>1, <4>2, RestingWritten
    <3>7. [Resting(work.orders) EXCEPT ![side] = aged]
            = [Resting(work.orders) EXCEPT ![side].ttl = Resting(work.orders)[side].ttl - 1]
      BY <3>1
    <3>8. AsTwoSidedBook!Survive(side)
      BY <2>1, <3>1, <3>3, <3>4, <3>6, <3>7 DEF AsTwoSidedBook!Survive
    <3>. QED
      BY <3>1, <3>8 DEF AsTwoSidedBook!Next
  <2>. QED
    BY <2>2, <2>3
<1>6. CASE StepFinish
  <2>1. /\ cursor = Past /\ state'.t = NextBar(state.t)
        /\ work'.orders = work.orders
    BY <1>6 DEF StepFinish, WorkOn
  <2>2. CASE NextBar(state.t) = state.t
    BY <2>1, <2>2 DEF AsTwoSidedBook!vars
  <2>3. CASE NextBar(state.t) # state.t
    <3>1. state'.t = state.t + 1
      BY <1>0, <2>1, <2>3 DEF NextBar, Bars
    <3>2. ASSUME NEW side \in {Buy, Sell}, AsTwoSidedBook!Eligible(side)
          PROVE  AsTwoSidedBook!Paid(side)
      <4>1. /\ Resting(work.orders)[side] # NoOrder
            /\ Resting(work.orders)[side].eligible <= state.t
        BY <3>2 DEF AsTwoSidedBook!Eligible
      <4>2. PICK i \in Slots : /\ work.orders[i].active
                               /\ Resting(work.orders)[side] = work.orders[i]
        BY <4>1, RestingIsLive
      <4>3. cursor # Idle /\ i < cursor
        BY <2>1, CoreAssumption DEF Past, Idle, Slots
      <4>4. LivesAt(work.orders[i], state.t + 1)
        BY <4>2, <4>3 DEF LifetimeInv, LoopInv
      <4>5. work.orders[i] \in Order
        BY <1>0 DEF Orders
      <4>6. /\ work.orders[i].eligible \in Nat /\ work.orders[i].eligible <= state.t
            /\ ~(state.t + 1 <= work.orders[i].eligible)
        BY <1>0, <4>1, <4>2, <4>5 DEF Order
      <4>7. work.orders[i].ttl = LimitTtlBars - (state.t + 1 - work.orders[i].eligible)
        BY <1>0, <4>4, <4>5, <4>6, PaidUp
      <4>. QED
        BY <4>2, <4>7 DEF AsTwoSidedBook!Paid
    <3>3. AsTwoSidedBook!Tick
      BY <2>1, <3>1, <3>2 DEF AsTwoSidedBook!Tick
    <3>. QED
      BY <3>3 DEF AsTwoSidedBook!Next
  <2>. QED
    BY <2>2, <2>3
<1>. QED
  BY <1>1, <1>2, <1>3, <1>4, <1>5, <1>6 DEF Next, Place, Visit

\* For any number of slots, any latency and any time to live, the slots are one
\* order per side: replaced by the next of its side, gone when it fills or
\* expires, and charged for every bar it could have filled on.
THEOREM EngineImplementsTwoSidedBook == Spec => ImplementsTwoSidedBook
<1>1. Init => AsTwoSidedBook!Init /\ CopyInv
  <2>. SUFFICES ASSUME Init PROVE AsTwoSidedBook!Init /\ CopyInv
    OBVIOUS
  <2>1. state = InitialState(0) /\ work = WorkOn(state)
    BY DEF Init
  <2>2. state.t = 0 /\ work.orders = InitialState(0).orders /\ work.orders = state.orders
    BY <2>1 DEF InitialState, WorkOn
  <2>. QED
    BY <2>2, RestingEmpty DEF AsTwoSidedBook!Init, CopyInv
<1>. QED
  BY <1>1, CopyInvStep, BookStep, TypeCorrect, SlotsInvariant, LifetimeInvariant, PTL
     DEF Spec, ImplementsTwoSidedBook, AsTwoSidedBook!Spec
=============================================================================
