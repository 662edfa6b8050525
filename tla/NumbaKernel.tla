---------------------------- MODULE NumbaKernel ----------------------------
(***************************************************************************)
(* The compiled path (core.py: step_core_jit with its helpers, and the two *)
(* ways env.py reaches it), as one function of a published state, an       *)
(* encoded action and the draws of every slot.  NumbaParity checks it      *)
(* against the step of EngineCore, which the code writes a second time.    *)
(*                                                                         *)
(* An encoded action is [side, units, type, limit], with limit = NoPrice   *)
(* where the row holds a NaN.  The kernel compares codes with what it      *)
(* knows and takes any other for what is left: that is kept as it is.      *)
(***************************************************************************)
EXTENDS StepReport, FiniteSetsExt

CONSTANT NoPrice  \* NaN: no limit price in an encoded row, no price of a fill

ASSUME KernelAssumption == NoPrice \notin Int

MarketCode == 0
LimitCode  == 1

\* _action_side_code and the order type code: the sides are their own codes.
Encode(action) ==
  [side |-> action.side, units |-> action.units,
   type |-> IF action.kind = "limit" THEN LimitCode ELSE MarketCode,
   limit |-> action.limit]

\* What step_many hands the kernel for a row: no NaN, and the codes as they are
\* (they fit an int8, see NumbaParity).
Handed(row) == [row EXCEPT !.limit = IF @ = NoPrice THEN 0 ELSE @]
-----------------------------------------------------------------------------
\* The helpers, on a book and the numbers of the configuration.
KernelClip(cash, units, signed, x) ==
  LET size        == Magnitude(signed)
      equity      == cash + units * x * Scale
      equityAfter == equity - size * x * FeeBps
      unitsAfter  == Magnitude(units + signed)
      cap         == IF MaxLeverage > 0 THEN MaxLeverage ELSE 0
      direction   == IF signed > 0 THEN 1 ELSE -1
      allowed     == (cap * equity - direction * units * x * Scale)
                       \div (x * (Scale + cap * FeeBps))
  IN  IF x <= 0 THEN signed
      ELSE IF unitsAfter <= Magnitude(units) THEN signed
      ELSE IF equityAfter > 0 /\ unitsAfter * x * Scale <= MaxLeverage * equityAfter
        THEN signed
      ELSE IF allowed <= 0 THEN 0
      ELSE direction * Min({allowed, size})

KernelMargin(notional) ==
  Max({Magnitude(notional) * Scale * MaintenanceRateBps - MaintenanceAmount, 0})

KernelBelow(equity, notional) == notional # 0 /\ equity < KernelMargin(notional)

KernelLiquidate(book, price) ==
  [cash |-> book.cash + book.units * price * Scale * Scale, units |-> 0]

\* (The names with a suffix, here and below, are faulty variants of the
\* definition that follows them; no specification uses them.)
KernelSettle_FlagOnly(book, price) ==
  LET equity == book.cash + book.units * price * Scale * Scale
      below  == KernelBelow(equity, Magnitude(book.units) * price)
  IN  [book |-> IF equity <= 0 THEN KernelLiquidate(book, price) ELSE book,
       closed |-> below \/ equity <= 0]

\* The two settlements at one mark, and whether either closed the book.
KernelSettle(book, price) ==
  LET equity  == book.cash + book.units * price * Scale * Scale
      below   == KernelBelow(equity, Magnitude(book.units) * price)
      kept    == IF below THEN KernelLiquidate(book, price) ELSE book
      broke   == kept.cash + kept.units * price * Scale * Scale <= 0
  IN  [book |-> IF broke THEN KernelLiquidate(kept, price) ELSE kept,
       closed |-> below \/ broke]
-----------------------------------------------------------------------------
\* The last fill: the kernel counts slots from 0 and has no None, its wrappers
\* turn what it gives for no fill back into one.
NoFillSlot == -1
SlotFromJit_NotTheFirst(slot) == IF slot <= 0 THEN NoSlot ELSE slot + 1
SlotFromJit(slot) == IF slot < 0 THEN NoSlot ELSE slot + 1
PriceFromJit(price) == IF price = NoPrice THEN NoFill.price ELSE price

KernelSlot_FreeOnly(orders, side) ==
  LET free == {i \in Slots : ~orders[i].active}
  IN  IF free # {} THEN Min(free) ELSE 0

\* The first slot live on this side, else the first free one, else none.
KernelSlot(orders, side) ==
  LET own  == {i \in Slots : orders[i].active /\ orders[i].side = side}
      free == {i \in Slots : ~orders[i].active}
  IN  IF own # {} THEN Min(own) ELSE IF free # {} THEN Min(free) ELSE 0

KernelRefuses(s, handed) ==
  /\ ~s.done
  /\ handed.side # 0
  /\ handed.units <= 0 \/ KernelSlot(s.orders, handed.side) = 0

KindOf(code) == IF code = MarketCode THEN "market" ELSE "limit"

KernelPlace(s, handed) ==
  IF handed.side = 0 THEN s.orders
  ELSE [s.orders EXCEPT ![KernelSlot(s.orders, handed.side)] =
          [active |-> TRUE, side |-> handed.side, kind |-> KindOf(handed.type),
           units |-> handed.units, limit |-> handed.limit,
           eligible |-> s.t + MarketLatencyBars, ttl |-> LimitTtlBars]]

\* The loop body at slot i of the working state w.
KernelVisit(w, i, t, draw) ==
  LET order     == w.orders[i]
      bar       == market[t]
      atLimit   == \/ order.side = 1 /\ bar.low <= order.limit
                   \/ order.side = -1 /\ bar.high >= order.limit
      filled    == order.kind = "market" \/ atLimit
      price     == IF order.kind = "market" THEN bar.open ELSE order.limit
      requested == order.side * order.units * draw
      x         == IF requested > 0 THEN price * (Scale + SlippageBps)
                                    ELSE price * (Scale - SlippageBps)
      signed    == KernelClip(w.cash, w.units, requested, x)
      fee       == Magnitude(signed) * x * FeeBps
      ttl       == order.ttl - 1
  IN  IF ~order.active \/ t < order.eligible THEN w
      ELSE IF filled
        THEN [cash |-> w.cash - (signed * x * Scale + fee),
              units |-> w.units + signed,
              orders |-> [w.orders EXCEPT ![i] = NoOrder],
              fills |-> w.fills + 1, slot |-> i - 1, price |-> x]
      ELSE [w EXCEPT !.orders[i] = IF ttl <= 0 THEN NoOrder ELSE [@ EXCEPT !.ttl = ttl]]

\* The working state before the loop, then after each slot in index order.
KernelStart(s, handed) ==
  [cash |-> s.cash, units |-> s.units, orders |-> KernelPlace(s, handed),
   fills |-> 0, slot |-> NoFillSlot, price |-> NoPrice]
KernelAfter(s, handed, draws) ==
  LET after[i \in 0 .. MaxOrders] ==
        IF i = 0 THEN KernelStart(s, handed)
                 ELSE KernelVisit(after[i - 1], i, s.t, draws[i])
  IN  after
KernelLoop(s, handed, draws) == KernelAfter(s, handed, draws)[MaxOrders]

\* The change of equity, from the published book at this bar's close to the
\* new book at the next one's.
KernelDelta(s, close, book, mark) ==
  (book.cash + book.units * mark * Scale * Scale) - (s.cash + s.units * close * Scale * Scale)

\* The early return of a finished episode.
KernelFinished(s) == [state |-> s, fills |-> 0, delta |-> 0, last |-> NoFill]

\* step_core_jit and its wrapper: the next state, the fills, the change of equity
\* and the last fill.
KernelStep(s, handed, draws) ==
  IF s.done THEN KernelFinished(s)
  ELSE
    LET looped == KernelLoop(s, handed, draws)
        close  == market[s.t].close
        filled == KernelSettle([cash |-> looped.cash, units |-> looped.units], close)
        nextT  == IF s.t + 1 >= N THEN N - 1 ELSE s.t + 1
        mark   == market[nextT].close
        marked == KernelSettle(filled.book, mark)
        book   == marked.book
    IN  [state |-> [t |-> nextT,
                    done |-> nextT >= N - 1 \/ filled.closed \/ marked.closed,
                    cash |-> book.cash, units |-> book.units,
                    orders |-> looped.orders],
         fills |-> looped.fills,
         delta |-> KernelDelta(s, close, book, mark),
         last |-> [slot |-> SlotFromJit(looped.slot), price |-> PriceFromJit(looped.price)]]
=============================================================================
