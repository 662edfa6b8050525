------------------------------- MODULE Margin -------------------------------
(***************************************************************************)
(* The margin arithmetic of core.py, exact and without state.              *)
(*                                                                         *)
(* Units.  The code divides basis points by 10_000; here Scale stands for  *)
(* 10_000 and nothing is divided, so every amount is an integer:           *)
(*   - a market or limit price p is an integer;                            *)
(*   - an execution price is counted in 1/Scale of that;                   *)
(*   - money (cash, equity, margin) is counted in 1/(Scale * Scale);       *)
(*   - a position is counted in the smallest quantity a fill may have.     *)
(* What is abstracted is the rounding of binary floating point, nothing    *)
(* else: the one quotient of the code, the largest size a fill may have,   *)
(* is rounded down to a whole quantity.                                    *)
(***************************************************************************)
EXTENDS Integers

CONSTANTS Scale,               \* what one basis-point unit is a fraction of
          FeeBps,              \* config.fee_bps
          SlippageBps,         \* config.slippage_bps
          MaxLeverage,         \* config.max_leverage
          MaintenanceRateBps,  \* config.maintenance_margin_rate, in 1/Scale
          MaintenanceAmount    \* config.maintenance_amount, in money

ASSUME MarginAssumption ==
  /\ Scale \in Nat \ {0}
  /\ FeeBps \in Nat
  /\ SlippageBps \in 0 .. Scale
  /\ MaxLeverage \in Int
  /\ MaintenanceRateBps \in Nat
  /\ MaintenanceAmount \in Nat

Magnitude(x) == IF x < 0 THEN -x ELSE x

\* A book is [cash, units]: what CoreState.portfolio holds.
Book == [cash : Int, units : Int]

\* The book marked at a price counted in 1/Scale, and at a market price.
EquityAt(book, x) == book.cash + book.units * x * Scale
Equity(book, price) == EquityAt(book, price * Scale)

-----------------------------------------------------------------------------
\* (The names with a suffix are faulty variants of the definition that follows
\* them; no specification uses them.)
ExecutionPrice_Favourable(price, requested) ==
  IF requested > 0 THEN price * (Scale - SlippageBps)
                   ELSE price * (Scale + SlippageBps)

\* Slippage moves the price against the trader.
ExecutionPrice(price, requested) ==
  IF requested > 0 THEN price * (Scale + SlippageBps)
                   ELSE price * (Scale - SlippageBps)

ExecuteTrade(book, signed, x) ==
  [cash  |-> book.cash - (signed * x * Scale + Magnitude(signed) * x * FeeBps),
   units |-> book.units + signed]

\* A fill that does not grow the position.
DeRisks(book, signed) == Magnitude(book.units + signed) <= Magnitude(book.units)

\* Leverage at x is at most the cap, multiplied through.
WithinCap(book, x) ==
  Magnitude(book.units) * x * Scale <= MaxLeverage * EquityAt(book, x)

\* The numerator of the code's quotient, its denominator, and the largest
\* size it allows.
Cap == IF MaxLeverage > 0 THEN MaxLeverage ELSE 0
Direction(signed) == IF signed > 0 THEN 1 ELSE -1
Headroom(book, signed, x) ==
  Cap * EquityAt(book, x) - Direction(signed) * book.units * x * Scale
UnitMargin_WithoutFee(x) == x * Scale
UnitMargin(x) == x * (Scale + Cap * FeeBps)

\* The size a requested fill is given.
ClipUnits(book, signed, x) ==
  LET after   == ExecuteTrade(book, signed, x)
      allowed == Headroom(book, signed, x) \div UnitMargin(x)
  IN  IF \/ x <= 0
         \/ DeRisks(book, signed)
         \/ EquityAt(after, x) > 0 /\ WithinCap(after, x)
        THEN signed
      ELSE IF allowed <= 0
        THEN 0
      ELSE Direction(signed) *
           (IF allowed < Magnitude(signed) THEN allowed ELSE Magnitude(signed))

-----------------------------------------------------------------------------
\* What an open position must keep to stay open, and whether it does.
MaintenanceMargin(units, price) ==
  LET required == Magnitude(units) * price * Scale * MaintenanceRateBps
                  - MaintenanceAmount
  IN  IF required > 0 THEN required ELSE 0

BelowMaintenance(book, price) ==
  /\ book.units * price # 0
  /\ Equity(book, price) < MaintenanceMargin(book.units, price)

Insolvent(book, price) == Equity(book, price) <= 0

\* Turn the whole position into cash at a price.
Liquidate(book, price) == [cash |-> Equity(book, price), units |-> 0]

\* The two checks that run at one mark, the maintenance check first: the book
\* they leave, and whether either of them closed it.
SettleMaintenance(book, price) ==
  IF BelowMaintenance(book, price) THEN Liquidate(book, price) ELSE book

SettleInsolvency(book, price) ==
  IF Insolvent(book, price) THEN Liquidate(book, price) ELSE book

Settle_InsolvencyOnly(book, price) == SettleInsolvency(book, price)
Settle(book, price) == SettleInsolvency(SettleMaintenance(book, price), price)

ForcesClose(book, price) ==
  \/ BelowMaintenance(book, price)
  \/ Insolvent(SettleMaintenance(book, price), price)
=============================================================================
