---------------------------- MODULE MCEngineCore ----------------------------
(* Small instances of EngineCore for TLC. *)
EXTENDS EngineCore

Flat(p)       == [open |-> p, high |-> p, low |-> p, close |-> p]
Wide(p, l, h, c) == [open |-> p, high |-> h, low |-> l, close |-> c]

\* A fall that takes a long book below its maintenance margin and then gaps it
\* past zero, a rise that does the same to a short one, and a quiet market
\* whose range reaches both limit prices.
Fall  == <<Flat(5), Flat(5), Wide(5, 3, 5, 4), Flat(1), Flat(1)>>
Rise  == <<Flat(3), Flat(3), Wide(3, 3, 5, 4), Flat(9), Flat(9)>>
Quiet == <<Flat(4), Wide(4, 4, 5, 4), Flat(4), Wide(4, 3, 5, 4), Flat(4)>>
FromZero(path) == [b \in Bars |-> path[b + 1]]
MCMarkets == {FromZero(path) : path \in {Fall, Rise, Quiet}}

Market(side, units)       == [side |-> side, units |-> units, kind |-> "market", limit |-> 0]
Limit(side, units, limit) == [side |-> side, units |-> units, kind |-> "limit", limit |-> limit]
Rest == [side |-> Hold, units |-> 0, kind |-> "market", limit |-> 0]

MCActions == {Rest, Market(Buy, 0), Market(Buy, 3), Market(Sell, 3),
              Limit(Buy, 2, 3), Limit(Sell, 2, 5)}
=============================================================================
