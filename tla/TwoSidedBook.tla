---------------------------- MODULE TwoSidedBook ----------------------------
(***************************************************************************)
(* What the order slots promise: however many slots there are, the caller  *)
(* has one order to buy and one order to sell.  A new order replaces the   *)
(* one on its side; an order leaves by filling or expiring; until then a   *)
(* bar it was eligible for and did not fill on costs it one bar of life.   *)
(***************************************************************************)
EXTENDS Integers

CONSTANTS Sides,    \* the two sides
          Orders,   \* the orders that may be submitted
          None,     \* no order on this side
          Latency,  \* bars between submission and eligibility
          Ttl       \* eligible bars an order may go unfilled

VARIABLES now,      \* the current bar
          resting   \* the order of each side, or None

vars == <<now, resting>>

Empty == [side \in Sides |-> None]

Init == now = 0 /\ resting = Empty

Submit(side) ==
  /\ \E order \in Orders :
       /\ order.side = side
       /\ order.eligible = now + Latency
       /\ resting' = [resting EXCEPT ![side] = order]
  /\ UNCHANGED now

Eligible(side) == resting[side] # None /\ resting[side].eligible <= now

Leave(side) ==
  /\ Eligible(side)
  /\ resting' = [resting EXCEPT ![side] = None]
  /\ UNCHANGED now

\* Only a limit order survives a bar it was eligible for.
Survive(side) ==
  /\ Eligible(side)
  /\ resting[side].kind = "limit"
  /\ resting[side].ttl > 1
  /\ resting' = [resting EXCEPT ![side].ttl = @ - 1]
  /\ UNCHANGED now

\* No bar passes before every order it makes eligible has filled, expired or
\* paid for it.
Paid(side) == resting[side].ttl = Ttl - (now + 1 - resting[side].eligible)

Tick ==
  /\ \A side \in Sides : Eligible(side) => Paid(side)
  /\ now' = now + 1
  /\ UNCHANGED resting

Restart == now' \in Nat /\ resting' = Empty

Next ==
  \/ \E side \in Sides : Submit(side) \/ Leave(side) \/ Survive(side)
  \/ Tick
  \/ Restart

Spec == Init /\ [][Next]_vars
=============================================================================
