------------------------------ MODULE Episode ------------------------------
(***************************************************************************)
(* What an episode of the simulator promises its caller, and nothing of    *)
(* how: a clock that moves one bar per accepted step and never past the    *)
(* last bar, an end that comes at the last bar or when the account is      *)
(* closed out, and no open position after a close-out.                     *)
(***************************************************************************)
EXTENDS Integers

CONSTANT N   \* number of bars, at least one

VARIABLES t,        \* the bar the caller sees
          over,     \* the episode has ended
          exposed   \* a position is open

vars == <<t, over, exposed>>

Bars == 0 .. N - 1

Init == t = 0 /\ over = FALSE /\ exposed = FALSE

Tick == t' = IF t = N - 1 THEN t ELSE t + 1

\* A step of an account that is not closed out.
Advance ==
  /\ ~over
  /\ Tick
  /\ over' = (t' = N - 1)
  /\ exposed' \in BOOLEAN

\* A step whose fills, or whose new mark, close the account out.
CloseOut ==
  /\ ~over
  /\ Tick
  /\ over' = TRUE
  /\ exposed' = FALSE

Restart(start) == t' = start /\ over' = FALSE /\ exposed' = FALSE

Next == Advance \/ CloseOut \/ \E start \in Bars : Restart(start)

Spec == Init /\ [][Next]_vars
=============================================================================
