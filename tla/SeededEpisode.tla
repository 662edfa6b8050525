--------------------------- MODULE SeededEpisode ---------------------------
(***************************************************************************)
(* What an environment promises whoever steps it, in a process or behind a *)
(* service, of the clock and the randomness of an episode: each step moves *)
(* one bar on, none is taken once the episode is over, and its draws come  *)
(* from one stream, each step's behind those of the step before it.  Some  *)
(* may be skipped, for steps that were refused or came too late.           *)
(***************************************************************************)
EXTENDS Integers

CONSTANTS N,       \* number of bars, at least one
          Streams  \* streams of draws

VARIABLES t,       \* the bar
          over,    \* the episode has ended
          stream,  \* where its draws come from
          used     \* every draw used so far lies before this one

vars == <<t, over, stream, used>>

Bars == 0 .. N - 1

Init == t = 0 /\ over = FALSE /\ stream \in Streams /\ used = 0

Step ==
  /\ ~over
  /\ t' = IF t = N - 1 THEN t ELSE t + 1
  /\ over' \in BOOLEAN
  /\ t' = N - 1 => over'
  /\ used' \in Nat /\ used' > used
  /\ UNCHANGED stream

Restart(start) == t' = start /\ over' = FALSE /\ stream' \in Streams /\ used' = 0

Next == Step \/ \E start \in Bars : Restart(start)

Spec == Init /\ [][Next]_vars
=============================================================================
