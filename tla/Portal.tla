------------------------------- MODULE Portal -------------------------------
(***************************************************************************)
(* The market portal (portal.py): the window handle an observation carries *)
(* and the rows a client may fetch, both cut off at the current bar.       *)
(*                                                                         *)
(* The clock is the environment's.  A client observes, keeps the handle,   *)
(* and fetches rows at some later bar, with the handle's bounds, with      *)
(* bounds of its own, or with none; the clock moves on in between.  A row  *)
(* is the index of its bar: the prices are the same slice of each series.  *)
(***************************************************************************)
EXTENDS Integers

CONSTANTS N,                  \* number of bars
          ObservationWindow,  \* config.observation_window
          MaxRows,            \* _MAX_WINDOW_ROWS
          Bounds,             \* bounds a client may send
          None                \* a bound left out; no handle; no reply

ASSUME PortalAssumption ==
  /\ N \in Nat \ {0}
  /\ ObservationWindow \in Nat
  /\ MaxRows \in Nat
  /\ Bounds \subseteq Int
  /\ None \notin Int

VARIABLES t,       \* the current bar
          handle,  \* the last handle observed in this episode, or None
          reply    \* the last window served, with its request, or None

vars == <<t, handle, reply>>

Bars == 0 .. N - 1
Bound == Bounds \cup {None}

Larger(a, b)  == IF a >= b THEN a ELSE b
Smaller(a, b) == IF a <= b THEN a ELSE b
-----------------------------------------------------------------------------
\* (The names with a suffix, here and below, are faulty variants of the
\* definition that follows them; no specification uses them.)
ViewHandle_Ahead(bar) ==
  [start |-> Larger(0, bar + 1 - ObservationWindow), end |-> bar + 2]

\* The observation window of a bar.
ViewHandle(bar) ==
  [start |-> Larger(0, bar + 1 - ObservationWindow), end |-> bar + 1]

ResolvedEnd_Unclamped(bar, end) == IF end = None THEN bar + 1 ELSE Larger(0, end)

\* The bounds as asked, then clamped into the bars seen so far.
ResolvedEnd(bar, end) ==
  LET asked == IF end = None THEN bar + 1 ELSE Smaller(end, bar + 1)
  IN  Larger(0, asked)

ResolvedStart(bar, start, end) ==
  LET asked == IF start # None THEN Larger(0, start)
               ELSE IF end # None THEN 0
               ELSE Larger(0, bar + 1 - ObservationWindow)
  IN  Larger(0, Smaller(asked, ResolvedEnd(bar, end)))

\* The window served: too wide a one keeps its most recent rows.
WindowContent(bar, start, end) ==
  LET first == ResolvedStart(bar, start, end)
      stop  == ResolvedEnd(bar, end)
  IN  [start |-> IF stop - first > MaxRows THEN stop - MaxRows ELSE first,
       end   |-> stop]

Rows(window) == {bar \in Bars : window.start <= bar /\ bar < window.end}
-----------------------------------------------------------------------------
Init == t = 0 /\ handle = None /\ reply = None

\* A step of the environment.
Step ==
  /\ t' = IF t + 1 >= N THEN N - 1 ELSE t + 1
  /\ UNCHANGED <<handle, reply>>

\* A reset: handles of the old episode are dropped.
Reset(start) == t' = start /\ handle' = None /\ reply' = None

Observe == handle' = ViewHandle(t) /\ UNCHANGED <<t, reply>>

\* GET /v1/market_window.
MarketWindow(start, end) ==
  /\ reply' = [start |-> start, end |-> end, at |-> t,
               window |-> WindowContent(t, start, end)]
  /\ UNCHANGED <<t, handle>>

Next ==
  \/ Step
  \/ \E start \in Bars : Reset(start)
  \/ Observe
  \/ \E start \in Bound, end \in Bound : MarketWindow(start, end)

Spec == Init /\ [][Next]_vars
-----------------------------------------------------------------------------
Window == [start : Nat, end : Nat]
Reply  == [start : Bound, end : Bound, at : Bars, window : Window]

\* The clock is inside the series; windows have natural bounds.
PortalTypeOK ==
  /\ t \in Bars
  /\ handle \in Window \cup {None}
  /\ reply \in Reply \cup {None}

\* The bars a request asks for, among those that had been seen when it came.
Asked(bar, start, end) ==
  {b \in 0 .. bar :
     IF start = None /\ end = None
       THEN b > bar - ObservationWindow
       ELSE /\ start # None => b >= start
            /\ end   # None => b <  end}

\* The most recent MaxRows of a run of bars.
MostRecent(bars) == {b \in bars : b + MaxRows \notin bars}

\* A window holds the most recent rows of what was asked for and of nothing
\* else: never a bar after the one the clock showed when it was served, for
\* bounds that are negative, inverted, beyond the series or left out.
ServesWhatWasAsked ==
  reply # None =>
    Rows(reply.window) = MostRecent(Asked(reply.at, reply.start, reply.end))

\* A handle stays good for the rest of its episode: a client that fetches by it
\* later, after any number of steps, gets exactly the rows of the observation.
HandleStaysServable ==
  handle # None /\ ObservationWindow <= MaxRows =>
    WindowContent(t, handle.start, handle.end) = handle
=============================================================================
