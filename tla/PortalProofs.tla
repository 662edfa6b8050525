---------------------------- MODULE PortalProofs ----------------------------
(* The window arithmetic of portal.py for every series, bound and row cap. *)
EXTENDS Portal, TLAPS

\* The resolved bounds lie among the bars seen so far, in order.
LEMMA ResolvedBounds ==
  ASSUME NEW bar \in Bars, NEW start \in Bound, NEW end \in Bound
  PROVE  /\ ResolvedEnd(bar, end) \in 0 .. bar + 1
         /\ ResolvedStart(bar, start, end) \in 0 .. ResolvedEnd(bar, end)
BY PortalAssumption
   DEF Bars, Bound, ResolvedEnd, ResolvedStart, Larger, Smaller

\* A handle and a window have natural bounds.
LEMMA WindowTypes ==
  ASSUME NEW bar \in Bars, NEW start \in Bound, NEW end \in Bound
  PROVE  ViewHandle(bar) \in Window /\ WindowContent(bar, start, end) \in Window
<1>1. ViewHandle(bar) \in Window
  BY PortalAssumption DEF Bars, ViewHandle, Window, Larger
<1>2. WindowContent(bar, start, end) \in Window
  <2> DEFINE first == ResolvedStart(bar, start, end)
             stop  == ResolvedEnd(bar, end)
  <2>1. first \in Nat /\ stop \in Nat
    BY ResolvedBounds DEF Bars
  <2>2. (IF stop - first > MaxRows THEN stop - MaxRows ELSE first) \in Nat
    BY <2>1, PortalAssumption
  <2> QED BY <2>1, <2>2 DEF WindowContent, Window
<1> QED BY <1>1, <1>2

\* Before the cap, the resolved bounds enclose exactly what was asked for.
LEMMA ResolvedIsAsked ==
  ASSUME NEW bar \in Bars, NEW start \in Bound, NEW end \in Bound, NEW b \in Int
  PROVE  b \in Asked(bar, start, end)
           <=> ResolvedStart(bar, start, end) <= b /\ b < ResolvedEnd(bar, end)
<1>1. bar \in Int /\ bar >= 0 /\ ObservationWindow \in Int
  BY PortalAssumption DEF Bars
<1>2. CASE start = None /\ end = None
  BY <1>1, <1>2, PortalAssumption
     DEF Asked, ResolvedStart, ResolvedEnd, Larger, Smaller
<1>3. CASE start = None /\ end # None
  <2>1. end \in Int
    BY <1>3, PortalAssumption DEF Bound
  <2> QED BY <1>1, <1>3, <2>1 DEF Asked, ResolvedStart, ResolvedEnd, Larger, Smaller
<1>4. CASE start # None /\ end = None
  <2>1. start \in Int
    BY <1>4, PortalAssumption DEF Bound
  <2> QED BY <1>1, <1>4, <2>1 DEF Asked, ResolvedStart, ResolvedEnd, Larger, Smaller
<1>5. CASE start # None /\ end # None
  <2>1. start \in Int /\ end \in Int
    BY <1>5, PortalAssumption DEF Bound
  <2> QED BY <1>1, <1>5, <2>1 DEF Asked, ResolvedStart, ResolvedEnd, Larger, Smaller
<1> QED BY <1>2, <1>3, <1>4, <1>5

\* The whole of window_content: the most recent rows of what was asked for, and
\* no bar after the current one.
THEOREM WindowIsMostRecentOfAsked ==
  ASSUME NEW bar \in Bars, NEW start \in Bound, NEW end \in Bound
  PROVE  Rows(WindowContent(bar, start, end)) = MostRecent(Asked(bar, start, end))
<1> DEFINE first  == ResolvedStart(bar, start, end)
           stop   == ResolvedEnd(bar, end)
           window == WindowContent(bar, start, end)
           asked  == Asked(bar, start, end)
<1>1. /\ first \in Nat /\ stop \in Nat /\ first <= stop /\ stop <= bar + 1
      /\ bar \in Nat /\ bar < N /\ N \in Nat /\ MaxRows \in Nat
  BY ResolvedBounds, PortalAssumption DEF Bars
<1>2. ASSUME NEW b \in Int
      PROVE  b \in Rows(window) <=> b \in MostRecent(asked)
  <2>1. b \in Rows(window) <=>
          /\ b \in 0 .. N - 1
          /\ (IF stop - first > MaxRows THEN stop - MaxRows ELSE first) <= b
          /\ b < stop
    BY DEF Rows, WindowContent, Bars
  <2>2. b \in asked <=> first <= b /\ b < stop
    BY ResolvedIsAsked
  <2>3. b + MaxRows \in asked <=> first <= b + MaxRows /\ b + MaxRows < stop
    BY ResolvedIsAsked, <1>1
  <2>4. b \in MostRecent(asked) <=> b \in asked /\ b + MaxRows \notin asked
    BY DEF MostRecent
  <2> HIDE DEF first, stop, window, asked
  <2> QED BY <1>1, <2>1, <2>2, <2>3, <2>4
<1>3. Rows(window) \subseteq Int /\ MostRecent(asked) \subseteq Int
  BY <1>1 DEF Rows, Bars, MostRecent, Asked
<1> QED BY <1>2, <1>3

-----------------------------------------------------------------------------
\* What makes a handle last: it is the observation window of some bar that the
\* clock has passed.
HandleInv ==
  handle # None =>
    /\ handle.end \in 1 .. t + 1
    /\ handle.start = Larger(0, handle.end - ObservationWindow)

ReplyInv ==
  reply # None =>
    reply.window = WindowContent(reply.at, reply.start, reply.end)

PortalInv == PortalTypeOK /\ HandleInv /\ ReplyInv

\* Every action preserves the portal invariant.
LEMMA PortalInvStep == PortalInv /\ [Next]_vars => PortalInv'
<1> SUFFICES ASSUME PortalInv, [Next]_vars PROVE PortalInv'
  OBVIOUS
<1> USE DEF PortalInv
<1>0. t \in Int /\ t >= 0 /\ t < N /\ N \in Nat
  BY PortalAssumption DEF PortalTypeOK, Bars
<1>1. CASE Step
  <2>1. t' \in Bars /\ t' >= t
    BY <1>0, <1>1 DEF Step, Bars
  <2>2. handle' = handle /\ reply' = reply
    BY <1>1 DEF Step
  <2>3. HandleInv'
    BY <1>0, <2>1, <2>2 DEF HandleInv, Bars
  <2> QED BY <2>1, <2>2, <2>3 DEF PortalTypeOK, ReplyInv
<1>2. CASE \E start \in Bars : Reset(start)
  BY <1>2 DEF Reset, PortalTypeOK, HandleInv, ReplyInv
<1>3. CASE Observe
  <2>1. handle' = ViewHandle(t) /\ t' = t /\ reply' = reply
    BY <1>3 DEF Observe
  <2>2. ViewHandle(t) \in Window
    BY WindowTypes DEF PortalTypeOK, Bound
  <2>3. HandleInv'
    <3>1. /\ ViewHandle(t).end = t + 1
          /\ ViewHandle(t).start = Larger(0, ViewHandle(t).end - ObservationWindow)
      BY <1>0, PortalAssumption DEF ViewHandle, Larger
    <3>2. t + 1 \in 1 .. t' + 1
      BY <1>0, <2>1
    <3> QED BY <2>1, <3>1, <3>2 DEF HandleInv
  <2> QED BY <2>1, <2>2, <2>3 DEF PortalTypeOK, ReplyInv
<1>4. ASSUME NEW start \in Bound, NEW end \in Bound, MarketWindow(start, end)
      PROVE  PortalInv'
  <2>1. /\ reply' = [start |-> start, end |-> end, at |-> t,
                     window |-> WindowContent(t, start, end)]
        /\ t' = t /\ handle' = handle
    BY <1>4 DEF MarketWindow
  <2>2. t \in Bars /\ WindowContent(t, start, end) \in Window
    BY WindowTypes DEF PortalTypeOK
  <2>3. reply' \in Reply
    BY <2>1, <2>2 DEF Reply
  <2>4. ReplyInv'
    BY <2>1 DEF ReplyInv
  <2> QED BY <2>1, <2>3, <2>4 DEF PortalTypeOK, HandleInv
<1>5. CASE UNCHANGED vars
  BY <1>5 DEF vars, PortalTypeOK, HandleInv, ReplyInv
<1> QED BY <1>1, <1>2, <1>3, <1>4, <1>5 DEF Next

\* The portal invariant: types, handles that are observation windows of bars
\* passed, replies that are windows.
LEMMA PortalInvariant == Spec => []PortalInv
<1>1. Init => PortalInv
  BY PortalAssumption DEF Init, PortalInv, PortalTypeOK, HandleInv, ReplyInv, Bars
<1> QED BY <1>1, PortalInvStep, PTL DEF Spec

\* The portal's variables, its handles and its replies keep their shape.
THEOREM PortalTypeCorrect == Spec => []PortalTypeOK
BY PortalInvariant, PTL DEF PortalInv

\* Every window served holds the most recent rows of what its request asked for
\* among the bars seen at that time, and nothing else.
THEOREM ServesWhatWasAskedHolds == Spec => []ServesWhatWasAsked
<1>1. PortalInv => ServesWhatWasAsked
  <2> SUFFICES ASSUME PortalInv, reply # None
               PROVE  Rows(reply.window)
                        = MostRecent(Asked(reply.at, reply.start, reply.end))
    BY DEF ServesWhatWasAsked
  <2>1. reply.at \in Bars /\ reply.start \in Bound /\ reply.end \in Bound
    BY DEF PortalInv, PortalTypeOK, Reply
  <2>2. reply.window = WindowContent(reply.at, reply.start, reply.end)
    BY DEF PortalInv, ReplyInv
  <2> QED BY <2>1, <2>2, WindowIsMostRecentOfAsked
<1> QED BY <1>1, PortalInvariant, PTL

\* A handle is served in full by a later fetch of the same episode.
THEOREM HandleStaysServableHolds == Spec => []HandleStaysServable
<1>1. PortalInv => HandleStaysServable
  <2> SUFFICES ASSUME PortalInv, handle # None, ObservationWindow <= MaxRows
               PROVE  WindowContent(t, handle.start, handle.end) = handle
    BY DEF HandleStaysServable
  <2>1. /\ t \in Int /\ t >= 0 /\ ObservationWindow \in Nat /\ MaxRows \in Nat
        /\ handle \in Window
    BY PortalAssumption DEF PortalInv, PortalTypeOK, Bars
  <2>2. /\ handle.start \in Nat /\ handle.end \in Nat
        /\ handle = [start |-> handle.start, end |-> handle.end]
    BY <2>1 DEF Window
  <2>3. /\ handle.end \in 1 .. t + 1
        /\ handle.start = Larger(0, handle.end - ObservationWindow)
    BY DEF PortalInv, HandleInv
  <2>4. handle.start # None /\ handle.end # None
    BY <2>2, PortalAssumption
  <2>5. ResolvedEnd(t, handle.end) = handle.end
    BY <2>1, <2>3, <2>4 DEF ResolvedEnd, Larger, Smaller
  <2>6. ResolvedStart(t, handle.start, handle.end) = handle.start
    BY <2>1, <2>2, <2>3, <2>4, <2>5 DEF ResolvedStart, Larger, Smaller
  <2>7. handle.end - handle.start <= MaxRows
    BY <2>1, <2>2, <2>3 DEF Larger
  <2>8. ~(handle.end - handle.start > MaxRows)
    BY <2>1, <2>2, <2>7
  <2> QED BY <2>2, <2>5, <2>6, <2>8 DEF WindowContent
<1> QED BY <1>1, PortalInvariant, PTL
=============================================================================
