---------------------------- MODULE NumbaParity ----------------------------
(***************************************************************************)
(* The two paths of the engine side by side, and the compiled path alone.  *)
(*                                                                         *)
(* An environment without use_numba runs the step of EngineCore, and the   *)
(* module remembers what the running step was fed; when the step           *)
(* publishes, the kernel must give the same for the same.  One with        *)
(* use_numba runs the kernel through step_many, for rows whose codes       *)
(* nothing has validated but the cast to int8.  Nothing is counted here:   *)
(* `counted' keeps its first value.                                        *)
(***************************************************************************)
EXTENDS NumbaKernel

CONSTANTS CodedRows  \* rows a caller of step_many may send

ASSUME ParityAssumption ==
  CodedRows \subseteq [side : Int, units : Int, type : Int, limit : Int \cup {NoPrice}]

VARIABLES useNumba,  \* config.use_numba
          fed        \* history: the action and the draws of the running step

pvars == <<reportVars, useNumba, fed>>

NoDraws == [i \in Slots |-> 0]
Fed(action) == [action |-> action, draws |-> NoDraws]

PathsInit ==
  /\ ReportInit
  /\ useNumba \in BOOLEAN
  /\ fed = Fed(CHOOSE action \in Actions : TRUE)

ParityNext ==
  /\ \/ \E action \in Actions :
          Place(action) /\ fed' = Fed(action) /\ UNCHANGED last
     \/ \E draw \in Draws :
          /\ VisitFill(draw)
          /\ fed' = [fed EXCEPT !.draws[cursor] = draw]
          /\ last' = VisitedFill(work.orders[cursor], market[state.t], draw)
     \/ /\ \/ \E start \in Bars : Reset(start)
           \/ StepWhenDone
           \/ \E action \in Actions : StepRefused(action)
           \/ VisitWaiting \/ VisitMiss
        /\ UNCHANGED <<last, fed>>
     \/ StepFinish /\ last' = NoFill /\ UNCHANGED fed
  /\ UNCHANGED counted
-----------------------------------------------------------------------------
\* An environment with use_numba, fed by step_many.  numpy's int8 takes a code of
\* its width and raises on any other, before the kernel is called; a finished
\* episode returns before it casts.
Int8 == -128 .. 127
Fits(row) == row.side \in Int8 /\ row.type \in Int8

KernelStepMany(row) ==
  \E draws \in [Slots -> Draws] :
    LET step == KernelStep(state, Handed(row), draws)
    IN  /\ state.done \/ Fits(row)
        /\ ~KernelRefuses(state, Handed(row))
        /\ state' = step.state
        /\ out' = [raised |-> FALSE, fills |-> step.fills, delta |-> step.delta]
        /\ earned' = earned + step.delta
        /\ work' = WorkOn(state')
        /\ UNCHANGED <<market, cursor, last, counted, fed>>

KernelRaises(row) ==
  /\ (~state.done /\ ~Fits(row)) \/ KernelRefuses(state, Handed(row))
  /\ out' = Raised
  /\ UNCHANGED <<market, state, work, cursor, earned, last, counted, fed>>

KernelNext ==
  \/ \E start \in Bars : Reset(start) /\ UNCHANGED <<last, counted, fed>>
  \/ \E row \in CodedRows : KernelStepMany(row) \/ KernelRaises(row)

PathsNext ==
  /\ \/ ~useNumba /\ ParityNext
     \/ useNumba /\ KernelNext
  /\ UNCHANGED useNumba

PathsSpec == PathsInit /\ [][PathsNext]_pvars

\* The compiled path alone.
KernelSpec == PathsInit /\ useNumba = TRUE /\ [][PathsNext]_pvars
-----------------------------------------------------------------------------
\* "the two bodies must stay identical": from every state an episode reaches,
\* the kernel publishes what step_core publishes, counts the same fills, tells
\* the same last fill and reports the same reward, for the same action and the
\* same draws.
KernelAgrees ==
  [][cursor = Past /\ cursor' = Idle =>
       LET step == KernelStep(state, Encode(fed.action), fed.draws)
       IN  /\ step.state = state'
           /\ step.fills = out'.fills
           /\ step.delta = out'.delta
           /\ step.last = last]_pvars

\* The two paths refuse the same actions, and neither moves a finished episode.
KernelRefusesAlike ==
  cursor = Idle =>
    \A action \in Actions :
      /\ ~state.done => (KernelRefuses(state, Encode(action)) <=> Refused(state.orders, action))
      /\ state.done => /\ ~KernelRefuses(state, Encode(action))
                       /\ KernelStep(state, Encode(action), NoDraws).state = state

\* "At most two orders (one buy, one sell) can be simultaneously live"
\* (core.py, CoreStepOutput).
AtMostTwoLive == Cardinality({i \in Slots : state.orders[i].active}) <= 2
=============================================================================
