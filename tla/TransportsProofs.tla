-------------------------- MODULE TransportsProofs --------------------------
(***************************************************************************)
(* Both transports carry every session: for any seeds, start bars, limit   *)
(* prices and fills, zero among them.                                      *)
(***************************************************************************)
EXTENDS Transports, TLAPS

\* An action's row survives either encoding (server.py, grpc/client.py).
LEMMA RowsSurvive ==
  ASSUME NEW row \in Row
  PROVE  /\ ReadAction(ActionMessage(row)) = row
         /\ ReadModel(ActionModel(row)) = row
<1>1. row = [order |-> row.order, limit |-> row.limit]
  BY DEF Row
<1>2. CASE row.limit = NaN
  BY <1>1, <1>2 DEF ReadAction, ActionMessage, ReadModel, ActionModel, OrZero, IfSet
<1>3. CASE row.limit # NaN
  BY <1>1, <1>3 DEF ReadAction, ActionMessage, ReadModel, ActionModel, OrZero, IfSet
<1> QED BY <1>2, <1>3

\* A call of reset means the same by every way.
LEMMA ResetsSurvive ==
  ASSUME NEW call \in ResetCall, NEW way \in Ways
  PROVE  ResetArguments(way, call) = ResetArguments("library", call)
<1>1. CASE call.seed = Absent
  <2>1. CASE call.start = Absent
    BY <1>1, <2>1 DEF ResetArguments, ReadReset, ResetMessage, OrZero, IfSet, Ways
  <2>2. CASE call.start # Absent
    BY <1>1, <2>2 DEF ResetArguments, ReadReset, ResetMessage, OrZero, IfSet, Ways
  <2> QED BY <2>1, <2>2
<1>2. CASE call.seed # Absent
  <2>1. CASE call.start = Absent
    BY <1>2, <2>1 DEF ResetArguments, ReadReset, ResetMessage, OrZero, IfSet, Ways
  <2>2. CASE call.start # Absent
    BY <1>2, <2>2 DEF ResetArguments, ReadReset, ResetMessage, OrZero, IfSet, Ways
  <2> QED BY <2>1, <2>2
<1> QED BY <1>1, <1>2

\* So the same matrix reaches step_many.
LEMMA MatricesSurvive ==
  ASSUME NEW n \in Nat, NEW rows \in [1 .. n -> Row], NEW way \in Ways
  PROVE  Matrix(way, rows) = rows
<1>1. ASSUME NEW k \in DOMAIN rows PROVE Matrix(way, rows)[k] = rows[k]
  <2>1. rows[k] \in Row
    BY <1>1
  <2> QED BY <1>1, <2>1, RowsSurvive DEF Matrix, Ways
<1>2. rows = [k \in DOMAIN rows |-> rows[k]]
  OBVIOUS
<1> QED BY <1>1, <1>2 DEF Matrix

\* A trace row survives its message: the flags say exactly what is absent.
LEMMA TracesSurvive ==
  ASSUME NEW e, NEW rows, NEW n \in Nat, rows \in [1 .. n -> Row], NEW k \in 1 .. n,
         NEW fills \in [1 .. n -> Fills \cup {NoFill}]
  PROVE  ReadTrace(TraceMessage(TraceOf(e, rows, fills, k)))
           = ReadTraceModel(TraceOf(e, rows, fills, k))
<1> DEFINE trace == TraceOf(e, rows, fills, k)
<1>1. Absent \notin Nat /\ Absent \notin Limits
  <2>1. Absent \notin Int /\ Limits \subseteq Nat
    BY TransportAssumption
  <2>2. \A x \in Nat : x \in Int
    OBVIOUS
  <2> QED BY <2>1, <2>2
<1>2. rows[k].limit \in Limits \cup {NaN} /\ fills[k] \in Fills \cup {NoFill}
  BY DEF Row
<1>3. trace.has_limit <=> trace.limit # Absent
  BY <1>1, <1>2 DEF TraceOf
<1>4. fills[k].slot = Absent <=> fills[k].price = Absent
  BY <1>1, <1>2, TransportAssumption DEF NoFill
<1>5. /\ trace.has_fill <=> trace.slot # Absent
      /\ trace.has_fill <=> trace.price # Absent
  BY <1>4 DEF TraceOf
<1>6. IfSet(trace.has_limit, OrZero(trace.limit, Absent), Absent) = trace.limit
  BY <1>3 DEF IfSet, OrZero
<1>7. IfSet(trace.has_fill, OrZero(trace.slot, Absent), Absent) = trace.slot
  BY <1>5 DEF IfSet, OrZero
<1>8. IfSet(trace.has_fill, OrZero(trace.price, Absent), Absent) = trace.price
  BY <1>5 DEF IfSet, OrZero
<1> HIDE DEF trace
<1>9. ReadTrace(TraceMessage(trace)) = ReadTraceModel(trace)
  BY <1>6, <1>7, <1>8 DEF ReadTrace, TraceMessage, ReadTraceModel
<1> QED BY <1>9 DEF trace
-----------------------------------------------------------------------------
\* The inductive invariant: an answer is computed from the environment, so that
\* answers arrive only as long as calls do.
Inv == CallsArrive /\ AnswersArrive

\* The three environments start alike.
LEMMA InitInv == Init => Inv
BY DEF Init, Inv, CallsArrive, AnswersArrive, Ways

\* They are reset, or refuse to be, alike (env.reset).
LEMMA ResetInv ==
  ASSUME Inv, NEW call \in ResetCall, Reset(call)
  PROVE  Inv'
<1> DEFINE arguments(way) == ResetArguments(way, call)
<1>1. \A way \in Ways : arguments(way) = arguments("library")
  BY ResetsSurvive
<1>2. "library" \in Ways
  BY DEF Ways
<1> HIDE DEF arguments
<1>3. /\ env' = [way \in Ways |->
                   IF Refuses(arguments(way)) THEN env[way] ELSE NewEnv(arguments(way))]
      /\ heard' = [way \in Ways |->
                     IF Refuses(arguments(way)) THEN RefusedCall
                     ELSE Accepted(View(env'[way]), <<>>)]
  BY DEF Reset, arguments
<1>4. CallsArrive'
  BY <1>1, <1>2, <1>3 DEF Inv, CallsArrive
<1>5. AnswersArrive'
  BY <1>1, <1>2, <1>3, <1>4 DEF CallsArrive, AnswersArrive
<1> QED BY <1>4, <1>5 DEF Inv

\* The same rows are fed, and the same trace comes back (env.step_many).
LEMMA StepManyInv ==
  ASSUME Inv, NEW n \in Nat, NEW rows \in [1 .. n -> Row], StepMany(rows)
  PROVE  Inv'
<1>1. PICK fills \in [DOMAIN rows -> Fills \cup {NoFill}] :
        /\ env' = [way \in Ways |-> Fed(env[way], Matrix(way, rows))]
        /\ heard' = [way \in Ways |->
                       Accepted(View(env'[way]), Trace(way, env[way], Matrix(way, rows), fills))]
  BY DEF StepMany
<1>2. "library" \in Ways
  BY DEF Ways
<1>3. \A way \in Ways : Matrix(way, rows) = rows
  BY MatricesSurvive
<1>4. CallsArrive'
  <2>1. \A way \in Ways : env'[way] = Fed(env[way], rows)
    BY <1>1, <1>3
  <2> QED BY <1>2, <2>1 DEF Inv, CallsArrive
<1>5. ASSUME NEW way \in Ways
      PROVE  Trace(way, env[way], rows, fills) = Trace("library", env["library"], rows, fills)
  <2>1. env[way] = env["library"]
    BY DEF Inv, CallsArrive
  <2>2. DOMAIN rows = 1 .. n /\ fills \in [1 .. n -> Fills \cup {NoFill}]
    OBVIOUS
  <2>3. \A k \in 1 .. n : ReadTrace(TraceMessage(TraceOf(env[way], rows, fills, k)))
                            = ReadTraceModel(TraceOf(env[way], rows, fills, k))
    BY <2>2, TracesSurvive
  <2> QED BY <2>1, <2>2, <2>3 DEF Trace
<1>6. \A way \in Ways :
        heard'[way] = Accepted(View(env'[way]), Trace(way, env[way], rows, fills))
  BY <1>1, <1>3
<1>7. AnswersArrive'
  BY <1>2, <1>4, <1>5, <1>6 DEF CallsArrive, AnswersArrive
<1> QED BY <1>4, <1>7 DEF Inv

\* And no other step tells the ways apart.
LEMMA NextInv == Inv /\ [Next]_vars => Inv'
<1> SUFFICES ASSUME Inv, [Next]_vars PROVE Inv'
  OBVIOUS
<1>1. ASSUME NEW call \in ResetCall, Reset(call) PROVE Inv'
  BY <1>1, ResetInv
<1>2. ASSUME NEW n \in 1 .. MaxRows, NEW rows \in [1 .. n -> Row], StepMany(rows) PROVE Inv'
  <2>1. n \in Nat
    BY TransportAssumption
  <2> QED BY <1>2, <2>1, StepManyInv
<1>3. CASE Observe
  <2>1. CallsArrive'
    BY <1>3 DEF Observe, Inv, CallsArrive
  <2>2. AnswersArrive'
    BY <1>3 DEF Observe, Inv, CallsArrive, AnswersArrive, Ways
  <2> QED BY <2>1, <2>2 DEF Inv
<1>4. CASE UNCHANGED vars
  BY <1>4 DEF vars, Inv, CallsArrive, AnswersArrive
<1> QED BY <1>1, <1>2, <1>3, <1>4 DEF Next

\* Whatever a caller does, by HTTP or by gRPC, the environment behind the
\* transport is where a direct caller's is.
THEOREM EveryCallArrives == Spec => []CallsArrive
<1>1. Inv => CallsArrive
  BY DEF Inv
<1> QED BY InitInv, NextInv, <1>1, PTL DEF Spec

\* And every answer is what a direct caller hears.
THEOREM EveryAnswerArrives == Spec => []AnswersArrive
<1>1. Inv => AnswersArrive
  BY DEF Inv
<1> QED BY InitInv, NextInv, <1>1, PTL DEF Spec
=============================================================================
