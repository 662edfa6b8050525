----------------------------- MODULE Transports -----------------------------
(***************************************************************************)
(* One session, three ways to hold it: by calling the environment itself,  *)
(* over HTTP (server.py with the models of types.py) and over gRPC         *)
(* (grpc/client.py, grpc/server.py and the messages between them).  The    *)
(* same calls are made each way, each to an environment of its own.        *)
(*                                                                         *)
(* A message of protobuf cannot leave a number out, so what may be absent  *)
(* travels as a flag and a number that is zero when the flag is not set;   *)
(* the engine says "no limit price" with a NaN, and JSON with a null.  An  *)
(* absent value, a zero and a NaN are told apart here, and nothing else of *)
(* a number is.                                                            *)
(***************************************************************************)
EXTENDS Integers, Sequences

CONSTANTS N,           \* number of bars
          DefaultSeed, \* config.seed
          Seeds,       \* seeds a caller may reset with
          Starts,      \* start bars a caller may ask for
          Orders,      \* what an encoded action holds beside its limit price
          Limits,      \* limit prices
          Fills,       \* the fills a step may report: [slot, price]
          Absent,      \* None, and JSON's null
          NaN,         \* the engine's absent limit price
          MaxRows      \* bound: rows fed in an episode

ASSUME TransportAssumption ==
  /\ N \in Nat \ {0}
  /\ DefaultSeed \in Int
  /\ Seeds \subseteq Int
  /\ Starts \subseteq Int
  /\ Limits \subseteq Nat
  /\ Fills \subseteq [slot : Nat, price : Nat]
  /\ Absent \notin Int
  /\ NaN \notin Int
  /\ MaxRows \in Nat

Ways == {"library", "http", "grpc"}

VARIABLES env,    \* the environment behind each way: [seed, t, fed]
          heard   \* what the caller made of the last answer, by each way

vars == <<env, heard>>

\* A row of the engine's matrix, and a call of reset.
Row == [order : Orders, limit : Limits \cup {NaN}]
ResetCall == [seed : Seeds \cup {Absent}, start : Starts \cup {Absent}]

\* What a flag and a number make of a value that may be absent, and back.
OrZero(value, absent) == IF value = absent THEN 0 ELSE value
IfSet(flag, number, absent) == IF flag THEN number ELSE absent
-----------------------------------------------------------------------------
\* The gRPC messages.
\* (The names with a suffix, here and below, are faulty variants of the
\* definition that follows them; no specification uses them.)
ResetMessage_Truthy(call) ==
  [has_seed |-> call.seed \notin {Absent, 0}, seed |-> OrZero(call.seed, Absent),
   has_start |-> call.start \notin {Absent, 0}, start |-> OrZero(call.start, Absent)]

\* EngineGrpcClient.reset writes it, EngineGrpcService.Reset reads it.
ResetMessage(call) ==
  [has_seed |-> call.seed # Absent, seed |-> OrZero(call.seed, Absent),
   has_start |-> call.start # Absent, start |-> OrZero(call.start, Absent)]
ReadReset(message) ==
  [seed |-> IfSet(message.has_seed, message.seed, Absent),
   start |-> IfSet(message.has_start, message.start, 0)]

\* One action of step_many, written by the client and read by the service.
ActionMessage(row) ==
  [order |-> row.order, has_limit |-> row.limit # NaN, limit |-> OrZero(row.limit, NaN)]
ReadAction(message) ==
  [order |-> message.order, limit |-> IfSet(message.has_limit, message.limit, NaN)]

\* One trace row, written by the service and read by the client, which tells
\* that there was no fill by the slot and the price alone.
TraceMessage(trace) ==
  [order |-> trace.order, t |-> trace.t, done |-> trace.done,
   has_limit |-> trace.has_limit, limit |-> OrZero(trace.limit, Absent),
   has_fill |-> trace.has_fill, slot |-> OrZero(trace.slot, Absent),
   price |-> OrZero(trace.price, Absent)]

ReadTrace_BySlot(message) ==
  [order |-> message.order, t |-> message.t, done |-> message.done,
   has_limit |-> message.has_limit,
   limit |-> IfSet(message.has_limit, message.limit, Absent),
   slot |-> IfSet(message.slot > 0, message.slot, Absent),
   price |-> IfSet(message.has_fill, message.price, Absent)]

ReadTrace(message) ==
  [order |-> message.order, t |-> message.t, done |-> message.done,
   has_limit |-> message.has_limit,
   limit |-> IfSet(message.has_limit, message.limit, Absent),
   slot |-> IfSet(message.has_fill, message.slot, Absent),
   price |-> IfSet(message.has_fill, message.price, Absent)]
-----------------------------------------------------------------------------
\* The HTTP bodies.  The caller is not part of the repository: it sends an
\* action's flag and price as they belong together.
ActionModel(row) ==
  [order |-> row.order, has_limit |-> row.limit # NaN,
   limit |-> IF row.limit = NaN THEN Absent ELSE row.limit]
\* _build_actions_matrix.
ReadModel(model) ==
  [order |-> model.order, limit |-> IfSet(model.has_limit, model.limit, NaN)]

\* StepTraceRowModel keeps every field; the caller reads those that a gRPC
\* client gets.
ReadTraceModel(trace) ==
  [order |-> trace.order, t |-> trace.t, done |-> trace.done,
   has_limit |-> trace.has_limit, limit |-> trace.limit,
   slot |-> trace.slot, price |-> trace.price]
-----------------------------------------------------------------------------
\* What reaches env.reset and env.step_many.  A start bar that is left out is
\* the first one; the library's caller leaves the argument out.
ResetArguments(way, call) ==
  IF way = "grpc" THEN ReadReset(ResetMessage(call))
  ELSE [seed |-> call.seed, start |-> IF call.start = Absent THEN 0 ELSE call.start]

Matrix(way, rows) ==
  [k \in DOMAIN rows |->
     CASE way = "library" -> rows[k]
       [] way = "http"    -> ReadModel(ActionModel(rows[k]))
       [] way = "grpc"    -> ReadAction(ActionMessage(rows[k]))]

\* The environment: its seed, its bar, and the rows since the reset.
NewEnv(arguments) ==
  [seed |-> IF arguments.seed = Absent THEN DefaultSeed ELSE arguments.seed,
   t |-> arguments.start, fed |-> <<>>]
Refuses(arguments) == arguments.start \notin 0 .. N - 1

BarAfter(t, steps) == IF t + steps >= N - 1 THEN N - 1 ELSE t + steps
Fed(e, rows) == [e EXCEPT !.t = BarAfter(e.t, Len(rows)), !.fed = @ \o rows]

\* _build_trace_row, for the k-th row of a batch.
NoFill == [slot |-> Absent, price |-> Absent]
TraceOf(e, rows, fills, k) ==
  [order |-> rows[k].order, t |-> BarAfter(e.t, k), done |-> BarAfter(e.t, k) = N - 1,
   has_limit |-> rows[k].limit # NaN,
   limit |-> IF rows[k].limit = NaN THEN Absent ELSE rows[k].limit,
   has_fill |-> fills[k].slot # Absent, slot |-> fills[k].slot, price |-> fills[k].price]

Trace(way, e, rows, fills) ==
  [k \in DOMAIN rows |->
     IF way = "grpc" THEN ReadTrace(TraceMessage(TraceOf(e, rows, fills, k)))
                     ELSE ReadTraceModel(TraceOf(e, rows, fills, k))]

\* The state and the observation have no field that may be absent.
View(e) == [t |-> e.t, done |-> e.t = N - 1 /\ e.fed # <<>>]

Accepted(view, trace) == [refused |-> FALSE, view |-> view, trace |-> trace]
RefusedCall == [refused |-> TRUE, view |-> [t |-> 0, done |-> FALSE], trace |-> <<>>]
-----------------------------------------------------------------------------
FirstEnv == NewEnv([seed |-> Absent, start |-> 0])

Init ==
  /\ env = [way \in Ways |-> FirstEnv]
  /\ heard = [way \in Ways |-> Accepted(View(FirstEnv), <<>>)]

\* reset; ValueError becomes 400 or INVALID_ARGUMENT.
Reset(call) ==
  LET arguments(way) == ResetArguments(way, call)
  IN  /\ env' = [way \in Ways |->
                   IF Refuses(arguments(way)) THEN env[way] ELSE NewEnv(arguments(way))]
      /\ heard' = [way \in Ways |->
                     IF Refuses(arguments(way)) THEN RefusedCall
                     ELSE Accepted(View(env'[way]), <<>>)]

\* step_many with a trace: what the core does with a row is the same for the
\* same rows.
StepMany(rows) ==
  \E fills \in [DOMAIN rows -> Fills \cup {NoFill}] :
    LET matrix(way) == Matrix(way, rows)
    IN  /\ \A way \in Ways : Len(env[way].fed) + Len(rows) <= MaxRows
        /\ env' = [way \in Ways |-> Fed(env[way], matrix(way))]
        /\ heard' = [way \in Ways |->
                       Accepted(View(env'[way]), Trace(way, env[way], matrix(way), fills))]

Observe ==
  /\ heard' = [way \in Ways |-> Accepted(View(env[way]), <<>>)]
  /\ UNCHANGED env

Next ==
  \/ \E call \in ResetCall : Reset(call)
  \/ \E n \in 1 .. MaxRows : \E rows \in [1 .. n -> Row] : StepMany(rows)
  \/ Observe

Spec == Init /\ [][Next]_vars
-----------------------------------------------------------------------------
\* "Both HTTP and gRPC are first-class production transports" (README): a call
\* means the same by either of them as in the library.  An environment that is
\* driven from outside is where one driven directly is: seeds, start bars and
\* limit prices arrive, whether they are left out, zero or neither.
CallsArrive == \A way \in Ways : env[way] = env["library"]

\* And its answers come back as they were given: the slot zero is not taken for
\* no fill, nor a limit price of zero for none.
AnswersArrive == \A way \in Ways : heard[way] = heard["library"]
=============================================================================
