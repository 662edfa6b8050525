------------------------- MODULE GrpcServiceProofs -------------------------
(***************************************************************************)
(* Theorems about GrpcService, for any number of clients, threads,         *)
(* requests and rows, either path of the core and any interleaving of the  *)
(* handlers: what an observation shows, which draws a step is taken with,  *)
(* what it takes account of, and what is left of the interleaving when one *)
(* writer runs at a time.                                                  *)
(***************************************************************************)
EXTENDS GrpcService, SequenceTheorems, FiniteSetTheorems, TLAPS

Places == {"waiting", "reseed", "install", "reply", "draw", "check", "step",
           "publish", "look", "answered"}
Kinds == {"reset", "observe", "batch"}

\* A handler of client c has gone on to j; nobody else has.
Moves(c, j) == job' = [job EXCEPT ![c] = j]

\* What holds of a handler that stands at j when n states have been assigned.
Local(j, n) ==
  /\ \A i \in 1 .. Len(j.of) : j.of[i] \in 1 .. n
  /\ j.since <= n
  /\ j.at = "step" => Len(j.of) < Parts
  /\ j.at = "publish" => Len(j.of) = Parts
  /\ j.at \in {"waiting", "draw"} => j.row = 0
  /\ j.at = "install" => j.request.start \in Bars

\* A client waits in at most one place of the queue, and not while it is served.
QueueInv ==
  /\ \A i \in 1 .. Len(queue) : At(queue[i], "waiting")
  /\ \A i, k \in 1 .. Len(queue) : i # k => queue[i] # queue[k]

TypeInv ==
  /\ GrpcTypeOK
  /\ IsFiniteSet(Running)
  /\ Len(log) >= 1
  /\ \A c \in Clients : Local(job[c], Len(log))
  /\ QueueInv
-----------------------------------------------------------------------------
\* Requests are records of a known kind.
LEMMA RequestFacts ==
  ASSUME NEW request \in Requests
  PROVE  request.kind \in Kinds /\ request.rows \in Nat /\ request.start \in Int
<1>1. CASE request \in {[kind |-> "reset", start |-> start, rows |-> 0] : start \in Starts}
  BY <1>1, GrpcAssumption DEF Kinds, Bars
<1>2. CASE request = [kind |-> "observe", start |-> 0, rows |-> 0]
  BY <1>2, GrpcAssumption DEF Kinds, Bars
<1>3. CASE request \in {[kind |-> "batch", start |-> 0, rows |-> n] : n \in 1 .. MaxBatch}
  BY <1>3, GrpcAssumption DEF Kinds, Bars
<1> QED BY <1>1, <1>2, <1>3 DEF Requests

\* The fields of a handler have their types.
LEMMA JobFields ==
  ASSUME NEW j \in Job
  PROVE  /\ j.at \in Places /\ j.request \in Requests /\ j.row \in Nat /\ j.stream \in Nat
         /\ j.first \in Nat /\ j.of \in Seq(Nat) /\ j.seen \in Seq(Nat) /\ j.since \in Nat
         /\ j.request.kind \in Kinds /\ j.request.rows \in Nat /\ j.request.start \in Int
BY RequestFacts DEF Job, Places

\* A new handler is one.
LEMMA NewJobFacts ==
  ASSUME NEW request \in Requests
  PROVE  /\ NewJob(request) \in Job
         /\ NewJob(request).at = "waiting" /\ NewJob(request).request = request
         /\ NewJob(request).row = 0 /\ NewJob(request).of = <<>>
         /\ NewJob(request).seen = <<>> /\ NewJob(request).since = 0
<1>1. <<>> \in Seq(Nat)
  BY EmptySeq
<1> QED BY <1>1 DEF NewJob, Job

\* After a move the others stand where they stood.
LEMMA MoveFacts ==
  ASSUME job \in [Clients -> Job], NEW c \in Clients, NEW j \in Job, Moves(c, j)
  PROVE  /\ job' \in [Clients -> Job] /\ job'[c] = j
         /\ \A d \in Clients \ {c} : job'[d] = job[d]
BY DEF Moves

\* An assignment of all parts at once.
LEMMA WholeFacts ==
  ASSUME NEW v \in Nat
  PROVE  /\ Whole(v) \in [1 .. Parts -> Nat] /\ Whole(v) \in Seq(Nat) /\ Len(Whole(v)) = Parts
         /\ \A i \in 1 .. Parts : Whole(v)[i] = v
<1>1. Parts \in Nat
  BY DEF Parts
<1>2. Whole(v) \in [1 .. Parts -> Nat] /\ \A i \in 1 .. Parts : Whole(v)[i] = v
  BY DEF Whole
<1>3. Whole(v) \in Seq(Nat)
  BY <1>1, <1>2
<1>4. Len(Whole(v)) = Parts
  BY <1>1, <1>2, <1>3
<1> QED BY <1>2, <1>3, <1>4

\* The bar after a bar is one.
LEMMA NextBarInSeries == ASSUME NEW t \in Bars PROVE NextBar(t) \in Bars
BY GrpcAssumption DEF NextBar, Bars

\* The invariant of a handler outlasts the assignments of others.
LEMMA LocalLasts ==
  ASSUME NEW j \in Job, NEW n \in Nat, NEW m \in Nat, n <= m, Local(j, n)
  PROVE  Local(j, m)
BY JobFields DEF Local
-----------------------------------------------------------------------------
\* Where each action leaves its handler.
LEMMA ReseedMoves ==
  ASSUME TypeInv, NEW c \in Clients, Reseed(c)
  PROVE  \E j \in Job : /\ Moves(c, j)
                        /\ j = [job[c] EXCEPT !.at = "install"]
BY DEF TypeInv, GrpcTypeOK, Reseed, Moves, Job

\* A reset's state has just been assigned.
LEMMA InstallMoves ==
  ASSUME TypeInv, NEW c \in Clients, Install(c), Len(log') \in Nat
  PROVE  \E j \in Job : /\ Moves(c, j)
                        /\ j = [job[c] EXCEPT !.at = "reply", !.since = Len(log')]
BY DEF TypeInv, GrpcTypeOK, Install, Moves, Job

\* A reset is answered with one state.
LEMMA ReplyMoves ==
  ASSUME TypeInv, NEW c \in Clients, Reply(c), Whole(Now) \in Seq(Nat)
  PROVE  \E j \in Job : /\ Moves(c, j)
                        /\ j = [job[c] EXCEPT !.at = "answered", !.seen = Whole(Now)]
BY DEF TypeInv, GrpcTypeOK, Reply, Moves, Job

\* A batch has its draws.
LEMMA DrawMoves ==
  ASSUME TypeInv, NEW c \in Clients, Draw(c), drawn[rng] \in Nat, rng \in Nat
  PROVE  \E j \in Job : /\ Moves(c, j)
                        /\ j = [job[c] EXCEPT !.at = "check", !.stream = rng, !.first = drawn[rng]]
BY DEF TypeInv, GrpcTypeOK, Draw, Stream, Moves, Job

\* A row begins.
LEMMA CheckMoves ==
  ASSUME TypeInv, NEW c \in Clients, Check(c), Now \in Nat, <<>> \in Seq(Nat)
  PROVE  \E j \in Job, at \in {"look", "step"} :
           /\ Moves(c, j)
           /\ j = [job[c] EXCEPT !.at = at, !.of = <<>>, !.seen = <<>>, !.since = Now]
<1> DEFINE at == IF Current.over THEN "look" ELSE "step"
           j == [job[c] EXCEPT !.at = at, !.of = <<>>, !.seen = <<>>, !.since = Now]
<1>1. at \in {"look", "step"}
  OBVIOUS
<1>2. Moves(c, j)
  BY DEF TypeInv, GrpcTypeOK, Check, Moves
<1> HIDE DEF at
<1>3. j \in Job
  BY <1>1 DEF TypeInv, GrpcTypeOK, Job
<1> QED BY <1>1, <1>2, <1>3

\* A batch is refused.
LEMMA RefuseMoves ==
  ASSUME TypeInv, NEW c \in Clients, Refuse(c)
  PROVE  \E j \in Job : Moves(c, j) /\ j = [job[c] EXCEPT !.at = "answered"]
BY DEF TypeInv, GrpcTypeOK, Refuse, Moves, Job

\* The arguments of a step, all or one part more.
LEMMA ReadMoves ==
  ASSUME TypeInv, NEW c \in Clients, Read(c), Arguments(c) \in Seq(Nat)
  PROVE  \E j \in Job, at \in {"step", "publish"} :
           /\ Moves(c, j)
           /\ j = [job[c] EXCEPT !.at = at, !.of = Arguments(c)]
           /\ at = "publish" <=> Len(Arguments(c)) = Parts
<1> DEFINE at == IF Len(Arguments(c)) = Parts THEN "publish" ELSE "step"
           j == [job[c] EXCEPT !.at = at, !.of = Arguments(c)]
<1>1. at \in {"step", "publish"} /\ (at = "publish" <=> Len(Arguments(c)) = Parts)
  OBVIOUS
<1>2. Moves(c, j)
  <2>1. job[c] \in Job /\ job[c].at = "step"
    BY DEF TypeInv, GrpcTypeOK, Read, At
  <2> QED BY <2>1 DEF Read, Moves, Job
<1> HIDE DEF at
<1>3. j \in Job
  BY <1>1 DEF TypeInv, GrpcTypeOK, Job
<1> QED BY <1>1, <1>2, <1>3

\* A step's state has just been assigned.
LEMMA PublishMoves ==
  ASSUME TypeInv, NEW c \in Clients, Publish(c), Len(log') \in Nat
  PROVE  \E j \in Job : /\ Moves(c, j)
                        /\ j = [job[c] EXCEPT !.at = "look", !.since = Len(log')]
<1>1. job' = [job EXCEPT ![c].at = "look", ![c].since = Len(log')]
  BY DEF Publish
<1> QED BY <1>1 DEF TypeInv, GrpcTypeOK, Moves, Job

\* One attribute has been observed; after the last the row is answered.
LEMMA LookMoves ==
  ASSUME TypeInv, NEW c \in Clients, Look(c), Now \in Nat
  PROVE  \E j \in Job, at \in {"look", "check", "answered"}, row \in Nat :
           /\ Moves(c, j)
           /\ Append(job[c].seen, Now) \in Seq(Nat)
           /\ j = [job[c] EXCEPT !.at = at, !.row = row, !.seen = Append(job[c].seen, Now)]
           /\ \/ at = "look" /\ row = job[c].row
              \/ row = job[c].row + 1 /\ at \in {"check", "answered"}
                 /\ (at = "check" => row < job[c].request.rows)
<1>1. job[c] \in Job /\ job[c].at = "look" /\ job \in [Clients -> Job]
  BY DEF TypeInv, GrpcTypeOK, Look, At
<1>2. /\ Append(job[c].seen, Now) \in Seq(Nat) /\ job[c].row + 1 \in Nat /\ job[c].row \in Nat
      /\ job[c].request.rows \in Nat
  BY <1>1, JobFields, AppendProperties
<1> DEFINE more == Len(Append(job[c].seen, Now)) < Looks(Kind(c))
           at == IF more THEN "look"
                 ELSE IF job[c].row + 1 < job[c].request.rows THEN "check" ELSE "answered"
           row == IF more THEN job[c].row ELSE job[c].row + 1
           j == [job[c] EXCEPT !.at = at, !.row = row, !.seen = Append(job[c].seen, Now)]
<1>3. /\ at \in {"look", "check", "answered"} /\ row \in Nat
      /\ \/ at = "look" /\ row = job[c].row
         \/ row = job[c].row + 1 /\ at \in {"check", "answered"}
            /\ (at = "check" => row < job[c].request.rows)
  BY <1>2
<1>4. Moves(c, j)
  <2>1. CASE more
    <3>1. job' = [job EXCEPT ![c].seen = Append(job[c].seen, Now)]
      BY <2>1 DEF Look, Observed
    <3> QED BY <1>1, <2>1, <3>1 DEF Moves, Job
  <2>2. CASE ~more
    <3>1. job' = [job EXCEPT ![c].seen = Append(job[c].seen, Now), ![c].row = job[c].row + 1,
             ![c].at = IF job[c].row + 1 < job[c].request.rows THEN "check" ELSE "answered"]
      BY <2>2 DEF Look, Observed
    <3> QED BY <1>1, <2>2, <3>1 DEF Moves, Job
  <2> QED BY <2>1, <2>2
<1> HIDE DEF at, row, more
<1>5. j \in Job
  BY <1>1, <1>2, <1>3 DEF Job, Places
<1> QED BY <1>2, <1>3, <1>4, <1>5

\* A thread has taken up the oldest request.
LEMMA DispatchMoves ==
  ASSUME TypeInv, Dispatch, Now \in Nat
  PROVE  \E c \in Clients, j \in Job :
           /\ c = Head(queue) /\ job[c].at = "waiting"
           /\ Moves(c, j) /\ j.at \in {"reseed", "draw", "look"}
           /\ j = [job[c] EXCEPT !.at = FirstPlace[Kind(c)], !.since = Now]
           /\ j.at = FirstPlace[Kind(c)]
<1>1. queue \in Seq(Clients) /\ queue # <<>> /\ job \in [Clients -> Job]
  BY DEF TypeInv, GrpcTypeOK, Dispatch
<1>2. Head(queue) \in Clients /\ Head(queue) = queue[1] /\ 1 \in 1 .. Len(queue)
  BY <1>1
<1>3. job[Head(queue)] \in Job /\ job[Head(queue)].at = "waiting"
  BY <1>1, <1>2 DEF TypeInv, QueueInv, At
<1>4. Kind(Head(queue)) \in Kinds
  BY <1>3, JobFields DEF Kind
<1>5. FirstPlace[Kind(Head(queue))] \in {"reseed", "draw", "look"}
  BY <1>4 DEF FirstPlace, Kinds
<1> DEFINE place == FirstPlace[Kind(Head(queue))]
           j == [job[Head(queue)] EXCEPT !.at = place, !.since = Now]
<1>6. Moves(Head(queue), j)
  BY <1>1, <1>2 DEF Dispatch, Moves
<1> HIDE DEF place
<1>7. j \in Job /\ j.at = place
  BY <1>3, <1>5 DEF Job, place
<1> QED BY <1>2, <1>3, <1>5, <1>6, <1>7 DEF place
-----------------------------------------------------------------------------
\* The log and the streams, typed.
LEMMA SharedTypes ==
  ASSUME TypeInv
  PROVE  /\ log \in Seq(Assignment) /\ Len(log) \in Nat /\ Now \in Nat
         /\ drawn \in Seq(Nat) /\ Len(drawn) \in Nat
         /\ rng \in 1 .. Len(drawn) /\ rng \in Nat /\ drawn[rng] \in Nat
         /\ job \in [Clients -> Job] /\ queue \in Seq(Clients)
<1>1. log \in Seq(Assignment) /\ drawn \in Seq(Nat) /\ rng \in 1 .. Len(drawn)
  BY DEF TypeInv, GrpcTypeOK
<1>2. Len(log) \in Nat /\ Len(drawn) \in Nat
  BY <1>1, LenProperties
<1>3. rng \in Nat /\ drawn[rng] \in Nat
  BY <1>1, <1>2, ElementOfSeq
<1> QED BY <1>1, <1>2, <1>3 DEF TypeInv, GrpcTypeOK, Now

\* A handler that goes on keeps no more threads running than before,
LEMMA RunningStays ==
  ASSUME TypeInv, NEW c \in Running, NEW j \in Job, Moves(c, j)
  PROVE  IsFiniteSet(Running') /\ Cardinality(Running') <= MaxWorkers
<1>1. c \in Clients /\ job \in [Clients -> Job]
  BY DEF Running, TypeInv, GrpcTypeOK
<1>2. \A d \in Clients \ {c} : job'[d] = job[d]
  BY <1>1, MoveFacts
<1>3. Running' \in SUBSET Running
  BY <1>1, <1>2 DEF Running
<1>4. IsFiniteSet(Running) /\ Cardinality(Running) <= MaxWorkers /\ MaxWorkers \in Nat
  BY GrpcAssumption DEF TypeInv, GrpcTypeOK
<1>5. IsFiniteSet(Running') /\ Cardinality(Running') <= Cardinality(Running)
  BY <1>3, <1>4, FS_Subset
<1>6. Cardinality(Running) \in Nat /\ Cardinality(Running') \in Nat
  BY <1>4, <1>5, FS_CardinalityType
<1> QED BY <1>4, <1>5, <1>6

\* and everything in shape, if what it assigns is.
LEMMA HandlerKeepsTypes ==
  ASSUME TypeInv, NEW c \in Running, NEW j \in Job, Moves(c, j), Local(j, Len(log')),
         log' \in Seq(Assignment), Len(log) <= Len(log'),
         drawn' \in Seq(Nat), rng' \in 1 .. Len(drawn'),
         UNCHANGED <<queue, asked, overlapped>>
  PROVE  TypeInv'
<1>1. c \in Clients /\ job[c].at # "waiting" /\ job \in [Clients -> Job] /\ queue \in Seq(Clients)
  BY SharedTypes DEF Running
<1>2. job' \in [Clients -> Job] /\ job'[c] = j /\ \A d \in Clients \ {c} : job'[d] = job[d]
  BY <1>1, MoveFacts
<1>3. IsFiniteSet(Running') /\ Cardinality(Running') <= MaxWorkers
  BY RunningStays
<1>4. Len(log) \in Nat /\ Len(log') \in Nat
  BY SharedTypes, LenProperties
<1>5. \A d \in Clients : Local(job'[d], Len(log'))
  <2> SUFFICES ASSUME NEW d \in Clients \ {c} PROVE Local(job[d], Len(log'))
    BY <1>2
  <2>1. job[d] \in Job /\ Local(job[d], Len(log))
    BY <1>1 DEF TypeInv
  <2> QED BY <1>4, <2>1, LocalLasts
<1>6. QueueInv'
  <2>1. \A i \in 1 .. Len(queue) : queue[i] \in Clients /\ job[queue[i]].at = "waiting"
    BY <1>1, ElementOfSeq DEF TypeInv, QueueInv, At
  <2>2. \A i \in 1 .. Len(queue) : queue[i] # c
    BY <1>1, <2>1
  <2>3. \A i \in 1 .. Len(queue) : job'[queue[i]].at = "waiting"
    BY <1>2, <2>1, <2>2
  <2> QED BY <2>3 DEF TypeInv, QueueInv, At
<1> QED BY <1>2, <1>3, <1>5, <1>6 DEF TypeInv, GrpcTypeOK

\* The states that are assigned have their types.
LEMMA StateTypes ==
  ASSUME TypeInv
  PROVE  /\ \A start \in Bars, c \in Clients \cup {"server"} : NewState(start, c) \in Assignment
         /\ \A v \in 1 .. Len(log) : log[v] \in Assignment
<1>1. ASSUME NEW start \in Bars, NEW c \in Clients \cup {"server"}
      PROVE  NewState(start, c) \in Assignment
  <2>1. Whole(0) \in [1 .. Parts -> Nat]
    BY WholeFacts
  <2>2. rng \in Nat /\ -1 \in Int /\ FALSE \in BOOLEAN /\ "reset" \in {"reset", "step", "again"}
    BY SharedTypes
  <2> QED BY <2>1, <2>2, Zenon DEF NewState, Assignment
<1>2. \A v \in 1 .. Len(log) : log[v] \in Assignment
  BY SharedTypes, ElementOfSeq
<1> QED BY <1>1, <1>2

\* A reset that has come to install its state asked for a bar of the series.
LEMMA InstallStart ==
  ASSUME TypeInv, NEW c \in Clients, Install(c)
  PROVE  job[c].request.start \in Bars
BY DEF TypeInv, Local, Install, At

\* So has a step's.
LEMMA PublishedState ==
  ASSUME TypeInv, NEW c \in Clients, Publish(c)
  PROVE  /\ c \in Running /\ job[c] \in Job
         /\ Len(job[c].of) = Parts /\ \A i \in 1 .. Parts : job[c].of[i] \in 1 .. Len(log)
         /\ \E e \in Assignment :
              /\ log' = Append(log, e)
              /\ e.by = c /\ e.stream = job[c].stream /\ e.draw = job[c].first + job[c].row
              /\ e.made = IF log[job[c].of[2]].over THEN "again" ELSE "step"
<1>1. job[c] \in Job /\ job[c].at = "publish" /\ Local(job[c], Len(log))
  BY SharedTypes DEF Publish, At, TypeInv
<1>2. c \in Running
  BY <1>1 DEF Running
<1>3. Len(job[c].of) = Parts /\ \A i \in 1 .. Parts : job[c].of[i] \in 1 .. Len(log)
  BY <1>1 DEF Local
<1>4. job[c].of \in [1 .. Parts -> Nat]
  BY <1>1, <1>3, JobFields, LenProperties
<1>5. log[job[c].of[1]].t \in Bars
  <2>1. job[c].of[1] \in 1 .. Len(log)
    BY <1>3 DEF Parts
  <2> QED BY <2>1, StateTypes DEF Assignment
<1>6. job[c].stream \in Nat /\ job[c].first + job[c].row \in Int
  BY <1>1, JobFields
<1> DEFINE t == log[job[c].of[1]].t
           again == log[job[c].of[2]].over
           State(over) == [made |-> IF again THEN "again" ELSE "step",
                           t |-> IF again THEN t ELSE NextBar(t), over |-> over, of |-> job[c].of,
                           stream |-> job[c].stream, draw |-> job[c].first + job[c].row, by |-> c]
<1>7. PICK over \in BOOLEAN : log' = Append(log, State(over))
  BY DEF Publish
<1>8. (IF again THEN t ELSE NextBar(t)) \in Bars
  BY <1>5, NextBarInSeries
<1>9. State(over) \in Assignment
  <2>1. (IF again THEN "again" ELSE "step") \in {"reset", "step", "again"}
    OBVIOUS
  <2> HIDE DEF t, again
  <2> QED BY <1>4, <1>6, <1>8, <2>1 DEF Assignment
<1>10. /\ State(over).by = c /\ State(over).stream = job[c].stream
       /\ State(over).draw = job[c].first + job[c].row
       /\ State(over).made = IF log[job[c].of[2]].over THEN "again" ELSE "step"
  OBVIOUS
<1> HIDE DEF State
<1> QED BY <1>1, <1>2, <1>3, <1>7, <1>9, <1>10

\* The arguments read so far are positions in the log.
LEMMA ArgumentFacts ==
  ASSUME TypeInv, NEW c \in Clients, Read(c)
  PROVE  /\ Arguments(c) \in Seq(Nat) /\ Len(Arguments(c)) <= Parts
         /\ \A i \in 1 .. Len(Arguments(c)) : Arguments(c)[i] \in 1 .. Len(log)
<1>1. job[c] \in Job /\ job[c].at = "step" /\ Local(job[c], Len(log)) /\ Now \in Nat /\ Now = Len(log)
  BY SharedTypes DEF Read, At, TypeInv, Now
<1>2. Now \in 1 .. Len(log)
  BY <1>1 DEF TypeInv
<1>3. CASE UseNumba
  <2>1. Arguments(c) = Append(job[c].of, Now)
    BY <1>3 DEF Arguments
  <2>2. job[c].of \in Seq(Nat) /\ Len(job[c].of) \in Nat /\ Len(job[c].of) < Parts /\ Parts \in Nat
    BY <1>1, JobFields, LenProperties DEF Local, Parts
  <2>3. /\ Arguments(c) \in Seq(Nat) /\ Len(Arguments(c)) = Len(job[c].of) + 1
        /\ Arguments(c)[Len(job[c].of) + 1] = Now
        /\ \A i \in 1 .. Len(job[c].of) : Arguments(c)[i] = job[c].of[i]
    BY <1>1, <2>1, <2>2, AppendProperties
  <2>4. \A i \in 1 .. Len(job[c].of) : job[c].of[i] \in 1 .. Len(log)
    BY <1>1 DEF Local
  <2>5. \A i \in 1 .. Len(Arguments(c)) : i \in 1 .. Len(job[c].of) \/ i = Len(job[c].of) + 1
    BY <2>2, <2>3
  <2>6. \A i \in 1 .. Len(Arguments(c)) : Arguments(c)[i] \in 1 .. Len(log)
    BY <1>2, <2>3, <2>4, <2>5
  <2> QED BY <2>2, <2>3, <2>6
<1>4. CASE ~UseNumba
  <2>1. Arguments(c) = Whole(Now)
    BY <1>4 DEF Arguments
  <2>2. /\ Whole(Now) \in Seq(Nat) /\ Len(Whole(Now)) = Parts
        /\ \A i \in 1 .. Parts : Whole(Now)[i] = Now
    BY <1>1, WholeFacts
  <2>3. Parts <= Parts
    BY DEF Parts
  <2> QED BY <1>2, <2>1, <2>2, <2>3
<1> QED BY <1>3, <1>4
-----------------------------------------------------------------------------
\* The types hold at first,
LEMMA TypeInvInit == Init => TypeInv
<1> SUFFICES ASSUME Init PROVE TypeInv
  OBVIOUS
<1> DEFINE observe == [kind |-> "observe", start |-> 0, rows |-> 0]
<1>1. observe \in Requests
  BY DEF Requests
<1>2. NoJob = [NewJob(observe) EXCEPT !.at = "answered"]
  BY DEF NoJob
<1> HIDE DEF observe
<1>3. NewJob(observe) \in Job /\ NewJob(observe).of = <<>> /\ NewJob(observe).since = 0
  BY <1>1, NewJobFacts
<1>4. NoJob \in Job /\ NoJob.at = "answered" /\ NoJob.of = <<>> /\ NoJob.since = 0
  BY <1>2, <1>3 DEF Job
<1>5. job = [c \in Clients |-> NoJob]
  BY DEF Init
<1>6. Running = {} /\ IsFiniteSet(Running) /\ Cardinality(Running) <= MaxWorkers
  <2>1. Running = {}
    BY <1>4, <1>5 DEF Running
  <2> QED BY <2>1, FS_EmptySet, GrpcAssumption
<1>7. NewState(0, "server") \in Assignment
  <2>1. Whole(0) \in [1 .. Parts -> Nat]
    BY WholeFacts
  <2>2. /\ rng \in Nat /\ -1 \in Int /\ FALSE \in BOOLEAN /\ 0 \in Bars
        /\ "reset" \in {"reset", "step", "again"} /\ "server" \in Clients \cup {"server"}
    BY GrpcAssumption DEF Init, Bars
  <2> QED BY <2>1, <2>2, Zenon DEF NewState, Assignment
<1>8. log = <<NewState(0, "server")>>
  BY DEF Init
<1>9. log \in Seq(Assignment) /\ Len(log) = 1
  BY <1>7, <1>8
<1>10. drawn = <<0>> /\ rng = 1 /\ queue = <<>> /\ asked = 0 /\ overlapped = FALSE
  BY DEF Init
<1>11. /\ drawn \in Seq(Nat) /\ rng \in 1 .. Len(drawn) /\ queue \in Seq(Clients)
       /\ asked \in 0 .. MaxRequests /\ overlapped \in BOOLEAN
  <2>1. <<0>> \in Seq(Nat) /\ Len(<<0>>) = 1 /\ <<>> \in Seq(Clients)
    OBVIOUS
  <2>2. drawn \in Seq(Nat) /\ rng \in 1 .. Len(drawn)
    BY <1>10, <2>1
  <2>3. asked \in 0 .. MaxRequests
    BY <1>10, GrpcAssumption
  <2>4. overlapped \in BOOLEAN
    BY <1>10, Zenon
  <2> QED BY <1>10, <2>1, <2>2, <2>3, <2>4
<1>12. job \in [Clients -> Job]
  BY <1>4, <1>5
<1>13. \A c \in Clients : Local(job[c], Len(log))
  BY <1>4, <1>5, <1>9 DEF Local
<1>14. QueueInv
  BY <1>10 DEF QueueInv
<1> QED BY <1>6, <1>9, <1>11, <1>12, <1>13, <1>14 DEF TypeInv, GrpcTypeOK

\* a request that is handed in keeps them,
LEMMA SubmitKeepsTypes ==
  ASSUME TypeInv, NEW c \in Clients, NEW request \in Requests, Submit(c, request)
  PROVE  TypeInv'
<1> DEFINE j == NewJob(request)
<1>1. j \in Job /\ j.at = "waiting" /\ j.row = 0 /\ j.of = <<>> /\ j.since = 0
  BY NewJobFacts
<1>2. Moves(c, j) /\ job[c].at = "answered"
  BY DEF Submit, Moves, At
<1> HIDE DEF j
<1>3. job \in [Clients -> Job] /\ queue \in Seq(Clients) /\ Len(log) \in Nat
  BY SharedTypes
<1>4. job' \in [Clients -> Job] /\ job'[c] = j /\ \A d \in Clients \ {c} : job'[d] = job[d]
  BY <1>1, <1>2, <1>3, MoveFacts
<1>5. Running' = Running
  BY <1>1, <1>2, <1>4 DEF Running
<1>6. /\ queue' = Append(queue, c) /\ UNCHANGED <<log, rng, drawn, overlapped>>
      /\ asked < MaxRequests /\ asked' = asked + 1
  BY DEF Submit
<1>7. /\ queue' \in Seq(Clients) /\ Len(queue') = Len(queue) + 1 /\ Len(queue) \in Nat
      /\ queue'[Len(queue) + 1] = c /\ \A i \in 1 .. Len(queue) : queue'[i] = queue[i]
  BY <1>3, <1>6, AppendProperties
<1>8. \A i \in 1 .. Len(queue') : i \in 1 .. Len(queue) \/ i = Len(queue) + 1
  BY <1>7
<1>9. \A i \in 1 .. Len(queue) : queue[i] \in Clients \ {c} /\ job[queue[i]].at = "waiting"
  BY <1>2, <1>3, ElementOfSeq DEF TypeInv, QueueInv, At
<1>10. QueueInv'
  <2>1. \A i \in 1 .. Len(queue') : job'[queue'[i]].at = "waiting"
    BY <1>1, <1>4, <1>7, <1>8, <1>9
  <2>2. ASSUME NEW i \in 1 .. Len(queue'), NEW k \in 1 .. Len(queue'), i # k
        PROVE  queue'[i] # queue'[k]
    BY <1>7, <1>8, <1>9, <2>2 DEF TypeInv, QueueInv
  <2> QED BY <2>1, <2>2 DEF QueueInv, At
<1>11. \A d \in Clients : Local(job'[d], Len(log'))
  <2>1. Local(j, Len(log'))
    BY <1>1, <1>3, <1>6 DEF Local
  <2> QED BY <1>4, <1>6, <2>1 DEF TypeInv
<1>12. asked' \in 0 .. MaxRequests
  BY <1>6, GrpcAssumption DEF TypeInv, GrpcTypeOK
<1> QED BY <1>4, <1>5, <1>6, <1>7, <1>10, <1>11, <1>12 DEF TypeInv, GrpcTypeOK

\* a thread that takes one up keeps them,
LEMMA DispatchKeepsTypes == ASSUME TypeInv, Dispatch PROVE TypeInv'
<1>1. /\ job \in [Clients -> Job] /\ queue \in Seq(Clients) /\ queue # <<>>
      /\ Len(log) \in Nat /\ Now \in Nat /\ Now = Len(log)
  BY SharedTypes DEF Dispatch, Now
<1>2. PICK c \in Clients, j \in Job :
        /\ c = Head(queue) /\ job[c].at = "waiting"
        /\ Moves(c, j) /\ j.at \in {"reseed", "draw", "look"}
        /\ j = [job[c] EXCEPT !.at = FirstPlace[Kind(c)], !.since = Now]
  BY <1>1, DispatchMoves
<1>3. job' \in [Clients -> Job] /\ job'[c] = j /\ \A d \in Clients \ {c} : job'[d] = job[d]
  BY <1>1, <1>2, MoveFacts
<1>4. queue' = Tail(queue) /\ UNCHANGED <<log, rng, drawn, asked>> /\ FreeThread
  BY DEF Dispatch
<1>5. overlapped' \in BOOLEAN
  BY DEF Dispatch, TypeInv, GrpcTypeOK
<1>6. IsFiniteSet(Running') /\ Cardinality(Running') <= MaxWorkers
  <2>1. Running' = Running \cup {c}
    BY <1>2, <1>3 DEF Running
  <2>2. c \notin Running
    BY <1>2 DEF Running
  <2>3. IsFiniteSet(Running) /\ Cardinality(Running) \in Nat /\ Cardinality(Running) < MaxWorkers
    BY <1>4, FS_CardinalityType DEF TypeInv, FreeThread
  <2>4. IsFiniteSet(Running') /\ Cardinality(Running') = Cardinality(Running) + 1
    BY <2>1, <2>2, <2>3, FS_AddElement
  <2> QED BY <2>3, <2>4, GrpcAssumption
<1>7. /\ queue' \in Seq(Clients) /\ Len(queue') = Len(queue) - 1 /\ Len(queue) \in Nat
      /\ \A i \in 1 .. Len(queue') : queue'[i] = queue[i + 1]
      /\ c = queue[1]
  BY <1>1, <1>2, <1>4, HeadTailProperties, LenProperties
<1>8. \A i \in 1 .. Len(queue') : i + 1 \in 1 .. Len(queue) /\ 1 \in 1 .. Len(queue) /\ i + 1 # 1
  BY <1>7
<1>9. QueueInv'
  <2>1. ASSUME NEW i \in 1 .. Len(queue') PROVE job'[queue'[i]].at = "waiting"
    <3>1. queue'[i] = queue[i + 1] /\ queue[i + 1] # c /\ queue[i + 1] \in Clients
      BY <1>1, <1>7, <1>8, ElementOfSeq DEF TypeInv, QueueInv
    <3>2. job[queue[i + 1]].at = "waiting"
      BY <1>8 DEF TypeInv, QueueInv, At
    <3> QED BY <1>3, <3>1, <3>2
  <2>2. ASSUME NEW i \in 1 .. Len(queue'), NEW k \in 1 .. Len(queue'), i # k
        PROVE  queue'[i] # queue'[k]
    <3>1. i + 1 # k + 1
      BY <1>7, <2>2
    <3> QED BY <1>7, <1>8, <3>1 DEF TypeInv, QueueInv
  <2> QED BY <2>1, <2>2 DEF QueueInv, At
<1>10. \A d \in Clients : Local(job'[d], Len(log'))
  <2>1. job[c] \in Job /\ Local(job[c], Len(log))
    BY <1>1 DEF TypeInv
  <2>2. /\ j.of = job[c].of /\ j.row = job[c].row /\ j.since = Len(log) /\ job[c].row = 0
    BY <1>1, <1>2, <2>1 DEF Job, Local
  <2>3. Local(j, Len(log'))
    BY <1>1, <1>2, <1>4, <2>1, <2>2 DEF Local
  <2> QED BY <1>3, <1>4, <2>3 DEF TypeInv
<1> QED BY <1>3, <1>4, <1>5, <1>6, <1>7, <1>9, <1>10 DEF TypeInv, GrpcTypeOK

\* and so does a handler that goes on.
LEMMA HandleKeepsTypes ==
  ASSUME TypeInv, NEW c \in Clients, Handle(c)
  PROVE  TypeInv' /\ c \in Running
<1>1. /\ job \in [Clients -> Job] /\ job[c] \in Job /\ log \in Seq(Assignment)
      /\ drawn \in Seq(Nat) /\ rng \in 1 .. Len(drawn) /\ rng \in Nat /\ drawn[rng] \in Nat
      /\ Len(log) \in Nat /\ Len(drawn) \in Nat /\ Now \in Nat /\ Now = Len(log)
      /\ Local(job[c], Len(log)) /\ Len(log) <= Len(log)
  BY SharedTypes DEF TypeInv, Now
<1>2. job[c].row \in Nat /\ job[c].of \in Seq(Nat) /\ job[c].since \in Nat
  BY <1>1, JobFields
<1>3. CASE Reseed(c)
  <2>1. c \in Running
    BY <1>3 DEF Reseed, At, Running
  <2>2. PICK j \in Job : Moves(c, j) /\ j = [job[c] EXCEPT !.at = "install"]
    BY <1>3, ReseedMoves
  <2>3. /\ drawn' = Append(drawn, 0) /\ rng' = Len(drawn')
        /\ UNCHANGED <<log, queue, asked, overlapped>>
    BY <1>3 DEF Reseed
  <2>4. drawn' \in Seq(Nat) /\ rng' \in 1 .. Len(drawn')
    BY <1>1, <2>3, AppendProperties
  <2>5. Local(j, Len(log'))
    <3>1. j.request = job[c].request /\ job[c].request.start \in Bars
      BY <1>1, <1>3, <2>2 DEF Reseed, Job
    <3>. QED BY <1>1, <2>2, <2>3, <3>1 DEF Local, Job
  <2> QED BY <1>1, <2>1, <2>2, <2>3, <2>4, <2>5, HandlerKeepsTypes
<1>4. CASE Install(c)
  <2>1. c \in Running
    BY <1>4 DEF Install, At, Running
  <2>2. /\ log' = Append(log, NewState(job[c].request.start, c))
        /\ UNCHANGED <<rng, drawn, queue, asked, overlapped>>
    BY <1>4 DEF Install
  <2>3. log' \in Seq(Assignment) /\ Len(log') = Len(log) + 1 /\ Len(log') \in Nat
    BY <1>1, <1>4, <2>2, InstallStart, StateTypes, AppendProperties
  <2>4. PICK j \in Job : Moves(c, j) /\ j = [job[c] EXCEPT !.at = "reply", !.since = Len(log')]
    BY <1>4, <2>3, InstallMoves
  <2>5. /\ j.of = job[c].of /\ j.at = "reply" /\ j.since = Len(log')
    BY <1>1, <2>4 DEF Job
  <2>6. Local(j, Len(log'))
    BY <1>1, <2>3, <2>5 DEF Local
  <2> QED BY <1>1, <2>1, <2>2, <2>3, <2>4, <2>6, HandlerKeepsTypes
<1>5. CASE Reply(c)
  <2>1. c \in Running
    BY <1>5 DEF Reply, At, Running
  <2>2. Whole(Now) \in Seq(Nat)
    BY <1>1, WholeFacts
  <2>3. PICK j \in Job : Moves(c, j) /\ j = [job[c] EXCEPT !.at = "answered", !.seen = Whole(Now)]
    BY <1>5, <2>2, ReplyMoves
  <2>4. UNCHANGED <<log, rng, drawn, queue, asked, overlapped>>
    BY <1>5 DEF Reply
  <2>5. Local(j, Len(log'))
    BY <1>1, <2>3, <2>4 DEF Local, Job
  <2> QED BY <1>1, <2>1, <2>3, <2>4, <2>5, HandlerKeepsTypes
<1>6. CASE Draw(c)
  <2>1. c \in Running
    BY <1>6 DEF Draw, At, Running
  <2>2. PICK j \in Job :
          Moves(c, j) /\ j = [job[c] EXCEPT !.at = "check", !.stream = rng, !.first = drawn[rng]]
    BY <1>1, <1>6, DrawMoves
  <2>3. /\ drawn' = [drawn EXCEPT ![rng] = @ + job[c].request.rows]
        /\ UNCHANGED <<log, rng, queue, asked, overlapped>>
    BY <1>6 DEF Draw, Take, Stream
  <2>4. drawn[rng] + job[c].request.rows \in Nat
    BY <1>1, JobFields
  <2>5. drawn' \in Seq(Nat) /\ Len(drawn') = Len(drawn)
    BY <1>1, <2>3, <2>4, ExceptSeq
  <2>6. Local(j, Len(log'))
    BY <1>1, <2>2, <2>3 DEF Local, Job
  <2> QED BY <1>1, <2>1, <2>2, <2>3, <2>5, <2>6, HandlerKeepsTypes
<1>7. CASE Check(c)
  <2>1. c \in Running
    BY <1>7 DEF Check, At, Running
  <2>2. <<>> \in Seq(Nat) /\ Len(<<>>) = 0
    BY EmptySeq
  <2>3. PICK j \in Job, at \in {"look", "step"} :
          /\ Moves(c, j)
          /\ j = [job[c] EXCEPT !.at = at, !.of = <<>>, !.seen = <<>>, !.since = Now]
    BY <1>1, <1>7, <2>2, CheckMoves
  <2>4. UNCHANGED <<log, rng, drawn, queue, asked, overlapped>>
    BY <1>7 DEF Check
  <2>5. j.of = <<>> /\ j.at \in {"look", "step"} /\ j.since = Len(log)
    BY <1>1, <2>3 DEF Job
  <2>6. Local(j, Len(log'))
    BY <1>1, <2>2, <2>4, <2>5 DEF Local, Parts
  <2> QED BY <1>1, <2>1, <2>3, <2>4, <2>6, HandlerKeepsTypes
<1>8. CASE Refuse(c)
  <2>1. c \in Running
    BY <1>8 DEF Refuse, At, Running
  <2>2. PICK j \in Job : Moves(c, j) /\ j = [job[c] EXCEPT !.at = "answered"]
    BY <1>8, RefuseMoves
  <2>3. UNCHANGED <<log, rng, drawn, queue, asked, overlapped>>
    BY <1>8 DEF Refuse
  <2>4. Local(j, Len(log'))
    BY <1>1, <2>2, <2>3 DEF Local, Job
  <2> QED BY <1>1, <2>1, <2>2, <2>3, <2>4, HandlerKeepsTypes
<1>9. CASE Read(c)
  <2>1. c \in Running
    BY <1>9 DEF Read, At, Running
  <2>2. /\ Arguments(c) \in Seq(Nat) /\ Len(Arguments(c)) <= Parts
        /\ \A i \in 1 .. Len(Arguments(c)) : Arguments(c)[i] \in 1 .. Len(log)
    BY <1>9, ArgumentFacts
  <2>3. PICK j \in Job, at \in {"step", "publish"} :
          /\ Moves(c, j)
          /\ j = [job[c] EXCEPT !.at = at, !.of = Arguments(c)]
          /\ at = "publish" <=> Len(Arguments(c)) = Parts
    BY <1>9, <2>2, ReadMoves
  <2>4. UNCHANGED <<log, rng, drawn, queue, asked, overlapped>>
    BY <1>9 DEF Read
  <2>5. j.of = Arguments(c) /\ j.at = at /\ j.since = job[c].since
    BY <1>1, <2>3 DEF Job
  <2>6. Len(Arguments(c)) \in Nat /\ Parts \in Nat
    BY <2>2, LenProperties DEF Parts
  <2>7. Local(j, Len(log'))
    BY <1>1, <2>2, <2>3, <2>4, <2>5, <2>6 DEF Local
  <2> QED BY <1>1, <2>1, <2>3, <2>4, <2>7, HandlerKeepsTypes
<1>10. CASE Publish(c)
  <2>1. c \in Running
    BY <1>10, PublishedState
  <2>2. PICK e \in Assignment : log' = Append(log, e)
    BY <1>10, PublishedState
  <2>3. /\ log' \in Seq(Assignment) /\ Len(log') = Len(log) + 1 /\ Len(log') \in Nat
    BY <1>1, <2>2, AppendProperties
  <2>4. PICK j \in Job : Moves(c, j) /\ j = [job[c] EXCEPT !.at = "look", !.since = Len(log')]
    BY <1>10, <2>3, PublishMoves
  <2>5. UNCHANGED <<rng, drawn, queue, asked, overlapped>>
    BY <1>10 DEF Publish
  <2>6. j.of = job[c].of /\ j.at = "look" /\ j.since = Len(log')
    BY <1>1, <2>4 DEF Job
  <2>7. Local(j, Len(log'))
    BY <1>1, <2>3, <2>6 DEF Local
  <2> QED BY <1>1, <2>1, <2>3, <2>4, <2>5, <2>7, HandlerKeepsTypes
<1>11. CASE Look(c)
  <2>1. c \in Running
    BY <1>11 DEF Look, At, Running
  <2>2. PICK j \in Job, at \in {"look", "check", "answered"}, row \in Nat :
          /\ Moves(c, j)
          /\ Append(job[c].seen, Now) \in Seq(Nat)
          /\ j = [job[c] EXCEPT !.at = at, !.row = row, !.seen = Append(job[c].seen, Now)]
          /\ \/ at = "look" /\ row = job[c].row
             \/ row = job[c].row + 1 /\ at \in {"check", "answered"}
                /\ (at = "check" => row < job[c].request.rows)
    BY <1>1, <1>11, LookMoves
  <2>3. UNCHANGED <<log, rng, drawn, queue, asked, overlapped>>
    BY <1>11 DEF Look
  <2>4. j.of = job[c].of /\ j.at = at /\ j.since = job[c].since
    BY <1>1, <2>2 DEF Job
  <2>5. Local(j, Len(log'))
    BY <1>1, <2>3, <2>4 DEF Local
  <2> QED BY <1>1, <2>1, <2>2, <2>3, <2>5, HandlerKeepsTypes
<1> QED
  BY <1>3, <1>4, <1>5, <1>6, <1>7, <1>8, <1>9, <1>10, <1>11 DEF Handle

\* Every step keeps the types.
LEMMA TypeInvStep == TypeInv /\ [Next]_vars => TypeInv'
<1>1. ASSUME TypeInv, UNCHANGED vars PROVE TypeInv'
  BY <1>1 DEF vars, TypeInv, GrpcTypeOK, Running, QueueInv, At
<1> QED
  BY <1>1, SubmitKeepsTypes, DispatchKeepsTypes, HandleKeepsTypes DEF Next

\* The environment, the queue and the handlers keep their shape, and no more
\* handlers run than the pool has threads.
THEOREM GrpcTypeCorrect == Spec => []GrpcTypeOK
<1>1. TypeInv => GrpcTypeOK
  BY DEF TypeInv
<1> QED BY <1>1, TypeInvInit, TypeInvStep, PTL DEF Spec
-----------------------------------------------------------------------------
(***************************************************************************)
(* Observations.  While a handler looks, or is about to, nothing its own   *)
(* client published is later than the state it began with.                 *)
(***************************************************************************)
NotBy(c, from, to) == \A v \in from .. to : log[v].by # c

Recent(j, c) ==
  /\ \A i \in 1 .. Len(j.seen) :
       /\ j.since <= j.seen[i] /\ j.seen[i] <= Len(log)
       /\ i > 1 => j.seen[i - 1] <= j.seen[i]
       /\ NotBy(c, j.since + 1, j.seen[i])
  /\ j.at \in {"reply", "look"} => NotBy(c, j.since + 1, Len(log))
  /\ j.at \in {"waiting", "reseed", "install", "reply", "step", "publish"} => j.seen = <<>>

RecentInv == \A c \in Clients : Recent(job[c], c)

\* An observation stays recent when somebody else publishes, or nobody.
LEMMA RecentLasts ==
  ASSUME TypeInv, NEW c \in Clients, NEW j \in Job, Recent(j, c),
         \/ log' = log
         \/ \E e : log' = Append(log, e) /\ e.by # c /\ e \in Assignment
  PROVE  /\ \A i \in 1 .. Len(j.seen) :
              /\ j.since <= j.seen[i] /\ j.seen[i] <= Len(log')
              /\ i > 1 => j.seen[i - 1] <= j.seen[i]
              /\ NotBy(c, j.since + 1, j.seen[i])'
         /\ j.at \in {"reply", "look"} => NotBy(c, j.since + 1, Len(log))'
         /\ j.at \in {"waiting", "reseed", "install", "reply", "step", "publish"} => j.seen = <<>>
<1>1. Len(log) \in Nat /\ log \in Seq(Assignment) /\ j.since \in Nat /\ j.seen \in Seq(Nat)
  BY SharedTypes, JobFields
<1>2. \A i \in 1 .. Len(j.seen) : j.seen[i] \in Nat
  BY <1>1, ElementOfSeq
<1>3. CASE log' = log
  BY <1>3 DEF Recent, NotBy
<1>4. CASE \E e : log' = Append(log, e) /\ e.by # c /\ e \in Assignment
  <2>1. PICK e : log' = Append(log, e) /\ e.by # c /\ e \in Assignment
    BY <1>4
  <2>2. /\ Len(log') = Len(log) + 1 /\ log'[Len(log) + 1] = e
        /\ \A v \in 1 .. Len(log) : log'[v] = log[v]
    BY <1>1, <2>1, AppendProperties
  <2>3. ASSUME NEW n \in Nat, n <= Len(log), NotBy(c, j.since + 1, n)
        PROVE  NotBy(c, j.since + 1, n)'
    <3> SUFFICES ASSUME NEW v \in j.since + 1 .. n PROVE log'[v].by # c
      BY DEF NotBy
    <3>1. v \in 1 .. Len(log)
      BY <1>1, <2>3
    <3>2. log[v].by # c
      BY <2>3 DEF NotBy
    <3> QED BY <2>2, <3>1, <3>2
  <2>4. ASSUME NotBy(c, j.since + 1, Len(log)) PROVE NotBy(c, j.since + 1, Len(log))'
    <3> SUFFICES ASSUME NEW v \in j.since + 1 .. Len(log') PROVE log'[v].by # c
      BY DEF NotBy
    <3>1. CASE v = Len(log) + 1
      BY <2>1, <2>2, <3>1
    <3>2. CASE v # Len(log) + 1
      <4>1. v \in j.since + 1 .. Len(log) /\ v \in 1 .. Len(log)
        BY <1>1, <2>2, <3>2
      <4>2. log[v].by # c
        BY <2>4, <4>1 DEF NotBy
      <4> QED BY <2>2, <4>1, <4>2
    <3> QED BY <3>1, <3>2
  <2>5. ASSUME NEW i \in 1 .. Len(j.seen)
        PROVE  /\ j.since <= j.seen[i] /\ j.seen[i] <= Len(log')
               /\ i > 1 => j.seen[i - 1] <= j.seen[i]
               /\ NotBy(c, j.since + 1, j.seen[i])'
    <3>1. /\ j.seen[i] \in Nat /\ j.since <= j.seen[i] /\ j.seen[i] <= Len(log)
          /\ i > 1 => j.seen[i - 1] <= j.seen[i]
          /\ NotBy(c, j.since + 1, j.seen[i])
      BY <1>2 DEF Recent
    <3>2. NotBy(c, j.since + 1, j.seen[i])'
      BY <2>3, <3>1
    <3> QED BY <1>1, <2>2, <3>1, <3>2
  <2> QED BY <2>4, <2>5 DEF Recent
<1> QED BY <1>3, <1>4

\* One handler's move keeps all observations recent, if it keeps its own.
LEMMA MoveKeepsRecent ==
  ASSUME TypeInv, RecentInv, NEW c \in Clients, NEW j \in Job, Moves(c, j), Recent(j, c)',
         \/ log' = log
         \/ \E e \in Assignment : log' = Append(log, e) /\ e.by = c
  PROVE  RecentInv'
<1>1. job \in [Clients -> Job]
  BY SharedTypes
<1>2. job' \in [Clients -> Job] /\ job'[c] = j /\ \A d \in Clients \ {c} : job'[d] = job[d]
  BY <1>1, MoveFacts
<1>3. ASSUME NEW d \in Clients \ {c} PROVE Recent(job[d], d)
  BY <1>3 DEF RecentInv
<1>4. ASSUME NEW d \in Clients \ {c}
      PROVE  log' = log \/ \E e : log' = Append(log, e) /\ e.by # d /\ e \in Assignment
  OBVIOUS
<1>5. ASSUME NEW d \in Clients PROVE Recent(job[d], d)'
  <2>1. CASE d = c
    BY <1>2, <2>1 DEF Recent
  <2>2. CASE d # c
    <3>1. job'[d] = job[d] /\ job[d] \in Job /\ Recent(job[d], d)
      BY <1>1, <1>2, <1>3, <2>2
    <3>2. log' = log \/ \E e : log' = Append(log, e) /\ e.by # d /\ e \in Assignment
      BY <1>4, <2>2
    <3> QED BY <3>1, <3>2, RecentLasts DEF Recent
  <2> QED BY <2>1, <2>2
<1> QED BY <1>5 DEF RecentInv

\* A handler that has no observation yet keeps it recent.
LEMMA BlankIsRecent ==
  ASSUME NEW j, NEW c, j.seen = <<>>,
         j.at \in {"reply", "look"} => NotBy(c, j.since + 1, Len(log))
  PROVE  Recent(j, c)
<1>1. Len(<<>>) = 0
  OBVIOUS
<1> QED BY <1>1 DEF Recent

\* Every step of a handler keeps the observations recent.
LEMMA HandleKeepsRecent ==
  ASSUME TypeInv, RecentInv, NEW c \in Clients, Handle(c)
  PROVE  RecentInv'
<1>1. /\ job[c] \in Job /\ log \in Seq(Assignment) /\ drawn[rng] \in Nat /\ rng \in Nat
      /\ Len(log) \in Nat /\ Now \in Nat /\ Now = Len(log) /\ Recent(job[c], c)
  BY SharedTypes DEF RecentInv, Now
<1>2. job[c].since \in Nat /\ job[c].seen \in Seq(Nat) /\ job[c].since <= Len(log)
  BY <1>1, JobFields DEF TypeInv, Local
<1>3. \A n \in Nat : NotBy(c, n + 1, n) /\ NotBy(c, n + 1, n)'
  BY DEF NotBy
<1>4. CASE Reseed(c)
  <2>1. log' = log /\ job[c].at = "reseed"
    BY <1>4 DEF Reseed, At
  <2>2. PICK j \in Job : Moves(c, j) /\ j = [job[c] EXCEPT !.at = "install"]
    BY <1>4, ReseedMoves
  <2>3. j.at = "install" /\ j.seen = <<>>
    BY <1>1, <2>1, <2>2 DEF Recent, Job
  <2>4. Recent(j, c)
    BY <2>3, BlankIsRecent
  <2> QED BY <2>1, <2>2, <2>4, MoveKeepsRecent DEF Recent, NotBy
<1>5. CASE Install(c)
  <2>1. log' = Append(log, NewState(job[c].request.start, c)) /\ job[c].at = "install"
    BY <1>5 DEF Install, At
  <2>2. /\ NewState(job[c].request.start, c) \in Assignment
        /\ NewState(job[c].request.start, c).by = c
    BY <1>1, <1>5, InstallStart, StateTypes DEF NewState
  <2>3. Len(log') = Len(log) + 1 /\ Len(log') \in Nat
    BY <1>1, <2>1, <2>2, AppendProperties
  <2>4. PICK j \in Job : Moves(c, j) /\ j = [job[c] EXCEPT !.at = "reply", !.since = Len(log')]
    BY <1>5, <2>3, InstallMoves
  <2>5. j.at = "reply" /\ j.seen = <<>> /\ j.since = Len(log')
    BY <1>1, <2>1, <2>4 DEF Recent, Job
  <2>6. NotBy(c, j.since + 1, Len(log))'
    BY <1>3, <2>3, <2>5
  <2>7. Recent(j, c)'
    BY <2>5, <2>6 DEF Recent
  <2> QED BY <2>1, <2>2, <2>4, <2>7, MoveKeepsRecent
<1>6. CASE Reply(c)
  <2>1. log' = log /\ job[c].at = "reply"
    BY <1>6 DEF Reply, At
  <2>2. Whole(Now) \in Seq(Nat) /\ Len(Whole(Now)) = Parts /\ \A i \in 1 .. Parts : Whole(Now)[i] = Now
    BY <1>1, WholeFacts
  <2>3. PICK j \in Job : Moves(c, j) /\ j = [job[c] EXCEPT !.at = "answered", !.seen = Whole(Now)]
    BY <1>6, <2>2, ReplyMoves
  <2>4. j.at = "answered" /\ j.seen = Whole(Now) /\ j.since = job[c].since
    BY <1>1, <2>3 DEF Job
  <2>5. NotBy(c, job[c].since + 1, Len(log))
    BY <1>1, <2>1 DEF Recent
  <2>6. Parts \in Nat /\ Len(log) <= Len(log)
    BY <1>1 DEF Parts
  <2>7. \A i \in 1 .. Parts : i > 1 => i - 1 \in 1 .. Parts
    BY <2>6
  <2>8. Recent(j, c)
    BY <1>1, <1>2, <2>2, <2>4, <2>5, <2>6, <2>7 DEF Recent
  <2> QED BY <2>1, <2>3, <2>8, MoveKeepsRecent DEF Recent, NotBy
<1>7. CASE Draw(c)
  <2>1. log' = log /\ job[c].at = "draw"
    BY <1>7 DEF Draw, At
  <2>2. PICK j \in Job :
          Moves(c, j) /\ j = [job[c] EXCEPT !.at = "check", !.stream = rng, !.first = drawn[rng]]
    BY <1>1, <1>7, DrawMoves
  <2>3. j.at = "check" /\ j.seen = job[c].seen /\ j.since = job[c].since
    BY <1>1, <2>2 DEF Job
  <2>4. Recent(j, c)
    BY <1>1, <2>3 DEF Recent
  <2> QED BY <2>1, <2>2, <2>4, MoveKeepsRecent DEF Recent, NotBy
<1>8. CASE Check(c)
  <2>1. log' = log /\ <<>> \in Seq(Nat)
    BY <1>8, EmptySeq DEF Check
  <2>2. PICK j \in Job, at \in {"look", "step"} :
          /\ Moves(c, j)
          /\ j = [job[c] EXCEPT !.at = at, !.of = <<>>, !.seen = <<>>, !.since = Now]
    BY <1>1, <1>8, <2>1, CheckMoves
  <2>3. j.seen = <<>> /\ j.since = Len(log)
    BY <1>1, <2>2 DEF Job
  <2>4. Recent(j, c)
    BY <1>1, <1>3, <2>3, BlankIsRecent
  <2> QED BY <2>1, <2>2, <2>4, MoveKeepsRecent DEF Recent, NotBy
<1>9. CASE Refuse(c)
  <2>1. log' = log
    BY <1>9 DEF Refuse
  <2>2. PICK j \in Job : Moves(c, j) /\ j = [job[c] EXCEPT !.at = "answered"]
    BY <1>9, RefuseMoves
  <2>3. j.at = "answered" /\ j.seen = job[c].seen /\ j.since = job[c].since
    BY <1>1, <2>2 DEF Job
  <2>4. Recent(j, c)
    BY <1>1, <2>3 DEF Recent
  <2> QED BY <2>1, <2>2, <2>4, MoveKeepsRecent DEF Recent, NotBy
<1>10. CASE Read(c)
  <2>1. log' = log /\ job[c].at = "step" /\ Arguments(c) \in Seq(Nat)
    BY <1>10, ArgumentFacts DEF Read, At
  <2>2. PICK j \in Job, at \in {"step", "publish"} :
          /\ Moves(c, j)
          /\ j = [job[c] EXCEPT !.at = at, !.of = Arguments(c)]
          /\ at = "publish" <=> Len(Arguments(c)) = Parts
    BY <1>10, <2>1, ReadMoves
  <2>3. j.at \in {"step", "publish"} /\ j.seen = <<>>
    BY <1>1, <2>1, <2>2 DEF Recent, Job
  <2>4. Recent(j, c)
    BY <2>3, BlankIsRecent
  <2> QED BY <2>1, <2>2, <2>4, MoveKeepsRecent DEF Recent, NotBy
<1>11. CASE Publish(c)
  <2>1. job[c].at = "publish"
    BY <1>11 DEF Publish, At
  <2>2. PICK e \in Assignment : log' = Append(log, e) /\ e.by = c
    BY <1>11, PublishedState
  <2>3. Len(log') = Len(log) + 1 /\ Len(log') \in Nat
    BY <1>1, <2>2, AppendProperties
  <2>4. PICK j \in Job : Moves(c, j) /\ j = [job[c] EXCEPT !.at = "look", !.since = Len(log')]
    BY <1>11, <2>3, PublishMoves
  <2>5. j.at = "look" /\ j.seen = <<>> /\ j.since = Len(log')
    BY <1>1, <2>1, <2>4 DEF Recent, Job
  <2>6. NotBy(c, j.since + 1, Len(log))'
    BY <1>3, <2>3, <2>5
  <2>7. Recent(j, c)'
    BY <2>5, <2>6 DEF Recent
  <2> QED BY <2>2, <2>4, <2>7, MoveKeepsRecent
<1>12. CASE Look(c)
  <2>1. log' = log /\ job[c].at = "look"
    BY <1>12 DEF Look, At
  <2>2. PICK j \in Job, at \in {"look", "check", "answered"}, row \in Nat :
          /\ Moves(c, j)
          /\ Append(job[c].seen, Now) \in Seq(Nat)
          /\ j = [job[c] EXCEPT !.at = at, !.row = row, !.seen = Append(job[c].seen, Now)]
          /\ \/ at = "look" /\ row = job[c].row
             \/ row = job[c].row + 1 /\ at \in {"check", "answered"}
                /\ (at = "check" => row < job[c].request.rows)
    BY <1>1, <1>12, LookMoves
  <2>3. /\ j.at \in {"look", "check", "answered"} /\ j.seen = Append(job[c].seen, Now)
        /\ j.since = job[c].since
    BY <1>1, <2>2 DEF Job
  <2>4. /\ Len(j.seen) = Len(job[c].seen) + 1 /\ Len(job[c].seen) \in Nat
        /\ j.seen[Len(job[c].seen) + 1] = Now
        /\ \A i \in 1 .. Len(job[c].seen) : j.seen[i] = job[c].seen[i]
    BY <1>1, <1>2, <2>3, AppendProperties
  <2>5. NotBy(c, job[c].since + 1, Len(log))
    BY <1>1, <2>1 DEF Recent
  <2>6. \A i \in 1 .. Len(job[c].seen) :
          /\ job[c].since <= job[c].seen[i] /\ job[c].seen[i] <= Len(log)
          /\ i > 1 => job[c].seen[i - 1] <= job[c].seen[i]
          /\ NotBy(c, job[c].since + 1, job[c].seen[i])
    BY <1>1 DEF Recent
  <2>7. ASSUME NEW i \in 1 .. Len(j.seen)
        PROVE  /\ j.since <= j.seen[i] /\ j.seen[i] <= Len(log)
               /\ i > 1 => j.seen[i - 1] <= j.seen[i]
               /\ NotBy(c, j.since + 1, j.seen[i])
    <3>1. CASE i = Len(job[c].seen) + 1
      <4>1. i > 1 => i - 1 \in 1 .. Len(job[c].seen)
        BY <2>4, <3>1
      <4>2. j.seen[i] = Len(log) /\ NotBy(c, j.since + 1, j.seen[i])
        BY <1>1, <2>3, <2>4, <2>5, <3>1
      <4>3. j.since <= j.seen[i] /\ j.seen[i] <= Len(log)
        BY <1>1, <1>2, <2>3, <4>2
      <4>4. i > 1 => j.seen[i - 1] <= j.seen[i]
        BY <2>4, <2>6, <4>1, <4>2
      <4> QED BY <4>2, <4>3, <4>4
    <3>2. CASE i # Len(job[c].seen) + 1
      <4>1. i \in 1 .. Len(job[c].seen) /\ (i > 1 => i - 1 \in 1 .. Len(job[c].seen))
        BY <2>4, <3>2
      <4> QED BY <2>3, <2>4, <2>6, <4>1
    <3> QED BY <3>1, <3>2
  <2>8. Recent(j, c)
    BY <2>3, <2>5, <2>7 DEF Recent
  <2> QED BY <2>1, <2>2, <2>8, MoveKeepsRecent DEF Recent, NotBy
<1> QED
  BY <1>4, <1>5, <1>6, <1>7, <1>8, <1>9, <1>10, <1>11, <1>12 DEF Handle

\* Every step does.
LEMMA RecentStep == TypeInv /\ RecentInv /\ [Next]_vars => RecentInv'
<1> SUFFICES ASSUME TypeInv, RecentInv, [Next]_vars PROVE RecentInv'
  OBVIOUS
<1>0. Now \in Nat /\ Now = Len(log)
  BY SharedTypes DEF Now
<1>1. ASSUME NEW c \in Clients, NEW request \in Requests, Submit(c, request) PROVE RecentInv'
  <2>1. Moves(c, NewJob(request)) /\ log' = log
    BY <1>1 DEF Submit, Moves
  <2>2. NewJob(request) \in Job /\ NewJob(request).seen = <<>> /\ NewJob(request).at = "waiting"
    BY NewJobFacts
  <2>3. Recent(NewJob(request), c)
    BY <2>2, BlankIsRecent
  <2>4. Recent(NewJob(request), c)'
    BY <2>1, <2>3 DEF Recent, NotBy, NewJob
  <2> QED BY <2>1, <2>2, <2>4, MoveKeepsRecent
<1>2. CASE Dispatch
  <2>1. PICK c \in Clients, j \in Job :
          /\ c = Head(queue) /\ job[c].at = "waiting"
          /\ Moves(c, j) /\ j.at \in {"reseed", "draw", "look"}
          /\ j = [job[c] EXCEPT !.at = FirstPlace[Kind(c)], !.since = Now]
    BY <1>0, <1>2, DispatchMoves
  <2>2. job[c] \in Job /\ Recent(job[c], c) /\ log' = log
    BY <1>2, SharedTypes DEF RecentInv, Dispatch
  <2>3. j.seen = <<>> /\ j.since = Len(log)
    BY <1>0, <2>1, <2>2 DEF Recent, Job
  <2>4. NotBy(c, j.since + 1, Len(log))
    BY <1>0, <2>3 DEF NotBy
  <2>5. Recent(j, c)
    BY <2>3, <2>4, BlankIsRecent
  <2>6. Recent(j, c)'
    BY <2>2, <2>5 DEF Recent, NotBy
  <2> QED BY <2>1, <2>2, <2>6, MoveKeepsRecent
<1>3. CASE UNCHANGED vars
  BY <1>3 DEF vars, RecentInv, Recent, NotBy
<1> QED BY <1>1, <1>2, <1>3, HandleKeepsRecent DEF Next

\* Nobody has observed anything at first.
LEMMA RecentInit == Init => RecentInv
<1> SUFFICES ASSUME Init PROVE RecentInv
  OBVIOUS
<1>1. NoJob.seen = <<>> /\ NoJob.at = "answered"
  BY DEF NoJob, NewJob
<1>2. \A c \in Clients : Recent(NoJob, c)
  BY <1>1, BlankIsRecent
<1> QED BY <1>2 DEF Init, RecentInv

\* ObservationIsRecent, whatever runs beside it: an observation is made of
\* states that were current while it was made, in the order they were
\* published, none of the client's own being missed.
THEOREM ObservationIsRecentHolds == Spec => []ObservationIsRecent
<1>1. RecentInv => ObservationIsRecent
  BY DEF RecentInv, Recent, NotBy, ObservationIsRecent
<1> QED BY <1>1, RecentInit, TypeInvInit, TypeInvStep, RecentStep, PTL DEF Spec
-----------------------------------------------------------------------------
(***************************************************************************)
(* Draws.  A batch holds the draws of its rows from the moment it has      *)
(* taken them: nobody else holds one of them, and no step was taken with   *)
(* one it still holds.                                                     *)
(***************************************************************************)
Held(j) ==
  IF j.at \in {"check", "step", "publish"} THEN j.first + j.row .. j.first + j.request.rows - 1
  ELSE IF j.at = "look" THEN j.first + j.row + 1 .. j.first + j.request.rows - 1
  ELSE {}

RowInv(j) ==
  /\ j.at \in {"check", "step", "publish"} => j.row < j.request.rows
  /\ j.at = "draw" => j.request.rows >= 1

Steps == {v \in 1 .. Len(log) : log[v].made = "step"}

DrawInv ==
  /\ \A c \in Clients : RowInv(job[c])
  /\ \A c \in Clients : \A x \in Held(job[c]) :
       job[c].stream \in 1 .. Len(drawn) /\ x < drawn[job[c].stream]
  /\ \A c, d \in Clients : \A x \in Held(job[c]) :
       c # d /\ job[c].stream = job[d].stream => x \notin Held(job[d])
  /\ \A v \in Steps :
       /\ log[v].stream \in 1 .. Len(drawn) /\ log[v].draw < drawn[log[v].stream]
       /\ \A c \in Clients : job[c].stream = log[v].stream => log[v].draw \notin Held(job[c])
  /\ \A v, w \in Steps : v # w => log[v].stream # log[w].stream \/ log[v].draw # log[w].draw

\* What is held is a number.
LEMMA HeldFacts ==
  ASSUME NEW j \in Job
  PROVE  /\ \A x \in Held(j) : x \in Int
         /\ j.row \in Nat /\ j.first \in Nat /\ j.request.rows \in Nat /\ j.stream \in Nat
BY JobFields DEF Held

\* The steps of a log that grows by one assignment.
LEMMA StepsGrow ==
  ASSUME TypeInv, NEW e \in Assignment, log' = Append(log, e)
  PROVE  /\ \A v \in Steps : v \in 1 .. Len(log) /\ log'[v] = log[v]
         /\ Len(log) + 1 \notin Steps /\ log'[Len(log) + 1] = e
         /\ e.made = "step" => Steps' = Steps \cup {Len(log) + 1}
         /\ e.made # "step" => Steps' = Steps
<1>1. log \in Seq(Assignment) /\ Len(log) \in Nat
  BY SharedTypes
<1>2. /\ Len(log') = Len(log) + 1 /\ log'[Len(log) + 1] = e
      /\ \A v \in 1 .. Len(log) : log'[v] = log[v]
  BY <1>1, AppendProperties
<1>3. /\ \A v \in 1 .. Len(log') : v \in 1 .. Len(log) \/ v = Len(log) + 1
      /\ \A v \in 1 .. Len(log) : v \in 1 .. Len(log') /\ v # Len(log) + 1
      /\ Len(log) + 1 \in 1 .. Len(log') /\ Len(log) + 1 \notin 1 .. Len(log)
  BY <1>1, <1>2
<1>4. Steps' = {v \in 1 .. Len(log') : log'[v].made = "step"}
  BY DEF Steps
<1>5. e.made = "step" => Steps' = Steps \cup {Len(log) + 1}
  BY <1>2, <1>3, <1>4 DEF Steps
<1>6. e.made # "step" => Steps' = Steps
  BY <1>2, <1>3, <1>4 DEF Steps
<1> QED BY <1>2, <1>3, <1>5, <1>6 DEF Steps

\* A handler that goes on with what it held, or less, and adds no step.
LEMMA MoveKeepsDraws ==
  ASSUME TypeInv, DrawInv, NEW c \in Clients, NEW j \in Job, Moves(c, j), RowInv(j),
         \A x \in Held(j) : x \in Held(job[c]) /\ j.stream = job[c].stream,
         \/ log' = log
         \/ \E e \in Assignment : log' = Append(log, e) /\ e.made # "step",
         drawn' \in Seq(Nat), Len(drawn) <= Len(drawn'),
         \A s \in 1 .. Len(drawn) : drawn[s] <= drawn'[s]
  PROVE  DrawInv'
<1>1. /\ job \in [Clients -> Job] /\ Len(drawn) \in Nat /\ Len(drawn') \in Nat
      /\ \A s \in 1 .. Len(drawn) : drawn[s] \in Nat /\ drawn'[s] \in Nat /\ s \in 1 .. Len(drawn')
  <2>1. drawn \in Seq(Nat) /\ Len(drawn) \in Nat /\ Len(drawn') \in Nat
    BY SharedTypes, LenProperties
  <2>2. \A s \in 1 .. Len(drawn) : s \in 1 .. Len(drawn')
    BY <2>1
  <2> QED BY <2>1, <2>2, ElementOfSeq, SharedTypes
<1>2. job' \in [Clients -> Job] /\ job'[c] = j /\ \A d \in Clients \ {c} : job'[d] = job[d]
  BY <1>1, MoveFacts
<1>3. ASSUME NEW d \in Clients, NEW x \in Held(job'[d])
      PROVE  x \in Held(job[d]) /\ job'[d].stream = job[d].stream /\ x \in Int
  <2>1. x \in Held(job[d]) /\ job'[d].stream = job[d].stream
    BY <1>2, <1>3
  <2> QED BY <1>1, <2>1, HeldFacts
<1>4. Steps' = Steps /\ \A v \in Steps : log'[v] = log[v]
  BY StepsGrow DEF Steps
<1>5. \A v \in Steps : log[v] \in Assignment /\ log[v].draw \in Int
  BY StateTypes DEF Steps, Assignment
<1>6. (\A d \in Clients : RowInv(job[d]))'
  BY <1>2 DEF DrawInv, RowInv
<1>7. ASSUME NEW d \in Clients, NEW x \in Held(job'[d])
      PROVE  job'[d].stream \in 1 .. Len(drawn') /\ x < drawn'[job'[d].stream]
  <2>1. x \in Held(job[d]) /\ job'[d].stream = job[d].stream /\ x \in Int
    BY <1>3, <1>7
  <2>2. job[d].stream \in 1 .. Len(drawn) /\ x < drawn[job[d].stream]
    BY <2>1 DEF DrawInv
  <2>3. drawn[job[d].stream] <= drawn'[job[d].stream]
    BY <2>2
  <2>4. x < drawn'[job[d].stream]
    BY <1>1, <2>1, <2>2, <2>3
  <2> QED BY <1>1, <2>1, <2>2, <2>4
<1>8. ASSUME NEW b \in Clients, NEW d \in Clients, NEW x \in Held(job'[b]),
             b # d, job'[b].stream = job'[d].stream, x \in Held(job'[d])
      PROVE  FALSE
  <2>1. x \in Held(job[b]) /\ x \in Held(job[d]) /\ job[b].stream = job[d].stream
    BY <1>3, <1>8
  <2> QED BY <1>8, <2>1 DEF DrawInv
<1>9. ASSUME NEW v \in Steps
      PROVE  log[v].stream \in 1 .. Len(drawn') /\ log[v].draw < drawn'[log[v].stream]
  <2>1. log[v].stream \in 1 .. Len(drawn) /\ log[v].draw < drawn[log[v].stream]
    BY DEF DrawInv
  <2>2. drawn[log[v].stream] <= drawn'[log[v].stream] /\ log[v].draw \in Int
    BY <1>5, <2>1
  <2>3. drawn[log[v].stream] \in Nat /\ drawn'[log[v].stream] \in Nat
    BY <1>1, <2>1
  <2>4. ASSUME NEW x \in Int, NEW y \in Nat, NEW z \in Nat, x < y, y <= z PROVE x < z
    BY <2>4
  <2>5. log[v].draw < drawn'[log[v].stream]
    BY <2>1, <2>2, <2>3, <2>4
  <2> QED BY <1>1, <2>1, <2>5
<1>10. ASSUME NEW v \in Steps, NEW d \in Clients, job'[d].stream = log[v].stream,
              log[v].draw \in Held(job'[d])
       PROVE  FALSE
  BY <1>3, <1>10 DEF DrawInv
<1>11. (\A d \in Clients : \A x \in Held(job[d]) :
         job[d].stream \in 1 .. Len(drawn) /\ x < drawn[job[d].stream])'
  BY <1>7 DEF Held
<1>12. (\A b, d \in Clients : \A x \in Held(job[b]) :
         b # d /\ job[b].stream = job[d].stream => x \notin Held(job[d]))'
  BY <1>8 DEF Held
<1>13. (\A v \in Steps :
         /\ log[v].stream \in 1 .. Len(drawn) /\ log[v].draw < drawn[log[v].stream]
         /\ \A d \in Clients : job[d].stream = log[v].stream => log[v].draw \notin Held(job[d]))'
  BY <1>4, <1>9, <1>10 DEF Held
<1>14. (\A v, w \in Steps : v # w => log[v].stream # log[w].stream \/ log[v].draw # log[w].draw)'
  BY <1>4 DEF DrawInv
<1> QED BY <1>6, <1>11, <1>12, <1>13, <1>14 DEF DrawInv

\* A batch that takes its draws takes new ones.
LEMMA DrawKeepsDraws ==
  ASSUME TypeInv, DrawInv, NEW c \in Clients, Draw(c)
  PROVE  DrawInv'
<1>1. /\ job \in [Clients -> Job] /\ job[c] \in Job /\ drawn \in Seq(Nat)
      /\ rng \in 1 .. Len(drawn) /\ rng \in Nat /\ drawn[rng] \in Nat /\ Len(drawn) \in Nat
      /\ log' = log /\ job[c].at = "draw" /\ job[c].row = 0
  BY SharedTypes DEF Draw, At, TypeInv, Local
<1>2. PICK j \in Job :
        Moves(c, j) /\ j = [job[c] EXCEPT !.at = "check", !.stream = rng, !.first = drawn[rng]]
  BY <1>1, DrawMoves
<1> DEFINE rows == job[c].request.rows
<1>3. /\ j.at = "check" /\ j.stream = rng /\ j.first = drawn[rng] /\ j.row = 0
      /\ j.request.rows = rows /\ rows \in Nat /\ rows >= 1
  BY <1>1, <1>2, JobFields DEF Job, DrawInv, RowInv
<1> HIDE DEF rows
<1>4. job' \in [Clients -> Job] /\ job'[c] = j /\ \A d \in Clients \ {c} : job'[d] = job[d]
  BY <1>1, <1>2, MoveFacts
<1>5. drawn' = [drawn EXCEPT ![rng] = drawn[rng] + rows]
  BY DEF Draw, Take, Stream, rows
<1>6. /\ Len(drawn') = Len(drawn) /\ drawn'[rng] = drawn[rng] + rows
      /\ \A s \in 1 .. Len(drawn) : s # rng => drawn'[s] = drawn[s]
      /\ \A s \in 1 .. Len(drawn) : drawn[s] <= drawn'[s] /\ drawn[s] \in Nat /\ drawn'[s] \in Nat
  <2>1. drawn[rng] + rows \in Nat
    BY <1>1, <1>3
  <2>2. /\ Len(drawn') = Len(drawn) /\ drawn' \in Seq(Nat)
        /\ \A s \in 1 .. Len(drawn) : drawn'[s] = IF s = rng THEN drawn[rng] + rows ELSE drawn[s]
    BY <1>1, <1>5, <2>1, ExceptSeq
  <2>3. \A s \in 1 .. Len(drawn) : drawn[s] \in Nat
    BY <1>1, ElementOfSeq
  <2>4. drawn[rng] <= drawn[rng] + rows
    BY <1>1, <1>3
  <2>5. ASSUME NEW s \in 1 .. Len(drawn)
        PROVE  drawn[s] <= drawn'[s] /\ drawn[s] \in Nat /\ drawn'[s] \in Nat
    <3>1. CASE s = rng
      BY <1>1, <2>1, <2>2, <2>4, <3>1
    <3>2. CASE s # rng
      <4>1. drawn'[s] = drawn[s] /\ drawn[s] \in Nat
        BY <2>2, <2>3, <3>2
      <4> QED BY <4>1
    <3> QED BY <3>1, <3>2
  <2> QED BY <1>1, <2>2, <2>5
<1>7. \A x \in Held(j) : x \in Int /\ drawn[rng] <= x /\ x < drawn[rng] + rows
  BY <1>1, <1>3 DEF Held
<1>8. RowInv(j)
  BY <1>3 DEF RowInv
<1>9. \A d \in Clients \ {c} : \A x \in Held(job[d]) :
        /\ x \in Int /\ job[d].stream \in 1 .. Len(drawn) /\ x < drawn[job[d].stream]
  BY <1>1, HeldFacts DEF DrawInv
<1>10. \A v \in Steps : log[v].draw \in Int
  BY StateTypes DEF Steps, Assignment
<1>11. Steps' = Steps
  BY <1>1 DEF Steps
<1>12. (\A d \in Clients : RowInv(job[d]))'
  BY <1>4, <1>8 DEF DrawInv, RowInv
<1>13. ASSUME NEW d \in Clients, NEW x \in Held(job'[d])
       PROVE  job'[d].stream \in 1 .. Len(drawn') /\ x < drawn'[job'[d].stream]
  <2>1. CASE d = c
    BY <1>1, <1>3, <1>4, <1>6, <1>7, <1>13, <2>1
  <2>2. CASE d # c
    <3>1. /\ x \in Int /\ job[d].stream \in 1 .. Len(drawn) /\ x < drawn[job[d].stream]
          /\ job'[d] = job[d]
      BY <1>4, <1>9, <1>13, <2>2
    <3>2. /\ drawn[job[d].stream] \in Nat /\ drawn'[job[d].stream] \in Nat
          /\ drawn[job[d].stream] <= drawn'[job[d].stream]
      BY <1>6, <3>1
    <3>3. x < drawn'[job[d].stream]
      BY <3>1, <3>2
    <3> QED BY <1>6, <3>1, <3>3
  <2> QED BY <2>1, <2>2
<1>14. ASSUME NEW d \in Clients \ {c}, NEW x \in Held(j), x \in Held(job[d]), job[d].stream = rng
       PROVE  FALSE
  <2>1. x \in Int /\ drawn[rng] <= x /\ x < drawn[rng]
    BY <1>7, <1>9, <1>14
  <2> QED BY <1>1, <2>1
<1>15. ASSUME NEW b \in Clients, NEW d \in Clients, NEW x \in Held(job'[b]),
              b # d, job'[b].stream = job'[d].stream, x \in Held(job'[d])
       PROVE  FALSE
  <2>1. CASE b = c
    BY <1>3, <1>4, <1>14, <1>15, <2>1
  <2>2. CASE d = c
    BY <1>3, <1>4, <1>14, <1>15, <2>2
  <2>3. CASE b # c /\ d # c
    BY <1>4, <1>15, <2>3 DEF DrawInv
  <2> QED BY <2>1, <2>2, <2>3
<1>16. ASSUME NEW v \in Steps
       PROVE  log[v].stream \in 1 .. Len(drawn') /\ log[v].draw < drawn'[log[v].stream]
  <2>1. log[v].stream \in 1 .. Len(drawn) /\ log[v].draw < drawn[log[v].stream]
    BY DEF DrawInv
  <2>2. /\ drawn[log[v].stream] \in Nat /\ drawn'[log[v].stream] \in Nat
        /\ drawn[log[v].stream] <= drawn'[log[v].stream] /\ log[v].draw \in Int
    BY <1>6, <1>10, <2>1
  <2>3. ASSUME NEW x \in Int, NEW y \in Nat, NEW z \in Nat, x < y, y <= z PROVE x < z
    BY <2>3
  <2> QED BY <1>6, <2>1, <2>2, <2>3
<1>17. ASSUME NEW v \in Steps, NEW d \in Clients, job'[d].stream = log[v].stream,
              log[v].draw \in Held(job'[d])
       PROVE  FALSE
  <2>1. CASE d = c
    <3>1. log[v].stream = rng /\ drawn[rng] <= log[v].draw /\ log[v].draw < drawn[rng]
      BY <1>3, <1>4, <1>7, <1>17, <2>1 DEF DrawInv
    <3> QED BY <1>1, <1>10, <3>1
  <2>2. CASE d # c
    BY <1>4, <1>17, <2>2 DEF DrawInv
  <2> QED BY <2>1, <2>2
<1>18. (\A d \in Clients : \A x \in Held(job[d]) :
         job[d].stream \in 1 .. Len(drawn) /\ x < drawn[job[d].stream])'
  BY <1>13 DEF Held
<1>19. (\A b, d \in Clients : \A x \in Held(job[b]) :
         b # d /\ job[b].stream = job[d].stream => x \notin Held(job[d]))'
  BY <1>15 DEF Held
<1>20. (\A v \in Steps :
         /\ log[v].stream \in 1 .. Len(drawn) /\ log[v].draw < drawn[log[v].stream]
         /\ \A d \in Clients : job[d].stream = log[v].stream => log[v].draw \notin Held(job[d]))'
  BY <1>1, <1>11, <1>16, <1>17 DEF Held
<1>21. (\A v, w \in Steps : v # w => log[v].stream # log[w].stream \/ log[v].draw # log[w].draw)'
  BY <1>1, <1>11 DEF DrawInv
<1> QED BY <1>12, <1>18, <1>19, <1>20, <1>21 DEF DrawInv

\* A step uses a draw its batch holds, and the batch gives it up.
LEMMA PublishKeepsDraws ==
  ASSUME TypeInv, DrawInv, NEW c \in Clients, Publish(c)
  PROVE  DrawInv'
<1>1. /\ job \in [Clients -> Job] /\ job[c] \in Job /\ drawn \in Seq(Nat) /\ drawn' = drawn
      /\ log \in Seq(Assignment) /\ Len(log) \in Nat /\ Len(drawn) \in Nat
      /\ job[c].at = "publish"
  BY SharedTypes DEF Publish, At
<1>2. PICK e \in Assignment :
        /\ log' = Append(log, e)
        /\ e.by = c /\ e.stream = job[c].stream /\ e.draw = job[c].first + job[c].row
        /\ e.made = IF log[job[c].of[2]].over THEN "again" ELSE "step"
  BY PublishedState
<1>3. Len(log') \in Nat
  BY <1>1, <1>2, AppendProperties
<1>4. PICK j \in Job : Moves(c, j) /\ j = [job[c] EXCEPT !.at = "look", !.since = Len(log')]
  BY <1>3, PublishMoves
<1>5. /\ j.at = "look" /\ j.stream = job[c].stream /\ j.first = job[c].first
      /\ j.row = job[c].row /\ j.request = job[c].request
  BY <1>1, <1>4 DEF Job
<1>6. /\ job[c].row \in Nat /\ job[c].first \in Nat /\ job[c].request.rows \in Nat
      /\ job[c].row < job[c].request.rows
  BY <1>1, JobFields DEF DrawInv, RowInv
<1>7. /\ e.draw \in Held(job[c]) /\ e.draw \notin Held(j)
      /\ \A x \in Held(j) : x \in Held(job[c])
  BY <1>1, <1>2, <1>5, <1>6 DEF Held
<1>8. RowInv(j)
  BY <1>5 DEF RowInv
<1>9. \A s \in 1 .. Len(drawn) : drawn[s] \in Nat /\ drawn[s] <= drawn'[s]
  BY <1>1, ElementOfSeq
<1>10. CASE e.made # "step"
  <2>1. \A x \in Held(j) : x \in Held(job[c]) /\ j.stream = job[c].stream
    BY <1>5, <1>7
  <2>2. \E f \in Assignment : log' = Append(log, f) /\ f.made # "step"
    BY <1>2, <1>10
  <2>3. drawn' \in Seq(Nat) /\ Len(drawn) <= Len(drawn')
    BY <1>1
  <2> QED BY <1>4, <1>8, <1>9, <2>1, <2>2, <2>3, MoveKeepsDraws
<1>11. CASE e.made = "step"
  <2> DEFINE new == Len(log) + 1
  <2>1. /\ \A v \in Steps : log'[v] = log[v] /\ v # new
        /\ log'[new] = e /\ Steps' = Steps \cup {new}
    BY <1>2, <1>11, StepsGrow
  <2> HIDE DEF new
  <2>2. job' \in [Clients -> Job] /\ job'[c] = j /\ \A d \in Clients \ {c} : job'[d] = job[d]
    BY <1>1, <1>4, MoveFacts
  <2>3. ASSUME NEW d \in Clients, NEW x \in Held(job'[d])
        PROVE  x \in Held(job[d]) /\ job'[d].stream = job[d].stream
    BY <1>5, <1>7, <2>2, <2>3
  <2>4. e.stream \in 1 .. Len(drawn) /\ e.draw < drawn[e.stream]
    BY <1>2, <1>7 DEF DrawInv
  <2>5. ASSUME NEW d \in Clients, job'[d].stream = e.stream, e.draw \in Held(job'[d]) PROVE FALSE
    <3>1. d # c
      BY <1>7, <2>2, <2>5
    <3>2. e.draw \in Held(job[d]) /\ job[d].stream = job[c].stream
      BY <1>2, <2>3, <2>5
    <3> QED BY <1>7, <3>1, <3>2 DEF DrawInv
  <2>6. ASSUME NEW v \in Steps, log[v].stream = e.stream, log[v].draw = e.draw PROVE FALSE
    BY <1>2, <1>7, <2>6 DEF DrawInv
  <2>7. (\A d \in Clients : RowInv(job[d]))'
    BY <1>8, <2>2 DEF DrawInv, RowInv
  <2>8. (\A d \in Clients : \A x \in Held(job[d]) :
           job[d].stream \in 1 .. Len(drawn) /\ x < drawn[job[d].stream])'
    <3>1. ASSUME NEW d \in Clients, NEW x \in Held(job'[d])
          PROVE  job'[d].stream \in 1 .. Len(drawn) /\ x < drawn[job'[d].stream]
      BY <2>3, <3>1 DEF DrawInv
    <3> QED BY <1>1, <3>1 DEF Held
  <2>9. (\A b, d \in Clients : \A x \in Held(job[b]) :
           b # d /\ job[b].stream = job[d].stream => x \notin Held(job[d]))'
    <3>1. ASSUME NEW b \in Clients, NEW d \in Clients, NEW x \in Held(job'[b]),
                 b # d, job'[b].stream = job'[d].stream, x \in Held(job'[d])
          PROVE  FALSE
      <4>1. x \in Held(job[b]) /\ x \in Held(job[d]) /\ job[b].stream = job[d].stream
        BY <2>3, <3>1
      <4> QED BY <3>1, <4>1 DEF DrawInv
    <3> QED BY <3>1 DEF Held
  <2>10. (\A v \in Steps :
           /\ log[v].stream \in 1 .. Len(drawn) /\ log[v].draw < drawn[log[v].stream]
           /\ \A d \in Clients : job[d].stream = log[v].stream => log[v].draw \notin Held(job[d]))'
    <3>1. ASSUME NEW v \in Steps
          PROVE  /\ log[v].stream \in 1 .. Len(drawn) /\ log[v].draw < drawn[log[v].stream]
                 /\ \A d \in Clients : job'[d].stream = log[v].stream => log[v].draw \notin Held(job'[d])
      BY <2>3 DEF DrawInv
    <3> QED BY <1>1, <2>1, <2>4, <2>5, <3>1 DEF Held
  <2>11. (\A v, w \in Steps : v # w => log[v].stream # log[w].stream \/ log[v].draw # log[w].draw)'
    BY <2>1, <2>6 DEF DrawInv
  <2> QED BY <2>7, <2>8, <2>9, <2>10, <2>11 DEF DrawInv
<1> QED BY <1>10, <1>11

\* Every step keeps the draws apart.
LEMMA DrawStep == TypeInv /\ DrawInv /\ [Next]_vars => DrawInv'
<1> SUFFICES ASSUME TypeInv, DrawInv, [Next]_vars PROVE DrawInv'
  OBVIOUS
<1>0. /\ job \in [Clients -> Job] /\ Now \in Nat /\ drawn \in Seq(Nat) /\ Len(drawn) \in Nat
      /\ Len(drawn) <= Len(drawn) /\ Len(log) \in Nat /\ log \in Seq(Assignment)
      /\ \A s \in 1 .. Len(drawn) : drawn[s] \in Nat /\ drawn[s] <= drawn[s]
  BY SharedTypes, ElementOfSeq
<1>1. ASSUME NEW c \in Clients, NEW j \in Job, Moves(c, j), RowInv(j),
             \A x \in Held(j) : x \in Held(job[c]) /\ j.stream = job[c].stream,
             log' = log, drawn' = drawn
      PROVE  DrawInv'
  BY <1>0, <1>1, MoveKeepsDraws
<1>2. ASSUME NEW c \in Clients, NEW request \in Requests, Submit(c, request) PROVE DrawInv'
  <2> DEFINE j == NewJob(request)
  <2>1. Moves(c, j) /\ log' = log /\ drawn' = drawn
    BY <1>2 DEF Submit, Moves
  <2>2. j \in Job /\ j.at = "waiting"
    BY NewJobFacts
  <2> HIDE DEF j
  <2>3. RowInv(j) /\ \A x \in Held(j) : x \in Held(job[c]) /\ j.stream = job[c].stream
    BY <2>2 DEF RowInv, Held
  <2> QED BY <1>1, <2>1, <2>2, <2>3
<1>3. CASE Dispatch
  <2>1. PICK c \in Clients, j \in Job :
          /\ c = Head(queue) /\ job[c].at = "waiting"
          /\ Moves(c, j) /\ j.at \in {"reseed", "draw", "look"}
          /\ j = [job[c] EXCEPT !.at = FirstPlace[Kind(c)], !.since = Now]
          /\ j.at = FirstPlace[Kind(c)]
    BY <1>0, <1>3, DispatchMoves
  <2>2. /\ job[c] \in Job /\ job[c].request \in Requests
        /\ Kind(c) = job[c].request.kind /\ Kind(c) \in Kinds
    BY <1>0, JobFields DEF Kind
  <2>3. j.request = job[c].request /\ j.row = job[c].row /\ j.first = job[c].first
    BY <2>1, <2>2 DEF Job
  <2>4. j.at = "draw" => j.request.rows >= 1
    <3>1. j.at = "draw" => Kind(c) = "batch"
      BY <2>1, <2>2 DEF FirstPlace, Kinds
    <3>2. job[c].request.kind = "batch" => job[c].request.rows \in 1 .. MaxBatch
      BY <2>2 DEF Requests
    <3> QED BY <2>2, <2>3, <3>1, <3>2, GrpcAssumption
  <2>5. j.at = "look" => j.request.rows = 0
    <3>1. j.at = "look" => Kind(c) = "observe"
      BY <2>1, <2>2 DEF FirstPlace, Kinds
    <3>2. job[c].request.kind = "observe" => job[c].request.rows = 0
      BY <2>2 DEF Requests
    <3> QED BY <2>2, <2>3, <3>1, <3>2
  <2>6. Held(j) = {}
    <3>1. j.first \in Nat /\ j.row \in Nat
      BY HeldFacts
    <3>2. j.at = "look" => \A x \in Int : ~(j.first + j.row + 1 <= x /\ x <= j.first + j.request.rows - 1)
      BY <2>5, <3>1
    <3>3. j.at = "look" => Held(j) = j.first + j.row + 1 .. j.first + j.request.rows - 1
      BY DEF Held
    <3>4. j.at # "look" => Held(j) = {}
      BY <2>1 DEF Held
    <3>5. j.at = "look" => Held(j) = {}
      BY <2>5, <3>1, <3>2, <3>3
    <3> QED BY <3>4, <3>5
  <2>7. RowInv(j)
    BY <2>1, <2>4 DEF RowInv
  <2>8. log' = log /\ drawn' = drawn
    BY <1>3 DEF Dispatch
  <2> QED BY <1>1, <2>1, <2>6, <2>7, <2>8
<1>4. ASSUME NEW c \in Clients, Handle(c) PROVE DrawInv'
  <2>0. /\ job[c] \in Job /\ RowInv(job[c]) /\ job[c].row \in Nat /\ job[c].first \in Nat
        /\ job[c].request.rows \in Nat
    BY <1>0, JobFields DEF DrawInv
  <2>1. CASE Reseed(c)
    <3>1. PICK j \in Job : Moves(c, j) /\ j = [job[c] EXCEPT !.at = "install"]
      BY <2>1, ReseedMoves
    <3>2. j.at = "install"
      BY <2>0, <3>1 DEF Job
    <3>3. RowInv(j) /\ Held(j) = {}
      BY <3>2 DEF RowInv, Held
    <3>4. drawn' = Append(drawn, 0) /\ log' = log
      BY <2>1 DEF Reseed
    <3>5. /\ drawn' \in Seq(Nat) /\ Len(drawn) <= Len(drawn')
          /\ \A s \in 1 .. Len(drawn) : drawn[s] <= drawn'[s]
      BY <1>0, <3>4, AppendProperties
    <3> QED BY <3>1, <3>3, <3>4, <3>5, MoveKeepsDraws
  <2>2. CASE Install(c)
    <3>1. /\ log' = Append(log, NewState(job[c].request.start, c)) /\ drawn' = drawn
          /\ NewState(job[c].request.start, c) \in Assignment
          /\ NewState(job[c].request.start, c).made # "step"
      BY <2>0, <2>2, InstallStart, StateTypes DEF Install, NewState
    <3>2. Len(log') \in Nat
      BY <1>0, <3>1, AppendProperties
    <3>3. PICK j \in Job : Moves(c, j) /\ j = [job[c] EXCEPT !.at = "reply", !.since = Len(log')]
      BY <2>2, <3>2, InstallMoves
    <3>4. j.at = "reply"
      BY <2>0, <3>3 DEF Job
    <3>5. RowInv(j) /\ Held(j) = {}
      BY <3>4 DEF RowInv, Held
    <3>6. \E e \in Assignment : log' = Append(log, e) /\ e.made # "step"
      BY <3>1
    <3> QED BY <1>0, <3>1, <3>3, <3>5, <3>6, MoveKeepsDraws
  <2>3. CASE Reply(c)
    <3>1. Whole(Now) \in Seq(Nat)
      BY <1>0, WholeFacts
    <3>2. PICK j \in Job : Moves(c, j) /\ j = [job[c] EXCEPT !.at = "answered", !.seen = Whole(Now)]
      BY <2>3, <3>1, ReplyMoves
    <3>3. j.at = "answered" /\ log' = log /\ drawn' = drawn
      BY <2>0, <2>3, <3>2 DEF Job, Reply
    <3>4. RowInv(j) /\ Held(j) = {}
      BY <3>3 DEF RowInv, Held
    <3> QED BY <1>1, <3>2, <3>3, <3>4
  <2>4. CASE Check(c)
    <3>1. log' = log /\ drawn' = drawn /\ <<>> \in Seq(Nat) /\ job[c].at = "check"
      BY <2>4, EmptySeq DEF Check, At
    <3>2. PICK j \in Job, at \in {"look", "step"} :
            /\ Moves(c, j)
            /\ j = [job[c] EXCEPT !.at = at, !.of = <<>>, !.seen = <<>>, !.since = Now]
      BY <1>0, <2>4, <3>1, CheckMoves
    <3>3. /\ j.at = at /\ j.row = job[c].row /\ j.first = job[c].first
          /\ j.request = job[c].request /\ j.stream = job[c].stream
      BY <2>0, <3>2 DEF Job
    <3>4. RowInv(j) /\ \A x \in Held(j) : x \in Held(job[c]) /\ j.stream = job[c].stream
      BY <2>0, <3>1, <3>2, <3>3 DEF RowInv, Held
    <3> QED BY <1>1, <3>1, <3>2, <3>4
  <2>5. CASE Refuse(c)
    <3>1. PICK j \in Job : Moves(c, j) /\ j = [job[c] EXCEPT !.at = "answered"]
      BY <2>5, RefuseMoves
    <3>2. j.at = "answered" /\ log' = log /\ drawn' = drawn
      BY <2>0, <2>5, <3>1 DEF Job, Refuse
    <3>3. RowInv(j) /\ Held(j) = {}
      BY <3>2 DEF RowInv, Held
    <3> QED BY <1>1, <3>1, <3>2, <3>3
  <2>6. CASE Read(c)
    <3>1. log' = log /\ drawn' = drawn /\ job[c].at = "step" /\ Arguments(c) \in Seq(Nat)
      BY <2>6, ArgumentFacts DEF Read, At
    <3>2. PICK j \in Job, at \in {"step", "publish"} :
            /\ Moves(c, j)
            /\ j = [job[c] EXCEPT !.at = at, !.of = Arguments(c)]
            /\ at = "publish" <=> Len(Arguments(c)) = Parts
      BY <2>6, <3>1, ReadMoves
    <3>3. /\ j.at = at /\ j.row = job[c].row /\ j.first = job[c].first
          /\ j.request = job[c].request /\ j.stream = job[c].stream
      BY <2>0, <3>2 DEF Job
    <3>4. RowInv(j) /\ \A x \in Held(j) : x \in Held(job[c]) /\ j.stream = job[c].stream
      BY <2>0, <3>1, <3>2, <3>3 DEF RowInv, Held
    <3> QED BY <1>1, <3>1, <3>2, <3>4
  <2>7. CASE Look(c)
    <3>1. log' = log /\ drawn' = drawn /\ job[c].at = "look"
      BY <2>7 DEF Look, At
    <3>2. PICK j \in Job, at \in {"look", "check", "answered"}, row \in Nat :
            /\ Moves(c, j)
            /\ Append(job[c].seen, Now) \in Seq(Nat)
            /\ j = [job[c] EXCEPT !.at = at, !.row = row, !.seen = Append(job[c].seen, Now)]
            /\ \/ at = "look" /\ row = job[c].row
               \/ row = job[c].row + 1 /\ at \in {"check", "answered"}
                  /\ (at = "check" => row < job[c].request.rows)
      BY <1>0, <2>7, LookMoves
    <3>3. /\ j.at = at /\ j.row = row /\ j.first = job[c].first
          /\ j.request = job[c].request /\ j.stream = job[c].stream
      BY <2>0, <3>2 DEF Job
    <3>4. RowInv(j)
      BY <3>2, <3>3 DEF RowInv
    <3>5. \A x \in Held(j) : x \in Held(job[c]) /\ j.stream = job[c].stream
      <4>1. CASE at = "answered"
        BY <3>3, <4>1 DEF Held
      <4>2. CASE at = "look" /\ row = job[c].row
        BY <3>1, <3>3, <4>2 DEF Held
      <4>3. CASE at = "check" /\ row = job[c].row + 1
        BY <2>0, <3>1, <3>3, <4>3 DEF Held
      <4> QED BY <3>2, <4>1, <4>2, <4>3
    <3> QED BY <1>1, <3>1, <3>2, <3>4, <3>5
  <2> QED
    BY <1>4, <2>1, <2>2, <2>3, <2>4, <2>5, <2>6, <2>7, DrawKeepsDraws, PublishKeepsDraws DEF Handle
<1>5. CASE UNCHANGED vars
  <2>1. job' = job /\ log' = log /\ drawn' = drawn
    BY <1>5 DEF vars
  <2>2. Steps' = Steps
    BY <2>1 DEF Steps
  <2>3. (\A c \in Clients : RowInv(job[c]))'
    BY <2>1 DEF DrawInv, RowInv
  <2>4. (\A c \in Clients : \A x \in Held(job[c]) :
          job[c].stream \in 1 .. Len(drawn) /\ x < drawn[job[c].stream])'
    BY <2>1 DEF DrawInv, Held
  <2>5. (\A c, d \in Clients : \A x \in Held(job[c]) :
          c # d /\ job[c].stream = job[d].stream => x \notin Held(job[d]))'
    BY <2>1 DEF DrawInv, Held
  <2>6. (\A v \in Steps :
          /\ log[v].stream \in 1 .. Len(drawn) /\ log[v].draw < drawn[log[v].stream]
          /\ \A c \in Clients : job[c].stream = log[v].stream => log[v].draw \notin Held(job[c]))'
    BY <2>1, <2>2 DEF DrawInv, Held
  <2>7. (\A v, w \in Steps : v # w => log[v].stream # log[w].stream \/ log[v].draw # log[w].draw)'
    BY <2>1, <2>2 DEF DrawInv
  <2> QED BY <2>3, <2>4, <2>5, <2>6, <2>7 DEF DrawInv
<1> QED BY <1>2, <1>3, <1>4, <1>5 DEF Next

\* Nobody holds a draw at first.
LEMMA DrawInit == Init => DrawInv
<1> SUFFICES ASSUME Init PROVE DrawInv
  OBVIOUS
<1>1. NoJob.at = "answered" /\ \A c \in Clients : job[c] = NoJob
  BY DEF Init, NoJob, NewJob
<1>2. \A c \in Clients : Held(job[c]) = {} /\ RowInv(job[c])
  BY <1>1 DEF Held, RowInv
<1>3. Steps = {}
  <2>1. Len(log) = 1 /\ log[1].made = "reset"
    BY DEF Init, NewState
  <2> QED BY <2>1 DEF Steps
<1> QED BY <1>2, <1>3 DEF DrawInv

\* NoDrawsShared: no two steps are taken with the same draws of a stream.
THEOREM NoDrawsSharedHolds == Spec => []NoDrawsShared
<1>1. DrawInv => NoDrawsShared
  BY DEF DrawInv, Steps, NoDrawsShared
<1> QED BY <1>1, DrawInit, TypeInvInit, TypeInvStep, DrawStep, PTL DEF Spec
-----------------------------------------------------------------------------
(***************************************************************************)
(* What a client's next step takes account of.  While a handler gathers    *)
(* the arguments of a step, nothing its own client published is later than *)
(* any of them: a client has one request at a time, and the handler itself *)
(* publishes only when it has them all.                                    *)
(***************************************************************************)
Gathers(j) == j.at \in {"step", "publish"}

Own(j, c) == Gathers(j) => \A i \in 1 .. Len(j.of) : NotBy(c, j.of[i] + 1, Len(log))

\* The published step at v missed nothing of its own client's.
Kept(v) ==
  log[v].made # "reset" =>
    \A part \in 1 .. Parts : NotBy(log[v].by, log[v].of[part] + 1, v - 1)

OwnInv ==
  /\ \A v \in 1 .. Len(log) : Kept(v)
  /\ \A c \in Clients : Own(job[c], c)

\* Nothing of c's is late when somebody else publishes.
LEMMA NotByLasts ==
  ASSUME TypeInv, NEW c, NEW from \in Nat, NotBy(c, from, Len(log)),
         NEW e \in Assignment, e.by # c, log' = Append(log, e), from >= 1
  PROVE  NotBy(c, from, Len(log))'
<1>1. /\ Len(log) \in Nat /\ Len(log') = Len(log) + 1 /\ log'[Len(log) + 1] = e
      /\ \A v \in 1 .. Len(log) : log'[v] = log[v]
  BY SharedTypes, AppendProperties
<1> SUFFICES ASSUME NEW v \in from .. Len(log') PROVE log'[v].by # c
  BY DEF NotBy
<1>2. CASE v = Len(log) + 1
  BY <1>1, <1>2
<1>3. CASE v # Len(log) + 1
  <2>1. v \in from .. Len(log) /\ v \in 1 .. Len(log)
    BY <1>1, <1>3
  <2> QED BY <1>1, <2>1 DEF NotBy
<1> QED BY <1>2, <1>3

\* Nor is it behind the arguments of c's own handler.
LEMMA OwnLasts ==
  ASSUME TypeInv, NEW c, NEW j \in Job, Own(j, c), Local(j, Len(log)),
         NEW e \in Assignment, e.by # c, log' = Append(log, e)
  PROVE  Own(j, c)'
<1> SUFFICES ASSUME Gathers(j), NEW i \in 1 .. Len(j.of)
             PROVE  NotBy(c, j.of[i] + 1, Len(log))'
  BY DEF Own
<1>1. NotBy(c, j.of[i] + 1, Len(log)) /\ j.of[i] \in 1 .. Len(log)
  BY DEF Own, Local
<1>2. j.of[i] + 1 \in Nat /\ j.of[i] + 1 >= 1
  BY <1>1, SharedTypes
<1> QED BY <1>1, <1>2, NotByLasts

\* What a published step was made from does not change.
LEMMA KeptLasts ==
  ASSUME TypeInv, NEW e \in Assignment, log' = Append(log, e),
         NEW v \in 1 .. Len(log), Kept(v)
  PROVE  Kept(v)'
<1>1. /\ Len(log) \in Nat /\ log \in Seq(Assignment)
      /\ \A w \in 1 .. Len(log) : log'[w] = log[w]
  BY SharedTypes, AppendProperties
<1>2. log[v] \in Assignment
  BY <1>1, ElementOfSeq
<1> SUFFICES ASSUME log[v].made # "reset", NEW part \in 1 .. Parts,
                    NEW w \in log[v].of[part] + 1 .. v - 1
             PROVE  log'[w].by # log[v].by
  BY <1>1 DEF Kept, NotBy
<1>3. log[v].of[part] \in Nat
  BY <1>2 DEF Assignment
<1>4. w \in 1 .. Len(log)
  BY <1>1, <1>3
<1> QED BY <1>1, <1>4 DEF Kept, NotBy

\* One handler's move keeps the arguments of all, if it keeps its own.
LEMMA MoveKeepsOwn ==
  ASSUME TypeInv, OwnInv, NEW c \in Clients, NEW j \in Job, Moves(c, j), Own(j, c)',
         \/ log' = log
         \/ \E e \in Assignment : log' = Append(log, e) /\ e.by = c /\ Kept(Len(log))'
  PROVE  OwnInv'
<1>1. job \in [Clients -> Job] /\ Len(log) \in Nat /\ log \in Seq(Assignment)
  BY SharedTypes
<1>2. job' \in [Clients -> Job] /\ job'[c] = j /\ \A d \in Clients \ {c} : job'[d] = job[d]
  BY <1>1, MoveFacts
<1>3. ASSUME NEW d \in Clients \ {c} PROVE Own(job[d], d)'
  <2>1. Own(job[d], d) /\ job[d] \in Job /\ Local(job[d], Len(log)) /\ job'[d] = job[d]
    BY <1>1, <1>2 DEF OwnInv, TypeInv
  <2>2. CASE log' = log
    BY <2>1, <2>2 DEF Own, NotBy
  <2>3. CASE log' # log
    <3>1. PICK e \in Assignment : log' = Append(log, e) /\ e.by = c
      BY <2>3
    <3>2. PICK k \in Job : k = job[d]
      BY <2>1
    <3>3. Own(k, d) /\ Local(k, Len(log)) /\ e.by # d
      BY <2>1, <3>1, <3>2
    <3>4. Own(k, d)'
      BY <3>1, <3>3, OwnLasts
    <3> QED BY <2>1, <3>2, <3>4 DEF Own
  <2> QED BY <2>2, <2>3
<1>4. \A d \in Clients : Own(job[d], d)'
  BY <1>2, <1>3 DEF Own
<1>5. ASSUME NEW v \in 1 .. Len(log') PROVE Kept(v)'
  <2>1. CASE log' = log
    BY <2>1 DEF OwnInv, Kept, NotBy
  <2>2. CASE log' # log
    <3>1. PICK e \in Assignment : log' = Append(log, e) /\ Kept(Len(log))'
      BY <2>2
    <3>2. Len(log') = Len(log) + 1
      BY <1>1, <3>1, AppendProperties
    <3>3. CASE v = Len(log) + 1
      BY <3>1, <3>3
    <3>4. CASE v # Len(log) + 1
      <4>1. v \in 1 .. Len(log) /\ Kept(v)
        BY <1>1, <3>2, <3>4 DEF OwnInv
      <4> QED BY <3>1, <4>1, KeptLasts
    <3> QED BY <3>3, <3>4
  <2> QED BY <2>1, <2>2
<1> QED BY <1>4, <1>5 DEF OwnInv

\* Reading an argument: nothing is later than what is read last.
LEMMA ReadKeepsOwn ==
  ASSUME TypeInv, OwnInv, NEW c \in Clients, Read(c) PROVE OwnInv'
<1>1. /\ log' = log /\ job[c].at = "step" /\ Len(log) \in Nat /\ Now = Len(log) /\ Now \in Nat
      /\ Arguments(c) \in Seq(Nat) /\ job[c] \in Job
  BY SharedTypes, ArgumentFacts DEF Read, At, Now
<1>2. PICK j \in Job, at \in {"step", "publish"} :
        /\ Moves(c, j)
        /\ j = [job[c] EXCEPT !.at = at, !.of = Arguments(c)]
        /\ at = "publish" <=> Len(Arguments(c)) = Parts
  BY <1>1, ReadMoves
<1>3. j.of = Arguments(c)
  BY <1>1, <1>2 DEF Job
<1>4. NotBy(c, Now + 1, Len(log))
  BY <1>1 DEF NotBy
<1>5. ASSUME NEW i \in 1 .. Len(j.of) PROVE NotBy(c, j.of[i] + 1, Len(log))
  <2>1. CASE ~UseNumba
    <3>1. j.of = Whole(Now) /\ Len(Whole(Now)) = Parts /\ \A k \in 1 .. Parts : Whole(Now)[k] = Now
      BY <1>1, <1>3, <2>1, WholeFacts DEF Arguments
    <3> QED BY <1>4, <3>1
  <2>2. CASE UseNumba
    <3>1. /\ j.of = Append(job[c].of, Now) /\ Len(job[c].of) \in Nat
          /\ Len(j.of) = Len(job[c].of) + 1 /\ j.of[Len(job[c].of) + 1] = Now
          /\ \A k \in 1 .. Len(job[c].of) : j.of[k] = job[c].of[k]
      BY <1>1, <1>3, <2>2, JobFields, AppendProperties, LenProperties DEF Arguments
    <3>2. \A k \in 1 .. Len(job[c].of) : NotBy(c, job[c].of[k] + 1, Len(log))
      BY <1>1 DEF OwnInv, Own, Gathers
    <3>3. i \in 1 .. Len(job[c].of) \/ i = Len(job[c].of) + 1
      BY <3>1
    <3> QED BY <1>4, <3>1, <3>2, <3>3
  <2> QED BY <2>1, <2>2
<1>6. Own(j, c)'
  BY <1>1, <1>5 DEF Own, NotBy
<1> QED BY <1>1, <1>2, <1>6, MoveKeepsOwn

\* Publishing a step: its arguments were complete, and none of them missed.
LEMMA PublishKeepsOwn ==
  ASSUME TypeInv, OwnInv, NEW c \in Clients, Publish(c) PROVE OwnInv'
<1>1. /\ job[c] \in Job /\ job[c].at = "publish" /\ Len(log) \in Nat /\ log \in Seq(Assignment)
  BY SharedTypes DEF Publish, At
<1>2. PICK e \in Assignment : log' = Append(log, e) /\ e.by = c /\ e.of = job[c].of
  <2>1. PICK e \in Assignment : log' = Append(log, e) /\ e.by = c
    BY PublishedState
  <2>2. log' \in Seq(Assignment) /\ log'[Len(log) + 1] = e
    BY <1>1, <2>1, AppendProperties
  <2>3. PICK over, made, t : log' = Append(log,
          [made |-> made, t |-> t, over |-> over, of |-> job[c].of,
           stream |-> job[c].stream, draw |-> job[c].first + job[c].row, by |-> c])
    BY DEF Publish
  <2>4. log'[Len(log) + 1].of = job[c].of
    BY <1>1, <2>3
  <2> QED BY <2>1, <2>2, <2>4
<1>3. /\ Len(log') = Len(log) + 1 /\ Len(log') \in Nat /\ log'[Len(log) + 1] = e
      /\ \A v \in 1 .. Len(log) : log'[v] = log[v]
  BY <1>1, <1>2, AppendProperties
<1>4. PICK j \in Job : Moves(c, j) /\ j = [job[c] EXCEPT !.at = "look", !.since = Len(log')]
  BY <1>3, PublishMoves
<1>5. j.at = "look"
  BY <1>1, <1>4 DEF Job
<1>6. Own(j, c)'
  BY <1>5 DEF Own, Gathers
<1>7. Kept(Len(log))'
  <2>0. Len(log') - 1 = Len(log) /\ log'[Len(log')] = e
    BY <1>1, <1>3
  <2> SUFFICES ASSUME NEW part \in 1 .. Parts PROVE NotBy(e.by, e.of[part] + 1, Len(log) - 1)'
    BY <2>0 DEF Kept
  <2> SUFFICES ASSUME NEW w \in e.of[part] + 1 .. Len(log) PROVE log'[w].by # c
    BY <1>2, <2>0 DEF NotBy
  <2>1. Len(job[c].of) = Parts /\ e.of[part] \in 1 .. Len(log)
    BY <1>2, PublishedState
  <2>2. NotBy(c, e.of[part] + 1, Len(log))
    BY <1>1, <1>2, <2>1 DEF OwnInv, Own, Gathers
  <2>3. w \in 1 .. Len(log)
    BY <1>1, <2>1
  <2> QED BY <1>3, <2>2, <2>3 DEF NotBy
<1> QED BY <1>2, <1>4, <1>6, <1>7, MoveKeepsOwn

\* Every step of a handler keeps its client's steps.
LEMMA HandleKeepsOwn ==
  ASSUME TypeInv, OwnInv, NEW c \in Clients, Handle(c) PROVE OwnInv'
<1>1. /\ job[c] \in Job /\ log \in Seq(Assignment) /\ drawn[rng] \in Nat /\ rng \in Nat
      /\ Len(log) \in Nat /\ Now \in Nat /\ Now = Len(log) /\ Own(job[c], c)
  BY SharedTypes DEF OwnInv, Now
<1>2. ASSUME NEW j \in Job, Moves(c, j), log' = log, ~Gathers(j) \/ j.of = <<>> PROVE OwnInv'
  <2>1. Len(<<>>) = 0
    OBVIOUS
  <2>2. Own(j, c)'
    BY <1>2, <2>1 DEF Own
  <2> QED BY <1>2, <2>2, MoveKeepsOwn
<1>3. CASE Reseed(c)
  <2>1. PICK j \in Job : Moves(c, j) /\ j = [job[c] EXCEPT !.at = "install"]
    BY <1>3, ReseedMoves
  <2>2. j.at = "install" /\ log' = log
    BY <1>1, <1>3, <2>1 DEF Job, Reseed
  <2> QED BY <1>2, <2>1, <2>2 DEF Gathers
<1>4. CASE Install(c)
  <2>1. log' = Append(log, NewState(job[c].request.start, c))
    BY <1>4 DEF Install
  <2>2. /\ NewState(job[c].request.start, c) \in Assignment
        /\ NewState(job[c].request.start, c).by = c
        /\ NewState(job[c].request.start, c).made = "reset"
    BY <1>1, <1>4, InstallStart, StateTypes DEF NewState
  <2>3. /\ Len(log') = Len(log) + 1 /\ Len(log') \in Nat
        /\ log'[Len(log) + 1] = NewState(job[c].request.start, c)
    BY <1>1, <2>1, <2>2, AppendProperties
  <2>4. PICK j \in Job : Moves(c, j) /\ j = [job[c] EXCEPT !.at = "reply", !.since = Len(log')]
    BY <1>4, <2>3, InstallMoves
  <2>5. Own(j, c)'
    BY <1>1, <2>4 DEF Own, Gathers, Job
  <2>6. Kept(Len(log))'
    BY <1>1, <2>2, <2>3 DEF Kept
  <2> QED BY <2>1, <2>2, <2>4, <2>5, <2>6, MoveKeepsOwn
<1>5. CASE Reply(c)
  <2>1. Whole(Now) \in Seq(Nat)
    BY <1>1, WholeFacts
  <2>2. PICK j \in Job : Moves(c, j) /\ j = [job[c] EXCEPT !.at = "answered", !.seen = Whole(Now)]
    BY <1>5, <2>1, ReplyMoves
  <2>3. j.at = "answered" /\ log' = log
    BY <1>1, <1>5, <2>2 DEF Job, Reply
  <2> QED BY <1>2, <2>2, <2>3 DEF Gathers
<1>6. CASE Draw(c)
  <2>1. PICK j \in Job :
          Moves(c, j) /\ j = [job[c] EXCEPT !.at = "check", !.stream = rng, !.first = drawn[rng]]
    BY <1>1, <1>6, DrawMoves
  <2>2. j.at = "check" /\ log' = log
    BY <1>1, <1>6, <2>1 DEF Job, Draw
  <2> QED BY <1>2, <2>1, <2>2 DEF Gathers
<1>7. CASE Check(c)
  <2>1. PICK j \in Job, at \in {"look", "step"} :
          /\ Moves(c, j)
          /\ j = [job[c] EXCEPT !.at = at, !.of = <<>>, !.seen = <<>>, !.since = Now]
    BY <1>1, <1>7, EmptySeq, CheckMoves
  <2>2. j.of = <<>> /\ log' = log
    BY <1>1, <1>7, <2>1 DEF Job, Check
  <2> QED BY <1>2, <2>1, <2>2
<1>8. CASE Refuse(c)
  <2>1. PICK j \in Job : Moves(c, j) /\ j = [job[c] EXCEPT !.at = "answered"]
    BY <1>8, RefuseMoves
  <2>2. j.at = "answered" /\ log' = log
    BY <1>1, <1>8, <2>1 DEF Job, Refuse
  <2> QED BY <1>2, <2>1, <2>2 DEF Gathers
<1>9. CASE Look(c)
  <2>1. PICK j \in Job, at \in {"look", "check", "answered"}, row \in Nat :
          /\ Moves(c, j)
          /\ Append(job[c].seen, Now) \in Seq(Nat)
          /\ j = [job[c] EXCEPT !.at = at, !.row = row, !.seen = Append(job[c].seen, Now)]
          /\ \/ at = "look" /\ row = job[c].row
             \/ row = job[c].row + 1 /\ at \in {"check", "answered"}
                /\ (at = "check" => row < job[c].request.rows)
    BY <1>1, <1>9, LookMoves
  <2>2. j.at \in {"look", "check", "answered"} /\ log' = log
    BY <1>1, <1>9, <2>1 DEF Job, Look
  <2> QED BY <1>2, <2>1, <2>2 DEF Gathers
<1> QED
  BY <1>3, <1>4, <1>5, <1>6, <1>7, <1>8, <1>9, ReadKeepsOwn, PublishKeepsOwn DEF Handle

\* Every step does.
LEMMA OwnStep == TypeInv /\ OwnInv /\ [Next]_vars => OwnInv'
<1> SUFFICES ASSUME TypeInv, OwnInv, [Next]_vars PROVE OwnInv'
  OBVIOUS
<1>0. Now \in Nat
  BY SharedTypes
<1>1. ASSUME NEW c \in Clients, NEW j \in Job, Moves(c, j), log' = log, ~Gathers(j) PROVE OwnInv'
  BY <1>1, MoveKeepsOwn DEF Own
<1>2. ASSUME NEW c \in Clients, NEW request \in Requests, Submit(c, request) PROVE OwnInv'
  <2>1. Moves(c, NewJob(request)) /\ log' = log
    BY <1>2 DEF Submit, Moves
  <2>2. NewJob(request) \in Job /\ NewJob(request).at = "waiting"
    BY NewJobFacts
  <2>3. ~Gathers(NewJob(request))
    BY <2>2 DEF Gathers
  <2> QED BY <1>1, <2>1, <2>2, <2>3
<1>3. CASE Dispatch
  <2>1. PICK c \in Clients, j \in Job : Moves(c, j) /\ j.at \in {"reseed", "draw", "look"}
    BY <1>0, <1>3, DispatchMoves
  <2>2. log' = log
    BY <1>3 DEF Dispatch
  <2> QED BY <1>1, <2>1, <2>2 DEF Gathers
<1>4. CASE UNCHANGED vars
  BY <1>4 DEF vars, OwnInv, Own, Kept, NotBy
<1> QED BY <1>2, <1>3, <1>4, HandleKeepsOwn DEF Next

\* OwnStepsAreKept, for any number of clients and threads, either path of the
\* core and any interleaving: what a client has published, its next step takes
\* account of, unless another client has undone it.
THEOREM OwnStepsAreKeptHolds == Spec => []OwnStepsAreKept
<1>1. Init => OwnInv
  <2> SUFFICES ASSUME Init PROVE OwnInv
    OBVIOUS
  <2>1. NoJob.at = "answered"
    BY DEF NoJob, NewJob
  <2>2. \A c \in Clients : Own(job[c], c)
    BY <2>1 DEF Init, Own, Gathers
  <2>3. Len(log) = 1 /\ log[1].made = "reset"
    BY DEF Init, NewState
  <2> QED BY <2>2, <2>3 DEF OwnInv, Kept
<1>2. OwnInv => OwnStepsAreKept
  BY DEF OwnInv, Kept, NotBy, OwnStepsAreKept
<1> QED BY <1>1, <1>2, TypeInvInit, TypeInvStep, OwnStep, PTL DEF Spec
-----------------------------------------------------------------------------
(***************************************************************************)
(* One writer at a time.  As long as no two handlers that write have run   *)
(* at once, the state a writer works on stays the last one, and the stream *)
(* it draws from is that of the last reset.  (At "install" a reset has     *)
(* replaced the generator and not yet the state.)                          *)
(***************************************************************************)
\* Where a request of each kind may stand.
Placed(j) ==
  /\ j.at \in {"reseed", "install", "reply"} => j.request.kind = "reset"
  /\ j.at \in {"draw", "check", "step", "publish"} => j.request.kind = "batch"
  /\ j.at = "look" => j.request.kind # "reset"

Alone == \A c, d \in Running : Writes(Kind(c)) /\ Writes(Kind(d)) => c = d

\* A writer's handler that has been alone since it began.
Serial(j) ==
  /\ \A i \in 1 .. Len(j.seen) : j.seen[i] = j.since
  /\ j.at \in {"reply", "look"} => j.since = Len(log)
  /\ j.at \in {"check", "step", "publish", "look"} => j.stream = rng
  /\ j.at \in {"step", "publish"} =>
       ~log[Len(log)].over /\ \A i \in 1 .. Len(j.of) : j.of[i] = Len(log)

\* The step at v follows the state before it.
Follows(v) ==
  log[v].made # "reset" =>
    /\ log[v].made = "step"
    /\ log[v].of = Whole(v - 1)
    /\ ~log[v - 1].over
    /\ log[v].stream = log[v - 1].stream

PlacedInv == \A c \in Clients : Placed(job[c])

SerialInv ==
  ~overlapped =>
    /\ Alone
    /\ \A c \in Clients : Writes(Kind(c)) => Serial(job[c])
    /\ (\A c \in Clients : job[c].at # "install") => log[Len(log)].stream = rng
    /\ \A v \in 2 .. Len(log) : Follows(v)

\* Only a batch has rows.
LEMMA RowsOfBatches ==
  ASSUME NEW request \in Requests, NEW row \in Nat, row < request.rows
  PROVE  request.kind = "batch"
<1>1. CASE request \in {[kind |-> "reset", start |-> start, rows |-> 0] : start \in Starts}
  BY <1>1
<1>2. CASE request = [kind |-> "observe", start |-> 0, rows |-> 0]
  BY <1>2
<1>3. CASE request \in {[kind |-> "batch", start |-> 0, rows |-> n] : n \in 1 .. MaxBatch}
  BY <1>3
<1> QED BY <1>1, <1>2, <1>3 DEF Requests

\* A handler that goes on keeps its request, and stands where its kind may.
LEMMA HandleKeepsPlaces ==
  ASSUME TypeInv, PlacedInv, NEW c \in Clients, Handle(c)
  PROVE  /\ PlacedInv'
         /\ job'[c] \in Job /\ job'[c].request = job[c].request /\ Moves(c, job'[c])
<1>1. /\ job \in [Clients -> Job] /\ job[c] \in Job /\ drawn[rng] \in Nat /\ rng \in Nat
      /\ Len(log) \in Nat /\ Now \in Nat /\ Now = Len(log) /\ Placed(job[c])
  BY SharedTypes DEF PlacedInv, Now
<1>2. ASSUME NEW j \in Job, Moves(c, j), j.request = job[c].request, Placed(j)
      PROVE  /\ PlacedInv'
             /\ job'[c] \in Job /\ job'[c].request = job[c].request /\ Moves(c, job'[c])
  <2>1. job'[c] = j /\ \A d \in Clients \ {c} : job'[d] = job[d]
    BY <1>1, <1>2, MoveFacts
  <2> QED BY <1>2, <2>1 DEF PlacedInv, Placed
<1>3. CASE Reseed(c)
  <2>1. PICK j \in Job : Moves(c, j) /\ j = [job[c] EXCEPT !.at = "install"]
    BY <1>3, ReseedMoves
  <2>2. job[c].at = "reseed"
    BY <1>3 DEF Reseed, At
  <2>3. j.request = job[c].request /\ Placed(j)
    BY <1>1, <2>1, <2>2 DEF Placed, Job
  <2> QED BY <1>2, <2>1, <2>3
<1>4. CASE Install(c)
  <2>1. log' \in Seq(Assignment) /\ Len(log') \in Nat
    BY <1>1, <1>4, HandleKeepsTypes, LenProperties DEF Handle, TypeInv, GrpcTypeOK
  <2>2. PICK j \in Job : Moves(c, j) /\ j = [job[c] EXCEPT !.at = "reply", !.since = Len(log')]
    BY <1>4, <2>1, InstallMoves
  <2>3. job[c].at = "install"
    BY <1>4 DEF Install, At
  <2>4. j.request = job[c].request /\ Placed(j)
    BY <1>1, <2>2, <2>3 DEF Placed, Job
  <2> QED BY <1>2, <2>2, <2>4
<1>5. CASE Reply(c)
  <2>1. Whole(Now) \in Seq(Nat)
    BY <1>1, WholeFacts
  <2>2. PICK j \in Job : Moves(c, j) /\ j = [job[c] EXCEPT !.at = "answered", !.seen = Whole(Now)]
    BY <1>5, <2>1, ReplyMoves
  <2>3. j.request = job[c].request /\ Placed(j)
    BY <1>1, <2>2 DEF Placed, Job
  <2> QED BY <1>2, <2>2, <2>3
<1>6. CASE Draw(c)
  <2>1. PICK j \in Job :
          Moves(c, j) /\ j = [job[c] EXCEPT !.at = "check", !.stream = rng, !.first = drawn[rng]]
    BY <1>1, <1>6, DrawMoves
  <2>2. job[c].at = "draw"
    BY <1>6 DEF Draw, At
  <2>3. j.request = job[c].request /\ Placed(j)
    BY <1>1, <2>1, <2>2 DEF Placed, Job
  <2> QED BY <1>2, <2>1, <2>3
<1>7. CASE Check(c)
  <2>1. PICK j \in Job, at \in {"look", "step"} :
          /\ Moves(c, j)
          /\ j = [job[c] EXCEPT !.at = at, !.of = <<>>, !.seen = <<>>, !.since = Now]
    BY <1>1, <1>7, EmptySeq, CheckMoves
  <2>2. job[c].at = "check"
    BY <1>7 DEF Check, At
  <2>3. j.request = job[c].request /\ j.at = at
    BY <1>1, <2>1 DEF Job
  <2>4. Placed(j)
    BY <1>1, <2>2, <2>3 DEF Placed
  <2> QED BY <1>2, <2>1, <2>3, <2>4
<1>8. CASE Refuse(c)
  <2>1. PICK j \in Job : Moves(c, j) /\ j = [job[c] EXCEPT !.at = "answered"]
    BY <1>8, RefuseMoves
  <2>2. j.request = job[c].request /\ Placed(j)
    BY <1>1, <2>1 DEF Placed, Job
  <2> QED BY <1>2, <2>1, <2>2
<1>9. CASE Read(c)
  <2>1. PICK j \in Job, at \in {"step", "publish"} :
          /\ Moves(c, j)
          /\ j = [job[c] EXCEPT !.at = at, !.of = Arguments(c)]
          /\ at = "publish" <=> Len(Arguments(c)) = Parts
    BY <1>9, ArgumentFacts, ReadMoves
  <2>2. job[c].at = "step"
    BY <1>9 DEF Read, At
  <2>3. j.request = job[c].request /\ j.at = at
    BY <1>1, <2>1 DEF Job
  <2>4. Placed(j)
    BY <1>1, <2>2, <2>3 DEF Placed
  <2> QED BY <1>2, <2>1, <2>3, <2>4
<1>10. CASE Publish(c)
  <2>1. log' \in Seq(Assignment) /\ Len(log') \in Nat
    BY <1>1, <1>10, HandleKeepsTypes, LenProperties DEF Handle, TypeInv, GrpcTypeOK
  <2>2. PICK j \in Job : Moves(c, j) /\ j = [job[c] EXCEPT !.at = "look", !.since = Len(log')]
    BY <1>10, <2>1, PublishMoves
  <2>3. job[c].at = "publish"
    BY <1>10 DEF Publish, At
  <2>4. j.request = job[c].request /\ j.at = "look"
    BY <1>1, <2>2 DEF Job
  <2>5. Placed(j)
    BY <1>1, <2>3, <2>4 DEF Placed
  <2> QED BY <1>2, <2>2, <2>4, <2>5
<1>11. CASE Look(c)
  <2>1. PICK j \in Job, at \in {"look", "check", "answered"}, row \in Nat :
          /\ Moves(c, j)
          /\ Append(job[c].seen, Now) \in Seq(Nat)
          /\ j = [job[c] EXCEPT !.at = at, !.row = row, !.seen = Append(job[c].seen, Now)]
          /\ \/ at = "look" /\ row = job[c].row
             \/ row = job[c].row + 1 /\ at \in {"check", "answered"}
                /\ (at = "check" => row < job[c].request.rows)
    BY <1>1, <1>11, LookMoves
  <2>2. job[c].at = "look"
    BY <1>11 DEF Look, At
  <2>3. j.request = job[c].request /\ j.at = at
    BY <1>1, <2>1 DEF Job
  <2>4. at = "check" => job[c].request.kind = "batch"
    BY <1>1, <2>1, RowsOfBatches, JobFields
  <2>5. Placed(j)
    BY <1>1, <2>2, <2>3, <2>4 DEF Placed
  <2> QED BY <1>2, <2>1, <2>3, <2>5
<1> QED
  BY <1>3, <1>4, <1>5, <1>6, <1>7, <1>8, <1>9, <1>10, <1>11 DEF Handle

\* Nor does the pool put a request where its kind may not stand.
LEMMA PlacedStep == TypeInv /\ PlacedInv /\ [Next]_vars => PlacedInv'
<1> SUFFICES ASSUME TypeInv, PlacedInv, [Next]_vars PROVE PlacedInv'
  OBVIOUS
<1>0. Now \in Nat /\ job \in [Clients -> Job]
  BY SharedTypes
<1>1. ASSUME NEW c \in Clients, NEW j \in Job, Moves(c, j), Placed(j) PROVE PlacedInv'
  <2>1. job'[c] = j /\ \A d \in Clients \ {c} : job'[d] = job[d]
    BY <1>0, <1>1, MoveFacts
  <2> QED BY <1>1, <2>1 DEF PlacedInv, Placed
<1>2. ASSUME NEW c \in Clients, NEW request \in Requests, Submit(c, request) PROVE PlacedInv'
  <2>1. Moves(c, NewJob(request))
    BY <1>2 DEF Submit, Moves
  <2>2. NewJob(request) \in Job /\ Placed(NewJob(request))
    BY NewJobFacts DEF Placed
  <2> QED BY <1>1, <2>1, <2>2
<1>3. CASE Dispatch
  <2>1. PICK c \in Clients, j \in Job :
          /\ Moves(c, j)
          /\ j = [job[c] EXCEPT !.at = FirstPlace[Kind(c)], !.since = Now]
          /\ j.at = FirstPlace[Kind(c)]
    BY <1>0, <1>3, DispatchMoves
  <2>2. j.request = job[c].request /\ Kind(c) \in Kinds
    BY <1>0, <2>1, JobFields DEF Job, Kind
  <2>3. Placed(j)
    BY <2>1, <2>2 DEF Placed, FirstPlace, Kinds, Kind
  <2> QED BY <1>1, <2>1, <2>3
<1>4. CASE UNCHANGED vars
  BY <1>4 DEF vars, PlacedInv, Placed
<1> QED BY <1>2, <1>3, <1>4, HandleKeepsPlaces DEF Next

\* Another client's handler is not in the way of one that writes alone.
LEMMA OthersRest ==
  ASSUME TypeInv, Alone, NEW c \in Running, Writes(Kind(c)),
         NEW d \in Clients \ {c}, Writes(Kind(d))
  PROVE  job[d].at \in {"waiting", "answered"}
BY DEF Alone, Running

\* What follows what in the log does not change.
LEMMA FollowsLasts ==
  ASSUME TypeInv, NEW e \in Assignment, log' = Append(log, e),
         NEW v \in 2 .. Len(log), Follows(v)
  PROVE  Follows(v)'
<1>1. /\ Len(log) \in Nat /\ log \in Seq(Assignment)
      /\ \A w \in 1 .. Len(log) : log'[w] = log[w]
  BY SharedTypes, AppendProperties
<1>2. log'[v] = log[v] /\ log'[v - 1] = log[v - 1]
  BY <1>1
<1> QED BY <1>2 DEF Follows, Whole

\* One handler's move keeps everything serial, if it does so for itself: if it
\* writes, no other writer runs, and if it does not, nothing others rely on
\* has changed.
LEMMA MoveKeepsSerial ==
  ASSUME TypeInv, SerialInv, ~overlapped, ~overlapped',
         NEW c \in Running, NEW j \in Job, Moves(c, j), j.request = job[c].request,
         Writes(Kind(c)) => Serial(j)',
         \/ UNCHANGED <<log, rng>> /\ job[c].at # "install"
         \/ Writes(Kind(c)) /\ (j.at # "install" => log'[Len(log')].stream = rng'),
         \/ log' = log
         \/ \E e \in Assignment : log' = Append(log, e) /\ Follows(Len(log))'
  PROVE  SerialInv'
<1>1. c \in Clients /\ job \in [Clients -> Job] /\ Len(log) \in Nat /\ log \in Seq(Assignment)
  BY SharedTypes DEF Running
<1>2. job' \in [Clients -> Job] /\ job'[c] = j /\ \A d \in Clients \ {c} : job'[d] = job[d]
  BY <1>1, MoveFacts
<1>3. Alone /\ \A d \in Clients : Writes(Kind(d)) => Serial(job[d])
  BY DEF SerialInv
<1>4. Running' \subseteq Running /\ \A d \in Clients : Kind(d)' = Kind(d)
  BY <1>1, <1>2 DEF Running, Kind
<1>5. Alone'
  BY <1>3, <1>4 DEF Alone, Writes, Running
<1>6. ASSUME NEW d \in Clients, Writes(Kind(d)) PROVE Serial(job[d])'
  <2>1. CASE d = c
    BY <1>2, <1>6, <2>1 DEF Serial
  <2>2. CASE d # c /\ UNCHANGED <<log, rng>>
    BY <1>2, <1>3, <1>6, <2>2 DEF Serial
  <2>3. CASE d # c /\ Writes(Kind(c))
    <3>1. job[d].at \in {"waiting", "answered"}
      BY <1>3, <1>6, <2>3, OthersRest
    <3> QED BY <1>2, <1>3, <1>6, <2>3, <3>1 DEF Serial
  <2> QED BY <2>1, <2>2, <2>3
<1>7. ASSUME \A d \in Clients : job'[d].at # "install" PROVE log'[Len(log')].stream = rng'
  <2>1. j.at # "install"
    BY <1>1, <1>2, <1>7
  <2>2. CASE UNCHANGED <<log, rng>> /\ job[c].at # "install"
    <3>1. \A d \in Clients : job[d].at # "install"
      BY <1>2, <1>7, <2>2
    <3> QED BY <2>2, <3>1 DEF SerialInv
  <2> QED BY <2>1, <2>2
<1>8. ASSUME NEW v \in 2 .. Len(log') PROVE Follows(v)'
  <2>1. CASE log' = log
    BY <2>1 DEF SerialInv, Follows, Whole
  <2>2. CASE log' # log
    <3>1. PICK e \in Assignment : log' = Append(log, e) /\ Follows(Len(log))'
      BY <2>2
    <3>2. Len(log') = Len(log) + 1
      BY <1>1, <3>1, AppendProperties
    <3>3. CASE v = Len(log')
      BY <3>1, <3>3
    <3>4. CASE v # Len(log')
      <4>1. v \in 2 .. Len(log) /\ Follows(v)
        BY <1>1, <3>2, <3>4 DEF SerialInv
      <4> QED BY <3>1, <4>1, FollowsLasts
    <3> QED BY <3>3, <3>4
  <2> QED BY <2>1, <2>2
<1>9. \A d \in Clients : Writes(Kind(d))' => Serial(job[d])'
  BY <1>4, <1>6 DEF Writes
<1> QED BY <1>5, <1>7, <1>8, <1>9 DEF SerialInv

\* A step published alone follows the state before it.
LEMMA PublishKeepsSerial ==
  ASSUME TypeInv, RecentInv, PlacedInv, SerialInv, ~overlapped, ~overlapped',
         NEW c \in Clients, Publish(c)
  PROVE  SerialInv'
<1>1. /\ job \in [Clients -> Job] /\ job[c] \in Job /\ job[c].at = "publish" /\ c \in Running
      /\ Len(log) \in Nat /\ Len(log) >= 1 /\ log \in Seq(Assignment)
      /\ Recent(job[c], c) /\ Placed(job[c])
  BY SharedTypes DEF Publish, At, RecentInv, PlacedInv, TypeInv, Running
<1>2. Writes(Kind(c)) /\ job[c].request.kind = "batch" /\ Serial(job[c])
  BY <1>1 DEF Placed, Kind, Writes, SerialInv
<1>3. /\ Len(job[c].of) = Parts /\ job[c].of \in Seq(Nat)
      /\ \A i \in 1 .. Parts : job[c].of[i] = Len(log)
      /\ ~log[Len(log)].over /\ job[c].stream = rng
  BY <1>1, <1>2, JobFields, PublishedState DEF Serial
<1>4. job[c].of = Whole(Len(log)) /\ job[c].of[2] = Len(log)
  <2>1. job[c].of = [i \in 1 .. Parts |-> job[c].of[i]]
    BY <1>3
  <2>2. 2 \in 1 .. Parts
    BY DEF Parts
  <2> QED BY <1>3, <2>1, <2>2 DEF Whole
<1>5. log[Len(log)].stream = rng
  <2>1. \A d \in Clients : job[d].at # "install"
    <3> SUFFICES ASSUME NEW d \in Clients, job[d].at = "install" PROVE FALSE
      OBVIOUS
    <3>1. Writes(Kind(d)) /\ d # c
      BY <1>1 DEF PlacedInv, Placed, Kind, Writes
    <3>2. job[d].at \in {"waiting", "answered"}
      BY <1>1, <1>2, <3>1, OthersRest DEF SerialInv
    <3> QED BY <3>2
  <2> QED BY <2>1 DEF SerialInv
<1>6. PICK e \in Assignment :
        /\ log' = Append(log, e) /\ e.made = "step" /\ e.of = Whole(Len(log)) /\ e.stream = rng
  <2>1. PICK e \in Assignment :
          /\ log' = Append(log, e) /\ e.by = c /\ e.stream = job[c].stream
          /\ e.draw = job[c].first + job[c].row
          /\ e.made = IF log[job[c].of[2]].over THEN "again" ELSE "step"
    BY PublishedState
  <2>2. log' \in Seq(Assignment) /\ log'[Len(log) + 1] = e
    BY <1>1, <2>1, AppendProperties
  <2>3. PICK over, made, t : log' = Append(log,
          [made |-> made, t |-> t, over |-> over, of |-> job[c].of,
           stream |-> job[c].stream, draw |-> job[c].first + job[c].row, by |-> c])
    BY DEF Publish
  <2>4. log'[Len(log) + 1].of = job[c].of
    BY <1>1, <2>3
  <2> QED BY <1>3, <1>4, <2>1, <2>2, <2>4
<1>7. /\ Len(log') = Len(log) + 1 /\ Len(log') \in Nat /\ log'[Len(log')] = e
      /\ log'[Len(log)] = log[Len(log)] /\ Len(log') - 1 = Len(log)
  BY <1>1, <1>6, AppendProperties
<1>8. Follows(Len(log))'
  BY <1>3, <1>5, <1>6, <1>7 DEF Follows, Whole
<1>9. PICK j \in Job : Moves(c, j) /\ j = [job[c] EXCEPT !.at = "look", !.since = Len(log')]
  BY <1>7, PublishMoves
<1>10. /\ j.at = "look" /\ j.since = Len(log') /\ j.seen = <<>> /\ j.stream = rng
       /\ j.request = job[c].request
  BY <1>1, <1>3, <1>9 DEF Job, Recent
<1>11. rng' = rng /\ Len(<<>>) = 0
  BY DEF Publish
<1>12. Serial(j)'
  BY <1>10, <1>11 DEF Serial
<1>13. log'[Len(log')].stream = rng'
  BY <1>6, <1>7, <1>11
<1> QED BY <1>1, <1>2, <1>6, <1>8, <1>9, <1>10, <1>12, <1>13, MoveKeepsSerial

\* Every step of a handler keeps everything serial, if nothing has overlapped.
LEMMA HandleKeepsSerial ==
  ASSUME TypeInv, RecentInv, PlacedInv, SerialInv, ~overlapped, ~overlapped',
         NEW c \in Clients, Handle(c)
  PROVE  SerialInv'
<1>1. /\ job \in [Clients -> Job] /\ job[c] \in Job /\ drawn[rng] \in Nat /\ rng \in Nat
      /\ log \in Seq(Assignment) /\ Len(log) \in Nat /\ Now \in Nat /\ Now = Len(log)
      /\ Recent(job[c], c) /\ Placed(job[c]) /\ c \in Running
      /\ (Writes(Kind(c)) => Serial(job[c]))
  BY SharedTypes, HandleKeepsTypes DEF RecentInv, PlacedInv, SerialInv, Now
<1>2. Len(<<>>) = 0 /\ <<>> \in Seq(Nat)
  BY EmptySeq
<1>3. CASE Reseed(c)
  <2>1. PICK j \in Job : Moves(c, j) /\ j = [job[c] EXCEPT !.at = "install"]
    BY <1>3, ReseedMoves
  <2>2. job[c].at = "reseed" /\ log' = log
    BY <1>3 DEF Reseed, At
  <2>3. j.at = "install" /\ j.request = job[c].request /\ j.seen = <<>>
    BY <1>1, <2>1, <2>2 DEF Recent, Job
  <2>4. Writes(Kind(c))
    BY <1>1, <2>2 DEF Placed, Writes, Kind
  <2>5. Serial(j)'
    BY <1>2, <2>3 DEF Serial
  <2> QED BY <1>1, <2>1, <2>2, <2>3, <2>4, <2>5, MoveKeepsSerial
<1>4. CASE Install(c)
  <2> DEFINE e == NewState(job[c].request.start, c)
  <2>1. log' = Append(log, e) /\ rng' = rng /\ job[c].at = "install"
    BY <1>4 DEF Install, At
  <2>2. e \in Assignment /\ e.made = "reset" /\ e.stream = rng
    BY <1>1, <1>4, InstallStart, StateTypes DEF NewState
  <2> HIDE DEF e
  <2>3. Len(log') = Len(log) + 1 /\ Len(log') \in Nat /\ log'[Len(log')] = e
    BY <1>1, <2>1, <2>2, AppendProperties
  <2>4. PICK j \in Job : Moves(c, j) /\ j = [job[c] EXCEPT !.at = "reply", !.since = Len(log')]
    BY <1>4, <2>3, InstallMoves
  <2>5. j.at = "reply" /\ j.request = job[c].request /\ j.seen = <<>> /\ j.since = Len(log')
    BY <1>1, <2>1, <2>4 DEF Recent, Job
  <2>6. Writes(Kind(c))
    BY <1>1, <2>1 DEF Placed, Writes, Kind
  <2>7. Serial(j)'
    BY <1>2, <2>5 DEF Serial
  <2>8. Follows(Len(log))'
    BY <2>2, <2>3 DEF Follows
  <2>9. log'[Len(log')].stream = rng'
    BY <2>1, <2>2, <2>3
  <2> QED BY <1>1, <2>1, <2>2, <2>4, <2>5, <2>6, <2>7, <2>8, <2>9, MoveKeepsSerial
<1>5. CASE Reply(c)
  <2>1. /\ Whole(Now) \in Seq(Nat) /\ Len(Whole(Now)) = Parts
        /\ \A i \in 1 .. Parts : Whole(Now)[i] = Now
    BY <1>1, WholeFacts
  <2>2. PICK j \in Job : Moves(c, j) /\ j = [job[c] EXCEPT !.at = "answered", !.seen = Whole(Now)]
    BY <1>5, <2>1, ReplyMoves
  <2>3. job[c].at = "reply" /\ UNCHANGED <<log, rng>>
    BY <1>5 DEF Reply, At
  <2>4. /\ j.at = "answered" /\ j.request = job[c].request /\ j.seen = Whole(Now)
        /\ j.since = job[c].since
    BY <1>1, <2>2 DEF Job
  <2>5. Writes(Kind(c)) => job[c].since = Len(log)
    BY <1>1, <2>3 DEF Serial
  <2>6. Writes(Kind(c)) => Serial(j)'
    BY <1>1, <2>1, <2>4, <2>5 DEF Serial
  <2> QED BY <1>1, <2>2, <2>3, <2>4, <2>6, MoveKeepsSerial
<1>6. CASE Draw(c)
  <2>1. PICK j \in Job :
          Moves(c, j) /\ j = [job[c] EXCEPT !.at = "check", !.stream = rng, !.first = drawn[rng]]
    BY <1>1, <1>6, DrawMoves
  <2>2. job[c].at = "draw" /\ UNCHANGED <<log, rng>>
    BY <1>6 DEF Draw, At
  <2>3. /\ j.at = "check" /\ j.request = job[c].request /\ j.seen = job[c].seen
        /\ j.since = job[c].since /\ j.stream = rng
    BY <1>1, <2>1 DEF Job
  <2>4. Writes(Kind(c)) => Serial(j)'
    BY <1>1, <2>2, <2>3 DEF Serial
  <2> QED BY <1>1, <2>1, <2>2, <2>3, <2>4, MoveKeepsSerial
<1>7. CASE Check(c)
  <2>1. PICK j \in Job, at \in {"look", "step"} :
          /\ Moves(c, j)
          /\ j = [job[c] EXCEPT !.at = at, !.of = <<>>, !.seen = <<>>, !.since = Now]
    BY <1>1, <1>2, <1>7, CheckMoves
  <2>2. job[c].at = "check" /\ UNCHANGED <<log, rng>>
    BY <1>7 DEF Check, At
  <2>3. /\ j.at = at /\ j.request = job[c].request /\ j.seen = <<>> /\ j.of = <<>>
        /\ j.since = Now /\ j.stream = job[c].stream
    BY <1>1, <2>1 DEF Job
  <2>4. at = "step" => ~log[Len(log)].over
    <3>1. job'[c] = j
      BY <1>1, <2>1, MoveFacts
    <3>2. job'[c].at = IF Current.over THEN "look" ELSE "step"
      BY <1>1, <1>7 DEF Check, Job
    <3> QED BY <1>1, <2>3, <3>1, <3>2 DEF Current
  <2>5. Writes(Kind(c)) => Serial(j)'
    BY <1>1, <1>2, <2>1, <2>2, <2>3, <2>4 DEF Serial
  <2> QED BY <1>1, <2>1, <2>2, <2>3, <2>5, MoveKeepsSerial
<1>8. CASE Refuse(c)
  <2>1. PICK j \in Job : Moves(c, j) /\ j = [job[c] EXCEPT !.at = "answered"]
    BY <1>8, RefuseMoves
  <2>2. job[c].at # "install" /\ UNCHANGED <<log, rng>>
    BY <1>8 DEF Refuse, At
  <2>3. /\ j.at = "answered" /\ j.request = job[c].request /\ j.seen = job[c].seen
        /\ j.since = job[c].since
    BY <1>1, <2>1 DEF Job
  <2>4. Writes(Kind(c)) => Serial(j)'
    BY <1>1, <2>2, <2>3 DEF Serial
  <2> QED BY <1>1, <2>1, <2>2, <2>3, <2>4, MoveKeepsSerial
<1>9. CASE Read(c)
  <2>1. Arguments(c) \in Seq(Nat)
    BY <1>9, ArgumentFacts
  <2>2. PICK j \in Job, at \in {"step", "publish"} :
          /\ Moves(c, j)
          /\ j = [job[c] EXCEPT !.at = at, !.of = Arguments(c)]
          /\ at = "publish" <=> Len(Arguments(c)) = Parts
    BY <1>9, <2>1, ReadMoves
  <2>3. job[c].at = "step" /\ UNCHANGED <<log, rng>>
    BY <1>9 DEF Read, At
  <2>4. /\ j.at = at /\ j.request = job[c].request /\ j.seen = job[c].seen
        /\ j.since = job[c].since /\ j.stream = job[c].stream /\ j.of = Arguments(c)
    BY <1>1, <2>2 DEF Job
  <2>5. ASSUME Serial(job[c]), NEW i \in 1 .. Len(j.of) PROVE j.of[i] = Len(log)
    <3>1. CASE ~UseNumba
      <4>1. j.of = Whole(Now) /\ Len(Whole(Now)) = Parts /\ \A k \in 1 .. Parts : Whole(Now)[k] = Now
        BY <1>1, <2>4, <3>1, WholeFacts DEF Arguments
      <4> QED BY <1>1, <4>1
    <3>2. CASE UseNumba
      <4>1. /\ j.of = Append(job[c].of, Now) /\ Len(job[c].of) \in Nat
            /\ Len(j.of) = Len(job[c].of) + 1 /\ j.of[Len(job[c].of) + 1] = Now
            /\ \A k \in 1 .. Len(job[c].of) : j.of[k] = job[c].of[k]
        BY <1>1, <2>4, <3>2, JobFields, AppendProperties, LenProperties DEF Arguments
      <4>2. i \in 1 .. Len(job[c].of) \/ i = Len(job[c].of) + 1
        BY <4>1
      <4> QED BY <1>1, <2>3, <2>5, <4>1, <4>2 DEF Serial
    <3> QED BY <3>1, <3>2
  <2>6. Writes(Kind(c)) => Serial(j)'
    BY <1>1, <2>2, <2>3, <2>4, <2>5 DEF Serial
  <2> QED BY <1>1, <2>2, <2>3, <2>4, <2>6, MoveKeepsSerial
<1>10. CASE Look(c)
  <2>1. PICK j \in Job, at \in {"look", "check", "answered"}, row \in Nat :
          /\ Moves(c, j)
          /\ Append(job[c].seen, Now) \in Seq(Nat)
          /\ j = [job[c] EXCEPT !.at = at, !.row = row, !.seen = Append(job[c].seen, Now)]
          /\ \/ at = "look" /\ row = job[c].row
             \/ row = job[c].row + 1 /\ at \in {"check", "answered"}
                /\ (at = "check" => row < job[c].request.rows)
    BY <1>1, <1>10, LookMoves
  <2>2. job[c].at = "look" /\ UNCHANGED <<log, rng>>
    BY <1>10 DEF Look, At
  <2>3. /\ j.at = at /\ j.request = job[c].request /\ j.seen = Append(job[c].seen, Now)
        /\ j.since = job[c].since /\ j.stream = job[c].stream
    BY <1>1, <2>1 DEF Job
  <2>4. /\ Len(job[c].seen) \in Nat /\ Len(j.seen) = Len(job[c].seen) + 1
        /\ j.seen[Len(job[c].seen) + 1] = Now
        /\ \A i \in 1 .. Len(job[c].seen) : j.seen[i] = job[c].seen[i]
    BY <1>1, <2>3, JobFields, AppendProperties, LenProperties
  <2>5. ASSUME Serial(job[c]), NEW i \in 1 .. Len(j.seen) PROVE j.seen[i] = j.since
    <3>1. i \in 1 .. Len(job[c].seen) \/ i = Len(job[c].seen) + 1
      BY <2>4
    <3> QED BY <1>1, <2>2, <2>3, <2>4, <2>5, <3>1 DEF Serial
  <2>6. Writes(Kind(c)) => Serial(j)'
    BY <1>1, <2>1, <2>2, <2>3, <2>5 DEF Serial
  <2> QED BY <1>1, <2>1, <2>2, <2>3, <2>6, MoveKeepsSerial
<1> QED
  BY <1>3, <1>4, <1>5, <1>6, <1>7, <1>8, <1>9, <1>10, PublishKeepsSerial DEF Handle

\* Every step does.
LEMMA SerialStep ==
  TypeInv /\ RecentInv /\ PlacedInv /\ SerialInv /\ [Next]_vars => SerialInv'
<1> SUFFICES ASSUME TypeInv, RecentInv, PlacedInv, SerialInv, [Next]_vars, ~overlapped'
             PROVE  SerialInv'
  BY DEF SerialInv
<1>0. /\ Now \in Nat /\ job \in [Clients -> Job] /\ queue \in Seq(Clients) /\ Len(<<>>) = 0
  BY SharedTypes
<1>1. ASSUME NEW c \in Clients, Handle(c) PROVE SerialInv'
  <2>1. overlapped' = overlapped
    BY <1>1 DEF Handle, Reseed, Install, Reply, Draw, Check, Refuse, Read, Publish, Look
  <2> QED BY <1>1, <2>1, HandleKeepsSerial
<1>2. ASSUME NEW c \in Clients, NEW j \in Job, Moves(c, j), j.seen = <<>>,
             j.at \notin {"install", "reply", "check", "step", "publish"},
             j.at # "look" \/ ~Writes(j.request.kind),
             job[c].at # "install",
             UNCHANGED <<log, rng>>, ~overlapped, Alone'
      PROVE  SerialInv'
  <2>1. job'[c] = j /\ \A d \in Clients \ {c} : job'[d] = job[d]
    BY <1>0, <1>2, MoveFacts
  <2>2. Writes(j.request.kind) => Serial(j)'
    BY <1>0, <1>2 DEF Serial
  <2>3. ASSUME NEW d \in Clients, Writes(Kind(d))' PROVE Serial(job[d])'
    BY <1>2, <2>1, <2>2, <2>3 DEF SerialInv, Serial, Writes, Kind
  <2>4. ASSUME \A d \in Clients : job'[d].at # "install" PROVE log'[Len(log')].stream = rng'
    BY <1>2, <2>1, <2>4 DEF SerialInv
  <2>5. \A v \in 2 .. Len(log') : Follows(v)'
    BY <1>2 DEF SerialInv, Follows, Whole
  <2> QED BY <1>2, <2>3, <2>4, <2>5 DEF SerialInv
<1>3. ASSUME NEW c \in Clients, NEW request \in Requests, Submit(c, request) PROVE SerialInv'
  <2>1. /\ Moves(c, NewJob(request)) /\ job[c].at = "answered"
        /\ UNCHANGED <<log, rng, overlapped>>
    BY <1>3 DEF Submit, Moves, At
  <2>2. /\ NewJob(request) \in Job /\ NewJob(request).at = "waiting"
        /\ NewJob(request).seen = <<>>
    BY NewJobFacts
  <2>3. job'[c].at = "waiting" /\ \A d \in Clients \ {c} : job'[d] = job[d]
    BY <1>0, <2>1, <2>2, MoveFacts
  <2>4. Alone'
    BY <2>1, <2>3 DEF SerialInv, Alone, Running, Kind, Writes
  <2> QED BY <1>2, <2>1, <2>2, <2>4
<1>4. CASE Dispatch
  <2>1. PICK c \in Clients, j \in Job :
          /\ c = Head(queue) /\ job[c].at = "waiting"
          /\ Moves(c, j) /\ j.at \in {"reseed", "draw", "look"}
          /\ j = [job[c] EXCEPT !.at = FirstPlace[Kind(c)], !.since = Now]
          /\ j.at = FirstPlace[Kind(c)]
    BY <1>0, <1>4, DispatchMoves
  <2>2. /\ UNCHANGED <<log, rng>>
        /\ overlapped' = (overlapped \/
             (Writes(Kind(c)) /\ \E d \in Running : Writes(Kind(d))))
    BY <1>4, <2>1 DEF Dispatch
  <2>3. ~overlapped /\ (Writes(Kind(c)) => \A d \in Running : ~Writes(Kind(d)))
    BY <2>2
  <2>4. j.seen = <<>> /\ j.request = job[c].request /\ Kind(c) \in Kinds
    BY <1>0, <2>1, JobFields DEF RecentInv, Recent, Job, Kind
  <2>5. j.at # "look" \/ ~Writes(j.request.kind)
    BY <2>1, <2>4 DEF FirstPlace, Kinds, Kind, Writes
  <2>6. job'[c] = j /\ \A d \in Clients \ {c} : job'[d] = job[d]
    BY <1>0, <2>1, MoveFacts
  <2>7. Alone'
    <3>1. Running' \subseteq Running \cup {c} /\ \A d \in Clients : Kind(d)' = Kind(d)
      BY <2>4, <2>6 DEF Running, Kind
    <3>2. Alone
      BY <2>3 DEF SerialInv
    <3> QED BY <2>3, <3>1, <3>2 DEF Alone, Writes, Running
  <2> QED BY <1>2, <2>1, <2>2, <2>3, <2>4, <2>5, <2>7
<1>5. CASE UNCHANGED vars
  BY <1>5 DEF vars, SerialInv, Alone, Serial, Follows, Whole, Running, Kind, Writes
<1> QED BY <1>1, <1>3, <1>4, <1>5 DEF Next

\* Nobody runs at first.
LEMMA SerialInit == Init => PlacedInv /\ SerialInv
<1> SUFFICES ASSUME Init PROVE PlacedInv /\ SerialInv
  OBVIOUS
<1>1. NoJob.at = "answered" /\ NoJob.seen = <<>> /\ Len(<<>>) = 0
  BY DEF NoJob, NewJob
<1>2. Len(log) = 1 /\ log[1].stream = rng
  BY DEF Init, NewState
<1>3. Running = {}
  BY <1>1 DEF Init, Running
<1>4. Alone /\ \A v \in 2 .. Len(log) : Follows(v)
  BY <1>2, <1>3 DEF Alone
<1>5. \A c \in Clients : Placed(job[c]) /\ Serial(job[c])
  BY <1>1 DEF Init, Placed, Serial
<1> QED BY <1>2, <1>4, <1>5 DEF PlacedInv, SerialInv

\* SerialUnlessOverlapped, for any pool: one thread, or one client that writes
\* beside any number that observe, sees the episode one caller alone would see.
THEOREM SerialUnlessOverlappedHolds == Spec => []SerialUnlessOverlapped
<1>1. SerialInv => SerialUnlessOverlapped
  BY DEF SerialInv, Serial, Follows, SerialUnlessOverlapped
<1> QED
  BY <1>1, SerialInit, RecentInit, TypeInvInit, TypeInvStep, RecentStep, PlacedStep, SerialStep, PTL DEF Spec
-----------------------------------------------------------------------------
(***************************************************************************)
(* The refinement.  The state that is current lies behind every draw still *)
(* to be used: its own is one its stream has given out and, as long as no  *)
(* two handlers that write have run at once, it comes before all that a    *)
(* writer's handler holds.                                                 *)
(***************************************************************************)
BehindInv ==
  /\ Current.stream \in 1 .. Len(drawn) /\ Current.draw < drawn[Current.stream]
  /\ ~overlapped =>
       \A c \in Clients : Writes(Kind(c)) => \A x \in Held(job[c]) : Current.draw < x

\* What the refinement rests on.
PoolInv == TypeInv /\ RecentInv /\ DrawInv /\ PlacedInv /\ SerialInv /\ BehindInv

\* The current state is a state, and the last one assigned.
LEMMA CurrentFacts ==
  ASSUME TypeInv
  PROVE  /\ Current \in Assignment
         /\ Current.t \in Bars /\ Current.draw \in Int /\ Current.over \in BOOLEAN
         /\ Current.stream \in Nat
         /\ log' = log => Current' = Current
         /\ \A e \in Assignment : log' = Append(log, e) => Current' = e
<1>1. log \in Seq(Assignment) /\ Len(log) \in Nat /\ Len(log) >= 1
  BY SharedTypes DEF TypeInv
<1>2. Current \in Assignment
  BY <1>1, StateTypes DEF Current, Now
<1>3. ASSUME NEW e \in Assignment, log' = Append(log, e) PROVE Current' = e
  BY <1>1, <1>3, AppendProperties DEF Current, Now
<1>4. log' = log => Current' = Current
  BY DEF Current, Now
<1> QED BY <1>2, <1>3, <1>4 DEF Assignment

\* It stays behind when it stands, no stream is wound back and the writers'
\* handlers hold nothing before it.
LEMMA StandsBehind ==
  ASSUME TypeInv, BehindInv, Current' = Current,
         drawn' \in Seq(Nat), Len(drawn) <= Len(drawn'),
         \A s \in 1 .. Len(drawn) : drawn[s] <= drawn'[s],
         ~overlapped' =>
           \A c \in Clients : Writes(Kind(c))' => \A x \in Held(job'[c]) : Current.draw < x
  PROVE  BehindInv'
<1>1. /\ drawn \in Seq(Nat) /\ Len(drawn) \in Nat /\ Len(drawn') \in Nat
      /\ Current.draw \in Int
  BY SharedTypes, CurrentFacts, LenProperties
<1> DEFINE s == Current.stream
<1>2. s \in 1 .. Len(drawn) /\ Current.draw < drawn[s] /\ drawn[s] <= drawn'[s]
  BY DEF BehindInv
<1>3. s \in 1 .. Len(drawn')
  BY <1>1, <1>2
<1>4. drawn[s] \in Nat /\ drawn'[s] \in Nat
  BY <1>1, <1>2, <1>3, ElementOfSeq
<1>5. Current.draw < drawn'[s]
  <2> HIDE DEF s
  <2> QED BY <1>1, <1>2, <1>4
<1> QED BY <1>3, <1>5 DEF BehindInv, Held

\* Nobody installs a state beside a writer that runs alone.
LEMMA AloneOnStream ==
  ASSUME TypeInv, PlacedInv, SerialInv, ~overlapped, NEW c \in Running,
         Writes(Kind(c)), job[c].at # "install"
  PROVE  Current.stream = rng
<1>1. ASSUME NEW d \in Clients, job[d].at = "install" PROVE FALSE
  <2>1. Writes(Kind(d)) /\ d # c
    BY <1>1 DEF PlacedInv, Placed, Kind, Writes
  <2>2. job[d].at \in {"waiting", "answered"}
    BY <2>1, OthersRest DEF SerialInv
  <2> QED BY <1>1, <2>2
<1> QED BY <1>1 DEF SerialInv, Current, Now

\* A handler that does not draw goes on with what it held, or less.
LEMMA HeldShrinks ==
  ASSUME TypeInv, DrawInv, NEW c \in Clients, Handle(c), ~Draw(c)
  PROVE  \A x \in Held(job'[c]) : x \in Held(job[c])
<1>0. /\ job \in [Clients -> Job] /\ job[c] \in Job /\ Now \in Nat /\ Len(log) \in Nat
      /\ log \in Seq(Assignment) /\ RowInv(job[c])
      /\ job[c].row \in Nat /\ job[c].first \in Nat /\ job[c].request.rows \in Nat
  BY SharedTypes, JobFields DEF DrawInv
<1>1. ASSUME NEW j \in Job, Moves(c, j), \A x \in Held(j) : x \in Held(job[c])
      PROVE  \A x \in Held(job'[c]) : x \in Held(job[c])
  <2>1. job'[c] = j
    BY <1>0, <1>1, MoveFacts
  <2> QED BY <1>1, <2>1
<1>2. ASSUME NEW j \in Job, Moves(c, j),
             j.at \in {"waiting", "reseed", "install", "reply", "draw", "answered"}
      PROVE  \A x \in Held(job'[c]) : x \in Held(job[c])
  <2>1. Held(j) = {}
    BY <1>2 DEF Held
  <2> QED BY <1>1, <1>2, <2>1
<1>3. CASE Reseed(c)
  <2>1. PICK j \in Job : Moves(c, j) /\ j = [job[c] EXCEPT !.at = "install"]
    BY <1>3, ReseedMoves
  <2>2. j.at = "install"
    BY <1>0, <2>1 DEF Job
  <2> QED BY <1>2, <2>1, <2>2
<1>4. CASE Install(c)
  <2>1. Len(log') \in Nat
    <3>1. log' = Append(log, NewState(job[c].request.start, c))
      BY <1>4 DEF Install
    <3>2. NewState(job[c].request.start, c) \in Assignment
      BY <1>0, <1>4, InstallStart, StateTypes
    <3> QED BY <1>0, <3>1, <3>2, AppendProperties
  <2>2. PICK j \in Job : Moves(c, j) /\ j = [job[c] EXCEPT !.at = "reply", !.since = Len(log')]
    BY <1>4, <2>1, InstallMoves
  <2>3. j.at = "reply"
    BY <1>0, <2>2 DEF Job
  <2> QED BY <1>2, <2>2, <2>3
<1>5. CASE Reply(c)
  <2>1. Whole(Now) \in Seq(Nat)
    BY <1>0, WholeFacts
  <2>2. PICK j \in Job : Moves(c, j) /\ j = [job[c] EXCEPT !.at = "answered", !.seen = Whole(Now)]
    BY <1>5, <2>1, ReplyMoves
  <2>3. j.at = "answered"
    BY <1>0, <2>2 DEF Job
  <2> QED BY <1>2, <2>2, <2>3
<1>6. CASE Check(c)
  <2>1. job[c].at = "check" /\ <<>> \in Seq(Nat)
    BY <1>6, EmptySeq DEF Check, At
  <2>2. PICK j \in Job, at \in {"look", "step"} :
          /\ Moves(c, j)
          /\ j = [job[c] EXCEPT !.at = at, !.of = <<>>, !.seen = <<>>, !.since = Now]
    BY <1>0, <1>6, <2>1, CheckMoves
  <2>3. /\ j.at = at /\ j.row = job[c].row /\ j.first = job[c].first
        /\ j.request = job[c].request
    BY <1>0, <2>2 DEF Job
  <2>4. \A x \in Held(j) : x \in Held(job[c])
    BY <1>0, <2>1, <2>2, <2>3 DEF Held
  <2> QED BY <1>1, <2>2, <2>4
<1>7. CASE Refuse(c)
  <2>1. PICK j \in Job : Moves(c, j) /\ j = [job[c] EXCEPT !.at = "answered"]
    BY <1>7, RefuseMoves
  <2>2. j.at = "answered"
    BY <1>0, <2>1 DEF Job
  <2> QED BY <1>2, <2>1, <2>2
<1>8. CASE Read(c)
  <2>1. job[c].at = "step" /\ Arguments(c) \in Seq(Nat)
    BY <1>8, ArgumentFacts DEF Read, At
  <2>2. PICK j \in Job, at \in {"step", "publish"} :
          /\ Moves(c, j)
          /\ j = [job[c] EXCEPT !.at = at, !.of = Arguments(c)]
          /\ at = "publish" <=> Len(Arguments(c)) = Parts
    BY <1>8, <2>1, ReadMoves
  <2>3. /\ j.at = at /\ j.row = job[c].row /\ j.first = job[c].first
        /\ j.request = job[c].request
    BY <1>0, <2>2 DEF Job
  <2>4. \A x \in Held(j) : x \in Held(job[c])
    BY <1>0, <2>1, <2>2, <2>3 DEF Held
  <2> QED BY <1>1, <2>2, <2>4
<1>9. CASE Publish(c)
  <2>1. job[c].at = "publish" /\ Len(log') \in Nat
    <3>1. PICK e \in Assignment : log' = Append(log, e)
      BY <1>9, PublishedState
    <3>2. Len(log') \in Nat
      BY <1>0, <3>1, AppendProperties
    <3> QED BY <1>9, <3>2 DEF Publish, At
  <2>2. PICK j \in Job : Moves(c, j) /\ j = [job[c] EXCEPT !.at = "look", !.since = Len(log')]
    BY <1>9, <2>1, PublishMoves
  <2>3. /\ j.at = "look" /\ j.row = job[c].row /\ j.first = job[c].first
        /\ j.request = job[c].request
    BY <1>0, <2>2 DEF Job
  <2>4. \A x \in Held(j) : x \in Held(job[c])
    BY <1>0, <2>1, <2>3 DEF Held
  <2> QED BY <1>1, <2>2, <2>4
<1>10. CASE Look(c)
  <2>1. job[c].at = "look"
    BY <1>10 DEF Look, At
  <2>2. PICK j \in Job, at \in {"look", "check", "answered"}, row \in Nat :
          /\ Moves(c, j)
          /\ Append(job[c].seen, Now) \in Seq(Nat)
          /\ j = [job[c] EXCEPT !.at = at, !.row = row, !.seen = Append(job[c].seen, Now)]
          /\ \/ at = "look" /\ row = job[c].row
             \/ row = job[c].row + 1 /\ at \in {"check", "answered"}
                /\ (at = "check" => row < job[c].request.rows)
    BY <1>0, <1>10, LookMoves
  <2>3. /\ j.at = at /\ j.row = row /\ j.first = job[c].first /\ j.request = job[c].request
    BY <1>0, <2>2 DEF Job
  <2>4. CASE at = "answered"
    BY <1>2, <2>2, <2>3, <2>4
  <2>5. CASE at = "look" /\ row = job[c].row
    <3>1. \A x \in Held(j) : x \in Held(job[c])
      BY <2>1, <2>3, <2>5 DEF Held
    <3> QED BY <1>1, <2>2, <3>1
  <2>6. CASE at = "check" /\ row = job[c].row + 1
    <3>1. \A x \in Held(j) : x \in Held(job[c])
      BY <1>0, <2>1, <2>3, <2>6 DEF Held
    <3> QED BY <1>1, <2>2, <3>1
  <2> QED BY <2>2, <2>4, <2>5, <2>6
<1> QED
  BY <1>3, <1>4, <1>5, <1>6, <1>7, <1>8, <1>9, <1>10 DEF Handle

\* Streams are only ever drawn from, or begun.
LEMMA DrawnGrows ==
  ASSUME TypeInv, NEW c \in Clients, Handle(c)
  PROVE  /\ drawn' \in Seq(Nat) /\ Len(drawn) <= Len(drawn')
         /\ \A s \in 1 .. Len(drawn) : drawn[s] <= drawn'[s]
<1>1. /\ drawn \in Seq(Nat) /\ Len(drawn) \in Nat /\ rng \in 1 .. Len(drawn)
      /\ drawn[rng] \in Nat /\ job[c] \in Job
  BY SharedTypes
<1>2. \A s \in 1 .. Len(drawn) : drawn[s] \in Nat /\ drawn[s] <= drawn[s]
  BY <1>1, ElementOfSeq
<1>3. CASE Reseed(c)
  <2>1. drawn' = Append(drawn, 0)
    BY <1>3 DEF Reseed
  <2>2. drawn' \in Seq(Nat) /\ Len(drawn') = Len(drawn) + 1
        /\ \A s \in 1 .. Len(drawn) : drawn'[s] = drawn[s]
    BY <1>1, <2>1, AppendProperties
  <2> QED BY <1>1, <1>2, <2>2
<1>4. CASE Draw(c)
  <2>1. drawn' = [drawn EXCEPT ![rng] = drawn[rng] + job[c].request.rows]
    BY <1>4 DEF Draw, Take, Stream
  <2>2. job[c].request.rows \in Nat
    BY <1>1, JobFields
  <2>3. drawn[rng] + job[c].request.rows \in Nat /\ drawn[rng] <= drawn[rng] + job[c].request.rows
    BY <1>1, <2>2
  <2>4. /\ drawn' \in Seq(Nat) /\ Len(drawn') = Len(drawn)
        /\ \A s \in 1 .. Len(drawn) :
             drawn'[s] = IF s = rng THEN drawn[rng] + job[c].request.rows ELSE drawn[s]
    BY <1>1, <2>1, <2>3, ExceptSeq
  <2>5. ASSUME NEW s \in 1 .. Len(drawn) PROVE drawn[s] <= drawn'[s]
    <3>1. CASE s = rng
      BY <2>3, <2>4, <3>1
    <3>2. CASE s # rng
      BY <1>2, <2>4, <3>2
    <3> QED BY <3>1, <3>2
  <2> QED BY <1>1, <2>4, <2>5
<1>5. CASE ~Reseed(c) /\ ~Draw(c)
  <2>1. drawn' = drawn
    BY <1>5 DEF Handle, Install, Reply, Check, Refuse, Read, Publish, Look
  <2> QED BY <1>1, <1>2, <2>1
<1> QED BY <1>3, <1>4, <1>5

\* A batch draws behind the state it will step.
LEMMA DrawsBehind ==
  ASSUME TypeInv, DrawInv, PlacedInv, SerialInv, BehindInv, ~overlapped,
         NEW c \in Clients, Draw(c)
  PROVE  \A x \in Held(job'[c]) : Current.draw < x
<1>1. /\ job \in [Clients -> Job] /\ job[c] \in Job /\ drawn[rng] \in Nat /\ rng \in Nat
      /\ job[c].at = "draw" /\ job[c].row = 0 /\ Placed(job[c]) /\ Current.draw \in Int
  BY SharedTypes, CurrentFacts DEF Draw, At, TypeInv, Local, PlacedInv
<1>2. PICK j \in Job :
        Moves(c, j) /\ j = [job[c] EXCEPT !.at = "check", !.stream = rng, !.first = drawn[rng]]
  BY <1>1, DrawMoves
<1>3. /\ j.at = "check" /\ j.first = drawn[rng] /\ j.row = 0 /\ j.request.rows \in Nat
  BY <1>1, <1>2, JobFields DEF Job
<1>4. job'[c] = j
  BY <1>1, <1>2, MoveFacts
<1>5. Current.stream = rng
  <2>1. c \in Running /\ Writes(Kind(c))
    BY <1>1 DEF Running, Placed, Kind, Writes
  <2> QED BY <1>1, <2>1, AloneOnStream
<1>6. Current.draw < drawn[rng]
  BY <1>5 DEF BehindInv
<1>7. Held(j) = drawn[rng] + 0 .. drawn[rng] + j.request.rows - 1
  BY <1>3 DEF Held
<1> QED BY <1>1, <1>3, <1>4, <1>6, <1>7

\* A reset's state comes before every draw of its stream.
LEMMA InstallsBehind ==
  ASSUME TypeInv, NEW c \in Clients, Install(c)
  PROVE  /\ Current' = NewState(job[c].request.start, c)
         /\ job[c].request.start \in Bars
         /\ Current'.stream \in 1 .. Len(drawn') /\ Current'.draw < drawn'[Current'.stream]
         /\ \A d \in Clients : \A x \in Held(job'[d]) : Current'.draw < x
<1>1. /\ job \in [Clients -> Job] /\ job[c] \in Job /\ log \in Seq(Assignment) /\ Len(log) \in Nat
      /\ rng \in 1 .. Len(drawn) /\ drawn[rng] \in Nat
      /\ job[c].request.start \in Bars
  BY SharedTypes, InstallStart DEF TypeInv
<1> DEFINE e == NewState(job[c].request.start, c)
<1>2. /\ log' = Append(log, e) /\ drawn' = drawn /\ e \in Assignment
      /\ e.stream = rng /\ e.draw = -1
  BY <1>1, StateTypes DEF Install, NewState
<1> HIDE DEF e
<1>3. Current' = e /\ Len(log') \in Nat
  BY <1>1, <1>2, CurrentFacts, AppendProperties
<1>4. PICK j \in Job : Moves(c, j) /\ j = [job[c] EXCEPT !.at = "reply", !.since = Len(log')]
  BY <1>3, InstallMoves
<1>5. j.at = "reply" /\ job'[c] = j /\ \A d \in Clients \ {c} : job'[d] = job[d]
  BY <1>1, <1>4, MoveFacts DEF Job
<1>6. ASSUME NEW d \in Clients, NEW x \in Held(job'[d]) PROVE -1 < x
  <2>1. job'[d] \in Job
    BY <1>1, <1>5
  <2>2. /\ job'[d].row \in Nat /\ job'[d].first \in Nat /\ job'[d].request.rows \in Nat
    BY <2>1, HeldFacts
  <2>3. x \in 0 .. job'[d].first + job'[d].request.rows - 1
    BY <1>6, <2>2 DEF Held
  <2> QED BY <2>3
<1>7. -1 < drawn[rng]
  BY <1>1
<1> QED BY <1>1, <1>2, <1>3, <1>6, <1>7 DEF e

\* A step's state comes before all that its batch, and so every writer's
\* handler, still holds.
LEMMA PublishesBehind ==
  ASSUME TypeInv, DrawInv, PlacedInv, SerialInv, BehindInv, NEW c \in Clients, Publish(c)
  PROVE  /\ Current'.stream = job[c].stream /\ Current'.draw = job[c].first + job[c].row
         /\ Current'.draw \in Held(job[c]) /\ Writes(Kind(c)) /\ c \in Running
         /\ BehindInv'
<1>1. /\ job \in [Clients -> Job] /\ job[c] \in Job /\ log \in Seq(Assignment) /\ Len(log) \in Nat
      /\ job[c].at = "publish" /\ c \in Running /\ Placed(job[c]) /\ RowInv(job[c])
  BY SharedTypes, PublishedState DEF Publish, At, PlacedInv, DrawInv
<1>2. PICK e \in Assignment :
        log' = Append(log, e) /\ e.stream = job[c].stream /\ e.draw = job[c].first + job[c].row
  BY PublishedState
<1>3. Current' = e /\ Len(log') \in Nat
  BY <1>1, <1>2, CurrentFacts, AppendProperties
<1>4. PICK j \in Job : Moves(c, j) /\ j = [job[c] EXCEPT !.at = "look", !.since = Len(log')]
  BY <1>3, PublishMoves
<1>5. /\ j.at = "look" /\ j.first = job[c].first /\ j.row = job[c].row
      /\ j.request = job[c].request
      /\ job'[c] = j /\ \A d \in Clients \ {c} : job'[d] = job[d]
  BY <1>1, <1>4, MoveFacts DEF Job
<1>6. /\ job[c].row \in Nat /\ job[c].first \in Nat /\ job[c].request.rows \in Nat
      /\ job[c].row < job[c].request.rows
  BY <1>1, JobFields DEF RowInv
<1>7. e.draw \in Held(job[c]) /\ \A x \in Held(j) : e.draw < x
  BY <1>1, <1>2, <1>5, <1>6 DEF Held
<1>8. e.stream \in 1 .. Len(drawn) /\ e.draw < drawn[e.stream]
  BY <1>2, <1>7 DEF DrawInv
<1>9. Writes(Kind(c)) /\ UNCHANGED <<drawn, overlapped>>
  BY <1>1 DEF Placed, Kind, Writes, Publish
<1>10. ASSUME ~overlapped, NEW d \in Clients, Writes(job'[d].request.kind), NEW x \in Held(job'[d])
       PROVE  e.draw < x
  <2>1. CASE d = c
    BY <1>5, <1>7, <1>10, <2>1
  <2>2. CASE d # c
    <3>1. job'[d] = job[d] /\ Writes(Kind(d))
      BY <1>5, <1>10, <2>2 DEF Kind
    <3>2. job[d].at \in {"waiting", "answered"}
      BY <1>1, <1>9, <1>10, <2>2, <3>1, OthersRest DEF SerialInv
    <3>3. Held(job[d]) = {}
      BY <3>2 DEF Held
    <3> QED BY <1>10, <3>1, <3>3
  <2> QED BY <2>1, <2>2
<1>11. BehindInv'
  BY <1>3, <1>8, <1>9, <1>10 DEF BehindInv, Kind, Writes, Held
<1> QED BY <1>1, <1>2, <1>3, <1>7, <1>9, <1>11

\* Every step keeps the current state behind.
LEMMA BehindStep ==
  TypeInv /\ DrawInv /\ PlacedInv /\ SerialInv /\ BehindInv /\ [Next]_vars => BehindInv'
<1> SUFFICES ASSUME TypeInv, DrawInv, PlacedInv, SerialInv, BehindInv, [Next]_vars
             PROVE  BehindInv'
  OBVIOUS
<1>0. /\ job \in [Clients -> Job] /\ Now \in Nat /\ drawn \in Seq(Nat) /\ Len(drawn) \in Nat
      /\ Len(drawn) <= Len(drawn)
      /\ \A s \in 1 .. Len(drawn) : drawn[s] <= drawn[s]
  BY SharedTypes, ElementOfSeq
<1>1. ASSUME NEW c \in Clients, NEW j \in Job, Moves(c, j), UNCHANGED <<log, drawn>>,
             overlapped => overlapped',
             Writes(j.request.kind) => Held(j) = {}
      PROVE  BehindInv'
  <2>1. job'[c] = j /\ \A d \in Clients \ {c} : job'[d] = job[d]
    BY <1>0, <1>1, MoveFacts
  <2>2. Current' = Current
    BY <1>1, CurrentFacts
  <2>3. ASSUME ~overlapped', NEW d \in Clients, Writes(Kind(d))', NEW x \in Held(job'[d])
        PROVE  Current.draw < x
    <3>1. CASE d = c
      BY <1>1, <2>1, <2>3, <3>1 DEF Kind, Writes
    <3>2. CASE d # c
      <4>1. job'[d] = job[d] /\ Writes(Kind(d)) /\ ~overlapped
        BY <1>1, <2>1, <2>3, <3>2 DEF Kind, Writes
      <4> QED BY <2>3, <4>1 DEF BehindInv
    <3> QED BY <3>1, <3>2
  <2> QED BY <1>0, <1>1, <2>2, <2>3, StandsBehind
<1>2. ASSUME NEW c \in Clients, NEW request \in Requests, Submit(c, request) PROVE BehindInv'
  <2>1. Moves(c, NewJob(request)) /\ UNCHANGED <<log, drawn, overlapped>>
    BY <1>2 DEF Submit, Moves
  <2>2. NewJob(request) \in Job /\ NewJob(request).at = "waiting"
    BY NewJobFacts
  <2>3. Held(NewJob(request)) = {}
    BY <2>2 DEF Held
  <2> QED BY <1>1, <2>1, <2>2, <2>3
<1>3. CASE Dispatch
  <2>1. PICK c \in Clients, j \in Job :
          /\ c = Head(queue) /\ job[c].at = "waiting"
          /\ Moves(c, j) /\ j.at \in {"reseed", "draw", "look"}
          /\ j = [job[c] EXCEPT !.at = FirstPlace[Kind(c)], !.since = Now]
          /\ j.at = FirstPlace[Kind(c)]
    BY <1>0, <1>3, DispatchMoves
  <2>2. j.request = job[c].request /\ Kind(c) \in Kinds
    BY <1>0, <2>1, JobFields DEF Job, Kind
  <2>3. Writes(j.request.kind) => Held(j) = {}
    <3>1. Writes(j.request.kind) => Kind(c) \in {"reset", "batch"}
      BY <2>2 DEF Kinds, Kind, Writes
    <3>2. Kind(c) \in {"reset", "batch"} => j.at \in {"reseed", "draw"}
      BY <2>1 DEF FirstPlace
    <3>3. j.at \in {"reseed", "draw"} => Held(j) = {}
      BY DEF Held
    <3> QED BY <3>1, <3>2, <3>3
  <2>4. UNCHANGED <<log, drawn>> /\ (overlapped => overlapped')
    BY <1>3 DEF Dispatch
  <2> QED BY <1>1, <2>1, <2>3, <2>4
<1>4. ASSUME NEW c \in Clients, Handle(c) PROVE BehindInv'
  <2>1. /\ job'[c].request = job[c].request /\ job'[c] \in Job /\ Moves(c, job'[c])
    BY <1>4, HandleKeepsPlaces
  <2>2. \A d \in Clients \ {c} : job'[d] = job[d]
    BY <1>0, <2>1, MoveFacts
  <2>3. \A d \in Clients : Kind(d)' = Kind(d)
    BY <2>1, <2>2 DEF Kind
  <2>4. overlapped' = overlapped
    BY <1>4 DEF Handle, Reseed, Install, Reply, Draw, Check, Refuse, Read, Publish, Look
  <2>5. CASE Install(c)
    <3>1. /\ Current'.stream \in 1 .. Len(drawn') /\ Current'.draw < drawn'[Current'.stream]
          /\ \A d \in Clients : \A x \in Held(job'[d]) : Current'.draw < x
      BY <2>5, InstallsBehind
    <3> QED BY <3>1 DEF BehindInv, Held
  <2>6. CASE Publish(c)
    BY <2>6, PublishesBehind
  <2>7. CASE ~Install(c) /\ ~Publish(c)
    <3>1. log' = log
      BY <1>4, <2>7 DEF Handle, Reseed, Reply, Draw, Check, Refuse, Read, Look
    <3>2. Current' = Current
      BY <3>1, CurrentFacts
    <3>3. ASSUME ~overlapped', NEW d \in Clients, Writes(Kind(d))', NEW x \in Held(job'[d])
          PROVE  Current.draw < x
      <4>1. ~overlapped /\ Writes(Kind(d))
        BY <2>3, <2>4, <3>3 DEF Writes
      <4>2. CASE d # c
        BY <2>2, <3>3, <4>1, <4>2 DEF BehindInv
      <4>3. CASE d = c /\ Draw(c)
        BY <3>3, <4>1, <4>3, DrawsBehind
      <4>4. CASE d = c /\ ~Draw(c)
        <5>1. x \in Held(job[c])
          BY <1>4, <3>3, <4>4, HeldShrinks
        <5> QED BY <4>1, <4>4, <5>1 DEF BehindInv
      <4> QED BY <4>2, <4>3, <4>4
    <3>4. /\ drawn' \in Seq(Nat) /\ Len(drawn) <= Len(drawn')
          /\ \A s \in 1 .. Len(drawn) : drawn[s] <= drawn'[s]
      BY <1>4, DrawnGrows
    <3> QED BY <3>2, <3>3, <3>4, StandsBehind
  <2> QED BY <2>5, <2>6, <2>7
<1>5. CASE UNCHANGED vars
  BY <1>5 DEF vars, BehindInv, Current, Now, Held, Kind, Writes
<1> QED BY <1>2, <1>3, <1>4, <1>5 DEF Next

\* A step published alone is a step of the episode: it moves the current state
\* one bar on, on the same stream, with a draw behind the last one used.
LEMMA PublishIsStep ==
  ASSUME PoolInv, ~overlapped, NEW c \in Clients, Publish(c)
  PROVE  AsSeededEpisode!Step
<1>1. /\ job[c] \in Job /\ job[c].at = "publish" /\ log \in Seq(Assignment)
      /\ Current.t \in Bars /\ Current.draw \in Int /\ TypeInv /\ SerialInv
  BY SharedTypes, CurrentFacts DEF Publish, At, PoolInv
<1>2. /\ Current'.stream = job[c].stream /\ Current'.draw \in Held(job[c])
      /\ Current'.draw = job[c].first + job[c].row
      /\ Writes(Kind(c)) /\ c \in Running
  BY PublishesBehind DEF PoolInv
<1>3. /\ \A i \in 1 .. Parts : job[c].of[i] = Len(log)
      /\ ~log[Len(log)].over /\ job[c].stream = rng
  BY <1>1, <1>2, PublishedState DEF SerialInv, Serial
<1>4. job[c].of[1] = Now /\ job[c].of[2] = Now /\ ~Current.over
  BY <1>3 DEF Parts, Current, Now
<1>5. PICK over \in BOOLEAN :
        /\ NextBar(Current.t) = N - 1 => over
        /\ log' = Append(log,
             [made |-> "step", t |-> NextBar(Current.t), over |-> over, of |-> job[c].of,
              stream |-> job[c].stream, draw |-> job[c].first + job[c].row, by |-> c])
  BY <1>4 DEF Publish, Current
<1>6. Current'.t = NextBar(Current.t) /\ Current'.over = over
  <2>1. Current' = [made |-> "step", t |-> NextBar(Current.t), over |-> over, of |-> job[c].of,
                    stream |-> job[c].stream, draw |-> job[c].first + job[c].row, by |-> c]
    BY <1>1, <1>5, AppendProperties DEF Current, Now
  <2> QED BY <2>1
<1>7. NextBar(Current.t) = IF Current.t = N - 1 THEN Current.t ELSE Current.t + 1
  BY <1>1, GrpcAssumption DEF NextBar, Bars
<1>8. Current'.stream = Current.stream
  <2>1. Current.stream = rng
    BY <1>1, <1>2, AloneOnStream DEF PoolInv
  <2> QED BY <1>2, <1>3, <2>1
<1>9. Current'.draw + 1 \in Nat /\ Current'.draw + 1 > Current.draw + 1
  <2>1. Current.draw < Current'.draw
    BY <1>2 DEF PoolInv, BehindInv
  <2>2. Current'.draw \in Nat
    BY <1>1, <1>2, HeldFacts
  <2> QED BY <1>1, <2>1, <2>2
<1> QED BY <1>4, <1>5, <1>6, <1>7, <1>8, <1>9 DEF AsSeededEpisode!Step

\* A reset's state is the beginning of an episode.
LEMMA InstallIsRestart ==
  ASSUME TypeInv, NEW c \in Clients, Install(c)
  PROVE  AsSeededEpisode!Restart(job[c].request.start) /\ job[c].request.start \in Bars
<1>1. /\ Current' = NewState(job[c].request.start, c)
      /\ job[c].request.start \in Bars /\ rng \in Nat
  BY InstallsBehind, SharedTypes
<1>2. /\ Current'.t = job[c].request.start /\ Current'.over = FALSE
      /\ Current'.stream = rng /\ Current'.draw + 1 = 0
  BY <1>1 DEF NewState
<1> QED BY <1>1, <1>2 DEF AsSeededEpisode!Restart

\* Every step maps to a step of the episode, a restart or a stutter.
LEMMA PoolStep ==
  PoolInv /\ [Next]_vars => (~overlapped' => [AsSeededEpisode!Next]_(AsSeededEpisode!vars))
<1> SUFFICES ASSUME PoolInv, [Next]_vars, ~overlapped'
             PROVE  AsSeededEpisode!Next \/ UNCHANGED AsSeededEpisode!vars
  OBVIOUS
<1>1. TypeInv
  BY DEF PoolInv
<1>2. ASSUME log' = log PROVE UNCHANGED AsSeededEpisode!vars
  BY <1>2 DEF AsSeededEpisode!vars, Current, Now
<1>3. ASSUME NEW c \in Clients, Publish(c) PROVE AsSeededEpisode!Next
  <2>1. ~overlapped
    BY <1>3 DEF Publish
  <2> QED BY <1>3, <2>1, PublishIsStep DEF AsSeededEpisode!Next
<1>4. ASSUME NEW c \in Clients, Install(c) PROVE AsSeededEpisode!Next
  BY <1>1, <1>4, InstallIsRestart DEF AsSeededEpisode!Next, AsSeededEpisode!Bars, Bars
<1>5. ASSUME NEW c \in Clients, Handle(c), ~Publish(c), ~Install(c) PROVE log' = log
  BY <1>5 DEF Handle, Reseed, Reply, Draw, Check, Refuse, Read, Look
<1>6. ASSUME \/ \E c \in Clients, request \in Requests : Submit(c, request)
             \/ Dispatch
             \/ UNCHANGED vars
      PROVE  log' = log
  BY <1>6 DEF Submit, Dispatch, vars
<1> QED BY <1>2, <1>3, <1>4, <1>5, <1>6 DEF Next

\* ImplementsSeededEpisode, for any pool: as long as no two handlers that write
\* have run at once, every change of the shared state is a step or a restart of
\* a seeded episode, however the handlers' reads and writes interleave.
THEOREM PoolImplementsSeededEpisode == Spec => ImplementsSeededEpisode
<1>1. Init => PoolInv /\ AsSeededEpisode!Init
  <2> SUFFICES ASSUME Init PROVE PoolInv /\ AsSeededEpisode!Init
    OBVIOUS
  <2>1. TypeInv /\ RecentInv /\ DrawInv /\ PlacedInv /\ SerialInv
    BY TypeInvInit, RecentInit, DrawInit, SerialInit
  <2>2. /\ Current.t = 0 /\ Current.over = FALSE /\ Current.stream = 1 /\ Current.draw = -1
        /\ Len(drawn) = 1 /\ drawn[1] = 0
    BY DEF Init, Current, Now, NewState
  <2>3. \A c \in Clients : Held(job[c]) = {}
    <3>1. NoJob.at = "answered"
      BY DEF NoJob, NewJob
    <3> QED BY <3>1 DEF Init, Held
  <2>4. BehindInv
    BY <2>2, <2>3 DEF BehindInv
  <2>5. AsSeededEpisode!Init
    BY <2>2 DEF AsSeededEpisode!Init
  <2> QED BY <2>1, <2>4, <2>5 DEF PoolInv
<1>2. PoolInv /\ [Next]_vars => PoolInv'
  BY TypeInvStep, RecentStep, DrawStep, PlacedStep, SerialStep, BehindStep DEF PoolInv
<1>3. PoolInv /\ [Next]_vars
        => [~overlapped' => [AsSeededEpisode!Next]_(AsSeededEpisode!vars)]_vars
  BY PoolStep
<1> QED BY <1>1, <1>2, <1>3, PTL DEF Spec, ImplementsSeededEpisode
=============================================================================
