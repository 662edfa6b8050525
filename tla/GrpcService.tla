---------------------------- MODULE GrpcService ----------------------------
(***************************************************************************)
(* The gRPC service (grpc/server.py): a pool of threads that run the       *)
(* handlers of one environment (env.py) with no lock.  A handler reads the *)
(* environment's attributes one at a time, and other handlers run between  *)
(* any two of its reads and writes; a single read or write of an attribute *)
(* is atomic, and so is drawing from a generator.                          *)
(*                                                                         *)
(* A core state is never changed once it has been published, so what a     *)
(* handler has read is told by when it was published: `log' is every       *)
(* assignment of _core_state in order, the last one being its value, and a *)
(* read returns a position in the log.  What a step computes is told by    *)
(* the states its arguments were read from.                                *)
(***************************************************************************)
EXTENDS Integers, Sequences, FiniteSets

CONSTANTS N,            \* number of bars
          Clients,      \* each waits for the answer to its last request
          MaxWorkers,   \* threads of the pool
          UseNumba,     \* config.use_numba
          Starts,       \* start bars a client may ask for
          MaxBatch,     \* bound: rows of a batch
          MaxRequests   \* bound: requests, all clients together

ASSUME GrpcAssumption ==
  /\ N \in Nat \ {0}
  /\ MaxWorkers \in Nat \ {0}
  /\ UseNumba \in BOOLEAN
  /\ Starts \subseteq Int
  /\ MaxBatch \in Nat
  /\ MaxRequests \in Nat

VARIABLES log,        \* every assignment of _core_state
          rng,        \* _rng: which stream
          drawn,      \* how far each stream has been drawn from
          queue,      \* clients whose requests wait for a thread
          job,        \* each client's last request and its handler
          asked,      \* how many requests there have been
          overlapped  \* history: two handlers that write have run at once

vars == <<log, rng, drawn, queue, job, asked, overlapped>>

Bars == 0 .. N - 1
NextBar(t) == IF t + 1 >= N THEN N - 1 ELSE t + 1

\* The parts of a core state that are read one by one: the bar, the done flag,
\* the portfolio and the orders (whose arrays count as one).
Parts == 4
Whole(v) == [part \in 1 .. Parts |-> v]

Now == Len(log)
Current == log[Now]

\* What may be assigned to _core_state: a reset's state, a step's, or that of
\* a finished episode again. `of' is what each part of it was made from.
Assignment == [made : {"reset", "step", "again"}, t : Bars, over : BOOLEAN,
               of : [1 .. Parts -> Nat], stream : Nat, draw : Int, by : Clients \cup {"server"}]

NewState(start, c) ==
  [made |-> "reset", t |-> start, over |-> FALSE, of |-> Whole(0),
   stream |-> rng, draw |-> -1, by |-> c]

Requests ==
  {[kind |-> "reset", start |-> start, rows |-> 0] : start \in Starts} \cup
  {[kind |-> "observe", start |-> 0, rows |-> 0]} \cup
  {[kind |-> "batch", start |-> 0, rows |-> n] : n \in 1 .. MaxBatch}

\* A handler: where it stands, the rows it has answered, the place of its batch
\* in the stream, the parts it has read for the step (`of') and for the
\* observation (`seen'), and the log when that observation began.
NewJob(request) ==
  [at |-> "waiting", request |-> request, row |-> 0, stream |-> 0, first |-> 0,
   of |-> <<>>, seen |-> <<>>, since |-> 0]
NoJob == [NewJob([kind |-> "observe", start |-> 0, rows |-> 0]) EXCEPT !.at = "answered"]

Kind(c) == job[c].request.kind
At(c, place) == job[c].at = place
Running == {c \in Clients : job[c].at \notin {"waiting", "answered"}}
Writes(kind) == kind # "observe"
-----------------------------------------------------------------------------
\* create_server resets the environment before it serves.
Init ==
  /\ rng = 1
  /\ log = <<NewState(0, "server")>>
  /\ drawn = <<0>>
  /\ queue = <<>>
  /\ job = [c \in Clients |-> NoJob]
  /\ asked = 0
  /\ overlapped = FALSE

Submit(c, request) ==
  /\ At(c, "answered")
  /\ asked < MaxRequests
  /\ asked' = asked + 1
  /\ job' = [job EXCEPT ![c] = NewJob(request)]
  /\ queue' = Append(queue, c)
  /\ UNCHANGED <<log, rng, drawn, overlapped>>

FirstPlace == [reset |-> "reseed", batch |-> "draw", observe |-> "look"]
FreeThread == Cardinality(Running) < MaxWorkers

\* A thread takes up the request that has waited longest.
Dispatch ==
  /\ queue # <<>>
  /\ FreeThread
  /\ LET c == Head(queue)
     IN  /\ job' = [job EXCEPT ![c].at = FirstPlace[Kind(c)], ![c].since = Now]
         /\ overlapped' = (overlapped \/
              (Writes(Kind(c)) /\ \E d \in Running : Writes(Kind(d))))
  /\ queue' = Tail(queue)
  /\ UNCHANGED <<log, rng, drawn, asked>>
-----------------------------------------------------------------------------
\* reset: first a new generator, if the start is a bar of the series,
Reseed(c) ==
  /\ At(c, "reseed")
  /\ job[c].request.start \in Bars
  /\ drawn' = Append(drawn, 0)
  /\ rng' = Len(drawn')
  /\ job' = [job EXCEPT ![c].at = "install"]
  /\ UNCHANGED <<log, queue, asked, overlapped>>

\* then a new core state,
Install(c) ==
  /\ At(c, "install")
  /\ log' = Append(log, NewState(job[c].request.start, c))
  /\ job' = [job EXCEPT ![c].at = "reply", ![c].since = Len(log')]
  /\ UNCHANGED <<rng, drawn, queue, asked, overlapped>>

\* (The names with a suffix, here and below, are faulty variants of the
\* definition that follows them; no specification uses them.)
Reply_AfterTheQueue(c) ==
  /\ At(c, "reply")
  /\ queue = <<>>
  /\ job' = [job EXCEPT ![c].at = "answered", ![c].seen = Whole(Now)]
  /\ UNCHANGED <<log, rng, drawn, queue, asked, overlapped>>

\* and then the answer, for which _core_state is read again.
Reply(c) ==
  /\ At(c, "reply")
  /\ job' = [job EXCEPT ![c].at = "answered", ![c].seen = Whole(Now)]
  /\ UNCHANGED <<log, rng, drawn, queue, asked, overlapped>>
-----------------------------------------------------------------------------
\* step_many: the draws of all rows, at once.
Stream_Built == 1
Stream == rng
Take_OneRow(n) == [drawn EXCEPT ![Stream] = @ + 1]
Take(n) == [drawn EXCEPT ![Stream] = @ + n]

Draw(c) ==
  /\ At(c, "draw")
  /\ drawn' = Take(job[c].request.rows)
  /\ job' = [job EXCEPT ![c].at = "check", ![c].stream = Stream, ![c].first = drawn[Stream]]
  /\ UNCHANGED <<log, rng, queue, asked, overlapped>>

Check_Unasked(c) ==
  /\ At(c, "check")
  /\ job' = [job EXCEPT ![c].at = "step", ![c].of = <<>>, ![c].seen = <<>>, ![c].since = Now]
  /\ UNCHANGED <<log, rng, drawn, queue, asked, overlapped>>

\* A row begins by asking whether the episode is over.
Check(c) ==
  /\ At(c, "check")
  /\ job' = [job EXCEPT ![c].at = IF Current.over THEN "look" ELSE "step",
                        ![c].of = <<>>, ![c].seen = <<>>, ![c].since = Now]
  /\ UNCHANGED <<log, rng, drawn, queue, asked, overlapped>>

\* The call is refused and changes nothing: a reset outside the series, or a row
\* that does not decode, which the compiled path finds out after it has read the
\* state, or that the core raises on.
Refuse(c) ==
  /\ \/ At(c, "reseed") /\ job[c].request.start \notin Bars
     \/ At(c, "step") /\ ~UseNumba
     \/ At(c, "publish") /\ (UseNumba \/ ~log[job[c].of[2]].over)
  /\ job' = [job EXCEPT ![c].at = "answered"]
  /\ UNCHANGED <<log, rng, drawn, queue, asked, overlapped>>

\* The arguments of the step: the core state, or, for the kernel, its parts one
\* by one.
Arguments_OfACopy(c) ==
  Whole(CHOOSE v \in 1 .. Now : log[v].by # c /\ \A w \in v + 1 .. Now : log[w].by = c)
Arguments(c) == IF UseNumba THEN Append(job[c].of, Now) ELSE Whole(Now)

Read(c) ==
  /\ At(c, "step")
  /\ LET of == Arguments(c)
     IN  job' = [job EXCEPT ![c].of = of,
                            ![c].at = IF Len(of) = Parts THEN "publish" ELSE @]
  /\ UNCHANGED <<log, rng, drawn, queue, asked, overlapped>>

\* The step's state is assigned; one that was over already comes back as it is.
Publish(c) ==
  LET of    == job[c].of
      t     == log[of[1]].t
      again == log[of[2]].over
      next  == NextBar(t)
  IN  /\ At(c, "publish")
      /\ \E over \in BOOLEAN :
           /\ again \/ next = N - 1 => over
           /\ log' = Append(log,
                [made |-> IF again THEN "again" ELSE "step",
                 t |-> IF again THEN t ELSE next, over |-> over, of |-> of,
                 stream |-> job[c].stream, draw |-> job[c].first + job[c].row, by |-> c])
      /\ job' = [job EXCEPT ![c].at = "look", ![c].since = Len(log')]
      /\ UNCHANGED <<rng, drawn, queue, asked, overlapped>>

\* observe reads the bar, the portfolio, the orders and the done flag; a row of
\* a batch then reads the done flag once more.
Observed_BeforeStep(c) == IF job[c].of = <<>> THEN Now ELSE job[c].of[1]
Observed(c) == Now

Looks(kind) == IF kind = "batch" THEN Parts + 1 ELSE Parts
Look(c) ==
  /\ At(c, "look")
  /\ LET seen == Append(job[c].seen, Observed(c))
         row  == job[c].row + 1
     IN  IF Len(seen) < Looks(Kind(c))
           THEN job' = [job EXCEPT ![c].seen = seen]
           ELSE job' = [job EXCEPT ![c].seen = seen, ![c].row = row,
                          ![c].at = IF row < job[c].request.rows THEN "check" ELSE "answered"]
  /\ UNCHANGED <<log, rng, drawn, queue, asked, overlapped>>

Handle(c) ==
  \/ Reseed(c) \/ Install(c) \/ Reply(c)
  \/ Draw(c) \/ Check(c) \/ Refuse(c) \/ Read(c) \/ Publish(c)
  \/ Look(c)

Next ==
  \/ \E c \in Clients : (\E request \in Requests : Submit(c, request)) \/ Handle(c)
  \/ Dispatch

Spec == Init /\ [][Next]_vars

\* A thread that has something to do gets to run, and an idle thread takes up
\* a request that waits.
FairSpec == Spec /\ WF_vars(Dispatch) /\ \A c \in Clients : WF_vars(Handle(c))
-----------------------------------------------------------------------------
Job == [at : {"waiting", "reseed", "install", "reply", "draw", "check", "step",
              "publish", "look", "answered"},
        request : Requests, row : Nat, stream : Nat, first : Nat,
        of : Seq(Nat), seen : Seq(Nat), since : Nat]

\* The shape of the environment and of the handlers.
GrpcTypeOK ==
  /\ log \in Seq(Assignment)
  /\ rng \in 1 .. Len(drawn)
  /\ drawn \in Seq(Nat)
  /\ queue \in Seq(Clients)
  /\ job \in [Clients -> Job]
  /\ asked \in 0 .. MaxRequests
  /\ overlapped \in BOOLEAN
  /\ Cardinality(Running) <= MaxWorkers

\* Whatever runs beside it, an observation is made of states that were current
\* while it was made, read in the order they were published; one that comes
\* with a row, of the row's own state and what others published after it.
ObservationIsRecent ==
  \A c \in Clients :
    LET seen == job[c].seen
    IN  \A i \in 1 .. Len(seen) :
          /\ job[c].since <= seen[i]
          /\ i > 1 => seen[i - 1] <= seen[i]
          /\ \A v \in job[c].since + 1 .. seen[i] : log[v].by # c

\* No two steps are taken with the same draws of the same stream, whichever
\* handlers took them.
NoDrawsShared ==
  \A v, w \in 1 .. Len(log) :
    v # w /\ log[v].made = "step" /\ log[w].made = "step" =>
      log[v].stream # log[w].stream \/ log[v].draw # log[w].draw

\* Steps do get lost when handlers that write overlap, but never to their own
\* caller: what a client has published, in this batch or in an earlier request,
\* its next step takes account of, unless another client has undone it.
OwnStepsAreKept ==
  \A v \in 1 .. Len(log) :
    log[v].made # "reset" =>
      \A part \in 1 .. Parts : \A w \in log[v].of[part] + 1 .. v - 1 : log[w].by # log[v].by

\* As long as no two handlers that write have run at once (one thread, or one
\* client that resets and steps and any number that observe), the episode is
\* what one caller alone would see: each step follows the one before it and
\* draws from the stream of its own reset, no answer of a writer is another's,
\* and what a batch observes is the state of its own row.
SerialUnlessOverlapped ==
  ~overlapped =>
    /\ \A v \in 2 .. Len(log) :
         log[v].made # "reset" =>
           /\ log[v].made = "step"
           /\ log[v].of = Whole(v - 1)
           /\ ~log[v - 1].over
           /\ log[v].stream = log[v - 1].stream
    /\ \A c \in Clients :
         Writes(Kind(c)) => \A i \in 1 .. Len(job[c].seen) : job[c].seen[i] = job[c].since

\* In the terms of the environment: as long as no two handlers that write have
\* run at once, what the pool makes of the shared state is a seeded episode.
AsSeededEpisode ==
  INSTANCE SeededEpisode WITH t <- Current.t, over <- Current.over,
                              stream <- Current.stream, used <- Current.draw + 1,
                              Streams <- Nat
ImplementsSeededEpisode ==
  /\ AsSeededEpisode!Init
  /\ [][~overlapped' => [AsSeededEpisode!Next]_(AsSeededEpisode!vars)]_vars

\* Every request is answered: handlers never wait for one another, and the
\* queue is first come, first served.
EveryRequestAnswered ==
  \A c \in Clients : At(c, "waiting") ~> At(c, "answered")
=============================================================================
