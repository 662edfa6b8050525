---------------------------- MODULE HttpService ----------------------------
(***************************************************************************)
(* The HTTP service (server.py): a process that loads its configuration    *)
(* (config.py), builds one environment with a trace sink (trace_writer.py) *)
(* and serves it until it is shut down or dies.  The environment and its   *)
(* batches are those of MarketEnv; no handler awaits, so a request that    *)
(* has reached the environment runs alone until it is answered.            *)
(*                                                                         *)
(* The trace file outlives the process.  It is a list of lines, and a row  *)
(* in it is told by its number: the how many-th it is that was ever        *)
(* written.  A write that is cut short leaves a line without an end, and   *)
(* what is appended next goes onto that same line.                         *)
(***************************************************************************)
EXTENDS MarketEnv, FiniteSets

CONSTANTS Settings,     \* what a process may find when it starts
          NoSeed,       \* a key that is not set; a seed that is left out
          Unparsable,   \* a value that is none; a file that is no mapping
          BadStart,     \* a start bar outside the series
          Undecodable,  \* an action whose limit price is announced and missing
          MaxStarts,    \* bound: processes, one after the other
          MaxWritten    \* bound: rows in the trace file before a batch begins

\* ENGINE_ENABLED; whether MARKET_DATA_CSV can be read and the trace file opened;
\* the seed in the YAML file; STOCK_SIM_SEED.
SeedSetting == Seeds \cup {NoSeed, Unparsable}
Setting == [enabled : BOOLEAN, data : BOOLEAN, yaml : SeedSetting, env : SeedSetting]

ASSUME HttpAssumption ==
  /\ Settings \subseteq Setting
  /\ NoSeed \notin Seeds
  /\ Unparsable \notin Seeds
  /\ BadStart \notin Bars
  /\ Undecodable \notin Rows
  /\ MaxStarts \in Nat
  /\ MaxWritten \in Nat

VARIABLES proc,    \* the process: RuntimeState, and what it was started with
          file,    \* the lines of the trace file
          told,    \* history: the rows whose batches were answered with 200
          tears,   \* history: writes that were cut short
          answer   \* the last answer: [to, status]

httpVars == <<vars, proc, file, told, tears, answer>>
-----------------------------------------------------------------------------
\* (The names with a suffix, here and below, are faulty variants of the
\* definition that follows them; no specification uses them.)
LoadConfig_FileWins(setting) ==
  IF Unparsable \in {setting.yaml, setting.env} THEN Unparsable
  ELSE IF setting.yaml # NoSeed THEN setting.yaml
  ELSE IF setting.env # NoSeed THEN setting.env
  ELSE DefaultSeed

\* GameConfig.load, for one of its keys: the defaults, then the file, then the
\* environment.  What cannot be parsed raises, also where it would not count.
LoadConfig(setting) ==
  LET fromFile == IF setting.yaml = NoSeed THEN DefaultSeed ELSE setting.yaml
  IN  IF Unparsable \in {setting.yaml, setting.env} THEN Unparsable
      ELSE IF setting.env = NoSeed THEN fromFile
      ELSE setting.env

\* _load_engine: the seed of the engine, if one can be built.
LoadEngine(setting) ==
  IF setting.data THEN LoadConfig(setting) ELSE Unparsable

\* No process runs: nothing has been found.
Nothing == [enabled |-> FALSE, data |-> FALSE, yaml |-> NoSeed, env |-> NoSeed]
RuntimeState(setting, starts, up, ready, loaded) ==
  [up |-> up, setting |-> setting, starts |-> starts, ready |-> ready, loaded |-> loaded,
   asked |-> NoSeed]

Startup_ReadyFirst(setting) ==
  LET loaded == setting.enabled /\ LoadEngine(setting) # Unparsable
  IN  RuntimeState(setting, proc.starts + 1, TRUE, TRUE, loaded)

\* The startup handler: a service whose engine is disabled is ready without
\* one, a service whose engine cannot be built is not.
Startup(setting) ==
  LET loaded == setting.enabled /\ LoadEngine(setting) # Unparsable
  IN  RuntimeState(setting, proc.starts + 1, TRUE, setting.enabled => loaded, loaded)

Stopped == RuntimeState(Nothing, proc.starts, FALSE, FALSE, FALSE)

Respond(to, status) == answer' = [to |-> to, status |-> status]
NoAnswer == [to |-> "nobody", status |-> 0]
-----------------------------------------------------------------------------
\* The file.  A line holds the rows written on it and may lack its end.
Line(rows, ended) == [rows |-> rows, ended |-> ended]
Readable(line) == line.ended /\ Len(line.rows) = 1
LastLine == file[Len(file)]
Written == IF file = <<>> THEN 0 ELSE LastLine.rows[Len(LastLine.rows)]

\* One more row, all of it or its beginning.
Appended(ended) ==
  IF file # <<>> /\ ~LastLine.ended
    THEN [file EXCEPT ![Len(file)] = Line(Append(@.rows, Written + 1), ended)]
    ELSE Append(file, Line(<<Written + 1>>, ended))

\* TraceJsonlWriter opens the file to append to it.
Opened_ToWrite == <<>>
Opened == file

\* The rows of the running batch: the last ones written.
BatchRows == Written - Len(call.rows) + 1 .. Written
-----------------------------------------------------------------------------
\* An environment that nobody has called, or none.
Fresh(seed, open) ==
  /\ core' = NewCore(0)
  /\ rng' = [seed |-> seed, pos |-> 0]
  /\ call' = NoBatch
  /\ sink' = [open |-> open, rows |-> <<>>]
  /\ spoiled' = FALSE

HttpInit ==
  /\ core = NewCore(0)
  /\ rng = [seed |-> DefaultSeed, pos |-> 0]
  /\ call = NoBatch
  /\ sink = [open |-> FALSE, rows |-> <<>>]
  /\ spoiled = FALSE
  /\ proc = RuntimeState(Nothing, 0, FALSE, FALSE, FALSE)
  /\ file = <<>>
  /\ told = {}
  /\ tears = 0
  /\ answer = NoAnswer

Start(setting) ==
  /\ ~proc.up
  /\ proc.starts < MaxStarts
  /\ proc' = Startup(setting)
  /\ IF proc'.loaded THEN Fresh(LoadEngine(setting), HasSink) ELSE Fresh(DefaultSeed, FALSE)
  /\ file' = IF proc'.loaded /\ HasSink THEN Opened ELSE file
  /\ answer' = NoAnswer
  /\ UNCHANGED <<told, tears>>

\* A handler may begin: the one event loop is free.
Listening == proc.up /\ ~Running
Serving == Listening /\ proc.loaded

\* The server stops accepting, answers what it has accepted, and runs the
\* shutdown handler, which closes the sink.
Shutdown ==
  /\ Listening
  /\ proc' = Stopped
  /\ Fresh(DefaultSeed, FALSE)
  /\ answer' = NoAnswer
  /\ UNCHANGED <<file, told, tears>>

\* The process dies: between two rows, or in the middle of writing one.
Die ==
  /\ proc.up
  /\ proc' = Stopped
  /\ Fresh(DefaultSeed, FALSE)
  /\ \/ UNCHANGED <<file, tears>>
     \/ /\ MoreRows
        /\ sink.open
        /\ core.over \/ Row \notin Malformed
        /\ file' = Appended(FALSE)
        /\ tears' = tears + 1
  /\ answer' = NoAnswer
  /\ UNCHANGED told
-----------------------------------------------------------------------------
Readyz ==
  /\ Listening
  /\ Respond("readyz", IF proc.ready THEN 200 ELSE 503)
  /\ UNCHANGED <<vars, proc, file, told, tears>>

\* require_env raises before a handler does anything else.
Unavailable ==
  /\ Listening
  /\ ~proc.loaded
  /\ Respond("engine", 503)
  /\ UNCHANGED <<vars, proc, file, told, tears>>

\* observe and market_window, and step_many without actions, only read.
Observe ==
  /\ Serving
  /\ Respond("engine", 200)
  /\ UNCHANGED <<vars, proc, file, told, tears>>

\* A start bar outside the series, or an action that cannot be put into the
\* matrix: refused before the environment is touched.
BadRequest(request) ==
  /\ Serving
  /\ request \in {BadStart, Undecodable}
  /\ Respond("engine", 400)
  /\ UNCHANGED <<vars, proc, file, told, tears>>

\* reset, with a seed of the caller's or without one.
ResetRequest(seed, start) ==
  /\ Serving
  /\ Reset(IF seed = NoSeed THEN LoadEngine(proc.setting) ELSE seed, start)
  /\ proc' = [proc EXCEPT !.asked = seed]
  /\ Respond("engine", 200)
  /\ UNCHANGED <<file, told, tears>>

\* step_many with actions begins.
StepManyRequest(rows) ==
  /\ Serving
  /\ rows # <<>>
  /\ Written < MaxWritten
  /\ StepMany(rows)
  /\ answer' = NoAnswer
  /\ UNCHANGED <<proc, file, told, tears>>

\* A row whose trace is written, if there is a sink.
ServeRow ==
  /\ RowAccepted \/ RowAfterEnd
  /\ file' = IF sink.open THEN Appended(TRUE) ELSE file
  /\ UNCHANGED <<proc, told, tears, answer>>

\* The row is refused: ValueError, and 400 for the whole batch.
RefuseBatch ==
  /\ RowRefused
  /\ Respond("engine", 400)
  /\ UNCHANGED <<proc, file, told, tears>>

\* The row is applied and its trace cannot be written, or only in part: OSError,
\* which no handler catches.
LoseTrace ==
  /\ MoreRows
  /\ sink.open
  /\ \/ core.over /\ UNCHANGED core
     \/ ~core.over /\ Row \notin Malformed /\ Advance(Row, DrawOfRow, TRUE)
  /\ \/ UNCHANGED <<file, tears>>
     \/ file' = Appended(FALSE) /\ tears' = tears + 1
  /\ call' = [call EXCEPT !.phase = "raised"]
  /\ spoiled' = TRUE
  /\ Respond("engine", 500)
  /\ UNCHANGED <<rng, sink, proc, told>>

ReturnBatch ==
  /\ Return
  /\ told' = IF sink.open THEN told \cup BatchRows ELSE told
  /\ Respond("engine", 200)
  /\ UNCHANGED <<proc, file, tears>>

Handle == ServeRow \/ RefuseBatch \/ LoseTrace \/ ReturnBatch

HttpNext ==
  \/ \E setting \in Settings : Start(setting)
  \/ Shutdown \/ Die
  \/ Readyz \/ Unavailable \/ Observe
  \/ \E request \in {BadStart, Undecodable} : BadRequest(request)
  \/ \E seed \in Seeds \cup {NoSeed}, start \in Bars : ResetRequest(seed, start)
  \/ \E rows \in Batches : StepManyRequest(rows)
  \/ Handle

\* A handler that runs is not interrupted: it goes on until it is answered,
\* unless the process dies.
HttpSpec == HttpInit /\ [][HttpNext]_httpVars /\ WF_httpVars(Handle)
-----------------------------------------------------------------------------
\* The shape of the process and of its file.
HttpTypeOK ==
  /\ EnvTypeOK
  /\ proc \in [up : BOOLEAN, setting : Settings \cup {Nothing}, starts : 0 .. MaxStarts, ready : BOOLEAN,
               loaded : BOOLEAN, asked : Seeds \cup {NoSeed}]
  /\ file \in Seq([rows : Seq(Nat), ended : BOOLEAN])
  /\ told \subseteq Nat
  /\ tears \in Nat
  /\ answer \in [to : {"nobody", "readyz", "engine"}, status : {0, 200, 400, 500, 503}]

\* Rows whose lines can be read.
ReadableRows == {file[i].rows[1] : i \in {j \in 1 .. Len(file) : Readable(file[j])}}

\* "makes the server write every step's trace row to that file" (trace_writer.py),
\* across restarts: a row that was answered can be read in the file, unless it
\* was written right behind one that was cut short, and each cut costs at most
\* one; rows are readable once and in the order they were written.
AnsweredRowsAreTraced ==
  /\ \A row \in told \ ReadableRows :
       \E i \in 1 .. Len(file) :
         \E k \in 2 .. Len(file[i].rows) : file[i].rows[k] = row /\ row - 1 \notin told
  /\ Cardinality(told \ ReadableRows) <= tears
  /\ \A i, j \in 1 .. Len(file) :
       i < j /\ Readable(file[i]) /\ Readable(file[j]) => file[i].rows[1] < file[j].rows[1]

\* A client of a service with an engine that has found it ready is never told
\* that there is no engine, until it stops; and a service that is not ready
\* serves nothing.
ReadyIsServed ==
  [][answer'.to = "engine" /\ answer' # answer /\ proc'.setting.enabled =>
       (answer'.status = 503 <=> ~proc.ready)]_httpVars

\* The seed the configuration names: the environment's, which wins over the
\* file's, which wins over the default (README: "last wins").
Configured ==
  CASE proc.setting.env # NoSeed -> proc.setting.env
    [] proc.setting.env = NoSeed /\ proc.setting.yaml # NoSeed -> proc.setting.yaml
    [] OTHER -> DefaultSeed

\* Whatever came before, in this process or in another one, an episode draws
\* from the beginning of the stream of the seed it was asked for, or of the one
\* the configuration names: a process that has just started, of that one.
EpisodeIsReproducible ==
  proc.loaded /\ ~spoiled =>
    /\ rng.seed = (IF proc.asked = NoSeed THEN Configured ELSE proc.asked)
    /\ \A j \in 1 .. Len(core.applied) : core.applied[j].draw = j - 1

\* A batch that began is answered, or the process has died.
BatchIsAnswered == Running ~> ~Running
=============================================================================
