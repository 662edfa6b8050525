-------------------------- MODULE HttpServiceProofs --------------------------
(***************************************************************************)
(* Theorems about the HTTP service, for any number of processes one after  *)
(* the other, whatever each finds when it starts and wherever it dies.     *)
(***************************************************************************)
EXTENDS HttpService, MarketEnvProofs, FiniteSetTheorems

USE DEF Bars, Step, TraceRow, Core, Call

\* What a step of the service is to the environment: one of its own steps, the
\* loss of a trace, or another environment.
EnvironmentStep ==
  \/ [Next]_vars
  \/ LoseTrace
  \/ \E seed \in Seeds, open \in BOOLEAN : Fresh(seed, open)

-----------------------------------------------------------------------------
(***************************************************************************)
(* The process.                                                            *)
(***************************************************************************)
ProcInv ==
  /\ proc \in [up : BOOLEAN, setting : Settings \cup {Nothing}, starts : 0 .. MaxStarts,
               ready : BOOLEAN, loaded : BOOLEAN, asked : Seeds \cup {NoSeed}]
  /\ proc.loaded => /\ proc.up /\ proc.setting \in Settings
                    /\ LoadEngine(proc.setting) # Unparsable
  /\ proc.up => (proc.ready <=> (proc.setting.enabled => proc.loaded))
  /\ Running => proc.loaded

\* An engine that could be built has a seed, and it is the one the settings name.
LEMMA LoadedSeed ==
  ASSUME NEW setting \in Settings, LoadEngine(setting) # Unparsable
  PROVE  /\ LoadEngine(setting) \in Seeds
         /\ setting.env # NoSeed => LoadEngine(setting) = setting.env
         /\ setting.env = NoSeed /\ setting.yaml # NoSeed => LoadEngine(setting) = setting.yaml
         /\ setting.env = NoSeed /\ setting.yaml = NoSeed => LoadEngine(setting) = DefaultSeed
<1>1. setting \in Setting /\ DefaultSeed \in Seeds
  BY HttpAssumption, MarketEnvAssumption
<1>2. setting.yaml \in Seeds \cup {NoSeed, Unparsable} /\ setting.env \in Seeds \cup {NoSeed, Unparsable}
  BY <1>1 DEF Setting, SeedSetting
<1>3. setting.yaml # Unparsable /\ setting.env # Unparsable
  BY DEF LoadEngine, LoadConfig
<1>4. LoadEngine(setting) = IF setting.env = NoSeed
                              THEN IF setting.yaml = NoSeed THEN DefaultSeed ELSE setting.yaml
                              ELSE setting.env
  BY <1>3 DEF LoadEngine, LoadConfig
<1> QED
  BY <1>1, <1>2, <1>3, <1>4

\* What the service does to its environment.
LEMMA ServiceStep ==
  ASSUME ProcInv, [HttpNext]_httpVars
  PROVE  EnvironmentStep
<1>1. ASSUME NEW setting \in Settings, Start(setting) PROVE EnvironmentStep
  <2>1. \/ Fresh(LoadEngine(setting), HasSink) /\ LoadEngine(setting) # Unparsable
        \/ Fresh(DefaultSeed, FALSE)
    BY <1>1 DEF Start, Startup, RuntimeState
  <2> QED
    BY <2>1, LoadedSeed, MarketEnvAssumption DEF EnvironmentStep
<1>2. CASE Shutdown \/ Die
  BY <1>2, MarketEnvAssumption DEF Shutdown, Die, EnvironmentStep
<1>3. CASE \/ Readyz \/ Unavailable \/ Observe
           \/ \E request \in {BadStart, Undecodable} : BadRequest(request)
           \/ UNCHANGED httpVars
  BY <1>3 DEF Readyz, Unavailable, Observe, BadRequest, httpVars, vars, EnvironmentStep
<1>4. ASSUME NEW seed \in Seeds \cup {NoSeed}, NEW start \in Bars, ResetRequest(seed, start)
      PROVE  EnvironmentStep
  <2>1. LoadEngine(proc.setting) \in Seeds
    BY <1>4, LoadedSeed DEF ResetRequest, Serving, ProcInv
  <2>2. Reset(IF seed = NoSeed THEN LoadEngine(proc.setting) ELSE seed, start)
    BY <1>4 DEF ResetRequest
  <2>3. (IF seed = NoSeed THEN LoadEngine(proc.setting) ELSE seed) \in Seeds
    BY <2>1
  <2> QED BY <2>2, <2>3 DEF EnvironmentStep, Next
<1>5. ASSUME NEW rows \in Batches, StepManyRequest(rows) PROVE EnvironmentStep
  BY <1>5 DEF StepManyRequest, EnvironmentStep, Next
<1>6. CASE Handle
  BY <1>6 DEF Handle, ServeRow, RefuseBatch, ReturnBatch, EnvironmentStep, Next, ProcessRow
<1> QED
  BY <1>1, <1>2, <1>3, <1>4, <1>5, <1>6 DEF HttpNext

\* Another environment starts as every environment does.
LEMMA FreshDrawsInv ==
  ASSUME NEW seed \in Seeds, NEW open \in BOOLEAN, Fresh(seed, open)
  PROVE  DrawsInv'
<1>1. /\ core' = [t |-> 0, over |-> FALSE, applied |-> <<>>]
      /\ rng' = [seed |-> seed, pos |-> 0]
      /\ call' = NoBatch /\ sink' = [open |-> open, rows |-> <<>>] /\ spoiled' = FALSE
  BY DEF Fresh, NewCore, NoSteps
<1>2. /\ 0 \in Bars /\ <<>> \in Seq(Step) /\ <<>> \in Seq(TraceRow)
      /\ <<>> \in Seq(BOOLEAN) /\ <<>> \in Seq(Rows)
  BY MarketEnvAssumption
<1>3. call' \in Call
  BY <1>1, <1>2 DEF NoBatch
<1>4. EnvTypeOK'
  BY <1>1, <1>2, <1>3 DEF EnvTypeOK
<1>5. ~Running' /\ Horizon' = 0
  BY <1>1 DEF NoBatch, Running, Horizon
<1> QED
  BY <1>1, <1>4, <1>5 DEF DrawsInv, BatchOwnsDraws, FreshDraws, Unbroken

\* The environment behind the service keeps its draws apart.
LEMMA ServiceKeepsDraws == DrawsInv /\ ProcInv /\ [HttpNext]_httpVars => DrawsInv'
<1> SUFFICES ASSUME DrawsInv, ProcInv, [HttpNext]_httpVars PROVE DrawsInv'
  OBVIOUS
<1>1. EnvironmentStep
  BY ServiceStep
<1>2. CASE LoseTrace
  <2>1. /\ MoreRows /\ spoiled' = TRUE /\ UNCHANGED <<rng, sink>>
        /\ call' = [call EXCEPT !.phase = "raised"]
        /\ UNCHANGED core \/ Advance(Row, DrawOfRow, TRUE)
    BY <1>2 DEF LoseTrace
  <2>2. EnvTypeOK
    BY DEF DrawsInv
  <2>3. core' \in Core
    BY <2>1, <2>2, RowTypes, AdvanceAppends DEF EnvTypeOK
  <2>4. EnvTypeOK'
    BY <2>1, <2>2, <2>3 DEF EnvTypeOK
  <2> QED
    BY <2>1, <2>4, RaiseKeepsDraws
<1> QED
  BY <1>1, <1>2, DrawsStep, FreshDrawsInv DEF EnvironmentStep

\* Whatever runs, starts, stops or dies, the process is ready when it can serve
\* what its settings ask for, and only a process with an engine serves.
LEMMA ProcInvStep == ProcInv /\ EnvTypeOK /\ [HttpNext]_httpVars => ProcInv'
<1> SUFFICES ASSUME ProcInv, EnvTypeOK, [HttpNext]_httpVars PROVE ProcInv'
  OBVIOUS
<1> DEFINE Shape == [up : BOOLEAN, setting : Settings \cup {Nothing}, starts : 0 .. MaxStarts,
                     ready : BOOLEAN, loaded : BOOLEAN, asked : Seeds \cup {NoSeed}]
<1>0. proc \in Shape /\ call \in Call
  BY DEF ProcInv, EnvTypeOK
<1>1. ASSUME NEW setting \in Settings, Start(setting) PROVE ProcInv'
  <2> DEFINE loaded == setting.enabled /\ LoadEngine(setting) # Unparsable
  <2>1. /\ proc' = [up |-> TRUE, setting |-> setting, starts |-> proc.starts + 1,
                    ready |-> (setting.enabled => loaded), loaded |-> loaded,
                    asked |-> NoSeed]
        /\ proc.starts < MaxStarts
    BY <1>1 DEF Start, Startup, RuntimeState
  <2>2. ~Running'
    BY <1>1 DEF Start, Fresh, NoBatch, Running
  <2>3. proc.starts + 1 \in 0 .. MaxStarts
    BY <1>0, <2>1, HttpAssumption
  <2>4. loaded => LoadEngine(setting) # Unparsable
    OBVIOUS
  <2>5. loaded \in BOOLEAN /\ (setting.enabled => loaded) \in BOOLEAN
    OBVIOUS
  <2> HIDE DEF loaded
  <2>6. proc' \in Shape
    BY <2>1, <2>3, <2>5
  <2>7. /\ proc'.loaded = loaded /\ proc'.ready = (setting.enabled => loaded)
        /\ proc'.setting = setting /\ proc'.up = TRUE
    BY <2>1
  <2> QED
    BY <2>2, <2>4, <2>6, <2>7, Zenon DEF ProcInv
<1>2. CASE Shutdown \/ Die
  <2>1. proc' = RuntimeState(Nothing, proc.starts, FALSE, FALSE, FALSE) /\ call' = NoBatch
    BY <1>2 DEF Shutdown, Die, Stopped, Fresh
  <2>2. proc' \in Shape /\ ~proc'.up /\ ~proc'.loaded
    BY <1>0, <2>1 DEF RuntimeState
  <2>3. ~Running'
    BY <2>1 DEF NoBatch, Running
  <2> QED
    BY <2>2, <2>3 DEF ProcInv
<1>3. CASE \/ Readyz \/ Unavailable \/ Observe
           \/ \E request \in {BadStart, Undecodable} : BadRequest(request)
           \/ UNCHANGED httpVars
  <2>1. proc' = proc /\ call' = call
    BY <1>3 DEF Readyz, Unavailable, Observe, BadRequest, httpVars, vars
  <2> QED
    BY <2>1 DEF ProcInv, Running
<1>4. ASSUME NEW seed \in Seeds \cup {NoSeed}, NEW start \in Bars, ResetRequest(seed, start)
      PROVE  ProcInv'
  <2>1. proc' = [proc EXCEPT !.asked = seed] /\ call' = NoBatch
    BY <1>4 DEF ResetRequest, Reset
  <2>2. ~Running'
    BY <2>1 DEF NoBatch, Running
  <2>3. /\ proc' \in Shape /\ proc'.up = proc.up /\ proc'.setting = proc.setting
        /\ proc'.loaded = proc.loaded /\ proc'.ready = proc.ready
    BY <1>0, <2>1
  <2> QED
    BY <2>2, <2>3 DEF ProcInv
<1>5. ASSUME NEW rows \in Batches, StepManyRequest(rows) PROVE ProcInv'
  <2>1. proc' = proc /\ proc.loaded
    BY <1>5 DEF StepManyRequest, Serving
  <2> QED
    BY <2>1 DEF ProcInv
<1>6. CASE Handle
  <2>1. proc' = proc /\ Running
    BY <1>6 DEF Handle, ServeRow, RefuseBatch, LoseTrace, ReturnBatch,
                RowAccepted, RowAfterEnd, RowRefused, Return, MoreRows
  <2> QED
    BY <2>1 DEF ProcInv
<1> QED
  BY <1>1, <1>2, <1>3, <1>4, <1>5, <1>6 DEF HttpNext

ServiceInv == DrawsInv /\ ProcInv

\* The service and the environment behind it, from the first start on.
LEMMA ServiceInvariant == HttpSpec => []ServiceInv
<1>1. HttpInit => ServiceInv
  <2> SUFFICES ASSUME HttpInit PROVE ServiceInv
    OBVIOUS
  <2>1. /\ core = [t |-> 0, over |-> FALSE, applied |-> <<>>]
        /\ rng = [seed |-> DefaultSeed, pos |-> 0]
        /\ call = NoBatch /\ sink = [open |-> FALSE, rows |-> <<>>] /\ spoiled = FALSE
    BY DEF HttpInit, NewCore, NoSteps
  <2>2. /\ 0 \in Bars /\ <<>> \in Seq(Step) /\ <<>> \in Seq(TraceRow)
        /\ <<>> \in Seq(BOOLEAN) /\ <<>> \in Seq(Rows)
    BY MarketEnvAssumption
  <2>3. call \in Call
    BY <2>1, <2>2 DEF NoBatch
  <2>4. EnvTypeOK
    BY <2>1, <2>2, <2>3, MarketEnvAssumption DEF EnvTypeOK
  <2>5. ~Running /\ Horizon = 0
    BY <2>1 DEF NoBatch, Running, Horizon
  <2>6. DrawsInv
    BY <2>1, <2>4, <2>5 DEF DrawsInv, BatchOwnsDraws, FreshDraws, Unbroken
  <2>7. proc = RuntimeState(Nothing, 0, FALSE, FALSE, FALSE)
    BY DEF HttpInit
  <2> QED
    BY <2>5, <2>6, <2>7, HttpAssumption DEF ServiceInv, ProcInv, RuntimeState
<1>2. ServiceInv /\ [HttpNext]_httpVars => ServiceInv'
  <2>1. DrawsInv => EnvTypeOK
    BY DEF DrawsInv
  <2> QED
    BY <2>1, ServiceKeepsDraws, ProcInvStep DEF ServiceInv
<1> QED
  BY <1>1, <1>2, PTL DEF HttpSpec

\* ReadyIsServed: whatever a process finds when it starts, a client that has
\* found it ready is served, and one that has not is told so.
THEOREM ReadyIsServedHolds == HttpSpec => ReadyIsServed
<1>1. ProcInv /\ [HttpNext]_httpVars =>
        [answer'.to = "engine" /\ answer' # answer /\ proc'.setting.enabled =>
           (answer'.status = 503 <=> ~proc.ready)]_httpVars
  <2> SUFFICES ASSUME ProcInv, HttpNext, answer'.to = "engine", answer' # answer,
                      proc'.setting.enabled
               PROVE  answer'.status = 503 <=> ~proc.ready
    OBVIOUS
  <2>1. ASSUME proc.loaded PROVE proc.ready
    BY <2>1 DEF ProcInv
  <2>2. CASE (\E setting \in Settings : Start(setting)) \/ Shutdown \/ Die \/ Readyz
    <3>1. answer' = NoAnswer \/ Readyz
      BY <2>2 DEF Start, Shutdown, Die
    <3>2. answer'.to # "engine"
      BY <3>1 DEF NoAnswer, Readyz, Respond
    <3> QED BY <3>2
  <2>3. CASE Unavailable
    <3>1. proc.up /\ ~proc.loaded /\ proc' = proc /\ answer'.status = 503
      BY <2>3 DEF Unavailable, Listening, Respond
    <3>2. ~proc.ready
      BY <3>1 DEF ProcInv
    <3> QED BY <3>1, <3>2
  <2>4. CASE \/ Observe \/ \E request \in {BadStart, Undecodable} : BadRequest(request)
             \/ \E seed \in Seeds \cup {NoSeed}, start \in Bars : ResetRequest(seed, start)
    <3>1. proc.loaded /\ answer'.status # 503
      BY <2>4 DEF Observe, BadRequest, ResetRequest, Serving, Respond
    <3> QED BY <2>1, <3>1
  <2>5. CASE \E rows \in Batches : StepManyRequest(rows)
    BY <2>5 DEF StepManyRequest, NoAnswer
  <2>6. CASE Handle
    <3>1. Running
      BY <2>6 DEF Handle, ServeRow, RefuseBatch, LoseTrace, ReturnBatch,
                  RowAccepted, RowAfterEnd, RowRefused, Return, MoreRows
    <3>2. proc.loaded
      BY <3>1 DEF ProcInv
    <3>3. answer'.status # 503
      <4>1. CASE ServeRow
        BY <4>1 DEF ServeRow
      <4>2. CASE RefuseBatch
        BY <4>2 DEF RefuseBatch, Respond
      <4>3. CASE LoseTrace
        BY <4>3 DEF LoseTrace, Respond
      <4>4. CASE ReturnBatch
        BY <4>4 DEF ReturnBatch, Respond
      <4> QED
        BY <2>6, <4>1, <4>2, <4>3, <4>4 DEF Handle
    <3> QED BY <2>1, <3>2, <3>3
  <2> QED
    BY <2>2, <2>3, <2>4, <2>5, <2>6 DEF HttpNext
<1>2. HttpSpec => []ProcInv
  <2>1. ServiceInv => ProcInv
    BY DEF ServiceInv
  <2> QED BY <2>1, ServiceInvariant, PTL
<1> QED
  BY <1>1, <1>2, PTL DEF HttpSpec, ReadyIsServed

-----------------------------------------------------------------------------
(***************************************************************************)
(* The seed.  A reset that names none goes back to the settings', which do *)
(* not change while the process lives.                                     *)
(***************************************************************************)
SeedInv ==
  proc.loaded =>
    rng.seed = (IF proc.asked = NoSeed THEN LoadEngine(proc.setting) ELSE proc.asked)

\* Every step keeps the stream the one that was asked for.
LEMMA SeedInvStep == ServiceInv /\ SeedInv /\ [HttpNext]_httpVars => SeedInv'
<1> SUFFICES ASSUME ServiceInv, SeedInv, [HttpNext]_httpVars PROVE SeedInv'
  OBVIOUS
<1>0. rng \in [seed : Seeds, pos : Nat] /\ ProcInv
  BY DEF ServiceInv, DrawsInv, EnvTypeOK
<1>1. ASSUME NEW setting \in Settings, Start(setting) PROVE SeedInv'
  <2>1. /\ proc'.setting = setting /\ proc'.asked = NoSeed
        /\ proc'.loaded => rng'.seed = LoadEngine(setting)
    BY <1>1 DEF Start, Startup, RuntimeState, Fresh
  <2> QED
    BY <2>1 DEF SeedInv
<1>2. CASE Shutdown \/ Die
  <2>1. proc' = Stopped
    BY <1>2 DEF Shutdown, Die
  <2>2. ~proc'.loaded
    BY <2>1 DEF Stopped, RuntimeState
  <2> QED
    BY <2>2 DEF SeedInv
<1>3. CASE \/ Readyz \/ Unavailable \/ Observe
           \/ \E request \in {BadStart, Undecodable} : BadRequest(request)
           \/ UNCHANGED httpVars
  <2>1. proc' = proc /\ rng' = rng
    BY <1>3 DEF Readyz, Unavailable, Observe, BadRequest, httpVars, vars
  <2> QED
    BY <2>1 DEF SeedInv
<1>4. ASSUME NEW seed \in Seeds \cup {NoSeed}, NEW start \in Bars, ResetRequest(seed, start)
      PROVE  SeedInv'
  <2>1. /\ proc' = [proc EXCEPT !.asked = seed]
        /\ rng'.seed = (IF seed = NoSeed THEN LoadEngine(proc.setting) ELSE seed)
    BY <1>4 DEF ResetRequest, Reset
  <2>2. proc'.asked = seed /\ proc'.setting = proc.setting
    BY <1>0, <2>1 DEF ProcInv
  <2> QED
    BY <2>1, <2>2 DEF SeedInv
<1>5. ASSUME NEW rows \in Batches, StepManyRequest(rows) PROVE SeedInv'
  <2>1. proc' = proc /\ rng' = [rng EXCEPT !.pos = @ + Len(rows)]
    BY <1>5 DEF StepManyRequest, StepMany, Take
  <2>2. rng'.seed = rng.seed
    BY <1>0, <2>1
  <2> QED
    BY <2>1, <2>2 DEF SeedInv
<1>6. CASE Handle
  <2>1. proc' = proc /\ rng' = rng
    BY <1>6 DEF Handle, ServeRow, RefuseBatch, LoseTrace, ReturnBatch,
                RowAccepted, RowAfterEnd, RowRefused, Return
  <2> QED
    BY <2>1 DEF SeedInv
<1> QED
  BY <1>1, <1>2, <1>3, <1>4, <1>5, <1>6 DEF HttpNext

\* EpisodeIsReproducible: in any process, for any settings, and however it is
\* cut into calls, an episode draws from the beginning of the stream of the
\* seed it was asked for, or of the one the settings name.
THEOREM EpisodeIsReproducibleHolds == HttpSpec => []EpisodeIsReproducible
<1>1. HttpInit => SeedInv
  BY DEF HttpInit, RuntimeState, SeedInv
<1>2. ServiceInv /\ SeedInv => EpisodeIsReproducible
  <2> SUFFICES ASSUME ServiceInv, SeedInv, proc.loaded, ~spoiled
               PROVE  /\ rng.seed = (IF proc.asked = NoSeed THEN Configured ELSE proc.asked)
                      /\ \A j \in 1 .. Len(core.applied) : core.applied[j].draw = j - 1
    BY DEF EpisodeIsReproducible
  <2>1. proc.setting \in Settings /\ LoadEngine(proc.setting) # Unparsable
    BY DEF ServiceInv, ProcInv
  <2>2. Configured = LoadEngine(proc.setting)
    BY <2>1, LoadedSeed DEF Configured
  <2>3. \A j \in 1 .. Len(core.applied) : core.applied[j].draw = j - 1
    BY DEF ServiceInv, DrawsInv, Unbroken
  <2> QED
    BY <2>2, <2>3 DEF SeedInv
<1> QED
  BY <1>1, <1>2, SeedInvStep, ServiceInvariant, PTL DEF HttpSpec

-----------------------------------------------------------------------------
(***************************************************************************)
(* The trace file.  Its rows are numbered without gaps, a line that lacks  *)
(* its end is the last one, and a line that has its end never changes.  A  *)
(* row whose writing was not cut short is therefore the end of its line    *)
(* for good, and the rows a cut may hide are the ends of the lines that    *)
(* were cut.                                                               *)
(***************************************************************************)
FileLine == [rows : Seq(Nat), ended : BOOLEAN]
First(line) == line.rows[1]
Latest(line) == line.rows[Len(line.rows)]

Consecutive(line) ==
  /\ Len(line.rows) >= 1
  /\ \A k \in 1 .. Len(line.rows) : line.rows[k] = First(line) + k - 1

FileOK(f) ==
  /\ f \in Seq(FileLine)
  /\ \A i \in 1 .. Len(f) : Consecutive(f[i])
  /\ \A i, j \in 1 .. Len(f) :
       i < j => f[i].ended /\ First(f[i]) + Len(f[i].rows) <= First(f[j])

EndIn(f, row) == \E i \in 1 .. Len(f) : f[i].ended /\ Latest(f[i]) = row
TornLines(f) == {i \in 1 .. Len(f) : ~f[i].ended \/ Len(f[i].rows) >= 2}

\* The numbers at the two ends of a line.
LEMMA LineShape ==
  ASSUME NEW line \in FileLine, Consecutive(line)
  PROVE  /\ line.rows \in Seq(Nat) /\ Len(line.rows) \in Nat /\ Len(line.rows) >= 1
         /\ First(line) \in Nat /\ Latest(line) \in Nat
         /\ Latest(line) = First(line) + Len(line.rows) - 1
<1> DEFINE n == Len(line.rows)
<1>1. line.rows \in Seq(Nat) /\ n \in Nat /\ n >= 1
  BY DEF FileLine, Consecutive
<1>2. 1 \in 1 .. n /\ n \in 1 .. n
  BY <1>1
<1>3. line.rows[1] \in Nat /\ line.rows[n] \in Nat
  BY <1>1, <1>2
<1>4. line.rows[n] = First(line) + n - 1
  BY <1>2 DEF Consecutive
<1> QED
  BY <1>1, <1>3, <1>4 DEF First, Latest

\* A row goes onto a line.
LEMMA LineGrows ==
  ASSUME NEW line \in FileLine, Consecutive(line), NEW ended \in BOOLEAN, NEW row,
         row = Latest(line) + 1
  PROVE  LET grown == Line(Append(line.rows, row), ended)
         IN  /\ grown \in FileLine /\ Consecutive(grown) /\ Latest(grown) = row
             /\ First(grown) = First(line) /\ grown.ended = ended
             /\ Len(grown.rows) = Len(line.rows) + 1
<1> DEFINE n == Len(line.rows)
           rows == Append(line.rows, row)
<1>1. /\ line.rows \in Seq(Nat) /\ n \in Nat /\ n >= 1 /\ First(line) \in Nat
      /\ Latest(line) = First(line) + n - 1 /\ row \in Nat /\ row = First(line) + n
  BY LineShape
<1>2. /\ rows \in Seq(Nat) /\ Len(rows) = n + 1 /\ rows[n + 1] = row
      /\ \A k \in 1 .. n : rows[k] = line.rows[k]
  BY <1>1
<1> HIDE DEF rows
<1>3. rows[1] = First(line)
  BY <1>1, <1>2 DEF First
<1>4. ASSUME NEW k \in 1 .. Len(rows) PROVE rows[k] = rows[1] + k - 1
  <2>1. CASE k \in 1 .. n
    BY <1>1, <1>2, <1>3, <2>1 DEF Consecutive
  <2>2. CASE k = n + 1
    BY <1>1, <1>2, <1>3, <2>2
  <2> QED BY <1>1, <1>2, <2>1, <2>2
<1>5. Line(rows, ended) = [rows |-> rows, ended |-> ended]
  BY DEF Line
<1>6. /\ Line(rows, ended) \in FileLine
      /\ Line(rows, ended).rows = rows /\ Line(rows, ended).ended = ended
  BY <1>2, <1>5 DEF FileLine
<1>7. Consecutive(Line(rows, ended)) /\ First(Line(rows, ended)) = First(line)
  <2>1. First(Line(rows, ended)) = rows[1]
    BY <1>6 DEF First
  <2>2. Len(rows) >= 1
    BY <1>1, <1>2
  <2>3. \A k \in 1 .. Len(rows) : rows[k] = First(Line(rows, ended)) + k - 1
    BY <1>4, <2>1
  <2>4. Consecutive(Line(rows, ended))
    BY <1>6, <2>2, <2>3 DEF Consecutive
  <2> QED
    BY <1>3, <2>1, <2>4
<1>8. Latest(Line(rows, ended)) = row /\ Len(Line(rows, ended).rows) = n + 1
  BY <1>2, <1>6 DEF Latest
<1> QED
  BY <1>6, <1>7, <1>8 DEF rows

\* A row begins a line.
LEMMA LineBegins ==
  ASSUME NEW ended \in BOOLEAN, NEW row \in Nat
  PROVE  LET new == Line(<<row>>, ended)
         IN  /\ new \in FileLine /\ Consecutive(new) /\ Latest(new) = row
             /\ First(new) = row /\ new.ended = ended /\ Len(new.rows) = 1
<1>1. <<row>> \in Seq(Nat) /\ Len(<<row>>) = 1 /\ <<row>>[1] = row
  OBVIOUS
<1>2. Line(<<row>>, ended) = [rows |-> <<row>>, ended |-> ended]
  BY DEF Line
<1> QED
  BY <1>1, <1>2 DEF FileLine, Consecutive, First, Latest

\* One more row, all of it or its beginning: the file stays what it was, the
\* ends of its lines stay ends, and only a cut makes another line torn.
LEMMA AppendedFile ==
  ASSUME FileOK(file), NEW ended \in BOOLEAN
  PROVE  LET new == Appended(ended)
         IN  /\ FileOK(new)
             /\ Written \in Nat /\ new # <<>> /\ Latest(new[Len(new)]) = Written + 1
             /\ \A row : EndIn(file, row) => EndIn(new, row)
             /\ ended => EndIn(new, Written + 1)
             /\ TornLines(new) \subseteq TornLines(file) \cup (IF ended THEN {} ELSE {Len(new)})
<1> DEFINE new == Appended(ended)
           n == Len(file)
<1>1. file \in Seq(FileLine) /\ n \in Nat /\ \A i \in 1 .. n : file[i] \in FileLine
  BY DEF FileOK
<1>2. CASE file # <<>> /\ ~LastLine.ended
  <2>1. n \in 1 .. n /\ LastLine = file[n] /\ ~file[n].ended
    BY <1>1, <1>2 DEF LastLine
  <2>2. Written = Latest(file[n])
    BY <1>2, <2>1 DEF Written, Latest
  <2> DEFINE grown == Line(Append(file[n].rows, Written + 1), ended)
  <2>3. /\ grown \in FileLine /\ Consecutive(grown) /\ Latest(grown) = Written + 1
        /\ First(grown) = First(file[n]) /\ grown.ended = ended
        /\ Len(grown.rows) = Len(file[n].rows) + 1
    BY <1>1, <2>1, <2>2, LineGrows DEF FileOK
  <2>4. Written \in Nat
    BY <1>1, <2>1, <2>2, LineShape DEF FileOK
  <2>5. new = [file EXCEPT ![n] = grown]
    BY <1>2 DEF Appended
  <2> HIDE DEF grown, new
  <2>6. /\ new \in Seq(FileLine) /\ Len(new) = n /\ new[n] = grown
        /\ \A i \in 1 .. n : i # n => new[i] = file[i]
    BY <1>1, <2>1, <2>3, <2>5
  <2>7. \A i \in 1 .. n : First(new[i]) = First(file[i])
    BY <2>3, <2>6
  <2>8. FileOK(new)
    <3>1. ASSUME NEW i \in 1 .. n PROVE Consecutive(new[i])
      BY <2>3, <2>6 DEF FileOK
    <3>2. ASSUME NEW i \in 1 .. n, NEW j \in 1 .. n, i < j
          PROVE  new[i].ended /\ First(new[i]) + Len(new[i].rows) <= First(new[j])
      <4>1. new[i] = file[i]
        BY <1>1, <2>6, <3>2
      <4>2. file[i].ended /\ First(file[i]) + Len(file[i].rows) <= First(file[j])
        BY <3>2 DEF FileOK
      <4> QED BY <2>7, <4>1, <4>2
    <3> QED BY <2>6, <3>1, <3>2 DEF FileOK
  <2>9. ASSUME NEW row, EndIn(file, row) PROVE EndIn(new, row)
    <3>1. PICK i \in 1 .. n : file[i].ended /\ Latest(file[i]) = row
      BY <2>9 DEF EndIn
    <3>2. new[i] = file[i]
      BY <2>1, <2>6, <3>1
    <3> QED BY <2>6, <3>1, <3>2 DEF EndIn
  <2>10. ended => EndIn(new, Written + 1)
    BY <2>1, <2>3, <2>6 DEF EndIn
  <2>11. TornLines(new) \subseteq TornLines(file)
    BY <2>1, <2>6 DEF TornLines
  <2>12. new # <<>> /\ Latest(new[Len(new)]) = Written + 1
    BY <2>1, <2>3, <2>6
  <2> QED
    BY <2>4, <2>8, <2>9, <2>10, <2>11, <2>12 DEF new
<1>3. CASE ~(file # <<>> /\ ~LastLine.ended)
  <2> DEFINE line == Line(<<Written + 1>>, ended)
  <2>1. /\ Written \in Nat
        /\ n > 0 => n \in 1 .. n /\ file[n].ended /\ Written = Latest(file[n])
    <3>1. CASE file = <<>>
      BY <3>1 DEF Written
    <3>2. CASE file # <<>>
      <4>1. n \in 1 .. n /\ LastLine = file[n]
        BY <1>1, <3>2 DEF LastLine
      <4>2. Written = Latest(file[n]) /\ file[n].ended
        BY <1>3, <3>2, <4>1 DEF Written, Latest
      <4>3. Latest(file[n]) \in Nat
        BY <1>1, <4>1, LineShape DEF FileOK
      <4> QED BY <4>1, <4>2, <4>3
    <3> QED BY <3>1, <3>2
  <2>2. /\ line \in FileLine /\ Consecutive(line) /\ Latest(line) = Written + 1
        /\ First(line) = Written + 1 /\ line.ended = ended /\ Len(line.rows) = 1
    BY <2>1, LineBegins
  <2>3. new = Append(file, line)
    BY <1>3 DEF Appended
  <2> HIDE DEF line, new
  <2>4. /\ new \in Seq(FileLine) /\ Len(new) = n + 1 /\ new[n + 1] = line
        /\ \A i \in 1 .. n : new[i] = file[i]
    BY <1>1, <2>2, <2>3
  <2>5. ASSUME NEW i \in 1 .. n
        PROVE  file[i].ended /\ First(file[i]) + Len(file[i].rows) <= First(line)
    <3>1. n \in 1 .. n /\ file[n].ended /\ Written = Latest(file[n])
      BY <1>1, <2>1
    <3>2. /\ First(file[n]) \in Nat /\ Len(file[n].rows) \in Nat
          /\ Latest(file[n]) = First(file[n]) + Len(file[n].rows) - 1
      BY <1>1, <3>1, LineShape DEF FileOK
    <3>3. First(file[n]) + Len(file[n].rows) = First(line)
      BY <2>2, <3>1, <3>2
    <3>4. CASE i = n
      BY <3>1, <3>2, <3>3, <3>4
    <3>5. CASE i # n
      <4>1. i < n
        BY <1>1, <3>5
      <4>2. file[i].ended /\ First(file[i]) + Len(file[i].rows) <= First(file[n])
        BY <3>1, <4>1 DEF FileOK
      <4>3. First(file[i]) + Len(file[i].rows) \in Int
        BY <1>1, LineShape DEF FileOK
      <4> QED BY <3>2, <3>3, <4>2, <4>3
    <3> QED BY <3>4, <3>5
  <2>6. FileOK(new)
    <3>1. ASSUME NEW i \in 1 .. n + 1 PROVE Consecutive(new[i])
      BY <1>1, <2>2, <2>4 DEF FileOK
    <3>2. ASSUME NEW i \in 1 .. n + 1, NEW j \in 1 .. n + 1, i < j
          PROVE  new[i].ended /\ First(new[i]) + Len(new[i].rows) <= First(new[j])
      <4>1. i \in 1 .. n /\ new[i] = file[i]
        BY <1>1, <2>4, <3>2
      <4>2. CASE j = n + 1
        BY <2>4, <2>5, <4>1, <4>2
      <4>3. CASE j # n + 1
        <5>1. j \in 1 .. n /\ new[j] = file[j]
          BY <1>1, <2>4, <4>3
        <5> QED BY <3>2, <4>1, <5>1 DEF FileOK
      <4> QED BY <4>2, <4>3
    <3> QED BY <2>4, <3>1, <3>2 DEF FileOK
  <2>7. ASSUME NEW row, EndIn(file, row) PROVE EndIn(new, row)
    <3>1. PICK i \in 1 .. n : file[i].ended /\ Latest(file[i]) = row
      BY <2>7 DEF EndIn
    <3>2. i \in 1 .. Len(new) /\ new[i] = file[i]
      BY <1>1, <2>4
    <3> QED BY <3>1, <3>2 DEF EndIn
  <2>8. n + 1 \in 1 .. Len(new) /\ Latest(new[n + 1]) = Written + 1 /\ new[n + 1].ended = ended
    BY <1>1, <2>2, <2>4
  <2>9. ended => EndIn(new, Written + 1)
    BY <2>8 DEF EndIn
  <2>10. ASSUME NEW i \in TornLines(new)
         PROVE  i \in TornLines(file) \cup (IF ended THEN {} ELSE {Len(new)})
    <3>1. CASE i \in 1 .. n
      BY <2>4, <3>1 DEF TornLines
    <3>2. CASE i = n + 1
      <4>1. ~new[i].ended \/ Len(new[i].rows) >= 2
        BY DEF TornLines
      <4>2. new[i].ended = ended /\ Len(new[i].rows) = 1 /\ Len(new) = i
        BY <2>2, <2>4, <3>2
      <4> QED BY <4>1, <4>2
    <3> QED BY <1>1, <2>4, <3>1, <3>2 DEF TornLines
  <2>11. new # <<>>
    BY <1>1, <2>4
  <2> QED
    BY <2>1, <2>4, <2>6, <2>7, <2>8, <2>9, <2>10, <2>11 DEF new
<1> QED BY <1>2, <1>3

\* Of two lines, the earlier has the smaller numbers.
LEMMA LinesApart ==
  ASSUME NEW f, FileOK(f), NEW i \in 1 .. Len(f), NEW j \in 1 .. Len(f), i < j
  PROVE  Latest(f[i]) < First(f[j]) /\ Latest(f[i]) < Latest(f[j])
<1>1. f[i] \in FileLine /\ f[j] \in FileLine /\ Consecutive(f[i]) /\ Consecutive(f[j])
  BY DEF FileOK
<1>2. First(f[i]) + Len(f[i].rows) <= First(f[j])
  BY DEF FileOK
<1>3. /\ Len(f[i].rows) \in Nat /\ First(f[i]) \in Nat
      /\ Latest(f[i]) = First(f[i]) + Len(f[i].rows) - 1
  BY <1>1, LineShape
<1>4. /\ Len(f[j].rows) \in Nat /\ Len(f[j].rows) >= 1 /\ First(f[j]) \in Nat
      /\ Latest(f[j]) = First(f[j]) + Len(f[j].rows) - 1
  BY <1>1, LineShape
<1> QED
  BY <1>2, <1>3, <1>4

\* The file and what was promised of it.
TracePromise ==
  /\ FileOK(file)
  /\ \A row \in told : EndIn(file, row)
  /\ tears \in Nat /\ Cardinality(TornLines(file)) <= tears

\* The rows the running batch has written so far.
RowsSoFar == Written - Len(call.dones) + 1 .. Written
BatchTraced == Running /\ sink.open => \A row \in RowsSoFar : EndIn(file, row)

TraceInv == TracePromise /\ BatchTraced

LEMMA NoMoreThan ==
  ASSUME NEW a \in Nat, NEW b \in Nat, NEW c \in Nat, a <= b, b <= c
  PROVE  a <= c
OBVIOUS

\* One more row, and one more tear if it is cut.
LEMMA FileGrows ==
  ASSUME TracePromise, NEW ended \in BOOLEAN, file' = Appended(ended),
         tears' = IF ended THEN tears ELSE tears + 1
  PROVE  /\ FileOK(file)' /\ tears' \in Nat /\ Cardinality(TornLines(file))' <= tears'
         /\ Written \in Nat /\ Written' = Written + 1
         /\ \A row : EndIn(file, row) => EndIn(file', row)
         /\ ended => EndIn(file', Written + 1)
<1>1. /\ FileOK(file') /\ Written \in Nat /\ file' # <<>>
      /\ Latest(file'[Len(file')]) = Written + 1
      /\ \A row : EndIn(file, row) => EndIn(file', row)
      /\ ended => EndIn(file', Written + 1)
      /\ TornLines(file') \subseteq TornLines(file) \cup (IF ended THEN {} ELSE {Len(file')})
  BY AppendedFile DEF TracePromise
<1>2. Written' = Written + 1
  BY <1>1 DEF Written, LastLine, Latest
<1>3. tears \in Nat /\ tears' \in Nat
  BY DEF TracePromise
<1>4. /\ IsFiniteSet(TornLines(file)) /\ Cardinality(TornLines(file)) \in Nat
      /\ Cardinality(TornLines(file)) <= tears
  <2>1. Len(file) \in Nat
    BY DEF TracePromise, FileOK
  <2>2. IsFiniteSet(1 .. Len(file))
    BY <2>1, FS_Interval
  <2>3. TornLines(file) \subseteq 1 .. Len(file)
    BY DEF TornLines
  <2>4. IsFiniteSet(TornLines(file))
    BY <2>2, <2>3, FS_Subset
  <2> QED BY <2>4, FS_CardinalityType DEF TracePromise
<1>5. CASE ended
  <2>1. TornLines(file') \subseteq TornLines(file)
    BY <1>1, <1>5
  <2>2. Cardinality(TornLines(file')) \in Nat /\ Cardinality(TornLines(file')) <= Cardinality(TornLines(file))
    BY <1>4, <2>1, FS_Subset, FS_CardinalityType
  <2>3. Cardinality(TornLines(file')) <= tears
    BY <1>3, <1>4, <2>2, NoMoreThan
  <2>4. tears' = tears
    BY <1>5
  <2> QED BY <1>1, <1>2, <1>3, <2>3, <2>4
<1>6. CASE ~ended
  <2> DEFINE more == TornLines(file) \cup {Len(file')}
  <2>1. TornLines(file') \subseteq more
    BY <1>1, <1>6
  <2>2. /\ IsFiniteSet(more)
        /\ \/ Cardinality(more) = Cardinality(TornLines(file))
           \/ Cardinality(more) = Cardinality(TornLines(file)) + 1
    <3>1. /\ IsFiniteSet(more)
          /\ Cardinality(more) = IF Len(file') \in TornLines(file) THEN Cardinality(TornLines(file))
                                 ELSE Cardinality(TornLines(file)) + 1
      BY <1>4, FS_AddElement
    <3> QED BY <3>1
  <2>3. Cardinality(TornLines(file')) \in Nat /\ Cardinality(more) \in Nat
        /\ Cardinality(TornLines(file')) <= Cardinality(more)
    BY <2>1, <2>2, FS_Subset, FS_CardinalityType
  <2>4. tears' = tears + 1
    BY <1>6
  <2>5. Cardinality(more) <= tears'
    BY <1>3, <1>4, <2>2, <2>4
  <2>6. Cardinality(TornLines(file')) <= tears'
    BY <1>3, <2>3, <2>5, NoMoreThan
  <2> QED BY <1>1, <1>2, <1>3, <1>6, <2>6
<1> QED BY <1>5, <1>6

\* What was written before a batch began, and what is written while it runs,
\* stays readable for as long as there is a file.
LEMMA TraceInvStep == ServiceInv /\ TraceInv /\ [HttpNext]_httpVars => TraceInv'
<1> SUFFICES ASSUME ServiceInv, TraceInv, [HttpNext]_httpVars PROVE TraceInv'
  OBVIOUS
<1>0. /\ TracePromise /\ BatchTraced /\ EnvTypeOK /\ BatchOwnsDraws /\ call \in Call
      /\ Written \in Nat /\ sink.open \in BOOLEAN
  <2>1. Written \in Nat
    BY AppendedFile DEF TraceInv, TracePromise
  <2> QED BY <2>1 DEF TraceInv, ServiceInv, DrawsInv, EnvTypeOK
<1>still. ASSUME UNCHANGED <<file, told, tears>> PROVE TracePromise'
  <2>1. FileOK(file') /\ tears' \in Nat
    BY <1>0, <1>still DEF TracePromise
  <2>2. \A row \in told' : EndIn(file', row)
    BY <1>0, <1>still DEF TracePromise
  <2>3. Cardinality(TornLines(file')) <= tears'
    BY <1>0, <1>still DEF TracePromise
  <2> QED BY <2>1, <2>2, <2>3 DEF TracePromise
<1>torn. ASSUME file' = Appended(FALSE), tears' = tears + 1, told' = told PROVE TracePromise'
  <2>1. /\ FileOK(file)' /\ tears' \in Nat /\ Cardinality(TornLines(file))' <= tears'
        /\ \A row : EndIn(file, row) => EndIn(file', row)
    BY <1>0, <1>torn, FileGrows
  <2>2. \A row \in told' : EndIn(file', row)
    BY <1>0, <1>torn, <2>1 DEF TracePromise
  <2> QED BY <2>1, <2>2 DEF TracePromise
<1>idle. ASSUME ~Running' PROVE BatchTraced'
  BY <1>idle DEF BatchTraced
<1>1. ASSUME NEW setting \in Settings, Start(setting) PROVE TraceInv'
  <2>1. UNCHANGED <<file, told, tears>> /\ call' = NoBatch
    BY <1>1 DEF Start, Opened, Fresh
  <2>2. ~Running'
    BY <2>1 DEF NoBatch, Running
  <2> QED
    BY <1>still, <1>idle, <2>1, <2>2 DEF TraceInv
<1>2. CASE Shutdown \/ Die
  <2>1. /\ call' = NoBatch
        /\ \/ UNCHANGED <<file, told, tears>>
           \/ file' = Appended(FALSE) /\ tears' = tears + 1 /\ told' = told
    BY <1>2 DEF Shutdown, Die, Fresh
  <2>2. ~Running'
    BY <2>1 DEF NoBatch, Running
  <2> QED
    BY <1>still, <1>torn, <1>idle, <2>1, <2>2 DEF TraceInv
<1>3. CASE \/ Readyz \/ Unavailable \/ Observe
           \/ \E request \in {BadStart, Undecodable} : BadRequest(request)
           \/ UNCHANGED httpVars
  <2>1. UNCHANGED <<file, told, tears>> /\ call' = call /\ sink' = sink
    BY <1>3 DEF Readyz, Unavailable, Observe, BadRequest, httpVars, vars
  <2>2. BatchTraced'
    BY <1>0, <2>1 DEF BatchTraced, RowsSoFar, Running, Written, LastLine
  <2> QED
    BY <1>still, <2>1, <2>2 DEF TraceInv
<1>4. ASSUME NEW seed \in Seeds \cup {NoSeed}, NEW start \in Bars, ResetRequest(seed, start)
      PROVE  TraceInv'
  <2>1. UNCHANGED <<file, told, tears>> /\ call' = NoBatch
    BY <1>4 DEF ResetRequest, Reset
  <2>2. ~Running'
    BY <2>1 DEF NoBatch, Running
  <2> QED
    BY <1>still, <1>idle, <2>1, <2>2 DEF TraceInv
<1>5. ASSUME NEW rows \in Batches, StepManyRequest(rows) PROVE TraceInv'
  <2>1. UNCHANGED <<file, told, tears>> /\ call'.dones = <<>>
    BY <1>5 DEF StepManyRequest, StepMany, NewBatch
  <2>2. Written' = Written /\ Len(call'.dones) = 0
    BY <2>1 DEF Written, LastLine
  <2>3. RowsSoFar' = {}
    BY <1>0, <2>2 DEF RowsSoFar
  <2>4. BatchTraced'
    BY <2>3 DEF BatchTraced
  <2> QED
    BY <1>still, <2>1, <2>4 DEF TraceInv
<1>6. CASE ServeRow
  <2>0. core' \in Core /\ MoreRows
    <3>1. DrawsInv'
      BY ServiceKeepsDraws DEF ServiceInv
    <3> QED BY <1>6, <3>1 DEF DrawsInv, EnvTypeOK, ServeRow, RowAccepted, RowAfterEnd
  <2>1. Len(call'.dones) = Len(call.dones) + 1 /\ Len(call.dones) \in Nat /\ sink'.open = sink.open
    <3>1. PICK moved \in BOOLEAN : Answer(moved) /\ Write(moved)
      BY <1>6 DEF ServeRow, RowAccepted, RowAfterEnd
    <3>2. sink'.open = sink.open
      BY <1>0, <3>1 DEF Write, EnvTypeOK
    <3> QED BY <1>0, <2>0, <3>1, <3>2, AnswerTypes
  <2>2. /\ file' = IF sink.open THEN Appended(TRUE) ELSE file
        /\ told' = told /\ tears' = tears
    BY <1>6 DEF ServeRow
  <2>3. CASE sink.open
    <3>1. /\ FileOK(file)' /\ tears' \in Nat /\ Cardinality(TornLines(file))' <= tears'
          /\ Written' = Written + 1
          /\ \A row : EndIn(file, row) => EndIn(file', row)
          /\ EndIn(file', Written + 1)
      BY <1>0, <2>2, <2>3, FileGrows
    <3>2. \A row \in told' : EndIn(file', row)
      BY <1>0, <2>2, <3>1 DEF TracePromise
    <3>3. ASSUME NEW row \in RowsSoFar' PROVE EndIn(file', row)
      <4>1. row \in RowsSoFar \/ row = Written + 1
        BY <1>0, <2>1, <3>1 DEF RowsSoFar
      <4>2. \A r \in RowsSoFar : EndIn(file, r)
        BY <1>0, <2>0, <2>3 DEF BatchTraced, MoreRows
      <4> QED BY <3>1, <4>1, <4>2
    <3> QED BY <3>1, <3>2, <3>3 DEF TraceInv, TracePromise, BatchTraced
  <2>4. CASE ~sink.open
    <3>1. BatchTraced'
      BY <2>1, <2>4 DEF BatchTraced
    <3> QED BY <1>still, <2>2, <2>4, <3>1 DEF TraceInv
  <2> QED BY <2>3, <2>4
<1>7. CASE RefuseBatch
  <2>1. UNCHANGED <<file, told, tears>> /\ call' = [call EXCEPT !.phase = "raised"]
    BY <1>7 DEF RefuseBatch, RowRefused
  <2>2. ~Running'
    BY <1>0, <2>1 DEF Running
  <2> QED
    BY <1>still, <1>idle, <2>1, <2>2 DEF TraceInv
<1>8. CASE LoseTrace
  <2>1. /\ call' = [call EXCEPT !.phase = "raised"] /\ told' = told
        /\ \/ UNCHANGED <<file, tears>>
           \/ file' = Appended(FALSE) /\ tears' = tears + 1
    BY <1>8 DEF LoseTrace
  <2>2. ~Running'
    BY <1>0, <2>1 DEF Running
  <2> QED
    BY <1>still, <1>torn, <1>idle, <2>1, <2>2 DEF TraceInv
<1>9. CASE ReturnBatch
  <2>1. /\ file' = file /\ tears' = tears /\ call' = [call EXCEPT !.phase = "returned"]
        /\ Running /\ ~MoreRows
        /\ told' = IF sink.open THEN told \cup BatchRows ELSE told
    BY <1>9 DEF ReturnBatch, Return
  <2>2. ~Running'
    BY <1>0, <2>1 DEF Running
  <2>3. Len(call.dones) = Len(call.rows)
    BY <1>0, <2>1 DEF MoreRows, BatchOwnsDraws
  <2>4. ASSUME NEW row \in told' PROVE EndIn(file', row)
    <3>1. CASE row \in told
      BY <1>0, <2>1, <3>1 DEF TracePromise
    <3>2. CASE row \notin told
      <4>1. sink.open /\ row \in RowsSoFar
        BY <2>1, <2>3, <3>2 DEF BatchRows, RowsSoFar
      <4> QED
        BY <1>0, <2>1, <4>1 DEF BatchTraced
    <3> QED BY <3>1, <3>2
  <2>5. FileOK(file') /\ tears' \in Nat
    BY <1>0, <2>1 DEF TracePromise
  <2>6. Cardinality(TornLines(file')) <= tears'
    BY <1>0, <2>1 DEF TracePromise
  <2>7. TracePromise'
    BY <2>4, <2>5, <2>6 DEF TracePromise
  <2> QED
    BY <1>idle, <2>2, <2>7 DEF TraceInv
<1> QED
  BY <1>1, <1>2, <1>3, <1>4, <1>5, <1>6, <1>7, <1>8, <1>9 DEF HttpNext, Handle

\* The promise says what AnsweredRowsAreTraced says.
LEMMA TracePromiseKept == TracePromise => AnsweredRowsAreTraced
<1> SUFFICES ASSUME TracePromise PROVE AnsweredRowsAreTraced
  OBVIOUS
<1>0. FileOK(file) /\ Len(file) \in Nat /\ \A i \in 1 .. Len(file) : file[i] \in FileLine /\ Consecutive(file[i])
  BY DEF TracePromise, FileOK
<1> DEFINE lost == told \ ReadableRows
<1>1. ASSUME NEW row \in lost
      PROVE  \E i \in TornLines(file) :
               /\ file[i].ended /\ Latest(file[i]) = row /\ Len(file[i].rows) >= 2
  <2>1. PICK i \in 1 .. Len(file) : file[i].ended /\ Latest(file[i]) = row
    BY DEF TracePromise, EndIn
  <2>2. /\ Len(file[i].rows) \in Nat /\ Len(file[i].rows) >= 1
    BY <1>0, LineShape
  <2>3. Len(file[i].rows) # 1
    <3> SUFFICES ASSUME Len(file[i].rows) = 1 PROVE FALSE
      OBVIOUS
    <3>1. Readable(file[i]) /\ file[i].rows[1] = row
      BY <2>1 DEF Readable, Latest
    <3>2. row \in ReadableRows
      BY <3>1 DEF ReadableRows
    <3> QED BY <3>2
  <2>4. Len(file[i].rows) >= 2
    <3>1. \A n \in Nat : n >= 1 /\ n # 1 => n >= 2
      OBVIOUS
    <3> QED BY <2>2, <2>3, <3>1, Zenon
  <2>5. i \in TornLines(file)
    BY <2>4 DEF TornLines
  <2> QED
    BY <2>1, <2>4, <2>5
<1>2. ASSUME NEW row \in lost
      PROVE  \E i \in 1 .. Len(file) :
               \E k \in 2 .. Len(file[i].rows) : file[i].rows[k] = row /\ row - 1 \notin told
  <2>1. PICK i \in TornLines(file) :
               /\ file[i].ended /\ Latest(file[i]) = row /\ Len(file[i].rows) >= 2
    BY <1>1
  <2>2. i \in 1 .. Len(file)
    BY <2>1 DEF TornLines
  <2>3. /\ Len(file[i].rows) \in Nat /\ First(file[i]) \in Nat /\ Latest(file[i]) \in Nat
        /\ Latest(file[i]) = First(file[i]) + Len(file[i].rows) - 1
    BY <1>0, <2>2, LineShape
  <2>4. row - 1 \notin told
    <3> SUFFICES ASSUME row - 1 \in told PROVE FALSE
      OBVIOUS
    <3>1. PICK j \in 1 .. Len(file) : file[j].ended /\ Latest(file[j]) = row - 1
      BY DEF TracePromise, EndIn
    <3>row. row \in Nat /\ Latest(file[i]) = row
      BY <2>1, <2>3
    <3>2. CASE i = j
      BY <3>row, <3>1, <3>2
    <3>3. CASE i < j
      <4>1. Latest(file[i]) < Latest(file[j])
        BY <1>0, <2>2, <3>3, LinesApart
      <4>2. row < row - 1
        BY <3>row, <3>1, <4>1
      <4> QED BY <3>row, <4>2
    <3>4. CASE j < i
      <4>1. Latest(file[j]) < First(file[i])
        BY <1>0, <2>2, <3>4, LinesApart
      <4>2. row - 1 < First(file[i])
        BY <3>1, <4>1
      <4>3. row = First(file[i]) + Len(file[i].rows) - 1
        BY <2>3, <3>row
      <4>4. Len(file[i].rows) >= 2
        BY <2>1
      <4> QED BY <2>3, <3>row, <4>2, <4>3, <4>4
    <3> QED BY <2>2, <3>2, <3>3, <3>4
  <2>5. Len(file[i].rows) \in 2 .. Len(file[i].rows) /\ file[i].rows[Len(file[i].rows)] = row
    BY <2>1, <2>3 DEF Latest
  <2> QED BY <2>2, <2>4, <2>5
<1>3. Cardinality(lost) <= tears
  <2> DEFINE End(i) == Latest(file[i])
             ends == {End(i) : i \in TornLines(file)}
  <2>1. lost \subseteq ends
    BY <1>1
  <2>2. IsFiniteSet(TornLines(file))
    <3>1. TornLines(file) \subseteq 1 .. Len(file)
      BY DEF TornLines
    <3>2. IsFiniteSet(1 .. Len(file))
      BY <1>0, FS_Interval
    <3> QED BY <3>1, <3>2, FS_Subset
  <2> DEFINE F == [i \in TornLines(file) |-> End(i)]
  <2>3. F \in Surjection(TornLines(file), ends)
    BY DEF Surjection
  <2>4. IsFiniteSet(ends) /\ Cardinality(ends) <= Cardinality(TornLines(file))
    BY <2>2, <2>3, FS_Surjection
  <2>5. Cardinality(lost) <= Cardinality(ends)
    BY <2>1, <2>4, FS_Subset
  <2>6. Cardinality(lost) \in Nat /\ Cardinality(ends) \in Nat /\ Cardinality(TornLines(file)) \in Nat
    BY <2>1, <2>2, <2>4, FS_Subset, FS_CardinalityType
  <2> QED BY <2>4, <2>5, <2>6 DEF TracePromise
<1>4. ASSUME NEW i \in 1 .. Len(file), NEW j \in 1 .. Len(file), i < j
      PROVE  file[i].rows[1] < file[j].rows[1]
  <2>1. Latest(file[i]) < First(file[j])
    BY <1>0, <1>4, LinesApart
  <2>2. /\ Len(file[i].rows) \in Nat /\ Len(file[i].rows) >= 1
        /\ First(file[i]) \in Nat /\ First(file[j]) \in Nat
        /\ Latest(file[i]) = First(file[i]) + Len(file[i].rows) - 1
    BY <1>0, LineShape
  <2>3. First(file[i]) < First(file[j])
    BY <2>1, <2>2
  <2> QED BY <2>3 DEF First
<1> QED
  BY <1>2, <1>3, <1>4 DEF AnsweredRowsAreTraced

\* The promise is kept from the first start on.
LEMMA TraceInvariant == HttpSpec => []TraceInv
<1>1. HttpInit => TraceInv
  <2> SUFFICES ASSUME HttpInit PROVE TraceInv
    OBVIOUS
  <2>1. file = <<>> /\ told = {} /\ tears = 0 /\ call = NoBatch
    BY DEF HttpInit
  <2>2. TornLines(file) = {}
    BY <2>1 DEF TornLines
  <2>3. FileOK(file)
    BY <2>1 DEF FileOK
  <2>4. ~Running
    BY <2>1 DEF NoBatch, Running
  <2>5. Cardinality({}) = 0
    BY FS_EmptySet
  <2>6. Cardinality(TornLines(file)) <= tears /\ tears \in Nat
    BY <2>1, <2>2, <2>5
  <2>7. \A row \in told : EndIn(file, row)
    BY <2>1
  <2>8. TracePromise
    BY <2>3, <2>6, <2>7 DEF TracePromise
  <2> QED
    BY <2>4, <2>8 DEF TraceInv, BatchTraced
<1> QED
  BY <1>1, TraceInvStep, ServiceInvariant, PTL DEF HttpSpec

\* AnsweredRowsAreTraced: wherever a write is cut short and however often the
\* process starts again, a row that was answered can be read in the file, save
\* at most one behind every cut.
THEOREM AnsweredRowsAreTracedHolds == HttpSpec => []AnsweredRowsAreTraced
<1>1. TraceInv => AnsweredRowsAreTraced
  BY TracePromiseKept DEF TraceInv
<1> QED
  BY <1>1, TraceInvariant, PTL

-----------------------------------------------------------------------------
AnswerOK == answer \in [to : {"nobody", "readyz", "engine"}, status : {0, 200, 400, 500, 503}]

\* HttpTypeOK: the shape of the process, of its environment and of the file.
THEOREM HttpTypeCorrect == HttpSpec => []HttpTypeOK
<1>1. HttpInit => AnswerOK
  BY DEF HttpInit, NoAnswer, AnswerOK
<1>2. AnswerOK /\ [HttpNext]_httpVars => AnswerOK'
  <2> SUFFICES ASSUME AnswerOK, [HttpNext]_httpVars PROVE AnswerOK'
    OBVIOUS
  <2>1. CASE (\E setting \in Settings : Start(setting)) \/ Shutdown \/ Die
    <3>1. answer' = NoAnswer
      BY <2>1 DEF Start, Shutdown, Die
    <3> QED BY <3>1 DEF NoAnswer, AnswerOK
  <2>2. CASE \/ Readyz \/ Unavailable \/ Observe
             \/ \E request \in {BadStart, Undecodable} : BadRequest(request)
             \/ \E seed \in Seeds \cup {NoSeed}, start \in Bars : ResetRequest(seed, start)
    BY <2>2 DEF Readyz, Unavailable, Observe, BadRequest, ResetRequest, Respond, AnswerOK
  <2>3. CASE \E rows \in Batches : StepManyRequest(rows)
    BY <2>3 DEF StepManyRequest, NoAnswer, AnswerOK
  <2>4. CASE ServeRow \/ UNCHANGED httpVars
    BY <2>4 DEF ServeRow, httpVars, AnswerOK
  <2>5. CASE RefuseBatch \/ LoseTrace \/ ReturnBatch
    <3>1. \E status \in {200, 400, 500} : answer' = [to |-> "engine", status |-> status]
      <4>1. CASE RefuseBatch BY <4>1 DEF RefuseBatch, Respond
      <4>2. CASE LoseTrace BY <4>2 DEF LoseTrace, Respond
      <4>3. CASE ReturnBatch BY <4>3 DEF ReturnBatch, Respond
      <4> QED BY <2>5, <4>1, <4>2, <4>3
    <3> QED BY <3>1 DEF AnswerOK
  <2> QED
    BY <2>1, <2>2, <2>3, <2>4, <2>5 DEF HttpNext, Handle
<1>3. ServiceInv /\ TraceInv /\ AnswerOK => HttpTypeOK
  <2> SUFFICES ASSUME ServiceInv, TraceInv, AnswerOK PROVE HttpTypeOK
    OBVIOUS
  <2>1. ASSUME NEW row \in told PROVE row \in Nat
    <3>1. PICK i \in 1 .. Len(file) : Latest(file[i]) = row
      BY DEF TraceInv, TracePromise, EndIn
    <3>2. file[i] \in FileLine /\ Consecutive(file[i])
      BY DEF TraceInv, TracePromise, FileOK
    <3> QED BY <3>1, <3>2, LineShape
  <2>2. EnvTypeOK
    BY DEF ServiceInv, DrawsInv
  <2>3. proc \in [up : BOOLEAN, setting : Settings \cup {Nothing}, starts : 0 .. MaxStarts,
                  ready : BOOLEAN, loaded : BOOLEAN, asked : Seeds \cup {NoSeed}]
    BY DEF ServiceInv, ProcInv
  <2>4. file \in Seq([rows : Seq(Nat), ended : BOOLEAN]) /\ tears \in Nat
    BY DEF TraceInv, TracePromise, FileOK, FileLine
  <2> QED
    BY <2>1, <2>2, <2>3, <2>4 DEF HttpTypeOK, AnswerOK
<1> QED
  BY <1>1, <1>2, <1>3, ServiceInvariant, TraceInvariant, PTL DEF HttpSpec

-----------------------------------------------------------------------------
\* A lost trace may leave a row that the core has taken.
LEMMA LoseTraceIsStep ==
  ASSUME DrawsInv, LoseTrace
  PROVE  AsSeededEpisode!Next \/ UNCHANGED AsSeededEpisode!vars
<1>1. MoreRows /\ rng' = rng
  BY DEF LoseTrace
<1>2. CASE core' = core
  BY <1>1, <1>2, StandIsStutter
<1>3. CASE core' # core
  BY <1>1, <1>3, RowIsStep DEF LoseTrace
<1> QED BY <1>2, <1>3

\* ImplementsSeededEpisode: what a service serves, through lost traces, deaths
\* and new processes, is the episode its environment promises; a process that
\* starts or ends begins another one.
THEOREM ServiceImplementsSeededEpisode == HttpSpec => ImplementsSeededEpisode
<1>1. HttpInit => AsSeededEpisode!Init
  BY MarketEnvAssumption DEF HttpInit, NewCore, AsSeededEpisode!Init, Used
<1>2. ServiceInv /\ [HttpNext]_httpVars => [AsSeededEpisode!Next]_(AsSeededEpisode!vars)
  <2> SUFFICES ASSUME ServiceInv, [HttpNext]_httpVars
               PROVE  AsSeededEpisode!Next \/ UNCHANGED AsSeededEpisode!vars
    OBVIOUS
  <2>1. DrawsInv /\ EnvironmentStep
    BY ServiceStep DEF ServiceInv
  <2>2. ASSUME NEW seed \in Seeds, NEW open \in BOOLEAN, Fresh(seed, open)
        PROVE  AsSeededEpisode!Next
    <3>1. core' = NewCore(0) /\ rng'.seed = seed /\ 0 \in Bars
      BY <2>2, MarketEnvAssumption DEF Fresh
    <3> QED BY <3>1, AnewIsRestart
  <2> QED
    BY <2>1, <2>2, SeededStep, LoseTraceIsStep DEF EnvironmentStep
<1> QED
  BY <1>1, <1>2, ServiceInvariant, PTL
     DEF HttpSpec, ImplementsSeededEpisode, AsSeededEpisode!Spec
=============================================================================
