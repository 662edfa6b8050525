-------------------------- MODULE ParquetRecorder --------------------------
(***************************************************************************)
(* An environment with a ParquetRecorder (env.py, recorder.py): rows are   *)
(* buffered and appended to one file, by reading it, concatenating and     *)
(* writing it again in place, when an episode ends, when the next one      *)
(* starts and when somebody replays.                                       *)
(*                                                                         *)
(* The flush may raise, before or while it writes; the process may die, at *)
(* rest or while it writes; a new process starts with a new recorder on    *)
(* the same file.  `run' numbers the environment's episodes without ever   *)
(* repeating, which the recorder's own numbers do: it stands for the seed  *)
(* and whatever else tells two episodes apart.                             *)
(***************************************************************************)
EXTENDS Integers, Sequences

CONSTANTS N,        \* number of bars
          MaxRuns,  \* bound: episodes, over all processes
          MaxRows   \* bound: rows ever recorded

ASSUME ParquetAssumption ==
  /\ N \in Nat \ {0}
  /\ MaxRuns \in Nat
  /\ MaxRows \in Nat

VARIABLES env,      \* the environment: [t, over, run]
          episode,  \* _episode_id
          buffer,   \* _buffer
          file,     \* the file: [readable, rows]
          log,      \* history: every row recorded, in order
          faults    \* history: the kinds of fault there have been

vars == <<env, episode, buffer, file, log, faults>>

Bars == 0 .. N - 1

\* The bar after t, or the last bar again.
NextBar(t) == IF t + 1 >= N THEN N - 1 ELSE t + 1
NoEpisode == -1

FlushRaised == "flush raised"
FileTorn    == "file torn"
Died        == "died"
-----------------------------------------------------------------------------
\* (The names with a suffix, here and below, are faulty variants of the
\* definition that follows them; no specification uses them.)
FlushSucceeds_KeepsBuffer(rows) ==
  /\ rows # <<>> => file.readable
  /\ file' = [file EXCEPT !.rows = @ \o rows]
  /\ buffer' = rows

\* _flush, with `rows' in the buffer.  An empty buffer touches nothing;
\* otherwise the file is read and written again with the rows at its end.
FlushSucceeds(rows) ==
  /\ rows # <<>> => file.readable
  /\ file' = [file EXCEPT !.rows = @ \o rows]
  /\ buffer' = <<>>

Torn == [readable |-> FALSE, rows |-> <<>>]

FlushRaises_DropsBuffer(rows) ==
  /\ rows # <<>>
  /\ buffer' = <<>>
  /\ \/ file' = file /\ faults' = faults \cup {FlushRaised}
     \/ /\ file.readable
        /\ file' = Torn
        /\ faults' = faults \cup {FlushRaised, FileTorn}

\* It raises before it writes, and then the file is as it was, or while it
\* writes, and then the file is gone; either way the buffer stays.
FlushRaises(rows) ==
  /\ rows # <<>>
  /\ buffer' = rows
  /\ \/ file' = file /\ faults' = faults \cup {FlushRaised}
     \/ /\ file.readable
        /\ file' = Torn
        /\ faults' = faults \cup {FlushRaised, FileTorn}

Init ==
  /\ env = [t |-> 0, over |-> FALSE, run |-> 0]
  /\ episode = NoEpisode
  /\ buffer = <<>>
  /\ file = [readable |-> TRUE, rows |-> <<>>]
  /\ log = <<>>
  /\ faults = {}

\* reset: the environment is in the new episode before the recorder is told.
NewRun(start) ==
  /\ env.run < MaxRuns
  /\ env' = [t |-> start, over |-> FALSE, run |-> env.run + 1]

Reset_CountsFlushes(start) ==
  /\ NewRun(start)
  /\ FlushSucceeds(buffer)
  /\ episode' = IF buffer = <<>> THEN episode ELSE episode + 1
  /\ UNCHANGED <<log, faults>>

\* start_episode numbers the episode after the flush.
Reset(start) ==
  /\ NewRun(start)
  /\ FlushSucceeds(buffer)
  /\ episode' = episode + 1
  /\ UNCHANGED <<log, faults>>

ResetRaises(start) ==
  /\ NewRun(start)
  /\ FlushRaises(buffer)
  /\ UNCHANGED <<episode, log>>

\* The core moves one bar; the last bar, or a close-out, ends the episode.
Move(over) ==
  /\ ~env.over
  /\ NextBar(env.t) = N - 1 => over
  /\ env' = [env EXCEPT !.t = NextBar(env.t), !.over = over]

\* The row on_step records of a step that led to bar t.
RecordOf(t) == [episode |-> episode, step |-> t, run |-> env.run]
Recorded == Append(buffer, RecordOf(env'.t))

\* step: its row is buffered ...
StepOn ==
  /\ Len(log) < MaxRows
  /\ Move(FALSE)
  /\ buffer' = Recorded
  /\ log' = Append(log, RecordOf(env'.t))
  /\ UNCHANGED <<episode, file, faults>>

\* ... and the last step of an episode flushes the buffer (end_episode),
\* which may raise when the step has already been published.
StepLast ==
  /\ Len(log) < MaxRows
  /\ Move(TRUE)
  /\ log' = Append(log, RecordOf(env'.t))
  /\ UNCHANGED episode
  /\ \/ FlushSucceeds(Recorded) /\ UNCHANGED faults
     \/ FlushRaises(Recorded)

\* replay flushes before it reads.
Replay ==
  /\ FlushSucceeds(buffer)
  /\ UNCHANGED <<env, episode, log, faults>>

ReplayRaises == FlushRaises(buffer) /\ UNCHANGED <<env, episode, log>>

\* step_many bypasses the recorder.
StepUnrecorded ==
  /\ \E over \in BOOLEAN : Move(over)
  /\ UNCHANGED <<episode, buffer, file, log, faults>>

\* The process dies, at rest or in the middle of a write, and is started again.
Die ==
  /\ env.run < MaxRuns
  /\ env' = [t |-> 0, over |-> FALSE, run |-> env.run + 1]
  /\ episode' = NoEpisode
  /\ buffer' = <<>>
  /\ \/ UNCHANGED file /\ faults' = faults \cup {Died}
     \/ /\ buffer # <<>> /\ file.readable
        /\ file' = Torn
        /\ faults' = faults \cup {Died, FileTorn}
  /\ UNCHANGED log

Next ==
  \/ \E start \in Bars : Reset(start) \/ ResetRaises(start)
  \/ StepOn \/ StepLast \/ StepUnrecorded
  \/ Replay \/ ReplayRaises
  \/ Die

Spec == Init /\ [][Next]_vars
-----------------------------------------------------------------------------
Row == [episode : Int, step : Bars, run : 0 .. MaxRuns]

\* The shape of the recorder's fields, the file and the environment.
ParquetTypeOK ==
  /\ env \in [t : Bars, over : BOOLEAN, run : 0 .. MaxRuns]
  /\ episode \in NoEpisode .. MaxRuns
  /\ buffer \in Seq(Row)
  /\ file \in [readable : BOOLEAN, rows : Seq(Row)]
  /\ log \in Seq(Row)
  /\ faults \subseteq {FlushRaised, FileTorn, Died}

\* File and buffer together.
Stored == file.rows \o buffer

\* As long as the process lives and the file is not destroyed, every row that
\* was recorded is there exactly once and in order, however often a flush
\* raised and was tried again by a later reset, replay or end of episode.
NothingLostOrRepeated == faults \cap {FileTorn, Died} = {} => Stored = log

\* Without a fault the recorder's numbers tell episodes apart, and the order
\* replay sorts by is the order of recording: a replayed episode is exactly
\* what was recorded of one run, bar after bar.
NumbersFollowRuns ==
  faults = {} =>
    \A i, j \in 1 .. Len(log) :
      i < j => /\ log[i].episode <= log[j].episode
               /\ log[i].episode = log[j].episode <=> log[i].run = log[j].run
               /\ log[i].run = log[j].run => log[i].step < log[j].step

\* Unless a flush has raised, the buffer holds rows of the running episode
\* only: what a crash loses was recorded after the last reset.
BufferIsOfThisRun ==
  FlushRaised \notin faults =>
    \A i \in 1 .. Len(buffer) : buffer[i].run = env.run

\* The recorder is the in-memory recorder, but for the rows that a crash or a
\* destroyed file costs it.
AsPort == INSTANCE RecorderPort WITH
            Reports <- [step : Bars, run : 0 .. MaxRuns], records <- Stored
ImplementsPort == AsPort!Spec
=============================================================================
