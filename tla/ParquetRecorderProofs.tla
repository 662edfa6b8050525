----------------------- MODULE ParquetRecorderProofs -----------------------
(***************************************************************************)
(* Theorems about ParquetRecorder, for every series, every number of       *)
(* episodes and rows, and any mix of failing flushes, torn files and       *)
(* crashes: what is stored, how it is numbered, and that the recorder is   *)
(* the in-memory one but for what a fault costs it.                        *)
(***************************************************************************)
EXTENDS ParquetRecorder, SequenceTheorems, TLAPS

\* The types, and the recorder's number never ahead of the environment's.
TypeInv == ParquetTypeOK /\ episode + 1 <= env.run

\* The next bar is in the series, and later unless the clock stands still.
LEMMA NextBarFacts ==
  ASSUME NEW t \in Bars
  PROVE  /\ NextBar(t) \in Bars
         /\ t <= NextBar(t)
         /\ t < NextBar(t) \/ t = N - 1
         /\ NextBar(t) # N - 1 => t < NextBar(t) /\ NextBar(t) < N - 1
BY ParquetAssumption DEF NextBar, Bars

\* A flush that succeeds moves the rows from the buffer into the file.
LEMMA FlushSucceedsFacts ==
  ASSUME TypeInv, NEW rows \in Seq(Row), FlushSucceeds(rows)
  PROVE  /\ file' \in [readable : BOOLEAN, rows : Seq(Row)]
         /\ buffer' = <<>> /\ buffer' \in Seq(Row)
         /\ Stored' = file.rows \o rows
<1>1. file.rows \in Seq(Row) /\ file \in [readable : BOOLEAN, rows : Seq(Row)]
  BY DEF TypeInv, ParquetTypeOK
<1>2. file.rows \o rows \in Seq(Row)
  BY <1>1, ConcatProperties
<1>3. file' = [file EXCEPT !.rows = file.rows \o rows] /\ buffer' = <<>>
  BY DEF FlushSucceeds
<1>4. file' \in [readable : BOOLEAN, rows : Seq(Row)] /\ file'.rows = file.rows \o rows
  BY <1>1, <1>2, <1>3
<1>5. buffer' \in Seq(Row)
  BY <1>3, EmptySeq
<1>6. Stored' = file.rows \o rows
  BY <1>2, <1>3, <1>4, ConcatEmptySeq DEF Stored
<1> QED BY <1>3, <1>4, <1>5, <1>6

\* A flush that raises keeps the buffer, and the file unless it was torn.
LEMMA FlushRaisesFacts ==
  ASSUME TypeInv, NEW rows \in Seq(Row), FlushRaises(rows)
  PROVE  /\ file' \in [readable : BOOLEAN, rows : Seq(Row)]
         /\ buffer' = rows
         /\ faults' \subseteq {FlushRaised, FileTorn, Died}
         /\ faults \subseteq faults' /\ FlushRaised \in faults'
         /\ \/ Stored' = file.rows \o rows
            \/ Stored' = rows /\ FileTorn \in faults'
<1>1. file \in [readable : BOOLEAN, rows : Seq(Row)] /\ faults \subseteq {FlushRaised, FileTorn, Died}
  BY DEF TypeInv, ParquetTypeOK
<1>2. CASE file' = file /\ faults' = faults \cup {FlushRaised}
  BY <1>1, <1>2 DEF FlushRaises, Stored
<1>3. CASE file' = Torn /\ faults' = faults \cup {FlushRaised, FileTorn}
  <2>1. <<>> \in Seq(Row)
    BY EmptySeq
  <2>2. Torn \in [readable : BOOLEAN, rows : Seq(Row)] /\ Torn.rows = <<>>
    BY <2>1 DEF Torn
  <2>3. Stored' = rows
    <3>1. buffer' = rows /\ file'.rows = <<>>
      BY <1>3, <2>2 DEF FlushRaises
    <3> QED BY <3>1, ConcatEmptySeq DEF Stored
  <2> QED BY <1>1, <1>3, <2>2, <2>3 DEF FlushRaises
<1> QED BY <1>2, <1>3 DEF FlushRaises

\* What a step records is a row, under the number of the environment's episode.
LEMMA RecordFacts ==
  ASSUME TypeInv, NEW over \in BOOLEAN, Move(over)
  PROVE  /\ RecordOf(env'.t) \in Row
         /\ RecordOf(env'.t) = [episode |-> episode, step |-> env'.t, run |-> env.run]
         /\ Recorded = Append(buffer, RecordOf(env'.t)) /\ Recorded \in Seq(Row)
         /\ env'.t = NextBar(env.t) /\ env'.run = env.run /\ env'.over = over
         /\ env' \in [t : Bars, over : BOOLEAN, run : 0 .. MaxRuns]
         /\ Append(log, RecordOf(env'.t)) \in Seq(Row)
<1>1. env \in [t : Bars, over : BOOLEAN, run : 0 .. MaxRuns] /\ episode \in Int
  BY ParquetAssumption DEF TypeInv, ParquetTypeOK, NoEpisode
<1>2. NextBar(env.t) \in Bars
  BY <1>1, NextBarFacts
<1>3. /\ env'.t = NextBar(env.t) /\ env'.run = env.run /\ env'.over = over
      /\ env' \in [t : Bars, over : BOOLEAN, run : 0 .. MaxRuns]
  BY <1>1, <1>2 DEF Move
<1>4. RecordOf(env'.t) \in Row
  BY <1>1, <1>3 DEF RecordOf, Row
<1>5. buffer \in Seq(Row) /\ log \in Seq(Row)
  BY DEF TypeInv, ParquetTypeOK
<1>6. Append(buffer, RecordOf(env'.t)) \in Seq(Row) /\ Append(log, RecordOf(env'.t)) \in Seq(Row)
  BY <1>4, <1>5, AppendProperties
<1> QED BY <1>3, <1>4, <1>6 DEF Recorded, RecordOf

\* Appending to the second of two sequences appends to the two together.
LEMMA AppendToConcat ==
  ASSUME NEW S, NEW s \in Seq(S), NEW t \in Seq(S), NEW e \in S
  PROVE  s \o Append(t, e) = Append(s \o t, e)
<1>1. <<e>> \in Seq(S)
  OBVIOUS
<1>2. Append(t, e) = t \o <<e>>
  BY AppendIsConcat
<1>3. s \o t \in Seq(S)
  BY ConcatProperties
<1>4. Append(s \o t, e) = (s \o t) \o <<e>>
  BY <1>3, AppendIsConcat
<1>5. (s \o t) \o <<e>> = s \o (t \o <<e>>)
  BY <1>1, ConcatAssociative
<1> QED BY <1>2, <1>4, <1>5, Zenon

\* A new row enters what is stored at its end, flushed or not.
LEMMA StoredGrows ==
  ASSUME TypeInv, NEW row \in Row
  PROVE  file.rows \o Append(buffer, row) = Append(Stored, row)
<1>1. file.rows \in Seq(Row) /\ buffer \in Seq(Row)
  BY DEF TypeInv, ParquetTypeOK
<1>2. \A s, u \in Seq(Row) : s \o Append(u, row) = Append(s \o u, row)
  BY AppendToConcat
<1>3. file.rows \o Append(buffer, row) = Append(file.rows \o buffer, row)
  BY <1>1, <1>2, Zenon
<1> QED BY <1>3 DEF Stored
-----------------------------------------------------------------------------
\* The types hold at first,
LEMMA TypeInvInit == Init => TypeInv
<1> SUFFICES ASSUME Init PROVE TypeInv
  OBVIOUS
<1>1. 0 \in Bars /\ 0 \in 0 .. MaxRuns /\ NoEpisode \in NoEpisode .. MaxRuns
  BY ParquetAssumption DEF Bars, NoEpisode
<1>2. <<>> \in Seq(Row)
  BY EmptySeq
<1>3. env \in [t : Bars, over : BOOLEAN, run : 0 .. MaxRuns]
  BY <1>1 DEF Init
<1>4. file \in [readable : BOOLEAN, rows : Seq(Row)]
  BY <1>2 DEF Init
<1>5. episode + 1 <= env.run
  BY DEF Init, NoEpisode
<1> QED BY <1>1, <1>2, <1>3, <1>4, <1>5 DEF Init, TypeInv, ParquetTypeOK

\* The start of a run is well typed.
LEMMA NewRunFacts ==
  ASSUME TypeInv, NEW start \in Bars, NewRun(start)
  PROVE  /\ env' \in [t : Bars, over : BOOLEAN, run : 0 .. MaxRuns]
         /\ env'.run = env.run + 1 /\ env'.t = start /\ env'.over = FALSE
         /\ episode \in NoEpisode .. MaxRuns /\ episode + 1 \in NoEpisode .. MaxRuns
         /\ episode + 1 <= env.run /\ env.run \in Nat
<1>1. env.run \in 0 .. MaxRuns /\ episode \in NoEpisode .. MaxRuns /\ episode + 1 <= env.run
  BY DEF TypeInv, ParquetTypeOK
<1>2. env.run + 1 \in 0 .. MaxRuns /\ env.run \in Nat
  BY <1>1, ParquetAssumption DEF NewRun
<1>3. env' = [t |-> start, over |-> FALSE, run |-> env.run + 1]
  BY DEF NewRun
<1>4. episode + 1 \in NoEpisode .. MaxRuns
  BY <1>1, ParquetAssumption DEF NoEpisode
<1> QED BY <1>1, <1>2, <1>3, <1>4

\* and every step keeps them.
LEMMA TypeInvStep == TypeInv /\ [Next]_vars => TypeInv'
<1> SUFFICES ASSUME TypeInv, [Next]_vars PROVE TypeInv'
  OBVIOUS
<1>0. /\ ParquetTypeOK /\ episode + 1 <= env.run /\ buffer \in Seq(Row) /\ log \in Seq(Row)
      /\ episode \in NoEpisode .. MaxRuns /\ faults \subseteq {FlushRaised, FileTorn, Died}
      /\ file \in [readable : BOOLEAN, rows : Seq(Row)]
      /\ env \in [t : Bars, over : BOOLEAN, run : 0 .. MaxRuns]
  BY DEF TypeInv, ParquetTypeOK
<1>1. ASSUME NEW start \in Bars, Reset(start) PROVE TypeInv'
  <2>1. NewRun(start) /\ FlushSucceeds(buffer) /\ episode' = episode + 1 /\ UNCHANGED <<log, faults>>
    BY <1>1 DEF Reset
  <2>2. /\ env' \in [t : Bars, over : BOOLEAN, run : 0 .. MaxRuns] /\ env'.run = env.run + 1
        /\ episode' \in NoEpisode .. MaxRuns /\ episode' <= env.run /\ env.run \in Nat
    BY <2>1, NewRunFacts
  <2>3. episode' + 1 <= env'.run
    BY <2>2 DEF NoEpisode
  <2> QED BY <1>0, <2>1, <2>2, <2>3, FlushSucceedsFacts DEF TypeInv, ParquetTypeOK
<1>2. ASSUME NEW start \in Bars, ResetRaises(start) PROVE TypeInv'
  <2>1. NewRun(start) /\ FlushRaises(buffer) /\ UNCHANGED <<episode, log>>
    BY <1>2 DEF ResetRaises
  <2>2. /\ env' \in [t : Bars, over : BOOLEAN, run : 0 .. MaxRuns] /\ env'.run = env.run + 1
        /\ episode \in NoEpisode .. MaxRuns /\ episode + 1 <= env.run /\ env.run \in Nat
    BY <2>1, NewRunFacts
  <2>3. episode' + 1 <= env'.run
    BY <2>1, <2>2 DEF NoEpisode
  <2> QED BY <1>0, <2>1, <2>2, <2>3, FlushRaisesFacts DEF TypeInv, ParquetTypeOK
<1>3. CASE StepOn
  BY <1>0, <1>3, RecordFacts DEF StepOn, TypeInv, ParquetTypeOK
<1>4. CASE StepLast
  <2>1. Move(TRUE) /\ log' = Append(log, RecordOf(env'.t)) /\ episode' = episode
    BY <1>4 DEF StepLast
  <2>2. Recorded \in Seq(Row) /\ log' \in Seq(Row) /\ env'.run = env.run
        /\ env' \in [t : Bars, over : BOOLEAN, run : 0 .. MaxRuns]
    BY <2>1, RecordFacts
  <2>3. CASE FlushSucceeds(Recorded) /\ UNCHANGED faults
    BY <1>0, <2>1, <2>2, <2>3, FlushSucceedsFacts DEF TypeInv, ParquetTypeOK
  <2>4. CASE FlushRaises(Recorded)
    BY <1>0, <2>1, <2>2, <2>4, FlushRaisesFacts DEF TypeInv, ParquetTypeOK
  <2> QED BY <1>4, <2>3, <2>4 DEF StepLast
<1>5. CASE StepUnrecorded
  BY <1>0, <1>5, RecordFacts DEF StepUnrecorded, TypeInv, ParquetTypeOK
<1>6. CASE Replay
  BY <1>0, <1>6, FlushSucceedsFacts DEF Replay, TypeInv, ParquetTypeOK
<1>7. CASE ReplayRaises
  BY <1>0, <1>7, FlushRaisesFacts DEF ReplayRaises, TypeInv, ParquetTypeOK
<1>8. CASE Die
  <2>1. <<>> \in Seq(Row) /\ Torn \in [readable : BOOLEAN, rows : Seq(Row)]
    BY EmptySeq DEF Torn
  <2>2. env.run + 1 \in 0 .. MaxRuns /\ 0 \in Bars /\ env.run \in Nat
    BY <1>0, <1>8, ParquetAssumption DEF Die, Bars
  <2>3. env' = [t |-> 0, over |-> FALSE, run |-> env.run + 1]
    BY <1>8 DEF Die
  <2>4. env' \in [t : Bars, over : BOOLEAN, run : 0 .. MaxRuns] /\ env'.run = env.run + 1
    BY <2>2, <2>3
  <2>5. episode' \in NoEpisode .. MaxRuns /\ episode' + 1 <= env'.run
    BY <1>8, <2>2, <2>4, ParquetAssumption DEF Die, NoEpisode
  <2>6. file' \in [readable : BOOLEAN, rows : Seq(Row)] /\ faults' \subseteq {FlushRaised, FileTorn, Died}
    BY <1>0, <1>8, <2>1 DEF Die
  <2> QED BY <1>0, <1>8, <2>1, <2>4, <2>5, <2>6 DEF Die, TypeInv, ParquetTypeOK
<1>9. CASE UNCHANGED vars
  BY <1>0, <1>9 DEF vars, TypeInv, ParquetTypeOK
<1> QED
  BY <1>1, <1>2, <1>3, <1>4, <1>5, <1>6, <1>7, <1>8, <1>9 DEF Next

\* The recorder's fields, the file and the environment keep their shape.
THEOREM ParquetTypeCorrect == Spec => []ParquetTypeOK
<1>1. TypeInv => ParquetTypeOK
  BY DEF TypeInv
<1> QED BY <1>1, TypeInvInit, TypeInvStep, PTL DEF Spec
-----------------------------------------------------------------------------
\* With the types, NothingLostOrRepeated is inductive,
LEMMA StorageStep ==
  TypeInv /\ NothingLostOrRepeated /\ [Next]_vars => NothingLostOrRepeated'
<1> SUFFICES ASSUME TypeInv, NothingLostOrRepeated, [Next]_vars PROVE NothingLostOrRepeated'
  OBVIOUS
<1>0. buffer \in Seq(Row)
  BY DEF TypeInv, ParquetTypeOK
<1>1. ASSUME Stored' = Stored, log' = log, faults \subseteq faults' PROVE NothingLostOrRepeated'
  BY <1>1 DEF NothingLostOrRepeated
<1>2. ASSUME FileTorn \in faults' \/ Died \in faults' PROVE NothingLostOrRepeated'
  BY <1>2 DEF NothingLostOrRepeated
<1>3. ASSUME FlushSucceeds(buffer), UNCHANGED <<log, faults>> PROVE NothingLostOrRepeated'
  BY <1>0, <1>1, <1>3, FlushSucceedsFacts DEF Stored
<1>4. ASSUME FlushRaises(buffer), UNCHANGED log PROVE NothingLostOrRepeated'
  BY <1>0, <1>1, <1>2, <1>4, FlushRaisesFacts DEF Stored
<1>5. ASSUME NEW over \in BOOLEAN, Move(over), log' = Append(log, RecordOf(env'.t)),
             Stored' = file.rows \o Recorded, faults \subseteq faults'
      PROVE  NothingLostOrRepeated'
  <2>1. Stored' = Append(Stored, RecordOf(env'.t))
    BY <1>5, RecordFacts, StoredGrows
  <2> QED BY <1>5, <2>1 DEF NothingLostOrRepeated
<1>6. CASE StepOn
  <2>1. Move(FALSE) /\ Stored' = file.rows \o Recorded
    BY <1>6 DEF StepOn, Stored
  <2> QED BY <1>5, <1>6, <2>1 DEF StepOn
<1>7. CASE StepLast
  <2>1. Move(TRUE) /\ log' = Append(log, RecordOf(env'.t)) /\ Recorded \in Seq(Row)
    BY <1>7, RecordFacts DEF StepLast
  <2>2. CASE FlushSucceeds(Recorded) /\ UNCHANGED faults
    BY <1>5, <2>1, <2>2, FlushSucceedsFacts
  <2>3. CASE FlushRaises(Recorded)
    BY <1>2, <1>5, <2>1, <2>3, FlushRaisesFacts
  <2> QED BY <1>7, <2>2, <2>3 DEF StepLast
<1>8. CASE Die
  BY <1>2, <1>8 DEF Die
<1>9. CASE StepUnrecorded \/ UNCHANGED vars
  BY <1>1, <1>9 DEF StepUnrecorded, Stored, vars
<1> QED
  BY <1>3, <1>4, <1>6, <1>7, <1>8, <1>9 DEF Next, Reset, ResetRaises, Replay, ReplayRaises

\* so that as long as the process lives and the file is not destroyed, every
\* recorded row is in file or buffer exactly once and in order, whatever
\* flushes raised and were tried again.
THEOREM NothingLostOrRepeatedHolds == Spec => []NothingLostOrRepeated
<1>1. Init => NothingLostOrRepeated
  <2> SUFFICES ASSUME Init PROVE Stored = log
    BY DEF NothingLostOrRepeated
  <2>1. <<>> \in Seq(Row) /\ file.rows = <<>> /\ buffer = <<>> /\ log = <<>>
    BY EmptySeq DEF Init
  <2> QED BY <2>1, ConcatEmptySeq DEF Stored
<1> QED BY <1>1, TypeInvInit, TypeInvStep, StorageStep, PTL DEF Spec

\* BufferIsOfThisRun: unless a flush has raised, what a crash loses was recorded
\* after the last reset.
THEOREM BufferIsOfThisRunHolds == Spec => []BufferIsOfThisRun
<1>1. Init => BufferIsOfThisRun
  BY DEF Init, BufferIsOfThisRun
<1>2. TypeInv /\ BufferIsOfThisRun /\ [Next]_vars => BufferIsOfThisRun'
  <2> SUFFICES ASSUME TypeInv, BufferIsOfThisRun, [Next]_vars PROVE BufferIsOfThisRun'
    OBVIOUS
  <2>0. buffer \in Seq(Row)
    BY DEF TypeInv, ParquetTypeOK
  <2>1. ASSUME buffer' = <<>> PROVE BufferIsOfThisRun'
    BY <2>1 DEF BufferIsOfThisRun
  <2>2. ASSUME FlushRaised \in faults' PROVE BufferIsOfThisRun'
    BY <2>2 DEF BufferIsOfThisRun
  <2>3. CASE StepOn
    <3>1. /\ buffer' = Append(buffer, RecordOf(env'.t)) /\ RecordOf(env'.t).run = env.run
          /\ env'.run = env.run /\ faults' = faults /\ RecordOf(env'.t) \in Row
      BY <2>3, RecordFacts DEF StepOn, RecordOf
    <3>2. \A i \in 1 .. Len(buffer') :
            buffer'[i] = RecordOf(env'.t) \/ (i \in 1 .. Len(buffer) /\ buffer'[i] = buffer[i])
      BY <2>0, <3>1, AppendProperties
    <3> QED BY <3>1, <3>2 DEF BufferIsOfThisRun
  <2>4. CASE StepLast
    <3>1. Recorded \in Seq(Row)
      BY <2>4, RecordFacts DEF StepLast
    <3> QED BY <2>1, <2>2, <2>4, <3>1, FlushSucceedsFacts, FlushRaisesFacts DEF StepLast
  <2>5. CASE Replay \/ \E start \in Bars : Reset(start)
    BY <2>0, <2>1, <2>5, FlushSucceedsFacts DEF Replay, Reset
  <2>6. CASE ReplayRaises \/ \E start \in Bars : ResetRaises(start)
    BY <2>0, <2>2, <2>6, FlushRaisesFacts DEF ReplayRaises, ResetRaises
  <2>7. CASE Die
    BY <2>1, <2>7 DEF Die
  <2>8. CASE StepUnrecorded
    <3>1. PICK over \in BOOLEAN : Move(over)
      BY <2>8 DEF StepUnrecorded
    <3> QED BY <2>8, <3>1, RecordFacts DEF StepUnrecorded, BufferIsOfThisRun
  <2>9. CASE UNCHANGED vars
    BY <2>9 DEF vars, BufferIsOfThisRun
  <2> QED BY <2>3, <2>4, <2>5, <2>6, <2>7, <2>8, <2>9 DEF Next
<1> QED BY <1>1, <1>2, TypeInvInit, TypeInvStep, PTL DEF Spec
-----------------------------------------------------------------------------
(***************************************************************************)
(* Numbering.  Episodes and bars are recorded in order whatever the        *)
(* faults; the recorder's numbers follow the episodes' as long as there    *)
(* was none.  The running episode's rows lie behind the clock, and an      *)
(* episode that goes on has none at the last bar.                          *)
(***************************************************************************)
RowsAreBehind ==
  \A i \in 1 .. Len(log) :
    /\ log[i].run <= env.run
    /\ log[i].run = env.run => log[i].step <= env.t /\ (env.over \/ log[i].step < N - 1)
RowsAreInOrder ==
  \A i, j \in 1 .. Len(log) :
    i < j => \/ log[i].run < log[j].run
             \/ log[i].run = log[j].run /\ log[i].step < log[j].step
NumbersAreRuns ==
  faults = {} =>
    /\ episode + 1 = env.run
    /\ \A i \in 1 .. Len(log) : log[i].episode + 1 = log[i].run
NumberInv == RowsAreBehind /\ RowsAreInOrder /\ NumbersAreRuns

\* The rows recorded before are numbers.
LEMMA LogRows ==
  ASSUME TypeInv
  PROVE  \A i \in 1 .. Len(log) : log[i].run \in Int /\ log[i].step \in Int /\ log[i].episode \in Int
<1>1. log \in Seq(Row)
  BY DEF TypeInv, ParquetTypeOK
<1>2. \A i \in 1 .. Len(log) : log[i] \in Row
  BY <1>1, ElementOfSeq
<1> QED BY <1>2, ParquetAssumption DEF Row, Bars

\* A recorded step is behind the clock, after the rows before it, and numbered
\* like the episode.
LEMMA RecordKeepsNumbers ==
  ASSUME TypeInv, TypeInv', NumberInv, NEW over \in BOOLEAN, Move(over),
         log' = Append(log, RecordOf(env'.t)), episode' = episode, faults \subseteq faults'
  PROVE  NumberInv'
<1> DEFINE row == RecordOf(env'.t)
<1>1. log \in Seq(Row) /\ env.t \in Bars /\ env.run \in Int /\ N \in Nat /\ Len(log) \in Nat
  BY ParquetAssumption DEF TypeInv, ParquetTypeOK
<1>2. /\ row \in Row /\ row.run = env.run /\ row.step = env'.t /\ row.episode = episode
      /\ env'.t = NextBar(env.t) /\ env'.run = env.run /\ env'.over = over
  BY RecordFacts
<1>3. /\ Len(log') = Len(log) + 1 /\ log'[Len(log) + 1] = row
      /\ \A i \in 1 .. Len(log) : log'[i] = log[i]
  BY <1>1, <1>2, AppendProperties
<1>4. /\ env.t \in Int /\ NextBar(env.t) \in Int /\ env.t <= NextBar(env.t)
      /\ env.t < NextBar(env.t) \/ NextBar(env.t) = N - 1
      /\ NextBar(env.t) # N - 1 => NextBar(env.t) < N - 1
      /\ NextBar(env.t) = N - 1 => over
      /\ ~env.over
  BY <1>1, NextBarFacts DEF Move, Bars
<1>5. \A i \in 1 .. Len(log) :
        /\ log[i].run \in Int /\ log[i].step \in Int /\ log[i].run <= env.run
        /\ log[i].run = env.run => log[i].step <= env.t /\ log[i].step < N - 1
  BY <1>4, LogRows DEF NumberInv, RowsAreBehind
<1> HIDE DEF row
<1>6. \A i \in 1 .. Len(log') : i \in 1 .. Len(log) \/ i = Len(log) + 1
  BY <1>1, <1>3
<1>7. RowsAreBehind'
  <2>1. ASSUME NEW i \in 1 .. Len(log)
        PROVE  /\ log'[i].run <= env'.run
               /\ log'[i].run = env'.run => log'[i].step <= env'.t /\ log'[i].step < N - 1
    <3>1. /\ log[i].run \in Int /\ log[i].step \in Int /\ log[i].run <= env.run
          /\ log[i].run = env.run => log[i].step <= env.t /\ log[i].step < N - 1
      BY <1>5
    <3>2. log'[i] = log[i]
      BY <1>3
    <3> QED BY <1>2, <1>4, <3>1, <3>2
  <2>2. /\ row.run <= env'.run
        /\ row.step <= env'.t /\ (env'.over \/ row.step < N - 1)
    BY <1>1, <1>2, <1>4
  <2> QED BY <1>3, <1>6, <2>1, <2>2 DEF RowsAreBehind
<1>8. RowsAreInOrder'
  <2>1. ASSUME NEW i \in 1 .. Len(log)
        PROVE  log[i].run < row.run \/ (log[i].run = row.run /\ log[i].step < row.step)
    <3>1. /\ log[i].run \in Int /\ log[i].step \in Int /\ log[i].run <= env.run
          /\ log[i].run = env.run => log[i].step <= env.t /\ log[i].step < N - 1
      BY <1>5
    <3> QED BY <1>1, <1>2, <1>4, <3>1
  <2>2. ASSUME NEW i \in 1 .. Len(log'), NEW j \in 1 .. Len(log'), i < j
        PROVE  i \in 1 .. Len(log) /\ (j \in 1 .. Len(log) \/ j = Len(log) + 1)
    BY <1>1, <1>3, <2>2
  <2> QED BY <1>3, <2>1, <2>2 DEF NumberInv, RowsAreInOrder
<1>9. NumbersAreRuns'
  BY <1>2, <1>3, <1>6 DEF NumberInv, NumbersAreRuns
<1> QED BY <1>7, <1>8, <1>9 DEF NumberInv

\* A new run leaves the rows of the old ones behind, under its own number
\* unless there was a fault.
LEMMA NewRunKeepsNumbers ==
  ASSUME TypeInv, NumberInv, env'.run = env.run + 1, log' = log,
         faults \subseteq faults', faults' = {} => episode' = episode + 1
  PROVE  NumberInv'
<1>1. env.run \in Int /\ episode \in Int
  BY ParquetAssumption DEF TypeInv, ParquetTypeOK, NoEpisode
<1>2. \A i \in 1 .. Len(log) : log[i].run \in Int /\ log[i].run <= env.run
  BY LogRows DEF NumberInv, RowsAreBehind
<1>3. RowsAreBehind'
  <2>1. ASSUME NEW i \in 1 .. Len(log) PROVE log[i].run < env'.run
    <3>1. log[i].run \in Int /\ log[i].run <= env.run
      BY <1>2
    <3> QED BY <1>1, <3>1
  <2>2. \A i \in 1 .. Len(log) : log[i].run <= env'.run /\ log[i].run # env'.run
    <3> SUFFICES ASSUME NEW i \in 1 .. Len(log) PROVE log[i].run <= env'.run /\ log[i].run # env'.run
      OBVIOUS
    <3>1. log[i].run \in Int /\ log[i].run < env'.run /\ env'.run \in Int
      BY <1>1, <1>2, <2>1
    <3> QED BY <3>1
  <2> QED BY <2>2 DEF RowsAreBehind
<1>4. RowsAreInOrder'
  BY DEF NumberInv, RowsAreInOrder
<1>5. NumbersAreRuns'
  BY <1>1 DEF NumberInv, NumbersAreRuns
<1> QED BY <1>3, <1>4, <1>5 DEF NumberInv

\* Every step keeps the numbering.
LEMMA NumberStep == TypeInv /\ TypeInv' /\ NumberInv /\ [Next]_vars => NumberInv'
<1> SUFFICES ASSUME TypeInv, TypeInv', NumberInv, [Next]_vars PROVE NumberInv'
  OBVIOUS
<1>0. /\ buffer \in Seq(Row) /\ env.t \in Bars /\ env.run \in Nat /\ N \in Nat
      /\ env.t \in Int /\ NoEpisode = -1
  BY ParquetAssumption DEF TypeInv, ParquetTypeOK, Bars, NoEpisode
<1>1. ASSUME NEW start \in Bars, Reset(start) PROVE NumberInv'
  <2>1. env'.run = env.run + 1 /\ log' = log /\ faults' = faults /\ episode' = episode + 1
    BY <1>1, NewRunFacts DEF Reset
  <2> QED BY <2>1, NewRunKeepsNumbers
<1>2. ASSUME NEW start \in Bars, ResetRaises(start) PROVE NumberInv'
  <2>1. env'.run = env.run + 1 /\ log' = log /\ faults \subseteq faults' /\ FlushRaised \in faults'
    BY <1>0, <1>2, NewRunFacts, FlushRaisesFacts DEF ResetRaises
  <2> QED BY <2>1, NewRunKeepsNumbers
<1>3. CASE StepOn
  BY <1>3, RecordKeepsNumbers DEF StepOn
<1>4. CASE StepLast
  <2>1. Move(TRUE) /\ log' = Append(log, RecordOf(env'.t)) /\ episode' = episode
    BY <1>4 DEF StepLast
  <2>2. faults \subseteq faults'
    BY <1>4 DEF StepLast, FlushRaises
  <2> QED BY <2>1, <2>2, RecordKeepsNumbers
<1>5. CASE StepUnrecorded
  <2>1. PICK over \in BOOLEAN : Move(over)
    BY <1>5 DEF StepUnrecorded
  <2>2. /\ env'.run = env.run /\ env'.over = over /\ env'.t = NextBar(env.t) /\ ~env.over
        /\ UNCHANGED <<log, episode, faults>>
    BY <1>5, <2>1, RecordFacts DEF StepUnrecorded, Move
  <2>3. env.t <= NextBar(env.t) /\ NextBar(env.t) \in Int
    BY <1>0, NextBarFacts DEF Bars
  <2>4. RowsAreBehind'
    <3> SUFFICES ASSUME NEW i \in 1 .. Len(log)
                 PROVE  /\ log[i].run <= env.run
                        /\ log[i].run = env.run => log[i].step <= env'.t /\ log[i].step < N - 1
      BY <2>2 DEF RowsAreBehind
    <3>1. log[i].step \in Int /\ log[i].run <= env.run
      BY LogRows DEF NumberInv, RowsAreBehind
    <3>2. log[i].run = env.run => log[i].step <= env.t /\ log[i].step < N - 1
      BY <2>2 DEF NumberInv, RowsAreBehind
    <3> QED BY <1>0, <2>2, <2>3, <3>1, <3>2
  <2> QED BY <2>2, <2>4 DEF NumberInv, RowsAreInOrder, NumbersAreRuns
<1>6. CASE Replay
  BY <1>6 DEF Replay, NumberInv, RowsAreBehind, RowsAreInOrder, NumbersAreRuns
<1>7. CASE ReplayRaises
  <2>1. FlushRaised \in faults' /\ UNCHANGED <<env, episode, log>>
    BY <1>0, <1>7, FlushRaisesFacts DEF ReplayRaises
  <2> QED BY <2>1 DEF NumberInv, RowsAreBehind, RowsAreInOrder, NumbersAreRuns
<1>8. CASE Die
  <2>1. Died \in faults' /\ log' = log /\ env'.run = env.run + 1 /\ faults \subseteq faults'
    BY <1>8 DEF Die
  <2> QED BY <2>1, NewRunKeepsNumbers
<1>9. CASE UNCHANGED vars
  BY <1>9 DEF vars, NumberInv, RowsAreBehind, RowsAreInOrder, NumbersAreRuns
<1> QED
  BY <1>1, <1>2, <1>3, <1>4, <1>5, <1>6, <1>7, <1>8, <1>9 DEF Next

\* NumbersFollowRuns: without a fault the recorder's numbers tell the episodes
\* apart, and the order of recording is the order replay sorts by.
THEOREM NumbersFollowRunsHolds == Spec => []NumbersFollowRuns
<1>1. Init => NumberInv
  <2> SUFFICES ASSUME Init PROVE NumberInv
    OBVIOUS
  <2>1. log = <<>> /\ episode + 1 = env.run
    BY DEF Init, NoEpisode
  <2> QED BY <2>1 DEF NumberInv, RowsAreBehind, RowsAreInOrder, NumbersAreRuns
<1>2. TypeInv /\ NumberInv => NumbersFollowRuns
  <2> SUFFICES ASSUME TypeInv, NumberInv, faults = {},
                      NEW i \in 1 .. Len(log), NEW j \in 1 .. Len(log), i < j
               PROVE  /\ log[i].episode <= log[j].episode
                      /\ log[i].episode = log[j].episode <=> log[i].run = log[j].run
                      /\ log[i].run = log[j].run => log[i].step < log[j].step
    BY DEF NumbersFollowRuns
  <2>1. /\ log[i].run \in Int /\ log[i].step \in Int /\ log[i].episode \in Int
        /\ log[j].run \in Int /\ log[j].step \in Int /\ log[j].episode \in Int
    BY LogRows
  <2>2. log[i].episode + 1 = log[i].run /\ log[j].episode + 1 = log[j].run
    BY DEF NumberInv, NumbersAreRuns
  <2>3. \/ log[i].run < log[j].run
        \/ log[i].run = log[j].run /\ log[i].step < log[j].step
    BY DEF NumberInv, RowsAreInOrder
  <2> QED BY <2>1, <2>2, <2>3
<1> QED BY <1>1, <1>2, TypeInvInit, TypeInvStep, NumberStep, PTL DEF Spec
-----------------------------------------------------------------------------
(***************************************************************************)
(* The recorder implements its port: what a fault takes from Stored is a   *)
(* tail of it (a crash) or a head of it (a torn file), never a row in the  *)
(* middle.                                                                 *)
(***************************************************************************)

\* The two parts of a concatenation are its head and its tail.
LEMMA PartsOfConcat ==
  ASSUME NEW S, NEW s \in Seq(S), NEW u \in Seq(S)
  PROVE  /\ SubSeq(s \o u, 1, Len(s)) = s
         /\ SubSeq(s \o u, Len(s) + 1, Len(s \o u)) = u
<1>1. /\ Len(s) \in Nat /\ Len(u) \in Nat /\ Len(s \o u) = Len(s) + Len(u)
      /\ s \o u \in Seq(S)
      /\ \A i \in 1 .. Len(s) + Len(u) :
           (s \o u)[i] = IF i <= Len(s) THEN s[i] ELSE u[i - Len(s)]
  BY LenProperties, ConcatProperties
<1>2. \A i \in 1 .. Len(s) : s[i] \in S
  BY ElementOfSeq
<1>3. \A i \in 1 .. Len(u) : u[i] \in S
  BY ElementOfSeq
<1>4. SubSeq(s \o u, 1, Len(s)) = s
  <2> DEFINE head == SubSeq(s \o u, 1, Len(s))
  <2>1. \A i \in 1 .. Len(s) : (s \o u)[i] = s[i] /\ (s \o u)[i] \in S
    BY <1>1, <1>2
  <2>2. /\ head \in Seq(S) /\ Len(head) = IF 1 <= Len(s) THEN Len(s) - 1 + 1 ELSE 0
        /\ \A i \in 1 .. Len(s) - 1 + 1 : head[i] = (s \o u)[1 + i - 1]
    BY <1>1, <2>1, SubSeqProperties
  <2> HIDE DEF head
  <2>3. Len(head) = Len(s) /\ \A i \in 1 .. Len(head) : head[i] = s[i]
    BY <1>1, <2>1, <2>2
  <2>4. head = s
    BY <2>2, <2>3, SeqEqual
  <2> QED BY <2>4 DEF head
<1>5. SubSeq(s \o u, Len(s) + 1, Len(s \o u)) = u
  <2> DEFINE tail == SubSeq(s \o u, Len(s) + 1, Len(s) + Len(u))
  <2>1. \A i \in Len(s) + 1 .. Len(s) + Len(u) :
          (s \o u)[i] = u[i - Len(s)] /\ (s \o u)[i] \in S
    BY <1>1, <1>3
  <2>2. /\ tail \in Seq(S)
        /\ Len(tail) = IF Len(s) + 1 <= Len(s) + Len(u)
                         THEN (Len(s) + Len(u)) - (Len(s) + 1) + 1 ELSE 0
        /\ \A i \in 1 .. (Len(s) + Len(u)) - (Len(s) + 1) + 1 :
             tail[i] = (s \o u)[Len(s) + 1 + i - 1]
    BY <1>1, <2>1, SubSeqProperties
  <2> HIDE DEF tail
  <2>3. Len(tail) = Len(u)
    BY <1>1, <2>2
  <2>4. ASSUME NEW i \in 1 .. Len(u) PROVE tail[i] = u[i]
    <3>1. /\ Len(s) + i \in Len(s) + 1 .. Len(s) + Len(u)
          /\ Len(s) + 1 + i - 1 = Len(s) + i /\ (Len(s) + i) - Len(s) = i
          /\ i \in 1 .. (Len(s) + Len(u)) - (Len(s) + 1) + 1
      BY <1>1
    <3> QED BY <2>1, <2>2, <3>1
  <2>5. tail = u
    BY <2>2, <2>3, <2>4, SeqEqual
  <2> QED BY <1>1, <2>5 DEF tail
<1> QED BY <1>4, <1>5

\* What a torn file leaves: the buffer, perhaps with the row being reported.
LEMMA TornIsLoss ==
  ASSUME TypeInv, episode' = episode,
         \/ Stored' = buffer
         \/ \E row \in Row : row.episode = episode /\ Stored' = Append(buffer, row)
  PROVE  AsPort!LoseStore
<1> DEFINE Reports == [step : Bars, run : 0 .. MaxRuns]
           from == Len(file.rows) + 1
<1>1. file.rows \in Seq(Row) /\ buffer \in Seq(Row)
  BY DEF TypeInv, ParquetTypeOK
<1>2. Len(file.rows) \in Nat /\ Len(Stored) = Len(file.rows) + Len(buffer) /\ Len(buffer) \in Nat
  BY <1>1, ConcatProperties, LenProperties DEF Stored
<1>3. SubSeq(Stored, from, Len(Stored)) = buffer
  BY <1>1, PartsOfConcat DEF Stored
<1>4. from \in 1 .. Len(Stored) + 1
  BY <1>2
<1>5. CASE Stored' = buffer
  <2>1. [step |-> 0, run |-> 0] \in Reports
    BY ParquetAssumption DEF Bars
  <2> QED BY <1>3, <1>4, <1>5, <2>1 DEF AsPort!LoseStore
<1>6. CASE \E row \in Row : row.episode = episode /\ Stored' = Append(buffer, row)
  <2>1. PICK row \in Row : row.episode = episode /\ Stored' = Append(buffer, row)
    BY <1>6
  <2> DEFINE report == [step |-> row.step, run |-> row.run]
  <2>2. report \in Reports
    BY DEF Row
  <2>3. row = [episode |-> episode, step |-> report.step, run |-> report.run]
    BY <2>1 DEF Row
  <2>4. Stored' = Append(SubSeq(Stored, from, Len(Stored)),
                         [episode |-> episode, step |-> report.step, run |-> report.run])
    BY <1>3, <2>1, <2>3
  <2> HIDE DEF report
  <2> QED BY <1>4, <2>2, <2>4 DEF AsPort!LoseStore
<1> QED BY <1>5, <1>6

\* A recorded step that is kept is a report.
LEMMA RecordIsReport ==
  ASSUME TypeInv, episode' = episode, NEW row \in Row, row.episode = episode,
         Stored' = Append(Stored, row)
  PROVE  AsPort!OnStep
<1> DEFINE report == [step |-> row.step, run |-> row.run]
<1>1. report \in [step : Bars, run : 0 .. MaxRuns]
  BY DEF Row
<1>2. row = [episode |-> episode, step |-> report.step, run |-> report.run]
  BY DEF Row
<1> HIDE DEF report
<1> QED BY <1>1, <1>2 DEF AsPort!OnStep

\* Every step of the recorder is a step of the port or a stutter.
LEMMA PortStep == TypeInv /\ [Next]_vars => [AsPort!Next]_(AsPort!vars)
<1> SUFFICES ASSUME TypeInv, [Next]_vars
             PROVE  AsPort!Next \/ UNCHANGED <<Stored, episode>>
  BY DEF AsPort!vars
<1>0. file.rows \in Seq(Row) /\ buffer \in Seq(Row)
  BY DEF TypeInv, ParquetTypeOK
<1>1. ASSUME NEW start \in Bars, Reset(start) PROVE AsPort!StartEpisode
  <2>1. FlushSucceeds(buffer) /\ episode' = episode + 1
    BY <1>1 DEF Reset
  <2>2. Stored' = Stored
    BY <1>0, <2>1, FlushSucceedsFacts DEF Stored
  <2> QED BY <2>1, <2>2 DEF AsPort!StartEpisode
<1>2. ASSUME FlushRaises(buffer), UNCHANGED episode
      PROVE  AsPort!Next \/ UNCHANGED <<Stored, episode>>
  <2>1. CASE Stored' = file.rows \o buffer
    BY <1>2, <2>1 DEF Stored
  <2>2. CASE Stored' = buffer
    BY <1>2, <2>2, TornIsLoss DEF AsPort!Next
  <2> QED BY <1>0, <1>2, <2>1, <2>2, FlushRaisesFacts
<1>3. ASSUME NEW over \in BOOLEAN, Move(over), Stored' = file.rows \o Recorded,
             UNCHANGED episode
      PROVE  AsPort!Next
  <2>1. RecordOf(env'.t) \in Row /\ Recorded = Append(buffer, RecordOf(env'.t))
    BY <1>3, RecordFacts
  <2>2. Stored' = Append(Stored, RecordOf(env'.t))
    BY <1>3, <2>1, StoredGrows
  <2>3. RecordOf(env'.t).episode = episode
    BY DEF RecordOf
  <2>4. AsPort!OnStep
    BY <1>3, <2>1, <2>2, <2>3, RecordIsReport
  <2> QED BY <2>4 DEF AsPort!Next
<1>4. CASE StepOn
  <2>1. Move(FALSE) /\ Stored' = file.rows \o Recorded /\ UNCHANGED episode
    BY <1>4 DEF StepOn, Stored
  <2> QED BY <1>3, <2>1
<1>5. CASE StepLast
  <2>1. Move(TRUE) /\ UNCHANGED episode
    BY <1>5 DEF StepLast
  <2>2. /\ Recorded \in Seq(Row) /\ RecordOf(env'.t) \in Row
        /\ Recorded = Append(buffer, RecordOf(env'.t))
    BY <2>1, RecordFacts
  <2>3. CASE FlushSucceeds(Recorded)
    BY <1>3, <2>1, <2>2, <2>3, FlushSucceedsFacts
  <2>4. CASE FlushRaises(Recorded)
    <3>1. CASE Stored' = file.rows \o Recorded
      BY <1>3, <2>1, <3>1
    <3>2. CASE Stored' = Recorded
      <4>1. RecordOf(env'.t).episode = episode
        BY DEF RecordOf
      <4>2. AsPort!LoseStore
        BY <2>1, <2>2, <3>2, <4>1, TornIsLoss
      <4> QED BY <4>2 DEF AsPort!Next
    <3> QED BY <2>2, <2>4, <3>1, <3>2, FlushRaisesFacts
  <2> QED BY <1>5, <2>3, <2>4 DEF StepLast
<1>6. CASE Replay
  BY <1>0, <1>6, FlushSucceedsFacts DEF Replay, Stored
<1>7. CASE Die
  <2>1. buffer' = <<>> /\ episode' = NoEpisode
    BY <1>7 DEF Die
  <2>2. Len(file.rows) \in Nat /\ Len(buffer) \in Nat /\ Len(Stored) = Len(file.rows) + Len(buffer)
    BY <1>0, ConcatProperties, LenProperties DEF Stored
  <2>3. CASE UNCHANGED file
    <3>1. Stored' = file.rows
      BY <1>0, <2>1, <2>3, ConcatEmptySeq DEF Stored
    <3>2. SubSeq(Stored, 1, Len(file.rows)) = file.rows
      BY <1>0, PartsOfConcat DEF Stored
    <3>3. Len(file.rows) \in 0 .. Len(Stored)
      BY <2>2
    <3>4. AsPort!Die
      BY <2>1, <3>1, <3>2, <3>3 DEF AsPort!Die, AsPort!NoEpisode, NoEpisode
    <3> QED BY <3>4 DEF AsPort!Next
  <2>4. CASE file' = Torn
    <3>1. <<>> \in Seq(Row)
      BY EmptySeq
    <3>2. file'.rows = <<>>
      BY <2>4 DEF Torn
    <3>3. Stored' = <<>>
      BY <2>1, <3>1, <3>2, ConcatEmptySeq DEF Stored
    <3>4. SubSeq(Stored, 1, 0) = <<>>
      BY SubSeqEmpty
    <3>5. 0 \in 0 .. Len(Stored)
      BY <2>2
    <3>6. AsPort!Die
      BY <2>1, <3>3, <3>4, <3>5 DEF AsPort!Die, AsPort!NoEpisode, NoEpisode
    <3> QED BY <3>6 DEF AsPort!Next
  <2> QED BY <1>7, <2>3, <2>4 DEF Die
<1>8. CASE StepUnrecorded \/ UNCHANGED vars
  BY <1>8 DEF StepUnrecorded, vars, Stored
<1>9. AsPort!StartEpisode => AsPort!Next
  BY DEF AsPort!Next
<1> QED
  BY <1>1, <1>2, <1>4, <1>5, <1>6, <1>7, <1>8, <1>9 DEF Next, ResetRaises, ReplayRaises

\* For every series, number of episodes and mix of faults, the recorder is the
\* in-memory one but for a tail a crash costs it, or a head a torn file does.
THEOREM RecorderImplementsPort == Spec => ImplementsPort
<1>1. Init => AsPort!Init
  <2> SUFFICES ASSUME Init PROVE Stored = <<>> /\ episode = -1
    BY DEF AsPort!Init, AsPort!NoEpisode
  <2>1. <<>> \in Seq(Row) /\ file.rows = <<>> /\ buffer = <<>>
    BY EmptySeq DEF Init
  <2>2. Stored = <<>>
    BY <2>1, ConcatEmptySeq DEF Stored
  <2> QED BY <2>2 DEF Init, NoEpisode
<1> QED
  BY <1>1, TypeInvInit, TypeInvStep, PortStep, PTL DEF Spec, ImplementsPort, AsPort!Spec
=============================================================================
