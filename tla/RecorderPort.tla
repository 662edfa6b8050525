---------------------------- MODULE RecorderPort ----------------------------
(***************************************************************************)
(* What a recorder promises (recorder.py: Recorder, as InMemoryRecorder    *)
(* keeps it): the steps reported to it, in the order they were reported,   *)
(* each under the number of the episode that was last started.  A recorder *)
(* that outlives its process may lose the latest of them when it dies, and *)
(* one whose file is destroyed the earliest; it never invents, repeats,    *)
(* reorders or renumbers a step.                                           *)
(***************************************************************************)
EXTENDS Integers, Sequences

CONSTANT Reports   \* what may be reported of a step: [step, run]

VARIABLES records,  \* _records
          episode   \* _episode_id

vars == <<records, episode>>

NoEpisode == -1

Init == records = <<>> /\ episode = NoEpisode

StartEpisode == episode' = episode + 1 /\ UNCHANGED records

OnStep ==
  /\ \E report \in Reports :
       records' = Append(records, [episode |-> episode, step |-> report.step,
                                   run |-> report.run])
  /\ UNCHANGED episode

\* The process dies: what was not yet stored is gone, and so is the count.
Die ==
  /\ \E kept \in 0 .. Len(records) : records' = SubSeq(records, 1, kept)
  /\ episode' = NoEpisode

\* The store is destroyed, perhaps while a step is reported: what had not
\* reached it is left.
LoseStore ==
  /\ \E report \in Reports, from \in 1 .. Len(records) + 1 :
       LET left == SubSeq(records, from, Len(records))
           new  == [episode |-> episode, step |-> report.step, run |-> report.run]
       IN  records' = left \/ records' = Append(left, new)
  /\ UNCHANGED episode

Next == StartEpisode \/ OnStep \/ Die \/ LoseStore

Spec == Init /\ [][Next]_vars
=============================================================================
