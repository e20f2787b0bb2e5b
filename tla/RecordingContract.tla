-------------------------- MODULE RecordingContract --------------------------
(***************************************************************************)
(* What a corrected session promises to everything that reads it: one      *)
(* growing recording, a horizon per lane that only advances within it, a   *)
(* moment from which the audio is fixed, and a moment from which nothing   *)
(* changes.  CapturePipeline implements it.                                *)
(***************************************************************************)
EXTENDS Naturals

CONSTANT Lanes
VARIABLES head, horizon, phase

contractVars == <<head, horizon, phase>>

Init ==
  /\ head = 0
  /\ horizon = [l \in Lanes |-> 0]
  /\ phase = "recording"

\* One more block.  An abort that arrives meanwhile makes it the last one.
AppendBlock ==
  /\ phase = "recording"
  /\ head' = head + 1
  /\ phase' \in {"recording", "settling", "sealed"}
  /\ UNCHANGED horizon

\* A lane publishes results up to a later sample of the accepted audio.
PublishHorizon(l) ==
  /\ phase # "sealed"
  /\ \E sample \in horizon[l]..head :
       horizon' = [horizon EXCEPT ![l] = sample]
  /\ UNCHANGED <<head, phase>>

\* Stop, or the start of an abort: the audio is fixed from here on.
FreezeAudio ==
  /\ phase = "recording"
  /\ phase' \in {"settling", "sealed"}
  /\ UNCHANGED <<head, horizon>>

\* The session is closed, complete or failed.
Seal ==
  /\ phase = "settling"
  /\ phase' = "sealed"
  /\ UNCHANGED <<head, horizon>>

Next ==
  \/ AppendBlock \/ FreezeAudio \/ Seal
  \/ \E l \in Lanes : PublishHorizon(l)

Spec == Init /\ [][Next]_contractVars
=============================================================================
