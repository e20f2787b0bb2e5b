-------------------------- MODULE MCCapturePipeline --------------------------
(* Instances of CapturePipeline for TLC.                                   *)
EXTENDS CapturePipeline

CONSTANTS preview, commit

\* With two blocks the commit lane can decode, be deferred, and have a whole
\* decode to wait with, while the preview lane has half of one.
MCHop == [l \in Lanes |-> IF l = commit THEN 1 ELSE 2]
AllFaults == FaultKinds
NoFaults == {}
=============================================================================
