-------------------------------- MODULE Captures --------------------------------
(***************************************************************************)
(* The captures of a runtime: who holds the one lease (CaptureService), and *)
(* what an import does with it (RecordingImport, which has its own, coarser *)
(* view of the lease).  A behaviour follows one of the two.                 *)
(***************************************************************************)
EXTENDS CaptureService, RecordingImport

VARIABLE view    \* what this behaviour is about

CapturesInit == view \in {"lease", "import"} /\ Init /\ ImportInit

CapturesNext ==
    \/ view = "lease" /\ Next /\ UNCHANGED <<view, importVars>>
    \/ view = "import" /\ ImportNext /\ UNCHANGED <<view, vars>>

CapturesSpec == CapturesInit /\ [][CapturesNext]_<<view, vars, importVars>>

================================================================================
