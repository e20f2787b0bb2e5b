------------------------------- MODULE Workspace -------------------------------
(***************************************************************************)
(* The workspace directory: what a capture stores of a session while it is *)
(* recorded (SessionStore), what becomes of the recording after Stop and   *)
(* after a crash (RecordingRetention), the sessions as clients list and    *)
(* annotate them (SessionCatalog), the debug data of the lanes             *)
(* (DebugRetention), and the database of the family (FamilyCatalog).  They *)
(* write different files, and none reads what another one writes, so a     *)
(* behaviour follows one of them while the others rest.                    *)
(***************************************************************************)
EXTENDS SessionStore, RecordingRetention, SessionCatalog, DebugRetention, FamilyCatalog

VARIABLE part    \* the files this behaviour is about

WorkspaceInit ==
    /\ part \in {"session", "recording", "catalog", "debug", "family"}
    /\ StoreInit /\ Init /\ CatalogInit /\ DebugInit /\ FamilyInit
    /\ part # "recording" => ~ compact /\ commit = "stored" /\ preview = "stored"
    /\ part # "debug" => pins = {} /\ \A f \in debugFiles : f.time = 0
    /\ part # "family" => revision = Null

WorkspaceNext ==
    \/ part = "session" /\ StoreNext /\ UNCHANGED <<part, vars, catalogVars, debugVars, familyVars>>
    \/ part = "recording" /\ Next /\ UNCHANGED <<part, storeVars, catalogVars, debugVars, familyVars>>
    \/ part = "catalog" /\ CatalogNext /\ UNCHANGED <<part, storeVars, vars, debugVars, familyVars>>
    \/ part = "debug" /\ DebugNext /\ UNCHANGED <<part, storeVars, vars, catalogVars, familyVars>>
    \/ part = "family" /\ FamilyNext /\ UNCHANGED <<part, storeVars, vars, catalogVars, debugVars>>

WorkspaceSpec == WorkspaceInit /\ [][WorkspaceNext]_<<part, storeVars, vars, catalogVars, debugVars, familyVars>>

================================================================================
