---------------------------- MODULE CaptureService ----------------------------
(***************************************************************************)
(* CaptureApplicationService: the one capture lease of a local process,    *)
(* shared by microphone connections (one handler thread each), replay and  *)
(* upload threads, the callbacks of the capture pipelines, the timer that  *)
(* unloads idle models, deletion of sessions, and the process itself,      *)
(* which may be killed and started again.                                  *)
(*                                                                         *)
(* A step is one critical section under the service's lock, or the work    *)
(* between two of them.  A pipeline is represented by its state and by the *)
(* callback its lanes deliver; its own interleavings are the subject of    *)
(* CapturePipeline.  Sessions are numbered in the order they are claimed.  *)
(***************************************************************************)
EXTENDS Naturals, Sequences, FiniteSets, SequencesExt

CONSTANTS
  Clients,      \* threads that capture
  Source,       \* "microphone", "replay" or "upload", per client
  MaxSessions,  \* bound: claims
  MaxBlocks,    \* bound: blocks a client sends in one capture
  MaxRestarts,  \* bound: times the process is killed
  Faults        \* which parts of starting and settling a capture may fail

FaultKinds == {"model", "index", "document", "finalizer", "message"}

ASSUME SourceOK == Source \in [Clients -> {"microphone", "replay", "upload"}]
ASSUME BoundsOK == {MaxSessions, MaxBlocks, MaxRestarts} \subseteq Nat
ASSUME FaultsOK == Faults \subseteq FaultKinds

Sessions == 1..MaxSessions
NoSession == 0
Busy == {"warming", "active", "stopping"}   \* of the service
Open == {"active", "stopping"}              \* of a session.json

VARIABLES
  current,     \* _session_id
  active,      \* _active_session and _active_pipeline, always set together
  status,      \* _status
  claims,      \* how many session ids have been handed out
  loaded,      \* the model pool holds models
  timer,       \* an idle timer of the current generation is running
  dispatched,  \* timers that fired but wait for the lock, by generation
  pipe,        \* state of each session's pipeline in this process
  callback,    \* where the pipeline's own callback stands
  manifest,    \* status in each session.json
  recency,     \* sessions with a session.json, oldest write first
  audio,       \* per session, the client that sent each accepted block
  pc,          \* next critical section of every client
  session,     \* the session a client believes it captures
  target,      \* the session a client read from the service
  sent,        \* blocks a client has numbered so far
  deleting,    \* the session a delete request has checked or trashed
  restarts

serviceVars == <<current, active, status, claims, loaded, timer, dispatched>>
sessionVars == <<pipe, callback, manifest, recency, audio>>
clientVars == <<pc, session, target, sent>>
vars == <<serviceVars, sessionVars, clientVars, deleting, restarts>>

-----------------------------------------------------------------------------

Init ==
  /\ current = NoSession /\ active = NoSession /\ status = "idle" /\ claims = 0
  /\ loaded = FALSE /\ timer = FALSE /\ dispatched = {}
  /\ pipe = [s \in Sessions |-> "none"]
  /\ callback = [s \in Sessions |-> "none"]
  /\ manifest = [s \in Sessions |-> "none"]
  /\ recency = <<>>
  /\ audio = [s \in Sessions |-> <<>>]
  /\ pc = [c \in Clients |-> "idle"]
  /\ session = [c \in Clients |-> NoSession]
  /\ target = [c \in Clients |-> NoSession]
  /\ sent = [c \in Clients |-> 0]
  /\ deleting = [session |-> NoSession, trashed |-> FALSE]
  /\ restarts = 0

-----------------------------------------------------------------------------
(* Pieces of the steps.                                                    *)

At(c, point) == pc[c] = point
Goto(c, point) == pc' = [pc EXCEPT ![c] = point]

\* Each session has one session.json and one place in the order.
Without(order, s) ==
  IF \E n \in DOMAIN order : order[n] = s
  THEN RemoveAt(order, CHOOSE n \in DOMAIN order : order[n] = s) ELSE order

\* session.json of session s is written with a new status.
WriteManifest(s, state) ==
  /\ manifest' = [manifest EXCEPT ![s] = state]
  /\ recency' = Append(Without(recency, s), s)

\* _cancel_model_idle_eviction_locked: what was dispatched is now stale.
CancelEviction ==
  /\ timer' = FALSE
  /\ dispatched' = IF dispatched = {} THEN {} ELSE {"stale"}

\* _schedule_model_idle_eviction_locked.
ScheduleEviction ==
  /\ timer' = loaded
  /\ dispatched' = IF dispatched = {} THEN {} ELSE {"stale"}

\* complete_session and fail_session, which do not ask whose lease it is.
Release(outcome) ==
  /\ active' = NoSession /\ status' = outcome
  /\ ScheduleEviction
  /\ UNCHANGED <<current, claims, loaded>>

\* The pipeline refuses more audio: stopping or aborted.
Live(s) == pipe[s] \in {"recording", "settling"}

\* Mutant: nothing keeps the session of another capture from being claimed over.
ClaimRefusedNever == FALSE

\* The guard of claim_session.
ClaimRefused == active # NoSession \/ status \in Busy

\* active_session_id.
ActiveSessionId ==
  IF active # NoSession THEN active
  ELSE IF status \in Busy THEN current ELSE NoSession

-----------------------------------------------------------------------------
(* Starting a capture.                                                     *)

\* claim_session.  A refused microphone goes to its handler's except clause;
\* a refused replay or upload only reports the conflict.
Claim(c) ==
  /\ At(c, "idle")
  /\ \/ /\ ~ClaimRefused /\ claims < MaxSessions
        /\ claims' = claims + 1 /\ current' = claims + 1
        /\ status' = "warming"
        /\ CancelEviction
        /\ target' = [target EXCEPT ![c] = claims + 1]
        /\ Goto(c, "claimed")
     \/ /\ ClaimRefused /\ Source[c] = "microphone"
        /\ Goto(c, "error")
        /\ UNCHANGED <<claims, current, status, timer, dispatched, target>>
  /\ UNCHANGED <<active, loaded, sessionVars, session, sent, deleting, restarts>>

\* The models are loaded, or their worker cannot start.
LoadModels(c) ==
  /\ At(c, "claimed")
  /\ \/ loaded' = TRUE /\ Goto(c, "loaded")
     \/ "model" \in Faults /\ Goto(c, "startFailed") /\ UNCHANGED loaded
  /\ UNCHANGED <<current, active, status, claims, timer, dispatched, sessionVars,
                 session, target, sent, deleting, restarts>>

\* The CorrectedSession and its pipeline are created; its event index may
\* raise an sqlite3.Error, which the microphone handler does not catch.
CreateSession(c) ==
  /\ At(c, "loaded")
  /\ \/ /\ WriteManifest(target[c], "active")
        /\ pipe' = [pipe EXCEPT ![target[c]] = "recording"]
        /\ Goto(c, "created")
     \/ /\ "index" \in Faults
        /\ Goto(c, IF Source[c] = "microphone" THEN "finally" ELSE "startFailed")
        /\ UNCHANGED <<manifest, recency, pipe>>
  /\ UNCHANGED <<serviceVars, callback, audio, session, target, sent, deleting,
                 restarts>>

\* Mutant: a changed claim goes unnoticed.
SetActiveUnchecked(c) ==
  /\ At(c, "created")
  /\ active' = target[c] /\ status' = "active"
  /\ session' = [session EXCEPT ![c] = target[c]]
  /\ Goto(c, IF Source[c] = "upload" THEN "provenance" ELSE "running")
  /\ UNCHANGED <<current, claims, loaded, timer, dispatched, sessionVars, target,
                 sent, deleting, restarts>>

\* client.json is written, then set_active, which checks the claim.
SetActive(c) ==
  /\ At(c, "created")
  /\ \/ /\ current = target[c]
        /\ active' = target[c] /\ status' = "active"
        /\ session' = [session EXCEPT ![c] = target[c]]
        /\ Goto(c, IF Source[c] = "upload" THEN "provenance" ELSE "running")
     \/ /\ current # target[c] \/ ("document" \in Faults /\ Source[c] # "replay")
        /\ Goto(c, "startFailed") /\ UNCHANGED <<active, status, session>>
  /\ UNCHANGED <<current, claims, loaded, timer, dispatched, sessionVars, target,
                 sent, deleting, restarts>>

\* start_upload: upload.json is written once the session is active.
WriteProvenance(c) ==
  /\ At(c, "provenance")
  /\ \/ Goto(c, "running")
     \/ "document" \in Faults /\ Goto(c, "startFailed")
  /\ UNCHANGED <<serviceVars, sessionVars, session, target, sent, deleting, restarts>>

\* An exception while starting: upload releases the lease, the others abort.
StartFailed(c) ==
  /\ At(c, "startFailed")
  /\ IF Source[c] = "upload"
     THEN Release("failed") /\ Goto(c, "finally")
     ELSE Goto(c, "error") /\ UNCHANGED serviceVars
  /\ UNCHANGED <<sessionVars, session, target, sent, deleting, restarts>>

-----------------------------------------------------------------------------
(* Feeding and stopping.                                                   *)

\* accept_block reads whichever session is active.
ReadActive(c) ==
  /\ At(c, "running") /\ sent[c] < MaxBlocks
  /\ target' = [target EXCEPT ![c] = active]
  /\ Goto(c, IF active = NoSession THEN "error" ELSE "block")
  /\ UNCHANGED <<serviceVars, sessionVars, session, sent, deleting, restarts>>

\* The PCM header's sequence number is the next one of the recording.
InSequence(c, s) == sent[c] = Len(audio[s])

\* pipeline.accept_block: the block enters that session, if it is next.
AcceptBlock(c) ==
  /\ At(c, "block")
  /\ LET s == target[c] IN
     IF pipe[s] = "recording" /\ InSequence(c, s)
     THEN /\ audio' = [audio EXCEPT ![s] = Append(@, c)]
          /\ sent' = [sent EXCEPT ![c] = @ + 1]
          /\ session' = [session EXCEPT ![c] = s]
          /\ Goto(c, "running")
     ELSE Goto(c, "error") /\ UNCHANGED <<audio, sent, session>>
  /\ UNCHANGED <<serviceVars, pipe, callback, manifest, recency, target, deleting,
                 restarts>>

\* stop_microphone: read the active session and compare the counts.
ReadStop(c) ==
  /\ At(c, "running")
  /\ target' = [target EXCEPT ![c] = active]
  /\ Goto(c, IF active # NoSession /\ sent[c] = Len(audio[active])
             THEN "stop" ELSE "error")
  /\ UNCHANGED <<serviceVars, sessionVars, session, sent, deleting, restarts>>

\* CaptureApplicationService.begin_stop, whatever the status was.
BeginStop(c) ==
  /\ At(c, "stop")
  /\ status' = "stopping"
  /\ Goto(c, "stopPipeline")
  /\ UNCHANGED <<current, active, claims, loaded, timer, dispatched, sessionVars,
                 session, target, sent, deleting, restarts>>

\* pipeline.begin_stop.  Replays and uploads then wait for settlement.
StopPipeline(c) ==
  /\ At(c, "stopPipeline")
  /\ IF pipe[target[c]] = "recording"
     THEN /\ pipe' = [pipe EXCEPT ![target[c]] = "settling"]
          /\ WriteManifest(target[c], "stopping")
          /\ Goto(c, IF Source[c] = "microphone" THEN "done" ELSE "waiting")
     ELSE Goto(c, "error") /\ UNCHANGED <<pipe, manifest, recency>>
  /\ UNCHANGED <<serviceVars, callback, audio, session, target, sent, deleting,
                 restarts>>

\* pipeline.wait returns once the pipeline settled or failed.
Settled(c) ==
  /\ At(c, "waiting") /\ ~Live(session[c])
  /\ Goto(c, "done")
  /\ UNCHANGED <<serviceVars, sessionVars, session, target, sent, deleting, restarts>>

\* A connection closes or breaks, or the source cannot be read further.
SourceFails(c) ==
  /\ \/ At(c, "running")
     \/ At(c, "idle") /\ Source[c] = "microphone" /\ "message" \in Faults
  /\ Goto(c, "error")
  /\ UNCHANGED <<serviceVars, sessionVars, session, target, sent, deleting, restarts>>

-----------------------------------------------------------------------------
(* abort_microphone, and the end of a handler.                             *)

\* Read the active pipeline: not the caller's, the service's.
ReadAbort(c) ==
  /\ pc[c] \in {"error", "errorAgain"}
  /\ target' = [target EXCEPT ![c] = active]
  /\ Goto(c, IF At(c, "error") THEN "abort" ELSE "abortAgain")
  /\ UNCHANGED <<serviceVars, sessionVars, session, sent, deleting, restarts>>

\* Where a client goes after aborting; microphones run a finally clause.
AfterAbort(c) ==
  IF pc[c] \in {"abort", "deliver"} /\ Source[c] = "microphone"
  THEN "finally" ELSE "done"

\* Nothing was active: fail_session, whatever the service does by now.
AbortNothing(c) ==
  /\ pc[c] \in {"abort", "abortAgain"} /\ target[c] = NoSession
  /\ Release("failed")
  /\ Goto(c, AfterAbort(c))
  /\ UNCHANGED <<sessionVars, session, target, sent, deleting, restarts>>

\* pipeline.abort: it waits while a lane that settles delivers its callback.
AbortPipeline(c) ==
  /\ pc[c] \in {"abort", "abortAgain"} /\ target[c] # NoSession
  /\ LET s == target[c] IN
     \/ /\ Live(s)
        /\ pipe' = [pipe EXCEPT ![s] = "aborted"]
        /\ WriteManifest(s, "failed")
        /\ callback' = [callback EXCEPT ![s] = "failed"]
        /\ Goto(c, IF At(c, "abort") THEN "deliver" ELSE "deliverAgain")
     \/ /\ pipe[s] = "aborted" \/ callback[s] = "sent"
        /\ Goto(c, AfterAbort(c))
        /\ UNCHANGED <<pipe, manifest, recency, callback>>
  /\ UNCHANGED <<serviceVars, audio, session, target, sent, deleting, restarts>>

\* The thread that aborted has delivered the failure callback.
Delivered(c) ==
  /\ pc[c] \in {"deliver", "deliverAgain"} /\ callback[target[c]] = "sent"
  /\ Goto(c, AfterAbort(c))
  /\ UNCHANGED <<serviceVars, sessionVars, session, target, sent, deleting, restarts>>

\* The finally clause of the microphone handler.
Finally(c) ==
  /\ At(c, "finally")
  /\ Goto(c, IF Source[c] = "microphone" /\ session[c] # NoSession /\ Live(session[c])
             THEN "errorAgain" ELSE "done")
  /\ UNCHANGED <<serviceVars, sessionVars, session, target, sent, deleting, restarts>>

\* The thread ends; its user may start another capture.
Done(c) ==
  /\ At(c, "done")
  /\ Goto(c, "idle")
  /\ session' = [session EXCEPT ![c] = NoSession]
  /\ target' = [target EXCEPT ![c] = NoSession]
  /\ sent' = [sent EXCEPT ![c] = 0]
  /\ UNCHANGED <<serviceVars, sessionVars, deleting, restarts>>

-----------------------------------------------------------------------------
(* Pipelines and their callbacks.                                          *)

\* The lanes settle a stopped session, or its finalizer fails.
Settle(s) ==
  /\ pipe[s] = "settling"
  /\ \/ /\ pipe' = [pipe EXCEPT ![s] = "complete"]
        /\ WriteManifest(s, "complete")
        /\ callback' = [callback EXCEPT ![s] = "settled"]
     \/ /\ "finalizer" \in Faults
        /\ pipe' = [pipe EXCEPT ![s] = "failed"]
        /\ WriteManifest(s, "failed")
        /\ callback' = [callback EXCEPT ![s] = "failed"]
  /\ UNCHANGED <<serviceVars, audio, clientVars, deleting, restarts>>

\* _microphone_settled and _microphone_failed: is the session still active?
CheckActive(s) ==
  /\ callback[s] \in {"settled", "failed"}
  /\ callback' = [callback EXCEPT ![s] =
       IF active # s THEN "sent"
       ELSE IF callback[s] = "settled" THEN "complete_session" ELSE "fail_session"]
  /\ UNCHANGED <<serviceVars, pipe, manifest, recency, audio, clientVars, deleting,
                 restarts>>

\* Mutant: only completion releases the lease.
ReleaseLeaseOnCompletion(s) ==
  /\ callback[s] \in {"complete_session", "fail_session"}
  /\ IF callback[s] = "complete_session" THEN Release("complete") ELSE UNCHANGED serviceVars
  /\ callback' = [callback EXCEPT ![s] = "sent"]
  /\ UNCHANGED <<pipe, manifest, recency, audio, clientVars, deleting, restarts>>

\* complete_session or fail_session, in a section of its own.
ReleaseLease(s) ==
  /\ callback[s] \in {"complete_session", "fail_session"}
  /\ Release(IF callback[s] = "complete_session" THEN "complete" ELSE "failed")
  /\ callback' = [callback EXCEPT ![s] = "sent"]
  /\ UNCHANGED <<pipe, manifest, recency, audio, clientVars, deleting, restarts>>

-----------------------------------------------------------------------------
(* Idle models.                                                            *)

\* The timer's thread starts; it still has to acquire the lock.
TimerFires ==
  /\ timer
  /\ timer' = FALSE /\ dispatched' = dispatched \cup {"current"}
  /\ UNCHANGED <<current, active, status, claims, loaded, sessionVars, clientVars,
                 deleting, restarts>>

\* Mutant: a starting capture is not seen as one.
UnloadIdleDuringWarming(g) ==
  /\ g \in dispatched
  /\ dispatched' = dispatched \ {g}
  /\ loaded' = (loaded /\ active # NoSession)
  /\ UNCHANGED <<current, active, status, claims, timer, sessionVars, clientVars,
                 deleting, restarts>>

\* _unload_idle_models.
UnloadIdle(g) ==
  /\ g \in dispatched
  /\ dispatched' = dispatched \ {g}
  /\ loaded' = (loaded /\ (g = "stale" \/ active # NoSession \/ status \in Busy))
  /\ UNCHANGED <<current, active, status, claims, timer, sessionVars, clientVars,
                 deleting, restarts>>

-----------------------------------------------------------------------------
(* Deletion and restart.                                                   *)

\* Mutant: every session found at start is taken for an interrupted one.
LoadLatestAlwaysFailed(files, order) ==
  IF order = <<>>
  THEN current' = NoSession /\ status' = "idle" /\ manifest' = files
  ELSE /\ current' = order[Len(order)] /\ status' = "failed"
       /\ manifest' = [files EXCEPT ![order[Len(order)]] = "failed"]

\* _load_latest_session: the session.json written last decides the status,
\* and one that an earlier process left open is marked failed.
LoadLatest(files, order) ==
  IF order = <<>>
  THEN current' = NoSession /\ status' = "idle" /\ manifest' = files
  ELSE LET latest == order[Len(order)]
           found == IF files[latest] \in Open THEN "failed" ELSE files[latest]
       IN  /\ current' = latest /\ status' = found
           /\ manifest' = [files EXCEPT ![latest] = found]

\* A delete request reads active_session_id and starts trash_session.  (That
\* a capture which lost its lease is deleted while it runs is left out.)
DeleteCheck(s) ==
  /\ deleting.session = NoSession
  /\ manifest[s] # "none" /\ s # ActiveSessionId /\ ~Live(s)
  /\ deleting' = [session |-> s, trashed |-> FALSE]
  /\ UNCHANGED <<serviceVars, sessionVars, clientVars, restarts>>

\* trash_session moves the directory.
DeleteTrash ==
  /\ deleting.session # NoSession /\ ~deleting.trashed
  /\ manifest' = [manifest EXCEPT ![deleting.session] = "none"]
  /\ recency' = Without(recency, deleting.session)
  /\ deleting' = [deleting EXCEPT !.trashed = TRUE]
  /\ UNCHANGED <<serviceVars, pipe, callback, audio, clientVars, restarts>>

\* Mutant: the latest session is reloaded whichever session was deleted.
SessionDeletedUnchecked ==
  /\ deleting.trashed
  /\ LoadLatest(manifest, recency)
  /\ deleting' = [session |-> NoSession, trashed |-> FALSE]
  /\ UNCHANGED <<active, claims, loaded, timer, dispatched, pipe, callback, recency,
                 audio, clientVars, restarts>>

\* session_deleted.
SessionDeleted ==
  /\ deleting.trashed
  /\ IF current = deleting.session
     THEN LoadLatest(manifest, recency)
     ELSE UNCHANGED <<current, status, manifest>>
  /\ deleting' = [session |-> NoSession, trashed |-> FALSE]
  /\ UNCHANGED <<active, claims, loaded, timer, dispatched, pipe, callback, recency,
                 audio, clientVars, restarts>>

\* The process is killed, and a new one is started in the same workspace.
Restart ==
  /\ restarts < MaxRestarts /\ restarts' = restarts + 1
  /\ LoadLatest(manifest, recency)
  /\ active' = NoSession /\ loaded' = FALSE /\ timer' = FALSE /\ dispatched' = {}
  /\ pipe' = [s \in Sessions |-> "none"]
  /\ callback' = [s \in Sessions |-> "none"]
  /\ pc' = [c \in Clients |-> "idle"]
  /\ session' = [c \in Clients |-> NoSession]
  /\ target' = [c \in Clients |-> NoSession]
  /\ sent' = [c \in Clients |-> 0]
  /\ deleting' = [session |-> NoSession, trashed |-> FALSE]
  /\ UNCHANGED <<claims, recency, audio>>

-----------------------------------------------------------------------------

\* What a client's thread does on its own, once it captures.
ClientStep(c) ==
  \/ LoadModels(c) \/ CreateSession(c) \/ SetActive(c) \/ WriteProvenance(c)
  \/ StartFailed(c) \/ AcceptBlock(c) \/ BeginStop(c) \/ StopPipeline(c)
  \/ Settled(c) \/ ReadAbort(c) \/ AbortNothing(c) \/ AbortPipeline(c)
  \/ Delivered(c) \/ Finally(c) \/ Done(c)

\* What a client's source decides: another block, or the end.
SourceStep(c) == ReadActive(c) \/ ReadStop(c)

PipelineStep(s) == Settle(s) \/ CheckActive(s) \/ ReleaseLease(s)

Next ==
  \/ \E c \in Clients : Claim(c) \/ SourceFails(c) \/ ClientStep(c) \/ SourceStep(c)
  \/ \E s \in Sessions : PipelineStep(s) \/ DeleteCheck(s)
  \/ \E g \in {"current", "stale"} : UnloadIdle(g)
  \/ TimerFires \/ DeleteTrash \/ SessionDeleted \/ Restart

\* Threads run on; a replay or an upload ends by itself, a person need not.
Fairness ==
  /\ \A c \in Clients : WF_vars(ClientStep(c))
  /\ \A c \in Clients : Source[c] # "microphone" => WF_vars(SourceStep(c))
  /\ \A s \in Sessions : WF_vars(PipelineStep(s))

Spec == Init /\ [][Next]_vars
FairSpec == Spec /\ Fairness

-----------------------------------------------------------------------------
(* Properties.                                                             *)

Points == {"idle", "claimed", "loaded", "created", "provenance", "running",
           "block", "stop", "stopPipeline", "waiting", "startFailed", "error",
           "errorAgain", "abort", "abortAgain", "deliver", "deliverAgain",
           "finally", "done"}

\* Every variable holds a value of its kind.
TypeOK ==
  /\ current \in Sessions \cup {NoSession} /\ active \in Sessions \cup {NoSession}
  /\ status \in Busy \cup {"idle", "complete", "failed"}
  /\ claims \in 0..MaxSessions
  /\ loaded \in BOOLEAN /\ timer \in BOOLEAN
  /\ dispatched \subseteq {"current", "stale"}
  /\ pipe \in [Sessions -> {"none", "recording", "settling", "complete", "failed",
                            "aborted"}]
  /\ callback \in [Sessions -> {"none", "settled", "failed", "complete_session",
                                "fail_session", "sent"}]
  /\ manifest \in [Sessions -> Open \cup {"none", "complete", "failed"}]
  /\ recency \in Seq(Sessions)
  /\ audio \in [Sessions -> Seq(Clients)]
  /\ pc \in [Clients -> Points]
  /\ session \in [Clients -> Sessions \cup {NoSession}]
  /\ target \in [Clients -> Sessions \cup {NoSession}]
  /\ sent \in [Clients -> 0..MaxBlocks]
  /\ deleting \in [session : Sessions \cup {NoSession}, trashed : BOOLEAN]
  /\ restarts \in 0..MaxRestarts

\* A capture that records or settles holds the one lease, although claiming,
\* starting, failing and settling are sections of different threads: nobody can
\* claim another one beside it, and there are never two.  What a client sends
\* goes into the recording of the client that captures.
LiveCaptureHoldsLease ==
  /\ TypeOK
  /\ \A s \in Sessions : Live(s) => current = s /\ status \in Busy
  /\ \A c \in Clients : session[c] # NoSession =>
       \A i \in 1..Len(audio[session[c]]) : audio[session[c]][i] = c

\* The active session is the one most recently claimed or loaded.
ActiveIsCurrent == active # NoSession => active = current /\ status \in Busy

\* Models are not unloaded under a capture that starts, records or settles,
\* even by a timer that had fired before the capture was claimed.
UnloadSparesCaptures ==
  [][loaded /\ ~loaded' /\ restarts' = restarts =>
       /\ \A s \in Sessions : ~Live(s)
       /\ \A c \in Clients : pc[c] \notin {"loaded", "created"}]_vars

Final(s) ==
  manifest[s] \in {"complete", "failed"} => manifest'[s] \in {manifest[s], "none"}

\* Every recording gets one outcome: it is not reopened and its outcome does
\* not change by any abort, callback, deletion or restart, and a restart leaves
\* no session.json open, although it repairs only the one written last.
OutcomesAreFinal ==
  [][\A s \in Sessions :
       Final(s) /\ (restarts' # restarts => manifest'[s] \notin Open)]_vars

\* The lease is given back after every replay or upload, whatever fails.
LeaseReleased == status \in Busy ~> status \notin Busy

=============================================================================
