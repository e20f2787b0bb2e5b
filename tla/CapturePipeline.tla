--------------------------- MODULE CapturePipeline ---------------------------
(***************************************************************************)
(* One corrected capture: a CorrectedSession (the durable recording, its   *)
(* horizons and its session.json) driven by a CorrectedSessionPipeline     *)
(* (one thread per model lane).  The threads are                           *)
(*                                                                         *)
(*   Handler   the WebSocket handler, replay or upload thread that feeds   *)
(*             PCM blocks, asks for Stop, and aborts when it fails;        *)
(*   Closer    any other caller of abort: CaptureApplicationService.close  *)
(*             or a request whose failure aborts the active capture;       *)
(*   Lanes     the lane threads, which process, finalize and settle.       *)
(*                                                                         *)
(* A step of a thread is one critical section of the code: a block under   *)
(* the pipeline's condition, or one under the session's state lock.  The   *)
(* condition is held over several steps only by a lane that settles the    *)
(* session, so that is the only case in which its owner is state.  The     *)
(* state lock spans two steps only while accept_pcm appends a block, which *)
(* lets session.abort, which takes no lock, come in between.               *)
(*                                                                         *)
(* Time in samples is counted in the units the lanes consume: a block      *)
(* brings one unit, and lane l decodes Hop[l] units at a time.             *)
(***************************************************************************)
EXTENDS Naturals

CONSTANTS
  Lanes,        \* names of the attached lanes
  Commit,       \* name of the commit lane, a member of Lanes when attached
  Handler,      \* the thread that feeds and stops the capture
  Closer,       \* a thread that may abort it from outside
  NoThread,     \* nobody
  Hop,          \* units of audio one decode of a lane consumes
  MaxHead,      \* bound: blocks the source sends
  InitialMode,  \* correction mode selected when the session starts
  Faults        \* which of "lane", "finalizer", "disk", "abort" may occur

Modes == {"live", "delayed", "after-stop", "unavailable"}
FaultKinds == {"lane", "finalizer", "disk", "abort"}

ASSUME ThreadsDistinct ==
  /\ Handler \notin Lanes /\ Closer \notin Lanes /\ Handler # Closer
  /\ NoThread \notin Lanes \cup {Handler, Closer}
ASSUME HopPositive == Hop \in [Lanes -> Nat \ {0}]
ASSUME ParametersOK ==
  MaxHead \in Nat /\ InitialMode \in Modes /\ Faults \subseteq FaultKinds

Threads == Lanes \cup {Handler, Closer}

VARIABLES
  head,           \* horizons.audio_head_sample
  horizon,        \* per lane, the horizon its updates have published
  captureClosed,  \* CorrectedSession._capture_closed
  closed,         \* CorrectedSession.closed
  stageErrors,    \* lanes with an entry in _stage_errors
  mode,           \* correction_mode
  pipelineStatus, \* the state inside CorrectedSession._pipeline_status
  manifest,       \* session.json: status, source_frame_count, pipeline state
  stopping, aborted, settled, callbackSent, deferred,
  completed,      \* lanes whose _LaneState.completed is set
  failed,         \* lanes whose _LaneState.error is set
  outcomes,       \* callbacks delivered to the application
  condition,      \* owner of the pipeline condition between steps
  snapshot,       \* begin_stop's all_completed and status() results
  pc              \* next critical section of every thread

sessionVars == <<head, horizon, captureClosed, closed, stageErrors, mode,
                 pipelineStatus, manifest>>
pipelineVars == <<stopping, aborted, settled, callbackSent, deferred,
                  completed, failed, outcomes>>
vars == <<sessionVars, pipelineVars, condition, snapshot, pc>>

-----------------------------------------------------------------------------

PipelineStates == {"none", "recording", "settling", "complete", "failed"}
ManifestStates == {"active", "stopping", "complete", "failed"}
HandlerPoints == {"open", "append", "appending", "ack", "settling", "notify", "status",
                  "record"}
LanePoints == {"loop", "waiting", "process", "pressure", "account", "defer",
               "finalize", "finalized", "raised", "reportRecording",
               "reportStopping", "settleCheck"}
SharedPoints == {"finish", "finalizer", "complete", "settled", "callSettled",
                 "abort", "abortRecord", "abortMark", "abortClose",
                 "abortSettled", "callFailed", "done"}
Points == {"idle"} \cup HandlerPoints \cup LanePoints \cup SharedPoints

Init ==
  /\ head = 0 /\ horizon = [l \in Lanes |-> 0]
  /\ captureClosed = FALSE /\ closed = FALSE
  /\ stageErrors = {} /\ mode = InitialMode
  /\ pipelineStatus = "none"
  /\ manifest = [status |-> "active", frames |-> 0, pipeline |-> "none"]
  /\ stopping = FALSE /\ aborted = FALSE /\ settled = FALSE
  /\ callbackSent = FALSE
  /\ deferred = IF InitialMode = "after-stop" THEN {Commit} \cap Lanes ELSE {}
  /\ completed = {} /\ failed = {} /\ outcomes = {}
  /\ condition = NoThread
  /\ snapshot = [all |-> FALSE, state |-> "none"]
  /\ pc = [t \in Threads |-> IF t \in Lanes THEN "loop"
                             ELSE IF t = Handler THEN "open" ELSE "idle"]

-----------------------------------------------------------------------------
(* Pieces of the steps.                                                    *)

At(t, point) == pc[t] = point
Goto(t, point) == pc' = [pc EXCEPT ![t] = point]

\* The thread can acquire, or already owns, the pipeline condition.
OwnsCondition(t) == condition \in {NoThread, t}

\* The session's state lock is free.
StateLockFree == ~At(Handler, "appending")

\* Mutant: the notification is forgotten.
NotifyAndGotoSilent(t, point) == pc' = [pc EXCEPT ![t] = point]

\* notify_all, after which thread t continues at the point given.
NotifyAndGoto(t, point) ==
  pc' = [u \in Threads |-> IF u = t THEN point
                           ELSE IF pc[u] = "waiting" THEN "loop" ELSE pc[u]]

\* Leave begin_stop, abort or the lane's run loop, releasing the condition.
Return(t) ==
  /\ Goto(t, "done")
  /\ condition' = IF condition = t THEN NoThread ELSE condition

\* CorrectedSession._write_session: the file and _manifest_status together.
WriteSession(status, state) ==
  manifest' = [status |-> status, frames |-> head, pipeline |-> state]

\* The status a rewrite during the session chooses, whatever it held before.
OpenStatus == IF captureClosed THEN "stopping" ELSE "active"

\* Mutant: any lane instead of all.
AnyCompleted == completed # {}

AllCompleted == completed = Lanes

\* CorrectedSessionPipeline.status()["state"].
StatusState ==
  IF aborted THEN "failed"
  ELSE IF settled THEN "complete"
  ELSE IF stopping THEN "settling" ELSE "recording"

HasPendingWork(l) == horizon[l] + Hop[l] <= head

HasWork(l) == HasPendingWork(l) /\ (stopping \/ l \notin deferred)

-----------------------------------------------------------------------------
(* The source thread: accept_block, begin_stop, and its error handler.     *)

\* accept_block up to the release of the condition.
AcceptBlock ==
  /\ At(Handler, "open") /\ head < MaxHead /\ OwnsCondition(Handler)
  /\ Goto(Handler, IF stopping \/ aborted THEN "abort" ELSE "append")
  /\ UNCHANGED <<sessionVars, pipelineVars, condition, snapshot>>

\* CorrectedSession.accept_pcm: take the state lock, unless it is refused.
EnterAcceptPcm ==
  /\ At(Handler, "append")
  /\ Goto(Handler, IF closed \/ captureClosed THEN "abort" ELSE "appending")
  /\ UNCHANGED <<sessionVars, pipelineVars, condition, snapshot>>

\* CorrectedSession.accept_pcm: append to the audio log, advance the head.
AppendPcm ==
  /\ At(Handler, "appending")
  /\ \/ head' = head + 1 /\ Goto(Handler, "ack")
     \/ "disk" \in Faults /\ Goto(Handler, "abort") /\ UNCHANGED head
  /\ UNCHANGED <<horizon, captureClosed, closed, stageErrors, mode,
                 pipelineStatus, manifest, pipelineVars, condition, snapshot>>

\* The tail of accept_block: counters, and the wake-up of waiting lanes.
AckBlock ==
  /\ At(Handler, "ack") /\ OwnsCondition(Handler)
  /\ NotifyAndGoto(Handler, "open")
  /\ UNCHANGED <<sessionVars, pipelineVars, condition, snapshot>>

\* The connection closes before Stop, or a message is refused.
Disconnect ==
  /\ At(Handler, "open")
  /\ Goto(Handler, "abort")
  /\ UNCHANGED <<sessionVars, pipelineVars, condition, snapshot>>

\* begin_stop: set _stopping, without waking the lanes yet.
BeginStop ==
  /\ At(Handler, "open") /\ OwnsCondition(Handler)
  /\ IF stopping \/ aborted
     THEN Goto(Handler, "abort") /\ UNCHANGED stopping
     ELSE Goto(Handler, "settling") /\ stopping' = TRUE
  /\ UNCHANGED <<sessionVars, aborted, settled, callbackSent, deferred,
                 completed, failed, outcomes, condition, snapshot>>

\* CorrectedSession.begin_settling; closing the audio log may hit the disk.
BeginSettling ==
  /\ At(Handler, "settling")
  /\ \/ /\ ~closed /\ ~captureClosed
        /\ captureClosed' = TRUE
        /\ \/ WriteSession("stopping", pipelineStatus)
              /\ Goto(Handler, "notify")
           \/ /\ "disk" \in Faults
              /\ Goto(Handler, "abort") /\ UNCHANGED manifest
     \/ /\ closed \/ captureClosed
        /\ Goto(Handler, "abort") /\ UNCHANGED <<captureClosed, manifest>>
  /\ UNCHANGED <<head, horizon, closed, stageErrors, mode, pipelineStatus,
                 pipelineVars, condition, snapshot>>

\* begin_stop: wake the lanes and see whether all of them had completed.
StopNotify ==
  /\ At(Handler, "notify") /\ OwnsCondition(Handler)
  /\ snapshot' = [snapshot EXCEPT !.all = AllCompleted]
  /\ NotifyAndGoto(Handler, "status")
  /\ UNCHANGED <<sessionVars, pipelineVars, condition>>

\* begin_stop: status(), evaluated before record_pipeline_status is entered.
StopStatus ==
  /\ At(Handler, "status") /\ OwnsCondition(Handler)
  /\ snapshot' = [snapshot EXCEPT !.state = StatusState]
  /\ Goto(Handler, "record")
  /\ UNCHANGED <<sessionVars, pipelineVars, condition>>

\* begin_stop: persist that status, and settle at once if nothing is left.
StopRecord ==
  /\ At(Handler, "record")
  /\ pipelineStatus' = snapshot.state
  /\ WriteSession(manifest.status, snapshot.state)
  /\ Goto(Handler, IF Lanes = {} \/ snapshot.all THEN "finish" ELSE "done")
  /\ UNCHANGED <<head, horizon, captureClosed, closed, stageErrors, mode,
                 pipelineVars, condition, snapshot>>

\* Another thread starts to abort the capture.
ExternalAbort ==
  /\ "abort" \in Faults /\ At(Closer, "idle")
  /\ Goto(Closer, "abort")
  /\ UNCHANGED <<sessionVars, pipelineVars, condition, snapshot>>

-----------------------------------------------------------------------------
(* A lane thread: _run_lane.                                               *)

\* One evaluation of wait_for's predicate and of the decisions after it.
RunLane(l) ==
  /\ At(l, "loop") /\ OwnsCondition(l)
  /\ Goto(l, IF aborted THEN "done"
             ELSE IF HasWork(l) THEN "process"
             ELSE IF stopping THEN "finalize" ELSE "waiting")
  /\ UNCHANGED <<sessionVars, pipelineVars, condition, snapshot>>

\* Mutant: results are published whether or not the session is closed.
ProcessLaneAfterClose(l) ==
  /\ At(l, "process") /\ StateLockFree
  /\ horizon' = [horizon EXCEPT ![l] = @ + Hop[l]]
  /\ Goto(l, "account")
  /\ UNCHANGED <<head, captureClosed, closed, stageErrors, mode,
                 pipelineStatus, manifest, pipelineVars, condition, snapshot>>

\* process_lane with one work item: infer, reconcile, publish the horizon.
ProcessLane(l) ==
  /\ At(l, "process") /\ StateLockFree
  /\ \/ /\ ~closed
        /\ horizon' = [horizon EXCEPT ![l] = @ + Hop[l]]
        /\ Goto(l, IF l = Commit THEN "pressure" ELSE "account")
     \/ /\ closed \/ "lane" \in Faults
        /\ Goto(l, "raised") /\ UNCHANGED horizon
  /\ UNCHANGED <<head, captureClosed, closed, stageErrors, mode,
                 pipelineStatus, manifest, pipelineVars, condition, snapshot>>

\* observe_lane_pressure: the commit lane may be demoted, only downwards.
ObservePressure(l) ==
  /\ At(l, "pressure") /\ StateLockFree
  /\ \/ Goto(l, "account") /\ UNCHANGED <<mode, manifest>>
     \/ /\ mode = "live"
        /\ mode' = "delayed" /\ WriteSession(OpenStatus, pipelineStatus)
        /\ Goto(l, "account")
     \/ /\ mode \in {"live", "delayed"}
        /\ mode' = "after-stop" /\ WriteSession(OpenStatus, pipelineStatus)
        /\ Goto(l, "defer")
  /\ UNCHANGED <<head, horizon, captureClosed, closed, stageErrors,
                 pipelineStatus, pipelineVars, condition, snapshot>>

\* _run_lane after the decode: counters, deferral, and another turn.
AccountRun(l) ==
  /\ pc[l] \in {"account", "defer"} /\ OwnsCondition(l)
  /\ deferred' = IF At(l, "defer") THEN deferred \cup {l} ELSE deferred
  /\ NotifyAndGoto(l, "loop")
  /\ UNCHANGED <<sessionVars, stopping, aborted, settled, callbackSent,
                 completed, failed, outcomes, condition, snapshot>>

\* finalize_lane: flush the tail up to the audio head.
FinalizeLane(l) ==
  /\ At(l, "finalize") /\ StateLockFree
  /\ \/ /\ ~closed /\ captureClosed
        /\ horizon' = [horizon EXCEPT ![l] = head]
        /\ Goto(l, "finalized")
     \/ /\ closed \/ ~captureClosed \/ "lane" \in Faults
        /\ Goto(l, "raised") /\ UNCHANGED horizon
  /\ UNCHANGED <<head, captureClosed, closed, stageErrors, mode,
                 pipelineStatus, manifest, pipelineVars, condition, snapshot>>

\* The lane is complete; the last one settles, still holding the condition.
CompleteLane(l) ==
  /\ At(l, "finalized") /\ OwnsCondition(l)
  /\ completed' = completed \cup {l}
  /\ IF completed' = Lanes
     THEN Goto(l, "finish") /\ condition' = l
     ELSE Goto(l, "done") /\ UNCHANGED condition
  /\ UNCHANGED <<sessionVars, stopping, aborted, settled, callbackSent,
                 deferred, failed, outcomes, snapshot>>

\* The exception handler of _run_lane: its first section.
LaneRaised(l) ==
  /\ At(l, "raised") /\ OwnsCondition(l)
  /\ completed' = completed \cup {l} /\ failed' = failed \cup {l}
  /\ Goto(l, IF stopping THEN "reportStopping" ELSE "reportRecording")
  /\ UNCHANGED <<sessionVars, stopping, aborted, settled, callbackSent,
                 deferred, outcomes, condition, snapshot>>

\* record_stage_error, which rewrites the manifest whatever its status is.
RecordStageError(l) ==
  /\ pc[l] \in {"reportRecording", "reportStopping"} /\ StateLockFree
  /\ stageErrors' = stageErrors \cup {l}
  /\ mode' = IF l = Commit THEN "unavailable" ELSE mode
  /\ WriteSession(OpenStatus, pipelineStatus)
  /\ Goto(l, IF At(l, "reportStopping") THEN "settleCheck" ELSE "done")
  /\ UNCHANGED <<head, horizon, captureClosed, closed, pipelineStatus,
                 pipelineVars, condition, snapshot>>

\* The exception handler's last section: the failed lane may settle too.
SettleCheck(l) ==
  /\ At(l, "settleCheck") /\ OwnsCondition(l)
  /\ IF AllCompleted
     THEN Goto(l, "finish") /\ condition' = l
     ELSE Goto(l, "done") /\ UNCHANGED condition
  /\ UNCHANGED <<sessionVars, pipelineVars, snapshot>>

-----------------------------------------------------------------------------
(* _finish_settlement, run by a lane or by begin_stop.                     *)

Finish(t) ==
  /\ At(t, "finish")
  /\ IF settled \/ aborted
     THEN Return(t)
     ELSE Goto(t, "finalizer") /\ UNCHANGED condition
  /\ UNCHANGED <<sessionVars, pipelineVars, snapshot>>

\* The finalizer, then record_pipeline_status with state complete.
RunFinalizer(t) ==
  /\ At(t, "finalizer")
  /\ \/ /\ OwnsCondition(t) /\ StateLockFree
        /\ pipelineStatus' = "complete"
        /\ Goto(t, "complete")
     \/ /\ "finalizer" \in Faults
        /\ Goto(t, "abort") /\ UNCHANGED pipelineStatus
  /\ UNCHANGED <<head, horizon, captureClosed, closed, stageErrors, mode,
                 manifest, pipelineVars, condition, snapshot>>

\* CorrectedSession.complete_settlement.
CompleteSettlement(t) ==
  /\ At(t, "complete") /\ StateLockFree
  /\ IF closed \/ ~captureClosed
     THEN Goto(t, "abort") /\ UNCHANGED <<closed, manifest>>
     ELSE /\ closed' = TRUE
          /\ WriteSession("complete", pipelineStatus)
          /\ Goto(t, "settled")
  /\ UNCHANGED <<head, horizon, captureClosed, stageErrors, mode,
                 pipelineStatus, pipelineVars, condition, snapshot>>

\* _settled.set(), and the read of _callback_sent that decides the callback.
SetSettled(t) ==
  /\ pc[t] \in {"settled", "abortSettled"}
  /\ settled' = TRUE
  /\ IF callbackSent
     THEN Return(t)
     ELSE /\ Goto(t, IF At(t, "settled") THEN "callSettled" ELSE "callFailed")
          /\ UNCHANGED condition
  /\ UNCHANGED <<sessionVars, stopping, aborted, callbackSent, deferred,
                 completed, failed, outcomes, snapshot>>

\* on_settled or on_failed is called.
SendCallback(t) ==
  /\ pc[t] \in {"callSettled", "callFailed"}
  /\ callbackSent' = TRUE
  /\ outcomes' = outcomes \cup
       {IF At(t, "callSettled") THEN "settled" ELSE "failed"}
  /\ Return(t)
  /\ UNCHANGED <<sessionVars, stopping, aborted, settled, deferred, completed,
                 failed, snapshot>>

-----------------------------------------------------------------------------
(* CorrectedSessionPipeline.abort and CorrectedSession.abort, which takes  *)
(* no lock.                                                                *)

Abort(t) ==
  /\ At(t, "abort") /\ OwnsCondition(t)
  /\ IF settled \/ aborted
     THEN Return(t) /\ UNCHANGED aborted
     ELSE /\ aborted' = TRUE
          /\ NotifyAndGoto(t, "abortRecord")
          /\ UNCHANGED condition
  /\ UNCHANGED <<sessionVars, stopping, settled, callbackSent, deferred,
                 completed, failed, outcomes, snapshot>>

\* record_pipeline_status of a status that says failed, not persisted.
AbortRecord(t) ==
  /\ At(t, "abortRecord") /\ OwnsCondition(t) /\ StateLockFree
  /\ pipelineStatus' = StatusState
  /\ Goto(t, "abortMark")
  /\ UNCHANGED <<head, horizon, captureClosed, closed, stageErrors, mode,
                 manifest, pipelineVars, condition, snapshot>>

\* session.abort: nothing more for a closed session, else refuse new audio.
AbortMark(t) ==
  /\ At(t, "abortMark")
  /\ IF closed
     THEN Goto(t, "abortSettled") /\ UNCHANGED captureClosed
     ELSE Goto(t, "abortClose") /\ captureClosed' = TRUE
  /\ UNCHANGED <<head, horizon, closed, stageErrors, mode, pipelineStatus,
                 manifest, pipelineVars, condition, snapshot>>

\* The last writes of session.abort: closed, and a manifest that says failed.
AbortClose(t) ==
  /\ At(t, "abortClose")
  /\ closed' = TRUE
  /\ WriteSession("failed", pipelineStatus)
  /\ Goto(t, "abortSettled")
  /\ UNCHANGED <<head, horizon, captureClosed, stageErrors, mode,
                 pipelineStatus, pipelineVars, condition, snapshot>>

-----------------------------------------------------------------------------

SharedStep(t) ==
  \/ Finish(t) \/ RunFinalizer(t) \/ CompleteSettlement(t)
  \/ SetSettled(t) \/ SendCallback(t)
  \/ Abort(t) \/ AbortRecord(t) \/ AbortMark(t) \/ AbortClose(t)

\* What the source thread does on its own once a block or Stop arrived.
StopStep ==
  \/ EnterAcceptPcm \/ AppendPcm \/ AckBlock
  \/ BeginSettling \/ StopNotify \/ StopStatus \/ StopRecord

LaneStep(l) ==
  \/ RunLane(l) \/ ProcessLane(l) \/ ObservePressure(l) \/ AccountRun(l)
  \/ FinalizeLane(l) \/ CompleteLane(l) \/ LaneRaised(l)
  \/ RecordStageError(l) \/ SettleCheck(l)

Next ==
  \/ AcceptBlock \/ Disconnect \/ BeginStop \/ ExternalAbort
  \/ StopStep
  \/ \E l \in Lanes : LaneStep(l)
  \/ \E t \in Threads : SharedStep(t)

\* Threads keep running once started: inference and file operations return.
\* The client owes nothing: it may stream, stop or disconnect, or never act.
Fairness ==
  /\ WF_vars(StopStep)
  /\ \A l \in Lanes : WF_vars(LaneStep(l))
  /\ \A t \in Threads : WF_vars(SharedStep(t))

Spec == Init /\ [][Next]_vars
FairSpec == Spec /\ Fairness

-----------------------------------------------------------------------------
(* Properties.                                                             *)

\* Every variable holds a value of its kind.
TypeOK ==
  /\ head \in Nat /\ horizon \in [Lanes -> Nat]
  /\ captureClosed \in BOOLEAN /\ closed \in BOOLEAN
  /\ stageErrors \subseteq Lanes /\ mode \in Modes
  /\ pipelineStatus \in PipelineStates
  /\ manifest \in [status : ManifestStates, frames : Nat,
                   pipeline : PipelineStates]
  /\ stopping \in BOOLEAN /\ aborted \in BOOLEAN /\ settled \in BOOLEAN
  /\ callbackSent \in BOOLEAN
  /\ deferred \subseteq Lanes /\ completed \subseteq Lanes
  /\ failed \subseteq Lanes /\ outcomes \subseteq {"settled", "failed"}
  /\ condition \in Lanes \cup {NoThread}
  /\ snapshot \in [all : BOOLEAN, state : PipelineStates]
  /\ pc \in [Threads -> Points]

\* A lane's published horizon lies within the accepted audio, although the
\* decision to decode, the decode and the publication are separate steps.
HorizonsWithinAudio == \A l \in Lanes : horizon[l] <= head

\* Every lane that has not failed has published results up to the audio head.
LanesCoverAudio ==
  completed = Lanes /\ \A l \in Lanes \ failed : horizon[l] = head

\* A recording is published complete, in session.json or to the application,
\* only when every lane is done and the healthy ones cover all the audio, and
\* then session.json counts exactly the audio accepted.
CompleteCoversAudio ==
  /\ manifest.status = "complete" => LanesCoverAudio /\ manifest.frames = head
  /\ "settled" \in outcomes => LanesCoverAudio

\* A lane in _finish_settlement, up to the moment the session is settled.
Settling(l) == pc[l] \in {"finish", "finalizer", "complete", "settled"}

\* Two lanes never settle the session at the same time, whichever of the two
\* ways (finalized or failed) made each of them the last one.
LanesSettleOneAtATime ==
  \A l, m \in Lanes : Settling(l) /\ Settling(m) => l = m

\* A lane deferred until Stop does not decode while the capture records.
DeferredLanesWait ==
  [][\A l \in Lanes : l \in deferred /\ ~stopping => horizon'[l] = horizon[l]]_vars

\* The phase of the recording as its readers see it: an abort that lands while
\* a block is being appended takes effect once that block is in.
phase ==
  IF At(Handler, "appending") THEN "recording"
  ELSE IF closed THEN "sealed"
  ELSE IF captureClosed THEN "settling" ELSE "recording"

Contract == INSTANCE RecordingContract WITH
  Lanes <- Lanes, head <- head, horizon <- horizon, phase <- phase

\* The pipeline implements the contract: audio only grows, and only while
\* recording; horizons only advance, within the audio; a sealed session is
\* frozen, even with decodes in flight when an abort seals it.
ImplementsContract == Contract!Spec

\* Once Stop or an abort began the application is told an outcome, so that
\* its capture lease is released, and every lane thread runs to its end: no
\* lane sleeps through a notification, whatever fails.
StopEnds ==
  stopping \/ aborted ~> outcomes # {} /\ \A l \in Lanes : At(l, "done")

\* Without faults a stopped capture leaves no lane failed. This does not hold: a
\* lane that looks between BeginStop and BeginSettling finalizes during capture,
\* and fails.
CleanStopKeepsLanes == Faults = {} => failed = {}

=============================================================================
