----------------------- MODULE CapturePipelineProofs -----------------------
(* Proofs about CapturePipeline, for every set of lanes, every hop, every   *)
(* bound on the audio and every combination of faults.                      *)
EXTENDS CapturePipeline, TLAPS

\* A step of the specification preserves the types of the variables.
LEMMA TypeStep == TypeOK /\ [Next]_vars => TypeOK'
<1> SUFFICES ASSUME TypeOK, [Next]_vars PROVE TypeOK'
  OBVIOUS
<1> USE ThreadsDistinct, HopPositive, ParametersOK
        DEF TypeOK, Threads, Modes, PipelineStates, ManifestStates,
            Points, HandlerPoints, LanePoints, SharedPoints,
            sessionVars, pipelineVars,
            At, Goto, NotifyAndGoto, Return, WriteSession, OpenStatus
<1>1. CASE AcceptBlock  BY <1>1 DEF AcceptBlock
<1>2. CASE Disconnect  BY <1>2 DEF Disconnect
<1>3. CASE BeginStop
  <2>1. CASE stopping \/ aborted  BY <1>3, <2>1 DEF BeginStop
  <2>2. CASE ~(stopping \/ aborted)
    <3>1. stopping' = TRUE /\ pc' = [pc EXCEPT ![Handler] = "settling"]
      BY <1>3, <2>2 DEF BeginStop
    <3>2. QED  BY <1>3, <3>1 DEF BeginStop
  <2>3. QED  BY <2>1, <2>2
<1>4. CASE ExternalAbort  BY <1>4 DEF ExternalAbort
<1>5. CASE StopStep
  <2>1. CASE EnterAcceptPcm  BY <2>1 DEF EnterAcceptPcm
  <2>2. CASE AppendPcm  BY <2>2 DEF AppendPcm
  <2>3. CASE AckBlock  BY <2>3 DEF AckBlock
  <2>4. CASE BeginSettling
    <3>1. captureClosed' \in BOOLEAN  BY <2>4 DEF BeginSettling
    <3>2. manifest' \in [status : ManifestStates, frames : Nat,
                         pipeline : PipelineStates]
      BY <2>4 DEF BeginSettling
    <3>3. pc' \in [Threads -> Points]  BY <2>4 DEF BeginSettling
    <3>4. QED  BY <2>4, <3>1, <3>2, <3>3 DEF BeginSettling
  <2>5. CASE StopNotify
    <3>1. AllCompleted \in BOOLEAN  BY DEF AllCompleted
    <3>2. snapshot' \in [all : BOOLEAN, state : PipelineStates]
      BY <2>5, <3>1 DEF StopNotify
    <3>3. pc' \in [Threads -> Points]  BY <2>5 DEF StopNotify
    <3>4. QED  BY <2>5, <3>2, <3>3 DEF StopNotify
  <2>6. CASE StopStatus  BY <2>6 DEF StopStatus, StatusState
  <2>7. CASE StopRecord  BY <2>7 DEF StopRecord
  <2>8. QED  BY <1>5, <2>1, <2>2, <2>3, <2>4, <2>5, <2>6, <2>7 DEF StopStep
<1>6. ASSUME NEW l \in Lanes, LaneStep(l) PROVE TypeOK'
  <2>1. CASE RunLane(l)  BY <2>1 DEF RunLane
  <2>2. CASE ProcessLane(l)  BY <2>2 DEF ProcessLane
  <2>3. CASE ObservePressure(l)  BY <2>3 DEF ObservePressure
  <2>4. CASE AccountRun(l)  BY <2>4 DEF AccountRun
  <2>5. CASE FinalizeLane(l)  BY <2>5 DEF FinalizeLane
  <2>6. CASE CompleteLane(l)  BY <2>6 DEF CompleteLane
  <2>7. CASE LaneRaised(l)  BY <2>7 DEF LaneRaised
  <2>8. CASE RecordStageError(l)  BY <2>8 DEF RecordStageError
  <2>9. CASE SettleCheck(l)  BY <2>9 DEF SettleCheck
  <2>10. QED
    BY <1>6, <2>1, <2>2, <2>3, <2>4, <2>5, <2>6, <2>7, <2>8, <2>9 DEF LaneStep
<1>7. ASSUME NEW t \in Threads, SharedStep(t) PROVE TypeOK'
  <2>1. CASE Finish(t)  BY <2>1 DEF Finish
  <2>2. CASE RunFinalizer(t)  BY <2>2 DEF RunFinalizer
  <2>3. CASE CompleteSettlement(t)
    <3>1. CASE closed \/ ~captureClosed  BY <2>3, <3>1 DEF CompleteSettlement
    <3>2. CASE ~(closed \/ ~captureClosed)
      <4>1. closed' = TRUE /\ pc' = [pc EXCEPT ![t] = "settled"]
        BY <2>3, <3>2 DEF CompleteSettlement
      <4>2. manifest' = [status |-> "complete", frames |-> head,
                         pipeline |-> pipelineStatus]
        BY <2>3, <3>2 DEF CompleteSettlement
      <4>3. QED  BY <2>3, <4>1, <4>2 DEF CompleteSettlement
    <3>3. QED  BY <3>1, <3>2
  <2>4. CASE SetSettled(t)  BY <2>4 DEF SetSettled
  <2>5. CASE SendCallback(t)  BY <2>5 DEF SendCallback
  <2>6. CASE Abort(t)
    <3>1. aborted' \in BOOLEAN  BY <2>6 DEF Abort
    <3>2. pc' \in [Threads -> Points]  BY <2>6 DEF Abort
    <3>3. condition' \in Lanes \cup {NoThread}  BY <2>6 DEF Abort
    <3>4. QED  BY <2>6, <3>1, <3>2, <3>3 DEF Abort
  <2>7. CASE AbortRecord(t)  BY <2>7 DEF AbortRecord, StatusState
  <2>8. CASE AbortMark(t)
    <3>1. captureClosed' \in BOOLEAN  BY <2>8 DEF AbortMark
    <3>2. pc' \in [Threads -> Points]  BY <2>8 DEF AbortMark
    <3>3. QED  BY <2>8, <3>1, <3>2 DEF AbortMark
  <2>9. CASE AbortClose(t)  BY <2>9 DEF AbortClose
  <2>10. QED
    BY <1>7, <2>1, <2>2, <2>3, <2>4, <2>5, <2>6, <2>7, <2>8, <2>9 DEF SharedStep
<1>8. CASE UNCHANGED vars  BY <1>8 DEF vars
<1>9. QED  BY <1>1, <1>2, <1>3, <1>4, <1>5, <1>6, <1>7, <1>8 DEF Next

\* The initial values have their types.
LEMMA InitTypes == Init => TypeOK
<1> SUFFICES ASSUME Init PROVE TypeOK
  OBVIOUS
<1>1. pc \in [Threads -> Points]
  BY DEF Init, Threads, Points, HandlerPoints, LanePoints, SharedPoints
<1>2. snapshot \in [all : BOOLEAN, state : PipelineStates]
  BY DEF Init, PipelineStates
<1>3. QED
  BY <1>1, <1>2, ParametersOK DEF Init, TypeOK, PipelineStates, ManifestStates

\* Every variable of the pipeline always holds a value of its kind.
THEOREM PipelineTypeCorrect == Spec => []TypeOK
BY InitTypes, TypeStep, PTL DEF Spec

-----------------------------------------------------------------------------
(* The inductive invariant behind the safety theorems.                     *)

\* Where a thread can be only once every lane has completed.
SettlingPoints == {"finish", "finalizer", "complete", "settled", "callSettled"}

\* The source thread feeds audio only before it asked for Stop, and reaches
\* the later part of begin_stop only after; a lane finalizes only after.
StopOrder ==
  /\ pc[Handler] \in {"open", "append", "appending", "ack"} => ~stopping
  /\ pc[Handler] \in {"settling", "notify", "status", "record"} => stopping
  /\ \A l \in Lanes :
       pc[l] \in {"finalize", "finalized", "reportStopping", "settleCheck"} => stopping

\* A completed lane has left its loop, and covers the audio unless it failed.
CompletedLanesDone ==
  /\ failed \subseteq completed
  /\ \A l \in completed :
       pc[l] \in {"reportRecording", "reportStopping", "settleCheck"} \cup SharedPoints
  /\ \A l \in completed \ failed : horizon[l] = head /\ stopping
  /\ \A l \in Lanes : pc[l] = "finalized" => horizon[l] = head

\* Settling, and everything settling publishes, comes after the last lane.
SettledAfterLanes ==
  /\ \A t \in Threads : pc[t] \in SettlingPoints => stopping /\ completed = Lanes
  /\ snapshot.all => completed = Lanes
  /\ manifest.status = "complete" =>
       stopping /\ completed = Lanes /\ manifest.frames = head
  /\ "settled" \in outcomes => stopping /\ completed = Lanes

\* A lane that settles or aborts the session owns the condition.
LaneSettlesOwning ==
  \A l \in Lanes : pc[l] \in SharedPoints \ {"done"} => condition = l

\* Work a lane has picked is within the audio, and so is what it published.
WorkWithinAudio ==
  \A l \in Lanes : /\ horizon[l] <= head
                   /\ pc[l] = "process" => horizon[l] + Hop[l] <= head

\* A session is closed only after it stopped accepting audio.
ClosedAfterCapture ==
  /\ closed => captureClosed
  /\ \A t \in Threads : pc[t] = "abortClose" => captureClosed

\* A deferred lane has no work in hand while the capture records.
DeferredIdle == \A l \in deferred : pc[l] = "process" => stopping

PipelineInv ==
  /\ TypeOK /\ StopOrder /\ CompletedLanesDone /\ SettledAfterLanes
  /\ LaneSettlesOwning /\ WorkWithinAudio /\ ClosedAfterCapture
  /\ DeferredIdle

\* Every step preserves the invariant: one case per action.
LEMMA SafetyStep == PipelineInv /\ [Next]_vars => PipelineInv'
<1> SUFFICES ASSUME PipelineInv, [Next]_vars PROVE PipelineInv'
  OBVIOUS
<1>0. TypeOK'
  BY TypeStep DEF PipelineInv
<1> USE <1>0, ThreadsDistinct, HopPositive
        DEF PipelineInv, StopOrder, CompletedLanesDone, SettledAfterLanes,
            LaneSettlesOwning, WorkWithinAudio, ClosedAfterCapture, DeferredIdle, TypeOK,
            Threads, SettlingPoints, SharedPoints, sessionVars, pipelineVars,
            At, Goto, NotifyAndGoto, Return, OwnsCondition, WriteSession, OpenStatus
<1>1. CASE AcceptBlock  BY <1>1 DEF AcceptBlock
<1>2. CASE Disconnect  BY <1>2 DEF Disconnect
<1>3. CASE BeginStop  BY <1>3 DEF BeginStop
<1>4. CASE ExternalAbort  BY <1>4 DEF ExternalAbort
<1>5. CASE StopStep
  <2>1. CASE EnterAcceptPcm  BY <2>1 DEF EnterAcceptPcm
  <2>2. CASE AppendPcm  BY <2>2 DEF AppendPcm
  <2>3. CASE AckBlock  BY <2>3 DEF AckBlock
  <2>4. CASE BeginSettling  BY <2>4 DEF BeginSettling
  <2>5. CASE StopNotify  BY <2>5 DEF StopNotify, AllCompleted
  <2>6. CASE StopStatus  BY <2>6 DEF StopStatus
  <2>7. CASE StopRecord  BY <2>7 DEF StopRecord
  <2>8. QED  BY <1>5, <2>1, <2>2, <2>3, <2>4, <2>5, <2>6, <2>7 DEF StopStep
<1>6. ASSUME NEW l \in Lanes, LaneStep(l) PROVE PipelineInv'
  <2>1. CASE RunLane(l)  BY <2>1 DEF RunLane, HasWork, HasPendingWork
  <2>2. CASE ProcessLane(l)  BY <2>2 DEF ProcessLane
  <2>3. CASE ObservePressure(l)  BY <2>3 DEF ObservePressure
  <2>4. CASE AccountRun(l)  BY <2>4 DEF AccountRun
  <2>5. CASE FinalizeLane(l)  BY <2>5 DEF FinalizeLane
  <2>6. CASE CompleteLane(l)  BY <2>6 DEF CompleteLane, AllCompleted
  <2>7. CASE LaneRaised(l)  BY <2>7 DEF LaneRaised
  <2>8. CASE RecordStageError(l)  BY <2>8 DEF RecordStageError
  <2>9. CASE SettleCheck(l)  BY <2>9 DEF SettleCheck, AllCompleted
  <2>10. QED
    BY <1>6, <2>1, <2>2, <2>3, <2>4, <2>5, <2>6, <2>7, <2>8, <2>9 DEF LaneStep
<1>7. ASSUME NEW t \in Threads, SharedStep(t) PROVE PipelineInv'
  <2>1. CASE Finish(t)  BY <2>1 DEF Finish
  <2>2. CASE RunFinalizer(t)  BY <2>2 DEF RunFinalizer
  <2>3. CASE CompleteSettlement(t)  BY <2>3 DEF CompleteSettlement
  <2>4. CASE SetSettled(t)  BY <2>4 DEF SetSettled
  <2>5. CASE SendCallback(t)  BY <2>5 DEF SendCallback
  <2>6. CASE Abort(t)  BY <2>6 DEF Abort
  <2>7. CASE AbortRecord(t)  BY <2>7 DEF AbortRecord
  <2>8. CASE AbortMark(t)  BY <2>8 DEF AbortMark
  <2>9. CASE AbortClose(t)  BY <2>9 DEF AbortClose
  <2>10. QED
    BY <1>7, <2>1, <2>2, <2>3, <2>4, <2>5, <2>6, <2>7, <2>8, <2>9 DEF SharedStep
<1>8. CASE UNCHANGED vars  BY <1>8 DEF vars
<1>9. QED  BY <1>1, <1>2, <1>3, <1>4, <1>5, <1>6, <1>7, <1>8 DEF Next

\* The invariant holds initially, so it always holds.
LEMMA InvInvariant == Spec => []PipelineInv
<1>1. Init => PipelineInv
  <2> SUFFICES ASSUME Init PROVE PipelineInv
    OBVIOUS
  <2>1. TypeOK  BY InitTypes
  <2>2. \A t \in Threads : pc[t] \in {"loop", "open", "idle"}
    BY DEF Init
  <2>3. pc[Handler] = "open"
    BY ThreadsDistinct DEF Init, Threads
  <2>4. Lanes \subseteq Threads
    BY DEF Threads
  <2>5. StopOrder /\ CompletedLanesDone
    BY <2>2, <2>3, <2>4 DEF Init, StopOrder, CompletedLanesDone
  <2>6. ~snapshot.all /\ manifest.status # "complete"
    BY DEF Init
  <2>7. SettledAfterLanes /\ LaneSettlesOwning
    BY <2>2, <2>4, <2>6
    DEF Init, SettledAfterLanes, LaneSettlesOwning, SettlingPoints, SharedPoints
  <2>8. WorkWithinAudio
    <3>1. head = 0 /\ \A l \in Lanes : horizon[l] = 0
      BY DEF Init
    <3>2. \A l \in Lanes : pc[l] # "process"
      BY <2>2, <2>4
    <3>3. ASSUME NEW l \in Lanes PROVE horizon[l] <= head
      BY <3>1
    <3>4. QED  BY <3>2, <3>3 DEF WorkWithinAudio
  <2>9. ~closed /\ deferred \subseteq Lanes
    <3>1. ~closed  BY DEF Init
    <3>2. deferred \subseteq Lanes  BY <2>1 DEF TypeOK
    <3>3. QED  BY <3>1, <3>2
  <2>10. ClosedAfterCapture /\ DeferredIdle
    BY <2>2, <2>4, <2>9 DEF ClosedAfterCapture, DeferredIdle
  <2>11. QED  BY <2>1, <2>5, <2>7, <2>8, <2>10 DEF PipelineInv
<1>2. QED  BY <1>1, SafetyStep, PTL DEF Spec

\* The published horizons of lane threads stay within the accepted audio.
THEOREM HorizonsStayWithinAudio == Spec => []HorizonsWithinAudio
<1>1. PipelineInv => HorizonsWithinAudio
  BY DEF PipelineInv, WorkWithinAudio, HorizonsWithinAudio
<1>2. QED  BY <1>1, InvInvariant, PTL

\* A recording is published complete only once its healthy lanes cover it.
THEOREM CompleteMeansCovered == Spec => []CompleteCoversAudio
<1>1. PipelineInv => CompleteCoversAudio
  BY DEF PipelineInv, CompletedLanesDone, SettledAfterLanes,
         CompleteCoversAudio, LanesCoverAudio
<1>2. QED  BY <1>1, InvInvariant, PTL

\* At most one lane runs _finish_settlement at any time.
THEOREM LanesSettleAlone == Spec => []LanesSettleOneAtATime
<1>1. PipelineInv => LanesSettleOneAtATime
  BY DEF PipelineInv, LaneSettlesOwning, LanesSettleOneAtATime, Settling,
         SharedPoints
<1>2. QED  BY <1>1, InvInvariant, PTL

\* A deferred lane publishes nothing before Stop.
THEOREM DeferredLanesStayIdle == Spec => DeferredLanesWait
<1>1. PipelineInv /\ [Next]_vars =>
        [\A l \in Lanes : l \in deferred /\ ~stopping => horizon'[l] = horizon[l]]_vars
  <2> SUFFICES ASSUME PipelineInv, Next, NEW l \in Lanes, l \in deferred, ~stopping
               PROVE  horizon'[l] = horizon[l]
    BY DEF vars
  <2> USE DEF PipelineInv, StopOrder, DeferredIdle, TypeOK, At
  <2>1. ASSUME NEW m \in Lanes, ProcessLane(m) PROVE horizon'[l] = horizon[l]
    BY <2>1 DEF ProcessLane
  <2>2. ASSUME NEW m \in Lanes, FinalizeLane(m) PROVE horizon'[l] = horizon[l]
    BY <2>2 DEF FinalizeLane
  <2>3. ASSUME NEW m \in Lanes, LaneStep(m) PROVE horizon'[l] = horizon[l]
    BY <2>1, <2>2, <2>3
    DEF LaneStep, RunLane, ObservePressure, AccountRun, CompleteLane, LaneRaised,
        RecordStageError, SettleCheck, sessionVars
  <2>4. ASSUME NEW t \in Threads, SharedStep(t) PROVE horizon'[l] = horizon[l]
    BY <2>4
    DEF SharedStep, Finish, RunFinalizer, CompleteSettlement, SetSettled,
        SendCallback, Abort, AbortRecord, AbortMark, AbortClose, sessionVars
  <2>5. CASE AcceptBlock \/ Disconnect \/ BeginStop \/ ExternalAbort \/ StopStep
    BY <2>5
    DEF AcceptBlock, Disconnect, BeginStop, ExternalAbort, StopStep,
        EnterAcceptPcm, AppendPcm, AckBlock, BeginSettling, StopNotify,
        StopStatus, StopRecord, sessionVars
  <2>6. QED  BY <2>3, <2>4, <2>5 DEF Next
<1>2. QED  BY <1>1, InvInvariant, PTL DEF Spec, DeferredLanesWait

-----------------------------------------------------------------------------
(* The pipeline implements RecordingContract.                              *)

\* A step that leaves the appender and the two flags of the session alone
\* leaves the phase alone.
LEMMA PhaseKept ==
  ASSUME (pc'[Handler] = "appending") <=> (pc[Handler] = "appending"),
         closed' = closed, captureClosed' = captureClosed
  PROVE  phase' = phase
BY DEF phase, At

\* Every step of the pipeline is a step of the contract, or none of its business.
LEMMA ContractStep == PipelineInv /\ [Next]_vars => [Contract!Next]_(Contract!contractVars)
<1> SUFFICES ASSUME PipelineInv, [Next]_vars
             PROVE  Contract!Next \/ UNCHANGED <<head, horizon, phase>>
  BY DEF Contract!contractVars
<1> USE ThreadsDistinct, HopPositive
        DEF PipelineInv, TypeOK, Threads, sessionVars, pipelineVars, At, Goto
<1>1. CASE UNCHANGED vars
  BY <1>1, PhaseKept DEF vars
<1>2. CASE AcceptBlock \/ Disconnect \/ BeginStop \/ ExternalAbort
  BY <1>2, PhaseKept DEF AcceptBlock, Disconnect, BeginStop, ExternalAbort
<1>3. CASE StopStep
  <2>1. CASE EnterAcceptPcm
    BY <2>1, PhaseKept DEF EnterAcceptPcm, phase
  <2>2. CASE AppendPcm
    <3>1. phase = "recording" /\ phase' \in {"recording", "settling", "sealed"}
      BY <2>2 DEF AppendPcm, phase
    <3>2. QED
      BY <2>2, <3>1 DEF AppendPcm, Contract!Next, Contract!AppendBlock, Contract!FreezeAudio
  <2>3. CASE BeginSettling
    <3>1. CASE closed \/ captureClosed
      BY <2>3, <3>1, PhaseKept DEF BeginSettling
    <3>2. CASE ~closed /\ ~captureClosed
      <4>1. phase = "recording" /\ phase' = "settling"
        BY <2>3, <3>2 DEF BeginSettling, phase
      <4>2. QED
        BY <2>3, <4>1 DEF BeginSettling, Contract!Next, Contract!FreezeAudio
    <3>3. QED  BY <3>1, <3>2
  <2>4. CASE AckBlock \/ StopNotify \/ StopStatus \/ StopRecord
    BY <2>4, PhaseKept DEF AckBlock, StopNotify, StopStatus, StopRecord, NotifyAndGoto
  <2>5. QED  BY <1>3, <2>1, <2>2, <2>3, <2>4 DEF StopStep
<1>4. ASSUME NEW l \in Lanes, LaneStep(l)
      PROVE  Contract!Next \/ UNCHANGED <<head, horizon, phase>>
  <2>1. (pc'[Handler] = "appending") <=> (pc[Handler] = "appending")
    BY <1>4
    DEF LaneStep, RunLane, ProcessLane, ObservePressure, AccountRun, FinalizeLane,
        CompleteLane, LaneRaised, RecordStageError, SettleCheck, NotifyAndGoto
  <2>2. closed' = closed /\ captureClosed' = captureClosed /\ head' = head
    BY <1>4
    DEF LaneStep, RunLane, ProcessLane, ObservePressure, AccountRun, FinalizeLane,
        CompleteLane, LaneRaised, RecordStageError, SettleCheck
  <2>3. phase' = phase
    BY <2>1, <2>2, PhaseKept
  <2>4. CASE horizon' = horizon
    BY <2>2, <2>3, <2>4
  <2>5. CASE \E sample \in horizon[l]..head : ~closed /\ StateLockFree
                 /\ horizon' = [horizon EXCEPT ![l] = sample]
    BY <2>2, <2>3, <2>5
    DEF StateLockFree, phase, Contract!Next, Contract!PublishHorizon
  <2>6. CASE ProcessLane(l) /\ horizon' # horizon
    <3>1. horizon[l] + Hop[l] \in horizon[l]..head
      BY <2>6 DEF ProcessLane, WorkWithinAudio
    <3>2. horizon' = [horizon EXCEPT ![l] = horizon[l] + Hop[l]] /\ ~closed /\ StateLockFree
      BY <2>6 DEF ProcessLane
    <3>3. QED  BY <2>5, <3>1, <3>2
  <2>7. CASE FinalizeLane(l) /\ horizon' # horizon
    <3>1. head \in horizon[l]..head
      BY DEF WorkWithinAudio
    <3>2. horizon' = [horizon EXCEPT ![l] = head] /\ ~closed /\ StateLockFree
      BY <2>7 DEF FinalizeLane
    <3>3. QED  BY <2>5, <3>1, <3>2
  <2>8. QED
    BY <1>4, <2>4, <2>6, <2>7
    DEF LaneStep, RunLane, ObservePressure, AccountRun, CompleteLane, LaneRaised,
        RecordStageError, SettleCheck
<1>5. ASSUME NEW t \in Threads, SharedStep(t)
      PROVE  Contract!Next \/ UNCHANGED <<head, horizon, phase>>
  <2>1. (pc'[Handler] = "appending") <=> (pc[Handler] = "appending")
    BY <1>5
    DEF SharedStep, Finish, RunFinalizer, CompleteSettlement, SetSettled, SendCallback,
        Abort, AbortRecord, AbortMark, AbortClose, NotifyAndGoto, Return
  <2>2. head' = head /\ horizon' = horizon
    BY <1>5
    DEF SharedStep, Finish, RunFinalizer, CompleteSettlement, SetSettled, SendCallback,
        Abort, AbortRecord, AbortMark, AbortClose
  <2>3. phase' = phase \/ (phase = "recording" /\ phase' = "settling")
                       \/ (phase = "settling" /\ phase' = "sealed")
    <3>1. CASE CompleteSettlement(t)
      BY <3>1, <2>1 DEF CompleteSettlement, phase, StateLockFree
    <3>2. CASE AbortMark(t)
      BY <3>2, <2>1 DEF AbortMark, phase, ClosedAfterCapture
    <3>3. CASE AbortClose(t)
      BY <3>3, <2>1 DEF AbortClose, phase, ClosedAfterCapture
    <3>4. CASE Finish(t) \/ RunFinalizer(t) \/ SetSettled(t) \/ SendCallback(t)
                 \/ Abort(t) \/ AbortRecord(t)
      BY <3>4, <2>1, PhaseKept
      DEF Finish, RunFinalizer, SetSettled, SendCallback, Abort, AbortRecord
    <3>5. QED  BY <1>5, <3>1, <3>2, <3>3, <3>4 DEF SharedStep
  <2>4. QED
    BY <2>2, <2>3 DEF Contract!Next, Contract!FreezeAudio, Contract!Seal
<1>6. QED  BY <1>1, <1>2, <1>3, <1>4, <1>5 DEF Next

\* The pipeline implements the contract of a recording: audio grows only while
\* recording, horizons only advance, and a sealed session is frozen.
THEOREM PipelineImplementsContract == Spec => ImplementsContract
<1>1. Init => Contract!Init
  BY ThreadsDistinct DEF Init, Contract!Init, phase, At, Threads
<1>2. QED
  BY <1>1, ContractStep, InvInvariant, PTL DEF Spec, ImplementsContract, Contract!Spec
=============================================================================
