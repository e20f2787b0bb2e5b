------------------------- MODULE LegacyWorkbenchProofs -------------------------
(***************************************************************************)
(* Proofs about LegacyWorkbench, for any number of pages, uploads, blocks  *)
(* and deaths of the process, and with every fault: the live slot is held  *)
(* by a handler that records, and a job that is complete stays complete.   *)
(***************************************************************************)
EXTENDS LegacyWorkbench, SequenceTheorems, TLAPS

-------------------------------------------------------------------------------
(* Types.  A page that lost no block has sent as many as it recorded, which *)
(* is why head stays below the bound.                                       *)
FileStates == {None, "open", "closed", "captured", "failed"}
JobStates == {None, "streaming", "queued", "transcribing", "complete", "failed"}
Stages == {"idle", "transcribe", "reconcile", "complete", "failed"}

\* Everything but the place of the handlers, the table and the worker.
Kept == claim \in Live \cup {None} /\ restarts \in 0..MaxRestarts
        /\ recorded \in [Live -> 0..MaxBlocks] /\ head \in [Live -> 0..MaxBlocks]
        /\ file \in [Live -> FileStates]

Table == /\ input \in [Jobs -> Nat] /\ run \in [Jobs -> {None, "complete", "reconciled"}]
         /\ jobs \in [Jobs -> JobStates] /\ queue \in Seq(Jobs)
         /\ worker \in [job : Jobs \cup {None}, step : Stages]

Typed == pc \in [Jobs -> Steps] /\ Kept /\ Table

LEMMA TypedIsTypeOK ==
  Typed => TypeOK
  BY DEF Typed, TypeOK, Kept, Table, FileStates, JobStates, Stages

LEMMA TypeInit ==
  Init => Typed
<1> SUFFICES ASSUME Init PROVE Typed
  OBVIOUS
<1>1. pc \in [Jobs -> Steps] /\ Kept
  BY LegacyConstants DEF Init, Kept, Steps, FileStates
<1>2. Table
  BY DEF Init, Table, JobStates, Stages, Resting
<1> QED
  BY <1>1, <1>2 DEF Typed

LEMMA TypePageStep ==
  ASSUME Typed, NEW c \in Live, Page(c)
  PROVE  Typed'
<1>1. pc \in [Jobs -> Steps] /\ Kept /\ Table /\ c \in Jobs
  BY DEF Typed, Jobs
<1>2. CASE ClaimLive(c)
  BY <1>1, <1>2
     DEF Typed, ClaimLive, Goto, Steps, Kept, Table, capture, results, table
<1>3. CASE LoseBlock(c)
  <2>1. recorded[c] + 1 \in 0..MaxBlocks
    BY <1>1, <1>3, LegacyConstants DEF LoseBlock, Kept
  <2> QED
    BY <1>1, <1>3, <2>1 DEF Typed, LoseBlock, Kept, Table, results, table
<1>4. CASE ReceiveBlock(c)
  <2>1. recorded[c] + 1 \in 0..MaxBlocks /\ (InSequence(c) => head[c] + 1 \in 0..MaxBlocks)
    BY <1>1, <1>4, LegacyConstants DEF ReceiveBlock, InSequence, Kept
  <2>2. Kept'
    BY <1>1, <1>4, <2>1 DEF ReceiveBlock, Kept
  <2>3. Table' /\ pc' \in [Jobs -> Steps]
    BY <1>1, <1>4 DEF ReceiveBlock, Goto, Steps, Table, results, table
  <2> QED
    BY <2>2, <2>3 DEF Typed
<1>5. CASE StopLive(c)
  <2>1. head[c] \in Nat
    BY <1>1, LegacyConstants DEF Kept
  <2>2. Kept'
    BY <1>1, <1>5 DEF StopLive, FinalizeCapture, SetFile, Kept, FileStates
  <2>3. input' \in [Jobs -> Nat] /\ pc' \in [Jobs -> Steps]
    BY <1>1, <1>5, <2>1 DEF StopLive, FinalizeCapture, StoreRecording, Goto, Steps, Table
  <2>4. Table'
    BY <1>1, <1>5, <2>3 DEF StopLive, Table, table
  <2> QED
    BY <2>2, <2>3, <2>4 DEF Typed
<1>6. CASE Leave(c)
  BY <1>1, <1>6 DEF Typed, Leave, Goto, Steps, Kept, Table, capture, results, table
<1> QED
  BY <1>2, <1>3, <1>4, <1>5, <1>6 DEF Page

LEMMA TypeHandlerStep ==
  ASSUME Typed, NEW c \in Jobs,
         \/ c \in Live /\ Handler(c)
         \/ c \in Uploads /\ (ReceiveUpload(c) \/ Upload(c))
  PROVE  Typed'
<1>1. pc \in [Jobs -> Steps] /\ Kept /\ Table
  BY DEF Typed
<1>2. CASE c \in Live /\ OpenCapture(c)
  <2>1. Kept' /\ pc' \in [Jobs -> Steps]
    BY <1>1, <1>2 DEF OpenCapture, SetFile, Goto, Steps, Kept, FileStates
  <2> QED
    BY <1>1, <1>2, <2>1 DEF Typed, OpenCapture, Table, results, table
<1>3. CASE GetLiveModel(c)
  BY <1>1, <1>3 DEF Typed, GetLiveModel, Goto, Steps, Kept, Table, capture, results, table
<1>4. CASE PublishLive(c)
  <2>1. jobs' \in [Jobs -> JobStates] /\ pc' \in [Jobs -> Steps]
    BY <1>1, <1>4 DEF PublishLive, SetJob, Goto, Steps, Table, JobStates
  <2> QED
    BY <1>1, <1>4, <2>1 DEF Typed, PublishLive, Kept, Table, capture, results
<1>5. CASE QueueJob(c)
  <2>1. jobs' \in [Jobs -> JobStates] /\ pc' \in [Jobs -> Steps]
    BY <1>1, <1>5 DEF QueueJob, SetJob, Goto, Steps, Table, JobStates
  <2> QED
    BY <1>1, <1>5, <2>1 DEF Typed, QueueJob, Kept, Table, capture, results
<1>6. CASE SubmitJob(c)
  <2>1. queue' \in Seq(Jobs) /\ pc' \in [Jobs -> Steps]
    BY <1>1, <1>6 DEF SubmitJob, Goto, Steps, Table
  <2> QED
    BY <1>1, <1>6, <2>1 DEF Typed, SubmitJob, Kept, Table, capture, results
<1>7. CASE c \in Live /\ ReleaseStopped(c)
  BY <1>1, <1>7
     DEF Typed, ReleaseStopped, Goto, Steps, Kept, Table, capture, results, table
<1>8. CASE c \in Live /\ ExceptAbort(c)
  <2>1. Kept' /\ pc' \in [Jobs -> Steps]
    BY <1>1, <1>8
       DEF ExceptAbort, Abort, AbortFails, SetFile, Goto, Steps, Kept, FileStates
  <2> QED
    BY <1>1, <1>8, <2>1 DEF Typed, ExceptAbort, Table, results, table
<1>9. CASE FailLiveJob(c)
  <2>1. jobs' \in [Jobs -> JobStates] /\ pc' \in [Jobs -> Steps]
    BY <1>1, <1>9 DEF FailLiveJob, Goto, Steps, Table, JobStates
  <2> QED
    BY <1>1, <1>9, <2>1 DEF Typed, FailLiveJob, Kept, Table, capture, results
<1>10. CASE c \in Live /\ Finally(c)
  <2>1. Kept' /\ pc' \in [Jobs -> Steps]
    BY <1>1, <1>10
       DEF Finally, Abort, AbortFails, SetFile, Goto, Steps, Kept, FileStates
  <2> QED
    BY <1>1, <1>10, <2>1 DEF Typed, Finally, Table, results, table
<1>11. CASE ReceiveUpload(c)
  <2>1. input' \in [Jobs -> Nat]
    BY <1>1, <1>11 DEF ReceiveUpload, StoreRecording, Table
  <2>2. pc' \in [Jobs -> Steps]
    BY <1>1, <1>11 DEF ReceiveUpload, Goto, Steps
  <2> QED
    BY <1>1, <1>11, <2>1, <2>2 DEF Typed, ReceiveUpload, Kept, Table, capture, table
<1> QED
  BY <1>2, <1>3, <1>4, <1>5, <1>6, <1>7, <1>8, <1>9, <1>10, <1>11 DEF Handler, Upload

LEMMA TypeWorkerStep ==
  ASSUME Typed, Worker \/ Restart
  PROVE  Typed'
<1>1. pc \in [Jobs -> Steps] /\ Kept /\ Table
  BY DEF Typed
<1>2. CASE TakeJob
  <2>1. Head(queue) \in Jobs /\ queue' \in Seq(Jobs)
    BY <1>1, <1>2 DEF TakeJob, Table
  <2>2. jobs' \in [Jobs -> JobStates]
    BY <1>1, <1>2, <2>1 DEF TakeJob, SetJob, Table, JobStates
  <2>3. worker' \in [job : Jobs \cup {None}, step : Stages]
    BY <1>2, <2>1 DEF TakeJob, Stages
  <2> QED
    BY <1>1, <1>2, <2>1, <2>2, <2>3 DEF Typed, TakeJob, Kept, Table, capture, results
<1>3. CASE Transcribe
  <2>1. /\ run' \in [Jobs -> {None, "complete", "reconciled"}]
        /\ worker' \in [job : Jobs \cup {None}, step : Stages]
    BY <1>1, <1>3 DEF Transcribe, Work, Table, Stages
  <2> QED
    BY <1>1, <1>3, <2>1 DEF Typed, Transcribe, Kept, Table, capture, table
<1>4. CASE Reconcile
  <2>1. /\ run' \in [Jobs -> {None, "complete", "reconciled"}]
        /\ worker' \in [job : Jobs \cup {None}, step : Stages]
    BY <1>1, <1>4 DEF Reconcile, Work, Table, Stages
  <2> QED
    BY <1>1, <1>4, <2>1 DEF Typed, Reconcile, Kept, Table, capture, table
<1>5. CASE ReportJob
  <2>1. jobs' \in [Jobs -> JobStates]
    BY <1>1, <1>5 DEF ReportJob, SetJob, Table, JobStates
  <2>2. worker' \in [job : Jobs \cup {None}, step : Stages]
    BY <1>5 DEF ReportJob, Resting, Stages
  <2> QED
    BY <1>1, <1>5, <2>1, <2>2 DEF Typed, ReportJob, Kept, Table, capture, results
<1>6. CASE Restart
  <2>1. restarts' \in 0..MaxRestarts
    BY <1>1, <1>6, LegacyConstants DEF Restart, Kept
  <2>2. jobs' \in [Jobs -> JobStates] /\ pc' \in [Jobs -> Steps]
    BY <1>6 DEF Restart, LoadCompletedJobs, JobStates, Steps
  <2>3. queue' \in Seq(Jobs) /\ worker' \in [job : Jobs \cup {None}, step : Stages]
    BY <1>6 DEF Restart, Resting, Stages
  <2> QED
    BY <1>1, <1>6, <2>1, <2>2, <2>3 DEF Typed, Restart, Kept, Table, capture, results
<1> QED
  BY <1>2, <1>3, <1>4, <1>5, <1>6 DEF Worker

LEMMA TypeStep ==
  Typed /\ [Next]_vars => Typed'
<1> SUFFICES ASSUME Typed, [Next]_vars PROVE Typed'
  OBVIOUS
<1>1. CASE UNCHANGED vars
  BY <1>1 DEF vars, capture, results, table, Typed, Kept, Table
<1>2. ASSUME NEW c \in Live, Handler(c) \/ Page(c) PROVE Typed'
  <2>0. c \in Jobs
    BY DEF Jobs
  <2>1. CASE Handler(c)
    BY <1>2, <2>0, <2>1, TypeHandlerStep
  <2>2. CASE Page(c)
    BY <2>2, TypePageStep
  <2> QED
    BY <1>2, <2>1, <2>2
<1>3. ASSUME NEW u \in Uploads, ReceiveUpload(u) \/ Upload(u) PROVE Typed'
  BY <1>3, TypeHandlerStep DEF Jobs
<1> QED
  BY <1>1, <1>2, <1>3, TypeWorkerStep DEF Next

\* For any pages, uploads and deaths: the variables have their types.
THEOREM LegacyTypesHold ==
  Spec => []TypeOK
  BY TypeInit, TypeStep, TypedIsTypeOK, PTL DEF Spec

-------------------------------------------------------------------------------
(* The live slot.  A step of one handler changes the place and the file of  *)
(* its own connection, and takes the slot when it is free or gives it back. *)
SlotMoves(c) ==
    /\ \A d \in Live \ {c} : pc'[d] = pc[d] /\ file'[d] = file[d]
    /\ claim' = claim \/ (claim = None /\ claim' = c) \/ (claim = c /\ claim' = None)
    /\ pc'[c] \in Holding => claim' = c
    /\ claim' = c => pc'[c] \in Holding \/ (pc'[c] = "done" /\ file'[c] = "closed")

LEMMA SlotMovesKeepListener ==
  ASSUME Typed, SlotHasListener, NEW c \in Live, SlotMoves(c)
  PROVE  SlotHasListener'
<1>1. None \notin Live
  BY LegacyConstants DEF Jobs
<1>2. ASSUME NEW d \in Live
      PROVE  /\ pc'[d] \in Holding => claim' = d
             /\ claim' = d => pc'[d] \in Holding \/ (pc'[d] = "done" /\ file'[d] = "closed")
  BY <1>1, <1>2 DEF SlotHasListener, SlotMoves, At
<1> QED
  BY <1>2 DEF SlotHasListener, At

LEMMA SlotPageMoves ==
  ASSUME Typed, SlotHasListener, NEW c \in Live, Page(c)
  PROVE  SlotMoves(c)
<1>1. pc \in [Jobs -> Steps] /\ file \in [Live -> FileStates] /\ c \in Jobs /\ Live \subseteq Jobs
  BY DEF Typed, Kept, Jobs
<1>2. pc[c] \in Holding => claim = c
  BY DEF SlotHasListener
<1>3. claim = c => pc[c] \in Holding \/ pc[c] = "done"
  BY DEF SlotHasListener, At
<1>4. CASE ClaimLive(c)
  BY <1>1, <1>3, <1>4 DEF ClaimLive, At, Goto, SlotMoves, Holding, capture
<1>5. CASE LoseBlock(c) \/ ReceiveBlock(c) \/ Leave(c)
  BY <1>1, <1>2, <1>5
     DEF LoseBlock, ReceiveBlock, Leave, At, Goto, SlotMoves, Holding, capture
<1>6. CASE StopLive(c)
  BY <1>1, <1>2, <1>6
     DEF StopLive, FinalizeCapture, SetFile, At, Goto, SlotMoves, Holding
<1> QED
  BY <1>4, <1>5, <1>6 DEF Page

LEMMA SlotHandlerMoves ==
  ASSUME Typed, SlotHasListener, NEW c \in Live, Handler(c)
  PROVE  SlotMoves(c)
<1>1. pc \in [Jobs -> Steps] /\ file \in [Live -> FileStates] /\ c \in Jobs /\ Live \subseteq Jobs
  BY DEF Typed, Kept, Jobs
<1>2. pc[c] \in Holding => claim = c
  BY DEF SlotHasListener
<1>3. claim = c => pc[c] \in Holding \/ (pc[c] = "done" /\ file[c] = "closed")
  BY DEF SlotHasListener, At
<1>4. None # c
  BY <1>1, LegacyConstants
<1>5. CASE OpenCapture(c)
  BY <1>1, <1>2, <1>5 DEF OpenCapture, SetFile, At, Goto, SlotMoves, Holding
<1>6. CASE GetLiveModel(c) \/ PublishLive(c)
  BY <1>1, <1>2, <1>6 DEF GetLiveModel, PublishLive, At, Goto, SlotMoves, Holding, capture
<1>7. CASE QueueJob(c) \/ SubmitJob(c)
  BY <1>1, <1>2, <1>7 DEF QueueJob, SubmitJob, At, Goto, SlotMoves, Holding, capture
<1>8. CASE ReleaseStopped(c)
  BY <1>1, <1>2, <1>4, <1>8 DEF ReleaseStopped, At, Goto, SlotMoves, Holding, capture
<1>9. CASE ExceptAbort(c)
  BY <1>1, <1>2, <1>9
     DEF ExceptAbort, Abort, AbortFails, SetFile, At, Goto, SlotMoves, Holding
<1>10. CASE FailLiveJob(c)
  BY <1>1, <1>2, <1>3, <1>10 DEF FailLiveJob, At, Goto, SlotMoves, Holding, capture
<1>11. CASE Finally(c)
  BY <1>1, <1>2, <1>4, <1>11
     DEF Finally, Abort, AbortFails, SetFile, At, Goto, SlotMoves, Holding
<1> QED
  BY <1>5, <1>6, <1>7, <1>8, <1>9, <1>10, <1>11 DEF Handler

LEMMA SlotStep ==
  Typed /\ SlotHasListener /\ [Next]_vars => SlotHasListener'
<1> SUFFICES ASSUME Typed, SlotHasListener, [Next]_vars PROVE SlotHasListener'
  OBVIOUS
<1>1. pc \in [Jobs -> Steps] /\ Live \cap Uploads = {} /\ Live \subseteq Jobs
  BY LegacyConstants DEF Typed, Jobs
<1>2. ASSUME NEW c \in Live, Handler(c) \/ Page(c) PROVE SlotHasListener'
  BY <1>2, SlotPageMoves, SlotHandlerMoves, SlotMovesKeepListener
<1>3. ASSUME NEW u \in Uploads, ReceiveUpload(u) \/ Upload(u) PROVE SlotHasListener'
  <2>1. (\A c \in Live : pc'[c] = pc[c]) /\ UNCHANGED <<claim, file>>
    BY <1>1, <1>3 DEF ReceiveUpload, Upload, QueueJob, SubmitJob, Goto, capture, Jobs
  <2> QED
    BY <2>1 DEF SlotHasListener, At
<1>4. CASE UNCHANGED vars \/ Worker
  <2>1. UNCHANGED <<pc, claim, file>>
    BY <1>4 DEF vars, Worker, TakeJob, Transcribe, Reconcile, ReportJob, capture
  <2> QED
    BY <2>1 DEF SlotHasListener, At
<1>5. CASE Restart
  <2>1. None \notin Live
    BY <1>1, LegacyConstants
  <2>2. claim' = None /\ \A c \in Live : pc'[c] \notin Holding
    BY <1>1, <1>5 DEF Restart, Holding
  <2> QED
    BY <2>1, <2>2 DEF SlotHasListener, At
<1> QED
  BY <1>2, <1>3, <1>4, <1>5 DEF Next

(* For any pages and faults: whoever records holds the live slot, and the    *)
(* slot is held by no handler that ended, but for one whose abort failed in  *)
(* its finally clause.                                                       *)
THEOREM SlotsHaveListeners ==
  Spec => []SlotHasListener
<1>1. Init => SlotHasListener
  BY LegacyConstants DEF Init, SlotHasListener, Holding, At, Jobs
<1> QED
  BY <1>1, TypeInit, TypeStep, SlotStep, PTL DEF Spec

-------------------------------------------------------------------------------
(* Jobs.  Who waits for the worker, or is in its hands, has a recording; the *)
(* worker has each job once; and a job that is complete is past all of it.   *)
Early == {"idle", "capture", "model", "publish", "listening"}
Submitted == {"release", "failFinal", "done"}

Queued(j) == \E i \in 1..Len(queue) : queue[i] = j

\* Where a job is, seen from its handler.
HandlersOnTime ==
    \A j \in Jobs :
        /\ pc[j] = "idle" => run[j] = None
        /\ pc[j] \in {"queue", "submit", "release"} => input[j] # 0
        /\ Queued(j) \/ worker.job = j => pc[j] \in Submitted /\ input[j] # 0

JobsWaitOnce ==
    /\ \A i, k \in 1..Len(queue) : queue[i] = queue[k] => i = k
    /\ \A i \in 1..Len(queue) : queue[i] # worker.job

WorkerOnTrack ==
    /\ worker.step = "idle" <=> worker.job = None
    /\ worker.step \in {"reconcile", "complete"} => run[worker.job] # None

\* A recording is what its page recorded, and no page records after it.
RecordingsAreWhole ==
    /\ \A j \in Jobs : run[j] # None => input[j] # 0
    /\ \A c \in Live : input[c] # 0 => input[c] = recorded[c] /\ pc[c] \notin Early

CompleteIsOver ==
    \A j \in Jobs : jobs[j] = "complete" =>
        run[j] # None /\ ~ Queued(j) /\ worker.job # j /\ pc[j] \in Submitted

JobInv == /\ HandlersOnTime /\ JobsWaitOnce /\ WorkerOnTrack
          /\ RecordingsAreWhole /\ CompleteIsOver

\* What a step of the handler of c may do to a job.
HandlerMoves(c) ==
    /\ UNCHANGED <<run, queue, worker>>
    /\ \A j \in Jobs \ {c} : pc'[j] = pc[j] /\ jobs'[j] = jobs[j] /\ input'[j] = input[j]
    /\ \A d \in Live \ {c} : recorded'[d] = recorded[d]
    /\ pc'[c] # "idle" /\ (pc[c] \in Submitted => pc'[c] \in Submitted)
    /\ pc'[c] \in Early => pc[c] \in Early
    /\ pc'[c] \in {"queue", "submit", "release"} => input'[c] # 0
    /\ jobs'[c] = jobs[c] \/ (jobs[c] # "complete" /\ jobs'[c] # "complete")
    /\ \/ input'[c] = input[c] /\ (c \in Live => pc[c] \in Early \/ recorded'[c] = recorded[c])
       \/ input'[c] # 0 /\ (c \in Live => input'[c] = recorded'[c] /\ pc'[c] \notin Early)

LEMMA HandlerMovesKeepJobs ==
  ASSUME Typed, JobInv, NEW c \in Jobs, HandlerMoves(c)
  PROVE  JobInv'
<1>1. UNCHANGED <<run, queue, worker>> /\ Live \subseteq Jobs
  BY DEF HandlerMoves, Jobs
<1>2. \A j \in Jobs : Queued(j)' <=> Queued(j)
  BY <1>1 DEF Queued
<1>3. HandlersOnTime'
  <2> SUFFICES ASSUME NEW j \in Jobs
               PROVE  /\ pc'[j] = "idle" => run[j] = None
                      /\ pc'[j] \in {"queue", "submit", "release"} => input'[j] # 0
                      /\ Queued(j) \/ worker.job = j => pc'[j] \in Submitted /\ input'[j] # 0
    BY <1>1, <1>2 DEF HandlersOnTime
  <2> QED
    BY DEF HandlerMoves, JobInv, HandlersOnTime
<1>4. JobsWaitOnce' /\ WorkerOnTrack'
  BY <1>1 DEF JobInv, JobsWaitOnce, WorkerOnTrack
<1>5. RecordingsAreWhole'
  <2>1. ASSUME NEW j \in Jobs, run[j] # None PROVE input'[j] # 0
    BY <2>1 DEF HandlerMoves, JobInv, RecordingsAreWhole
  <2>2. ASSUME NEW d \in Live, input'[d] # 0
        PROVE  input'[d] = recorded'[d] /\ pc'[d] \notin Early
    BY <1>1, <2>2 DEF HandlerMoves, JobInv, RecordingsAreWhole
  <2> QED
    BY <1>1, <2>1, <2>2 DEF RecordingsAreWhole
<1>6. CompleteIsOver'
  <2> SUFFICES ASSUME NEW j \in Jobs, jobs'[j] = "complete"
               PROVE  run[j] # None /\ ~ Queued(j) /\ worker.job # j /\ pc'[j] \in Submitted
    BY <1>1, <1>2 DEF CompleteIsOver
  <2> QED
    BY DEF HandlerMoves, JobInv, CompleteIsOver
<1> QED
  BY <1>3, <1>4, <1>5, <1>6 DEF JobInv

LEMMA JobPageMoves ==
  ASSUME Typed, JobInv, NEW c \in Live, Page(c)
  PROVE  HandlerMoves(c)
<1>1. /\ pc \in [Jobs -> Steps] /\ input \in [Jobs -> Nat] /\ recorded \in [Live -> 0..MaxBlocks]
      /\ head \in [Live -> 0..MaxBlocks] /\ c \in Jobs /\ Live \subseteq Jobs
  BY DEF Typed, Kept, Table, Jobs
<1>2. CASE ClaimLive(c)
  BY <1>1, <1>2
     DEF ClaimLive, At, Goto, HandlerMoves, Early, Submitted, capture, results, table
<1>3. CASE LoseBlock(c)
  BY <1>1, <1>3 DEF LoseBlock, At, HandlerMoves, Early, Submitted, results, table
<1>4. CASE ReceiveBlock(c)
  BY <1>1, <1>4 DEF ReceiveBlock, At, Goto, HandlerMoves, Early, Submitted, results, table
<1>5. CASE StopLive(c)
  <2>1. CASE Counted(c) /\ FinalizeCapture(c)
    <3>1. head[c] # 0 /\ head[c] = recorded[c]
      BY <1>1, <2>1, LegacyConstants DEF Counted
    <3>2. /\ pc[c] = "listening" /\ pc' = [pc EXCEPT ![c] = pc'[c]]
          /\ pc'[c] \in {"queue", "except"}
      BY <1>1, <1>5, <2>1 DEF StopLive, FinalizeCapture, At, Goto
    <3>3. \/ input' = [input EXCEPT ![c] = head[c]]
          \/ input' = input /\ pc'[c] = "except"
      BY <1>1, <2>1 DEF FinalizeCapture, StoreRecording, Goto
    <3>4. UNCHANGED <<recorded, run, jobs, queue, worker>>
      BY <1>5 DEF StopLive, table
    <3> QED
      BY <1>1, <3>1, <3>2, <3>3, <3>4 DEF HandlerMoves, Early, Submitted
  <2>2. CASE ~Counted(c) /\ UNCHANGED <<file, input>> /\ Goto(c, "except")
    BY <1>1, <1>5, <2>2 DEF StopLive, At, Goto, HandlerMoves, Early, Submitted, table
  <2> QED
    BY <1>5, <2>1, <2>2 DEF StopLive
<1>6. CASE Leave(c)
  BY <1>1, <1>6 DEF Leave, At, Goto, HandlerMoves, Early, Submitted, capture, results, table
<1> QED
  BY <1>2, <1>3, <1>4, <1>5, <1>6 DEF Page

LEMMA JobHandlerMoves ==
  ASSUME Typed, JobInv, NEW c \in Jobs, ~ SubmitJob(c),
         \/ c \in Live /\ Handler(c)
         \/ c \in Uploads /\ (ReceiveUpload(c) \/ Upload(c))
  PROVE  HandlerMoves(c)
<1>1. /\ pc \in [Jobs -> Steps] /\ input \in [Jobs -> Nat] /\ jobs \in [Jobs -> JobStates]
      /\ Live \subseteq Jobs /\ Live \cap Uploads = {}
  BY LegacyConstants DEF Typed, Table, Jobs
<1>2. jobs[c] = "complete" => pc[c] \in Submitted
  BY DEF JobInv, CompleteIsOver
<1>3. pc[c] \in {"queue", "submit", "release"} => input[c] # 0
  BY DEF JobInv, HandlersOnTime
<1>4. CASE OpenCapture(c) \/ GetLiveModel(c) \/ Finally(c) \/ ExceptAbort(c)
  BY <1>1, <1>4 DEF OpenCapture, GetLiveModel, Finally, ExceptAbort, At, Goto, HandlerMoves,
                    Early, Submitted, capture, results, table
<1>5. CASE ReleaseStopped(c)
  BY <1>1, <1>5
     DEF ReleaseStopped, At, Goto, HandlerMoves, Early, Submitted, capture, results, table
<1>6. CASE PublishLive(c)
  BY <1>1, <1>2, <1>6
     DEF PublishLive, SetJob, At, Goto, HandlerMoves, Early, Submitted, capture, results
<1>7. CASE QueueJob(c)
  BY <1>1, <1>2, <1>3, <1>7
     DEF QueueJob, SetJob, At, Goto, HandlerMoves, Early, Submitted, capture, results
<1>8. CASE FailLiveJob(c)
  BY <1>1, <1>2, <1>8
     DEF FailLiveJob, At, Goto, HandlerMoves, Early, Submitted, capture, results
<1>9. CASE c \in Uploads /\ ReceiveUpload(c)
  BY <1>1, <1>9
     DEF ReceiveUpload, StoreRecording, At, Goto, HandlerMoves, Early, Submitted, capture, table
<1> QED
  BY <1>4, <1>5, <1>6, <1>7, <1>8, <1>9 DEF Handler, Upload

LEMMA JobSubmitStep ==
  ASSUME Typed, JobInv, NEW c \in Jobs, SubmitJob(c)
  PROVE  JobInv'
<1>1. /\ pc \in [Jobs -> Steps] /\ queue \in Seq(Jobs) /\ Live \subseteq Jobs
      /\ UNCHANGED <<recorded, input, run, jobs, worker>> /\ pc[c] = "submit"
      /\ pc' = [pc EXCEPT ![c] = IF c \in Live THEN "release" ELSE "done"]
  BY DEF Typed, Table, Jobs, SubmitJob, At, Goto, capture, results
<1>2. /\ Len(queue') = Len(queue) + 1 /\ queue'[Len(queue')] = c
      /\ \A i \in 1..Len(queue) : queue'[i] = queue[i]
  BY <1>1 DEF SubmitJob
<1>3. Len(queue) \in Nat
  BY <1>1
<1>4. \A i \in 1..Len(queue') : i = Len(queue') \/ i \in 1..Len(queue)
  BY <1>2, <1>3
<1>5. ~ Queued(c) /\ worker.job # c /\ input[c] # 0 /\ jobs[c] # "complete"
  BY <1>1 DEF JobInv, HandlersOnTime, CompleteIsOver, Submitted
<1>6. \A j \in Jobs : Queued(j)' <=> Queued(j) \/ j = c
  <2>1. Len(queue') \in 1..Len(queue') /\ \A i \in 1..Len(queue) : i \in 1..Len(queue')
    BY <1>2, <1>3
  <2> QED
    BY <1>2, <1>4, <2>1 DEF Queued
<1>7. HandlersOnTime'
  <2> SUFFICES ASSUME NEW j \in Jobs
               PROVE  /\ pc'[j] = "idle" => run[j] = None
                      /\ pc'[j] \in {"queue", "submit", "release"} => input[j] # 0
                      /\ Queued(j) \/ j = c \/ worker.job = j =>
                            pc'[j] \in Submitted /\ input[j] # 0
    BY <1>1, <1>6 DEF HandlersOnTime
  <2> QED
    BY <1>1, <1>5 DEF JobInv, HandlersOnTime, Submitted
<1>8. JobsWaitOnce'
  <2>1. \A i \in 1..Len(queue) : queue[i] # c
    BY <1>5 DEF Queued
  <2>2. ASSUME NEW i \in 1..Len(queue'), NEW k \in 1..Len(queue'), queue'[i] = queue'[k]
        PROVE  i = k
    BY <1>2, <1>4, <2>1, <2>2 DEF JobInv, JobsWaitOnce
  <2>3. \A i \in 1..Len(queue') : queue'[i] # worker.job
    BY <1>2, <1>4, <1>5 DEF JobInv, JobsWaitOnce
  <2> QED
    BY <1>1, <2>2, <2>3 DEF JobsWaitOnce
<1>9. WorkerOnTrack'
  BY <1>1 DEF JobInv, WorkerOnTrack
<1>10. RecordingsAreWhole'
  BY <1>1 DEF JobInv, RecordingsAreWhole, Early
<1>11. CompleteIsOver'
  <2> SUFFICES ASSUME NEW j \in Jobs, jobs[j] = "complete"
               PROVE  run[j] # None /\ ~ (Queued(j) \/ j = c) /\ worker.job # j
                      /\ pc'[j] \in Submitted
    BY <1>1, <1>6 DEF CompleteIsOver
  <2> QED
    BY <1>1, <1>5 DEF JobInv, CompleteIsOver
<1> QED
  BY <1>7, <1>8, <1>9, <1>10, <1>11 DEF JobInv

LEMMA JobTakeStep ==
  ASSUME Typed, JobInv, TakeJob
  PROVE  JobInv'
<1> DEFINE j0 == Head(queue)
<1>1. /\ queue \in Seq(Jobs) /\ queue # << >> /\ jobs \in [Jobs -> JobStates]
      /\ UNCHANGED <<recorded, input, run, pc>> /\ worker.job = None
      /\ worker' = [job |-> j0, step |-> "transcribe"]
      /\ queue' = Tail(queue) /\ jobs' = [jobs EXCEPT ![j0] = "transcribing"]
  BY DEF Typed, Table, TakeJob, SetJob, Resting, capture, results
<1>2. /\ Len(queue) \in Nat /\ Len(queue) >= 1 /\ Len(queue') = Len(queue) - 1
      /\ \A i \in 1..Len(queue') : queue'[i] = queue[i + 1]
  BY <1>1
<1>3. j0 = queue[1] /\ 1 \in 1..Len(queue) /\ j0 \in Jobs
  BY <1>1, <1>2
<1>4. \A i \in 1..Len(queue') : i + 1 \in 1..Len(queue) /\ i + 1 # 1
  BY <1>2
<1>5. \A i \in 1..Len(queue') : queue'[i] # j0
  BY <1>2, <1>3, <1>4 DEF JobInv, JobsWaitOnce
<1>6. Queued(j0)
  BY <1>3 DEF Queued
<1>7. \A j \in Jobs : Queued(j)' => Queued(j) /\ j # j0
  BY <1>2, <1>4, <1>5 DEF Queued
<1>8. j0 # None
  BY <1>3, LegacyConstants
<1> HIDE DEF j0
<1>9. worker'.job = j0 /\ worker'.step = "transcribe"
  BY <1>1
<1>10. HandlersOnTime'
  <2> SUFFICES ASSUME NEW j \in Jobs
               PROVE  /\ pc[j] = "idle" => run[j] = None
                      /\ pc[j] \in {"queue", "submit", "release"} => input[j] # 0
                      /\ Queued(j) => pc[j] \in Submitted /\ input[j] # 0
    BY <1>1, <1>6, <1>7, <1>9 DEF HandlersOnTime
  <2> QED
    BY DEF JobInv, HandlersOnTime
<1>11. JobsWaitOnce'
  <2>1. ASSUME NEW i \in 1..Len(queue'), NEW k \in 1..Len(queue'), queue'[i] = queue'[k]
        PROVE  i = k
    <3>1. i + 1 = k + 1
      BY <1>2, <1>4, <2>1 DEF JobInv, JobsWaitOnce
    <3> QED
      BY <3>1
  <2> QED
    BY <1>5, <1>9, <2>1 DEF JobsWaitOnce
<1>12. WorkerOnTrack'
  BY <1>8, <1>9 DEF WorkerOnTrack
<1>13. RecordingsAreWhole'
  BY <1>1 DEF JobInv, RecordingsAreWhole
<1>14. CompleteIsOver'
  <2> SUFFICES ASSUME NEW j \in Jobs, jobs'[j] = "complete"
               PROVE  run[j] # None /\ ~ Queued(j)' /\ j0 # j /\ pc[j] \in Submitted
    BY <1>1, <1>9 DEF CompleteIsOver
  <2>1. j # j0 /\ jobs[j] = "complete"
    BY <1>1
  <2> QED
    BY <1>7, <2>1 DEF JobInv, CompleteIsOver
<1> QED
  BY <1>10, <1>11, <1>12, <1>13, <1>14 DEF JobInv

LEMMA JobWorkerStep ==
  ASSUME Typed, JobInv, Transcribe \/ Reconcile
  PROVE  JobInv'
<1> DEFINE j0 == worker.job
<1>1. /\ worker \in [job : Jobs \cup {None}, step : Stages] /\ worker.step # "idle"
      /\ run \in [Jobs -> {None, "complete", "reconciled"}]
      /\ UNCHANGED <<recorded, input, pc, jobs, queue>>
  BY DEF Typed, Table, Transcribe, Reconcile, capture, table
<1>2. j0 # None /\ j0 \in Jobs
  BY <1>1 DEF JobInv, WorkerOnTrack
<1>3. /\ worker'.job = j0 /\ worker'.step # "idle"
      /\ worker'.step \in {"reconcile", "complete"} => run'[j0] # None
      /\ \A j \in Jobs : run'[j] = run[j] \/ (j = j0 /\ run'[j] # None)
  <2>1. CASE Transcribe
    BY <1>1, <1>2, <2>1 DEF None, Transcribe, Work
  <2>2. CASE Reconcile
    BY <1>1, <1>2, <2>2 DEF None, Reconcile, Work
  <2> QED
    BY <2>1, <2>2
<1>4. pc[j0] \in Submitted /\ input[j0] # 0
  BY <1>2 DEF JobInv, HandlersOnTime
<1>5. \A j \in Jobs : Queued(j)' <=> Queued(j)
  BY <1>1 DEF Queued
<1>6. HandlersOnTime'
  <2> SUFFICES ASSUME NEW j \in Jobs
               PROVE  /\ pc[j] = "idle" => run'[j] = None
                      /\ pc[j] \in {"queue", "submit", "release"} => input[j] # 0
                      /\ Queued(j) \/ j0 = j => pc[j] \in Submitted /\ input[j] # 0
    BY <1>1, <1>3, <1>5 DEF HandlersOnTime
  <2> QED
    BY <1>3, <1>4 DEF JobInv, HandlersOnTime, Submitted
<1>7. JobsWaitOnce'
  BY <1>1, <1>3 DEF JobInv, JobsWaitOnce
<1>8. WorkerOnTrack'
  BY <1>2, <1>3 DEF WorkerOnTrack
<1>9. RecordingsAreWhole'
  BY <1>1, <1>3, <1>4 DEF JobInv, RecordingsAreWhole
<1>10. CompleteIsOver'
  <2> SUFFICES ASSUME NEW j \in Jobs, jobs[j] = "complete"
               PROVE  run'[j] # None /\ ~ Queued(j) /\ j0 # j /\ pc[j] \in Submitted
    BY <1>1, <1>3, <1>5 DEF CompleteIsOver
  <2> QED
    BY <1>3 DEF JobInv, CompleteIsOver
<1> QED
  BY <1>6, <1>7, <1>8, <1>9, <1>10 DEF JobInv

LEMMA JobReportStep ==
  ASSUME Typed, JobInv, ReportJob
  PROVE  JobInv'
<1> DEFINE j0 == worker.job
<1>1. /\ worker \in [job : Jobs \cup {None}, step : Stages] /\ worker.step \in {"complete", "failed"}
      /\ jobs \in [Jobs -> JobStates] /\ worker' = Resting
      /\ jobs' = [jobs EXCEPT ![j0] = worker.step]
      /\ UNCHANGED <<recorded, input, run, pc, queue>>
  BY DEF Typed, Table, ReportJob, SetJob, capture, results
<1>2. j0 # None /\ j0 \in Jobs
  BY <1>1 DEF JobInv, WorkerOnTrack
<1>3. worker'.job = None /\ worker'.step = "idle"
  BY <1>1 DEF Resting
<1>4. None \notin Jobs /\ \A i \in 1..Len(queue) : queue[i] \in Jobs
  BY LegacyConstants DEF Typed, Table
<1>5. \A j \in Jobs : Queued(j)' <=> Queued(j)
  BY <1>1 DEF Queued
<1>6. HandlersOnTime'
  BY <1>1, <1>3, <1>4, <1>5 DEF JobInv, HandlersOnTime
<1>7. JobsWaitOnce'
  BY <1>1, <1>3, <1>4 DEF JobInv, JobsWaitOnce
<1>8. WorkerOnTrack'
  BY <1>3 DEF WorkerOnTrack
<1>9. RecordingsAreWhole'
  BY <1>1 DEF JobInv, RecordingsAreWhole
<1>10. CompleteIsOver'
  <2> SUFFICES ASSUME NEW j \in Jobs, jobs'[j] = "complete"
               PROVE  run[j] # None /\ ~ Queued(j) /\ pc[j] \in Submitted
    BY <1>1, <1>3, <1>4, <1>5 DEF CompleteIsOver
  <2>1. CASE j = j0
    <3>1. worker.step = "complete"
      BY <1>1, <2>1
    <3>2. ~ Queued(j)
      BY <2>1 DEF JobInv, JobsWaitOnce, Queued
    <3> QED
      BY <1>2, <2>1, <3>1, <3>2 DEF JobInv, WorkerOnTrack, HandlersOnTime
  <2>2. CASE j # j0
    BY <1>1, <2>2 DEF JobInv, CompleteIsOver
  <2> QED
    BY <2>1, <2>2
<1> QED
  BY <1>6, <1>7, <1>8, <1>9, <1>10 DEF JobInv

LEMMA JobRestartStep ==
  ASSUME Typed, JobInv, Restart
  PROVE  JobInv'
<1>1. /\ pc' = [j \in Jobs |-> IF pc[j] = "idle" THEN "idle" ELSE "done"]
      /\ queue' = << >> /\ worker'.job = None /\ worker'.step = "idle"
      /\ jobs' = LoadCompletedJobs /\ UNCHANGED <<recorded, input, run>>
  BY DEF Restart, Resting, At, capture, results
<1>2. None \notin Jobs /\ Live \subseteq Jobs
  BY LegacyConstants DEF Jobs
<1>3. \A j \in Jobs : ~ Queued(j)'
  BY <1>1 DEF Queued
<1>4. HandlersOnTime'
  BY <1>1, <1>2, <1>3 DEF JobInv, HandlersOnTime
<1>5. JobsWaitOnce' /\ WorkerOnTrack'
  BY <1>1 DEF JobsWaitOnce, WorkerOnTrack
<1>6. RecordingsAreWhole'
  BY <1>1, <1>2 DEF JobInv, RecordingsAreWhole, Early
<1>7. CompleteIsOver'
  <2> SUFFICES ASSUME NEW j \in Jobs, jobs'[j] = "complete"
               PROVE  run[j] # None /\ pc'[j] \in Submitted
    BY <1>1, <1>2, <1>3 DEF CompleteIsOver
  <2>1. run[j] # None
    BY <1>1, <1>2 DEF None, LoadCompletedJobs
  <2>2. pc[j] # "idle"
    BY <2>1 DEF JobInv, HandlersOnTime
  <2> QED
    BY <1>1, <2>1, <2>2 DEF Submitted
<1> QED
  BY <1>4, <1>5, <1>6, <1>7 DEF JobInv

LEMMA JobInvInit ==
  Init => JobInv
<1> SUFFICES ASSUME Init PROVE JobInv
  OBVIOUS
<1>1. None \notin Jobs /\ Live \subseteq Jobs /\ queue = << >> /\ worker = Resting
  BY LegacyConstants DEF Init, Jobs
<1>2. HandlersOnTime
  BY <1>1 DEF Init, HandlersOnTime, Queued, Resting
<1>3. JobsWaitOnce /\ WorkerOnTrack
  BY <1>1 DEF JobsWaitOnce, WorkerOnTrack, Resting
<1>4. RecordingsAreWhole /\ CompleteIsOver
  BY <1>1 DEF Init, None, RecordingsAreWhole, CompleteIsOver
<1> QED
  BY <1>2, <1>3, <1>4 DEF JobInv

LEMMA JobInvStep ==
  Typed /\ JobInv /\ [Next]_vars => JobInv'
<1> SUFFICES ASSUME Typed, JobInv, [Next]_vars PROVE JobInv'
  OBVIOUS
<1>1. CASE UNCHANGED vars
  BY <1>1 DEF vars, capture, results, table, JobInv, HandlersOnTime, JobsWaitOnce,
              WorkerOnTrack, RecordingsAreWhole, CompleteIsOver, Queued
<1>2. ASSUME NEW c \in Live, Handler(c) \/ Page(c) PROVE JobInv'
  <2>0. c \in Jobs
    BY DEF Jobs
  <2>1. CASE Handler(c) /\ ~ SubmitJob(c)
    BY <1>2, <2>0, <2>1, JobHandlerMoves, HandlerMovesKeepJobs
  <2>2. CASE Page(c)
    BY <1>2, <2>0, <2>2, JobPageMoves, HandlerMovesKeepJobs
  <2> QED
    BY <1>2, <2>0, <2>1, <2>2, JobSubmitStep
<1>3. ASSUME NEW u \in Uploads, ReceiveUpload(u) \/ Upload(u) PROVE JobInv'
  <2>0. u \in Jobs
    BY DEF Jobs
  <2> QED
    BY <1>3, <2>0, JobHandlerMoves, HandlerMovesKeepJobs, JobSubmitStep
<1> QED
  BY <1>1, <1>2, <1>3, JobTakeStep, JobWorkerStep, JobReportStep, JobRestartStep DEF Next, Worker

\* What stands of a complete job in a step, given the invariant on both sides.
LEMMA CompleteStands ==
  ASSUME Typed, JobInv, [Next]_vars, Typed', JobInv', NEW j \in Jobs
  PROVE  /\ jobs[j] = "complete" => jobs'[j] = "complete"
         /\ jobs'[j] = "complete" =>
               run'[j] # None /\ (j \in Live => input'[j] = recorded'[j])
<1>1. jobs'[j] = "complete" => run'[j] # None /\ (j \in Live => input'[j] = recorded'[j])
  BY DEF JobInv, CompleteIsOver, RecordingsAreWhole
<1>2. ASSUME jobs[j] = "complete" PROVE jobs'[j] = "complete"
  <2>1. /\ run[j] # None /\ ~ Queued(j) /\ worker.job # j /\ input[j] # 0
        /\ pc[j] \in Submitted
    BY <1>2 DEF JobInv, CompleteIsOver, RecordingsAreWhole
  <2>2. jobs \in [Jobs -> JobStates] /\ queue \in Seq(Jobs) /\ input \in [Jobs -> Nat]
    BY DEF Typed, Table
  <2>3. CASE UNCHANGED vars
    BY <1>2, <2>3 DEF vars, table
  <2>4. CASE \E c \in Live : Handler(c) \/ Page(c)
    <3>1. PICK c \in Live : Handler(c) \/ Page(c)
      BY <2>4
    <3>2. c \in Jobs
      BY DEF Jobs
    <3>3. HandlerMoves(c) \/ jobs' = jobs
      BY <3>1, <3>2, JobHandlerMoves, JobPageMoves DEF SubmitJob
    <3> QED
      BY <1>2, <2>1, <3>2, <3>3 DEF HandlerMoves
  <2>5. CASE \E u \in Uploads : ReceiveUpload(u) \/ Upload(u)
    <3>1. PICK u \in Uploads : ReceiveUpload(u) \/ Upload(u)
      BY <2>5
    <3>2. u \in Jobs
      BY DEF Jobs
    <3>3. HandlerMoves(u) \/ jobs' = jobs
      BY <3>1, <3>2, JobHandlerMoves DEF SubmitJob
    <3> QED
      BY <1>2, <2>1, <3>2, <3>3 DEF HandlerMoves
  <2>6. CASE TakeJob
    <3>1. queue # << >> /\ jobs' = [jobs EXCEPT ![Head(queue)] = "transcribing"]
      BY <2>6 DEF TakeJob, SetJob
    <3>2. Head(queue) = queue[1] /\ 1 \in 1..Len(queue)
      BY <2>2, <3>1
    <3>3. Head(queue) # j
      BY <2>1, <3>2 DEF Queued
    <3> QED
      BY <1>2, <2>2, <3>1, <3>3
  <2>7. CASE Transcribe \/ Reconcile
    BY <1>2, <2>7 DEF Transcribe, Reconcile, table
  <2>8. CASE ReportJob
    BY <1>2, <2>1, <2>2, <2>8 DEF ReportJob, SetJob
  <2>9. CASE Restart
    BY <2>1, <2>2, <2>9 DEF Restart, LoadCompletedJobs
  <2> QED
    BY <2>3, <2>4, <2>5, <2>6, <2>7, <2>8, <2>9 DEF Next, Worker
<1> QED
  BY <1>1, <1>2

(* For any pages, uploads, blocks and deaths, with every fault: a job that   *)
(* is complete stays complete in this process and in the next one, and its   *)
(* run was made from every block its page recorded.                          *)
THEOREM CompletedJobsAreKept ==
  Spec => CompletedJobsStand
<1> DEFINE Stands ==
       \A j \in Jobs :
          /\ jobs[j] = "complete" => jobs'[j] = "complete"
          /\ jobs'[j] = "complete" =>
                run'[j] # None /\ (j \in Live => input'[j] = recorded'[j])
<1>1. Typed /\ JobInv /\ Typed' /\ JobInv' /\ [Next]_vars => Stands
  BY CompleteStands
<1>2. [Stands]_vars => [\A j \in Jobs :
          /\ jobs[j] = "complete" => jobs'[j] = "complete"
          /\ jobs'[j] = "complete" =>
                /\ run'[j] # None
                /\ j \in Live => input'[j] = recorded'[j]]_vars
  OBVIOUS
<1> HIDE DEF Stands
<1> QED
  BY <1>1, <1>2, TypeInit, TypeStep, JobInvInit, JobInvStep, PTL DEF Spec, CompletedJobsStand

=============================================================================
