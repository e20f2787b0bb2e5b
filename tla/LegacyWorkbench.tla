---------------------------- MODULE LegacyWorkbench ----------------------------
(***************************************************************************)
(* The v1 workbench: workbench.py with the live capture of live.py and     *)
(* what its job worker runs (offline.py).  A live client is one WebSocket  *)
(* connection and its handler thread: it claims the one live slot, records *)
(* blocks, and at Stop turns the capture into a job.  An upload is one     *)
(* POST of a recording.  Jobs of both kinds wait in the queue of a single  *)
(* worker thread.  The table of jobs is memory; a new process fills it     *)
(* from the run.json files it finds.                                       *)
(*                                                                         *)
(* A client names its job.  Audio is counted in blocks.  A step is what a  *)
(* thread does up to the next lock, file or message another thread or the  *)
(* next process can see.  `file' is a capture's session.json together with *)
(* its closed flag: "open", "closed" without a session.json, "captured" or *)
(* "failed".                                                               *)
(***************************************************************************)
EXTENDS Naturals, Sequences

CONSTANTS
    Live,          \* live connections
    Uploads,       \* uploaded recordings
    MaxBlocks,     \* bound: blocks a page records
    MaxRestarts,   \* bound: deaths of the process
    Faults         \* "model", "disk", "transcriber"

Jobs == Live \cup Uploads
None == "none"

ASSUME LegacyConstants ==
    /\ Live \cap Uploads = {} /\ None \notin Jobs
    /\ MaxBlocks \in Nat /\ MaxRestarts \in Nat
    /\ Faults \subseteq {"model", "disk", "transcriber"}

VARIABLES
    pc,        \* where each handler is
    claim,     \* active_live_job_id
    recorded,  \* blocks the page of a client recorded
    head,      \* next_sequence: blocks its capture accepted
    file,      \* state of its capture
    input,     \* blocks in the recording input.json describes
    run,       \* run.json: none, "complete", "reconciled"
    jobs,      \* status of each job in the table
    queue,     \* jobs submitted to the executor
    worker,    \* [job, step] of the executor's thread
    restarts

capture == <<recorded, head, file>>
results == <<input, run>>
table == <<jobs, queue>>
vars == <<pc, claim, capture, results, table, worker, restarts>>

Resting == [job |-> None, step |-> "idle"]

Init ==
    /\ pc = [j \in Jobs |-> "idle"] /\ claim = None
    /\ recorded = [c \in Live |-> 0] /\ head = [c \in Live |-> 0]
    /\ file = [c \in Live |-> None]
    /\ input = [j \in Jobs |-> 0] /\ run = [j \in Jobs |-> None]
    /\ jobs = [j \in Jobs |-> None] /\ queue = <<>>
    /\ worker = Resting /\ restarts = 0

At(j, point) == pc[j] = point
Goto(j, point) == pc' = [pc EXCEPT ![j] = point]
SetJob(j, status) == jobs' = [jobs EXCEPT ![j] = status]
SetFile(c, state) == file' = [file EXCEPT ![c] = state]

(***************************************************************************)
(* The handler of a live connection.                                       *)
(***************************************************************************)
\* claim_live_job; a refused client ends in the except clause without a job.
ClaimLive(c) ==
    /\ At(c, "idle")
    /\ IF claim = None
          THEN claim' = c /\ Goto(c, "capture")
          ELSE UNCHANGED claim /\ Goto(c, "done")
    /\ UNCHANGED <<capture, results, table, worker, restarts>>

\* The directories and .capture.pcm; the start message or the disk is refused.
OpenCapture(c) ==
    /\ At(c, "capture")
    /\ \/ SetFile(c, "open") /\ Goto(c, "model")
       \/ UNCHANGED file /\ Goto(c, "fail")
    /\ UNCHANGED <<claim, recorded, head, results, table, worker, restarts>>

\* get_live_model; an error that is no OSError, RuntimeError or ValueError
\* (a missing package) passes the except clause by.
GetLiveModel(c) ==
    /\ At(c, "model")
    /\ \/ Goto(c, "publish")
       \/ "model" \in Faults /\ (Goto(c, "except") \/ Goto(c, "finally"))
    /\ UNCHANGED <<claim, capture, results, table, worker, restarts>>

\* The job enters the table; "ready" may not reach the page any more.
PublishLive(c) ==
    /\ At(c, "publish")
    /\ SetJob(c, "streaming")
    /\ Goto(c, "listening") \/ Goto(c, "except")
    /\ UNCHANGED <<claim, capture, results, queue, worker, restarts>>

\* The page records a block that its worklet drops.
LoseBlock(c) ==
    /\ At(c, "listening") /\ recorded[c] < MaxBlocks
    /\ recorded' = [recorded EXCEPT ![c] = @ + 1]
    /\ UNCHANGED <<pc, claim, head, file, results, table, worker, restarts>>

\* LiveCaptureSession.accept_block takes the next block only.
InSequence(c) == head[c] = recorded[c]

(* A binary frame: the capture writes the block, recognition runs the       *)
(* windows that are now complete, the page is told.  The model may raise    *)
(* or the page may be gone, in either case after the block was written.     *)
ReceiveBlock(c) ==
    /\ At(c, "listening") /\ recorded[c] < MaxBlocks
    /\ recorded' = [recorded EXCEPT ![c] = @ + 1]
    /\ IF InSequence(c)
          THEN /\ head' = [head EXCEPT ![c] = @ + 1]
               /\ Goto(c, "listening") \/ Goto(c, "except")
          ELSE UNCHANGED head /\ Goto(c, "except")
    /\ UNCHANGED <<claim, file, results, table, worker, restarts>>

\* Mutant: Stop trusts the page's counts.
CountedAnything(c) == head[c] > 0

\* What LiveCaptureSession.finalize compares before it closes the capture.
Counted(c) == head[c] = recorded[c] /\ head[c] > 0

\* write_browser_capture_artifacts: input.json comes last.
StoreRecording(j, blocks) == input' = [input EXCEPT ![j] = blocks]

(* LiveCaptureSession.finalize closes the capture, which becomes             *)
(* recording.wav, input.json and a session.json that says captured.  A full  *)
(* disk leaves it closed, with or without its input.json.                    *)
FinalizeCapture(c) ==
    \/ SetFile(c, "captured") /\ StoreRecording(c, head[c]) /\ Goto(c, "queue")
    \/ /\ "disk" \in Faults
       /\ SetFile(c, "closed")
       /\ UNCHANGED input \/ StoreRecording(c, head[c])
       /\ Goto(c, "except")

\* Stop: recognition writes its files, the capture is finalized if all is there.
StopLive(c) ==
    /\ At(c, "listening")
    /\ \/ Counted(c) /\ FinalizeCapture(c)
       \/ ~Counted(c) /\ UNCHANGED <<file, input>> /\ Goto(c, "except")
    /\ UNCHANGED <<claim, recorded, head, run, table, worker, restarts>>

\* A close frame or the end of the stream before Stop.
Leave(c) ==
    /\ At(c, "listening")
    /\ Goto(c, "finally")
    /\ UNCHANGED <<claim, capture, results, table, worker, restarts>>

\* Mutant: the stopped client releases nothing.
KeepLive(c) ==
    /\ At(c, "release")
    /\ Goto(c, "done") \/ Goto(c, "failFinal")
    /\ UNCHANGED <<claim, capture, results, table, worker, restarts>>

\* release_live_job, then "stopped", which may not reach the page any more.
ReleaseStopped(c) ==
    /\ At(c, "release")
    /\ claim' = IF claim = c THEN None ELSE claim
    /\ Goto(c, "done") \/ Goto(c, "failFinal")
    /\ UNCHANGED <<capture, results, table, worker, restarts>>

\* LiveCaptureSession.abort; it writes session.json last.
Abort(c) == SetFile(c, "failed")
AbortFails(c) == "disk" \in Faults /\ SetFile(c, "closed")

\* The except clause; an abort that raises passes over the job.
ExceptAbort(c) ==
    /\ At(c, "except")
    /\ \/ Abort(c) /\ Goto(c, "fail")
       \/ AbortFails(c) /\ Goto(c, "finally")
    /\ UNCHANGED <<claim, recorded, head, results, table, worker, restarts>>

\* Mutant: a late failure also fails what is complete.
FailAnyJob(c) ==
    /\ pc[c] \in {"fail", "failFinal"}
    /\ jobs' = IF jobs[c] # None THEN [jobs EXCEPT ![c] = "failed"] ELSE jobs
    /\ Goto(c, IF At(c, "fail") THEN "finally" ELSE "done")
    /\ UNCHANGED <<claim, capture, results, queue, worker, restarts>>

FailLiveJob(c) ==
    /\ pc[c] \in {"fail", "failFinal"}
    /\ jobs' = IF jobs[c] \notin {None, "complete"}
                  THEN [jobs EXCEPT ![c] = "failed"] ELSE jobs
    /\ Goto(c, IF At(c, "fail") THEN "finally" ELSE "done")
    /\ UNCHANGED <<claim, capture, results, queue, worker, restarts>>

(* The finally clause of a handler that did not finish Stop.  If its own    *)
(* abort raises, the slot is not released.                                  *)
Finally(c) ==
    /\ At(c, "finally") /\ Goto(c, "done")
    /\ \/ /\ IF file[c] = "open" THEN Abort(c) ELSE UNCHANGED file
          /\ claim' = IF claim = c THEN None ELSE claim
       \/ file[c] = "open" /\ AbortFails(c) /\ UNCHANGED claim
    /\ UNCHANGED <<recorded, head, results, table, worker, restarts>>

(***************************************************************************)
(* Uploads, and what both kinds of client do with a job.                   *)
(***************************************************************************)
\* POST /api/transcriptions: a short or refused body leaves nothing behind.
ReceiveUpload(u) ==
    /\ At(u, "idle")
    /\ \/ StoreRecording(u, 1) /\ Goto(u, "queue")
       \/ UNCHANGED input /\ Goto(u, "done")
    /\ UNCHANGED <<claim, capture, run, table, worker, restarts>>

QueueJob(j) ==
    /\ At(j, "queue")
    /\ SetJob(j, "queued") /\ Goto(j, "submit")
    /\ UNCHANGED <<claim, capture, results, queue, worker, restarts>>

SubmitJob(j) ==
    /\ At(j, "submit")
    /\ queue' = Append(queue, j)
    /\ Goto(j, IF j \in Live THEN "release" ELSE "done")
    /\ UNCHANGED <<claim, capture, results, jobs, worker, restarts>>

(***************************************************************************)
(* The worker: run_job.                                                    *)
(***************************************************************************)
Work(step) == worker' = [worker EXCEPT !.step = step]

TakeJob ==
    /\ worker = Resting /\ queue # <<>>
    /\ worker' = [job |-> Head(queue), step |-> "transcribe"]
    /\ queue' = Tail(queue) /\ SetJob(Head(queue), "transcribing")
    /\ UNCHANGED <<pc, claim, capture, results, restarts>>

(* run_offline writes run.json last but for the report: it may fail with    *)
(* and without it.                                                          *)
Transcribe ==
    /\ worker.step = "transcribe"
    /\ LET complete == [run EXCEPT ![worker.job] = "complete"] IN
          \/ run' = complete /\ Work(IF worker.job \in Live THEN "reconcile" ELSE "complete")
          \/ "transcriber" \in Faults /\ run' \in {run, complete} /\ Work("failed")
    /\ UNCHANGED <<pc, claim, capture, input, table, restarts>>

\* The live directory is copied and finalize_live_run extends run.json.
Reconcile ==
    /\ worker.step = "reconcile"
    /\ \/ run' = [run EXCEPT ![worker.job] = "reconciled"] /\ Work("complete")
       \/ "transcriber" \in Faults /\ UNCHANGED run /\ Work("failed")
    /\ UNCHANGED <<pc, claim, capture, input, table, restarts>>

\* Mutant: only a success is reported.
ReportSuccess ==
    /\ worker.step \in {"complete", "failed"}
    /\ jobs' = IF worker.step = "complete"
                  THEN [jobs EXCEPT ![worker.job] = "complete"] ELSE jobs
    /\ worker' = Resting
    /\ UNCHANGED <<pc, claim, capture, results, queue, restarts>>

ReportJob ==
    /\ worker.step \in {"complete", "failed"}
    /\ SetJob(worker.job, worker.step) /\ worker' = Resting
    /\ UNCHANGED <<pc, claim, capture, results, queue, restarts>>

(***************************************************************************)
(* The process ends; the next one lists the runs that are complete.        *)
(***************************************************************************)
LoadCompletedJobs ==
    [j \in Jobs |-> IF run[j] # None /\ input[j] > 0 THEN "complete" ELSE None]

Restart ==
    /\ restarts < MaxRestarts /\ restarts' = restarts + 1
    /\ pc' = [j \in Jobs |-> IF At(j, "idle") THEN "idle" ELSE "done"]
    /\ claim' = None /\ queue' = <<>> /\ worker' = Resting
    /\ jobs' = LoadCompletedJobs
    /\ UNCHANGED <<capture, results>>

Handler(c) ==
    \/ OpenCapture(c) \/ GetLiveModel(c) \/ PublishLive(c)
    \/ QueueJob(c) \/ SubmitJob(c) \/ ReleaseStopped(c)
    \/ ExceptAbort(c) \/ FailLiveJob(c) \/ Finally(c)
Page(c) == ClaimLive(c) \/ LoseBlock(c) \/ ReceiveBlock(c) \/ StopLive(c) \/ Leave(c)
Upload(u) == QueueJob(u) \/ SubmitJob(u)
Worker == TakeJob \/ Transcribe \/ Reconcile \/ ReportJob

Next ==
    \/ \E c \in Live : Handler(c) \/ Page(c)
    \/ \E u \in Uploads : ReceiveUpload(u) \/ Upload(u)
    \/ Worker
    \/ Restart

Spec == Init /\ [][Next]_vars

\* Threads run on; pages and requests may stop at any point.
FairSpec ==
    /\ Spec
    /\ \A c \in Live : WF_vars(Handler(c))
    /\ \A u \in Uploads : WF_vars(Upload(u))
    /\ WF_vars(Worker)

(***************************************************************************)
(* Properties.                                                             *)
(***************************************************************************)
Steps == {"idle", "capture", "model", "publish", "listening", "queue", "submit",
          "release", "except", "fail", "failFinal", "finally", "done"}

TypeOK ==
    /\ pc \in [Jobs -> Steps] /\ claim \in Live \cup {None}
    /\ \A n \in {recorded, head} : n \in [Live -> 0..MaxBlocks]
    /\ file \in [Live -> {None, "open", "closed", "captured", "failed"}]
    /\ input \in [Jobs -> Nat] /\ run \in [Jobs -> {None, "complete", "reconciled"}]
    /\ jobs \in [Jobs -> {None, "streaming", "queued", "transcribing", "complete", "failed"}]
    /\ queue \in Seq(Jobs)
    /\ worker \in [job : Jobs \cup {None},
                   step : {"idle", "transcribe", "reconcile", "complete", "failed"}]
    /\ restarts \in 0..MaxRestarts

Holding == {"capture", "model", "publish", "listening", "queue", "submit", "release",
            "except", "fail", "finally"}

(* Whoever records holds the live slot, and the slot is never held by a      *)
(* handler that ended, on any path through the handler's except and finally  *)
(* clauses, so the next client is not refused; except where the abort of the *)
(* finally clause itself failed.                                             *)
SlotHasListener ==
    \A c \in Live :
        /\ pc[c] \in Holding => claim = c
        /\ claim = c => pc[c] \in Holding \/ (At(c, "done") /\ file[c] = "closed")

CompletedJobsStand ==
    [][\A j \in Jobs :
          /\ jobs[j] = "complete" => jobs'[j] = "complete"
          /\ jobs'[j] = "complete" =>
                /\ run'[j] # None
                /\ j \in Live => input'[j] = recorded'[j]]_vars

QueuedJobsEnd ==
    \A j \in Jobs : jobs[j] = "queued" ~> jobs[j] \in {"complete", "failed", None}

(* A job that was queued ends, complete or failed, or is forgotten by a       *)
(* restart, whatever its client does.  One that is reported complete is never *)
(* taken back, by the late failure of its client or by a restart, and its run *)
(* was made from every block its page recorded.                               *)
JobsSettle == CompletedJobsStand /\ QueuedJobsEnd

=============================================================================
