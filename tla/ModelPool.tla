------------------------------- MODULE ModelPool -------------------------------
(***************************************************************************)
(* LocalModelPool and the worker processes of model_worker.py.  The pool   *)
(* keeps one worker per kind of model.  A capture asks it for a worker     *)
(* (preview, commit), its lane then sends requests down the worker's pipe  *)
(* (_ModelProcess.infer) and waits; the idle timer or the end of the       *)
(* program unloads whatever the pool holds.  Several lanes may hold one    *)
(* worker: the lane of an aborted capture may still be inferring when the  *)
(* next capture starts.                                                    *)
(*                                                                         *)
(* A step of a thread is what it does between two points where it can      *)
(* wait: for the pool's lock, a worker's lock, a message or a process.  A  *)
(* worker is its process, which may fail or be killed at any time, and the *)
(* two directions of its pipe.                                             *)
(***************************************************************************)
EXTENDS Naturals, Sequences, FiniteSets

CONSTANTS
    Lanes,        \* threads that hold a model and ask it
    Kind,         \* "preview" or "commit", per lane
    Unloader,     \* the thread that calls unload
    MaxWorkers,   \* bound: processes started
    MaxRequests,  \* bound: requests sent to one worker
    MaxUnloads,   \* bound: calls of unload
    Faults        \* "slow" starts, "error" of a model, "killed" processes

Kinds == {"preview", "commit"}
Threads == Lanes \cup {Unloader}
Workers == 1..MaxWorkers
NoWorker == 0
Nobody == "nobody"

\* Messages: their type and request id.
Ready == <<"ready", 0>>
Error == <<"error", 0>>
Shutdown == <<"shutdown", 0>>
Result(id) == <<"result", id>>

ASSUME PoolConstants ==
    /\ Kind \in [Lanes -> Kinds]
    /\ Unloader \notin Lanes /\ Nobody \notin Lanes \cup {Unloader}
    /\ {MaxWorkers, MaxRequests, MaxUnloads} \subseteq Nat
    /\ Faults \subseteq {"slow", "error", "killed"}

VARIABLES
    slot,      \* _preview_model and _commit_model
    poolLock,  \* thread that holds the pool's lock across several steps
    process,   \* state of each worker's process
    closed,    \* _closed of each worker
    lock,      \* thread that holds each worker's lock across several steps
    requests,  \* messages to each worker that it has not dealt with
    replies,   \* messages from each worker that nobody has read
    sent,      \* requests each worker was sent; the next id is one more
    pc,        \* where each thread is
    held,      \* the worker a thread is holding, starting or closing
    toClose,   \* workers unload has yet to close
    unloads

pool == <<slot, poolLock>>
pipes == <<requests, replies>>
workers == <<process, closed, lock, pipes, sent>>
threads == <<pc, held, toClose, unloads>>
vars == <<pool, workers, threads>>

Init ==
    /\ slot = [k \in Kinds |-> NoWorker] /\ poolLock = Nobody
    /\ process = [w \in Workers |-> "none"]
    /\ closed = [w \in Workers |-> FALSE]
    /\ lock = [w \in Workers |-> Nobody]
    /\ requests = [w \in Workers |-> <<>>] /\ replies = [w \in Workers |-> <<>>]
    /\ sent = [w \in Workers |-> 0]
    /\ pc = [t \in Threads |-> "idle"]
    /\ held = [t \in Threads |-> NoWorker]
    /\ toClose = <<>> /\ unloads = 0

At(t, point) == pc[t] = point
Goto(t, point) == pc' = [pc EXCEPT ![t] = point]

\* is_alive: a process that reported an error lives until it has exited.
Alive(w) == process[w] \in {"starting", "idle", "working", "exiting"}

-----------------------------------------------------------------------------
(* The pool: preview and commit.                                           *)

PoolFree == poolLock = Nobody

\* A worker that has not exited is handed out.
TakeModel(l) ==
    LET w == slot[Kind[l]] IN
    /\ At(l, "idle") /\ PoolFree
    /\ w # NoWorker /\ Alive(w)
    /\ held' = [held EXCEPT ![l] = w] /\ Goto(l, "holding")
    /\ UNCHANGED <<pool, workers, toClose, unloads>>

\* One that has is closed first, with the lock held.
FindExited(l) ==
    LET w == slot[Kind[l]] IN
    /\ At(l, "idle") /\ PoolFree
    /\ w # NoWorker /\ ~Alive(w)
    /\ \E v \in Workers : process[v] = "none"   \* bound
    /\ poolLock' = l
    /\ held' = [held EXCEPT ![l] = w] /\ Goto(l, "close")
    /\ UNCHANGED <<slot, workers, toClose, unloads>>

IsNext(w) == process[w] = "none" /\ \A v \in 1..(w - 1) : process[v] # "none"

\* _ModelProcess starts a process and waits for its first message.
StartWorker(l) ==
    /\ (At(l, "idle") /\ PoolFree) \/ At(l, "replace")
    /\ slot[Kind[l]] = NoWorker
    /\ \E w \in Workers :
          /\ IsNext(w)
          /\ process' = [process EXCEPT ![w] = "starting"]
          /\ held' = [held EXCEPT ![l] = w]
    /\ poolLock' = l /\ Goto(l, "starting")
    /\ UNCHANGED <<slot, closed, lock, pipes, sent, toClose, unloads>>

\* The worker is ready: it fills the slot.
ReceiveReady(l) ==
    LET w == held[l] IN
    /\ At(l, "starting")
    /\ replies[w] # <<>> /\ Head(replies[w]) = Ready
    /\ replies' = [replies EXCEPT ![w] = Tail(@)]
    /\ slot' = [slot EXCEPT ![Kind[l]] = w]
    /\ poolLock' = Nobody
    /\ Goto(l, "holding")
    /\ UNCHANGED <<process, closed, lock, requests, sent, held, toClose, unloads>>

\* It is late or reports an error: it is closed, and the caller gets an error.
StartFails(l) ==
    LET w == held[l] IN
    /\ At(l, "starting")
    /\ "slow" \in Faults \/ (replies[w] # <<>> /\ Head(replies[w]) = Error)
    /\ Goto(l, "close")
    /\ UNCHANGED <<pool, workers, held, toClose, unloads>>

\* It died before its first message: recv raises EOFError.
StartDies(l) ==
    LET w == held[l] IN
    /\ At(l, "starting") /\ ~Alive(w) /\ replies[w] = <<>>
    /\ poolLock' = Nobody
    /\ held' = [held EXCEPT ![l] = NoWorker] /\ Goto(l, "idle")
    /\ UNCHANGED <<slot, workers, toClose, unloads>>

-----------------------------------------------------------------------------
(* A lane asks its worker: infer.                                          *)

\* Mutant: requests are not serialised.
LockFreeAlways(w) == TRUE

LockFree(w) == lock[w] = Nobody

\* The request goes into the pipe; the lane waits with the lock held.
SendRequest(l) ==
    LET w == held[l] IN
    /\ At(l, "holding") /\ LockFree(w) /\ sent[w] < MaxRequests
    /\ ~closed[w] /\ Alive(w)
    /\ lock' = [lock EXCEPT ![w] = l]
    /\ sent' = [sent EXCEPT ![w] = @ + 1]
    /\ requests' = [requests EXCEPT ![w] = Append(@, <<"infer", sent'[w]>>)]
    /\ Goto(l, "waiting")
    /\ UNCHANGED <<pool, process, closed, replies, held, toClose, unloads>>

\* An answer, an error, or the end of the pipe.
ReceiveReply(l) ==
    LET w == held[l] IN
    /\ At(l, "waiting")
    /\ replies[w] # <<>> \/ ~Alive(w)
    /\ replies' = [replies EXCEPT ![w] = IF @ = <<>> THEN @ ELSE Tail(@)]
    /\ lock' = [lock EXCEPT ![w] = Nobody]
    /\ Goto(l, IF replies[w] # <<>> /\ Head(replies[w]) # Error THEN "holding"
               ELSE "failed")
    /\ UNCHANGED <<pool, process, closed, requests, sent, held, toClose, unloads>>

\* The worker is closed or dead: infer raises at once.
RefuseRequest(l) ==
    LET w == held[l] IN
    /\ At(l, "holding") /\ LockFree(w) /\ (closed[w] \/ ~Alive(w))
    /\ Goto(l, "failed")
    /\ UNCHANGED <<pool, workers, held, toClose, unloads>>

\* The capture of this lane is over; the next one will ask the pool again.
EndCapture(l) ==
    /\ pc[l] \in {"holding", "failed"}
    /\ held' = [held EXCEPT ![l] = NoWorker] /\ Goto(l, "idle")
    /\ UNCHANGED <<pool, workers, toClose, unloads>>

-----------------------------------------------------------------------------
(* unload and close.                                                       *)

InUse(k) == IF slot[k] = NoWorker THEN <<>> ELSE <<slot[k]>>

SlotsInUse == InUse("preview") \o InUse("commit")

\* Mutant: the slots keep the workers that are being closed.
UnloadKeepsSlots ==
    /\ At(Unloader, "idle") /\ PoolFree /\ unloads < MaxUnloads
    /\ toClose' = SlotsInUse
    /\ unloads' = unloads + 1
    /\ Goto(Unloader, IF SlotsInUse = <<>> THEN "idle" ELSE "unload")
    /\ UNCHANGED <<pool, workers, held>>

\* The slots are emptied under the lock, the workers closed after it.
Unload ==
    /\ At(Unloader, "idle") /\ PoolFree /\ unloads < MaxUnloads
    /\ slot' = [k \in Kinds |-> NoWorker]
    /\ toClose' = SlotsInUse
    /\ unloads' = unloads + 1
    /\ Goto(Unloader, IF SlotsInUse = <<>> THEN "idle" ELSE "unload")
    /\ UNCHANGED <<poolLock, workers, held>>

NextToClose ==
    /\ At(Unloader, "unload")
    /\ held' = [held EXCEPT ![Unloader] = Head(toClose)]
    /\ toClose' = Tail(toClose)
    /\ Goto(Unloader, "close")
    /\ UNCHANGED <<pool, workers, unloads>>

\* Which close a thread is in.
IsReplacing(t) == t \in Lanes /\ slot[Kind[t]] = held[t]
IsForced(t) == t \in Lanes /\ ~IsReplacing(t)

\* The worker is told to stop and loses its pipe, with its lock held.
Close(t) ==
    LET w == held[t] IN
    /\ At(t, "close") /\ LockFree(w)
    /\ closed' = [closed EXCEPT ![w] = TRUE]
    /\ lock' = [lock EXCEPT ![w] = t]
    /\ requests' = [requests EXCEPT ![w] =
                        IF Alive(w) /\ ~IsForced(t) THEN Append(@, Shutdown) ELSE @]
    /\ Goto(t, "join")
    /\ UNCHANGED <<pool, process, replies, sent, held, toClose, unloads>>

\* The process exited in time, or is terminated.
Joined(t) ==
    LET w == held[t] IN
    /\ process' = [process EXCEPT ![w] = "dead"]
    /\ lock' = [lock EXCEPT ![w] = Nobody]
    /\ held' = [held EXCEPT ![t] = NoWorker]
    /\ UNCHANGED <<closed, pipes, sent, unloads>>

\* An exited worker leaves its slot; the lock is still the caller's, who starts
\* the next one.
JoinReplaced(l) ==
    /\ At(l, "join") /\ IsReplacing(l)
    /\ Joined(l)
    /\ slot' = [slot EXCEPT ![Kind[l]] = NoWorker]
    /\ Goto(l, "replace")
    /\ UNCHANGED <<poolLock, toClose>>

\* The caller of preview or commit gets the error.
JoinForced(l) ==
    /\ At(l, "join") /\ IsForced(l)
    /\ Joined(l)
    /\ poolLock' = Nobody /\ Goto(l, "idle")
    /\ UNCHANGED <<slot, toClose>>

JoinUnloaded ==
    /\ At(Unloader, "join")
    /\ Joined(Unloader)
    /\ Goto(Unloader, IF toClose = <<>> THEN "idle" ELSE "unload")
    /\ UNCHANGED <<pool, toClose>>

-----------------------------------------------------------------------------
(* The worker process: _worker_main.                                       *)

\* A message for the parent; after the parent closed the pipe it is lost, and
\* the worker gives up.
Reply(w, message, next) ==
    /\ replies' = IF closed[w] THEN replies
                  ELSE [replies EXCEPT ![w] = Append(@, message)]
    /\ process' = [process EXCEPT ![w] = IF closed[w] THEN "exiting" ELSE next]
    /\ UNCHANGED <<pool, closed, lock, sent, threads>>

WorkerReady(w) ==
    /\ process[w] = "starting"
    /\ Reply(w, Ready, "idle")
    /\ UNCHANGED requests

\* Mutant: a worker survives an error of its model, and says nothing.
WorkerRaisesSilently(w) ==
    /\ "error" \in Faults /\ process[w] \in {"starting", "working"}
    /\ process' = [process EXCEPT ![w] = "idle"]
    /\ requests' = [requests EXCEPT ![w] = IF @ = <<>> THEN @ ELSE Tail(@)]
    /\ UNCHANGED <<pool, closed, lock, replies, sent, threads>>

\* The factory or the model raises.
WorkerRaises(w) ==
    /\ "error" \in Faults /\ process[w] \in {"starting", "working"}
    /\ Reply(w, Error, "exiting")
    /\ UNCHANGED requests

WorkerReceive(w) ==
    /\ process[w] = "idle" /\ requests[w] # <<>>
    /\ process' = [process EXCEPT ![w] =
                       IF Head(requests[w]) = Shutdown THEN "exiting" ELSE "working"]
    /\ UNCHANGED <<pool, closed, lock, pipes, sent, threads>>

\* The end of the pipe ends the worker.
WorkerEndOfPipe(w) ==
    /\ process[w] = "idle" /\ requests[w] = <<>> /\ closed[w]
    /\ process' = [process EXCEPT ![w] = "exiting"]
    /\ UNCHANGED <<pool, closed, lock, pipes, sent, threads>>

WorkerAnswers(w) ==
    /\ process[w] = "working"
    /\ requests' = [requests EXCEPT ![w] = Tail(@)]
    /\ Reply(w, Result(Head(requests[w])[2]), "idle")

WorkerExits(w) ==
    /\ process[w] = "exiting"
    /\ process' = [process EXCEPT ![w] = "dead"]
    /\ UNCHANGED <<pool, closed, lock, pipes, sent, threads>>

WorkerKilled(w) ==
    /\ "killed" \in Faults /\ Alive(w)
    /\ process' = [process EXCEPT ![w] = "dead"]
    /\ UNCHANGED <<pool, closed, lock, pipes, sent, threads>>

-----------------------------------------------------------------------------
LaneStep(l) ==
    \/ FindExited(l) \/ StartWorker(l) \/ ReceiveReady(l) \/ StartFails(l)
    \/ StartDies(l) \/ ReceiveReply(l)
    \/ Close(l) \/ JoinReplaced(l) \/ JoinForced(l)

LaneWish(l) ==
    TakeModel(l) \/ SendRequest(l) \/ RefuseRequest(l) \/ EndCapture(l)

UnloaderStep == NextToClose \/ Close(Unloader) \/ JoinUnloaded

WorkerStep(w) ==
    \/ WorkerReady(w) \/ WorkerRaises(w) \/ WorkerReceive(w)
    \/ WorkerEndOfPipe(w) \/ WorkerAnswers(w) \/ WorkerExits(w)

Next ==
    \/ \E l \in Lanes : LaneStep(l) \/ LaneWish(l)
    \/ Unload \/ UnloaderStep
    \/ \E w \in Workers : WorkerStep(w) \/ WorkerKilled(w)

Spec == Init /\ [][Next]_vars

\* A thread goes on when what it waits for arrives; a model returns or raises.
\* What a capture asks for, and unload, are not fair.
FairSpec ==
    /\ Spec
    /\ \A l \in Lanes : WF_vars(LaneStep(l) /\ pc[l] # "idle")
    /\ WF_vars(UnloaderStep)
    /\ \A w \in Workers : WF_vars(WorkerStep(w))

-----------------------------------------------------------------------------
(* Properties.                                                             *)

TypeOK ==
    /\ slot \in [Kinds -> Workers \cup {NoWorker}]
    /\ poolLock \in Lanes \cup {Nobody}
    /\ process \in [Workers -> {"none", "starting", "idle", "working", "exiting", "dead"}]
    /\ closed \in [Workers -> BOOLEAN]
    /\ lock \in [Workers -> Threads \cup {Nobody}]
    /\ requests \in [Workers -> Seq({"infer", "shutdown"} \X (0..MaxRequests))]
    /\ replies \in [Workers -> Seq({"ready", "error", "result"} \X (0..MaxRequests))]
    /\ sent \in [Workers -> 0..MaxRequests]
    /\ pc \in [Threads -> {"idle", "replace", "starting", "holding", "waiting",
                           "failed", "unload", "close", "join"}]
    /\ held \in [Threads -> Workers \cup {NoWorker}]
    /\ toClose \in Seq(Workers) /\ unloads \in 0..MaxUnloads

\* infer's check of the request id never fails: what a lane reads while it
\* waits is the answer to its own request, or an error.
ReplyIsOwn ==
    \A l \in Lanes :
        At(l, "waiting") =>
            replies[held[l]] \in {<<>>, <<Error>>, <<Result(sent[held[l]])>>}

\* unload closes models it took out of the pool without the pool's lock, while
\* a lane may be inferring with one of them: the request is answered first.
InferenceIsNotCut ==
    \A l \in Lanes : At(l, "waiting") => ~closed[held[l]]

\* A lane that infers gets the answer to its own request.
InferenceIsAnswered == ReplyIsOwn /\ InferenceIsNotCut

\* A worker that can be handed out is one nobody has closed or is closing
\* (preview and commit close an exited one with the lock held).
PoolHandsOutOpenWorkers ==
    \A k \in Kinds :
        slot[k] # NoWorker =>
            /\ closed[slot[k]] => poolLock # Nobody
            /\ \A i \in DOMAIN toClose : toClose[i] # slot[k]
            /\ held[Unloader] # slot[k]

\* No process is left behind: one that runs is in its slot, or a thread is
\* starting or closing it.
NoOrphan ==
    \A w \in Workers :
        Alive(w) =>
            \/ \E k \in Kinds : slot[k] = w
            \/ \E t \in Threads :
                  held[t] = w /\ pc[t] \in {"starting", "close", "join"}
            \/ \E i \in DOMAIN toClose : toClose[i] = w

\* The slots and the processes agree, whoever replaces, unloads or kills them.
PoolKeepsWorkers == TypeOK /\ PoolHandsOutOpenWorkers /\ NoOrphan

\* Whoever waits for a worker, or for the pool in a call that has begun, comes
\* back: no wait of pool, close and infer is for one another.
CallsReturn ==
    \A t \in Threads :
        pc[t] \notin {"idle", "holding", "failed"} ~>
            pc[t] \in {"idle", "holding", "failed"}

=============================================================================
