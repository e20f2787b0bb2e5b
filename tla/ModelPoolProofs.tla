---------------------------- MODULE ModelPoolProofs ----------------------------
(* Proofs about ModelPool, for any lanes, any number of workers, requests and *)
(* unloads, and any combination of slow starts, errors and killed processes.  *)
EXTENDS ModelPool, TLAPS

-----------------------------------------------------------------------------
(* The inductive invariant.                                                *)

\* The workers unload took out of the pool and has yet to close.
Unloading == {toClose[i] : i \in DOMAIN toClose}

\* Nobody but lane l can reach worker w.
Own(l, w) ==
    /\ \A k \in Kinds : slot[k] # w
    /\ \A t \in Threads \ {l} : held[t] # w
    /\ w \notin Unloading

\* Where a thread is, and whether it has a worker.
PlaceKnown ==
    /\ \A l \in Lanes :
          /\ pc[l] # "unload"
          /\ (held[l] = NoWorker) <=> pc[l] \in {"idle", "replace"}
    /\ pc[Unloader] \in {"idle", "unload", "close", "join"}
    /\ (held[Unloader] = NoWorker) <=> pc[Unloader] \in {"idle", "unload"}
    /\ At(Unloader, "idle") => toClose = <<>>
    /\ At(Unloader, "unload") => toClose # <<>>

\* The pool's lock is held by the lane that starts or replaces a worker.
PoolLocked ==
    \A l \in Lanes :
        poolLock = l <=> pc[l] \in {"replace", "starting", "close", "join"}

\* A worker's lock is held by the thread that waits for its answer or its end.
WorkerLocked ==
    /\ \A t \in Threads : pc[t] \in {"waiting", "join"} => lock[held[t]] = t
    /\ \A w \in Workers : lock[w] # Nobody =>
          held[lock[w]] = w /\ pc[lock[w]] \in {"waiting", "join"}

\* It is told to stop before its end is waited for.
JoinIsClosed == \A t \in Threads : At(t, "join") => closed[held[t]]

\* A worker whose process was not started is untouched and nobody has it.
UnbornUntouched ==
    \A w \in Workers :
        process[w] = "none" =>
            /\ ~closed[w] /\ lock[w] = Nobody
            /\ requests[w] = <<>> /\ replies[w] = <<>>
            /\ \A k \in Kinds : slot[k] # w
            /\ \A t \in Threads : held[t] # w
            /\ w \notin Unloading

\* The slots hold different workers; those unload closes are in none.
SlotsApart ==
    \A k \in Kinds : slot[k] # NoWorker =>
        /\ \A j \in Kinds \ {k} : slot[j] # slot[k]
        /\ held[Unloader] # slot[k] /\ slot[k] \notin Unloading

\* A worker with a slot is closed only by the lane that empties that slot.
ClosedIsReplaced ==
    \A k \in Kinds : slot[k] # NoWorker /\ closed[slot[k]] =>
        \E l \in Lanes : At(l, "join") /\ Kind[l] = k /\ held[l] = slot[k]

\* A lane fills the empty slot of its kind.
StartingFillsSlot ==
    \A l \in Lanes : At(l, "starting") => slot[Kind[l]] = NoWorker

\* The worker a lane is starting, or closes because it did not start, is its own.
Outside(l) ==
    \/ At(l, "starting")
    \/ pc[l] \in {"close", "join"} /\ slot[Kind[l]] # held[l]

OutsideIsOwn == \A l \in Lanes : Outside(l) => Own(l, held[l])

\* A worker that starts has said at most one thing.
Newborn(w) ==
    /\ ~closed[w] /\ lock[w] = Nobody /\ requests[w] = <<>>
    /\ \/ process[w] \in {"starting", "dead"} /\ replies[w] = <<>>
       \/ process[w] \in {"idle", "dead"} /\ replies[w] = <<Ready>>
       \/ process[w] \in {"exiting", "dead"} /\ replies[w] = <<Error>>

StartingIsNewborn == \A l \in Lanes : At(l, "starting") => Newborn(held[l])

\* Workers that were started: in a slot, lent to a lane, or being unloaded.
Served(w) ==
    \/ \E k \in Kinds : slot[k] = w
    \/ \E l \in Lanes : held[l] = w /\ pc[l] \in {"holding", "waiting", "failed"}
    \/ held[Unloader] = w
    \/ w \in Unloading

\* Between two requests both directions of the pipe are empty.
Quiet(w) ==
    /\ process[w] \notin {"none", "starting"}
    /\ ~closed[w] /\ lock[w] = Nobody =>
          /\ replies[w] = <<>> /\ process[w] # "working"
          /\ process[w] = "idle" => requests[w] = <<>>

ServedIsQuiet == \A w \in Workers : Served(w) => Quiet(w)

\* The request a lane waits for is in the pipe, in work, answered or lost.
Pending(w) ==
    /\ ~closed[w]
    /\ \/ /\ process[w] \in {"idle", "working"}
          /\ requests[w] = <<<<"infer", sent[w]>>>> /\ replies[w] = <<>>
       \/ process[w] \in {"exiting", "dead"} /\ replies[w] = <<>>
       \/ process[w] = "idle" /\ requests[w] = <<>> /\ replies[w] = <<Result(sent[w])>>
       \/ process[w] = "dead" /\ replies[w] = <<Result(sent[w])>>
       \/ process[w] \in {"exiting", "dead"} /\ replies[w] = <<Error>>

WaitingIsPending == \A l \in Lanes : At(l, "waiting") => Pending(held[l])

WorkingHasRequest ==
    \A w \in Workers : process[w] = "working" => requests[w] # <<>>

\* A process that runs is in a slot, or with a thread that starts or closes it.
Kept(w) ==
    \/ \E k \in Kinds : slot[k] = w
    \/ \E t \in Threads : held[t] = w /\ pc[t] \in {"starting", "close", "join"}
    \/ w \in Unloading

RunningIsKept == \A w \in Workers : Alive(w) => Kept(w)

PoolInv ==
    /\ TypeOK /\ PlaceKnown /\ PoolLocked /\ WorkerLocked /\ UnbornUntouched
    /\ SlotsApart /\ ClosedIsReplaced /\ StartingFillsSlot /\ OutsideIsOwn
    /\ StartingIsNewborn /\ ServedIsQuiet /\ WaitingIsPending
    /\ WorkingHasRequest /\ RunningIsKept /\ JoinIsClosed

-----------------------------------------------------------------------------
(* The constants and the messages.                                         *)

\* The threads, and the values that stand for no worker and no thread.
LEMMA Names ==
    /\ Threads = Lanes \cup {Unloader} /\ Unloader \notin Lanes /\ Nobody \notin Threads
    /\ NoWorker \notin Workers
    /\ \A l \in Lanes : Kind[l] \in Kinds
  BY PoolConstants DEF Threads, NoWorker, Workers

\* The messages of a pipe differ from one another, and have the types of a pipe.
LEMMA Messages ==
    /\ Ready # Error /\ \A n \in Nat : Shutdown # <<"infer", n>>
    /\ \A m : <<"infer", m>>[2] = m
    /\ \A n : Result(n) # Error /\ Result(n) # Ready
    /\ {Ready, Error} \cup {Result(n) : n \in 0..MaxRequests}
         \subseteq {"ready", "error", "result"} \X (0..MaxRequests)
    /\ {Shutdown} \cup {<<"infer", n>> : n \in 0..MaxRequests}
         \subseteq {"infer", "shutdown"} \X (0..MaxRequests)
  BY PoolConstants DEF Ready, Error, Shutdown, Result

\* A sequence that was appended to is not empty.
LEMMA AppendNonEmpty ==
    ASSUME NEW S, NEW s \in Seq(S), NEW e
    PROVE  Append(s, e) # <<>>
<1>1. Len(Append(s, e)) = Len(s) + 1 /\ Len(s) \in Nat  OBVIOUS
<1>2. Len(<<>>) = 0  OBVIOUS
<1>3. QED  BY <1>1, <1>2

\* Taking the first of a sequence splits its elements.
LEMMA TakeFirst ==
    ASSUME NEW S, NEW s \in Seq(S), s # <<>>
    PROVE  {s[i] : i \in DOMAIN s} = {Tail(s)[i] : i \in DOMAIN Tail(s)} \cup {Head(s)}
<1>1. /\ Len(s) \in Nat \ {0} /\ Head(s) = s[1] /\ Len(Tail(s)) = Len(s) - 1
      /\ DOMAIN s = 1..Len(s) /\ DOMAIN Tail(s) = 1..(Len(s) - 1)
  OBVIOUS
<1>2. \A i \in 1..(Len(s) - 1) : Tail(s)[i] = s[i + 1]  OBVIOUS
<1>3. ASSUME NEW i \in 1..Len(s), i # 1
      PROVE  i - 1 \in 1..(Len(s) - 1) /\ s[i] = Tail(s)[i - 1]
  BY <1>1, <1>2, <1>3
<1>4. \A i \in 1..(Len(s) - 1) : i + 1 \in 1..Len(s)  BY <1>1
<1>5. 1 \in 1..Len(s)  BY <1>1
<1>6. ASSUME NEW i \in DOMAIN s
      PROVE  s[i] \in {Tail(s)[j] : j \in DOMAIN Tail(s)} \cup {Head(s)}
  <2>1. CASE i = 1  BY <1>1, <2>1
  <2>2. CASE i # 1  BY <1>1, <1>3, <2>2
  <2>3. QED  BY <2>1, <2>2
<1>7. \A j \in DOMAIN Tail(s) : Tail(s)[j] \in {s[i] : i \in DOMAIN s}
  BY <1>1, <1>2, <1>4
<1>8. Head(s) \in {s[i] : i \in DOMAIN s}  BY <1>1, <1>5
<1>9. QED  BY <1>6, <1>7, <1>8

\* What unload finds in the slots.
LEMMA SlotsTaken ==
    ASSUME TypeOK
    PROVE  /\ SlotsInUse \in Seq(Workers)
           /\ {SlotsInUse[i] : i \in DOMAIN SlotsInUse}
                = {slot[k] : k \in Kinds} \ {NoWorker}
<1> DEFINE p == slot["preview"]
           c == slot["commit"]
<1>1. {slot[k] : k \in Kinds} = {p, c} /\ {p, c} \subseteq Workers \cup {NoWorker}
  BY DEF Kinds, TypeOK
<1>2. SlotsInUse = (IF p = NoWorker THEN <<>> ELSE <<p>>) \o (IF c = NoWorker THEN <<>> ELSE <<c>>)
  BY DEF SlotsInUse, InUse
<1> HIDE DEF p, c
<1>3. CASE p = NoWorker /\ c = NoWorker
  <2>1. SlotsInUse = <<>>  BY <1>2, <1>3
  <2>2. QED  BY <1>1, <1>3, <2>1
<1>4. CASE p = NoWorker /\ c # NoWorker
  <2>1. SlotsInUse = <<c>>  BY <1>2, <1>4
  <2>2. QED  BY <1>1, <1>4, <2>1
<1>5. CASE p # NoWorker /\ c = NoWorker
  <2>1. SlotsInUse = <<p>>  BY <1>2, <1>5
  <2>2. QED  BY <1>1, <1>5, <2>1
<1>6. CASE p # NoWorker /\ c # NoWorker
  <2>1. SlotsInUse = <<p>> \o <<c>>  BY <1>2, <1>6
  <2>2. <<p>> \in Seq(Workers) /\ <<c>> \in Seq(Workers)  BY <1>1, <1>6
  <2>3. SlotsInUse \in Seq(Workers) /\ Len(SlotsInUse) = 2
    BY <2>1, <2>2
  <2>4. SlotsInUse[1] = p /\ SlotsInUse[2] = c  BY <2>1, <2>2
  <2>5. DOMAIN SlotsInUse = {1, 2}  BY <2>3
  <2>6. QED  BY <1>1, <1>6, <2>3, <2>4, <2>5
<1>7. QED  BY <1>3, <1>4, <1>5, <1>6

\* A step of the pool that asks nothing of the workers.
LEMMA WorkersSame ==
    ASSUME UNCHANGED workers, NEW v \in Workers
    PROVE  /\ Newborn(v)' <=> Newborn(v)
           /\ Quiet(v)' <=> Quiet(v)
           /\ Pending(v)' <=> Pending(v)
           /\ Alive(v)' <=> Alive(v)
  BY DEF workers, pipes, Newborn, Quiet, Pending, Alive

-----------------------------------------------------------------------------
(* Steps of a worker process.                                              *)

\* What a step of a worker's process leaves alone.
LEMMA WorkerFrame ==
    ASSUME NEW w \in Workers, WorkerStep(w) \/ WorkerKilled(w)
    PROVE  UNCHANGED <<slot, poolLock, closed, lock, sent, pc, held, toClose, unloads>>
  BY DEF WorkerStep, WorkerKilled, WorkerReady, WorkerRaises, WorkerReceive,
         WorkerEndOfPipe, WorkerAnswers, WorkerExits, Reply, pool, threads, pipes

\* A process that takes a step was started, and disturbs no other worker.
LEMMA WorkerAlone ==
    ASSUME TypeOK, NEW w \in Workers, WorkerStep(w) \/ WorkerKilled(w)
    PROVE  /\ process[w] \notin {"none", "dead"}
           /\ process'[w] \notin {"none", "starting"}
           /\ \A v \in Workers \ {w} : /\ process'[v] = process[v]
                                       /\ requests'[v] = requests[v]
                                       /\ replies'[v] = replies[v]
<1> USE DEF TypeOK, Reply, pipes
<1>1. CASE WorkerReady(w)  BY <1>1 DEF WorkerReady
<1>2. CASE WorkerRaises(w)  BY <1>2 DEF WorkerRaises
<1>3. CASE WorkerReceive(w)
  <2>1. process[w] = "idle" /\ UNCHANGED pipes  BY <1>3 DEF WorkerReceive
  <2>2. \E p \in {"exiting", "working"} : process' = [process EXCEPT ![w] = p]
    BY <1>3 DEF WorkerReceive
  <2>3. QED  BY <2>1, <2>2
<1>4. CASE WorkerEndOfPipe(w)  BY <1>4 DEF WorkerEndOfPipe
<1>5. CASE WorkerAnswers(w)  BY <1>5 DEF WorkerAnswers
<1>6. CASE WorkerExits(w)  BY <1>6 DEF WorkerExits
<1>7. CASE WorkerKilled(w)  BY <1>7 DEF WorkerKilled, Alive
<1>8. QED  BY <1>1, <1>2, <1>3, <1>4, <1>5, <1>6, <1>7 DEF WorkerStep

\* A step of a worker preserves the types.
LEMMA WorkerTypes ==
    ASSUME PoolInv, NEW w \in Workers, WorkerStep(w) \/ WorkerKilled(w)
    PROVE  TypeOK'
<1> USE DEF PoolInv, TypeOK, Reply, pipes
<1>0. UNCHANGED <<slot, poolLock, closed, lock, sent, pc, held, toClose, unloads>>
  BY WorkerFrame
<1>1. CASE WorkerReady(w) \/ WorkerRaises(w)
  <2>1. PICK m \in {Ready, Error}, p \in {"idle", "exiting"} :
          Reply(w, m, p) /\ UNCHANGED requests
    BY <1>1 DEF WorkerReady, WorkerRaises
  <2>2. m \in {"ready", "error", "result"} \X (0..MaxRequests)  BY Messages
  <2>3. replies' \in [Workers -> Seq({"ready", "error", "result"} \X (0..MaxRequests))]
    BY <2>1, <2>2
  <2>4. process' \in [Workers -> {"none", "starting", "idle", "working", "exiting", "dead"}]
    BY <2>1
  <2>5. QED  BY <1>0, <2>1, <2>3, <2>4
<1>2. CASE WorkerReceive(w)
  BY <1>0, <1>2 DEF WorkerReceive
<1>4. CASE WorkerEndOfPipe(w) \/ WorkerExits(w) \/ WorkerKilled(w)
  BY <1>0, <1>4 DEF WorkerEndOfPipe, WorkerExits, WorkerKilled
<1>5. CASE WorkerAnswers(w)
  <2> DEFINE answer == Result(Head(requests[w])[2])
  <2>1. requests[w] # <<>>  BY <1>5 DEF WorkerAnswers, WorkingHasRequest
  <2>2. Head(requests[w])[2] \in 0..MaxRequests  BY <2>1
  <2>3. answer \in {"ready", "error", "result"} \X (0..MaxRequests)
    BY <2>2, Messages
  <2>4. Tail(requests[w]) \in Seq({"infer", "shutdown"} \X (0..MaxRequests))  BY <2>1
  <2>5. requests' = [requests EXCEPT ![w] = Tail(@)]  BY <1>5 DEF WorkerAnswers
  <2>6. requests' \in [Workers -> Seq({"infer", "shutdown"} \X (0..MaxRequests))]
    BY <2>4, <2>5
  <2>7. Reply(w, answer, "idle")  BY <1>5 DEF WorkerAnswers
  <2> HIDE DEF answer
  <2>8. replies' \in [Workers -> Seq({"ready", "error", "result"} \X (0..MaxRequests))]
    BY <2>3, <2>7
  <2>9. process' \in [Workers -> {"none", "starting", "idle", "working", "exiting", "dead"}]
    BY <2>7
  <2>10. QED  BY <1>0, <2>6, <2>8, <2>9
<1>6. QED  BY <1>1, <1>2, <1>4, <1>5 DEF WorkerStep

\* What a worker does keeps the conversation it is in.
LEMMA WorkerPipe ==
    ASSUME PoolInv, NEW w \in Workers, WorkerStep(w) \/ WorkerKilled(w)
    PROVE  /\ Newborn(w) => Newborn(w)'
           /\ Quiet(w) => Quiet(w)'
           /\ Pending(w) => Pending(w)'
           /\ process'[w] = "working" => requests'[w] # <<>>
<1>0. closed'[w] = closed[w] /\ lock'[w] = lock[w] /\ sent'[w] = sent[w]
      /\ closed[w] \in BOOLEAN /\ sent[w] \in Nat
  BY WorkerFrame, PoolConstants DEF PoolInv, TypeOK
<1> USE DEF PoolInv, TypeOK, Reply, pipes, Newborn, Quiet, Pending
<1>1. CASE WorkerReady(w)
  <2>1. process[w] = "starting" /\ requests'[w] = requests[w]  BY <1>1 DEF WorkerReady
  <2>2. closed[w] => process'[w] = "exiting" /\ replies'[w] = replies[w]
    BY <1>1 DEF WorkerReady
  <2>3. ~closed[w] => process'[w] = "idle" /\ replies'[w] = Append(replies[w], Ready)
    BY <1>1 DEF WorkerReady
  <2>4. QED  BY <1>0, <2>1, <2>2, <2>3
<1>2. CASE WorkerRaises(w)
  <2>1. process[w] \in {"starting", "working"} /\ requests'[w] = requests[w]
        /\ process'[w] = "exiting"
    BY <1>2 DEF WorkerRaises
  <2>2. ~closed[w] => replies'[w] = Append(replies[w], Error)
    BY <1>2 DEF WorkerRaises
  <2>3. Newborn(w) => Newborn(w)'  BY <1>0, <2>1, <2>2, SMTT(20)
  <2>4. Pending(w) => Pending(w)'  BY <1>0, <2>1, <2>2, SMTT(20)
  <2>5. QED  BY <1>0, <2>1, <2>3, <2>4
<1>3. CASE WorkerReceive(w)
  <2>1. process[w] = "idle" /\ requests[w] # <<>>
        /\ requests'[w] = requests[w] /\ replies'[w] = replies[w]
    BY <1>3 DEF WorkerReceive
  <2>2. process'[w] = IF Head(requests[w]) = Shutdown THEN "exiting" ELSE "working"
    BY <1>3 DEF WorkerReceive
  <2>3. Pending(w) => process'[w] = "working"
    BY <1>0, <2>1, <2>2, Messages
  <2>4. QED  BY <1>0, <2>1, <2>2, <2>3
<1>4. CASE WorkerEndOfPipe(w)
  BY <1>0, <1>4 DEF WorkerEndOfPipe
<1>5. CASE WorkerAnswers(w)
  <2> DEFINE answer == Result(Head(requests[w])[2])
  <2>1. process[w] = "working" /\ requests'[w] = Tail(requests[w])
    BY <1>5 DEF WorkerAnswers
  <2>2. closed[w] => process'[w] = "exiting"  BY <1>5 DEF WorkerAnswers
  <2>3. ~closed[w] => process'[w] = "idle" /\ replies'[w] = Append(replies[w], answer)
    BY <1>5 DEF WorkerAnswers
  <2>4. requests[w] = <<<<"infer", sent[w]>>>> => answer = Result(sent[w])
    BY Messages
  <2> HIDE DEF answer
  <2>5. Pending(w) => Pending(w)'
    <3>1. SUFFICES ASSUME Pending(w) PROVE Pending(w)'
      OBVIOUS
    <3>2. ~closed[w] /\ requests[w] = <<<<"infer", sent[w]>>>> /\ replies[w] = <<>>
      BY <2>1, <3>1
    <3>3. requests'[w] = <<>> /\ replies'[w] = <<Result(sent[w])>>
      BY <2>1, <2>3, <2>4, <3>2
    <3>4. QED  BY <1>0, <2>3, <3>2, <3>3, SMTT(20)
  <2>6. QED  BY <1>0, <2>1, <2>2, <2>3, <2>5
<1>6. CASE WorkerExits(w)
  BY <1>0, <1>6 DEF WorkerExits
<1>7. CASE WorkerKilled(w)
  <2>1. process'[w] = "dead" /\ requests'[w] = requests[w] /\ replies'[w] = replies[w]
    BY <1>7 DEF WorkerKilled
  <2>2. QED  BY <1>0, <2>1
<1>8. QED  BY <1>1, <1>2, <1>3, <1>4, <1>5, <1>6, <1>7 DEF WorkerStep

\* A step of a worker, or its death, preserves the invariant.
LEMMA WorkerStepInv ==
    ASSUME PoolInv, NEW w \in Workers, WorkerStep(w) \/ WorkerKilled(w)
    PROVE  PoolInv'
<1>1. UNCHANGED <<slot, poolLock, closed, lock, sent, pc, held, toClose, unloads>>
  BY WorkerFrame
<1>2. process[w] # "none" /\ process[w] # "dead" /\ process'[w] \notin {"none", "starting"}
  BY WorkerAlone DEF PoolInv
<1>3. \A v \in Workers \ {w} : /\ process'[v] = process[v]
                               /\ requests'[v] = requests[v] /\ replies'[v] = replies[v]
  BY WorkerAlone DEF PoolInv
<1>4. Unloading' = Unloading  BY <1>1 DEF Unloading
<1>5. TypeOK'  BY WorkerTypes
<1>6. PlaceKnown' /\ PoolLocked' /\ WorkerLocked' /\ SlotsApart' /\ ClosedIsReplaced'
      /\ StartingFillsSlot' /\ OutsideIsOwn' /\ JoinIsClosed'
  BY <1>1, <1>4 DEF PoolInv, PlaceKnown, PoolLocked, WorkerLocked, SlotsApart,
     ClosedIsReplaced, StartingFillsSlot, OutsideIsOwn, Outside, Own, JoinIsClosed, At
<1>7. UnbornUntouched'
  BY <1>1, <1>2, <1>3, <1>4 DEF PoolInv, UnbornUntouched
<1>8. ASSUME NEW v \in Workers
      PROVE  /\ Newborn(v) => Newborn(v)'
             /\ Quiet(v) => Quiet(v)'
             /\ Pending(v) => Pending(v)'
             /\ (process[v] = "working" => requests[v] # <<>>)
                  => (process'[v] = "working" => requests'[v] # <<>>)
  <2>1. CASE v = w  BY <2>1, WorkerPipe
  <2>2. CASE v # w  BY <1>1, <1>3, <2>2 DEF Newborn, Quiet, Pending
  <2>3. QED  BY <2>1, <2>2
<1>9. StartingIsNewborn' /\ WaitingIsPending'
  <2>1. \A l \in Lanes : pc[l] \in {"starting", "waiting"} => held[l] \in Workers
    BY Names DEF PoolInv, TypeOK, PlaceKnown
  <2>2. QED
    BY <1>1, <1>8, <2>1 DEF PoolInv, StartingIsNewborn, WaitingIsPending, At
<1>10. ServedIsQuiet'
  <2>1. ASSUME NEW v \in Workers PROVE Served(v)' => Served(v)
    BY <1>1, <1>4 DEF Served
  <2>2. QED  BY <1>8, <2>1 DEF PoolInv, ServedIsQuiet
<1>11. WorkingHasRequest'
  BY <1>8 DEF PoolInv, WorkingHasRequest
<1>12. RunningIsKept'
  <2>1. ASSUME NEW v \in Workers PROVE Alive(v)' => Alive(v)
    <3>1. CASE v = w  BY <1>2, <3>1 DEF Alive, PoolInv, TypeOK
    <3>2. CASE v # w  BY <1>3, <3>2 DEF Alive
    <3>3. QED  BY <3>1, <3>2
  <2>2. ASSUME NEW v \in Workers PROVE Kept(v) => Kept(v)'
    BY <1>1, <1>4 DEF Kept
  <2>3. QED  BY <2>1, <2>2 DEF PoolInv, RunningIsKept
<1>13. QED
  BY <1>5, <1>6, <1>7, <1>9, <1>10, <1>11, <1>12 DEF PoolInv

-----------------------------------------------------------------------------
(* Steps of the lanes and of the unloader.                                 *)

\* A lane is handed the worker of its slot.
LEMMA TakeModelInv ==
    ASSUME PoolInv, NEW l \in Lanes, TakeModel(l)
    PROVE  PoolInv'
<1>f. UNCHANGED workers  BY DEF TakeModel
<1>w. \A v \in Workers : Alive(v)' <=> Alive(v)  BY <1>f, WorkersSame
<1> USE Names DEF PoolInv, TypeOK, At, Goto, pool, workers, pipes, threads, TakeModel,
    PoolFree
<1>u. Unloading' = Unloading  BY DEF Unloading
<1>1. TypeOK'  BY <1>u DEF TypeOK
<1>2. PlaceKnown'  BY <1>u DEF PlaceKnown
<1>3. PoolLocked'  BY <1>u DEF PoolLocked
<1>4. WorkerLocked'  BY <1>u DEF WorkerLocked
<1>5. UnbornUntouched'  BY <1>u DEF UnbornUntouched
<1>6. SlotsApart'  BY <1>u DEF SlotsApart
<1>7. ClosedIsReplaced'
  BY <1>u DEF ClosedIsReplaced, PlaceKnown, PoolLocked, StartingIsNewborn, Newborn
<1>8. StartingFillsSlot'  BY <1>u DEF StartingFillsSlot
<1>9. OutsideIsOwn'  BY <1>u DEF OutsideIsOwn, PlaceKnown, PoolLocked, Own, Outside
<1>10. StartingIsNewborn'  BY <1>u DEF StartingIsNewborn, Newborn
<1>11. ServedIsQuiet'  BY <1>u DEF ServedIsQuiet, Served, Quiet
<1>12. WaitingIsPending'  BY <1>u DEF WaitingIsPending, Pending
<1>13. WorkingHasRequest'  BY <1>u DEF WorkingHasRequest
<1>14. RunningIsKept'
  <2>1. ASSUME NEW v \in Workers, Alive(v)' PROVE Alive(v)
    BY <1>w, <2>1
  <2>2. ASSUME NEW v \in Workers, Alive(v)', Kept(v) PROVE Kept(v)'
    BY <1>u, <2>2 DEF Kept
  <2>3. QED  BY <2>1, <2>2 DEF RunningIsKept
<1>15. JoinIsClosed'  BY <1>u DEF JoinIsClosed, PlaceKnown
<1>16. QED
  BY <1>1, <1>2, <1>3, <1>4, <1>5, <1>6, <1>7, <1>8, <1>9, <1>10, <1>11, <1>12, <1>13,
      <1>14, <1>15

\* A lane finds that the worker of its slot has exited.
LEMMA FindExitedInv ==
    ASSUME PoolInv, NEW l \in Lanes, FindExited(l)
    PROVE  PoolInv'
<1>f. UNCHANGED workers  BY DEF FindExited
<1>w. \A v \in Workers : Alive(v)' <=> Alive(v)  BY <1>f, WorkersSame
<1> USE Names DEF PoolInv, TypeOK, At, Goto, pool, workers, pipes, threads, FindExited,
    PoolFree, Alive
<1>u. Unloading' = Unloading  BY DEF Unloading
<1>1. TypeOK'  BY <1>u DEF TypeOK
<1>2. PlaceKnown'  BY <1>u DEF PlaceKnown
<1>3. PoolLocked'  BY <1>u DEF PoolLocked
<1>4. WorkerLocked'  BY <1>u DEF WorkerLocked
<1>5. UnbornUntouched'  BY <1>u DEF UnbornUntouched
<1>6. SlotsApart'  BY <1>u DEF SlotsApart
<1>7. ClosedIsReplaced'
  BY <1>u DEF ClosedIsReplaced, PlaceKnown, PoolLocked, StartingIsNewborn, Newborn
<1>8. StartingFillsSlot'  BY <1>u DEF StartingFillsSlot
<1>9. OutsideIsOwn'  BY <1>u DEF OutsideIsOwn, Own, Outside
<1>10. StartingIsNewborn'  BY <1>u DEF StartingIsNewborn, Newborn
<1>11. ServedIsQuiet'  BY <1>u DEF ServedIsQuiet, Served, Quiet
<1>12. WaitingIsPending'  BY <1>u DEF WaitingIsPending, Pending
<1>13. WorkingHasRequest'  BY <1>u DEF WorkingHasRequest
<1>14. RunningIsKept'
  <2>1. ASSUME NEW v \in Workers, Alive(v)' PROVE Alive(v)
    BY <1>w, <2>1
  <2>2. ASSUME NEW v \in Workers, Alive(v)', Kept(v) PROVE Kept(v)'
    BY <1>u, <2>2 DEF Kept
  <2>3. QED  BY <2>1, <2>2 DEF RunningIsKept
<1>15. JoinIsClosed'  BY <1>u DEF JoinIsClosed, PlaceKnown
<1>16. QED
  BY <1>1, <1>2, <1>3, <1>4, <1>5, <1>6, <1>7, <1>8, <1>9, <1>10, <1>11, <1>12, <1>13,
      <1>14, <1>15

\* A lane starts a worker nobody had.
LEMMA StartWorkerInv ==
    ASSUME PoolInv, NEW l \in Lanes, StartWorker(l)
    PROVE  PoolInv'
<1> USE Names DEF PoolInv, TypeOK, At, Goto, pool, workers, pipes, threads, StartWorker,
    IsNext, PoolFree
<1>u. Unloading' = Unloading  BY DEF Unloading
<1>1. TypeOK'  BY <1>u DEF TypeOK
<1>2. PlaceKnown'  BY <1>u DEF PlaceKnown
<1>3. PoolLocked'  BY <1>u DEF PoolLocked
<1>4. WorkerLocked'  BY <1>u DEF WorkerLocked
<1>5. UnbornUntouched'  BY <1>u DEF UnbornUntouched
<1>6. SlotsApart'  BY <1>u DEF SlotsApart
<1>7. ClosedIsReplaced'
  BY <1>u DEF ClosedIsReplaced, PlaceKnown, PoolLocked, StartingIsNewborn, Newborn
<1>8. StartingFillsSlot'  BY <1>u DEF StartingFillsSlot
<1>9. OutsideIsOwn'
  BY <1>u DEF OutsideIsOwn, PlaceKnown, PoolLocked, UnbornUntouched, Own, Outside
<1>10. StartingIsNewborn'
  <2>1. PICK w \in Workers : /\ process[w] = "none" /\ process' = [process EXCEPT ![w] = "starting"]
                             /\ held' = [held EXCEPT ![l] = w]
    OBVIOUS
  <2>2. Newborn(w)' /\ held'[l] = w  BY <2>1 DEF UnbornUntouched, Newborn
  <2>3. ASSUME NEW m \in Lanes, m # l PROVE ~At(m, "starting")'
    BY <2>3 DEF PoolLocked
  <2>4. QED  BY <2>2, <2>3 DEF StartingIsNewborn
<1>11. ServedIsQuiet'  BY <1>u DEF ServedIsQuiet, Served, Quiet
<1>12. WaitingIsPending'  BY <1>u DEF WaitingIsPending, Pending
<1>13. WorkingHasRequest'  BY <1>u DEF WorkingHasRequest
<1>14. RunningIsKept'
  <2>1. PICK w \in Workers : /\ process' = [process EXCEPT ![w] = "starting"]
                             /\ held' = [held EXCEPT ![l] = w]
    OBVIOUS
  <2>2. Kept(w)'
    <3>1. held'[l] = w /\ pc'[l] = "starting"  BY <2>1
    <3>2. QED  BY <3>1 DEF Kept
  <2>3. ASSUME NEW v \in Workers, v # w PROVE Alive(v)' => Alive(v)
    BY <2>1, <2>3 DEF Alive
  <2>4. ASSUME NEW v \in Workers, Kept(v) PROVE Kept(v)'
    BY <1>u, <2>4 DEF Kept
  <2>5. QED  BY <2>2, <2>3, <2>4 DEF RunningIsKept
<1>15. JoinIsClosed'  BY <1>u DEF JoinIsClosed, PlaceKnown
<1>16. QED
  BY <1>1, <1>2, <1>3, <1>4, <1>5, <1>6, <1>7, <1>8, <1>9, <1>10, <1>11, <1>12, <1>13,
      <1>14, <1>15

\* A worker that is ready fills its slot: it has said nothing else.
LEMMA ReceiveReadyInv ==
    ASSUME PoolInv, NEW l \in Lanes, ReceiveReady(l)
    PROVE  PoolInv'
<1> USE Names DEF PoolInv, TypeOK, At, Goto, pool, workers, pipes, threads, ReceiveReady
<1>u. Unloading' = Unloading  BY DEF Unloading
<1>1. TypeOK'
  <2>1. held[l] \in Workers  BY DEF PlaceKnown
  <2>2. replies' \in [Workers -> Seq({"ready", "error", "result"} \X (0..MaxRequests))]
    BY <2>1
  <2>3. pc' \in [Threads -> {"idle", "replace", "starting", "holding", "waiting",
                             "failed", "unload", "close", "join"}]
    OBVIOUS
  <2>4. slot' \in [Kinds -> Workers \cup {NoWorker}]  BY <2>1
  <2>5. QED  BY <2>2, <2>3, <2>4
<1>2. PlaceKnown'  BY <1>u DEF PlaceKnown
<1>3. PoolLocked'  BY <1>u DEF PoolLocked
<1>4. WorkerLocked'  BY <1>u DEF WorkerLocked
<1>5. UnbornUntouched'  BY <1>u, SMTT(20) DEF UnbornUntouched
<1>6. SlotsApart'  BY <1>u, SMTT(20) DEF SlotsApart, PlaceKnown, OutsideIsOwn, Own, Outside
<1>7. ClosedIsReplaced'
  BY <1>u DEF ClosedIsReplaced, PlaceKnown, PoolLocked, StartingIsNewborn,
     OutsideIsOwn, Newborn, Own, Outside
<1>8. StartingFillsSlot'  BY <1>u DEF StartingFillsSlot, PlaceKnown, PoolLocked
<1>9. OutsideIsOwn'  BY <1>u DEF OutsideIsOwn, PlaceKnown, PoolLocked, Own, Outside
<1>10. StartingIsNewborn'
  <2>1. ASSUME NEW m \in Lanes, At(m, "starting")' PROVE Newborn(held[m])'
    BY <1>u, <2>1 DEF StartingIsNewborn, PlaceKnown, OutsideIsOwn, Newborn, Own, Outside
  <2>2. QED  BY <2>1 DEF StartingIsNewborn
<1>11. ServedIsQuiet'
  <2>1. held[l] \in Workers /\ Newborn(held[l])
    BY DEF PlaceKnown, StartingIsNewborn
  <2>5. replies[held[l]] = <<Ready>>  BY <2>1, Messages DEF Newborn
  <2>6. replies'[held[l]] = <<>>  BY <2>1, <2>5
  <2>7. process[held[l]] \in {"idle", "dead"} /\ requests[held[l]] = <<>>
    BY <2>1, <2>5, Messages DEF Newborn
  <2>2. Quiet(held[l])'  BY <2>6, <2>7 DEF Quiet
  <2>3. ASSUME NEW v \in Workers, v # held[l], Served(v)' PROVE Quiet(v)'
    <3>1. Served(v)  BY <1>u, <2>3 DEF Served
    <3>2. Quiet(v)  BY <3>1 DEF ServedIsQuiet
    <3>3. QED  BY <2>3, <3>2 DEF Quiet
  <2>4. QED  BY <2>2, <2>3 DEF ServedIsQuiet
<1>12. WaitingIsPending'
  <2>1. ASSUME NEW m \in Lanes, At(m, "waiting")' PROVE Pending(held[m])'
    <3>1. m # l /\ At(m, "waiting") /\ held'[m] = held[m]  BY <2>1
    <3>2. held[m] # held[l] /\ held[m] \in Workers
      BY <3>1 DEF OutsideIsOwn, Outside, Own, PlaceKnown
    <3>3. Pending(held[m])  BY <3>1 DEF WaitingIsPending
    <3>4. QED  BY <3>1, <3>2, <3>3 DEF Pending
  <2>2. QED  BY <2>1 DEF WaitingIsPending
<1>13. WorkingHasRequest'  BY <1>u DEF WorkingHasRequest
<1>14. RunningIsKept'
  <2>1. ASSUME NEW v \in Workers, Alive(v)' PROVE Alive(v)
    BY <2>1 DEF Alive
  <2>2. Kept(held[l])'
    <3>1. slot'[Kind[l]] = held[l]  OBVIOUS
    <3>2. QED  BY <3>1 DEF Kept
  <2>3. ASSUME NEW v \in Workers, v # held[l], Kept(v) PROVE Kept(v)'
    <3>1. CASE \E k \in Kinds : slot[k] = v
      <4>1. PICK k \in Kinds : slot[k] = v  BY <3>1
      <4>2. v # NoWorker  OBVIOUS
      <4>3. slot'[k] = v  BY <4>1, <4>2 DEF StartingFillsSlot
      <4>4. QED  BY <4>3 DEF Kept
    <3>2. CASE ~\E k \in Kinds : slot[k] = v
      BY <1>u, <2>3, <3>2 DEF Kept
    <3>3. QED  BY <3>1, <3>2
  <2>4. QED  BY <2>1, <2>2, <2>3 DEF RunningIsKept
<1>15. JoinIsClosed'  BY <1>u DEF JoinIsClosed, PlaceKnown
<1>16. QED
  BY <1>1, <1>2, <1>3, <1>4, <1>5, <1>6, <1>7, <1>8, <1>9, <1>10, <1>11, <1>12, <1>13,
      <1>14, <1>15

\* A lane gives up on the worker it starts.
LEMMA StartFailsInv ==
    ASSUME PoolInv, NEW l \in Lanes, StartFails(l)
    PROVE  PoolInv'
<1>f. UNCHANGED workers  BY DEF StartFails
<1>w. \A v \in Workers : Alive(v)' <=> Alive(v)  BY <1>f, WorkersSame
<1> USE Names DEF PoolInv, TypeOK, At, Goto, pool, workers, pipes, threads, StartFails
<1>u. Unloading' = Unloading  BY DEF Unloading
<1>1. TypeOK'  BY <1>u DEF TypeOK
<1>2. PlaceKnown'  BY <1>u DEF PlaceKnown
<1>3. PoolLocked'  BY <1>u DEF PoolLocked
<1>4. WorkerLocked'  BY <1>u DEF WorkerLocked
<1>5. UnbornUntouched'  BY <1>u DEF UnbornUntouched
<1>6. SlotsApart'  BY <1>u DEF SlotsApart
<1>7. ClosedIsReplaced'  BY <1>u DEF ClosedIsReplaced
<1>8. StartingFillsSlot'  BY <1>u DEF StartingFillsSlot
<1>9. OutsideIsOwn'  BY <1>u DEF OutsideIsOwn, Own, Outside
<1>10. StartingIsNewborn'  BY <1>u DEF StartingIsNewborn, Newborn
<1>11. ServedIsQuiet'  BY <1>u DEF ServedIsQuiet, Served, Quiet
<1>12. WaitingIsPending'  BY <1>u DEF WaitingIsPending, Pending
<1>13. WorkingHasRequest'  BY <1>u DEF WorkingHasRequest
<1>14. RunningIsKept'
  <2>1. ASSUME NEW v \in Workers, Alive(v)' PROVE Alive(v)
    BY <1>w, <2>1
  <2>2. ASSUME NEW v \in Workers, Alive(v)', Kept(v) PROVE Kept(v)'
    BY <1>u, <2>2 DEF Kept
  <2>3. QED  BY <2>1, <2>2 DEF RunningIsKept
<1>15. JoinIsClosed'  BY <1>u DEF JoinIsClosed, PlaceKnown
<1>16. QED
  BY <1>1, <1>2, <1>3, <1>4, <1>5, <1>6, <1>7, <1>8, <1>9, <1>10, <1>11, <1>12, <1>13,
      <1>14, <1>15

\* The worker a lane starts dies.
LEMMA StartDiesInv ==
    ASSUME PoolInv, NEW l \in Lanes, StartDies(l)
    PROVE  PoolInv'
<1>f. UNCHANGED workers  BY DEF StartDies
<1>w. \A v \in Workers : Alive(v)' <=> Alive(v)  BY <1>f, WorkersSame
<1> USE Names DEF PoolInv, TypeOK, At, Goto, pool, workers, pipes, threads, StartDies, Alive
<1>u. Unloading' = Unloading  BY DEF Unloading
<1>1. TypeOK'  BY <1>u DEF TypeOK
<1>2. PlaceKnown'  BY <1>u DEF PlaceKnown
<1>3. PoolLocked'  BY <1>u DEF PoolLocked
<1>4. WorkerLocked'  BY <1>u DEF WorkerLocked
<1>5. UnbornUntouched'  BY <1>u DEF UnbornUntouched
<1>6. SlotsApart'  BY <1>u DEF SlotsApart
<1>7. ClosedIsReplaced'
  BY <1>u DEF ClosedIsReplaced, PlaceKnown, PoolLocked, StartingIsNewborn, Newborn
<1>8. StartingFillsSlot'  BY <1>u DEF StartingFillsSlot
<1>9. OutsideIsOwn'  BY <1>u DEF OutsideIsOwn, PlaceKnown, PoolLocked, Own, Outside
<1>10. StartingIsNewborn'  BY <1>u DEF StartingIsNewborn, Newborn
<1>11. ServedIsQuiet'  BY <1>u DEF ServedIsQuiet, Served, Quiet
<1>12. WaitingIsPending'  BY <1>u DEF WaitingIsPending, Pending
<1>13. WorkingHasRequest'  BY <1>u DEF WorkingHasRequest
<1>14. RunningIsKept'
  <2>1. ASSUME NEW v \in Workers, Alive(v)' PROVE Alive(v)
    BY <1>w, <2>1
  <2>2. ASSUME NEW v \in Workers, Alive(v)', Kept(v) PROVE Kept(v)'
    BY <1>u, <2>2 DEF Kept
  <2>3. QED  BY <2>1, <2>2 DEF RunningIsKept
<1>15. JoinIsClosed'  BY <1>u DEF JoinIsClosed, PlaceKnown
<1>16. QED
  BY <1>1, <1>2, <1>3, <1>4, <1>5, <1>6, <1>7, <1>8, <1>9, <1>10, <1>11, <1>12, <1>13,
      <1>14, <1>15

\* A request goes to a quiet worker, whose lock is free.
LEMMA SendRequestInv ==
    ASSUME PoolInv, NEW l \in Lanes, SendRequest(l)
    PROVE  PoolInv'
<1> USE Names DEF PoolInv, TypeOK, At, Goto, pool, workers, pipes, threads, SendRequest,
    LockFree, Alive
<1>u. Unloading' = Unloading  BY DEF Unloading
<1>1. TypeOK'
  <2>1. held[l] \in Workers  BY DEF PlaceKnown
  <2>2. sent' \in [Workers -> 0..MaxRequests] /\ sent'[held[l]] \in 0..MaxRequests
    BY <2>1, PoolConstants
  <2>3. <<"infer", sent'[held[l]]>> \in {"infer", "shutdown"} \X (0..MaxRequests)
    BY <2>2
  <2>4. requests' \in [Workers -> Seq({"infer", "shutdown"} \X (0..MaxRequests))]
    BY <2>1, <2>3
  <2>5. pc' \in [Threads -> {"idle", "replace", "starting", "holding", "waiting",
                             "failed", "unload", "close", "join"}]
    OBVIOUS
  <2>6. lock' \in [Workers -> Threads \cup {Nobody}]  OBVIOUS
  <2>7. QED  BY <2>2, <2>4, <2>5, <2>6
<1>2. PlaceKnown'  BY <1>u DEF PlaceKnown
<1>3. PoolLocked'  BY <1>u DEF PoolLocked
<1>4. WorkerLocked'
  <2>1. held[l] \in Workers /\ held' = held  BY DEF PlaceKnown
  <2>2. lock'[held[l]] = l /\ pc'[l] = "waiting"  BY <2>1
  <2>3. \A t \in Threads \ {l} : pc'[t] = pc[t]  OBVIOUS
  <2>4. \A w \in Workers \ {held[l]} : lock'[w] = lock[w]  BY <2>1
  <2>5. ASSUME NEW t \in Threads, pc'[t] \in {"waiting", "join"} PROVE lock'[held'[t]] = t
    <3>1. CASE t = l  BY <2>1, <2>2, <3>1
    <3>2. CASE t # l
      <4>1. lock[held[t]] = t /\ t # Nobody  BY <2>3, <2>5, <3>2 DEF WorkerLocked
      <4>2. held[t] # held[l]  BY <4>1
      <4>3. held[t] \in Workers  BY <2>3, <2>5, <3>2 DEF PlaceKnown
      <4>4. QED  BY <2>1, <2>4, <4>1, <4>2, <4>3
    <3>3. QED  BY <3>1, <3>2
  <2>6. ASSUME NEW w \in Workers, lock'[w] # Nobody
        PROVE  held'[lock'[w]] = w /\ pc'[lock'[w]] \in {"waiting", "join"}
    <3>1. CASE w = held[l]  BY <2>1, <2>2, <3>1
    <3>2. CASE w # held[l]
      <4>1. lock'[w] = lock[w] /\ lock[w] \in Threads /\ held[lock[w]] = w
            /\ pc[lock[w]] \in {"waiting", "join"}
        BY <2>4, <2>6, <3>2 DEF WorkerLocked
      <4>2. lock[w] # l  BY <3>2, <4>1
      <4>3. QED  BY <2>1, <2>3, <4>1, <4>2
    <3>3. QED  BY <3>1, <3>2
  <2>7. QED  BY <2>5, <2>6 DEF WorkerLocked
<1>5. UnbornUntouched'  BY <1>u DEF UnbornUntouched
<1>6. SlotsApart'  BY <1>u DEF SlotsApart
<1>7. ClosedIsReplaced'  BY <1>u DEF ClosedIsReplaced
<1>8. StartingFillsSlot'  BY <1>u DEF StartingFillsSlot
<1>9. OutsideIsOwn'  BY <1>u DEF OutsideIsOwn, Own, Outside
<1>10. StartingIsNewborn'
  <2>1. ASSUME NEW m \in Lanes, At(m, "starting")' PROVE Newborn(held[m])'
    BY <1>u, <2>1, SMTT(20) DEF StartingIsNewborn, PlaceKnown, OutsideIsOwn, Newborn, Own, Outside
  <2>2. QED  BY <2>1 DEF StartingIsNewborn
<1>11. ServedIsQuiet'  BY <1>u DEF ServedIsQuiet, Served, Quiet
<1>12. WaitingIsPending'
  <2>1. held[l] \in Workers /\ held' = held  BY DEF PlaceKnown
  <2>2. Quiet(held[l])  BY <2>1 DEF ServedIsQuiet, Served
  <2>3. process[held[l]] \in {"idle", "exiting"} /\ replies[held[l]] = <<>> /\ ~closed[held[l]]
        /\ (process[held[l]] = "idle" => requests[held[l]] = <<>>)
    BY <2>2 DEF Quiet
  <2>4. requests'[held[l]] = Append(requests[held[l]], <<"infer", sent'[held[l]]>>)
    BY <2>1
  <2>8. process' = process /\ closed' = closed /\ replies' = replies  OBVIOUS
  <2>9. process[held[l]] = "idle" => requests'[held[l]] = <<<<"infer", sent'[held[l]]>>>>
    <3>1. \A e : Append(<<>>, e) = <<e>>  OBVIOUS
    <3>2. QED  BY <2>3, <2>4, <3>1
  <2>5. Pending(held[l])'  BY <2>1, <2>3, <2>8, <2>9 DEF Pending
  <2>6. ASSUME NEW m \in Lanes, m # l, At(m, "waiting")' PROVE Pending(held[m])'
    <3>1. At(m, "waiting")  BY <2>6
    <3>2. lock[held[m]] = m /\ m # Nobody /\ held[m] \in Workers
      <4>1. lock[held[m]] = m  BY <3>1 DEF WorkerLocked
      <4>2. held[m] # NoWorker  BY <3>1 DEF PlaceKnown
      <4>3. QED  BY <4>1, <4>2
    <3>3. held[m] # held[l]  BY <3>2
    <3>4. Pending(held[m])  BY <3>1 DEF WaitingIsPending
    <3>5. QED  BY <2>1, <3>2, <3>3, <3>4 DEF Pending
  <2>7. QED  BY <2>1, <2>5, <2>6 DEF WaitingIsPending
<1>13. WorkingHasRequest'
  <2>1. held[l] \in Workers  BY DEF PlaceKnown
  <2>2. requests'[held[l]] = Append(requests[held[l]], <<"infer", sent'[held[l]]>>)
    BY <2>1
  <2>7. requests[held[l]] \in Seq({"infer", "shutdown"} \X (0..MaxRequests))  BY <2>1
  <2>8. \A e : Append(requests[held[l]], e) # <<>>  BY <2>7, AppendNonEmpty
  <2>3. requests'[held[l]] # <<>>  BY <2>2, <2>8
  <2>4. \A v \in Workers \ {held[l]} : requests'[v] = requests[v]  BY <2>1
  <2>5. process' = process  OBVIOUS
  <2>6. QED  BY <2>3, <2>4, <2>5 DEF WorkingHasRequest
<1>14. RunningIsKept'
  <2>1. ASSUME NEW v \in Workers, Alive(v)' PROVE Alive(v)
    BY <2>1 DEF Alive
  <2>2. ASSUME NEW v \in Workers, Alive(v)', Kept(v) PROVE Kept(v)'
    BY <1>u, <2>2 DEF Kept
  <2>3. QED  BY <2>1, <2>2 DEF RunningIsKept
<1>15. JoinIsClosed'  BY <1>u DEF JoinIsClosed, PlaceKnown
<1>16. QED
  BY <1>1, <1>2, <1>3, <1>4, <1>5, <1>6, <1>7, <1>8, <1>9, <1>10, <1>11, <1>12, <1>13,
      <1>14, <1>15

\* A lane reads its answer and leaves the worker quiet.
LEMMA ReceiveReplyInv ==
    ASSUME PoolInv, NEW l \in Lanes, ReceiveReply(l)
    PROVE  PoolInv'
<1> USE Names DEF PoolInv, TypeOK, At, Goto, pool, workers, pipes, threads, ReceiveReply,
    Alive
<1>u. Unloading' = Unloading  BY DEF Unloading
<1>1. TypeOK'
  <2>1. held[l] \in Workers  BY DEF PlaceKnown
  <2>2. (IF replies[held[l]] = <<>> THEN replies[held[l]] ELSE Tail(replies[held[l]]))
           \in Seq({"ready", "error", "result"} \X (0..MaxRequests))
    BY <2>1
  <2>3. replies' \in [Workers -> Seq({"ready", "error", "result"} \X (0..MaxRequests))]
    BY <2>1, <2>2
  <2>4. pc' \in [Threads -> {"idle", "replace", "starting", "holding", "waiting",
                             "failed", "unload", "close", "join"}]
    OBVIOUS
  <2>5. QED  BY <2>3, <2>4
<1>2. PlaceKnown'  BY <1>u DEF PlaceKnown
<1>3. PoolLocked'  BY <1>u DEF PoolLocked
<1>4. WorkerLocked'  BY <1>u DEF WorkerLocked
<1>5. UnbornUntouched'  BY <1>u DEF UnbornUntouched
<1>6. SlotsApart'  BY <1>u DEF SlotsApart
<1>7. ClosedIsReplaced'  BY <1>u DEF ClosedIsReplaced
<1>8. StartingFillsSlot'  BY <1>u DEF StartingFillsSlot
<1>9. OutsideIsOwn'  BY <1>u DEF OutsideIsOwn, Own, Outside
<1>10. StartingIsNewborn'
  <2>1. ASSUME NEW m \in Lanes, At(m, "starting")' PROVE Newborn(held[m])'
    BY <1>u, <2>1 DEF StartingIsNewborn, PlaceKnown, OutsideIsOwn, Newborn, Own, Outside
  <2>2. QED  BY <2>1 DEF StartingIsNewborn
<1>11. ServedIsQuiet'
  <2>1. held[l] \in Workers /\ Pending(held[l])
    BY DEF PlaceKnown, WaitingIsPending
  <2>2. Quiet(held[l])'
    <3>1. replies[held[l]] = <<>> => process[held[l]] \in {"exiting", "dead"}
      BY <2>1 DEF Pending
    <3>6. replies[held[l]] = <<>> \/ \E x : replies[held[l]] = <<x>>  BY <2>1 DEF Pending
    <3>7. \A x : Tail(<<x>>) = <<>>  OBVIOUS
    <3>2. replies'[held[l]] = <<>>  BY <2>1, <3>6, <3>7
    <3>3. process[held[l]] = "idle" => requests[held[l]] = <<>>  BY <2>1, <3>1 DEF Pending
    <3>4. process[held[l]] \in {"idle", "exiting", "dead"}  BY <2>1, <3>1 DEF Pending
    <3>5. QED  BY <3>2, <3>3, <3>4 DEF Quiet
  <2>3. ASSUME NEW v \in Workers, v # held[l], Served(v)' PROVE Quiet(v)'
    <3>1. Served(v)  BY <1>u, <2>3 DEF Served
    <3>2. Quiet(v)  BY <3>1 DEF ServedIsQuiet
    <3>3. QED  BY <2>3, <3>2 DEF Quiet
  <2>4. QED  BY <2>2, <2>3 DEF ServedIsQuiet
<1>12. WaitingIsPending'
  <2>1. ASSUME NEW m \in Lanes, At(m, "waiting")' PROVE Pending(held[m])'
    <3>1. m # l /\ At(m, "waiting") /\ held'[m] = held[m]  BY <2>1
    <3>2. lock[held[m]] = m /\ lock[held[l]] = l /\ held[m] \in Workers
      BY <3>1 DEF WorkerLocked, PlaceKnown
    <3>3. held[m] # held[l]  BY <3>1, <3>2
    <3>4. Pending(held[m])  BY <3>1 DEF WaitingIsPending
    <3>5. QED  BY <3>1, <3>2, <3>3, <3>4 DEF Pending
  <2>2. QED  BY <2>1 DEF WaitingIsPending
<1>13. WorkingHasRequest'  BY <1>u DEF WorkingHasRequest
<1>14. RunningIsKept'
  <2>1. ASSUME NEW v \in Workers, Alive(v)' PROVE Alive(v)
    BY <2>1 DEF Alive
  <2>2. ASSUME NEW v \in Workers, Alive(v)', Kept(v) PROVE Kept(v)'
    BY <1>u, <2>2 DEF Kept
  <2>3. QED  BY <2>1, <2>2 DEF RunningIsKept
<1>15. JoinIsClosed'  BY <1>u DEF JoinIsClosed, PlaceKnown
<1>16. QED
  BY <1>1, <1>2, <1>3, <1>4, <1>5, <1>6, <1>7, <1>8, <1>9, <1>10, <1>11, <1>12, <1>13,
      <1>14, <1>15

\* A lane is refused by a closed or dead worker.
LEMMA RefuseRequestInv ==
    ASSUME PoolInv, NEW l \in Lanes, RefuseRequest(l)
    PROVE  PoolInv'
<1>f. UNCHANGED workers  BY DEF RefuseRequest
<1>w. \A v \in Workers : Alive(v)' <=> Alive(v)  BY <1>f, WorkersSame
<1> USE Names DEF PoolInv, TypeOK, At, Goto, pool, workers, pipes, threads, RefuseRequest
<1>u. Unloading' = Unloading  BY DEF Unloading
<1>1. TypeOK'  BY <1>u DEF TypeOK
<1>2. PlaceKnown'  BY <1>u DEF PlaceKnown
<1>3. PoolLocked'  BY <1>u DEF PoolLocked
<1>4. WorkerLocked'  BY <1>u DEF WorkerLocked
<1>5. UnbornUntouched'  BY <1>u DEF UnbornUntouched
<1>6. SlotsApart'  BY <1>u DEF SlotsApart
<1>7. ClosedIsReplaced'  BY <1>u DEF ClosedIsReplaced
<1>8. StartingFillsSlot'  BY <1>u DEF StartingFillsSlot
<1>9. OutsideIsOwn'  BY <1>u DEF OutsideIsOwn, Own, Outside
<1>10. StartingIsNewborn'  BY <1>u DEF StartingIsNewborn, Newborn
<1>11. ServedIsQuiet'  BY <1>u DEF ServedIsQuiet, Served, Quiet
<1>12. WaitingIsPending'  BY <1>u DEF WaitingIsPending, Pending
<1>13. WorkingHasRequest'  BY <1>u DEF WorkingHasRequest
<1>14. RunningIsKept'
  <2>1. ASSUME NEW v \in Workers, Alive(v)' PROVE Alive(v)
    BY <1>w, <2>1
  <2>2. ASSUME NEW v \in Workers, Alive(v)', Kept(v) PROVE Kept(v)'
    BY <1>u, <2>2 DEF Kept
  <2>3. QED  BY <2>1, <2>2 DEF RunningIsKept
<1>15. JoinIsClosed'  BY <1>u DEF JoinIsClosed, PlaceKnown
<1>16. QED
  BY <1>1, <1>2, <1>3, <1>4, <1>5, <1>6, <1>7, <1>8, <1>9, <1>10, <1>11, <1>12, <1>13,
      <1>14, <1>15

\* A capture ends, whatever its lane held.
LEMMA EndCaptureInv ==
    ASSUME PoolInv, NEW l \in Lanes, EndCapture(l)
    PROVE  PoolInv'
<1>f. UNCHANGED workers  BY DEF EndCapture
<1>w. \A v \in Workers : Alive(v)' <=> Alive(v)  BY <1>f, WorkersSame
<1> USE Names DEF PoolInv, TypeOK, At, Goto, pool, workers, pipes, threads, EndCapture
<1>u. Unloading' = Unloading  BY DEF Unloading
<1>1. TypeOK'  BY <1>u DEF TypeOK
<1>2. PlaceKnown'  BY <1>u DEF PlaceKnown
<1>3. PoolLocked'  BY <1>u DEF PoolLocked, PlaceKnown
<1>4. WorkerLocked'  BY <1>u DEF WorkerLocked
<1>5. UnbornUntouched'  BY <1>u DEF UnbornUntouched
<1>6. SlotsApart'  BY <1>u DEF SlotsApart
<1>7. ClosedIsReplaced'
  BY <1>u DEF ClosedIsReplaced, PlaceKnown, PoolLocked, StartingIsNewborn, Newborn
<1>8. StartingFillsSlot'  BY <1>u DEF StartingFillsSlot
<1>9. OutsideIsOwn'  BY <1>u, SMTT(20) DEF OutsideIsOwn, PlaceKnown, PoolLocked, Own, Outside
<1>10. StartingIsNewborn'  BY <1>u DEF StartingIsNewborn, Newborn
<1>11. ServedIsQuiet'  BY <1>u DEF ServedIsQuiet, Served, Quiet
<1>12. WaitingIsPending'  BY <1>u DEF WaitingIsPending, Pending
<1>13. WorkingHasRequest'  BY <1>u DEF WorkingHasRequest
<1>14. RunningIsKept'
  <2>1. ASSUME NEW v \in Workers, Alive(v)' PROVE Alive(v)
    BY <1>w, <2>1
  <2>2. ASSUME NEW v \in Workers, Alive(v)', Kept(v) PROVE Kept(v)'
    BY <1>u, <2>2 DEF Kept
  <2>3. QED  BY <2>1, <2>2 DEF RunningIsKept
<1>15. JoinIsClosed'  BY <1>u DEF JoinIsClosed, PlaceKnown
<1>16. QED
  BY <1>1, <1>2, <1>3, <1>4, <1>5, <1>6, <1>7, <1>8, <1>9, <1>10, <1>11, <1>12, <1>13,
      <1>14, <1>15

\* A lane closes the worker of its slot, or the one it failed to start.
LEMMA CloseLaneInv ==
    ASSUME PoolInv, NEW l \in Lanes, Close(l)
    PROVE  PoolInv'
<1> USE Names DEF PoolInv, TypeOK, At, Goto, pool, workers, pipes, threads, Close,
    LockFree, Alive, IsReplacing, IsForced
<1>u. Unloading' = Unloading  BY DEF Unloading
<1>1. TypeOK'
  <2>1. held[l] \in Workers  BY DEF PlaceKnown
  <2>2. Append(requests[held[l]], Shutdown) \in Seq({"infer", "shutdown"} \X (0..MaxRequests))
    BY <2>1, Messages
  <2>3. requests' \in [Workers -> Seq({"infer", "shutdown"} \X (0..MaxRequests))]
    BY <2>1, <2>2
  <2>4. pc' \in [Threads -> {"idle", "replace", "starting", "holding", "waiting",
                             "failed", "unload", "close", "join"}]
    OBVIOUS
  <2>5. lock' \in [Workers -> Threads \cup {Nobody}] /\ closed' \in [Workers -> BOOLEAN]
    OBVIOUS
  <2>6. QED  BY <2>3, <2>4, <2>5
<1>2. PlaceKnown'  BY <1>u DEF PlaceKnown
<1>3. PoolLocked'  BY <1>u DEF PoolLocked
<1>4. WorkerLocked'  BY <1>u DEF WorkerLocked, PlaceKnown
<1>5. UnbornUntouched'  BY <1>u DEF UnbornUntouched
<1>6. SlotsApart'  BY <1>u DEF SlotsApart
<1>7. ClosedIsReplaced'
  <2>1. ASSUME NEW k \in Kinds, slot'[k] # NoWorker, closed'[slot'[k]]
        PROVE  \E m \in Lanes : At(m, "join")' /\ Kind[m] = k /\ held'[m] = slot'[k]
    <3>1. CASE slot[k] = held[l]
      <4>1. ~Own(l, held[l])  BY <3>1 DEF Own
      <4>2. slot[Kind[l]] = held[l]  BY <4>1 DEF OutsideIsOwn, Outside
      <4>3. Kind[l] = k  BY <2>1, <3>1, <4>2 DEF SlotsApart
      <4>4. QED  BY <3>1, <4>3
    <3>2. CASE slot[k] # held[l]
      <4>1. closed[slot[k]]  BY <2>1, <3>2
      <4>2. PICK m \in Lanes : At(m, "join") /\ Kind[m] = k /\ held[m] = slot[k]
        BY <2>1, <4>1 DEF ClosedIsReplaced
      <4>3. m # l  BY <4>2
      <4>4. QED  BY <4>2, <4>3
    <3>3. QED  BY <3>1, <3>2
  <2>2. QED  BY <2>1 DEF ClosedIsReplaced
<1>8. StartingFillsSlot'  BY <1>u DEF StartingFillsSlot
<1>9. OutsideIsOwn'  BY <1>u DEF OutsideIsOwn, Own, Outside
<1>10. StartingIsNewborn'
  <2>1. ASSUME NEW m \in Lanes, At(m, "starting")' PROVE Newborn(held[m])'
    <3>1. m # l /\ At(m, "starting") /\ held' = held  BY <2>1
    <3>2. FALSE  BY <3>1 DEF PoolLocked
    <3>3. QED  BY <3>2
  <2>2. QED  BY <2>1 DEF StartingIsNewborn
<1>11. ServedIsQuiet'  BY <1>u DEF ServedIsQuiet, Served, Quiet
<1>12. WaitingIsPending'
  <2>1. ASSUME NEW m \in Lanes, At(m, "waiting")' PROVE Pending(held[m])'
    <3>1. m # l /\ At(m, "waiting") /\ held' = held  BY <2>1
    <3>2. lock[held[m]] = m /\ m # Nobody /\ held[m] \in Workers
      <4>1. lock[held[m]] = m  BY <3>1 DEF WorkerLocked
      <4>2. held[m] # NoWorker  BY <3>1 DEF PlaceKnown
      <4>3. QED  BY <4>1, <4>2
    <3>3. held[m] # held[l]  BY <3>2
    <3>4. Pending(held[m])  BY <3>1 DEF WaitingIsPending
    <3>5. QED  BY <3>1, <3>2, <3>3, <3>4 DEF Pending
  <2>2. QED  BY <2>1 DEF WaitingIsPending
<1>13. WorkingHasRequest'
  <2>1. requests'[held[l]] \in {requests[held[l]], Append(requests[held[l]], Shutdown)}
    BY DEF PlaceKnown
  <2>5. requests[held[l]] \in Seq({"infer", "shutdown"} \X (0..MaxRequests))
    BY DEF PlaceKnown
  <2>6. Append(requests[held[l]], Shutdown) # <<>>  BY <2>5, AppendNonEmpty
  <2>2. \A v \in Workers \ {held[l]} : requests'[v] = requests[v]  OBVIOUS
  <2>3. process' = process  OBVIOUS
  <2>4. QED  BY <2>1, <2>2, <2>3, <2>6 DEF WorkingHasRequest
<1>14. RunningIsKept'
  <2>1. ASSUME NEW v \in Workers, Alive(v)' PROVE Alive(v)
    BY <2>1 DEF Alive
  <2>2. ASSUME NEW v \in Workers, Alive(v)', Kept(v) PROVE Kept(v)'
    BY <1>u, <2>2 DEF Kept
  <2>3. QED  BY <2>1, <2>2 DEF RunningIsKept
<1>15. JoinIsClosed'  BY <1>u DEF JoinIsClosed, PlaceKnown
<1>16. QED
  BY <1>1, <1>2, <1>3, <1>4, <1>5, <1>6, <1>7, <1>8, <1>9, <1>10, <1>11, <1>12, <1>13,
      <1>14, <1>15

\* An exited worker leaves its slot.
LEMMA JoinReplacedInv ==
    ASSUME PoolInv, NEW l \in Lanes, JoinReplaced(l)
    PROVE  PoolInv'
<1> USE Names DEF PoolInv, TypeOK, At, Goto, pool, workers, pipes, threads, JoinReplaced,
    Joined, IsReplacing, IsForced
<1>u. Unloading' = Unloading  BY DEF Unloading
<1>1. TypeOK'  BY <1>u DEF TypeOK, PlaceKnown, WorkingHasRequest
<1>2. PlaceKnown'  BY <1>u DEF PlaceKnown
<1>3. PoolLocked'  BY <1>u DEF PoolLocked
<1>4. WorkerLocked'  BY <1>u DEF WorkerLocked
<1>5. UnbornUntouched'  BY <1>u DEF UnbornUntouched
<1>6. SlotsApart'  BY <1>u DEF SlotsApart, PlaceKnown, OutsideIsOwn, Own, Outside
<1>7. ClosedIsReplaced'
  BY <1>u DEF ClosedIsReplaced, PlaceKnown, PoolLocked, StartingIsNewborn, Newborn
<1>8. StartingFillsSlot'  BY <1>u DEF StartingFillsSlot
<1>9. OutsideIsOwn'  BY <1>u DEF OutsideIsOwn, PlaceKnown, PoolLocked, Own, Outside
<1>10. StartingIsNewborn'
  <2>1. ASSUME NEW m \in Lanes, At(m, "starting")' PROVE FALSE
    <3>1. m # l /\ At(m, "starting")  BY <2>1
    <3>2. QED  BY <3>1 DEF PoolLocked
  <2>2. QED  BY <2>1 DEF StartingIsNewborn
<1>11. ServedIsQuiet'
  <2>1. ASSUME NEW v \in Workers, v # held[l], Served(v)' PROVE Quiet(v)'
    <3>1. Served(v)  BY <1>u, <2>1 DEF Served
    <3>2. Quiet(v)  BY <3>1 DEF ServedIsQuiet
    <3>3. QED  BY <2>1, <3>2 DEF Quiet
  <2>2. ASSUME NEW v \in Workers, v = held[l] PROVE Quiet(v)'
    <3>1. closed'[v]  BY <2>2 DEF JoinIsClosed
    <3>2. process'[v] = "dead"  BY <2>2
    <3>3. QED  BY <3>1, <3>2 DEF Quiet
  <2>3. QED  BY <2>1, <2>2 DEF ServedIsQuiet
<1>12. WaitingIsPending'  BY <1>u DEF WaitingIsPending, Pending
<1>13. WorkingHasRequest'  BY <1>u DEF WorkingHasRequest
<1>14. RunningIsKept'
  <2>1. ASSUME NEW v \in Workers, Alive(v)' PROVE Alive(v) /\ v # held[l]
    <3>1. v # held[l]  BY <2>1 DEF Alive
    <3>2. process'[v] = process[v]  BY <3>1
    <3>3. QED  BY <2>1, <3>1, <3>2 DEF Alive
  <2>2. ASSUME NEW v \in Workers, v # held[l], Kept(v) PROVE Kept(v)'
    <3>1. CASE \E k \in Kinds : slot[k] = v
      BY <2>2, <3>1 DEF Kept
    <3>2. CASE \E t \in Threads : held[t] = v /\ pc[t] \in {"starting", "close", "join"}
      <4>1. PICK t \in Threads : held[t] = v /\ pc[t] \in {"starting", "close", "join"}
        BY <3>2
      <4>2. t # l  BY <2>2, <4>1
      <4>3. held'[t] = v /\ pc'[t] = pc[t]  BY <4>1, <4>2
      <4>4. QED  BY <4>1, <4>3 DEF Kept
    <3>3. CASE v \in Unloading  BY <1>u, <3>3 DEF Kept
    <3>4. QED  BY <2>2, <3>1, <3>2, <3>3 DEF Kept
  <2>3. QED  BY <2>1, <2>2 DEF RunningIsKept
<1>15. JoinIsClosed'  BY <1>u DEF JoinIsClosed, PlaceKnown
<1>16. QED
  BY <1>1, <1>2, <1>3, <1>4, <1>5, <1>6, <1>7, <1>8, <1>9, <1>10, <1>11, <1>12, <1>13,
      <1>14, <1>15

\* A worker that did not start is gone.
LEMMA JoinForcedInv ==
    ASSUME PoolInv, NEW l \in Lanes, JoinForced(l)
    PROVE  PoolInv'
<1> USE Names DEF PoolInv, TypeOK, At, Goto, pool, workers, pipes, threads, JoinForced,
    Joined, IsReplacing, IsForced
<1>u. Unloading' = Unloading  BY DEF Unloading
<1>1. TypeOK'  BY <1>u DEF TypeOK, PlaceKnown, WorkingHasRequest
<1>2. PlaceKnown'  BY <1>u DEF PlaceKnown
<1>3. PoolLocked'  BY <1>u DEF PoolLocked
<1>4. WorkerLocked'  BY <1>u DEF WorkerLocked
<1>5. UnbornUntouched'  BY <1>u DEF UnbornUntouched
<1>6. SlotsApart'  BY <1>u DEF SlotsApart
<1>7. ClosedIsReplaced'
  BY <1>u DEF ClosedIsReplaced, PlaceKnown, PoolLocked, StartingIsNewborn, Newborn
<1>8. StartingFillsSlot'  BY <1>u DEF StartingFillsSlot
<1>9. OutsideIsOwn'  BY <1>u DEF OutsideIsOwn, PlaceKnown, PoolLocked, Own, Outside
<1>10. StartingIsNewborn'
  <2>1. ASSUME NEW m \in Lanes, At(m, "starting")' PROVE FALSE
    <3>1. m # l /\ At(m, "starting")  BY <2>1
    <3>2. QED  BY <3>1 DEF PoolLocked
  <2>2. QED  BY <2>1 DEF StartingIsNewborn
<1>11. ServedIsQuiet'
  <2>1. ASSUME NEW v \in Workers, v # held[l], Served(v)' PROVE Quiet(v)'
    <3>1. Served(v)  BY <1>u, <2>1 DEF Served
    <3>2. Quiet(v)  BY <3>1 DEF ServedIsQuiet
    <3>3. QED  BY <2>1, <3>2 DEF Quiet
  <2>2. ASSUME NEW v \in Workers, v = held[l] PROVE Quiet(v)'
    <3>1. closed'[v]  BY <2>2 DEF JoinIsClosed
    <3>2. process'[v] = "dead"  BY <2>2
    <3>3. QED  BY <3>1, <3>2 DEF Quiet
  <2>3. QED  BY <2>1, <2>2 DEF ServedIsQuiet
<1>12. WaitingIsPending'  BY <1>u DEF WaitingIsPending, Pending
<1>13. WorkingHasRequest'  BY <1>u DEF WorkingHasRequest
<1>14. RunningIsKept'
  <2>1. ASSUME NEW v \in Workers, Alive(v)' PROVE Alive(v) /\ v # held[l]
    <3>1. v # held[l]  BY <2>1 DEF Alive
    <3>2. process'[v] = process[v]  BY <3>1
    <3>3. QED  BY <2>1, <3>1, <3>2 DEF Alive
  <2>2. ASSUME NEW v \in Workers, v # held[l], Kept(v) PROVE Kept(v)'
    <3>1. CASE \E k \in Kinds : slot[k] = v
      BY <2>2, <3>1 DEF Kept
    <3>2. CASE \E t \in Threads : held[t] = v /\ pc[t] \in {"starting", "close", "join"}
      <4>1. PICK t \in Threads : held[t] = v /\ pc[t] \in {"starting", "close", "join"}
        BY <3>2
      <4>2. t # l  BY <2>2, <4>1
      <4>3. held'[t] = v /\ pc'[t] = pc[t]  BY <4>1, <4>2
      <4>4. QED  BY <4>1, <4>3 DEF Kept
    <3>3. CASE v \in Unloading  BY <1>u, <3>3 DEF Kept
    <3>4. QED  BY <2>2, <3>1, <3>2, <3>3 DEF Kept
  <2>3. QED  BY <2>1, <2>2 DEF RunningIsKept
<1>15. JoinIsClosed'  BY <1>u DEF JoinIsClosed, PlaceKnown
<1>16. QED
  BY <1>1, <1>2, <1>3, <1>4, <1>5, <1>6, <1>7, <1>8, <1>9, <1>10, <1>11, <1>12, <1>13,
      <1>14, <1>15

\* unload empties the slots while no lane starts or closes a worker.
LEMMA UnloadInv ==
    ASSUME PoolInv, Unload
    PROVE  PoolInv'
<1>f. UNCHANGED workers  BY DEF Unload
<1>w. \A v \in Workers : Alive(v)' <=> Alive(v)  BY <1>f, WorkersSame
<1> USE Names DEF PoolInv, TypeOK, At, Goto, pool, workers, pipes, threads, Unload, PoolFree
<1>v. Unloading = {} /\ toClose' \in Seq(Workers)
      /\ ((toClose' = <<>>) <=> (SlotsInUse = <<>>))
  BY SlotsTaken DEF PlaceKnown, Unloading
<1>u. Unloading' = {slot[k] : k \in Kinds} \ {NoWorker}
  <2>1. toClose' = SlotsInUse  OBVIOUS
  <2>2. Unloading' = {SlotsInUse[i] : i \in DOMAIN SlotsInUse}  BY <2>1 DEF Unloading
  <2>3. QED  BY <2>2, SlotsTaken
<1>1. TypeOK'
  <2>1. slot' \in [Kinds -> Workers \cup {NoWorker}]  OBVIOUS
  <2>2. unloads' \in 0..MaxUnloads  BY PoolConstants
  <2>3. pc' \in [Threads -> {"idle", "replace", "starting", "holding", "waiting",
                             "failed", "unload", "close", "join"}]
    OBVIOUS
  <2>4. QED  BY <1>v, <2>1, <2>2, <2>3
<1>2. PlaceKnown'  BY <1>u, <1>v DEF PlaceKnown
<1>3. PoolLocked'  BY <1>u, <1>v DEF PoolLocked
<1>4. WorkerLocked'  BY <1>u, <1>v DEF WorkerLocked
<1>5. UnbornUntouched'  BY <1>u, <1>v DEF UnbornUntouched
<1>6. SlotsApart'  BY <1>u, <1>v DEF SlotsApart
<1>7. ClosedIsReplaced'
  BY <1>u, <1>v DEF ClosedIsReplaced, PlaceKnown, PoolLocked, StartingIsNewborn,
     Newborn
<1>8. StartingFillsSlot'  BY <1>u, <1>v DEF StartingFillsSlot
<1>9. OutsideIsOwn'  BY <1>u, <1>v DEF OutsideIsOwn, PlaceKnown, PoolLocked, Own, Outside
<1>10. StartingIsNewborn'  BY <1>u, <1>v DEF StartingIsNewborn, Newborn
<1>11. ServedIsQuiet'  BY <1>u, <1>v DEF ServedIsQuiet, Served, Quiet
<1>12. WaitingIsPending'  BY <1>u, <1>v DEF WaitingIsPending, Pending
<1>13. WorkingHasRequest'  BY <1>u, <1>v DEF WorkingHasRequest
<1>14. RunningIsKept'
  <2>1. ASSUME NEW v \in Workers, Kept(v) PROVE Kept(v)'
    <3>1. CASE \E k \in Kinds : slot[k] = v
      <4>1. v \in Unloading'  BY <1>u, <3>1
      <4>2. QED  BY <4>1 DEF Kept
    <3>2. CASE \E t \in Threads : held[t] = v /\ pc[t] \in {"starting", "close", "join"}
      <4>1. PICK t \in Threads : held[t] = v /\ pc[t] \in {"starting", "close", "join"}
        BY <3>2
      <4>2. held'[t] = v /\ pc'[t] = pc[t]  BY <4>1
      <4>3. QED  BY <4>1, <4>2 DEF Kept
    <3>3. QED  BY <1>v, <2>1, <3>1, <3>2 DEF Kept
  <2>2. QED  BY <1>w, <2>1 DEF RunningIsKept
<1>15. JoinIsClosed'  BY <1>u, <1>v DEF JoinIsClosed, PlaceKnown
<1>16. QED
  BY <1>1, <1>2, <1>3, <1>4, <1>5, <1>6, <1>7, <1>8, <1>9, <1>10, <1>11, <1>12, <1>13,
      <1>14, <1>15

\* The unloader turns to the next worker it took.
LEMMA NextToCloseInv ==
    ASSUME PoolInv, NextToClose
    PROVE  PoolInv'
<1>f. UNCHANGED workers  BY DEF NextToClose
<1>w. \A v \in Workers : Alive(v)' <=> Alive(v)  BY <1>f, WorkersSame
<1> USE Names DEF PoolInv, TypeOK, At, Goto, pool, workers, pipes, threads, NextToClose
<1>v. toClose' \in Seq(Workers) /\ held'[Unloader] \in Workers
  BY DEF PlaceKnown
<1>u. Unloading = Unloading' \cup {held'[Unloader]}
  <2>1. toClose # <<>> /\ toClose' = Tail(toClose) /\ held'[Unloader] = Head(toClose)
    BY DEF PlaceKnown
  <2>2. Unloading' = {Tail(toClose)[i] : i \in DOMAIN Tail(toClose)}
    BY <2>1 DEF Unloading
  <2>3. Unloading = {Tail(toClose)[i] : i \in DOMAIN Tail(toClose)} \cup {Head(toClose)}
    BY <2>1, TakeFirst DEF Unloading
  <2>4. QED  BY <2>1, <2>2, <2>3
<1>1. TypeOK'  BY <1>u, <1>v DEF TypeOK
<1>2. PlaceKnown'  BY <1>u, <1>v DEF PlaceKnown
<1>3. PoolLocked'  BY <1>u, <1>v DEF PoolLocked
<1>4. WorkerLocked'  BY <1>u, <1>v DEF WorkerLocked
<1>5. UnbornUntouched'  BY <1>u, <1>v DEF UnbornUntouched
<1>6. SlotsApart'  BY <1>u, <1>v DEF SlotsApart
<1>7. ClosedIsReplaced'
  <2>1. ASSUME NEW k \in Kinds, slot'[k] # NoWorker, closed'[slot'[k]]
        PROVE  \E m \in Lanes : At(m, "join")' /\ Kind[m] = k /\ held'[m] = slot'[k]
    <3>1. PICK m \in Lanes : At(m, "join") /\ Kind[m] = k /\ held[m] = slot[k]
      BY <2>1 DEF ClosedIsReplaced
    <3>2. held'[m] = held[m] /\ pc'[m] = pc[m]  OBVIOUS
    <3>3. QED  BY <3>1, <3>2
  <2>2. QED  BY <2>1 DEF ClosedIsReplaced
<1>8. StartingFillsSlot'  BY <1>u, <1>v DEF StartingFillsSlot
<1>9. OutsideIsOwn'  BY <1>u, <1>v DEF OutsideIsOwn, Own, Outside
<1>10. StartingIsNewborn'  BY <1>u, <1>v DEF StartingIsNewborn, Newborn
<1>11. ServedIsQuiet'  BY <1>u, <1>v DEF ServedIsQuiet, Served, Quiet
<1>12. WaitingIsPending'  BY <1>u, <1>v DEF WaitingIsPending, Pending
<1>13. WorkingHasRequest'  BY <1>u, <1>v DEF WorkingHasRequest
<1>14. RunningIsKept'
  <2>1. ASSUME NEW v \in Workers, Kept(v) PROVE Kept(v)'
    <3>1. CASE \E k \in Kinds : slot[k] = v
      BY <3>1 DEF Kept
    <3>2. CASE \E t \in Threads : held[t] = v /\ pc[t] \in {"starting", "close", "join"}
      <4>1. PICK t \in Threads : held[t] = v /\ pc[t] \in {"starting", "close", "join"}
        BY <3>2
      <4>2. held'[t] = v /\ pc'[t] = pc[t]  BY <4>1
      <4>3. QED  BY <4>1, <4>2 DEF Kept
    <3>3. CASE v = held'[Unloader]  BY <3>3 DEF Kept
    <3>4. CASE v \in Unloading'  BY <3>4 DEF Kept
    <3>5. QED  BY <1>u, <2>1, <3>1, <3>2, <3>3, <3>4 DEF Kept
  <2>2. QED  BY <1>w, <2>1 DEF RunningIsKept
<1>15. JoinIsClosed'  BY <1>u, <1>v DEF JoinIsClosed, PlaceKnown
<1>16. QED
  BY <1>1, <1>2, <1>3, <1>4, <1>5, <1>6, <1>7, <1>8, <1>9, <1>10, <1>11, <1>12, <1>13,
      <1>14, <1>15

\* The unloader closes a worker, but not under a lane that waits for it.
LEMMA CloseUnloaderInv ==
    ASSUME PoolInv, Close(Unloader)
    PROVE  PoolInv'
<1> USE Names DEF PoolInv, TypeOK, At, Goto, pool, workers, pipes, threads, Close, LockFree
<1>u. Unloading' = Unloading  BY DEF Unloading
<1>1. TypeOK'
  <2>1. held[Unloader] \in Workers  BY DEF PlaceKnown
  <2>2. Append(requests[held[Unloader]], Shutdown) \in Seq({"infer", "shutdown"} \X (0..MaxRequests))
    BY <2>1, Messages
  <2>3. requests' \in [Workers -> Seq({"infer", "shutdown"} \X (0..MaxRequests))]
    BY <2>1, <2>2
  <2>4. pc' \in [Threads -> {"idle", "replace", "starting", "holding", "waiting",
                             "failed", "unload", "close", "join"}]
    OBVIOUS
  <2>5. lock' \in [Workers -> Threads \cup {Nobody}] /\ closed' \in [Workers -> BOOLEAN]
    OBVIOUS
  <2>6. QED  BY <2>3, <2>4, <2>5
<1>2. PlaceKnown'  BY <1>u DEF PlaceKnown
<1>3. PoolLocked'  BY <1>u DEF PoolLocked
<1>4. WorkerLocked'  BY <1>u DEF WorkerLocked, PlaceKnown
<1>5. UnbornUntouched'  BY <1>u DEF UnbornUntouched
<1>6. SlotsApart'  BY <1>u DEF SlotsApart
<1>7. ClosedIsReplaced'
  BY <1>u DEF ClosedIsReplaced, PlaceKnown, PoolLocked, StartingIsNewborn,
     SlotsApart, Newborn
<1>8. StartingFillsSlot'  BY <1>u DEF StartingFillsSlot
<1>9. OutsideIsOwn'  BY <1>u DEF OutsideIsOwn, Own, Outside
<1>10. StartingIsNewborn'
  BY <1>u, SMTT(20) DEF StartingIsNewborn, PlaceKnown, OutsideIsOwn, Newborn, Own, Outside
<1>11. ServedIsQuiet'  BY <1>u DEF ServedIsQuiet, Served, Quiet
<1>12. WaitingIsPending'  BY <1>u, SMTT(20) DEF WaitingIsPending, PlaceKnown, WorkerLocked, Pending
<1>13. WorkingHasRequest'
  <2>1. requests'[held[Unloader]] \in {requests[held[Unloader]], Append(requests[held[Unloader]], Shutdown)}
    BY DEF PlaceKnown
  <2>5. requests[held[Unloader]] \in Seq({"infer", "shutdown"} \X (0..MaxRequests))
    BY DEF PlaceKnown
  <2>6. Append(requests[held[Unloader]], Shutdown) # <<>>  BY <2>5, AppendNonEmpty
  <2>2. \A v \in Workers \ {held[Unloader]} : requests'[v] = requests[v]  OBVIOUS
  <2>3. process' = process  OBVIOUS
  <2>4. QED  BY <2>1, <2>2, <2>3, <2>6 DEF WorkingHasRequest
<1>14. RunningIsKept'
  <2>1. ASSUME NEW v \in Workers, Alive(v)' PROVE Alive(v)
    BY <2>1 DEF Alive
  <2>2. ASSUME NEW v \in Workers, Alive(v)', Kept(v) PROVE Kept(v)'
    BY <1>u, <2>2 DEF Kept
  <2>3. QED  BY <2>1, <2>2 DEF RunningIsKept
<1>15. JoinIsClosed'  BY <1>u DEF JoinIsClosed, PlaceKnown
<1>16. QED
  BY <1>1, <1>2, <1>3, <1>4, <1>5, <1>6, <1>7, <1>8, <1>9, <1>10, <1>11, <1>12, <1>13,
      <1>14, <1>15

\* A worker the unloader closed is gone.
LEMMA JoinUnloadedInv ==
    ASSUME PoolInv, JoinUnloaded
    PROVE  PoolInv'
<1> USE Names DEF PoolInv, TypeOK, At, Goto, pool, workers, pipes, threads, JoinUnloaded,
    Joined
<1>u. Unloading' = Unloading  BY DEF Unloading
<1>1. TypeOK'  BY <1>u DEF TypeOK, PlaceKnown, WorkingHasRequest
<1>2. PlaceKnown'  BY <1>u DEF PlaceKnown
<1>3. PoolLocked'  BY <1>u DEF PoolLocked
<1>4. WorkerLocked'  BY <1>u DEF WorkerLocked
<1>5. UnbornUntouched'  BY <1>u DEF UnbornUntouched
<1>6. SlotsApart'  BY <1>u DEF SlotsApart
<1>7. ClosedIsReplaced'
  <2>1. ASSUME NEW k \in Kinds, slot'[k] # NoWorker, closed'[slot'[k]]
        PROVE  \E m \in Lanes : At(m, "join")' /\ Kind[m] = k /\ held'[m] = slot'[k]
    <3>1. PICK m \in Lanes : At(m, "join") /\ Kind[m] = k /\ held[m] = slot[k]
      BY <2>1 DEF ClosedIsReplaced
    <3>2. held'[m] = held[m] /\ pc'[m] = pc[m]  OBVIOUS
    <3>3. QED  BY <3>1, <3>2
  <2>2. QED  BY <2>1 DEF ClosedIsReplaced
<1>8. StartingFillsSlot'  BY <1>u DEF StartingFillsSlot
<1>9. OutsideIsOwn'  BY <1>u DEF OutsideIsOwn, PlaceKnown, PoolLocked, Own, Outside
<1>10. StartingIsNewborn'  BY <1>u DEF StartingIsNewborn, Newborn
<1>11. ServedIsQuiet'
  <2>1. ASSUME NEW v \in Workers, v # held[Unloader], Served(v)' PROVE Quiet(v)'
    <3>1. Served(v)  BY <1>u, <2>1 DEF Served
    <3>2. Quiet(v)  BY <3>1 DEF ServedIsQuiet
    <3>3. QED  BY <2>1, <3>2 DEF Quiet
  <2>2. ASSUME NEW v \in Workers, v = held[Unloader] PROVE Quiet(v)'
    <3>1. closed'[v]  BY <2>2 DEF JoinIsClosed
    <3>2. process'[v] = "dead"  BY <2>2
    <3>3. QED  BY <3>1, <3>2 DEF Quiet
  <2>3. QED  BY <2>1, <2>2 DEF ServedIsQuiet
<1>12. WaitingIsPending'
  <2>1. ASSUME NEW m \in Lanes, At(m, "waiting")' PROVE Pending(held[m])'
    <3>1. At(m, "waiting") /\ held'[m] = held[m]  BY <2>1
    <3>2. lock[held[m]] = m /\ lock[held[Unloader]] = Unloader /\ held[m] \in Workers
      BY <3>1 DEF WorkerLocked, PlaceKnown
    <3>3. held[m] # held[Unloader]  BY <3>2
    <3>4. Pending(held[m])  BY <3>1 DEF WaitingIsPending
    <3>5. QED  BY <3>1, <3>2, <3>3, <3>4 DEF Pending
  <2>2. QED  BY <2>1 DEF WaitingIsPending
<1>13. WorkingHasRequest'  BY <1>u DEF WorkingHasRequest
<1>14. RunningIsKept'
  <2>1. ASSUME NEW v \in Workers, Alive(v)' PROVE Alive(v) /\ v # held[Unloader]
    <3>1. v # held[Unloader]  BY <2>1 DEF Alive
    <3>2. process'[v] = process[v]  BY <3>1
    <3>3. QED  BY <2>1, <3>1, <3>2 DEF Alive
  <2>2. ASSUME NEW v \in Workers, v # held[Unloader], Kept(v) PROVE Kept(v)'
    <3>1. CASE \E k \in Kinds : slot[k] = v
      BY <2>2, <3>1 DEF Kept
    <3>2. CASE \E t \in Threads : held[t] = v /\ pc[t] \in {"starting", "close", "join"}
      <4>1. PICK t \in Threads : held[t] = v /\ pc[t] \in {"starting", "close", "join"}
        BY <3>2
      <4>2. t # Unloader  BY <2>2, <4>1
      <4>3. held'[t] = v /\ pc'[t] = pc[t]  BY <4>1, <4>2
      <4>4. QED  BY <4>1, <4>3 DEF Kept
    <3>3. CASE v \in Unloading  BY <1>u, <3>3 DEF Kept
    <3>4. QED  BY <2>2, <3>1, <3>2, <3>3 DEF Kept
  <2>3. QED  BY <2>1, <2>2 DEF RunningIsKept
<1>15. JoinIsClosed'  BY <1>u DEF JoinIsClosed, PlaceKnown
<1>16. QED
  BY <1>1, <1>2, <1>3, <1>4, <1>5, <1>6, <1>7, <1>8, <1>9, <1>10, <1>11, <1>12, <1>13,
      <1>14, <1>15
-----------------------------------------------------------------------------
(* The specification.                                                      *)

\* Initially no worker was started and no thread is anywhere.
LEMMA InitInv == Init => PoolInv
<1> SUFFICES ASSUME Init PROVE PoolInv
  OBVIOUS
<1> USE Names DEF Init, At
<1>1. TypeOK  BY PoolConstants DEF TypeOK, Kinds
<1>2. PlaceKnown /\ PoolLocked /\ WorkerLocked /\ JoinIsClosed
  BY DEF PlaceKnown, PoolLocked, WorkerLocked, JoinIsClosed
<1>3. Unloading = {}  BY DEF Unloading
<1>4. UnbornUntouched  BY <1>3 DEF UnbornUntouched
<1>5. SlotsApart /\ ClosedIsReplaced /\ StartingFillsSlot /\ OutsideIsOwn
  BY DEF SlotsApart, ClosedIsReplaced, StartingFillsSlot, OutsideIsOwn, Outside
<1>6. StartingIsNewborn /\ WaitingIsPending /\ WorkingHasRequest
  BY DEF StartingIsNewborn, WaitingIsPending, WorkingHasRequest
<1>7. ServedIsQuiet  BY <1>3 DEF ServedIsQuiet, Served
<1>8. RunningIsKept  BY DEF RunningIsKept, Alive
<1>9. QED  BY <1>1, <1>2, <1>4, <1>5, <1>6, <1>7, <1>8 DEF PoolInv

\* A step that changes nothing preserves the invariant.
LEMMA StutterInv == PoolInv /\ UNCHANGED vars => PoolInv'
<1> SUFFICES ASSUME PoolInv, UNCHANGED vars PROVE PoolInv'
  OBVIOUS
<1> USE DEF PoolInv, vars, pool, workers, threads, pipes, At
<1>1. Unloading' = Unloading  BY DEF Unloading
<1>2. TypeOK' /\ PlaceKnown' /\ PoolLocked' /\ WorkerLocked' /\ JoinIsClosed'
  BY DEF TypeOK, PlaceKnown, PoolLocked, WorkerLocked, JoinIsClosed
<1>3. UnbornUntouched' /\ SlotsApart' /\ ClosedIsReplaced' /\ StartingFillsSlot'
      /\ OutsideIsOwn'
  BY <1>1 DEF UnbornUntouched, SlotsApart, ClosedIsReplaced, StartingFillsSlot,
              OutsideIsOwn, Outside, Own
<1>4. StartingIsNewborn' /\ WaitingIsPending' /\ WorkingHasRequest'
  BY DEF StartingIsNewborn, WaitingIsPending, WorkingHasRequest, Newborn, Pending
<1>5. ServedIsQuiet' /\ RunningIsKept'
  BY <1>1 DEF ServedIsQuiet, Served, Quiet, RunningIsKept, Kept, Alive
<1>6. QED  BY <1>2, <1>3, <1>4, <1>5

\* Every step preserves the invariant.
LEMMA StepInv == PoolInv /\ [Next]_vars => PoolInv'
<1> SUFFICES ASSUME PoolInv, [Next]_vars PROVE PoolInv'
  OBVIOUS
<1>1. ASSUME NEW l \in Lanes, LaneStep(l) PROVE PoolInv'
  BY <1>1, FindExitedInv, StartWorkerInv, ReceiveReadyInv, StartFailsInv, StartDiesInv,
     ReceiveReplyInv, CloseLaneInv, JoinReplacedInv, JoinForcedInv DEF LaneStep
<1>2. ASSUME NEW l \in Lanes, LaneWish(l) PROVE PoolInv'
  BY <1>2, TakeModelInv, SendRequestInv, RefuseRequestInv, EndCaptureInv DEF LaneWish
<1>3. CASE Unload \/ UnloaderStep
  BY <1>3, UnloadInv, NextToCloseInv, CloseUnloaderInv, JoinUnloadedInv DEF UnloaderStep
<1>4. ASSUME NEW w \in Workers, WorkerStep(w) \/ WorkerKilled(w) PROVE PoolInv'
  BY <1>4, WorkerStepInv
<1>5. CASE UNCHANGED vars  BY <1>5, StutterInv
<1>6. QED  BY <1>1, <1>2, <1>3, <1>4, <1>5 DEF Next

\* The invariant holds in every state.
LEMMA PoolInvariant == Spec => []PoolInv
<1>1. QED  BY InitInv, StepInv, PTL DEF Spec

\* A lane that waits for its worker reads the answer to its own request or an
\* error, and unload never cuts it off: infer's check of the request id cannot
\* fail, whoever shares the worker, stops it or kills it.
THEOREM LanesGetTheirAnswers == Spec => []InferenceIsAnswered
<1>1. PoolInv => InferenceIsAnswered
  BY DEF PoolInv, InferenceIsAnswered, ReplyIsOwn, InferenceIsNotCut,
         WaitingIsPending, Pending
<1>2. QED  BY <1>1, PoolInvariant, PTL

\* The slots of the pool hold open workers that nobody else is closing, but for
\* the lane that holds the pool's lock, and no running process is out of reach:
\* each is in a slot or with the thread that starts or closes it.
THEOREM WorkersStayKept == Spec => []PoolKeepsWorkers
<1>1. ASSUME PoolInv PROVE PoolHandsOutOpenWorkers
  <2>1. ASSUME NEW k \in Kinds, slot[k] # NoWorker, closed[slot[k]] PROVE poolLock # Nobody
    <3>1. PICK l \in Lanes : At(l, "join")
      BY <1>1, <2>1 DEF PoolInv, ClosedIsReplaced
    <3>2. poolLock = l  BY <1>1, <3>1 DEF PoolInv, PoolLocked, At
    <3>3. QED  BY <3>2, Names
  <2>2. QED  BY <1>1, <2>1 DEF PoolInv, PoolHandsOutOpenWorkers, SlotsApart, Unloading
<1>2. PoolInv => NoOrphan
  BY DEF PoolInv, NoOrphan, RunningIsKept, Kept, Unloading
<1>3. PoolInv => PoolKeepsWorkers
  BY <1>1, <1>2 DEF PoolInv, PoolKeepsWorkers
<1>4. QED  BY <1>3, PoolInvariant, PTL

=============================================================================
