----------------------------- MODULE SessionStore -----------------------------
(***************************************************************************)
(* The storage of one corrected session: the lanes read accepted audio     *)
(* from AudioLog, decode it without any lock, and apply what they found to *)
(* EventStore together with their horizon (CorrectedSession, corrected.py: *)
(* process_lane, _apply_lane_update, advance_provisional, advance_commit). *)
(***************************************************************************)
EXTENDS AudioLog, EventStore

CONSTANTS Lanes,
          MaxBatch   \* bound: the events of one update

ASSUME BatchAssumption == MaxBatch \in Nat

VARIABLES
    lane,      \* of each lane: pc, the end of what it processed, the range and events in hand
    horizon,   \* provisional_sample or commit_sample, of the lane that advances it
    emitted,   \* every event a lane decoded so far (history)
    closed     \* the session's closed: its database is closed as well

laneVars == <<lane, horizon, emitted, closed>>
storeVars == <<audioVars, eventVars, laneVars>>

Idle == [pc |-> "idle", done |-> 0, end |-> 0, batch |-> << >>]

StoreInit ==
    /\ AudioInit /\ EventInit
    /\ lane = [l \in Lanes |-> Idle]
    /\ horizon = [l \in Lanes |-> 0]
    /\ emitted = [l \in Lanes |-> {}]
    /\ closed = FALSE

-----------------------------------------------------------------------------

Source == SourceStep /\ UNCHANGED <<eventVars, laneVars>>

(* process_available reads the accepted samples it has not processed; one    *)
(* lane at a time is inside read_pcm.                                        *)
LaneReads(l) ==
    /\ lane[l].pc = "idle"
    /\ \A o \in Lanes : lane[o].pc # "reading"
    /\ ~ closed
    /\ \E end \in (lane[l].done + 1)..head :
         /\ ReadRing(lane[l].done, end) \/ ReadFiles(lane[l].done, end)
         /\ lane' = [lane EXCEPT ![l].pc = IF reader'.pc = "idle" THEN "dead" ELSE "reading",
                                 ![l].end = end]
    /\ UNCHANGED <<eventVars, horizon, emitted, closed>>

FileStep == (SkipRow \/ ReadRow \/ ReadMisses) /\ UNCHANGED <<eventVars, laneVars>>

Within(l, e) == lane[l].done <= e.onset /\ e.onset < lane[l].end

Found(l) == {e \in Events : Within(l, e)}
Batches(l) == {b \in BoundedSeq(Found(l), MaxBatch) : IsInjective(b)}

(* The audio is in hand: the lane's own position advances and it has events  *)
(* to apply.                                                                 *)
LaneDecodes(l) ==
    /\ lane[l].pc = "reading"
    /\ TakeAudio
    /\ \E batch \in Batches(l) :
         /\ nextSequence + Len(batch) <= MaxRows + 1
         /\ lane' = [lane EXCEPT ![l] = [pc |-> "decoded", done |-> @.end, end |-> @.end, batch |-> batch]]
         /\ emitted' = [emitted EXCEPT ![l] = @ \cup ToSet(batch)]
    /\ UNCHANGED <<eventVars, horizon, closed>>

\* Mutant: the horizon is advanced before the events are stored.
ApplyUpdateHorizonFirst(l) ==
    LET batch == lane[l].batch IN
    /\ lane[l].pc = "decoded" /\ StateLockFree /\ ~ closed
    /\ horizon' = [horizon EXCEPT ![l] = lane[l].done]
    /\ \/ /\ AppendEvents(batch) /\ lane' = [lane EXCEPT ![l].pc = "idle"]
       \/ /\ AppendLosesEvidence(batch) \/ AppendLosesIndex(batch)
          /\ lane' = [lane EXCEPT ![l].pc = "dead"]
    /\ UNCHANGED <<audioVars, emitted, closed>>

(* _apply_lane_update, under the state lock: the events, then the horizon,   *)
(* which stays within the accepted audio.  A failure ends the lane.          *)
ApplyUpdate(l) ==
    LET batch == lane[l].batch IN
    /\ lane[l].pc = "decoded"
    /\ StateLockFree
    /\ ~ closed
    /\ \/ /\ AppendEvents(batch)
          /\ horizon' = [horizon EXCEPT ![l] = lane[l].done]
          /\ lane' = [lane EXCEPT ![l].pc = "idle"]
       \/ /\ batch # << >>
          /\ AppendLosesEvidence(batch) \/ AppendLosesIndex(batch)
          /\ lane' = [lane EXCEPT ![l].pc = "dead"]
          /\ UNCHANGED horizon
    /\ UNCHANGED <<audioVars, emitted, closed>>

(* The session was aborted meanwhile: the update is refused.                 *)
RefuseUpdate(l) ==
    /\ lane[l].pc = "decoded"
    /\ StateLockFree
    /\ closed
    /\ lane' = [lane EXCEPT ![l].pc = "dead"]
    /\ UNCHANGED <<audioVars, eventVars, horizon, emitted, closed>>

Browse == ReadHistory /\ UNCHANGED <<audioVars, laneVars>>

Settle == BeginSettling /\ ~ closed /\ UNCHANGED <<eventVars, laneVars>>

(* abort: the audio log, the event store, and the session are closed.        *)
AbortSession ==
    /\ ~ closed
    /\ Abort
    /\ IF wave' = "shut" THEN UNCHANGED closed ELSE closed' = TRUE
    /\ UNCHANGED <<eventVars, lane, horizon, emitted>>

(* complete_settlement, once no lane is at work.                             *)
CompleteSettlement ==
    /\ StateLockFree
    /\ capture = "closed" /\ ~ closed
    /\ \A l \in Lanes : lane[l].pc \in {"idle", "dead"}
    /\ closed' = TRUE
    /\ UNCHANGED <<audioVars, eventVars, lane, horizon, emitted>>

StoreNext ==
    \/ Source \/ FileStep \/ Browse \/ Settle \/ AbortSession \/ CompleteSettlement
    \/ \E l \in Lanes : LaneReads(l) \/ LaneDecodes(l) \/ ApplyUpdate(l) \/ RefuseUpdate(l)

StoreSpec == StoreInit /\ [][StoreNext]_storeVars

-----------------------------------------------------------------------------

StoreTypeOK ==
    /\ AudioTypeOK /\ EventTypeOK
    /\ \A l \in Lanes :
         /\ lane[l].pc \in {"idle", "reading", "decoded", "dead"}
         /\ lane[l].done \in Nat /\ lane[l].end \in Nat
         /\ horizon[l] \in Nat
    /\ closed \in BOOLEAN

(* Everything a lane found before its horizon is in the index: a horizon    *)
(* that moved past a stretch of audio promises the browser and the export   *)
(* that the events there are stored, also after failed writes and an abort  *)
(* (corrected.py:793-800).                                                  *)
HorizonIsStored ==
    \A l \in Lanes : \A e \in emitted[l] :
         e.onset < horizon[l] =>
             \E r \in rows : r.id = e.id /\ r.onset = e.onset /\ r.lifecycle = e.lifecycle

(* What a session promises of its events is stored, and all who read it     *)
(* read the same.                                                           *)
StoreAgrees == StoreTypeOK /\ EventsAgree /\ HorizonIsStored

=============================================================================
