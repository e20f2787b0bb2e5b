---------------------------- MODULE RecordingImport ----------------------------
(***************************************************************************)
(* The import of a recording: a request whose body goes to a spool file,   *)
(* the probe of that file, the claim of the one capture there may be, and  *)
(* the thread that decodes the file and feeds the capture                  *)
(* (adapters/local_upload.py, the recording-imports handler of             *)
(* corrected_workbench.py, start_upload and _run_upload of                 *)
(* application/capture.py).  Any request, write or decoder may fail, any   *)
(* capture may fail under its thread, and the process may be killed.       *)
(*                                                                         *)
(* An import is the number of its request.  The capture's own states are   *)
(* the subject of CaptureService; what an import meets of them is here.    *)
(***************************************************************************)
EXTENDS Naturals, Sequences, FiniteSets, SequencesExt

CONSTANTS
    Imports,       \* requests, 1..n
    MaxBody,       \* bound: bytes of a body
    BlockBytes,    \* bytes of a decoded block, two for a frame
    MaxPcm,        \* bound: bytes a decoder delivers
    MaxKills       \* bound: times the process is killed

ASSUME ImportAssumption ==
    /\ IsFiniteSet(Imports) /\ Imports = 1..Cardinality(Imports)
    /\ BlockBytes \in Nat \ {0} /\ BlockBytes % 2 = 0
    /\ {MaxBody, MaxPcm, MaxKills} \subseteq Nat

VARIABLES
    import,        \* where each request or its thread is, and what it counted
    spool,         \* spool files: "none", "new", or "old" when last written a day ago
    upload,        \* state in upload.json, "none" without one
    recording,     \* each session: "none", "recording", "stopping", "complete", "failed"
    taken,         \* accepted blocks of each: [from, first, frames]
    lease,         \* _session_id, _active_session (0: none) and whether _status is busy
    kills,
    strayed        \* history: some thread fed or stopped the session of another import

importVars == <<import, spool, upload, recording, taken, lease, kills, strayed>>

Unasked == [pc |-> "none", declared |-> 0, received |-> 0, pending |-> 0, pcm |-> 0,
            head |-> 0, blocks |-> 0, sound |-> FALSE]

ImportInit ==
    /\ import = [i \in Imports |-> Unasked] /\ spool = [i \in Imports |-> "none"]
    /\ upload = [i \in Imports |-> "none"] /\ recording = [i \in Imports |-> "none"]
    /\ taken = [i \in Imports |-> << >>]
    /\ lease = [current |-> 0, active |-> 0, busy |-> FALSE] /\ kills = 0 /\ strayed = FALSE

Where(i, pc) == import[i].pc = pc
To(i, pc) == import' = [import EXCEPT ![i].pc = pc]
Unfinished(s) == recording[s] \in {"recording", "stopping"}

\* audio_head_sample: where the next block of session s begins.
Frames(s) == IF taken[s] = << >> THEN 0 ELSE Last(taken[s]).first + Last(taken[s]).frames

\* close and the handlers' finally clauses: a file that is gone is no error.
Unlink(i) == spool' = [spool EXCEPT ![i] = "none"]

-----------------------------------------------------------------------------
(* The request.                                                            *)

\* validate_request: size, name, media type and free space.
AskImport(i) ==
    /\ Where(i, "none") /\ \A j \in 1..(i - 1) : ~ Where(j, "none")
    /\ \/ \E n \in 1..MaxBody :
              import' = [import EXCEPT ![i].pc = "validated", ![i].declared = n]
       \/ To(i, "done")
    /\ UNCHANGED <<spool, upload, recording, taken, lease, kills, strayed>>

OpenSpool(i) ==
    /\ Where(i, "validated")
    /\ To(i, "body") /\ spool' = [spool EXCEPT ![i] = "new"]
    /\ UNCHANGED <<upload, recording, taken, lease, kills, strayed>>

\* A chunk arrives; one that goes beyond the length announced, or cannot be
\* written, ends the request, and its file is removed.
WriteSpool(i) ==
    /\ Where(i, "body")
    /\ \/ /\ import[i].received < import[i].declared
          /\ import' = [import EXCEPT ![i].received = @ + 1]
          /\ spool' = [spool EXCEPT ![i] = "new"]
       \/ To(i, "done") /\ Unlink(i)
    /\ UNCHANGED <<upload, recording, taken, lease, kills, strayed>>

\* The body ends, or the client is gone.
EndSpool(i) ==
    /\ Where(i, "body")
    /\ IF import[i].received = import[i].declared
       THEN To(i, "received") /\ UNCHANGED spool
       ELSE To(i, "done") /\ Unlink(i)
    /\ UNCHANGED <<upload, recording, taken, lease, kills, strayed>>

\* ffprobe finds one audio stream of a supported rate, or the file is refused.
Prepare(i) ==
    /\ Where(i, "received")
    /\ \/ To(i, "prepared") /\ UNCHANGED spool
       \/ To(i, "done") /\ Unlink(i)
    /\ UNCHANGED <<upload, recording, taken, lease, kills, strayed>>

\* Mutant: a refused claim leaves the file to nobody.
ClaimImportKeepsFile(i) ==
    /\ Where(i, "prepared")
    /\ IF lease.active # 0 \/ lease.busy
       THEN To(i, "done") /\ UNCHANGED lease
       ELSE To(i, "claimed") /\ lease' = [lease EXCEPT !.current = i, !.busy = TRUE]
    /\ UNCHANGED <<spool, upload, recording, taken, kills, strayed>>

\* start_upload: another capture refuses it.
ClaimImport(i) ==
    /\ Where(i, "prepared")
    /\ IF lease.active # 0 \/ lease.busy
       THEN To(i, "done") /\ Unlink(i) /\ UNCHANGED lease
       ELSE To(i, "claimed") /\ lease' = [lease EXCEPT !.current = i, !.busy = TRUE] /\ UNCHANGED spool
    /\ UNCHANGED <<upload, recording, taken, kills, strayed>>

Released(l) == [l EXCEPT !.active = 0, !.busy = FALSE]

\* The session starts and its upload.json is written.  When the latter fails,
\* the lease is released but the session goes on recording.
StartImport(i) ==
    /\ Where(i, "claimed")
    /\ \/ /\ lease.current = i
          /\ lease' = [lease EXCEPT !.active = i, !.busy = TRUE]
          /\ recording' = [recording EXCEPT ![i] = "recording"]
          /\ upload' = [upload EXCEPT ![i] = "decoding"]
          /\ To(i, "decoding") /\ UNCHANGED spool
       \/ /\ lease' = Released(lease) /\ To(i, "done") /\ Unlink(i)
          /\ \/ UNCHANGED recording
             \/ recording' = [recording EXCEPT ![i] = "recording"]
          /\ UNCHANGED upload
    /\ UNCHANGED <<taken, kills, strayed>>

-----------------------------------------------------------------------------
(* The thread that decodes.                                                *)

\* A part of the PCM that is not yet a block: read asks for what is missing.
ReadPcm(i) ==
    /\ Where(i, "decoding") /\ import[i].pending < BlockBytes
    /\ \E n \in 1..(BlockBytes - import[i].pending) :
        /\ import[i].pcm + n <= MaxPcm
        /\ import' = [import EXCEPT ![i].pending = @ + n, ![i].pcm = @ + n]
    /\ UNCHANGED <<spool, upload, recording, taken, lease, kills, strayed>>

\* The decoder closes its output, having decoded everything or not.
DecoderEnds(i) ==
    /\ Where(i, "decoding") /\ import[i].pending < BlockBytes
    /\ \E good \in BOOLEAN : import' = [import EXCEPT ![i].pc = "ended", ![i].sound = good]
    /\ UNCHANGED <<spool, upload, recording, taken, lease, kills, strayed>>

\* accept_block feeds whichever session is active, if the block is its next.
Fits(i) ==
    LET s == lease.active IN
        /\ s # 0 /\ recording[s] = "recording"
        /\ import[i].blocks = Len(taken[s]) /\ import[i].head = Frames(s)

\* Mutant: what is less than a block is left.
RestIsDropped(i) == Where(i, "decoding") /\ import[i].pending = BlockBytes

\* A full block, or at the end whole frames that remain.
BlockIsReady(i) ==
    \/ Where(i, "decoding") /\ import[i].pending = BlockBytes
    \/ Where(i, "ended") /\ import[i].pending > 0 /\ import[i].pending % 2 = 0

AcceptPcm(i) ==
    /\ BlockIsReady(i)
    /\ LET frames == import[i].pending \div 2 IN
       \/ /\ Fits(i)
          /\ taken' = [taken EXCEPT ![lease.active] =
                 Append(@, [from |-> i, first |-> import[i].head, frames |-> frames])]
          /\ import' = [import EXCEPT ![i].pending = 0, ![i].head = @ + frames, ![i].blocks = @ + 1]
          /\ strayed' = (strayed \/ lease.active # i)
       \/ To(i, "failing") /\ UNCHANGED <<taken, strayed>>
    /\ UNCHANGED <<spool, upload, recording, lease, kills>>

\* Mutant: nobody asks how the decoder ended.
DecodedWellAnyway(i) == import[i].pending % 2 = 0 /\ import[i].head > 0

DecodedWell(i) == import[i].pending % 2 = 0 /\ import[i].sound /\ import[i].head > 0

\* Half a frame, a decoder that failed, or no frame at all are errors; else
\* upload.json is written before the capture stops.
FinishDecoding(i) ==
    /\ Where(i, "ended") /\ ~ BlockIsReady(i)
    /\ \/ /\ DecodedWell(i)
          /\ upload' = [upload EXCEPT ![i] = "accepted"] /\ To(i, "stop")
       \/ To(i, "failing") /\ UNCHANGED upload
    /\ UNCHANGED <<spool, recording, taken, lease, kills, strayed>>

\* stop_microphone stops whichever session is active, if its counts agree.
StopImport(i) ==
    /\ Where(i, "stop")
    /\ IF Fits(i)
       THEN /\ recording' = [recording EXCEPT ![lease.active] = "stopping"]
            /\ lease' = [lease EXCEPT !.busy = TRUE]
            /\ strayed' = (strayed \/ lease.active # i)
            /\ To(i, "waiting")
       ELSE To(i, "failing") /\ UNCHANGED <<recording, lease, strayed>>
    /\ UNCHANGED <<spool, upload, taken, kills>>

\* pipeline.wait returns when the thread's own session has settled or failed.
Waited(i) ==
    /\ Where(i, "waiting") /\ ~ Unfinished(i)
    /\ To(i, "done") /\ Unlink(i)
    /\ UNCHANGED <<upload, recording, taken, lease, kills, strayed>>

\* upload.json is written if it can be, and abort_microphone aborts whichever
\* session is active.
FailImport(i) ==
    /\ Where(i, "failing")
    /\ upload' \in {upload, [upload EXCEPT ![i] = "failed"]}
    /\ recording' = IF lease.active # 0 /\ Unfinished(lease.active)
                    THEN [recording EXCEPT ![lease.active] = "failed"] ELSE recording
    /\ strayed' = (strayed \/ lease.active \notin {0, i})
    /\ lease' = Released(lease)
    /\ To(i, "done") /\ Unlink(i)
    /\ UNCHANGED <<taken, kills>>

-----------------------------------------------------------------------------
(* The capture, the clock and the process.                                 *)

\* The lanes settle a session that was stopped, or fail, or somebody aborts
\* it; the lease is released if the session holds it.
EndRecording(s) ==
    /\ Unfinished(s)
    /\ \/ recording[s] = "stopping" /\ recording' = [recording EXCEPT ![s] = "complete"]
       \/ recording' = [recording EXCEPT ![s] = "failed"]
    /\ lease' = IF lease.active = s THEN Released(lease) ELSE lease
    /\ UNCHANGED <<import, spool, upload, taken, kills, strayed>>

\* A day passes for files nobody writes.
DayPasses ==
    /\ \E i \in Imports : spool[i] = "new"
    /\ spool' = [i \in Imports |-> IF spool[i] = "new" THEN "old" ELSE spool[i]]
    /\ UNCHANGED <<import, upload, recording, taken, lease, kills, strayed>>

\* The process is killed, and the next one removes the files of a day ago.
KillImports ==
    /\ kills < MaxKills /\ kills' = kills + 1
    /\ import' = [i \in Imports |->
           IF import[i].pc \in {"none", "done", "killed"} THEN import[i] ELSE [import[i] EXCEPT !.pc = "killed"]]
    /\ spool' = [i \in Imports |-> IF spool[i] = "old" THEN "none" ELSE spool[i]]
    /\ recording' = [i \in Imports |-> IF Unfinished(i) THEN "failed" ELSE recording[i]]
    /\ lease' = Released(lease)
    /\ UNCHANGED <<upload, taken, strayed>>

ImportStep(i) ==
    \/ AskImport(i) \/ OpenSpool(i) \/ WriteSpool(i) \/ EndSpool(i) \/ Prepare(i)
    \/ ClaimImport(i) \/ StartImport(i)
    \/ ReadPcm(i) \/ DecoderEnds(i) \/ AcceptPcm(i) \/ FinishDecoding(i) \/ StopImport(i)
    \/ Waited(i) \/ FailImport(i)

ImportNext ==
    \/ \E i \in Imports : ImportStep(i) \/ EndRecording(i)
    \/ DayPasses \/ KillImports

ImportSpec == ImportInit /\ [][ImportNext]_importVars

-----------------------------------------------------------------------------
(* Properties.                                                             *)

\* Whatever is refused or fails, a spool file stays only while a request
\* receives it or a thread decodes it, and for those it is there; without them
\* only the killing of the process leaves one.
SpoolsHaveOwners ==
    \A i \in Imports :
        /\ spool[i] # "none" => import[i].pc \notin {"none", "validated", "done"}
        /\ import[i].pc \in {"received", "prepared", "claimed", "decoding", "ended", "stop"} => spool[i] # "none"

\* A session.json does not "claim that missing or incomplete audio is usable":
\* a recording that is complete holds every frame of a file that was received
\* and decoded to its end, in order and nothing else, and its upload.json says
\* so.  (Unless the thread of an import whose capture had failed under it fed,
\* stopped or aborted the session of the next one: accept_block, stop_microphone
\* and abort_microphone take whichever session is active.)
ImportsAreWhole ==
    \A i \in Imports : recording[i] = "complete" /\ ~ strayed =>
        /\ upload[i] = "accepted"
        /\ import[i].received = import[i].declared /\ import[i].sound
        /\ \A n \in DOMAIN taken[i] :
               /\ taken[i][n].from = i
               /\ taken[i][n].first = IF n = 1 THEN 0 ELSE taken[i][n - 1].first + taken[i][n - 1].frames
        /\ 2 * Frames(i) = import[i].pcm

================================================================================
