-------------------------- MODULE RecordingRetention --------------------------
(***************************************************************************)
(* What happens to the audio of one recording after Stop: the finalizer of *)
(* its pipeline (StorageApplicationService.finalize_session) encodes it,   *)
(* verifies the result, decides, and retires the raw segments; the next    *)
(* process to open the workspace (recover_workspace) finishes what a dead  *)
(* one left.  The process may die between any two file operations, and the *)
(* machine may lose power, which also undoes what was not synced.          *)
(*                                                                         *)
(* playback/session.mp3 and recording.json have a content as seen by the   *)
(* process and the set of contents a power loss may leave on the disk: a   *)
(* write adds to that set, fsync reduces it to the content seen.  The raw  *)
(* segments and their index are never synced.                              *)
(***************************************************************************)
EXTENDS Naturals, FiniteSets

CONSTANTS
    Segments,   \* raw audio segments, numbered in the order of recording
    MaxDeaths,  \* bound: times the process dies
    Faults      \* what may fail: kinds of operation, or "power"

FaultKinds == {"read", "encode", "verify", "sync", "unlink", "raise", "power"}

ASSUME SegmentsAssumption == Segments \subseteq Nat /\ Segments # {}
ASSUME BoundAssumption == MaxDeaths \in Nat /\ Faults \subseteq FaultKinds

VARIABLES
    compact,         \* compact_recording of the session
    commit,          \* commit lane: its events reach the end of the audio, were
                     \*   decided to the end but not stored, or do neither
    preview,         \* preview lane: its events reach the end of the audio or not
    raw,             \* audio/*.wav that exist
    index,           \* audio/segments.jsonl exists
    partial,         \* playback/.session.mp3 exists
    playback,        \* content of playback/session.mp3
    playbackOnDisk,
    playbackKnown,   \* exports["playback"] is not None
    recording,       \* state in recording.json
    recordingOnDisk,
    decision,        \* what the last recovery reported of this session
    pc,              \* next step of the process
    deaths,
    unlinked,        \* history: segments the program removed
    lostPower        \* history: power was lost

lanes == <<commit, preview>>
input == <<compact, lanes>>
audioFiles == <<raw, index>>
playbackFiles == <<partial, playback, playbackOnDisk, playbackKnown>>
recordingFile == <<recording, recordingOnDisk>>
history == <<deaths, unlinked, lostPower>>
vars == <<input, audioFiles, playbackFiles, recordingFile, decision, pc, history>>

Contents == {"none", "good", "bad"}
Decisions == {"none", "completed", "preserved"}
CommitOutcomes == {"stored", "decided", "behind"}
RecordingStates == {"none", "torn", "incomplete", "raw-retained",
                    "retirement-pending", "complete"}

\* Every lane has completed or failed; the finalizer is about to run.
Init ==
    /\ compact \in BOOLEAN
    /\ commit \in CommitOutcomes /\ preview \in {"stored", "behind"}
    /\ raw = Segments /\ index = TRUE
    /\ partial = FALSE /\ playback = "none" /\ playbackOnDisk = {"none"}
    /\ playbackKnown = FALSE
    /\ recording = "none" /\ recordingOnDisk = {"none"}
    /\ decision = "none" /\ pc = "encode"
    /\ deaths = 0 /\ unlinked = {} /\ lostPower = FALSE

At(point) == pc = point
Goto(point) == pc' = point

-----------------------------------------------------------------------------
(* Encoding: write_playback_audio.                                         *)

BeginEncode ==
    /\ At("encode")
    /\ partial' = TRUE /\ Goto("publish")
    /\ UNCHANGED <<input, audioFiles, playback, playbackOnDisk, playbackKnown,
                   recordingFile, decision, history>>

\* The encoder is missing or fails; nothing is published.
EncodeFails ==
    /\ "encode" \in Faults /\ pc \in {"encode", "publish"}
    /\ partial' = FALSE /\ Goto("decide")
    /\ UNCHANGED <<input, audioFiles, playback, playbackOnDisk, playbackKnown,
                   recordingFile, decision, history>>

\* os.replace.  The encoder may have exited well and written too little.
PublishPlayback ==
    /\ At("publish")
    /\ partial' = FALSE
    /\ playback' \in {"good", "bad"}
    /\ playbackOnDisk' = playbackOnDisk \cup {playback', "bad"}
    /\ Goto("syncPlayback")
    /\ UNCHANGED <<input, audioFiles, playbackKnown, recordingFile, decision, history>>

\* Mutant: the published file is not synced.
SyncPlaybackLater ==
    /\ At("syncPlayback")
    /\ playbackKnown' = TRUE
    /\ Goto("decide")
    /\ UNCHANGED <<input, audioFiles, partial, playback, playbackOnDisk, recordingFile,
                   decision, history>>

\* fsync of the file and its directory; if that fails the file stays, unknown.
SyncPlayback ==
    /\ At("syncPlayback")
    /\ \/ playbackOnDisk' = {playback} /\ playbackKnown' = TRUE
       \/ "sync" \in Faults /\ UNCHANGED <<playbackOnDisk, playbackKnown>>
    /\ Goto("decide")
    /\ UNCHANGED <<input, audioFiles, partial, playback, recordingFile, decision, history>>

-----------------------------------------------------------------------------
(* recording.json: _finalize_recording.                                    *)

\* _source_segments: every segment is there and as its index says.
SegmentsReadable == raw = Segments /\ index

\* _verify_playback, which decodes the whole file and compares its length.
Verified == playbackKnown /\ playback = "good"

\* raw_retirement_ready: the commit lane's own sample reached the end.
RetirementReady == commit # "behind"

Outcome(readable, tools) ==
    IF ~readable THEN "incomplete"
    ELSE IF ~compact THEN "raw-retained"
    ELSE IF RetirementReady /\ tools /\ Verified THEN "retirement-pending"
    ELSE "incomplete"

\* write_json: an atomic replace, not yet synced.
Write(state) ==
    /\ recording' = state
    /\ recordingOnDisk' = recordingOnDisk \cup {state, "torn"}

\* The segments are checked, the playback verified, and the document written.
Decide ==
    /\ At("decide")
    /\ \E readable \in {SegmentsReadable} \cup (IF "read" \in Faults THEN {FALSE} ELSE {}),
          tools \in {TRUE} \cup (IF "verify" \in Faults THEN {FALSE} ELSE {}) :
         /\ Write(Outcome(readable, tools))
         /\ Goto(IF Outcome(readable, tools) = "retirement-pending"
                 THEN "syncPending" ELSE "syncResult")
    /\ UNCHANGED <<input, audioFiles, playbackFiles, decision, history>>

\* Ends the recovery of this session with an entry in the list of decisions.
Report(d) == decision' = d /\ Goto("recovered")

\* _write_durable_json: fsync.  Its failure is ignored.
SyncRecording ==
    /\ \/ At("syncPending") /\ Goto("retire") /\ UNCHANGED decision
       \/ At("syncResult") /\ Goto("settled") /\ UNCHANGED decision
       \/ At("syncRecovered") /\ Report("completed")
    /\ \/ recordingOnDisk' = {recording}
       \/ "sync" \in Faults /\ UNCHANGED recordingOnDisk
    /\ UNCHANGED <<input, audioFiles, playbackFiles, recording, history>>

\* The segments go one by one, by the finalizer or by recovery.
UnlinkSegment ==
    /\ pc \in {"retire", "resume"}
    /\ \E s \in raw :
         /\ \A t \in raw : s <= t
         /\ raw' = raw \ {s}
         /\ unlinked' = unlinked \cup {s}
    /\ UNCHANGED <<input, index, playbackFiles, recordingFile, decision, pc, deaths,
                   lostPower>>

\* After the last segment the index goes, and the document says complete.
UnlinkIndex ==
    /\ pc \in {"retire", "resume"} /\ raw = {}
    /\ index' = FALSE
    /\ Goto(IF At("retire") THEN "writeComplete" ELSE "writeRecovered")
    /\ UNCHANGED <<input, raw, playbackFiles, recordingFile, decision, history>>

WriteComplete ==
    /\ pc \in {"writeComplete", "writeRecovered"}
    /\ Write("complete")
    /\ Goto(IF At("writeComplete") THEN "syncResult" ELSE "syncRecovered")
    /\ UNCHANGED <<input, audioFiles, playbackFiles, decision, history>>

\* Mutant: what could not be removed is ignored.
UnlinkFailsSilently ==
    /\ "unlink" \in Faults /\ At("retire")
    /\ Goto("writeComplete")
    /\ UNCHANGED <<input, audioFiles, playbackFiles, recordingFile, decision, history>>

\* A file cannot be removed: retirement is still pending.
UnlinkFails ==
    /\ "unlink" \in Faults /\ At("retire")
    /\ Write("retirement-pending") /\ Goto("syncResult")
    /\ UNCHANGED <<input, audioFiles, playbackFiles, decision, history>>

\* An error outside the handlers of the finalizer: the pipeline aborts.
FinalizerRaises ==
    /\ "raise" \in Faults
    /\ pc \in {"encode", "decide", "syncPending", "writeComplete", "syncResult"}
    /\ Goto("settled")
    /\ UNCHANGED <<input, audioFiles, playbackFiles, recordingFile, decision, history>>

-----------------------------------------------------------------------------
(* Death and recovery.                                                     *)

\* The process is killed.
Crash ==
    /\ ~At("down") /\ deaths < MaxDeaths
    /\ deaths' = deaths + 1 /\ Goto("down")
    /\ UNCHANGED <<input, audioFiles, playbackFiles, recordingFile, decision, unlinked,
                   lostPower>>

\* The machine loses power: unsynced files revert or tear, removed ones may be
\* back, raw segments written but never synced may be gone.
PowerLoss ==
    /\ "power" \in Faults /\ deaths < MaxDeaths
    /\ deaths' = deaths + 1 /\ lostPower' = TRUE /\ Goto("down")
    /\ raw' \in SUBSET Segments /\ index' \in BOOLEAN
    /\ partial' \in {FALSE, partial}
    /\ playback' \in playbackOnDisk /\ playbackOnDisk' = {playback'}
    /\ recording' \in recordingOnDisk /\ recordingOnDisk' = {recording'}
    /\ UNCHANGED <<input, playbackKnown, decision, unlinked>>

\* recover_workspace, in a new process, starts by removing a partial file.
Restart ==
    /\ At("down")
    /\ partial' = FALSE /\ playbackKnown' = FALSE /\ decision' = "none"
    /\ Goto("recover")
    /\ UNCHANGED <<input, audioFiles, playback, playbackOnDisk, recordingFile, history>>

\* Mutant: resumes only while the raw index is there.
ResumableWithIndex == recording = "retirement-pending" /\ index

Resumable == recording = "retirement-pending"

\* A pending retirement is resumed if the playback file verifies again.
Recover ==
    /\ At("recover")
    /\ \/ ~Resumable /\ recording # "torn" /\ Report("none")
       \/ Resumable /\ playback = "good" /\ Goto("resume") /\ UNCHANGED decision
       \/ /\ \/ recording = "torn"
             \/ Resumable /\ (playback # "good" \/ "verify" \in Faults)
          /\ Report("preserved")
    /\ UNCHANGED <<input, audioFiles, playbackFiles, recordingFile, history>>

\* Any error while it resumes: recovery gives up on this session.
RecoveryRaises ==
    /\ \/ "unlink" \in Faults /\ At("resume")
       \/ "raise" \in Faults /\ pc \in {"writeRecovered", "syncRecovered"}
    /\ Report("preserved")
    /\ UNCHANGED <<input, audioFiles, playbackFiles, recordingFile, history>>

Next ==
    \/ BeginEncode \/ EncodeFails \/ PublishPlayback \/ SyncPlayback
    \/ Decide \/ SyncRecording \/ UnlinkSegment \/ UnlinkIndex \/ UnlinkFails
    \/ WriteComplete \/ FinalizerRaises
    \/ Crash \/ PowerLoss \/ Restart \/ Recover \/ RecoveryRaises

Spec == Init /\ [][Next]_vars

-----------------------------------------------------------------------------
(* Properties.                                                             *)

Points == {"encode", "publish", "syncPlayback", "decide", "syncPending", "retire",
           "writeComplete", "syncResult", "settled", "down", "recover", "resume",
           "writeRecovered", "syncRecovered", "recovered"}

\* Every variable holds a value of its kind.
TypeOK ==
    /\ compact \in BOOLEAN
    /\ commit \in CommitOutcomes /\ preview \in {"stored", "behind"}
    /\ raw \subseteq Segments /\ index \in BOOLEAN
    /\ partial \in BOOLEAN /\ playbackKnown \in BOOLEAN
    /\ playback \in Contents /\ playbackOnDisk \subseteq Contents
    /\ recording \in RecordingStates /\ recordingOnDisk \subseteq RecordingStates
    /\ decision \in Decisions /\ pc \in Points
    /\ deaths \in Nat /\ unlinked \subseteq Segments /\ lostPower \in BOOLEAN

\* "Never delete the only usable recording": once the program has removed a raw
\* segment, a verified playback file is on the disk to stay, whatever is lost
\* with the power (_finalize_recording, recover_workspace).
NeverDeleteOnlyRecording ==
    unlinked # {} => playback = "good" /\ playbackOnDisk = {"good"}

\* recording.json, now and as any power loss may leave it, promises a compact
\* recording only if that file is good and on the disk.
ManifestPointsToPlayback ==
    (recordingOnDisk \cup {recording}) \cap {"retirement-pending", "complete"} # {}
        => playback = "good" /\ playbackOnDisk = {"good"}

\* What recording.json says of the raw audio is so: retained means all of it,
\* complete means none of it.  A power loss may bring removed files back.
ManifestMatchesRaw ==
    ~lostPower =>
        /\ recording \in {"none", "incomplete", "raw-retained"} => SegmentsReadable
        /\ recording = "complete" => raw = {} /\ ~index

\* Raw audio is removed only from recordings that asked for it and whose commit
\* lane has read them to the end.
RetirementAllowed == unlinked # {} => compact /\ commit # "behind"

\* recover_workspace tells the truth: a retirement it leaves pending is reported
\* as preserved, one it reports completed has left no raw audio.
RecoveryReportsTruth ==
    At("recovered") =>
        /\ recording = "retirement-pending" => decision = "preserved"
        /\ decision = "completed" => recording = "complete" /\ raw = {} /\ ~index

\* Whatever recording.json and the recovery report say, now or after a power
\* loss, is so.
ManifestTellsTruth == ManifestPointsToPlayback /\ ManifestMatchesRaw /\ RecoveryReportsTruth

=============================================================================
