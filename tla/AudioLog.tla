------------------------------- MODULE AudioLog -------------------------------
(***************************************************************************)
(* The audio of one corrected session (corrected.py): PCM blocks go into   *)
(* WAV segments of a fixed length, and the last Capacity samples into a    *)
(* memory ring; lanes read any accepted range back from either.            *)
(*                                                                         *)
(* A sample is named by its number, so that a file holding sample 5 where  *)
(* sample 4 belongs can be told from a correct one.  The session's state   *)
(* lock is held by a source while it accepts a block and by a reader while *)
(* it reads; the log's own lock by whoever writes, closes or reads         *)
(* segments.  Abort takes only the second one.                             *)
(***************************************************************************)
EXTENDS Integers, Sequences

CONSTANTS Segment,    \* segment_frames: the length of a full segment
          Capacity,   \* capacity_frames of the ring
          MaxBlock,   \* bound: the longest block a source sends
          MaxHead,    \* bound: the samples a source sends
          AudioFaults \* "reserve": the disk is below its reserve; "index": segments.jsonl cannot be written

ASSUME SizesAssumption ==
    Segment \in Nat \ {0} /\ Capacity \in Nat \ {0} /\ MaxBlock \in Nat \ {0} /\ MaxHead \in Nat

VARIABLES
    head,        \* horizons.audio_head_sample
    nextSample,  \* next_sample of the log: the samples written to files
    ring,        \* the first sample of the ring, and its samples
    segments,    \* the indexed segments: first sample and contents of the file
    wave,        \* the active file: "none", "open", or "shut" (closed and not indexed)
    file,        \* first sample and contents of the active file
    capture,     \* "open"; "closed" once Stop has marked it; "aborted"
    source,      \* the call of accept_pcm: pc, first sample of the block, frames to write
    reader       \* the call of read_pcm: pc, range, cursor, next row, samples read

audioVars == <<head, nextSample, ring, segments, wave, file, capture, source, reader>>

-----------------------------------------------------------------------------

Samples(first, end) == [i \in 1..(end - first) |-> first + i - 1]
EndOf(run) == run.first + Len(run.data)
Empty(first) == [first |-> first, data |-> << >>]
NoRead == [pc |-> "idle", start |-> 0, end |-> 0, cursor |-> 0, row |-> 1, got |-> << >>]

AudioInit ==
    /\ head = 0 /\ nextSample = 0
    /\ ring = Empty(0)
    /\ segments = << >>
    /\ wave = "none" /\ file = Empty(0)
    /\ capture = "open"
    /\ source = [pc |-> "idle", first |-> 0, end |-> 0]
    /\ reader = NoRead

SourceIdle == source.pc = "idle"
ReaderIdle == reader.pc # "rows"
StateLockFree == SourceIdle /\ ReaderIdle
AudioLockFree == source.pc # "writing" /\ ReaderIdle

-----------------------------------------------------------------------------
(* SegmentedAudioLog._close_segment_unlocked.                               *)

\* Mutant: the segment index counts the samples of a full segment.
CloseSegmentShort ==
    /\ wave' = "none"
    /\ segments' = IF wave = "none" THEN segments
                   ELSE Append(segments, [file EXCEPT !.data = SubSeq(@, 1, Segment - 1)])
    /\ file' = IF wave = "none" THEN file ELSE Empty(EndOf(file))

(* Nothing when no file is active; otherwise the file is closed and its row *)
(* appended to the index.                                                    *)
CloseSegment ==
    /\ wave' = "none"
    /\ segments' = IF wave = "none" THEN segments ELSE Append(segments, file)
    /\ file' = IF wave = "none" THEN file ELSE Empty(EndOf(file))

(* The file is closed and its row cannot be written: the caller gets the     *)
(* error, and a later close of the same file writes the row.                 *)
CloseFails ==
    /\ "index" \in AudioFaults
    /\ wave # "none"
    /\ wave' = "shut"
    /\ UNCHANGED <<segments, file>>

-----------------------------------------------------------------------------
(* CorrectedSession.accept_pcm, and SegmentedAudioLog.append within.         *)

(* A block that starts at the head is let in; any other is refused.          *)
AcceptPcm(first, n) ==
    /\ StateLockFree
    /\ capture = "open"
    /\ first = head
    /\ source' = [pc |-> "checked", first |-> first, end |-> first + n]
    /\ UNCHANGED <<head, nextSample, ring, segments, wave, file, capture, reader>>

(* The log's own check: it fails once a block was written in part.           *)
RefuseAppend ==
    /\ source.pc = "checked"
    /\ source.first # nextSample
    /\ source' = [source EXCEPT !.pc = "idle"]
    /\ UNCHANGED <<head, nextSample, ring, segments, wave, file, capture, reader>>

EnterAppend ==
    /\ source.pc = "checked"
    /\ source.first = nextSample
    /\ AudioLockFree
    /\ source' = [source EXCEPT !.pc = "writing"]
    /\ UNCHANGED <<head, nextSample, ring, segments, wave, file, capture, reader>>

Writing == source.pc = "writing" /\ source.first < source.end

OpenSegment ==
    /\ Writing
    /\ wave = "none"
    /\ wave' = "open"
    /\ file' = Empty(nextSample)
    /\ UNCHANGED <<head, nextSample, ring, segments, capture, source, reader>>

(* The reserve is gone, or the file of an earlier segment was closed without *)
(* its row: the call raises and both locks are released.                     *)
AppendRaises ==
    /\ Writing
    /\ \/ wave = "none" /\ "reserve" \in AudioFaults
       \/ wave = "shut"
    /\ source' = [source EXCEPT !.pc = "idle"]
    /\ UNCHANGED <<head, nextSample, ring, segments, wave, file, capture, reader>>

Fits == Segment - Len(file.data)
Part == IF source.end - source.first < Fits THEN source.end - source.first ELSE Fits

(* The frames that fit the active file.                                      *)
WriteFrames ==
    /\ Writing
    /\ wave = "open"
    /\ Fits > 0
    /\ file' = [file EXCEPT !.data = @ \o Samples(source.first, source.first + Part)]
    /\ nextSample' = nextSample + Part
    /\ source' = [source EXCEPT !.first = @ + Part]
    /\ UNCHANGED <<head, ring, segments, wave, capture, reader>>

(* A full file is closed at once; when its row cannot be written the rest of *)
(* the block is lost to the source.                                          *)
CloseFull ==
    /\ source.pc = "writing"
    /\ wave = "open"
    /\ Fits = 0
    /\ \/ CloseSegment /\ UNCHANGED source
       \/ CloseFails /\ source' = [source EXCEPT !.pc = "idle"]
    /\ UNCHANGED <<head, nextSample, ring, capture, reader>>

(* The log's lock is released; the state lock is kept.                       *)
AppendEnds ==
    /\ source.pc = "writing"
    /\ source.first = source.end
    /\ ~ (wave = "open" /\ Fits = 0)
    /\ source' = [source EXCEPT !.pc = "written"]
    /\ UNCHANGED <<head, nextSample, ring, segments, wave, file, capture, reader>>

Excess(data) == IF Len(data) > Capacity THEN Len(data) - Capacity ELSE 0

(* PcmRing.append, and the head moves past the block.                        *)
KeepBlock ==
    LET data == ring.data \o Samples(head, source.end) IN
    /\ source.pc = "written"
    /\ ring' = [first |-> ring.first + Excess(data),
                data  |-> SubSeq(data, Excess(data) + 1, Len(data))]
    /\ head' = source.end
    /\ source' = [source EXCEPT !.pc = "idle"]
    /\ UNCHANGED <<nextSample, segments, wave, file, capture, reader>>

-----------------------------------------------------------------------------
(* CorrectedSession.read_pcm, PcmRing.read and SegmentedAudioLog.read.       *)

InRing(start, end) == ring.first <= start /\ end <= EndOf(ring)

ReadRing(start, end) ==
    /\ StateLockFree
    /\ start < end /\ end <= head
    /\ InRing(start, end)
    /\ reader' = [reader EXCEPT !.pc = "done", !.start = start, !.end = end,
                     !.got = SubSeq(ring.data, start - ring.first + 1, end - ring.first)]
    /\ UNCHANGED <<head, nextSample, ring, segments, wave, file, capture, source>>

\* Mutant: the active file is closed only when it holds the whole range.
OverlapsWhole(end) == wave # "none" /\ end > EndOf(file)

Overlaps(end) == wave # "none" /\ end > file.first

(* The range is not in the ring: an active file it reaches into is closed,   *)
(* and the rows are searched from the first one.                             *)
ReadFiles(start, end) ==
    /\ StateLockFree
    /\ start < end /\ end <= head
    /\ ~ InRing(start, end)
    /\ AudioLockFree
    /\ \/ /\ IF Overlaps(end) THEN CloseSegment ELSE UNCHANGED <<segments, wave, file>>
          /\ reader' = [pc |-> "rows", start |-> start, end |-> end, cursor |-> start,
                        row |-> 1, got |-> << >>]
       \/ /\ Overlaps(end) /\ CloseFails
          /\ reader' = [reader EXCEPT !.pc = "idle"]
    /\ UNCHANGED <<head, nextSample, ring, capture, source>>

Row == segments[reader.row]
Reading == reader.pc = "rows" /\ reader.row <= Len(segments)
PieceEnd == IF reader.end < EndOf(Row) THEN reader.end ELSE EndOf(Row)

SkipRow ==
    /\ Reading
    /\ EndOf(Row) <= reader.cursor
    /\ reader' = [reader EXCEPT !.row = @ + 1]
    /\ UNCHANGED <<head, nextSample, ring, segments, wave, file, capture, source>>

ReadRow ==
    /\ Reading
    /\ Row.first <= reader.cursor /\ reader.cursor < EndOf(Row)
    /\ reader' = [reader EXCEPT
                     !.pc = IF PieceEnd = reader.end THEN "done" ELSE "rows",
                     !.row = @ + 1,
                     !.cursor = PieceEnd,
                     !.got = @ \o SubSeq(Row.data, reader.cursor - Row.first + 1, PieceEnd - Row.first)]
    /\ UNCHANGED <<head, nextSample, ring, segments, wave, file, capture, source>>

(* The next row starts behind the cursor, or there is none: the call raises. *)
ReadMisses ==
    /\ reader.pc = "rows"
    /\ \/ reader.row > Len(segments)
       \/ reader.row <= Len(segments) /\ Row.first > reader.cursor
    /\ reader' = [reader EXCEPT !.pc = "missing"]
    /\ UNCHANGED <<head, nextSample, ring, segments, wave, file, capture, source>>

(* read returns, and the caller has the audio.                               *)
TakeAudio ==
    /\ reader.pc = "done"
    /\ reader' = NoRead
    /\ UNCHANGED <<head, nextSample, ring, segments, wave, file, capture, source>>

-----------------------------------------------------------------------------

(* CorrectedSession.begin_settling, under the state lock.                    *)
BeginSettling ==
    /\ StateLockFree
    /\ capture = "open"
    /\ AudioLockFree
    /\ capture' = "closed"
    /\ CloseSegment \/ CloseFails
    /\ UNCHANGED <<head, nextSample, ring, source, reader>>

(* CorrectedSession.abort, without the state lock: a block that was let in   *)
(* before may be written after it.                                           *)
Abort ==
    /\ AudioLockFree
    /\ capture # "aborted"
    /\ capture' = "aborted"
    /\ CloseSegment \/ CloseFails
    /\ UNCHANGED <<head, nextSample, ring, source, reader>>

SourceStep ==
    \/ \E first \in 0..MaxHead, n \in 1..MaxBlock : first + n <= MaxHead /\ AcceptPcm(first, n)
    \/ RefuseAppend \/ EnterAppend \/ OpenSegment \/ AppendRaises \/ WriteFrames
    \/ CloseFull \/ AppendEnds \/ KeepBlock

ReaderStep ==
    \/ \E start, end \in 0..MaxHead : ReadRing(start, end) \/ ReadFiles(start, end)
    \/ SkipRow \/ ReadRow \/ ReadMisses \/ TakeAudio

AudioNext == SourceStep \/ ReaderStep \/ BeginSettling \/ Abort

AudioSpec == AudioInit /\ [][AudioNext]_audioVars

-----------------------------------------------------------------------------

Runs == [first : Nat, data : Seq(Nat)]

AudioTypeOK ==
    /\ head \in Nat /\ nextSample \in Nat
    /\ ring \in Runs
    /\ segments \in Seq(Runs)
    /\ wave \in {"none", "open", "shut"}
    /\ file \in Runs
    /\ capture \in {"open", "closed", "aborted"}
    /\ source \in [pc : {"idle", "checked", "writing", "written"}, first : Nat, end : Nat]
    /\ reader \in [pc : {"idle", "rows", "done", "missing"}, start : Nat, end : Nat,
                   cursor : Nat, row : Nat, got : Seq(Nat)]

(* Whatever a lane reads is the audio of the range it asked for, from the   *)
(* ring or from any number of segments: read_pcm (corrected.py:897) never   *)
(* finds a hole in the index, and the order in which segments were cut by   *)
(* full files, by earlier reads, by Stop, by Abort and by failed writes     *)
(* never moves a sample.                                                    *)
AcceptedAudioIsRead ==
    /\ reader.pc # "missing"
    /\ reader.pc = "done" => reader.got = Samples(reader.start, reader.end)

(* Head and files agree except within a call and after a call that failed:  *)
(* no accepted sample is missing from the files, and a log that is ahead of *)
(* the head refuses every later block instead of shifting it                *)
(* (corrected.py:824 and :845).                                             *)
FilesHoldAccepted ==
    LET last == IF wave # "none" THEN EndOf(file)
                ELSE IF segments = << >> THEN 0 ELSE EndOf(segments[Len(segments)])
    IN  /\ head <= last
        /\ last = nextSample
        /\ EndOf(ring) = head

(* Accepted audio is kept, and read back as it was sent.                     *)
AudioIsKept == AcceptedAudioIsRead /\ FilesHoldAccepted

=============================================================================
