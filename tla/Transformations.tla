----------------------------- MODULE Transformations -----------------------------
(***************************************************************************)
(* What recordings are made into: a MIDI file, an alignment with a score,  *)
(* its clefs and its keys, a notation, the notes of a replay, and bytes    *)
(* that are sent; and who gets them.  A behaviour builds one input, element by element, or one    *)
(* request; the properties compare what the code makes of it with what a   *)
(* reader expects.                                                         *)
(***************************************************************************)
EXTENDS ScoreAlignment, ScoreEngraving, Notation, Delivery, Requests, SessionArtifacts,
        WindowReplay

CONSTANTS Events, MaxEvents,        \* of a recording that is exported
          Notes, MaxNotes,          \* that a score is made of
          ScoreNotes, MaxOutputs,      \* of the score network
          Measures, MaxMeasures,    \* of a part
          Sounds, MaxSounds,        \* of a performance that is notated
          Performed, MaxPerformed,  \* notes of an input that is replayed
          MaxInput,                 \* samples of one
          MaxFrames, MaxPayload,    \* of a connection
          MaxSize                   \* of a file

\* What optimize_clef_sequence and _alignment_rows are given.
ASSUME MeasuresAssumption == Measures \subseteq Measure
ASSUME AlignmentAssumption == Notes \subseteq SourceNote /\ ScoreNotes \subseteq ScoreOutput

VARIABLES subject,    \* which input is built
          events, source, outputs, measures, played, frames,
          choice      \* where there is no sequence: a pitch, a range; what a replay hears

inputVars == <<subject, events, source, outputs, measures, played, frames, choice>>

Subjects == {"midi", "alignment", "clefs", "key", "notation", "stream", "file", "request",
             "directory", "score", "replay"}

NotChosen == << >>

InputInit ==
  /\ subject \in Subjects
  /\ events = << >> /\ source = << >> /\ outputs = << >>
  /\ measures = << >> /\ played = << >> /\ frames = << >>
  /\ choice = NotChosen

\* The latest committed events of an export come by their onsets
\* (corrected_export.py, iter_latest_committed_index).
AddEvent ==
  /\ subject = "midi" /\ Len(events) < MaxEvents
  /\ \E event \in Events :
       /\ \A i \in DOMAIN events : events[i].onset <= event.onset
       /\ events' = Append(events, event)
  /\ UNCHANGED <<subject, source, outputs, measures, played, frames, choice>>

\* The notes of a recording come in the same order.
AddNote ==
  /\ subject = "alignment" /\ Len(source) < MaxNotes
  /\ \E note \in Notes :
       /\ \A i \in DOMAIN source : source[i].onset <= note.onset
       /\ source' = Append(source, note)
  /\ UNCHANGED <<subject, events, outputs, measures, played, frames, choice>>

AddOutput ==
  /\ subject = "alignment" /\ Len(outputs) < MaxOutputs
  /\ \E output \in ScoreNotes : outputs' = Append(outputs, output)
  /\ UNCHANGED <<subject, events, source, measures, played, frames, choice>>

\* The score network writes one clef at the beginning of a part. No tie reaches
\* into the first measure, or into one without notes.
AddMeasure ==
  /\ subject = "clefs" /\ Len(measures) < MaxMeasures
  /\ \E measure \in Measures :
       /\ measure.tied => measure.positions # << >> /\ measures # << >>
       /\ \A n \in DOMAIN measures : measures[n].clef = measure.clef
       /\ measures' = Append(measures, measure)
  /\ UNCHANGED <<subject, events, source, outputs, played, frames, choice>>

ChoosePitch ==
  /\ subject = "key" /\ choice = NotChosen
  /\ \E step \in 0..6, alteration \in -2..2, octave \in 3..4, key \in Signatures :
       choice' = <<[step |-> step, alteration |-> alteration, octave |-> octave], key>>
  /\ UNCHANGED <<subject, events, source, outputs, measures, played, frames>>

\* The notes of a prediction are read in their order (notation.py,
\* _notes_from_document).
Play ==
  /\ subject = "notation" /\ Len(played) < MaxSounds
  /\ \E sound \in Sounds :
       /\ \A i \in DOMAIN played : ~ Precedes(<<sound.onset, sound.offset, sound.pitch>>,
            <<played[i].onset, played[i].offset, played[i].pitch>>)
       /\ played' = Append(played, sound)
  /\ UNCHANGED <<subject, events, source, outputs, measures, frames, choice>>

Send ==
  /\ subject = "stream" /\ Len(frames) < MaxFrames
  /\ \E length \in 0..MaxPayload, even \in 0..1 :
       frames' = Append(frames, [opcode |-> 2, mask |-> <<0, 1, 1, 0>>,
                                 payload |-> [k \in 1..length |-> (k * k + even) % 2]])
  /\ UNCHANGED <<subject, events, source, outputs, measures, played, choice>>

AskRange ==
  /\ subject = "file" /\ choice = NotChosen
  /\ \E size \in 1..MaxSize, first, last \in Unnamed..(MaxSize + 1) : choice' = <<size, first, last>>
  /\ UNCHANGED <<subject, events, source, outputs, measures, played, frames>>

Ask ==
  /\ subject = "request" /\ choice = NotChosen
  /\ \E route \in Routes : \E content \in Contents(route) : \E r \in Senders(content) : choice' = <<r>>
  /\ UNCHANGED <<subject, events, source, outputs, measures, played, frames>>

\* The next note of an input that is replayed, and what each window hears of it.
Hear ==
  /\ subject = "replay" /\ Len(choice) < MaxPerformed
  /\ \E sound \in Performed : \E note \in Hearings(sound[1], sound[2]) :
       /\ \A n \in DOMAIN choice : choice[n].pitch = note.pitch => Apart(choice[n], note)
       /\ choice' = Append(choice, note)
  /\ UNCHANGED <<subject, events, source, outputs, measures, played, frames>>

OpenDirectory ==
  /\ subject = "directory" /\ choice = NotChosen
  /\ \E d \in Directories : choice' = <<d>>
  /\ UNCHANGED <<subject, events, source, outputs, measures, played, frames>>

OpenScore ==
  /\ subject = "score" /\ choice = NotChosen
  /\ \E p \in Pointers : choice' = <<p>>
  /\ UNCHANGED <<subject, events, source, outputs, measures, played, frames>>

InputNext ==
  \/ AddEvent \/ AddNote \/ AddOutput \/ AddMeasure \/ ChoosePitch \/ Play \/ Send
  \/ AskRange \/ Ask \/ Hear \/ OpenDirectory \/ OpenScore

InputSpec == InputInit /\ [][InputNext]_inputVars

-----------------------------------------------------------------------------
(* Properties.                                                             *)

\* A player of the MIDI file hears each note and each pedal of the recording
\* when it was played, and nothing else, although notes of a pitch overlap and
\* end where others begin; the export is refused only where a pitch sounds more
\* often at once than there are channels (corrected_export.py, _write_midi).
NotesArePlayed ==
  Playable(events) =>
    LET allotment == Allotment(events)
    IN  /\ allotment.refused <=> Crowded(events)
        /\ ~ allotment.refused =>
             Heard(File(events, allotment.channel)) = Expected(events, allotment.channel)

\* The alignment pairs as many notes with the score as can be without crossing,
\* as near to each other as can be, and the server never refuses its own
\* adapter's document (midi2score_adapter.py, score_alignment.py).
AlignmentHolds ==
  LET document == InputDocument(source)
      notes    == SourceOrder(document)
      scored   == ScoreOrder(outputs)
      rows     == Rows(document, outputs)
      place(o) == CHOOSE k \in DOMAIN scored : scored[k] = o
  IN  /\ Valid(document, outputs, rows)
      /\ Optimal({<<k, place(rows[notes[k]].output)>> :
                    k \in {l \in DOMAIN notes : rows[notes[l]].status = "mapped"}},
                 [k \in DOMAIN notes |-> document[notes[k]].pitch],
                 [k \in DOMAIN scored |-> outputs[scored[k]].pitch])

\* No other choice of clefs costs less, or as much with fewer changes, and no
\* clef changes under a tie or before a measure without notes; the ledger lines
\* never cost more than before, where the code would raise RuntimeError, and each
\* measure is in one span of the report (score_postprocess.py,
\* optimize_clef_sequence and apply_automatic_clefs).
ClefsAreBest ==
  measures # << >> =>
    LET clefs == Optimize(measures)
    IN  /\ Allowed(measures, clefs)
        /\ \A other \in [DOMAIN measures -> Clefs] :
             Allowed(measures, other)
               => ~ Precedes(ClefWorth(measures, other), ClefWorth(measures, clefs))
        /\ LedgerCost(measures, clefs) <= LedgerCost(measures, Written(measures))
        /\ \A n \in DOMAIN measures :
             Cardinality({s \in Spans(clefs) : s[1] <= n /\ n <= s[2]}) = 1

\* A pitch respelled in the enharmonic key sounds the same, has the same
\* accidental beside it, and comes back when the key does; a natural pitch of
\* the key is never refused (score_postprocess.py, respell_pitch).
RespellingKeepsMusic ==
  subject = "key" /\ choice # NotChosen =>
    \A target \in EnharmonicFifths(choice[2]) :
      LET pitch == choice[1]
          key   == choice[2]
          other == Respelled(pitch, key, target)
      IN  /\ Midi(other.step, other.alteration, other.octave)
               = Midi(pitch.step, pitch.alteration, pitch.octave)
          /\ other.alteration - Signed(target, other.step)
               = pitch.alteration - Signed(key, pitch.step)
          /\ Respelled(other, target, key) = pitch
          /\ pitch.alteration = Signed(key, pitch.step) => ~ Unsupported(other)

\* What a score is engraved with changes how it reads and not what it says.
EngravingKeepsMusic == ClefsAreBest /\ RespellingKeepsMusic

\* The notation keeps the order of the performance, writes each arpeggio as a
\* chord of its own, and moves no other note by more than half a step
\* (notation.py, _arpeggio_groups and _musicxml_bytes).
NotationKeepsOrder ==
  LET groups == Groups(played)
  IN  \A firstBeat \in {sound.onset : sound \in Sounds} :
        LET entries == Entries(played, groups, firstBeat)
        IN  /\ InOrder(played, entries)
            /\ Chordal(groups, entries)
            /\ Close(played, groups, entries, firstBeat)

\* A replay writes each note once, whichever windows hear it and in whatever
\* blocks its input is delivered (replay.py, run_replay; reconcile.py, Reconciler).
ReplayKeepsNotes ==
  subject = "replay" => /\ NotesAppearOnce(choice)
                        /\ choice = NotChosen => WindowsTile(MaxInput)

\* What is made of a recording holds its notes: the MIDI file to a player, the
\* notation to a reader, the replay of its audio to whoever compares the two.
NotesAreKept == NotesArePlayed /\ NotationKeepsOrder /\ ReplayKeepsNotes

\* Of a stream that is cut anywhere the frames that came whole arrive as they
\* were sent, up to one that is too long, and the rest of it is an error unless
\* there is none; a range of a file is answered with the bytes it names; what a
\* recording has is listed once, and fetched as it is listed; and a score is
\* called current when it is (websocket.py, read_frame; corrected_workbench.py,
\* _send_file; local_sessions.py, list_artifacts, get_artifact_with_path and
\* _score_snapshot_provenance).
DeliveryIsExact ==
  /\ LET start[n \in 0..Len(frames)] ==
           IF n = 0 THEN << >> ELSE start[n - 1] \o Encoded(frames[n])
         whole(cut) == {n \in DOMAIN frames :
           /\ Len(start[n]) <= cut
           /\ \A m \in 1..n : Len(frames[m].payload) <= Limit}
     IN  \A cut \in 0..Len(start[Len(frames)]) :
           LET received == Received(SubSeq(start[Len(frames)], 1, cut))
               n == Cardinality(whole(cut))
           IN  /\ received.frames = [k \in 1..n |-> <<frames[k].opcode, frames[k].payload>>]
               /\ received.outcome = IF cut = Len(start[n]) THEN "end" ELSE "error"
  /\ subject = "file" /\ choice # NotChosen =>
       LET response == SendFile(choice[1], choice[2], choice[3])
           named    == Named(choice[1], choice[2], choice[3])
       IN  IF response.status = 416 THEN named = {}
           ELSE /\ Body(choice[1], response) = named
                /\ Cardinality(named) = response.length
  /\ subject = "directory" /\ choice # NotChosen => ListingIsExact(choice[1])
  /\ subject = "score" /\ choice # NotChosen => FreshnessIsTrue(choice[1])

\* The two servers answer the same page: nothing is changed for somebody who may
\* not, nothing is refused to somebody who may, no recording is shown to a
\* stranger and no score where scores are not published, and neither the browser
\* nor a proxy stands in the way of the page's own requests
\* (corrected_workbench.py, do_GET to do_OPTIONS; family_server.py,
\* create_family_application).
ServersAgree == subject = "request" /\ choice # NotChosen => AnswersAgree(choice[1])

================================================================================
