----------------------------- MODULE CommitLane -----------------------------
(***************************************************************************)
(* How the preview lane and the commit lane of one capture turn audio into *)
(* events: CorrectedCommitLane (corrected_commit.py), CorrectedPreviewLane *)
(* (corrected_preview.py) with its StreamingReconciler (reconcile.py), and *)
(* the SegmentedEventStore both append to (corrected.py).                  *)
(*                                                                         *)
(* Audio is counted in frames.  The commit lane decodes overlapping        *)
(* trailing windows [head - Buffer, head) and settles, of each, the band   *)
(* of onsets between the end of the last band and Guard frames before the  *)
(* window's end.  The preview lane slides a short window and publishes     *)
(* provisional events.  Each lane computes an update in its own thread and *)
(* applies it later under the state lock: CommitDecode and PreviewWindow   *)
(* are the computations, ApplyCommit and ApplyPreview the applications.    *)
(* What the neural models hear is nondeterministic: any subset of the      *)
(* notes played in the window, each onset a little off.                    *)
(***************************************************************************)
EXTENDS Integers, FiniteSets, SequencesExt

CONSTANTS
    Buffer, BaseHop, MaxHop, Guard, MinContext,   \* commit lane scheduler
    PreviewLength, PreviewHop, IdentityRetention, \* preview lane windows
    MatchFrames,   \* onset distance within which two notes are the same
    Played,        \* notes played: records [pitch, onset, offset, jitter],
                   \*   jitter being how far off its onset may be heard
    Imagined,      \* notes only the preview model may hear
    MaxHead,       \* bound: frames recorded
    MaxEvents      \* bound: event identities

\* What CorrectedCommitLane.__init__ checks (302-316), and that the first
\* window holds all the audio before it, which it does not check (the
\* defaults, 16 s of context and a 28 s buffer, satisfy it).
ASSUME CommitTimingAssumption ==
    /\ {Buffer, BaseHop, MaxHop, Guard, MinContext} \subseteq Nat \ {0}
    /\ Guard < Buffer
    /\ BaseHop <= MaxHop
    /\ MaxHop <= Buffer - Guard
    /\ Guard < MinContext
    /\ MinContext <= Buffer

ASSUME BoundsAssumption ==
    /\ {PreviewLength, PreviewHop, IdentityRetention} \subseteq Nat \ {0}
    /\ {MatchFrames, MaxHead, MaxEvents} \subseteq Nat
    /\ IsFiniteSet(Played) /\ IsFiniteSet(Imagined)
    /\ Played \cup Imagined \subseteq [pitch : Nat, onset : Nat, offset : Nat, jitter : Nat]
    /\ \A n \in Played \cup Imagined : n.onset < n.offset

VARIABLES
    head,           \* horizons.audio_head_sample
    stopped,        \* begin_settling has run: no more audio
    nextDecode,     \* _next_decode_head
    hop,            \* hop_frames
    commitSample,   \* _commit_sample of the lane
    pending,        \* _pending: committed events whose offset is open
    lastDecode,     \* window and band of the last decode
    commitOut,      \* update the commit lane has yet to apply
    commitHorizon,  \* horizons.commit_sample of the session
    commitDone,     \* the commit lane's finalize has been applied
    windowStart,    \* _next_window_start_s
    tracks,         \* reconciler.tracks: identities of the preview lane
    previewOut,     \* rows the preview lane has yet to apply
    previewDone,    \* the preview lane is finalized
    store,          \* materialized_events: the latest revision of each event
    nextId,         \* identities handed out so far, plus one
    overtaken       \* history: a preview row came too close to commitSample

commitVars  == <<nextDecode, hop, commitSample, pending, lastDecode, commitOut,
                 commitDone>>
previewVars == <<windowStart, tracks, previewOut, previewDone>>
eventVars   == <<store, overtaken>>
audioVars   == <<head, stopped>>
vars == <<audioVars, commitVars, commitHorizon, previewVars, eventVars, nextId>>

Open == -1    \* offset_sample None
Never == [rev |-> 0, lane |-> "none", lifecycle |-> "none",
          pitch |-> 0, onset |-> 0, offset |-> Open]
NoUpdate == [rows |-> <<>>, horizon |-> Open, final |-> FALSE]

Smaller(a, b) == IF a < b THEN a ELSE b
Larger(a, b)  == IF a > b THEN a ELSE b
Distance(a, b) == Larger(a - b, b - a)
Ids == 1..MaxEvents

Init ==
    /\ head = 0 /\ stopped = FALSE
    /\ nextDecode = MinContext /\ hop = BaseHop /\ commitSample = 0
    /\ pending = {}
    /\ lastDecode = [start |-> 0, stop |-> 0, from |-> 0, upto |-> 0]
    /\ commitOut = NoUpdate /\ commitHorizon = 0 /\ commitDone = FALSE
    /\ windowStart = 0 /\ tracks = {} /\ previewOut = <<>> /\ previewDone = FALSE
    /\ store = [e \in Ids |-> Never] /\ nextId = 1 /\ overtaken = FALSE

-----------------------------------------------------------------------------
(* The event store.                                                        *)

Row(id, rev, lane, lifecycle, pitch, onset, offset) ==
    [id |-> id, rev |-> rev, lane |-> lane, lifecycle |-> lifecycle,
     pitch |-> pitch, onset |-> onset, offset |-> offset]

\* Mutant: the revision a lane asks for is taken as it is.
RevisionRequested(latest, requested) == requested

\* append numbers a row past the latest revision of its event, whichever lane
\* wrote that one, so that the row becomes the latest revision.
Revision(latest, requested) == Larger(requested, latest + 1)

Materialize(events, row) ==
    LET rev == Revision(events[row.id].rev, row.rev) IN
    IF rev > events[row.id].rev
    THEN [events EXCEPT ![row.id] =
             [rev |-> rev, lane |-> row.lane, lifecycle |-> row.lifecycle,
              pitch |-> row.pitch, onset |-> row.onset, offset |-> row.offset]]
    ELSE events

\* The rows take effect one after the other.
Appended(rows) ==
    LET after[i \in 0..Len(rows)] ==
            IF i = 0 THEN store ELSE Materialize(after[i - 1], rows[i])
    IN  after[Len(rows)]

AppendRows(rows) == store' = Appended(rows)

\* query_materialized: not retracted, and overlapping the range.
InRange(event, from, upto) ==
    /\ event.lifecycle \notin {"none", "retracted"}
    /\ event.onset < upto
    /\ event.offset = Open \/ event.offset >= from

-----------------------------------------------------------------------------
(* Matching: the closest pairs first, each side used once.                 *)

Pairs(lefts, rights) ==
    {p \in lefts \X rights :
        /\ p[1].pitch = p[2].pitch
        /\ Distance(p[1].onset, p[2].onset) <= MatchFrames}

Gap(p) == Distance(p[1].onset, p[2].onset)

\* The outcomes of taking pairs by distance, skipping a side already used: a
\* pair is left out only for one at least as close.  Ties, which the code breaks
\* by list position or by a hash, are broken in every way.
Matchings(lefts, rights) ==
    LET all == Pairs(lefts, rights)
        Clash(p, q) == p # q /\ (p[1] = q[1] \/ p[2] = q[2])
    IN  {taken \in SUBSET all :
            /\ \A p, q \in taken : ~Clash(p, q)
            /\ \A p \in all \ taken :
                  \E q \in taken : Clash(p, q) /\ Gap(q) <= Gap(p)}

Lefts(matches)  == {p[1] : p \in matches}
Rights(matches) == {p[2] : p \in matches}

\* What a model may report of a window: some of the notes whose onset it
\* hears there.  A note still sounding is cut at the end of the window.
Observations(notes, from, upto, padding) ==
    LET Heard(n) == {[pitch |-> n.pitch, onset |-> n.onset + j,
                      offset |-> Smaller(n.offset, upto + padding)] :
                         j \in -n.jitter..n.jitter}
        InWindow(o) == from <= o.onset /\ o.onset < upto /\ o.onset < o.offset
        hearings == UNION {Heard(n) : n \in notes}
    IN  UNION {{Range(f) : f \in {f \in [some -> {o \in hearings : InWindow(o)}] :
                                     \A n \in some : f[n] \in Heard(n)}} :
                  some \in SUBSET notes}

\* Identities for a set of new notes.  They are opaque: nothing depends on
\* which note gets which.
NewIds(notes) ==
    LET order == SetToSeq(notes)
    IN  [n \in notes |-> nextId - 1 + CHOOSE i \in DOMAIN order : order[i] = n]

\* The order of rows about different events makes no difference to the store.
Rows(set) == SetToSeq(set)

-----------------------------------------------------------------------------
(* Audio.                                                                  *)

AcceptPcm ==
    /\ ~stopped /\ head < MaxHead
    /\ head' = head + 1
    /\ UNCHANGED <<stopped, commitVars, commitHorizon, previewVars, eventVars, nextId>>

BeginSettling ==
    /\ ~stopped
    /\ stopped' = TRUE
    /\ UNCHANGED <<head, commitVars, commitHorizon, previewVars, eventVars, nextId>>

-----------------------------------------------------------------------------
(* The commit lane.                                                        *)

SourceStart(decodeHead) == Larger(0, decodeHead - Buffer)

BandEnd(decodeHead, final) ==
    IF final THEN decodeHead ELSE Larger(commitSample, decodeHead - Guard)

\* _update_pending: the open events, with the offsets now observed, that this
\* decode closes, and the ones that stay open.
Extended(matches) ==
    {[m[1] EXCEPT !.last = Larger(@, m[2].offset)] : m \in matches}
    \cup (pending \ Lefts(matches))

Closes(p, matches, start, bandEnd, final) ==
    LET seen == {m[2] : m \in {n \in matches : n[1].id = p.id}} IN
    \/ final
    \/ \E o \in seen : o.offset < bandEnd
    \/ seen = {} /\ p.onset < start

ClosedOffset(p) == Smaller(Larger(p.onset + 1, p.last), head)

ClosingRow(p) ==
    Row(p.id, p.rev + 1, "commit", "committed", p.pitch, p.onset, ClosedOffset(p))

\* _commit_band: the notes whose onset is in the band, against the preview
\* events that overlap it.
Candidates(obs, band) == {o \in obs : band.from <= o.onset /\ o.onset < band.upto}

PreviewEvents(band) ==
    {[id |-> e, rev |-> store[e].rev, pitch |-> store[e].pitch,
      onset |-> store[e].onset, offset |-> store[e].offset] :
        e \in {e \in Ids : store[e].lane = "preview"
                           /\ InRange(store[e], band.from, band.upto)}}

\* Mutant: the last decode leaves tails open too.
StaysOpenAtEnd(note, band, final) == note.offset >= band.upto

StaysOpen(note, band, final) == ~final /\ note.offset >= band.upto

CommittedRow(id, rev, note, band, final) ==
    Row(id, rev, "commit", "committed", note.pitch, note.onset,
        IF StaysOpen(note, band, final) THEN Open ELSE Smaller(note.offset, head))

RetractedRow(event) ==
    Row(event.id, event.rev + 1, "commit", "retracted", event.pitch,
        event.onset, event.offset)

PendingOffset(id, rev, note) ==
    [id |-> id, rev |-> rev, pitch |-> note.pitch, onset |-> note.onset,
     last |-> note.offset]

\* The identities of the notes a band commits: the preview event it matches,
\* or a new one.
Decided(candidates, matches) ==
    LET additions == candidates \ Rights(matches) IN
    {[id |-> m[1].id, rev |-> m[1].rev + 1, note |-> m[2]] : m \in matches}
    \cup {[id |-> NewIds(additions)[n], rev |-> 1, note |-> n] : n \in additions}

Decide(obs, band, start, final) ==
    \E tails \in Matchings(pending, obs),
       matches \in Matchings(PreviewEvents(band), Candidates(obs, band)) :
    LET extended == Extended(tails)
        closing == {p \in extended : Closes(p, tails, start, band.upto, final)}
        retracted == PreviewEvents(band) \ Lefts(matches)
        decided == Decided(Candidates(obs, band), matches)
        opened  == {PendingOffset(d.id, d.rev, d.note) :
                      d \in {d \in decided : StaysOpen(d.note, band, final)}}
    IN  /\ {d.id : d \in decided} \subseteq Ids
        /\ nextId' = nextId + Cardinality(Candidates(obs, band) \ Rights(matches))
        /\ pending' = {p \in extended \ closing : \A o \in opened : o.id # p.id}
                      \cup opened
        /\ commitOut' =
             [rows |-> Rows({ClosingRow(p) : p \in closing})
                       \o Rows({RetractedRow(e) : e \in retracted}
                               \cup {CommittedRow(d.id, d.rev, d.note, band, final) :
                                       d \in decided}),
              horizon |-> band.upto,
              final |-> final]

\* _decode of the window that ends at decodeHead.
Decode(decodeHead, final) ==
    LET start == SourceStart(decodeHead)
        band == [from |-> commitSample, upto |-> BandEnd(decodeHead, final)]
    IN  /\ \E obs \in Observations(Played, start, decodeHead, IF final THEN Guard ELSE 0) :
             Decide(obs, band, start, final)
        /\ commitSample' = band.upto
        /\ lastDecode' = [start |-> start, stop |-> decodeHead,
                          from |-> band.from, upto |-> band.upto]

\* The hop grows when a decode takes longer than the hop.
GrowHop == hop' \in {hop, Smaller(MaxHop, hop + BaseHop)}

\* process_available, one work item.
CommitDecode ==
    /\ commitOut = NoUpdate /\ ~commitDone
    /\ head >= nextDecode
    /\ Decode(nextDecode, FALSE)
    /\ GrowHop
    /\ nextDecode' = nextDecode + hop'
    /\ UNCHANGED <<audioVars, commitDone, commitHorizon, previewVars, eventVars>>

\* Mutant: finalize does not wait for the ordinary decodes that are due.
CommitFinalizeEarly ==
    /\ commitOut = NoUpdate /\ ~commitDone
    /\ stopped
    /\ Decode(head, TRUE)
    /\ UNCHANGED <<audioVars, hop, nextDecode, commitDone, commitHorizon,
                   previewVars, eventVars>>

\* finalize: what is left, once no ordinary decode is due.
CommitFinalize ==
    /\ commitOut = NoUpdate /\ ~commitDone
    /\ stopped /\ head < nextDecode
    /\ Decode(head, TRUE)
    /\ UNCHANGED <<audioVars, hop, nextDecode, commitDone, commitHorizon,
                   previewVars, eventVars>>

\* _apply_lane_update: append, then advance_commit.
ApplyCommit ==
    /\ commitOut # NoUpdate
    /\ AppendRows(commitOut.rows)
    /\ commitHorizon' = commitOut.horizon
    /\ commitDone' = commitOut.final
    /\ commitOut' = NoUpdate
    /\ UNCHANGED <<audioVars, nextDecode, hop, commitSample, pending, lastDecode,
                   previewVars, overtaken, nextId>>

-----------------------------------------------------------------------------
(* The preview lane.                                                       *)

PreviewRow(t) ==
    Row(t.id, t.rev, "preview",
        IF t.lifecycle = "retracted" THEN "retracted" ELSE "provisional",
        t.pitch, t.onset, t.offset)

\* _prune_identities.
Pruned(identities) ==
    {t \in identities : t.onset >= Larger(commitHorizon, head - IdentityRetention)}

\* StreamingReconciler.process: a provisional identity heard again takes the
\* note heard, and is published when that changed it or it settles; one not
\* heard may be retracted; a note no identity matches gets one.  The thresholds
\* on age and on missing time are left open, velocity and confidence left out.
Reconcile(obs) ==
    LET live == {t \in tracks : t.lifecycle # "retracted"}
        Provisional(t) == t.lifecycle = "provisional"
        Created(notes) == {[id |-> NewIds(notes)[n], rev |-> 1,
                            lifecycle |-> "provisional", pitch |-> n.pitch,
                            onset |-> n.onset, offset |-> n.offset] : n \in notes}
        Retaken(m) == [m[1] EXCEPT !.onset = m[2].onset, !.offset = m[2].offset]
        Revised(t, next) == [t EXCEPT !.rev = @ + 1, !.lifecycle = next]
    IN  \E matches \in Matchings(live, obs) :
        \E settled \in SUBSET {m \in matches : Provisional(m[1])},
           dropped \in SUBSET {t \in live \ Lefts(matches) : Provisional(t)} :
        LET moved == {m \in matches \ settled : Provisional(m[1]) /\ Retaken(m) # m[1]}
            created == Created(obs \ Rights(matches))
            emitted == {Revised(Retaken(m), "provisional") : m \in moved}
                       \cup {Revised(Retaken(m), "committed") : m \in settled}
                       \cup {Revised(t, "retracted") : t \in dropped}
                       \cup created
        IN  /\ {t.id : t \in created} \subseteq Ids
            /\ nextId' = nextId + Cardinality(created)
            /\ previewOut' = Rows({PreviewRow(t) : t \in emitted})
            /\ tracks' = Pruned((tracks \ (Lefts(moved \cup settled) \cup dropped))
                                \cup emitted)

PreviewReady == windowStart + PreviewLength <= head

\* process_available, one work item.
PreviewWindow ==
    /\ previewOut = <<>> /\ ~previewDone
    /\ PreviewReady
    /\ \E obs \in Observations(Played \cup Imagined, windowStart,
                               windowStart + PreviewLength, 0) : Reconcile(obs)
    /\ windowStart' = windowStart + PreviewHop
    /\ UNCHANGED <<audioVars, commitVars, commitHorizon, previewDone, eventVars>>

\* _apply_lane_update.
ApplyPreview ==
    /\ previewOut # <<>>
    /\ AppendRows(previewOut)
    /\ previewOut' = <<>>
    /\ overtaken' = (overtaken \/ \E i \in DOMAIN previewOut :
                  previewOut[i].onset < commitSample + 2 * MatchFrames)
    /\ UNCHANGED <<audioVars, commitVars, commitHorizon, windowStart, tracks,
                   previewDone, nextId>>

\* finalize.
PreviewFinalize ==
    /\ previewOut = <<>> /\ ~previewDone
    /\ stopped /\ ~PreviewReady
    /\ tracks' = Pruned(tracks)
    /\ previewDone' = TRUE
    /\ UNCHANGED <<audioVars, commitVars, commitHorizon, windowStart, previewOut,
                   eventVars, nextId>>

Next ==
    \/ AcceptPcm \/ BeginSettling
    \/ CommitDecode \/ CommitFinalize \/ ApplyCommit
    \/ PreviewWindow \/ ApplyPreview \/ PreviewFinalize

Spec == Init /\ [][Next]_vars

-----------------------------------------------------------------------------
(* Properties.                                                             *)

SchedulerTypes ==
    /\ head \in Nat /\ nextDecode \in Nat /\ hop \in Nat
    /\ commitSample \in Nat /\ commitHorizon \in Nat
    /\ stopped \in BOOLEAN /\ commitDone \in BOOLEAN
    /\ lastDecode \in [start : Nat, stop : Nat, from : Nat, upto : Nat]

\* Every variable holds a value of its kind; every event a lane still works on
\* is one the store, or an update on its way there, knows.
TypeOK ==
    /\ SchedulerTypes
    /\ windowStart \in Nat /\ previewDone \in BOOLEAN /\ overtaken \in BOOLEAN
    /\ nextId \in 1..MaxEvents + 1
    /\ \A p \in pending : p.id < nextId /\ p.onset < p.last
    /\ \A t \in tracks : t.id < nextId
    /\ \A e \in Ids : e >= nextId => store[e] = Never

\* No onset escapes a decode: the band a decode settles lies inside the window
\* it decoded, however the scheduler's hop has grown (_decode, 681-760).
BandsWithinContext ==
    /\ lastDecode.start <= lastDecode.from
    /\ lastDecode.from <= lastDecode.upto
    /\ lastDecode.upto <= lastDecode.stop
    /\ lastDecode.stop <= head

\* While audio may still arrive the commit horizon stays Guard frames behind
\* it, and when the lane has finished it covers all of it (_decode, finalize).
HorizonGuarded ==
    /\ commitHorizon <= commitSample
    /\ commitSample > 0 /\ commitSample + Guard > head => commitOut.final \/ commitDone
    /\ commitDone => commitHorizon = head

CommittedOpen(e) == store[e].lifecycle = "committed" /\ store[e].offset = Open

\* A committed event whose offset is open is one the lane still tracks or is
\* about to close, and none is left open when the lane has finished
\* (_update_pending, _commit_band).
OpenTailsTracked ==
    \A e \in Ids : CommittedOpen(e) =>
        /\ ~commitDone
        /\ \/ \E p \in pending : p.id = e
           \/ \E i \in DOMAIN commitOut.rows :
                  commitOut.rows[i].id = e /\ commitOut.rows[i].offset # Open

\* A committed event begins behind the lane's horizon and ends, when closed,
\* after its onset and within the recorded audio.
CommittedWithinAudio ==
    \A e \in Ids : store[e].lifecycle = "committed" =>
        /\ store[e].onset < commitHorizon
        /\ store[e].offset # Open =>
              store[e].onset < store[e].offset /\ store[e].offset <= head

\* Unless the commit lane overtook the preview lane, nothing behind the commit
\* horizon is provisional: every preview event was matched or retracted.
SettledBehindHorizon ==
    ~overtaken => \A e \in Ids :
        store[e].lifecycle = "provisional" => store[e].onset >= commitHorizon

\* The events as the horizons promise them, whatever the models reported and in
\* whichever order the lanes applied it.
EventsFollowHorizon ==
    TypeOK /\ OpenTailsTracked /\ CommittedWithinAudio /\ SettledBehindHorizon

Committed(event) == event.lifecycle = "committed"

Stands(e) ==
    Committed(store[e]) => /\ Committed(store'[e])
                           /\ store'[e].pitch = store[e].pitch
                           /\ store'[e].onset = store[e].onset

CommittedStand == ~overtaken' => \A e \in Ids : Stands(e)

Overridden(i) == \E j \in DOMAIN commitOut.rows :
                     j > i /\ commitOut.rows[j].id = commitOut.rows[i].id

TakesEffect(row) ==
    /\ store'[row.id].lane = "commit"
    /\ store'[row.id].lifecycle = row.lifecycle
    /\ store'[row.id].onset = row.onset
    /\ store'[row.id].offset = row.offset

DecisionsTakeEffect ==
    commitOut # NoUpdate /\ commitOut' = NoUpdate =>
        \A i \in DOMAIN commitOut.rows : Overridden(i) \/ TakesEffect(commitOut.rows[i])

\* Every decision of a band takes effect when it is applied, also for an event
\* the preview lane revised after the band was decided (the store numbers the
\* decision past that revision, SegmentedEventStore.append), and what has been
\* committed stays committed with its pitch and onset, unless the commit lane
\* overtook the preview lane.
DecisionsStand == [][DecisionsTakeEffect /\ CommittedStand]_vars

=============================================================================
