------------------------------ MODULE EventStore ------------------------------
(***************************************************************************)
(* The event store of one corrected session (SegmentedEventStore,          *)
(* corrected.py): lanes append revisions of events; every revision goes    *)
(* first into JSONL evidence, one file per stretch of audio, and then, in  *)
(* one transaction, into the SQLite index: all revisions (events) and the  *)
(* latest one of each event (materialized_events).  Pages of the history   *)
(* are read after a sequence cursor, over a connection of their own.       *)
(*                                                                         *)
(* The whole append is under the store's lock and a reader sees committed  *)
(* rows only, so that an append is one step, with one outcome for each     *)
(* write that can fail.                                                    *)
(***************************************************************************)
EXTENDS Integers, Sequences, FiniteSets, SequencesExt

CONSTANTS Events,       \* the events: [id, revision, lifecycle, onset], revision as the lane counts it
          EventSegment, \* segment_frames of the evidence
          MaxRows,      \* bound: the sequence numbers used
          PageLimit,    \* the limit of one page of the history
          StoreFaults   \* "evidence": a JSONL write fails; "index": the transaction fails

ASSUME EventsAssumption ==
    /\ Events \subseteq [id : {e.id : e \in Events}, revision : Nat \ {0},
                         lifecycle : {"provisional", "committed", "retracted"}, onset : Nat]
    /\ EventSegment \in Nat \ {0} /\ PageLimit \in Nat \ {0} /\ MaxRows \in Nat

VARIABLES
    evidence,      \* the rows of all JSONL files
    rows,          \* the table events
    materialized,  \* the table materialized_events
    nextSequence,  \* next_sequence, in memory
    page           \* a reader of the history: its cursor and what it was given

eventVars == <<evidence, rows, materialized, nextSequence, page>>

EventInit ==
    /\ evidence = {} /\ rows = {} /\ materialized = {}
    /\ nextSequence = 1
    /\ page = [cursor |-> 0, seen |-> << >>]

-----------------------------------------------------------------------------

Ids == {e.id : e \in Events}
Latest(id) == LET known == {r.revision : r \in {r \in rows : r.id = id}}
              IN  IF known = {} THEN 0 ELSE CHOOSE n \in known : \A k \in known : k <= n

\* Mutant: the batch is numbered against the table alone.
RevisionsOfTable(batch) ==
    [i \in 1..Len(batch) |->
        IF batch[i].revision > Latest(batch[i].id) THEN batch[i].revision
        ELSE Latest(batch[i].id) + 1]

Earlier(batch, i) == {j \in 1..(i - 1) : batch[j].id = batch[i].id}

(* A lane's revision is kept when it advances the event; otherwise the event *)
(* gets the one after its latest, which counts the earlier ones of the batch.*)
Revision(batch, revisions, i) ==
    LET same == Earlier(batch, i)
        latest == IF same = {} THEN Latest(batch[i].id)
                  ELSE revisions[CHOOSE j \in same : \A k \in same : k <= j]
    IN  IF batch[i].revision > latest THEN batch[i].revision ELSE latest + 1

Revisions(batch) == LET R[i \in 1..Len(batch)] == Revision(batch, R, i) IN R

Assigned(batch) ==
    LET revisions == Revisions(batch) IN
    [i \in 1..Len(batch) |->
        [id |-> batch[i].id, revision |-> revisions[i], lifecycle |-> batch[i].lifecycle,
         onset |-> batch[i].onset, sequence |-> nextSequence + i - 1]]

SegmentOf(event) == event.onset \div EventSegment

(* The files of a batch are written one after the other, in the order its    *)
(* events first name them, and each of them in the order of its events.      *)
WrittenBefore(batch, i, k) ==
    LET file(n) == {j \in 1..Len(batch) : SegmentOf(batch[j]) = SegmentOf(batch[n])}
    IN  IF i \in file(k) THEN i < k ELSE \E f \in file(i) : \A g \in file(k) : f < g

(* INSERT ... ON CONFLICT DO UPDATE ... WHERE the revision is higher.        *)
Upsert(assigned) ==
    LET latest(id) == {r \in materialized \cup ToSet(assigned) : r.id = id}
    IN  UNION {{r \in latest(id) : \A o \in latest(id) : o.revision <= r.revision} : id \in Ids}

(* SegmentedEventStore.append succeeds: every event has its row in the       *)
(* evidence, in the history and, when it is the latest, materialized.        *)
AppendEvents(batch) ==
    LET assigned == Assigned(batch) IN
    /\ evidence' = evidence \cup ToSet(assigned)
    /\ rows' = rows \cup ToSet(assigned)
    /\ materialized' = Upsert(assigned)
    /\ nextSequence' = nextSequence + Len(batch)
    /\ UNCHANGED page

(* A JSONL file cannot be written, or not to its end: what was written       *)
(* before stays, and the sequence numbers are used up.                       *)
AppendLosesEvidence(batch) ==
    /\ "evidence" \in StoreFaults
    /\ \E k \in 1..Len(batch) :
          evidence' = evidence \cup {Assigned(batch)[i] : i \in {j \in 1..Len(batch) : WrittenBefore(batch, j, k)}}
    /\ nextSequence' = nextSequence + Len(batch)
    /\ UNCHANGED <<rows, materialized, page>>

(* The transaction is rolled back and the numbers given back; the evidence   *)
(* stays, and the next batch uses the same numbers.                          *)
AppendLosesIndex(batch) ==
    /\ "index" \in StoreFaults
    /\ evidence' = evidence \cup ToSet(Assigned(batch))
    /\ UNCHANGED <<rows, materialized, nextSequence, page>>

-----------------------------------------------------------------------------
(* Readers of the index (corrected_export.py).                              *)

InSequence(list) == \A i, j \in 1..Len(list) : i < j => list[i].sequence < list[j].sequence

\* The first rows after the cursor, as many as one answer holds.
NextRows ==
    LET upto(r) == {o \in rows : page.cursor < o.sequence /\ o.sequence <= r.sequence}
    IN  {r \in rows : page.cursor < r.sequence /\ Cardinality(upto(r)) <= PageLimit}

\* Mutant: the cursor moves past the whole history, whatever the page held.
ReadHistoryPast ==
    \E next \in SetToSeqs(NextRows) :
        /\ next # << >> /\ InSequence(next)
        /\ page' = [cursor |-> nextSequence - 1, seen |-> page.seen \o next]
        /\ UNCHANGED <<evidence, rows, materialized, nextSequence>>

(* query_history_index, and the cursor of the answer (_get_events).          *)
ReadHistory ==
    \E next \in SetToSeqs(NextRows) :
        /\ next # << >> /\ InSequence(next)
        /\ page' = [cursor |-> Last(next).sequence, seen |-> page.seen \o next]
        /\ UNCHANGED <<evidence, rows, materialized, nextSequence>>

(* iter_latest_committed: what an export holds, selected from the history.   *)
LatestCommitted ==
    {r \in rows : r.lifecycle = "committed" /\ r.revision = Latest(r.id)}

-----------------------------------------------------------------------------

Records == [id : Ids, revision : Nat, lifecycle : {"provisional", "committed", "retracted"},
            onset : Nat, sequence : Nat]

EventTypeOK ==
    /\ evidence \subseteq Records
    /\ rows \subseteq Records /\ materialized \subseteq rows
    /\ nextSequence \in Nat \ {0}
    /\ page.cursor \in Nat /\ ToSet(page.seen) \subseteq rows

(* The history and the materialized table tell the same story: the view a   *)
(* browser polls and the MIDI export, which is selected from the history,   *)
(* agree on every event, after batches that name an event twice, lanes that *)
(* ask for a revision that is taken, and failed writes (corrected.py:406    *)
(* and :444).                                                               *)
ViewAndExportAgree ==
    /\ LatestCommitted = {r \in materialized : r.lifecycle = "committed"}
    /\ \A r, s \in materialized : r.id = s.id => r = s
    /\ {r.id : r \in rows} = {r.id : r \in materialized}

(* Revisions of an event advance in the order of the sequence, and no two   *)
(* rows of the history share a number: the table's constraints are never    *)
(* what stops an append (corrected.py:303-311).                             *)
RevisionsAdvance ==
    \A r, s \in rows : r # s =>
        /\ r.sequence # s.sequence
        /\ (r.id = s.id /\ r.sequence < s.sequence) => r.revision < s.revision

(* A row of the index is in the evidence, whatever failed: the index never  *)
(* knows more than the append-only files (corrected.py:423 before :425).    *)
EvidenceHoldsIndex == rows \subseteq evidence

(* A reader that follows the cursor has seen every row up to it, once and   *)
(* in order: sequence numbers given back after a failed transaction are     *)
(* never committed behind a cursor (corrected.py:477).                      *)
HistoryHasNoGaps ==
    /\ ToSet(page.seen) = {r \in rows : r.sequence <= page.cursor}
    /\ InSequence(page.seen)

(* The files, the table of revisions, the current view, the export and what  *)
(* a reader has followed tell the same of every event.                       *)
EventsAgree ==
    EventTypeOK /\ ViewAndExportAgree /\ RevisionsAdvance /\ EvidenceHoldsIndex /\ HistoryHasNoGaps

=============================================================================
