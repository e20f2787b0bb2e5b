----------------------------- MODULE ScoreAlignment -----------------------------
(***************************************************************************)
(* Which note of the recording is which note of the score.  The score      *)
(* network returns notes that have lost their origin; the adapter matches  *)
(* the two sequences by pitch, without crossing, and writes one row for    *)
(* each note of the recording (midi2score_adapter.py).  The server accepts *)
(* the document only if it is consistent (score_alignment.py).             *)
(***************************************************************************)
EXTENDS MidiExport

\* A note of the recording, its pitch and where it begins and ends.
SourceNote == [pitch : Int, onset : Int, offset : Int]

Length(note) == note.offset - note.onset

\* score_input_notes_document: the notes of the recording, as the network gets
\* them in a MIDI file.
InputDocument(notes) ==
  LET order == SortedBy(DOMAIN notes,
        LAMBDA i : <<Tick(notes[i].onset), notes[i].pitch,
                     Tick(notes[i].offset) - Tick(notes[i].onset),
                     notes[i].onset, notes[i].offset, i>>)
  IN  [k \in DOMAIN order |-> notes[order[k]]]

\* Mutant: the notes as they stand in the document.
SourceOrderOfDocument(source) == SortedBy(DOMAIN source, LAMBDA i : <<i>>)

SourceOrder(source) ==
  SortedBy(DOMAIN source,
           LAMBDA i : <<source[i].onset, source[i].pitch, Length(source[i]), i>>)

\* An output of the network is a note of the score and those it is tied to: a
\* pitch and the times of its segments, the attack first.
ScoreOutput ==
  {output \in [pitch : Int, times : Seq(Int)] :
     output.times # << >> /\ \A k \in DOMAIN output.times : output.times[1] <= output.times[k]}

Attack(output) == output.times[1]

ScoreOrder(outputs) ==
  SortedBy(DOMAIN outputs, LAMBDA i : <<Attack(outputs[i]), outputs[i].pitch, i>>)

-----------------------------------------------------------------------------
(* _monotonic_exact_pitch_pairs.                                           *)

Distance(m, n) == IF m > n THEN m - n ELSE n - m

\* How far apart two notes are in their sequences, scaled to whole numbers.
Displacement(i, m, j, n) == Distance((i - 1) * Larger(n - 1, 1), (j - 1) * Larger(m - 1, 1))

Up(cell)   == [cell EXCEPT !.choice = 0]
Left(cell) == [cell EXCEPT !.choice = 1]
Match(cell, displacement) ==
  [count |-> cell.count + 1, displacement |-> cell.displacement + displacement, choice |-> 2]

\* Most pairs, then the smallest displacement, then a match.
Rank(cell) == <<-cell.count, cell.displacement, -cell.choice>>

Best(cells) == CHOOSE c \in cells : \A d \in cells : ~ Precedes(Rank(d), Rank(c))

Edge == [count |-> 0, displacement |-> 0, choice |-> 1]

\* The row of the table for note i, from the row above it.
NextRow(pitches, scored, i, above) ==
  LET row[j \in 0..Len(scored)] ==
        IF j = 0 THEN <<Edge>>
        ELSE LET before == row[j - 1]
                 match  == IF pitches[i] = scored[j]
                           THEN {Match(above[j], Displacement(i, Len(pitches), j, Len(scored)))}
                           ELSE {}
             IN  Append(before, Best({Up(above[j + 1]), Left(before[j])} \cup match))
  IN  row[Len(scored)]

\* Its cell [i + 1][j + 1] is about the first i notes and the first j outputs.
PairTable(pitches, scored) ==
  LET rows[i \in 0..Len(pitches)] ==
        IF i = 0 THEN <<[j \in 1..(Len(scored) + 1) |-> Edge]>>
        ELSE LET above == rows[i - 1]
             IN  Append(above, NextRow(pitches, scored, i, above[i]))
  IN  rows[Len(pitches)]

\* One step back through the choices, from the first i notes and the first j
\* outputs; nothing is left to match when either is 0.
StepBack(table, at) ==
  LET choice == table[at.i + 1][at.j + 1].choice
  IN  IF at.i = 0 \/ at.j = 0 THEN at
      ELSE [i     |-> IF choice \in {0, 2} THEN at.i - 1 ELSE at.i,
            j     |-> IF choice \in {1, 2} THEN at.j - 1 ELSE at.j,
            pairs |-> IF choice = 2 THEN at.pairs \cup {<<at.i, at.j>>} ELSE at.pairs]

Pairs(pitches, scored) ==
  LET table == PairTable(pitches, scored)
      steps == Len(pitches) + Len(scored)
      walk[k \in 0..steps] ==
        IF k = 0 THEN [i |-> Len(pitches), j |-> Len(scored), pairs |-> {}]
        ELSE StepBack(table, walk[k - 1])
  IN  walk[steps].pairs

-----------------------------------------------------------------------------
(* The rows of the document (_alignment_rows).                             *)

NoTime == -1

\* The outputs that stand for a note of the document; there is at most one.
OutputOf(source, outputs) ==
  LET notes  == SourceOrder(source)
      scored == ScoreOrder(outputs)
      pairs  == Pairs([k \in DOMAIN notes |-> source[notes[k]].pitch],
                      [k \in DOMAIN scored |-> outputs[scored[k]].pitch])
  IN  [i \in DOMAIN source |-> {scored[p[2]] : p \in {q \in pairs : notes[q[1]] = i}}]

Row(note, chosen, outputs) ==
  LET o == CHOOSE o \in chosen : TRUE
  IN  IF chosen = {}
      THEN [note |-> note, status |-> "unmatched", time |-> NoTime, output |-> 0, segments |-> << >>]
      ELSE [note |-> note, status |-> "mapped", time |-> Attack(outputs[o]), output |-> o,
            segments |-> [k \in DOMAIN outputs[o].times |->
                            [pitch |-> outputs[o].pitch, time |-> outputs[o].times[k]]]]

Rows(source, outputs) ==
  LET output == OutputOf(source, outputs)
  IN  [i \in DOMAIN source |-> Row(source[i], output[i], outputs)]

Inserted(outputs, rows) == DOMAIN outputs \ {rows[i].output : i \in DOMAIN rows}

\* validate_score_alignment raises no error.
Valid(source, outputs, rows) ==
  LET mapped == {i \in DOMAIN rows : rows[i].status = "mapped"}
      sorted == SortedBy(mapped, LAMBDA i :
                  <<rows[i].note.onset, rows[i].note.pitch, Length(rows[i].note), i>>)
  IN  /\ DOMAIN rows = DOMAIN source
      /\ \A i \in DOMAIN rows : rows[i].note = source[i]
      /\ \A i \in DOMAIN rows \ mapped : rows[i].segments = << >> /\ rows[i].time = NoTime
      /\ \A i \in mapped :
           /\ rows[i].segments # << >>
           /\ \A k \in DOMAIN rows[i].segments :
                rows[i].segments[k].pitch = rows[i].note.pitch
                /\ rows[i].segments[k].time >= rows[i].time
           /\ \E k \in DOMAIN rows[i].segments : rows[i].segments[k].time = rows[i].time
      /\ \A k \in 1..(Len(sorted) - 1) : rows[sorted[k]].time <= rows[sorted[k + 1]].time
      /\ \A o \in DOMAIN outputs :
           Cardinality({i \in DOMAIN rows : rows[i].output = o}) +
             (IF o \in Inserted(outputs, rows) THEN 1 ELSE 0) = 1

-----------------------------------------------------------------------------
(* What a matching should be, without an algorithm.                        *)

Crossing(p, q) == (p[1] <= q[1] /\ p[2] >= q[2]) \/ (p[1] >= q[1] /\ p[2] <= q[2])

Matchings(pitches, scored) ==
  {M \in SUBSET {p \in (DOMAIN pitches) \X (DOMAIN scored) : pitches[p[1]] = scored[p[2]]} :
     \A p, q \in M : p # q => ~ Crossing(p, q)}

\* How far apart the notes of a matching are, over the notes of the recording.
Total(M, m, n) ==
  LET of(i) == CHOOSE j \in 1..n : <<i, j>> \in M
      upto[i \in 0..m] ==
        IF i = 0 THEN 0
        ELSE upto[i - 1] + (IF \E j \in 1..n : <<i, j>> \in M
                            THEN Displacement(i, m, of(i), n) ELSE 0)
  IN  upto[m]

MatchWorth(M, m, n) == <<-Cardinality(M), Total(M, m, n)>>

\* No matching has more pairs, or as many with a smaller displacement.
Optimal(M, pitches, scored) ==
  LET m == Len(pitches)
      n == Len(scored)
  IN  /\ M \in Matchings(pitches, scored)
      /\ \A N \in Matchings(pitches, scored) : ~ Precedes(MatchWorth(N, m, n), MatchWorth(M, m, n))

================================================================================
