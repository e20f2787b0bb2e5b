-------------------------------- MODULE Notation --------------------------------
(***************************************************************************)
(* The notation of a performance (notation.py): notes are put on a grid,   *)
(* and three or more that are spread upwards or downwards within a short   *)
(* window while they all sound are one arpeggio, written as a chord.       *)
(* Times count in one unit, the divisor of the grid and of the windows.    *)
(***************************************************************************)
EXTENDS Ordering, Sequences

CONSTANTS Grid,      \* QUANTIZATION_DIVISIONS at the tempo
          Window,    \* 0.18 s from the first onset of a group to the last
          Spread,    \* 0.035 s, below which a group is a chord
          Together   \* 0.12 s that all notes of a group sound together

ASSUME NotationAssumption ==
  /\ Grid \in Nat \ {0} /\ Spread \in Nat \ {0} /\ Together \in Nat
  /\ Window \in Nat /\ Spread <= Window

\* Onsets and durations on the grid; what comes before the first beat is at it.
Quantized(onset, firstBeat) == Larger(0, Nearest(onset - firstBeat, Grid))

Duration(note) == Larger(1, Nearest(note.offset - note.onset, Grid))

-----------------------------------------------------------------------------
(* _arpeggio_groups.                                                       *)

ByOnset(notes) ==
  SortedBy(DOMAIN notes, LAMBDA i : <<notes[i].onset, notes[i].pitch, i>>)

\* How far the window of the note at a place of the order reaches.
Reach(notes, order, start) ==
  LET within == {k \in start..Len(order) :
                   notes[order[k]].onset - notes[order[start]].onset <= Window}
  IN  CHOOSE k \in within : \A l \in within : l <= k

\* Mutant: the search goes on with the next note, not with the next window.
StartsOfEach(notes, order) == DOMAIN order

\* Where a window begins: the windows follow each other.
Starts(notes, order) ==
  LET begins[k \in DOMAIN order] ==
        k = 1 \/ \E s \in 1..(k - 1) : begins[s] /\ Reach(notes, order, s) = k - 1
  IN  {k \in DOMAIN order : begins[k]}

IsArpeggio(notes, order, start) ==
  LET end     == Reach(notes, order, start)
      note(k) == notes[order[k]]
      spread  == note(end).onset - note(start).onset
  IN  /\ end - start >= 2
      /\ Spread <= spread /\ spread <= Window
      /\ \/ \A k \in start..(end - 1) : note(k).pitch < note(k + 1).pitch
         \/ \A k \in start..(end - 1) : note(k).pitch > note(k + 1).pitch
      /\ \A k \in start..end : note(k).offset - note(end).onset >= Together

\* The groups of a performance: the notes of each, and its first onset.
Groups(notes) ==
  LET order == ByOnset(notes)
  IN  {[members |-> {order[k] : k \in start..Reach(notes, order, start)},
        onset   |-> notes[order[start]].onset] :
         start \in {s \in Starts(notes, order) : IsArpeggio(notes, order, s)}}

-----------------------------------------------------------------------------
(* _musicxml_bytes, up to the library that writes the file.                *)

\* A note of an arpeggio begins with it; the last group a note is in counts.
Begins(notes, groups, i) ==
  LET onsets == {g.onset : g \in {h \in groups : i \in h.members}}
  IN  IF onsets = {} THEN notes[i].onset
      ELSE CHOOSE o \in onsets : \A p \in onsets : p <= o

Entries(notes, groups, firstBeat) ==
  [i \in DOMAIN notes |->
     [onset    |-> Quantized(Begins(notes, groups, i), firstBeat),
      duration |-> Duration(notes[i]), pitch |-> notes[i].pitch]]

-----------------------------------------------------------------------------
(* What a reader of the notation relies on.                                *)

\* No note is written before one that was played earlier.
InOrder(notes, entries) ==
  \A i, j \in DOMAIN notes :
    notes[i].onset <= notes[j].onset => entries[i].onset <= entries[j].onset

\* The notes of an arpeggio are one chord, and a note belongs to one arpeggio.
Chordal(groups, entries) ==
  \A g, h \in groups :
    /\ g # h => g.members \cap h.members = {}
    /\ \A i, j \in g.members : entries[i].onset = entries[j].onset

\* A note is written within half a step of where it was played, or of where its
\* arpeggio began, unless that was before the first beat.
Close(notes, groups, entries, firstBeat) ==
  \A i \in DOMAIN notes :
    LET late == notes[i].onset - firstBeat - entries[i].onset * Grid
        grouped == \E g \in groups : i \in g.members
    IN  \/ -Grid <= 2 * late /\ 2 * late <= Grid + (IF grouped THEN 2 * Window ELSE 0)
        \/ Begins(notes, groups, i) < firstBeat /\ entries[i].onset = 0

================================================================================
