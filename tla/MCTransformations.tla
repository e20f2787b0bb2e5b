--------------------------- MODULE MCTransformations ---------------------------
\* Bounds for Transformations.
EXTENDS Transformations

\* Two pitches and a pedal; sounding when the next one begins, or not.
MCEvents ==
  {[kind |-> kind, number |-> number, onset |-> onset, offset |-> offset] :
     kind \in {"note"}, number \in {60, 61}, onset \in 0..2, offset \in 1..4}
    \cup {[kind |-> "pedal", number |-> 64, onset |-> onset, offset |-> offset] :
            onset \in 0..2, offset \in 1..3}

\* Two of them in one tick of the network's MIDI file.
MCNotes ==
  {[pitch |-> pitch, onset |-> onset, offset |-> onset + 2] : pitch \in {60, 61}, onset \in 0..2}

MCOutputs ==
  {[pitch |-> pitch, times |-> times] : pitch \in {60, 61}, times \in {<<0>>, <<0, 1>>, <<1>>}}

\* Noteheads that need no ledger line in one clef and one, three or four in the other.
MCMeasures ==
  {[positions |-> positions, clef |-> clef, tied |-> tied] :
     positions \in {<< >>, <<34>>, <<22>>, <<24, 28>>}, clef \in Clefs, tied \in BOOLEAN}

\* Long ones that may be spread into arpeggios of three or four, and short ones.
MCSounds ==
  {[pitch |-> pitch, onset |-> onset, offset |-> onset + 5] :
     pitch \in 60..63, onset \in {0, 1, 3, 4}}
    \cup {[pitch |-> 60, onset |-> onset, offset |-> onset + 1] : onset \in {0, 1, 3, 4}}

\* One pitch everywhere, another at the borders of two windows' parts.
MCPerformed == ({60} \X (0..12)) \cup ({61} \X {5, 11})
=============================================================================
