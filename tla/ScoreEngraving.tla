----------------------------- MODULE ScoreEngraving -----------------------------
(***************************************************************************)
(* How a score is engraved (score_postprocess.py): the clef of each        *)
(* measure of a part, chosen to need few ledger lines and few changes, and *)
(* the spelling of its pitches in the enharmonic key.                      *)
(***************************************************************************)
EXTENDS Ordering, Sequences

-----------------------------------------------------------------------------
(* Clefs.  A measure is the staff positions of its noteheads, the clef it  *)
(* had, and whether a tie reaches into it.                                 *)

Clefs == {"treble", "bass"}

Measure == [positions : Seq(Int), clef : Clefs, tied : BOOLEAN]

\* The lowest and the highest line: E4 to F5, G2 to A3.
StaffLimits == [clef \in Clefs |-> IF clef = "treble" THEN <<30, 38>> ELSE <<18, 26>>]

LedgerLines(position, clef) ==
  LET bottom == StaffLimits[clef][1]
      top    == StaffLimits[clef][2]
  IN  IF position < bottom THEN (bottom - position) \div 2
      ELSE IF position > top THEN (position - top) \div 2 ELSE 0

\* The constants of DEFAULT_CLEF_POLICY.
ChangePenalty == 12
PreservationPenalty == 1
SevereThreshold == 3
SevereMultiplier == 4

LedgerPenalty(lines) ==
  LET severe == Larger(0, lines - SevereThreshold + 1)
  IN  lines + SevereMultiplier * severe * severe

\* The noteheads of a measure, added up.
WeightedCost(positions, clef) ==
  LET upto[n \in 0..Len(positions)] ==
        IF n = 0 THEN 0 ELSE upto[n - 1] + LedgerPenalty(LedgerLines(positions[n], clef))
  IN  upto[Len(positions)]

\* Mutant: a measure without notes may begin with another clef.
BlockedByTies(measures, n) == n > 1 /\ measures[n].tied

\* No change where a tie goes on, or before a measure without notes.
Blocked(measures, n) == n > 1 /\ (measures[n].tied \/ measures[n].positions = << >>)

Preservation(measure, clef) ==
  IF measure.positions # << >> /\ clef # measure.clef THEN PreservationPenalty ELSE 0

Differ(clef, other) == IF clef = other THEN 0 ELSE 1

\* The order of CLEF_NAMES, and of their strings.
Place(clef) == IF clef = "treble" THEN 0 ELSE 1
Name(clef) == IF clef = "bass" THEN 0 ELSE 1

\* A cell of the table for measure n in a clef, reached from a clef before it.
Extended(prior, measures, n, clef, from) ==
  [cost     |-> prior.cost + WeightedCost(measures[n].positions, clef)
                  + Preservation(measures[n], clef) + Differ(from, clef) * ChangePenalty,
   changes  |-> prior.changes + Differ(from, clef),
   preserve |-> prior.preserve + Preservation(measures[n], clef),
   from     |-> from]

CellRank(cell, baseline) ==
  <<cell.cost, cell.changes, cell.preserve, Differ(cell.from, baseline), Name(cell.from)>>

\* The cell of a clef, from the cells of the measure before.
Cell(measures, n, clef, prior) ==
  LET candidates == {Extended(prior[from], measures, n, clef, from) :
                       from \in IF Blocked(measures, n) THEN {clef} ELSE Clefs}
      rank(cell) == CellRank(cell, measures[n - 1].clef)
  IN  CHOOSE c \in candidates : \A d \in candidates : ~ Precedes(rank(d), rank(c))

FirstCell(measures, clef) ==
  [cost |-> WeightedCost(measures[1].positions, clef) + Preservation(measures[1], clef),
   changes |-> 0, preserve |-> Preservation(measures[1], clef), from |-> clef]

ClefTable(measures) ==
  LET upto[n \in DOMAIN measures] ==
        IF n = 1
        THEN <<[treble |-> FirstCell(measures, "treble"), bass |-> FirstCell(measures, "bass")]>>
        ELSE LET prior == upto[n - 1]
             IN  Append(prior, [treble |-> Cell(measures, n, "treble", prior[n - 1]),
                                bass   |-> Cell(measures, n, "bass", prior[n - 1])])
  IN  upto[Len(measures)]

\* optimize_clef_sequence.
Optimize(measures) ==
  LET table == ClefTable(measures)
      last  == Len(measures)
      rank(clef) == <<table[last][clef].cost, table[last][clef].changes,
                      table[last][clef].preserve, Differ(clef, measures[last].clef), Place(clef)>>
      from[n \in DOMAIN measures] ==
        IF n = last THEN <<CHOOSE c \in Clefs : \A d \in Clefs : ~ Precedes(rank(d), rank(c))>>
        ELSE LET later == from[n + 1] IN <<table[n + 1][Head(later)].from>> \o later
  IN  from[1]

\* The weighted cost of sequence_ledger_metrics, before and after.
LedgerCost(measures, clefs) ==
  LET upto[n \in 0..Len(measures)] ==
        IF n = 0 THEN 0 ELSE upto[n - 1] + WeightedCost(measures[n].positions, clefs[n])
  IN  upto[Len(measures)]

Written(measures) == [n \in DOMAIN measures |-> measures[n].clef]

\* clef_spans: where a clef is printed, and how long it holds.
Spans(sequence) ==
  {s \in (DOMAIN sequence) \X (DOMAIN sequence) :
     /\ s[1] <= s[2] /\ \A k \in s[1]..s[2] : sequence[k] = sequence[s[1]]
     /\ s[1] = 1 \/ sequence[s[1] - 1] # sequence[s[1]]
     /\ s[2] = Len(sequence) \/ sequence[s[2] + 1] # sequence[s[2]]}

\* What a choice of clefs costs, without an algorithm.
ClefWorth(measures, clefs) ==
  LET upto[n \in 0..Len(measures)] ==
        IF n = 0 THEN <<0, 0, 0>>
        ELSE LET change == IF n = 1 THEN 0 ELSE Differ(clefs[n - 1], clefs[n])
                 kept   == Preservation(measures[n], clefs[n])
             IN  <<upto[n - 1][1] + WeightedCost(measures[n].positions, clefs[n])
                     + kept + change * ChangePenalty,
                   upto[n - 1][2] + change, upto[n - 1][3] + kept>>
  IN  upto[Len(measures)]

\* A clef changes neither under a tie nor before an empty measure.
Allowed(measures, clefs) ==
  \A n \in 2..Len(measures) :
    measures[n].tied \/ measures[n].positions = << >> => clefs[n] = clefs[n - 1]

-----------------------------------------------------------------------------
(* Keys.  A signature counts its sharps, or its flats as negative; a pitch *)
(* is a step (0 is C), its alteration and its octave.                      *)

Signatures == -7..7

\* enharmonic_fifths: the ordinary signatures that sound the same.
EnharmonicFifths(fifths) == {f \in {fifths + 12, fifths - 12} : f \in Signatures}

NaturalPitchClass == <<0, 2, 4, 5, 7, 9, 11>>

Midi(step, alteration, octave) ==
  (octave + 1) * 12 + NaturalPitchClass[step + 1] + alteration

\* Mutant: the octave stays when the step leaves it.
RespelledInOctave(pitch, source, target) ==
  LET direction == IF target > source THEN -1 ELSE 1
      step      == (pitch.step + direction + 7) % 7
  IN  [step |-> step, octave |-> pitch.octave,
       alteration |-> Midi(pitch.step, pitch.alteration, pitch.octave) - Midi(step, 0, pitch.octave)]

\* respell_pitch: one step down when the signature gains sharps, else one up.
Respelled(pitch, source, target) ==
  LET direction == IF target > source THEN -1 ELSE 1
      index     == pitch.step + direction
      step      == IF index < 0 THEN index + 7 ELSE IF index >= 7 THEN index - 7 ELSE index
      octave    == IF index < 0 THEN pitch.octave - 1
                   ELSE IF index >= 7 THEN pitch.octave + 1 ELSE pitch.octave
  IN  [step |-> step, octave |-> octave,
       alteration |-> Midi(pitch.step, pitch.alteration, pitch.octave) - Midi(step, 0, octave)]

\* Where respell_pitch raises ValueError: it has no accidental beyond a double one.
Unsupported(pitch) == pitch.alteration \notin -2..2

\* What a signature alters: sharps in the order F C G D A E B, flats backwards.
Sharpened == <<3, 0, 4, 1, 5, 2, 6>>

Signed(fifths, step) ==
  IF \E k \in 1..7 : k <= fifths /\ Sharpened[k] = step THEN 1
  ELSE IF \E k \in 1..7 : k <= -fifths /\ Sharpened[8 - k] = step THEN -1 ELSE 0

================================================================================
