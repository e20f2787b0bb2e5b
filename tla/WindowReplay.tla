------------------------------ MODULE WindowReplay ------------------------------
(***************************************************************************)
(* The replay benchmark: a WAV is delivered in blocks, cut into windows    *)
(* that overlap, and what the model hears in each window is reconciled     *)
(* into notes that appear once (replay.py, _windows to run_replay;         *)
(* reconcile.py, Reconciler).                                              *)
(*                                                                         *)
(* Times are in samples.  A sample of the input is its own index; what the *)
(* decoder finds in a window is a sequence of pitches and onsets.          *)
(***************************************************************************)
EXTENDS Integers, SequencesExt, Ordering

CONSTANTS Hop, LeftGuard, RightGuard,   \* of the windows
          Tolerance,                    \* between two onsets of one note
          FrameCount                    \* of the input that is heard

ASSUME WindowAssumption ==
  /\ {Hop, LeftGuard, RightGuard} \subseteq Nat \ {0}
  /\ {Tolerance, FrameCount} \subseteq Nat

LeftPad == (LeftGuard + RightGuard) \div 2

WindowSamples == Hop + LeftGuard + RightGuard

Windows(frames) ==
  [n \in 1..((frames + LeftPad + Hop - 1) \div Hop) |->
     LET start == (n - 1) * Hop - LeftPad
     IN  [start |-> start, end |-> start + WindowSamples,
          required |-> Min({frames, start + WindowSamples})]]

Silence == -1

\* What the model is given of a window: silence where the input has no samples.
PrepareWindow(window, frames) ==
  LET first == Max({0, window.start})
      last  == Min({frames, window.end})
      place == first - window.start
  IN  [k \in 0..(WindowSamples - 1) |->
         IF last > first /\ k \in place..(place + last - first - 1)
           THEN first + (k - place) ELSE Silence]

\* How many samples had been delivered when each window was given to the model:
\* after a block those that are ready, in their order, and after the last block
\* the rest.
Processed(frames, block) ==
  LET windows      == Windows(frames)
      blocks       == (frames + block - 1) \div block
      available(n) == Min({frames, n * block})
      ready(n)     == {w \in DOMAIN windows :
                         \A v \in 1..w : windows[v].required <= available(n)}
      after(w)     == {n \in 1..blocks : w \in ready(n)}
  IN  [w \in DOMAIN windows |-> IF after(w) = {} THEN frames ELSE available(Min(after(w)))]

-----------------------------------------------------------------------------
(* The reconciler.  A track is a note, its lifecycle, its revision and the *)
(* window that made it; the provisional tracks are those of the last       *)
(* window.                                                                 *)

OnsetDistance(a, b) == IF a.onset < b.onset THEN b.onset - a.onset ELSE a.onset - b.onset

\* Tracks and candidates of one pitch that may be one note, by their distance.
NearPairs(tracks, candidates) ==
  LET near(p) == /\ tracks[p[1]].lifecycle = "provisional"
                 /\ tracks[p[1]].note.pitch = candidates[p[2]].pitch
                 /\ OnsetDistance(tracks[p[1]].note, candidates[p[2]]) <= Tolerance
  IN  {<<OnsetDistance(tracks[p[1]].note, candidates[p[2]]), p[1], p[2]>> :
         p \in {q \in (DOMAIN tracks) \X (DOMAIN candidates) : near(q)}}

\* Mutant: the tracks choose in their order, the nearest does not come first.
MatchInOrder(tracks, candidates) ==
  LET choose(matches, pair) ==
        IF \E m \in matches : m[1] = pair[2] \/ m[2] = pair[3] THEN matches
        ELSE matches \cup {<<pair[2], pair[3]>>}
  IN  FoldLeft(choose, {}, SetToSortSeq(NearPairs(tracks, candidates),
                 LAMBDA p, q : Precedes(<<p[2], p[3]>>, <<q[2], q[3]>>)))

\* The nearest pairs first; each track and each candidate once.
MatchProvisionals(tracks, candidates) ==
  LET choose(matches, pair) ==
        IF \E m \in matches : m[1] = pair[2] \/ m[2] = pair[3] THEN matches
        ELSE matches \cup {<<pair[2], pair[3]>>}
  IN  FoldLeft(choose, {}, SetToSortSeq(NearPairs(tracks, candidates), Precedes))

ReliableStart(windows, w) == windows[w].start + (IF w = 1 THEN 0 ELSE LeftGuard)

ProvisionalStart(windows, w) == windows[w].end - RightGuard

\* A candidate no provisional track matched: new if this window is reliable there.
Lifecycle(windows, w, onset) ==
  IF w < Len(windows) /\ onset >= ProvisionalStart(windows, w) THEN "provisional" ELSE "committed"

\* Each provisional track is committed as the note it matches, or retracted; then
\* the new tracks begin.  The records that are emitted are the tracks that change.
Process(state, candidates, windows, w) ==
  LET heard   == SelectSeq(candidates, LAMBDA note : 0 <= note.onset /\ note.onset < FrameCount)
      tracks  == state.tracks
      matches == MatchProvisionals(tracks, heard)
      match(t) == {m \in matches : m[1] = t}
      settled == [t \in DOMAIN tracks |->
                    IF tracks[t].lifecycle # "provisional" THEN tracks[t]
                    ELSE IF match(t) = {}
                      THEN [tracks[t] EXCEPT !.lifecycle = "retracted", !.revision = @ + 1]
                      ELSE [tracks[t] EXCEPT !.lifecycle = "committed", !.revision = @ + 1,
                                             !.note = heard[(CHOOSE m \in match(t) : TRUE)[2]]]]
      new     == SelectSeq([c \in DOMAIN heard |-> c],
                           LAMBDA c : /\ \A m \in matches : m[2] # c
                                      /\ heard[c].onset >= ReliableStart(windows, w))
      begun   == [n \in DOMAIN new |->
                    [note |-> heard[new[n]], revision |-> 1, window |-> w,
                     lifecycle |-> Lifecycle(windows, w, heard[new[n]].onset)]]
      changed == {t \in DOMAIN tracks : settled[t] # tracks[t]}
  IN  [tracks |-> settled \o begun,
       events |-> state.events
                    \o [n \in 1..Cardinality(changed) |->
                          LET t == SetToSortSeq(changed, <)[n]
                          IN  [track |-> t, revision |-> settled[t].revision,
                               lifecycle |-> settled[t].lifecycle, window |-> w]]
                    \o [n \in DOMAIN begun |->
                          [track |-> Len(tracks) + n, revision |-> 1,
                           lifecycle |-> begun[n].lifecycle, window |-> w]]]

\* What is left when every window was reconciled; heard[w] is what the decoder
\* found in window w.
Replayed(heard) ==
  LET windows == Windows(FrameCount)
      after[w \in 0..Len(windows)] ==
        IF w = 0 THEN [tracks |-> << >>, events |-> << >>]
        ELSE Process(after[w - 1], heard[w], windows, w)
  IN  after[Len(windows)]

FinalTracks(state) == SelectSeq(state.tracks, LAMBDA track : track.lifecycle = "committed")

-----------------------------------------------------------------------------
(* What is asked of it.                                                    *)

Missed == {}

\* What a model may make of a note: each window that has its onset hears it a
\* sample early or late, or misses it.
Hearings(pitch, onset) ==
  LET windows == Windows(FrameCount)
      near(w) == {x \in (onset - 1)..(onset + 1) : windows[w].start <= x /\ x < windows[w].end}
  IN  {[pitch |-> pitch, onset |-> onset, at |-> at] :
         at \in {f \in [DOMAIN windows -> {Missed} \cup {{x} : x \in (onset - 1)..(onset + 1)}] :
                   \A w \in DOMAIN windows : f[w] \subseteq near(w)}}

\* The decoder (basic_pitch) ends a note where the next of its pitch begins and
\* drops those under 127.7 ms, more than one and a half times the tolerance.
Apart(a, b) ==
  LET least == (3 * Tolerance) \div 2 + 1
  IN  /\ a.onset - b.onset \notin (1 - least)..(least - 1)
      /\ \A w \in DOMAIN a.at : \A x \in a.at[w], y \in b.at[w] : x - y \notin (1 - least)..(least - 1)

Found(notes, w) ==
  LET found == SelectSeq(notes, LAMBDA note : note.at[w] # Missed)
  IN  [n \in DOMAIN found |-> [pitch |-> found[n].pitch, onset |-> CHOOSE x \in found[n].at[w] : TRUE]]

\* Heard in every window that surely has it, and nowhere outside the recording.
AlwaysHeard(note) ==
  LET windows == Windows(FrameCount)
  IN  /\ \A w \in DOMAIN windows :
           windows[w].start < note.onset /\ note.onset + 1 < windows[w].end => note.at[w] # Missed
      /\ UNION {note.at[w] : w \in DOMAIN windows} \subseteq 0..(FrameCount - 1)

\* Two windows that hear the note on either side of where the first one's part
\* ends and the second one's begins, each in its own part.
Astride(note) ==
  \E w \in 1..(Len(Windows(FrameCount)) - 1) :
    LET border == ReliableStart(Windows(FrameCount), w + 1)
    IN  (\E x \in note.at[w] : x < border) /\ (\E x \in note.at[w + 1] : x >= border)

\* The life of a track in the records: committed at once, or provisional and
\* settled by the next window.
Lives(state) ==
  \A t \in DOMAIN state.tracks :
    LET life == SelectSeq(state.events, LAMBDA event : event.track = t)
    IN  /\ Last(life).lifecycle = state.tracks[t].lifecycle
        /\ \/ Len(life) = 1 /\ life[1].lifecycle = "committed"
           \/ /\ Len(life) = 2 /\ life[1].lifecycle = "provisional"
              /\ life[2].lifecycle \in {"committed", "retracted"}
              /\ life[2].revision = 2 /\ life[2].window = life[1].window + 1

\* Every track ends; what is written was heard; and notes that are always heard
\* are written once each, twice at most where two windows disagree about the
\* border between them.
NotesAppearOnce(notes) ==
  LET state   == Replayed([w \in DOMAIN Windows(FrameCount) |-> Found(notes, w)])
      written == FinalTracks(state)
      of(note) == {t \in DOMAIN written : written[t].note.pitch = note.pitch /\
                     \E w \in DOMAIN note.at : written[t].note.onset \in note.at[w]}
  IN  /\ Lives(state)
      /\ \A t \in DOMAIN written : \E n \in DOMAIN notes : t \in of(notes[n])
      /\ (\A n \in DOMAIN notes : AlwaysHeard(notes[n])) =>
           \A n \in DOMAIN notes :
             Cardinality(of(notes[n])) \in (IF Astride(notes[n]) THEN {1, 2} ELSE {1})

\* Whatever the length of the input and of a block: the windows' own parts cover
\* each sample once, a window has its samples and silence around them, and none is
\* given to the model before its samples were delivered, or out of order.
WindowsTile(longest) ==
  \A frames \in 1..longest :
    LET windows == Windows(frames)
        own(w)  == ReliableStart(windows, w)..
                     ((IF w = Len(windows) THEN windows[w].end ELSE ProvisionalStart(windows, w)) - 1)
    IN  /\ \A x \in 0..(frames - 1) : Cardinality({w \in DOMAIN windows : x \in own(w)}) = 1
        /\ \A w \in DOMAIN windows : \A k \in 0..(WindowSamples - 1) :
             PrepareWindow(windows[w], frames)[k]
               = IF windows[w].start + k \in 0..(frames - 1) THEN windows[w].start + k ELSE Silence
        /\ \A block \in 1..(frames + 1) :
             LET processed == Processed(frames, block)
             IN  \A w \in DOMAIN windows :
                   /\ \A x \in Range(PrepareWindow(windows[w], frames)) : x < processed[w]
                   /\ w > 1 => processed[w - 1] <= processed[w]

================================================================================
