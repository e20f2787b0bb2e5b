-------------------------- MODULE ScoreProofs --------------------------
(***************************************************************************)
(* Proofs about scores.  ScoreEngraving: respelling a pitch in the         *)
(* enharmonic key, for every octave and every alteration, keeps the sound, *)
(* and the way back is the way there.  ScoreJobs: what the slot, the job,  *)
(* the requests and the files of a session's scores say of each other, for *)
(* any number of requests, outputs and commit samples.  ScoreEngraving     *)
(* again: the table of optimize_clef_sequence finds the best clefs of a    *)
(* part of any length, and with it Transformations' EngravingKeepsMusic.   *)
(***************************************************************************)
EXTENDS Transformations, ScoreJobs, FiniteSetTheorems, WellFoundedInduction, TLAPS

Pitch == [step : 0..6, octave : Int, alteration : Int]

-----------------------------------------------------------------------------
(* One pitch.                                                              *)

\* Each step sounds at a whole number of semitones.
LEMMA NaturalIsInt ==
  ASSUME NEW step \in 0..6
  PROVE  NaturalPitchClass[step + 1] \in Int
  BY SMT DEF NaturalPitchClass

\* An alteration moves a pitch by as many semitones.
LEMMA MidiIsInt ==
  ASSUME NEW step \in 0..6, NEW octave \in Int, NEW alteration \in Int
  PROVE  /\ Midi(step, alteration, octave) \in Int
         /\ Midi(step, alteration, octave) = Midi(step, 0, octave) + alteration
  BY NaturalIsInt, SMT DEF Midi

\* A respelled pitch is the neighbouring step, in the octave it lies in.
LEMMA RespelledStep ==
  ASSUME NEW pitch \in Pitch, NEW key \in Int, NEW target \in Int
  PROVE  LET other == Respelled(pitch, key, target)
         IN  /\ other.step = IF target > key
                             THEN IF pitch.step = 0 THEN 6 ELSE pitch.step - 1
                             ELSE IF pitch.step = 6 THEN 0 ELSE pitch.step + 1
             /\ other.octave = IF target > key
                               THEN IF pitch.step = 0 THEN pitch.octave - 1 ELSE pitch.octave
                               ELSE IF pitch.step = 6 THEN pitch.octave + 1 ELSE pitch.octave
             /\ other.alteration = Midi(pitch.step, pitch.alteration, pitch.octave)
                                     - Midi(other.step, 0, other.octave)
             /\ other.step \in 0..6 /\ other.octave \in Int
<1> DEFINE other == Respelled(pitch, key, target)
<1>1. pitch.step \in 0..6 /\ pitch.octave \in Int /\ pitch.alteration \in Int
  BY DEF Pitch
<1>2. CASE target > key
  BY <1>1, <1>2, SMT DEF Respelled
<1>3. CASE ~ (target > key)
  BY <1>1, <1>3, SMT DEF Respelled
<1> QED BY <1>2, <1>3

-----------------------------------------------------------------------------
(* The theorems.                                                           *)

\* A pitch respelled in the enharmonic key sounds the same, in whatever octave
\* it lies and whatever accidental it has (score_postprocess.py, respell_pitch;
\* apply_enharmonic_key compares the sounds once more and would raise).
THEOREM RespellingKeepsSound ==
  ASSUME NEW pitch \in Pitch, NEW key \in Signatures,
         NEW target \in EnharmonicFifths(key)
  PROVE  LET other == Respelled(pitch, key, target)
         IN  /\ other \in Pitch
             /\ Midi(other.step, other.alteration, other.octave)
                  = Midi(pitch.step, pitch.alteration, pitch.octave)
<1> DEFINE other == Respelled(pitch, key, target)
<1>1. key \in Int /\ target \in Int
  BY DEF EnharmonicFifths, Signatures
<1>2. pitch.step \in 0..6 /\ pitch.octave \in Int /\ pitch.alteration \in Int
  BY DEF Pitch
<1>3. /\ other.step \in 0..6 /\ other.octave \in Int
      /\ other.alteration = Midi(pitch.step, pitch.alteration, pitch.octave)
                              - Midi(other.step, 0, other.octave)
  BY <1>1, RespelledStep
<1>4. /\ Midi(pitch.step, pitch.alteration, pitch.octave) \in Int
      /\ Midi(other.step, 0, other.octave) \in Int
  <2>1. 0 \in Int
    OBVIOUS
  <2> QED BY <1>2, <1>3, <2>1, MidiIsInt
<1>5. other.alteration \in Int
  BY <1>3, <1>4
<1>6. Midi(other.step, other.alteration, other.octave)
        = Midi(other.step, 0, other.octave) + other.alteration
  BY <1>3, <1>5, MidiIsInt
<1>7. other = [step |-> other.step, octave |-> other.octave, alteration |-> other.alteration]
  BY DEF Respelled
<1>8. other \in Pitch
  BY <1>3, <1>5, <1>7 DEF Pitch
<1> QED BY <1>3, <1>4, <1>6, <1>8

\* The enharmonic key of the enharmonic key is the key.
LEMMA KeysPair ==
  ASSUME NEW key \in Signatures, NEW target \in EnharmonicFifths(key)
  PROVE  /\ target \in Signatures /\ key \in EnharmonicFifths(target)
         /\ target > key <=> ~ (key > target)
  BY SMT DEF EnharmonicFifths, Signatures

\* Respelling is undone by respelling in the first key: applying the transform
\* to a variant gives the baseline's spelling, note by note.
THEOREM RespellingReturns ==
  ASSUME NEW pitch \in Pitch, NEW key \in Signatures,
         NEW target \in EnharmonicFifths(key)
  PROVE  Respelled(Respelled(pitch, key, target), target, key) = pitch
<1> DEFINE other == Respelled(pitch, key, target)
           back  == Respelled(other, target, key)
<1>1. key \in Int /\ target \in Int
  BY DEF EnharmonicFifths, Signatures
<1>2. pitch.step \in 0..6 /\ pitch.octave \in Int /\ pitch.alteration \in Int
  BY DEF Pitch
<1>3. /\ other \in Pitch
      /\ Midi(other.step, other.alteration, other.octave)
           = Midi(pitch.step, pitch.alteration, pitch.octave)
  BY RespellingKeepsSound
<1>4. target > key <=> ~ (key > target)
  BY KeysPair
<1>5. /\ other.step = IF target > key
                      THEN IF pitch.step = 0 THEN 6 ELSE pitch.step - 1
                      ELSE IF pitch.step = 6 THEN 0 ELSE pitch.step + 1
      /\ other.octave = IF target > key
                        THEN IF pitch.step = 0 THEN pitch.octave - 1 ELSE pitch.octave
                        ELSE IF pitch.step = 6 THEN pitch.octave + 1 ELSE pitch.octave
  BY <1>1, RespelledStep
<1>6. /\ back.step = IF key > target
                     THEN IF other.step = 0 THEN 6 ELSE other.step - 1
                     ELSE IF other.step = 6 THEN 0 ELSE other.step + 1
      /\ back.octave = IF key > target
                       THEN IF other.step = 0 THEN other.octave - 1 ELSE other.octave
                       ELSE IF other.step = 6 THEN other.octave + 1 ELSE other.octave
      /\ back.alteration = Midi(other.step, other.alteration, other.octave)
                             - Midi(back.step, 0, back.octave)
  BY <1>1, <1>3, RespelledStep
<1>7. back.step = pitch.step /\ back.octave = pitch.octave
  BY <1>2, <1>4, <1>5, <1>6
<1>8. back.alteration = pitch.alteration
  <2>1. Midi(pitch.step, pitch.alteration, pitch.octave)
          = Midi(pitch.step, 0, pitch.octave) + pitch.alteration
    BY <1>2, MidiIsInt
  <2>2. 0 \in Int
    OBVIOUS
  <2>3. Midi(pitch.step, 0, pitch.octave) \in Int
    BY <1>2, <2>2, MidiIsInt
  <2> QED BY <1>2, <1>3, <1>6, <1>7, <2>1, <2>3
<1>9. back = [step |-> back.step, octave |-> back.octave, alteration |-> back.alteration]
  <2>1. target \in Signatures /\ key \in EnharmonicFifths(target)
    BY KeysPair
  <2>2. back \in Pitch
    BY <1>3, <2>1, RespellingKeepsSound
  <2> QED BY <2>2 DEF Pitch
<1>10. pitch = [step |-> pitch.step, octave |-> pitch.octave, alteration |-> pitch.alteration]
  BY DEF Pitch
<1> QED BY <1>7, <1>8, <1>9, <1>10

-----------------------------------------------------------------------------
(* Accidentals.                                                            *)

\* The keys that have an enharmonic one.
LEMMA KeysWithOther ==
  ASSUME NEW key \in Signatures, NEW target \in EnharmonicFifths(key)
  PROVE  <<key, target>> \in {<<7, -5>>, <<-5, 7>>, <<6, -6>>, <<-6, 6>>, <<5, -7>>, <<-7, 5>>}
  BY SMT DEF EnharmonicFifths, Signatures

\* What those keys alter: sharps in their order, flats in the opposite one.
LEMMA SignatureAlters ==
  ASSUME NEW step \in 0..6
  PROVE  /\ Signed(7, step) = 1 /\ Signed(-7, step) = -1
         /\ Signed(6, step) = (IF step = 6 THEN 0 ELSE 1)
         /\ Signed(-6, step) = (IF step = 3 THEN 0 ELSE -1)
         /\ Signed(5, step) = (IF step \in {2, 6} THEN 0 ELSE 1)
         /\ Signed(-5, step) = (IF step \in {3, 0} THEN 0 ELSE -1)
<1>1. /\ Sharpened[1] = 3 /\ Sharpened[2] = 0 /\ Sharpened[3] = 4 /\ Sharpened[4] = 1
      /\ Sharpened[5] = 5 /\ Sharpened[6] = 2 /\ Sharpened[7] = 6
  BY DEF Sharpened
<1>2. step \in {0, 1, 2, 3, 4, 5, 6}
  OBVIOUS
<1>3. Signed(7, step) = 1
  BY <1>1, <1>2, SMTT(60) DEF Signed
<1>4. Signed(-7, step) = -1
  BY <1>1, <1>2, SMTT(60) DEF Signed
<1>5. Signed(6, step) = (IF step = 6 THEN 0 ELSE 1)
  BY <1>1, <1>2, SMTT(60) DEF Signed
<1>6. Signed(-6, step) = (IF step = 3 THEN 0 ELSE -1)
  BY <1>1, <1>2, SMTT(60) DEF Signed
<1>7. Signed(5, step) = (IF step \in {2, 6} THEN 0 ELSE 1)
  BY <1>1, <1>2, SMTT(60) DEF Signed
<1>8. Signed(-5, step) = (IF step \in {3, 0} THEN 0 ELSE -1)
  BY <1>1, <1>2, SMTT(60) DEF Signed
<1> QED BY <1>3, <1>4, <1>5, <1>6, <1>7, <1>8

\* The interval between two natural pitches and their octaves.
LEMMA Difference ==
  ASSUME NEW m \in Int, NEW n \in Int, NEW a \in Int, NEW b \in Int, NEW x \in Int
  PROVE  ((m + 1) * 12 + a + x) - ((n + 1) * 12 + b + 0) = x + (a - b + 12 * (m - n))
  OBVIOUS

\* The accidental printed beside a note, what its alteration adds to the
\* signature, is the same in both keys: a variant gains no accidentals, and a
\* pitch of the key needs none and is never refused.
THEOREM RespellingKeepsAccidentals ==
  ASSUME NEW pitch \in Pitch, NEW key \in Signatures,
         NEW target \in EnharmonicFifths(key)
  PROVE  LET other == Respelled(pitch, key, target)
         IN  /\ other.alteration - Signed(target, other.step)
                  = pitch.alteration - Signed(key, pitch.step)
             /\ pitch.alteration = Signed(key, pitch.step) => ~ Unsupported(other)
<1> DEFINE other == Respelled(pitch, key, target)
           interval == NaturalPitchClass[pitch.step + 1] - NaturalPitchClass[other.step + 1]
                         + 12 * (pitch.octave - other.octave)
<1>1. key \in Int /\ target \in Int
  BY DEF EnharmonicFifths, Signatures
<1>2. pitch.step \in 0..6 /\ pitch.octave \in Int /\ pitch.alteration \in Int
  BY DEF Pitch
<1>3. /\ other.step = IF target > key
                      THEN IF pitch.step = 0 THEN 6 ELSE pitch.step - 1
                      ELSE IF pitch.step = 6 THEN 0 ELSE pitch.step + 1
      /\ other.octave = IF target > key
                        THEN IF pitch.step = 0 THEN pitch.octave - 1 ELSE pitch.octave
                        ELSE IF pitch.step = 6 THEN pitch.octave + 1 ELSE pitch.octave
      /\ other.alteration = Midi(pitch.step, pitch.alteration, pitch.octave)
                              - Midi(other.step, 0, other.octave)
      /\ other.step \in 0..6 /\ other.octave \in Int
  BY <1>1, RespelledStep
<1>4. /\ NaturalPitchClass[1] = 0 /\ NaturalPitchClass[2] = 2 /\ NaturalPitchClass[3] = 4
      /\ NaturalPitchClass[4] = 5 /\ NaturalPitchClass[5] = 7 /\ NaturalPitchClass[6] = 9
      /\ NaturalPitchClass[7] = 11
  BY DEF NaturalPitchClass
<1>5. other.alteration = pitch.alteration + interval
  <2>1. NaturalPitchClass[pitch.step + 1] \in Int /\ NaturalPitchClass[other.step + 1] \in Int
    BY <1>2, <1>3, NaturalIsInt
  <2> HIDE DEF other
  <2>2. Midi(pitch.step, pitch.alteration, pitch.octave)
          = (pitch.octave + 1) * 12 + NaturalPitchClass[pitch.step + 1] + pitch.alteration
    BY Zenon DEF Midi
  <2>3. Midi(other.step, 0, other.octave)
          = (other.octave + 1) * 12 + NaturalPitchClass[other.step + 1] + 0
    BY Zenon DEF Midi
  <2>4. other.alteration = ((pitch.octave + 1) * 12 + NaturalPitchClass[pitch.step + 1]
                              + pitch.alteration)
                             - ((other.octave + 1) * 12 + NaturalPitchClass[other.step + 1] + 0)
    BY <1>3, <2>2, <2>3
  <2>5. other.octave \in Int
    BY <1>3
  <2> QED BY <1>2, <2>1, <2>4, <2>5, Difference
<1>6. interval = Signed(target, other.step) - Signed(key, pitch.step)
  <2>1. pitch.step \in {0, 1, 2, 3, 4, 5, 6}
    BY <1>2
  <2>2. interval = IF target > key
                   THEN IF pitch.step \in {0, 3} THEN 1 ELSE 2
                   ELSE IF pitch.step \in {2, 6} THEN -1 ELSE -2
    <3> HIDE DEF other
    <3> QED BY <1>2, <1>3, <1>4, <2>1, SMTT(30)
  <2>3. CASE target > key
    BY <2>2, <2>3, <1>2, <1>3, KeysWithOther, SignatureAlters, SMTT(30)
  <2>4. CASE ~ (target > key)
    BY <2>2, <2>4, <1>2, <1>3, KeysWithOther, SignatureAlters, SMTT(30)
  <2> QED BY <2>3, <2>4
<1>7. /\ Signed(key, pitch.step) \in {-1, 0, 1}
      /\ Signed(target, other.step) \in {-1, 0, 1}
  BY <1>2, <1>3, KeysWithOther, SignatureAlters, SMTT(30)
<1>8. other.alteration - Signed(target, other.step) = pitch.alteration - Signed(key, pitch.step)
  <2> HIDE DEF other, interval
  <2> QED BY <1>2, <1>5, <1>6, <1>7
<1>9. pitch.alteration = Signed(key, pitch.step) => ~ Unsupported(other)
  <2> HIDE DEF other, interval
  <2> QED BY <1>2, <1>5, <1>6, <1>7 DEF Unsupported
<1> QED BY <1>8, <1>9

-------------------------------------------------------------------------------
(* ScoreJobs: the inductive invariant.                                     *)

\* What the running job relies on: nobody else writes the files of its snapshot.
JobKnows ==
    /\ Running <=> job # "none"
    /\ Running \/ slot.status = "complete" => slot.commit \in Commits
    /\ job \in {"place", "manifest", "publish"} => network \in Outputs
    /\ job \in {"place", "manifest", "publish"} /\ Present =>
           baseline[slot.commit] = network
    /\ job \in {"manifest", "publish"} /\ Present =>
           <<slot.commit, network, "automatic">> \in scores
    /\ Present /\ (job \in {"publish", "done"} \/ slot.status = "complete") =>
           manifests[slot.commit] # Nothing

\* A document whose files are among these scores.
SoundIn(d, S) ==
    /\ d.selected \in d.variants \cup {"baseline"}
    /\ "automatic" \in d.variants /\ "baseline" \notin d.variants
    /\ \A o \in d.variants \ {"baseline"} : <<d.commit, d.baseline, o>> \in S

IsSound(d) == SoundIn(d, scores)

FilesKnown ==
    /\ \A c \in Commits : manifests[c] # Nothing =>
          /\ IsSound(manifests[c])
          /\ manifests[c].commit = c /\ manifests[c].selected = "automatic"
    /\ current # Nothing => IsSound(current) /\ manifests[current.commit] # Nothing

Targets == [commit : Commits, option : Options \cup {"score"}]
Copying == {"choose", "make", "manifest", "publish", "answer", "refused", "unanswered"}
Admitted == {"read", "choose", "make", "manifest", "publish"}

\* What a request knows of its copy of current.json.
RequestKnows(r) ==
    /\ pc[r] # "idle" => asked[r] \in Targets
    /\ pc[r] \in Copying \cup {"read"} => asked[r].option \in Options
    /\ pc[r] \in Copying =>
          /\ copy[r] # Nothing /\ IsSound(copy[r])
          /\ manifests[copy[r].commit] # Nothing
    /\ pc[r] \in {"manifest", "publish"} => Key(r) \in scores
    /\ pc[r] \in {"make", "manifest", "publish"} => Key(r) \in directories /\ ~Published(r)
    /\ pc[r] = "answer" => current # Nothing

\* Who was not overtaken sees no job and the newest snapshot.
LooksHold ==
    /\ \A r \in Requests :
          r \notin since =>
              /\ pc[r] \in Admitted => ~Running
              /\ pc[r] \in Admitted \ {"read"} => ShowsNewest(copy[r])
    /\ deletion = "free" /\ "delete" \notin since => ~Running

ScoresInv ==
    /\ TypeOK /\ JobKnows /\ FilesKnown
    /\ \A r \in Requests : RequestKnows(r)
    /\ LooksHold

-----------------------------------------------------------------------------
(* Documents and what becomes of the files.                                *)

\* A document of known parts is a document, and is not the missing one.
LEMMA DocumentIsOne ==
  ASSUME NEW c \in Commits, NEW o \in Outputs, NEW v \in SUBSET Options, NEW s \in Options
  PROVE  /\ Document(c, o, v, s) \in Documents /\ Document(c, o, v, s) # Nothing
         /\ Document(c, o, v, s).commit = c /\ Document(c, o, v, s).baseline = o
         /\ Document(c, o, v, s).variants = v /\ Document(c, o, v, s).selected = s
<1>1. Document(c, o, v, s) \in Documents
  BY DEF Document, Documents
<1> QED
  BY <1>1, ScoreConstants DEF Document

\* A document is what its parts say.
LEMMA DocumentParts ==
  ASSUME NEW d \in Documents
  PROVE  /\ d.commit \in Commits /\ d.baseline \in Outputs
         /\ d.variants \in SUBSET Options /\ d.selected \in Options
         /\ d # Nothing
         /\ \A s \in Options : [d EXCEPT !.selected = s]
                                  = Document(d.commit, d.baseline, d.variants, s)
         /\ \A s \in Options, v \in SUBSET Options :
               [d EXCEPT !.variants = v, !.selected = s]
                  = Document(d.commit, d.baseline, v, s)
         /\ \A o \in Outputs, v \in SUBSET Options :
               [d EXCEPT !.baseline = o, !.variants = v]
                  = Document(d.commit, o, v, d.selected)
<1>1. d \in [commit : Commits, baseline : Outputs,
             variants : SUBSET Options, selected : Options]
  BY DEF Documents
<1>2. d # Nothing
  BY ScoreConstants
<1>3. d = [commit |-> d.commit, baseline |-> d.baseline,
           variants |-> d.variants, selected |-> d.selected]
  BY <1>1
<1>4. \A s \in Options : [d EXCEPT !.selected = s]
                            = Document(d.commit, d.baseline, d.variants, s)
  BY <1>3 DEF Document
<1>5. \A s \in Options, v \in SUBSET Options :
         [d EXCEPT !.variants = v, !.selected = s] = Document(d.commit, d.baseline, v, s)
  <2> TAKE s \in Options, v \in SUBSET Options
  <2> DEFINE e == [commit |-> d.commit, baseline |-> d.baseline,
                   variants |-> v, selected |-> d.selected]
  <2>1. [d EXCEPT !.variants = v] = e
    BY <1>3
  <2>2. [e EXCEPT !.selected = s] = Document(d.commit, d.baseline, v, s)
    BY DEF Document
  <2> HIDE DEF e
  <2> QED
    BY <2>1, <2>2
<1>6. \A o \in Outputs, v \in SUBSET Options :
         [d EXCEPT !.baseline = o, !.variants = v] = Document(d.commit, o, v, d.selected)
  <2> TAKE o \in Outputs, v \in SUBSET Options
  <2> DEFINE e == [commit |-> d.commit, baseline |-> o,
                   variants |-> d.variants, selected |-> d.selected]
  <2>1. [d EXCEPT !.baseline = o] = e
    BY <1>3
  <2>2. [e EXCEPT !.variants = v] = Document(d.commit, o, v, d.selected)
    BY DEF Document
  <2> HIDE DEF e
  <2> QED
    BY <2>1, <2>2
<1> QED
  BY <1>1, <1>2, <1>4, <1>5, <1>6

\* A request that reads or works names a document it has a copy of.
LEMMA CopyIsDocument ==
  ASSUME TypeOK, NEW r \in Requests, RequestKnows(r), pc[r] \in Copying
  PROVE  /\ copy[r] \in Documents /\ asked[r] \in Targets /\ asked[r].option \in Options
         /\ IsSound(copy[r]) /\ manifests[copy[r].commit] # Nothing
         /\ manifests[copy[r].commit] \in Documents
         /\ Key(r) \in Commits \X Outputs \X Options
         /\ copy[r].commit \in Commits
<1>1. copy[r] \in Documents /\ asked[r].option \in Options
  BY DEF TypeOK, RequestKnows, Copying
<1>2. copy[r].commit \in Commits /\ copy[r].baseline \in Outputs
  BY <1>1, DocumentParts
<1>3. manifests[copy[r].commit] # Nothing
  BY DEF RequestKnows
<1>4. manifests[copy[r].commit] \in Documents
  BY <1>2, <1>3 DEF TypeOK
<1> QED
  BY <1>1, <1>2, <1>3, <1>4 DEF RequestKnows, Key, Copying

\* The manifest a variant writes: its own list, and what was selected before.
LEMMA AddedManifest ==
  ASSUME TypeOK, NEW r \in Requests, RequestKnows(r), AddToManifest(r)
  PROVE  LET c == copy[r].commit
             d == Document(manifests[c].commit, copy[r].baseline,
                           copy[r].variants \cup {asked[r].option}, manifests[c].selected)
         IN  manifests' = [manifests EXCEPT ![c] = d] /\ d \in Documents /\ d # Nothing
<1> DEFINE c == copy[r].commit
           v == copy[r].variants \cup {asked[r].option}
           m == manifests[c]
           d == Document(m.commit, copy[r].baseline, v, m.selected)
<1>1. pc[r] \in Copying
  BY DEF AddToManifest, At, Copying
<1>2. c \in Commits /\ copy[r] \in Documents /\ m \in Documents /\ asked[r].option \in Options
  BY <1>1, CopyIsDocument
<1>3. copy[r].baseline \in Outputs /\ v \in SUBSET Options
  BY <1>2, DocumentParts
<1>4. m.commit \in Commits /\ m.selected \in Options
  BY <1>2, DocumentParts
<1>5. d \in Documents /\ d # Nothing
  BY <1>3, <1>4, DocumentIsOne
<1>6. manifests' = [manifests EXCEPT ![c] = [m EXCEPT !.baseline = copy[r].baseline,
                                                       !.variants = v]]
  BY <1>2 DEF AddToManifest, TypeOK
<1>7. [m EXCEPT !.baseline = copy[r].baseline, !.variants = v] = d
  BY <1>2, <1>3, DocumentParts
<1> QED
  BY <1>5, <1>6, <1>7

\* What a job publishes.
LEMMA SnapshotIsDocument ==
  ASSUME TypeOK, JobKnows, job \in {"place", "manifest", "publish"}
  PROVE  /\ slot.commit \in Commits /\ network \in Outputs
         /\ Snapshot \in Documents /\ Snapshot # Nothing
         /\ Snapshot.commit = slot.commit /\ Snapshot.baseline = network
         /\ Snapshot.variants = {"automatic"} /\ Snapshot.selected = "automatic"
<1>1. slot.commit \in Commits /\ network \in Outputs
  BY DEF JobKnows
<1>2. {"automatic"} \in SUBSET Options /\ "automatic" \in Options
  BY DEF Options
<1> QED
  BY <1>1, <1>2, DocumentIsOne DEF Snapshot

\* What a request publishes: its copy, with what it made or chose.
LEMMA PublishedDocument ==
  ASSUME TypeOK, NEW r \in Requests, RequestKnows(r), SelectPublished(r) \/ PublishVariant(r)
  PROVE  /\ current' \in Documents /\ current' # Nothing
         /\ current'.commit = copy[r].commit /\ current'.baseline = copy[r].baseline
         /\ current'.variants = copy[r].variants
               \cup (IF SelectPublished(r) THEN {} ELSE {asked[r].option})
         /\ current'.selected = asked[r].option
<1>1. pc[r] \in Copying
  BY DEF SelectPublished, PublishVariant, At, Copying
<1>2. copy[r] \in Documents /\ asked[r].option \in Options
  BY <1>1, CopyIsDocument
<1>3. /\ copy[r].commit \in Commits /\ copy[r].baseline \in Outputs
      /\ copy[r].variants \in SUBSET Options
      /\ copy[r].variants \cup {asked[r].option} \in SUBSET Options
  BY <1>2, DocumentParts
<1>4. CASE SelectPublished(r)
  <2>1. current' = Document(copy[r].commit, copy[r].baseline, copy[r].variants, asked[r].option)
    BY <1>2, <1>4, DocumentParts DEF SelectPublished
  <2> QED
    BY <1>2, <1>3, <1>4, <2>1, DocumentIsOne
<1>5. CASE PublishVariant(r) /\ ~SelectPublished(r)
  <2>1. current' = Document(copy[r].commit, copy[r].baseline,
                            copy[r].variants \cup {asked[r].option}, asked[r].option)
    BY <1>2, <1>3, <1>5, DocumentParts DEF PublishVariant
  <2> QED
    BY <1>2, <1>3, <1>5, <2>1, DocumentIsOne
<1> QED
  BY <1>4, <1>5

-----------------------------------------------------------------------------
(* What no step takes away.                                                *)

FilesStay ==
    /\ scores \subseteq scores' /\ directories \subseteq directories'
    /\ \A c \in Commits : manifests[c] # Nothing => manifests'[c] # Nothing
    /\ current # Nothing => current' # Nothing

\* No step removes a file of a score, a manifest or the pointer.
LEMMA FilesOnlyGrow == ScoresInv /\ [Next]_vars => FilesStay
<1> SUFFICES ASSUME ScoresInv, [Next]_vars PROVE FilesStay
  OBVIOUS
<1> USE DEF files
<1>1. CASE UNCHANGED vars
  BY <1>1 DEF FilesStay, vars
<1>2. ASSUME AdvanceHorizon PROVE FilesStay
  BY <1>2 DEF FilesStay, AdvanceHorizon
<1>3. ASSUME ReadSlot PROVE FilesStay
  BY <1>3 DEF FilesStay, ReadSlot
<1>4. ASSUME TrashSession PROVE FilesStay
  BY <1>4 DEF FilesStay, TrashSession
<1>5. ASSUME Crash PROVE FilesStay
  BY <1>5 DEF FilesStay, Crash
<1>6. ASSUME RunAdapter PROVE FilesStay
  BY <1>6 DEF FilesStay, RunAdapter, JobGoto
<1>7. ASSUME AdapterDone PROVE FilesStay
  BY <1>7 DEF FilesStay, AdapterDone, JobGoto
<1>8. ASSUME JobFails PROVE FilesStay
  BY <1>8 DEF FilesStay, JobFails, JobGoto
<1>9. ASSUME PlaceAutomatic PROVE FilesStay
  BY <1>9 DEF FilesStay, PlaceAutomatic, JobGoto
<1>10. ASSUME WriteManifest PROVE FilesStay
  <2>1. WriteManifest /\ ScoresInv
    BY <1>10 DEF ScoresInv
  <2> QED
    BY <2>1, SnapshotIsDocument DEF FilesStay, WriteManifest, JobGoto, ScoresInv, TypeOK
<1>11. ASSUME Publish PROVE FilesStay
  <2>1. Publish /\ ScoresInv
    BY <1>11 DEF ScoresInv
  <2> QED
    BY <2>1, SnapshotIsDocument DEF FilesStay, Publish, JobGoto, ScoresInv, TypeOK
<1>12. ASSUME JobLosesDirectory PROVE FilesStay
  BY <1>12 DEF FilesStay, JobLosesDirectory, JobGoto
<1>13. ASSUME Finish PROVE FilesStay
  BY <1>13 DEF FilesStay, Finish
<1>14. ASSUME NEW r \in Requests, ReadTarget(r) PROVE FilesStay
  BY <1>14 DEF FilesStay, ReadTarget
<1>15. ASSUME NEW r \in Requests, CheckSlot(r) PROVE FilesStay
  BY <1>15 DEF FilesStay, CheckSlot
<1>16. ASSUME NEW r \in Requests, Claim(r) PROVE FilesStay
  BY <1>16 DEF FilesStay, Claim
<1>17. ASSUME NEW r \in Requests, ClaimRefused(r) PROVE FilesStay
  BY <1>17 DEF FilesStay, ClaimRefused
<1>18. ASSUME NEW r \in Requests, ReadPointer(r) PROVE FilesStay
  BY <1>18 DEF FilesStay, ReadPointer
<1>19. ASSUME NEW r \in Requests, RefuseBaseline(r) PROVE FilesStay
  BY <1>19 DEF FilesStay, RefuseBaseline
<1>20. ASSUME NEW r \in Requests, SelectPublished(r) PROVE FilesStay
  <2>1. SelectPublished(r) /\ ScoresInv /\ RequestKnows(r)
    BY <1>20 DEF ScoresInv
  <2> QED
    BY <2>1, PublishedDocument DEF FilesStay, SelectPublished, ScoresInv
<1>21. ASSUME NEW r \in Requests, MakeDirectory(r) PROVE FilesStay
  BY <1>21 DEF FilesStay, MakeDirectory
<1>22. ASSUME NEW r \in Requests, RefuseDirectory(r) PROVE FilesStay
  BY <1>22 DEF FilesStay, RefuseDirectory
<1>23. ASSUME NEW r \in Requests, MakeVariant(r) PROVE FilesStay
  BY <1>23 DEF FilesStay, MakeVariant
<1>24. ASSUME NEW r \in Requests, VariantFails(r) PROVE FilesStay
  BY <1>24 DEF FilesStay, VariantFails
<1>25. ASSUME NEW r \in Requests, AddToManifest(r) PROVE FilesStay
  <2>1. AddToManifest(r) /\ ScoresInv /\ RequestKnows(r)
    BY <1>25 DEF ScoresInv
  <2> QED
    BY <2>1, AddedManifest DEF FilesStay, AddToManifest, ScoresInv, TypeOK
<1>26. ASSUME NEW r \in Requests, PublishVariant(r) PROVE FilesStay
  <2>1. PublishVariant(r) /\ ScoresInv /\ RequestKnows(r)
    BY <1>26 DEF ScoresInv
  <2> QED
    BY <2>1, PublishedDocument DEF FilesStay, PublishVariant, ScoresInv
<1>27. ASSUME NEW r \in Requests, Answer(r) PROVE FilesStay
  BY <1>27 DEF FilesStay, Answer
<1>28. ASSUME NEW r \in Requests, RequestLosesDirectory(r) PROVE FilesStay
  BY <1>28 DEF FilesStay, RequestLosesDirectory
<1>29. ASSUME NEW r \in Requests, AskAgain(r) PROVE FilesStay
  BY <1>29 DEF FilesStay, AskAgain
<1> QED
  BY <1>1, <1>2, <1>3, <1>4, <1>5, <1>6, <1>7, <1>8, <1>9, <1>10, <1>11, <1>12, <1>13, <1>14,
     <1>15, <1>16, <1>17, <1>18, <1>19, <1>20, <1>21, <1>22, <1>23, <1>24, <1>25, <1>26,
     <1>27, <1>28, <1>29
     DEF Next, JobStep, RequestStep

-----------------------------------------------------------------------------
(* The parts of the invariant, one by one.                                 *)

\* Every step keeps the types.
LEMMA ScoreTypesStep == ScoresInv /\ [Next]_vars => TypeOK'
<1> SUFFICES ASSUME ScoresInv, [Next]_vars PROVE TypeOK'
  OBVIOUS
<1> USE ScoreConstants DEF TypeOK, service, files, requests, trash
<1>0. TypeOK /\ JobKnows
  BY DEF ScoresInv
<1>1. CASE UNCHANGED vars
  BY <1>0, <1>1 DEF vars
<1>2. ASSUME AdvanceHorizon PROVE TypeOK'
  BY <1>0, <1>2 DEF AdvanceHorizon
<1>3. ASSUME ReadSlot PROVE TypeOK'
  BY <1>0, <1>3 DEF ReadSlot
<1>4. ASSUME TrashSession PROVE TypeOK'
  BY <1>0, <1>4 DEF TrashSession
<1>5. ASSUME Crash PROVE TypeOK'
  BY <1>0, <1>5 DEF Crash
<1>6. ASSUME RunAdapter PROVE TypeOK'
  <2>1. slot.commit \in Commits
    BY <1>0, <1>6 DEF JobKnows, RunAdapter
  <2> QED
    BY <1>0, <1>6, <2>1 DEF RunAdapter, JobGoto
<1>7. ASSUME AdapterDone PROVE TypeOK'
  <2>1. slot.commit \in Commits
    BY <1>0, <1>7 DEF JobKnows, AdapterDone
  <2> QED
    BY <1>0, <1>7, <2>1 DEF AdapterDone, JobGoto
<1>8. ASSUME JobFails PROVE TypeOK'
  BY <1>0, <1>8 DEF JobFails, JobGoto
<1>9. ASSUME PlaceAutomatic PROVE TypeOK'
  <2>1. slot.commit \in Commits /\ network \in Outputs /\ Snapshot \in Documents
    BY <1>0, <1>9, SnapshotIsDocument DEF PlaceAutomatic
  <2> QED
    BY <1>0, <1>9, <2>1 DEF Options, PlaceAutomatic, JobGoto
<1>10. ASSUME WriteManifest PROVE TypeOK'
  <2>1. slot.commit \in Commits /\ network \in Outputs /\ Snapshot \in Documents
    BY <1>0, <1>10, SnapshotIsDocument DEF WriteManifest
  <2> QED
    BY <1>0, <1>10, <2>1 DEF Options, WriteManifest, JobGoto
<1>11. ASSUME Publish PROVE TypeOK'
  <2>1. slot.commit \in Commits /\ network \in Outputs /\ Snapshot \in Documents
    BY <1>0, <1>11, SnapshotIsDocument DEF Publish
  <2> QED
    BY <1>0, <1>11, <2>1 DEF Options, Publish, JobGoto
<1>12. ASSUME JobLosesDirectory PROVE TypeOK'
  BY <1>0, <1>12 DEF JobLosesDirectory, JobGoto
<1>13. ASSUME Finish PROVE TypeOK'
  BY <1>0, <1>13 DEF Finish
<1>14. ASSUME NEW r \in Requests, ReadTarget(r) PROVE TypeOK'
  BY <1>0, <1>14 DEF ReadTarget, At, Goto, Commits
<1>15. ASSUME NEW r \in Requests, CheckSlot(r) PROVE TypeOK'
  <2>1. current.commit \in Commits
    BY <1>0, <1>15, DocumentParts DEF CheckSlot
  <2> QED
    BY <1>0, <1>15, <2>1 DEF CheckSlot, At, Goto
<1>16. ASSUME NEW r \in Requests, Claim(r) PROVE TypeOK'
  <2>1. asked[r].commit \in Commits
    BY <1>16 DEF ScoresInv, RequestKnows, Targets, Claim, At
  <2> QED
    BY <1>0, <1>16, <2>1 DEF Commits, Underway, Claim, At, End, Goto
<1>17. ASSUME NEW r \in Requests, ClaimRefused(r) PROVE TypeOK'
  BY <1>0, <1>17 DEF ClaimRefused, At, End, Goto
<1>18. ASSUME NEW r \in Requests, ReadPointer(r) PROVE TypeOK'
  <2>1. current # Nothing
    BY <1>0, <1>18 DEF ReadPointer, NamesCurrentBaseline
  <2> QED
    BY <1>0, <1>18, <2>1 DEF ReadPointer, At, Goto
<1>19. ASSUME NEW r \in Requests, RefuseBaseline(r) PROVE TypeOK'
  BY <1>0, <1>19 DEF RefuseBaseline, At, End, Goto
<1>20. ASSUME NEW r \in Requests, SelectPublished(r) PROVE TypeOK'
  <2>1. RequestKnows(r)
    BY DEF ScoresInv
  <2>2. current' \in Documents
    BY <1>0, <1>20, <2>1, PublishedDocument
  <2> QED
    BY <1>0, <1>20, <2>2 DEF SelectPublished, At, Goto
<1>21. ASSUME NEW r \in Requests, MakeDirectory(r) PROVE TypeOK'
  <2>1. Key(r) \in Commits \X Outputs \X Options
    BY <1>0, <1>21, CopyIsDocument DEF ScoresInv, Copying, MakeDirectory, At
  <2>2. Key(r) \in directories'
    BY <1>0, <1>21 DEF ScoresInv, RequestKnows, MakeDirectory, At
  <2> QED
    BY <1>0, <1>21, <2>1, <2>2 DEF MakeDirectory, At, Goto
<1>22. ASSUME NEW r \in Requests, RefuseDirectory(r) PROVE TypeOK'
  BY <1>0, <1>22 DEF RefuseDirectory, At, Goto
<1>23. ASSUME NEW r \in Requests, MakeVariant(r) PROVE TypeOK'
  <2>1. Key(r) \in Commits \X Outputs \X Options
    BY <1>0, <1>23, CopyIsDocument DEF ScoresInv, Copying, MakeVariant, At
  <2>2. Key(r) \in directories'
    BY <1>0, <1>23 DEF ScoresInv, RequestKnows, MakeVariant, At
  <2> QED
    BY <1>0, <1>23, <2>1, <2>2 DEF MakeVariant, At, Goto
<1>24. ASSUME NEW r \in Requests, VariantFails(r) PROVE TypeOK'
  BY <1>0, <1>24 DEF VariantFails, At, End, Goto
<1>25. ASSUME NEW r \in Requests, AddToManifest(r) PROVE TypeOK'
  <2>1. RequestKnows(r)
    BY DEF ScoresInv
  <2>2. manifests' \in [Commits -> Documents \cup {Nothing}]
    BY <1>0, <1>25, <2>1, AddedManifest
  <2> QED
    BY <1>0, <1>25, <2>2 DEF AddToManifest, At, Goto
<1>26. ASSUME NEW r \in Requests, PublishVariant(r) PROVE TypeOK'
  <2>1. RequestKnows(r)
    BY DEF ScoresInv
  <2>2. current' \in Documents
    BY <1>0, <1>26, <2>1, PublishedDocument
  <2> QED
    BY <1>0, <1>26, <2>2 DEF PublishVariant, At, Goto
<1>27. ASSUME NEW r \in Requests, Answer(r) PROVE TypeOK'
  BY <1>0, <1>27 DEF Answer, At, End, Goto
<1>28. ASSUME NEW r \in Requests, RequestLosesDirectory(r) PROVE TypeOK'
  BY <1>0, <1>28 DEF RequestLosesDirectory, At, End, Goto
<1>29. ASSUME NEW r \in Requests, AskAgain(r) PROVE TypeOK'
  BY <1>0, <1>29 DEF AskAgain, At, End, Goto
<1> QED
  BY <1>1, <1>2, <1>3, <1>4, <1>5, <1>6, <1>7, <1>8, <1>9, <1>10, <1>11, <1>12, <1>13, <1>14,
     <1>15, <1>16, <1>17, <1>18, <1>19, <1>20, <1>21, <1>22, <1>23, <1>24, <1>25, <1>26,
     <1>27, <1>28, <1>29
     DEF Next, JobStep, RequestStep

\* What holds of files stays when nothing is taken away.
LEMMA SoundGrows ==
  ASSUME NEW S, NEW T, S \subseteq T, NEW d, SoundIn(d, S)
  PROVE  SoundIn(d, T)
  BY DEF SoundIn

\* The job knows the same as long as its files and its place stay.
LEMMA JobFrame ==
  ASSUME ScoresInv, FilesStay, UNCHANGED <<slot, job, network, baseline, place>>
  PROVE  JobKnows'
<1>1. JobKnows /\ TypeOK
  BY DEF ScoresInv
<1> QED
  BY <1>1, SMTT(20) DEF JobKnows, TypeOK, Running, Present, FilesStay

LEMMA JobKnowsStep == ScoresInv /\ [Next]_vars => JobKnows'
<1> SUFFICES ASSUME ScoresInv, [Next]_vars PROVE JobKnows'
  OBVIOUS
<1>0. TypeOK /\ JobKnows /\ FilesStay
  BY FilesOnlyGrow DEF ScoresInv
<1>1. CASE UNCHANGED vars
  BY <1>0, <1>1, JobFrame DEF vars, service, files, trash
<1>2. ASSUME AdvanceHorizon PROVE JobKnows'
  BY <1>0, <1>2, JobFrame DEF service, files, trash, AdvanceHorizon
<1>3. ASSUME ReadSlot PROVE JobKnows'
  BY <1>0, <1>3, JobFrame DEF service, files, trash, ReadSlot
<1>4. ASSUME TrashSession PROVE JobKnows'
  BY <1>0, <1>4, SMTT(20)
     DEF JobKnows, TypeOK, Running, Present, FilesStay, service, files, trash, TrashSession
<1>5. ASSUME Crash PROVE JobKnows'
  BY <1>0, <1>5, SMTT(20)
     DEF JobKnows, TypeOK, Running, Present, FilesStay, service, files, trash, Crash
<1>6. ASSUME RunAdapter PROVE JobKnows'
  BY <1>0, <1>6, SMTT(20)
     DEF JobKnows, TypeOK, Running, Present, FilesStay, service, files, trash, RunAdapter,
         JobGoto
<1>7. ASSUME AdapterDone PROVE JobKnows'
  BY <1>0, <1>7, SMTT(20)
     DEF JobKnows, TypeOK, Running, Present, FilesStay, service, files, trash, AdapterDone,
         JobGoto
<1>8. ASSUME JobFails PROVE JobKnows'
  BY <1>0, <1>8, SMTT(20)
     DEF JobKnows, TypeOK, Running, Present, FilesStay, service, files, trash, JobFails,
         JobGoto
<1>9. ASSUME PlaceAutomatic PROVE JobKnows'
  <2>1. slot.commit \in Commits /\ network \in Outputs /\ Snapshot # Nothing
    BY <1>0, <1>9, SnapshotIsDocument DEF PlaceAutomatic
  <2> QED
    BY <1>0, <1>9, <2>1, SMTT(20)
       DEF JobKnows, TypeOK, Running, Present, service, files, requests, trash, FilesStay,
           PlaceAutomatic, JobGoto
<1>10. ASSUME WriteManifest PROVE JobKnows'
  <2>1. slot.commit \in Commits /\ network \in Outputs /\ Snapshot # Nothing
    BY <1>0, <1>10, SnapshotIsDocument DEF WriteManifest
  <2> QED
    BY <1>0, <1>10, <2>1, SMTT(20)
       DEF JobKnows, TypeOK, Running, Present, service, files, requests, trash, FilesStay,
           WriteManifest, JobGoto
<1>11. ASSUME Publish PROVE JobKnows'
  <2>1. slot.commit \in Commits /\ network \in Outputs /\ Snapshot # Nothing
    BY <1>0, <1>11, SnapshotIsDocument DEF Publish
  <2> QED
    BY <1>0, <1>11, <2>1, SMTT(20)
       DEF JobKnows, TypeOK, Running, Present, service, files, requests, trash, FilesStay,
           Publish, JobGoto
<1>12. ASSUME JobLosesDirectory PROVE JobKnows'
  BY <1>0, <1>12, SMTT(20)
     DEF JobKnows, TypeOK, Running, Present, FilesStay, service, files, trash,
         JobLosesDirectory, JobGoto
<1>13. ASSUME Finish PROVE JobKnows'
  BY <1>0, <1>13, SMTT(20)
     DEF JobKnows, TypeOK, Running, Present, FilesStay, service, files, trash, Finish
<1>14. ASSUME NEW r \in Requests, ReadTarget(r) PROVE JobKnows'
  BY <1>0, <1>14, JobFrame DEF service, files, trash, ReadTarget
<1>15. ASSUME NEW r \in Requests, CheckSlot(r) PROVE JobKnows'
  BY <1>0, <1>15, JobFrame DEF service, files, trash, CheckSlot
<1>16. ASSUME NEW r \in Requests, Claim(r) PROVE JobKnows'
  <2>1. asked[r].commit \in Commits
    BY <1>16 DEF ScoresInv, RequestKnows, Targets, Claim, At
  <2> QED
    BY <1>0, <1>16, <2>1, SMTT(20) DEF JobKnows, TypeOK, Running, Present, files, trash, Claim
<1>17. ASSUME NEW r \in Requests, ClaimRefused(r) PROVE JobKnows'
  BY <1>0, <1>17, JobFrame DEF service, files, trash, ClaimRefused
<1>18. ASSUME NEW r \in Requests, ReadPointer(r) PROVE JobKnows'
  BY <1>0, <1>18, JobFrame DEF service, files, trash, ReadPointer
<1>19. ASSUME NEW r \in Requests, RefuseBaseline(r) PROVE JobKnows'
  BY <1>0, <1>19, JobFrame DEF service, files, trash, RefuseBaseline
<1>20. ASSUME NEW r \in Requests, SelectPublished(r) PROVE JobKnows'
  BY <1>0, <1>20, JobFrame DEF service, files, trash, SelectPublished
<1>21. ASSUME NEW r \in Requests, MakeDirectory(r) PROVE JobKnows'
  BY <1>0, <1>21, JobFrame DEF service, files, trash, MakeDirectory
<1>22. ASSUME NEW r \in Requests, RefuseDirectory(r) PROVE JobKnows'
  BY <1>0, <1>22, JobFrame DEF service, files, trash, RefuseDirectory
<1>23. ASSUME NEW r \in Requests, MakeVariant(r) PROVE JobKnows'
  BY <1>0, <1>23, JobFrame DEF service, files, trash, MakeVariant
<1>24. ASSUME NEW r \in Requests, VariantFails(r) PROVE JobKnows'
  BY <1>0, <1>24, JobFrame DEF service, files, trash, VariantFails
<1>25. ASSUME NEW r \in Requests, AddToManifest(r) PROVE JobKnows'
  BY <1>0, <1>25, JobFrame DEF service, files, trash, AddToManifest
<1>26. ASSUME NEW r \in Requests, PublishVariant(r) PROVE JobKnows'
  BY <1>0, <1>26, JobFrame DEF service, files, trash, PublishVariant
<1>27. ASSUME NEW r \in Requests, Answer(r) PROVE JobKnows'
  BY <1>0, <1>27, JobFrame DEF service, files, trash, Answer
<1>28. ASSUME NEW r \in Requests, RequestLosesDirectory(r) PROVE JobKnows'
  BY <1>0, <1>28, JobFrame DEF service, files, trash, RequestLosesDirectory
<1>29. ASSUME NEW r \in Requests, AskAgain(r) PROVE JobKnows'
  BY <1>0, <1>29, JobFrame DEF service, files, trash, AskAgain
<1> QED
  BY <1>1, <1>2, <1>3, <1>4, <1>5, <1>6, <1>7, <1>8, <1>9, <1>10, <1>11, <1>12, <1>13, <1>14,
     <1>15, <1>16, <1>17, <1>18, <1>19, <1>20, <1>21, <1>22, <1>23, <1>24, <1>25, <1>26,
     <1>27, <1>28, <1>29
     DEF Next, JobStep, RequestStep

\* Lists stay true as long as nobody writes one.
LEMMA FilesFrame ==
  ASSUME ScoresInv, FilesStay, UNCHANGED <<manifests, current>>
  PROVE  FilesKnown'
<1>1. FilesKnown /\ scores \subseteq scores'
  BY DEF ScoresInv, FilesStay
<1> QED
  BY <1>1, SoundGrows DEF FilesKnown, IsSound

LEMMA FilesKnownStep == ScoresInv /\ [Next]_vars => FilesKnown'
<1> SUFFICES ASSUME ScoresInv, [Next]_vars PROVE FilesKnown'
  OBVIOUS
<1>0. /\ TypeOK /\ JobKnows /\ FilesKnown /\ FilesStay
      /\ \A r \in Requests : RequestKnows(r)
  BY FilesOnlyGrow DEF ScoresInv
<1>1. CASE UNCHANGED vars
  BY <1>0, <1>1, FilesFrame DEF vars, files
<1>2. ASSUME AdvanceHorizon PROVE FilesKnown'
  BY <1>0, <1>2, FilesFrame DEF files, AdvanceHorizon
<1>3. ASSUME ReadSlot PROVE FilesKnown'
  BY <1>0, <1>3, FilesFrame DEF files, ReadSlot
<1>4. ASSUME TrashSession PROVE FilesKnown'
  BY <1>0, <1>4, FilesFrame DEF files, TrashSession
<1>5. ASSUME Crash PROVE FilesKnown'
  BY <1>0, <1>5, FilesFrame DEF files, Crash
<1>6. ASSUME RunAdapter PROVE FilesKnown'
  BY <1>0, <1>6, FilesFrame DEF files, RunAdapter, JobGoto
<1>7. ASSUME AdapterDone PROVE FilesKnown'
  BY <1>0, <1>7, FilesFrame DEF files, AdapterDone, JobGoto
<1>8. ASSUME JobFails PROVE FilesKnown'
  BY <1>0, <1>8, FilesFrame DEF files, JobFails, JobGoto
<1>9. ASSUME PlaceAutomatic PROVE FilesKnown'
  BY <1>0, <1>9, FilesFrame DEF files, PlaceAutomatic, JobGoto
<1>10. ASSUME WriteManifest PROVE FilesKnown'
  <2>1. /\ slot.commit \in Commits /\ Snapshot # Nothing /\ Snapshot.commit = slot.commit
        /\ Snapshot.baseline = network /\ Snapshot.variants = {"automatic"}
        /\ Snapshot.selected = "automatic"
    BY <1>0, <1>10, SnapshotIsDocument DEF WriteManifest
  <2>2. <<slot.commit, network, "automatic">> \in scores
    BY <1>0, <1>10 DEF JobKnows, WriteManifest
  <2>3. SoundIn(Snapshot, scores)
    BY <2>1, <2>2 DEF SoundIn
  <2>4. /\ manifests' = [manifests EXCEPT ![slot.commit] = Snapshot]
        /\ UNCHANGED <<current, scores>>
    BY <1>10 DEF WriteManifest
  <2> HIDE DEF Snapshot
  <2> QED
    BY <1>0, <2>1, <2>3, <2>4 DEF FilesKnown, IsSound, TypeOK, FilesStay
<1>11. ASSUME Publish PROVE FilesKnown'
  <2>1. /\ slot.commit \in Commits /\ Snapshot # Nothing /\ Snapshot.commit = slot.commit
        /\ Snapshot.baseline = network /\ Snapshot.variants = {"automatic"}
        /\ Snapshot.selected = "automatic"
    BY <1>0, <1>11, SnapshotIsDocument DEF Publish
  <2>2. <<slot.commit, network, "automatic">> \in scores /\ manifests[slot.commit] # Nothing
    BY <1>0, <1>11 DEF JobKnows, Publish
  <2>3. SoundIn(Snapshot, scores)
    BY <2>1, <2>2 DEF SoundIn
  <2>4. current' = Snapshot /\ UNCHANGED <<manifests, scores>>
    BY <1>11 DEF Publish
  <2> QED
    BY <1>0, <2>1, <2>2, <2>3, <2>4 DEF FilesKnown, IsSound
<1>12. ASSUME JobLosesDirectory PROVE FilesKnown'
  BY <1>0, <1>12, FilesFrame DEF files, JobLosesDirectory, JobGoto
<1>13. ASSUME Finish PROVE FilesKnown'
  BY <1>0, <1>13, FilesFrame DEF files, Finish
<1>14. ASSUME NEW r \in Requests, ReadTarget(r) PROVE FilesKnown'
  BY <1>0, <1>14, FilesFrame DEF files, ReadTarget
<1>15. ASSUME NEW r \in Requests, CheckSlot(r) PROVE FilesKnown'
  BY <1>0, <1>15, FilesFrame DEF files, CheckSlot
<1>16. ASSUME NEW r \in Requests, Claim(r) PROVE FilesKnown'
  BY <1>0, <1>16, FilesFrame DEF files, Claim
<1>17. ASSUME NEW r \in Requests, ClaimRefused(r) PROVE FilesKnown'
  BY <1>0, <1>17, FilesFrame DEF files, ClaimRefused
<1>18. ASSUME NEW r \in Requests, ReadPointer(r) PROVE FilesKnown'
  BY <1>0, <1>18, FilesFrame DEF files, ReadPointer
<1>19. ASSUME NEW r \in Requests, RefuseBaseline(r) PROVE FilesKnown'
  BY <1>0, <1>19, FilesFrame DEF files, RefuseBaseline
<1>20. ASSUME NEW r \in Requests, SelectPublished(r) PROVE FilesKnown'
  <2>1. /\ IsSound(copy[r]) /\ asked[r].option \in Options
        /\ manifests[copy[r].commit] # Nothing
    BY <1>0, <1>20, CopyIsDocument DEF SelectPublished, At, Copying
  <2>2. /\ current' # Nothing /\ current'.commit = copy[r].commit
        /\ current'.baseline = copy[r].baseline /\ current'.selected = asked[r].option
        /\ current'.variants = copy[r].variants \cup (IF SelectPublished(r) THEN {} ELSE {asked[r].option})
    BY <1>0, <1>20, PublishedDocument
  <2>3. UNCHANGED <<manifests, scores>>
    BY <1>20 DEF SelectPublished
  <2>4. asked[r].option \in copy[r].variants \cup {"baseline"}
    BY <1>20 DEF SelectPublished, Published
  <2>5. SoundIn(current', scores)
    BY <1>20, <2>1, <2>2, <2>4 DEF IsSound, SoundIn
  <2> QED
    BY <1>0, <2>1, <2>2, <2>3, <2>5 DEF FilesKnown, IsSound
<1>21. ASSUME NEW r \in Requests, MakeDirectory(r) PROVE FilesKnown'
  BY <1>0, <1>21, FilesFrame DEF files, MakeDirectory
<1>22. ASSUME NEW r \in Requests, RefuseDirectory(r) PROVE FilesKnown'
  BY <1>0, <1>22, FilesFrame DEF files, RefuseDirectory
<1>23. ASSUME NEW r \in Requests, MakeVariant(r) PROVE FilesKnown'
  BY <1>0, <1>23, FilesFrame DEF files, MakeVariant
<1>24. ASSUME NEW r \in Requests, VariantFails(r) PROVE FilesKnown'
  BY <1>0, <1>24, FilesFrame DEF files, VariantFails
<1>25. ASSUME NEW r \in Requests, AddToManifest(r) PROVE FilesKnown'
  <2> DEFINE c == copy[r].commit
             d == Document(manifests[c].commit, copy[r].baseline,
                           copy[r].variants \cup {asked[r].option}, manifests[c].selected)
  <2>1. manifests' = [manifests EXCEPT ![c] = d] /\ d \in Documents /\ d # Nothing
    BY <1>0, <1>25, AddedManifest
  <2>2. /\ c \in Commits /\ manifests[c] # Nothing /\ manifests[c] \in Documents
        /\ IsSound(copy[r]) /\ copy[r] \in Documents /\ asked[r].option \in Options
    BY <1>0, <1>25, CopyIsDocument DEF AddToManifest, At, Copying
  <2>3. manifests[c].commit = c /\ manifests[c].selected = "automatic"
    BY <1>0, <2>2 DEF FilesKnown
  <2>4. <<c, copy[r].baseline, asked[r].option>> \in scores /\ asked[r].option # "baseline"
    BY <1>0, <1>25 DEF RequestKnows, AddToManifest, At, Key, Published
  <2>5. /\ d.commit = c /\ d.baseline = copy[r].baseline /\ d.selected = "automatic"
        /\ d.variants = copy[r].variants \cup {asked[r].option}
    BY <2>3 DEF Document
  <2> HIDE DEF c, d
  <2>6. SoundIn(d, scores)
    BY <2>2, <2>4, <2>5 DEF IsSound, SoundIn, c
  <2>7. UNCHANGED <<current, scores>>
    BY <1>25 DEF AddToManifest
  <2> QED
    BY <1>0, <2>1, <2>2, <2>5, <2>6, <2>7 DEF FilesKnown, IsSound, TypeOK, FilesStay
<1>26. ASSUME NEW r \in Requests, PublishVariant(r) PROVE FilesKnown'
  <2>1. /\ IsSound(copy[r]) /\ asked[r].option \in Options
        /\ manifests[copy[r].commit] # Nothing
    BY <1>0, <1>26, CopyIsDocument DEF PublishVariant, At, Copying
  <2>2. /\ current' # Nothing /\ current'.commit = copy[r].commit
        /\ current'.baseline = copy[r].baseline /\ current'.selected = asked[r].option
        /\ current'.variants = copy[r].variants \cup (IF SelectPublished(r) THEN {} ELSE {asked[r].option})
    BY <1>0, <1>26, PublishedDocument
  <2>3. UNCHANGED <<manifests, scores>>
    BY <1>26 DEF PublishVariant
  <2>4. /\ <<copy[r].commit, copy[r].baseline, asked[r].option>> \in scores
        /\ asked[r].option # "baseline" /\ ~SelectPublished(r)
    BY <1>0, <1>26 DEF RequestKnows, PublishVariant, SelectPublished, At, Key, Published
  <2>5. SoundIn(current', scores)
    BY <2>1, <2>2, <2>4 DEF IsSound, SoundIn
  <2> QED
    BY <1>0, <2>1, <2>2, <2>3, <2>5 DEF FilesKnown, IsSound
<1>27. ASSUME NEW r \in Requests, Answer(r) PROVE FilesKnown'
  BY <1>0, <1>27, FilesFrame DEF files, Answer
<1>28. ASSUME NEW r \in Requests, RequestLosesDirectory(r) PROVE FilesKnown'
  BY <1>0, <1>28, FilesFrame DEF files, RequestLosesDirectory
<1>29. ASSUME NEW r \in Requests, AskAgain(r) PROVE FilesKnown'
  BY <1>0, <1>29, FilesFrame DEF files, AskAgain
<1> QED
  BY <1>1, <1>2, <1>3, <1>4, <1>5, <1>6, <1>7, <1>8, <1>9, <1>10, <1>11, <1>12, <1>13, <1>14,
     <1>15, <1>16, <1>17, <1>18, <1>19, <1>20, <1>21, <1>22, <1>23, <1>24, <1>25, <1>26,
     <1>27, <1>28, <1>29
     DEF Next, JobStep, RequestStep

\* What a request knows stays as long as it does nothing itself.
LEMMA RequestFrame ==
  ASSUME ScoresInv, FilesStay, NEW r \in Requests,
         pc'[r] = pc[r], asked'[r] = asked[r], copy'[r] = copy[r]
  PROVE  RequestKnows(r)'
<1>1. TypeOK /\ RequestKnows(r)
  BY DEF ScoresInv
<1>2. pc[r] \in Copying => copy[r].commit \in Commits
  BY <1>1, CopyIsDocument
<1>3. IsSound(copy[r]) => SoundIn(copy[r], scores')
  BY SoundGrows DEF IsSound, FilesStay
<1>4. UNCHANGED <<Key(r), Published(r)>>
  BY DEF Key, Published
<1> QED
  BY <1>1, <1>2, <1>3, <1>4 DEF RequestKnows, IsSound, FilesStay, Copying

\* An idle request knows nothing.
LEMMA IdleKnows ==
  ASSUME NEW r \in Requests, pc'[r] = "idle"
  PROVE  RequestKnows(r)'
  BY DEF RequestKnows, Copying

LEMMA RequestKnowsStep == ScoresInv /\ [Next]_vars => (\A r \in Requests : RequestKnows(r))'
<1> SUFFICES ASSUME ScoresInv, [Next]_vars, NEW q \in Requests PROVE RequestKnows(q)'
  OBVIOUS
<1>0. /\ TypeOK /\ JobKnows /\ FilesKnown /\ FilesStay
      /\ \A r \in Requests : RequestKnows(r)
  BY FilesOnlyGrow DEF ScoresInv
<1>1. CASE UNCHANGED vars
  BY <1>0, <1>1, RequestFrame DEF vars, requests
<1>2. ASSUME AdvanceHorizon PROVE RequestKnows(q)'
  BY <1>0, <1>2, RequestFrame DEF requests, AdvanceHorizon
<1>3. ASSUME ReadSlot PROVE RequestKnows(q)'
  BY <1>0, <1>3, RequestFrame DEF requests, ReadSlot
<1>4. ASSUME TrashSession PROVE RequestKnows(q)'
  BY <1>0, <1>4, RequestFrame DEF requests, TrashSession
<1>5. ASSUME Crash PROVE RequestKnows(q)'
  BY <1>5, IdleKnows DEF Crash
<1>6. ASSUME RunAdapter PROVE RequestKnows(q)'
  BY <1>0, <1>6, RequestFrame DEF requests, RunAdapter, JobGoto
<1>7. ASSUME AdapterDone PROVE RequestKnows(q)'
  BY <1>0, <1>7, RequestFrame DEF requests, AdapterDone, JobGoto
<1>8. ASSUME JobFails PROVE RequestKnows(q)'
  BY <1>0, <1>8, RequestFrame DEF requests, JobFails, JobGoto
<1>9. ASSUME PlaceAutomatic PROVE RequestKnows(q)'
  BY <1>0, <1>9, RequestFrame DEF requests, PlaceAutomatic, JobGoto
<1>10. ASSUME WriteManifest PROVE RequestKnows(q)'
  BY <1>0, <1>10, RequestFrame DEF requests, WriteManifest, JobGoto
<1>11. ASSUME Publish PROVE RequestKnows(q)'
  BY <1>0, <1>11, RequestFrame DEF requests, Publish, JobGoto
<1>12. ASSUME JobLosesDirectory PROVE RequestKnows(q)'
  BY <1>0, <1>12, RequestFrame DEF requests, JobLosesDirectory, JobGoto
<1>13. ASSUME Finish PROVE RequestKnows(q)'
  BY <1>0, <1>13, RequestFrame DEF requests, Finish
<1>14. ASSUME NEW r \in Requests, ReadTarget(r) PROVE RequestKnows(q)'
  <2>1. CASE q # r
    BY <1>0, <1>14, <2>1, RequestFrame DEF TypeOK, ReadTarget, Goto
  <2>2. CASE q = r
    <3>1. pc'[r] = "claim" /\ asked'[r] \in Targets
      BY <1>0, <1>14, ScoreConstants DEF TypeOK, Targets, Commits, ReadTarget, At, Goto
    <3> QED
      BY <2>2, <3>1 DEF RequestKnows, Copying
  <2> QED
    BY <2>1, <2>2
<1>15. ASSUME NEW r \in Requests, CheckSlot(r) PROVE RequestKnows(q)'
  <2>1. CASE q # r
    BY <1>0, <1>15, <2>1, RequestFrame DEF TypeOK, CheckSlot, Goto
  <2>2. CASE q = r
    <3>0. current.commit \in Commits
      BY <1>0, <1>15, DocumentParts DEF TypeOK, CheckSlot
    <3>1. pc'[r] = "read" /\ asked'[r] \in Targets /\ asked'[r].option \in Options
      BY <1>0, <1>15, <3>0 DEF TypeOK, Targets, CheckSlot, At, Goto
    <3> QED
      BY <2>2, <3>1 DEF RequestKnows, Copying
  <2> QED
    BY <2>1, <2>2
<1>16. ASSUME NEW r \in Requests, Claim(r) PROVE RequestKnows(q)'
  <2>1. CASE q # r
    BY <1>0, <1>16, <2>1, RequestFrame DEF TypeOK, Claim, End, Goto
  <2>2. CASE q = r
    BY <1>0, <1>16, <2>2, IdleKnows DEF TypeOK, Claim, End, Goto
  <2> QED
    BY <2>1, <2>2
<1>17. ASSUME NEW r \in Requests, ClaimRefused(r) PROVE RequestKnows(q)'
  <2>1. CASE q # r
    BY <1>0, <1>17, <2>1, RequestFrame DEF TypeOK, ClaimRefused, End, Goto
  <2>2. CASE q = r
    BY <1>0, <1>17, <2>2, IdleKnows DEF TypeOK, ClaimRefused, End, Goto
  <2> QED
    BY <2>1, <2>2
<1>18. ASSUME NEW r \in Requests, ReadPointer(r) PROVE RequestKnows(q)'
  <2>1. CASE q # r
    BY <1>0, <1>18, <2>1, RequestFrame DEF TypeOK, ReadPointer, Goto
  <2>2. CASE q = r
    <3>1. /\ pc'[r] = "choose" /\ copy'[r] = current /\ current # Nothing
          /\ asked'[r] = asked[r] /\ pc[r] = "read"
      BY <1>0, <1>18 DEF TypeOK, NamesCurrentBaseline, ReadPointer, At, Goto
    <3>2. /\ asked[r] \in Targets /\ asked[r].option \in Options
          /\ SoundIn(current, scores') /\ manifests[current.commit] # Nothing /\ current.commit \in Commits
      BY <1>0, <3>1, DocumentParts, SoundGrows
         DEF RequestKnows, FilesKnown, IsSound, FilesStay, TypeOK
    <3> QED
      BY <1>0, <2>2, <3>1, <3>2 DEF RequestKnows, IsSound, Copying, FilesStay
  <2> QED
    BY <2>1, <2>2
<1>19. ASSUME NEW r \in Requests, RefuseBaseline(r) PROVE RequestKnows(q)'
  <2>1. CASE q # r
    BY <1>0, <1>19, <2>1, RequestFrame DEF TypeOK, RefuseBaseline, End, Goto
  <2>2. CASE q = r
    BY <1>0, <1>19, <2>2, IdleKnows DEF TypeOK, RefuseBaseline, End, Goto
  <2> QED
    BY <2>1, <2>2
<1>20. ASSUME NEW r \in Requests, SelectPublished(r) PROVE RequestKnows(q)'
  <2>1. CASE q # r
    BY <1>0, <1>20, <2>1, RequestFrame DEF TypeOK, SelectPublished, Goto
  <2>2. CASE q = r
    <3>1. /\ pc'[r] = "answer" /\ pc[r] \in Copying
          /\ copy'[r] = copy[r] /\ asked'[r] = asked[r]
      BY <1>0, <1>20 DEF TypeOK, Copying, SelectPublished, At, Goto
    <3>2. /\ copy[r] \in Documents /\ asked[r] \in Targets /\ asked[r].option \in Options
          /\ copy[r] # Nothing /\ SoundIn(copy[r], scores')
          /\ manifests[copy[r].commit] # Nothing /\ copy[r].commit \in Commits
      BY <1>0, <3>1, CopyIsDocument, DocumentParts, SoundGrows DEF IsSound, FilesStay
    <3>3. Key(r)' = Key(r) /\ Published(r)' = Published(r)
      BY <3>1 DEF Key, Published
    <3>4. current' # Nothing
      BY <1>0, <1>20, PublishedDocument
    <3> QED
      BY <1>0, <2>2, <3>1, <3>2, <3>3, <3>4 DEF RequestKnows, IsSound, Copying, FilesStay
  <2> QED
    BY <2>1, <2>2
<1>21. ASSUME NEW r \in Requests, MakeDirectory(r) PROVE RequestKnows(q)'
  <2>1. CASE q # r
    BY <1>0, <1>21, <2>1, RequestFrame DEF TypeOK, MakeDirectory, Goto
  <2>2. CASE q = r
    <3>1. /\ pc'[r] = "make" /\ pc[r] \in Copying
          /\ copy'[r] = copy[r] /\ asked'[r] = asked[r]
      BY <1>0, <1>21 DEF TypeOK, Copying, MakeDirectory, At, Goto
    <3>2. /\ copy[r] \in Documents /\ asked[r] \in Targets /\ asked[r].option \in Options
          /\ copy[r] # Nothing /\ SoundIn(copy[r], scores')
          /\ manifests[copy[r].commit] # Nothing /\ copy[r].commit \in Commits
      BY <1>0, <3>1, CopyIsDocument, DocumentParts, SoundGrows DEF IsSound, FilesStay
    <3>3. Key(r)' = Key(r) /\ Published(r)' = Published(r)
      BY <3>1 DEF Key, Published
    <3>4. Key(r) \in directories' /\ ~Published(r)
      BY <1>0, <1>21 DEF RequestKnows, FilesStay, MakeDirectory, At, Goto
    <3> QED
      BY <1>0, <2>2, <3>1, <3>2, <3>3, <3>4 DEF RequestKnows, IsSound, Copying, FilesStay
  <2> QED
    BY <2>1, <2>2
<1>22. ASSUME NEW r \in Requests, RefuseDirectory(r) PROVE RequestKnows(q)'
  <2>1. CASE q # r
    BY <1>0, <1>22, <2>1, RequestFrame DEF TypeOK, RefuseDirectory, Goto
  <2>2. CASE q = r
    <3>1. /\ pc'[r] = "refused" /\ pc[r] \in Copying
          /\ copy'[r] = copy[r] /\ asked'[r] = asked[r]
      BY <1>0, <1>22 DEF TypeOK, Copying, RefuseDirectory, At, Goto
    <3>2. /\ copy[r] \in Documents /\ asked[r] \in Targets /\ asked[r].option \in Options
          /\ copy[r] # Nothing /\ SoundIn(copy[r], scores')
          /\ manifests[copy[r].commit] # Nothing /\ copy[r].commit \in Commits
      BY <1>0, <3>1, CopyIsDocument, DocumentParts, SoundGrows DEF IsSound, FilesStay
    <3>3. Key(r)' = Key(r) /\ Published(r)' = Published(r)
      BY <3>1 DEF Key, Published
    <3> QED
      BY <1>0, <2>2, <3>1, <3>2, <3>3 DEF RequestKnows, IsSound, Copying, FilesStay
  <2> QED
    BY <2>1, <2>2
<1>23. ASSUME NEW r \in Requests, MakeVariant(r) PROVE RequestKnows(q)'
  <2>1. CASE q # r
    BY <1>0, <1>23, <2>1, RequestFrame DEF TypeOK, MakeVariant, Goto
  <2>2. CASE q = r
    <3>1. /\ pc'[r] = "manifest" /\ pc[r] \in Copying
          /\ copy'[r] = copy[r] /\ asked'[r] = asked[r]
      BY <1>0, <1>23 DEF TypeOK, Copying, MakeVariant, At, Goto
    <3>2. /\ copy[r] \in Documents /\ asked[r] \in Targets /\ asked[r].option \in Options
          /\ copy[r] # Nothing /\ SoundIn(copy[r], scores')
          /\ manifests[copy[r].commit] # Nothing /\ copy[r].commit \in Commits
      BY <1>0, <3>1, CopyIsDocument, DocumentParts, SoundGrows DEF IsSound, FilesStay
    <3>3. Key(r)' = Key(r) /\ Published(r)' = Published(r)
      BY <3>1 DEF Key, Published
    <3>4. Key(r) \in scores' /\ Key(r) \in directories' /\ ~Published(r)
      BY <1>0, <1>23 DEF RequestKnows, FilesStay, MakeVariant, At, Goto
    <3> QED
      BY <1>0, <2>2, <3>1, <3>2, <3>3, <3>4 DEF RequestKnows, IsSound, Copying, FilesStay
  <2> QED
    BY <2>1, <2>2
<1>24. ASSUME NEW r \in Requests, VariantFails(r) PROVE RequestKnows(q)'
  <2>1. CASE q # r
    BY <1>0, <1>24, <2>1, RequestFrame DEF TypeOK, VariantFails, End, Goto
  <2>2. CASE q = r
    BY <1>0, <1>24, <2>2, IdleKnows DEF TypeOK, VariantFails, End, Goto
  <2> QED
    BY <2>1, <2>2
<1>25. ASSUME NEW r \in Requests, AddToManifest(r) PROVE RequestKnows(q)'
  <2>1. CASE q # r
    BY <1>0, <1>25, <2>1, RequestFrame DEF TypeOK, AddToManifest, Goto
  <2>2. CASE q = r
    <3>1. /\ pc'[r] = "publish" /\ pc[r] \in Copying
          /\ copy'[r] = copy[r] /\ asked'[r] = asked[r]
      BY <1>0, <1>25 DEF TypeOK, Copying, AddToManifest, At, Goto
    <3>2. /\ copy[r] \in Documents /\ asked[r] \in Targets /\ asked[r].option \in Options
          /\ copy[r] # Nothing /\ SoundIn(copy[r], scores')
          /\ manifests[copy[r].commit] # Nothing /\ copy[r].commit \in Commits
      BY <1>0, <3>1, CopyIsDocument, DocumentParts, SoundGrows DEF IsSound, FilesStay
    <3>3. Key(r)' = Key(r) /\ Published(r)' = Published(r)
      BY <3>1 DEF Key, Published
    <3>4. Key(r) \in scores' /\ Key(r) \in directories' /\ ~Published(r)
      BY <1>0, <1>25 DEF RequestKnows, FilesStay, AddToManifest, At, Goto
    <3> QED
      BY <1>0, <2>2, <3>1, <3>2, <3>3, <3>4 DEF RequestKnows, IsSound, Copying, FilesStay
  <2> QED
    BY <2>1, <2>2
<1>26. ASSUME NEW r \in Requests, PublishVariant(r) PROVE RequestKnows(q)'
  <2>1. CASE q # r
    BY <1>0, <1>26, <2>1, RequestFrame DEF TypeOK, PublishVariant, Goto
  <2>2. CASE q = r
    <3>1. /\ pc'[r] = "answer" /\ pc[r] \in Copying
          /\ copy'[r] = copy[r] /\ asked'[r] = asked[r]
      BY <1>0, <1>26 DEF TypeOK, Copying, PublishVariant, At, Goto
    <3>2. /\ copy[r] \in Documents /\ asked[r] \in Targets /\ asked[r].option \in Options
          /\ copy[r] # Nothing /\ SoundIn(copy[r], scores')
          /\ manifests[copy[r].commit] # Nothing /\ copy[r].commit \in Commits
      BY <1>0, <3>1, CopyIsDocument, DocumentParts, SoundGrows DEF IsSound, FilesStay
    <3>3. Key(r)' = Key(r) /\ Published(r)' = Published(r)
      BY <3>1 DEF Key, Published
    <3>4. current' # Nothing
      BY <1>0, <1>26, PublishedDocument
    <3> QED
      BY <1>0, <2>2, <3>1, <3>2, <3>3, <3>4 DEF RequestKnows, IsSound, Copying, FilesStay
  <2> QED
    BY <2>1, <2>2
<1>27. ASSUME NEW r \in Requests, Answer(r) PROVE RequestKnows(q)'
  <2>1. CASE q # r
    BY <1>0, <1>27, <2>1, RequestFrame DEF TypeOK, Answer, End, Goto
  <2>2. CASE q = r
    <3>1. CASE pc'[r] = "idle"
      BY <2>2, <3>1, IdleKnows
    <3>2. CASE pc'[r] # "idle"
      <4>1. /\ pc'[r] = "unanswered" /\ pc[r] \in Copying
            /\ copy'[r] = copy[r] /\ asked'[r] = asked[r]
        BY <1>0, <1>27, <3>2 DEF TypeOK, Copying, Answer, At, End, Goto
      <4>2. /\ copy[r] \in Documents /\ asked[r] \in Targets /\ asked[r].option \in Options
            /\ copy[r] # Nothing /\ SoundIn(copy[r], scores')
            /\ manifests[copy[r].commit] # Nothing /\ copy[r].commit \in Commits
        BY <1>0, <4>1, CopyIsDocument, DocumentParts, SoundGrows DEF IsSound, FilesStay
      <4>3. Key(r)' = Key(r) /\ Published(r)' = Published(r)
        BY <4>1 DEF Key, Published
      <4> QED
        BY <1>0, <2>2, <4>1, <4>2, <4>3 DEF RequestKnows, IsSound, Copying, FilesStay
    <3> QED
      BY <3>1, <3>2
  <2> QED
    BY <2>1, <2>2
<1>28. ASSUME NEW r \in Requests, RequestLosesDirectory(r) PROVE RequestKnows(q)'
  <2>1. CASE q # r
    BY <1>0, <1>28, <2>1, RequestFrame DEF TypeOK, RequestLosesDirectory, End, Goto
  <2>2. CASE q = r
    BY <1>0, <1>28, <2>2, IdleKnows DEF TypeOK, RequestLosesDirectory, End, Goto
  <2> QED
    BY <2>1, <2>2
<1>29. ASSUME NEW r \in Requests, AskAgain(r) PROVE RequestKnows(q)'
  <2>1. CASE q # r
    BY <1>0, <1>29, <2>1, RequestFrame DEF TypeOK, AskAgain, End, Goto
  <2>2. CASE q = r
    BY <1>0, <1>29, <2>2, IdleKnows DEF TypeOK, AskAgain, End, Goto
  <2> QED
    BY <2>1, <2>2
<1> QED
  BY <1>1, <1>2, <1>3, <1>4, <1>5, <1>6, <1>7, <1>8, <1>9, <1>10, <1>11, <1>12, <1>13, <1>14,
     <1>15, <1>16, <1>17, <1>18, <1>19, <1>20, <1>21, <1>22, <1>23, <1>24, <1>25, <1>26,
     <1>27, <1>28, <1>29
     DEF Next, JobStep, RequestStep

\* Whoever was not overtaken still sees no job and the newest snapshot.
LEMMA LooksHoldStep == ScoresInv /\ [Next]_vars => LooksHold'
<1> SUFFICES ASSUME ScoresInv, [Next]_vars PROVE LooksHold'
  OBVIOUS
<1>0. TypeOK /\ JobKnows /\ LooksHold
  BY DEF ScoresInv
<1>1. CASE UNCHANGED vars
  BY <1>0, <1>1 DEF vars, service, requests, trash, LooksHold, Running, ShowsNewest
<1>2. ASSUME AdvanceHorizon PROVE LooksHold'
  BY <1>0, <1>2, SMTT(20)
     DEF TypeOK, JobKnows, LooksHold, Running, ShowsNewest, Admitted, service, requests,
         trash, At, AdvanceHorizon
<1>3. ASSUME ReadSlot PROVE LooksHold'
  BY <1>0, <1>3, ScoreConstants, SMTT(20)
     DEF TypeOK, JobKnows, LooksHold, Running, ShowsNewest, Admitted, service, requests,
         trash, At, ReadSlot
<1>4. ASSUME TrashSession PROVE LooksHold'
  BY <1>0, <1>4, SMTT(20)
     DEF TypeOK, JobKnows, LooksHold, Running, ShowsNewest, Admitted, service, requests,
         trash, At, TrashSession
<1>5. ASSUME Crash PROVE LooksHold'
  BY <1>0, <1>5, SMTT(20)
     DEF TypeOK, JobKnows, LooksHold, Running, ShowsNewest, Admitted, service, requests,
         trash, At, Crash
<1>6. ASSUME RunAdapter PROVE LooksHold'
  BY <1>0, <1>6, SMTT(20)
     DEF TypeOK, JobKnows, LooksHold, Running, ShowsNewest, Admitted, service, requests,
         trash, At, RunAdapter, JobGoto
<1>7. ASSUME AdapterDone PROVE LooksHold'
  BY <1>0, <1>7, SMTT(20)
     DEF TypeOK, JobKnows, LooksHold, Running, ShowsNewest, Admitted, service, requests,
         trash, At, AdapterDone, JobGoto
<1>8. ASSUME JobFails PROVE LooksHold'
  BY <1>0, <1>8, SMTT(20)
     DEF TypeOK, JobKnows, LooksHold, Running, ShowsNewest, Admitted, service, requests,
         trash, At, JobFails, JobGoto
<1>9. ASSUME PlaceAutomatic PROVE LooksHold'
  BY <1>0, <1>9, SMTT(20)
     DEF TypeOK, JobKnows, LooksHold, Running, ShowsNewest, Admitted, service, requests,
         trash, At, PlaceAutomatic, JobGoto
<1>10. ASSUME WriteManifest PROVE LooksHold'
  BY <1>0, <1>10, SMTT(20)
     DEF TypeOK, JobKnows, LooksHold, Running, ShowsNewest, Admitted, service, requests,
         trash, At, WriteManifest, JobGoto
<1>11. ASSUME Publish PROVE LooksHold'
  BY <1>0, <1>11, SMTT(20)
     DEF TypeOK, JobKnows, LooksHold, Running, ShowsNewest, Admitted, service, requests,
         trash, At, Publish, JobGoto
<1>12. ASSUME JobLosesDirectory PROVE LooksHold'
  BY <1>0, <1>12, SMTT(20)
     DEF TypeOK, JobKnows, LooksHold, Running, ShowsNewest, Admitted, service, requests,
         trash, At, JobLosesDirectory, JobGoto
<1>13. ASSUME Finish PROVE LooksHold'
  BY <1>0, <1>13, SMTT(20)
     DEF TypeOK, JobKnows, LooksHold, Running, ShowsNewest, Admitted, service, requests,
         trash, At, Finish
<1>14. ASSUME NEW r \in Requests, ReadTarget(r) PROVE LooksHold'
  BY <1>0, <1>14, SMTT(20)
     DEF TypeOK, JobKnows, LooksHold, Running, ShowsNewest, Admitted, service, requests,
         trash, At, ReadTarget, Goto
<1>15. ASSUME NEW r \in Requests, CheckSlot(r) PROVE LooksHold'
  BY <1>0, <1>15, ScoreConstants, SMTT(20)
     DEF TypeOK, JobKnows, LooksHold, Running, ShowsNewest, Admitted, service, requests,
         trash, At, CheckSlot, Goto
<1>16. ASSUME NEW r \in Requests, Claim(r) PROVE LooksHold'
  BY <1>0, <1>16, ScoreConstants, SMTT(20)
     DEF TypeOK, JobKnows, LooksHold, Running, ShowsNewest, Admitted, service, requests,
         trash, At, Underway, Claim, End, Goto
<1>17. ASSUME NEW r \in Requests, ClaimRefused(r) PROVE LooksHold'
  BY <1>0, <1>17, SMTT(20)
     DEF TypeOK, JobKnows, LooksHold, Running, ShowsNewest, Admitted, service, requests,
         trash, At, ClaimRefused, End, Goto
<1>18. ASSUME NEW r \in Requests, ReadPointer(r) PROVE LooksHold'
  BY <1>0, <1>18, ScoreConstants, SMTT(20)
     DEF TypeOK, JobKnows, LooksHold, Running, ShowsNewest, Admitted, service, requests,
         trash, At, ReadPointer, Goto
<1>19. ASSUME NEW r \in Requests, RefuseBaseline(r) PROVE LooksHold'
  BY <1>0, <1>19, SMTT(20)
     DEF TypeOK, JobKnows, LooksHold, Running, ShowsNewest, Admitted, service, requests,
         trash, At, RefuseBaseline, End, Goto
<1>20. ASSUME NEW r \in Requests, SelectPublished(r) PROVE LooksHold'
  BY <1>0, <1>20, SMTT(20)
     DEF TypeOK, JobKnows, LooksHold, Running, ShowsNewest, Admitted, service, requests,
         trash, At, SelectPublished, Goto
<1>21. ASSUME NEW r \in Requests, MakeDirectory(r) PROVE LooksHold'
  BY <1>0, <1>21, SMTT(20)
     DEF TypeOK, JobKnows, LooksHold, Running, ShowsNewest, Admitted, service, requests,
         trash, At, MakeDirectory, Goto
<1>22. ASSUME NEW r \in Requests, RefuseDirectory(r) PROVE LooksHold'
  BY <1>0, <1>22, SMTT(20)
     DEF TypeOK, JobKnows, LooksHold, Running, ShowsNewest, Admitted, service, requests,
         trash, At, RefuseDirectory, Goto
<1>23. ASSUME NEW r \in Requests, MakeVariant(r) PROVE LooksHold'
  BY <1>0, <1>23, SMTT(20)
     DEF TypeOK, JobKnows, LooksHold, Running, ShowsNewest, Admitted, service, requests,
         trash, At, MakeVariant, Goto
<1>24. ASSUME NEW r \in Requests, VariantFails(r) PROVE LooksHold'
  BY <1>0, <1>24, SMTT(20)
     DEF TypeOK, JobKnows, LooksHold, Running, ShowsNewest, Admitted, service, requests,
         trash, At, VariantFails, End, Goto
<1>25. ASSUME NEW r \in Requests, AddToManifest(r) PROVE LooksHold'
  BY <1>0, <1>25, SMTT(20)
     DEF TypeOK, JobKnows, LooksHold, Running, ShowsNewest, Admitted, service, requests,
         trash, At, AddToManifest, Goto
<1>26. ASSUME NEW r \in Requests, PublishVariant(r) PROVE LooksHold'
  BY <1>0, <1>26, SMTT(20)
     DEF TypeOK, JobKnows, LooksHold, Running, ShowsNewest, Admitted, service, requests,
         trash, At, PublishVariant, Goto
<1>27. ASSUME NEW r \in Requests, Answer(r) PROVE LooksHold'
  BY <1>0, <1>27, SMTT(20)
     DEF TypeOK, JobKnows, LooksHold, Running, ShowsNewest, Admitted, service, requests,
         trash, At, Answer, End, Goto
<1>28. ASSUME NEW r \in Requests, RequestLosesDirectory(r) PROVE LooksHold'
  BY <1>0, <1>28, SMTT(20)
     DEF TypeOK, JobKnows, LooksHold, Running, ShowsNewest, Admitted, service, requests,
         trash, At, RequestLosesDirectory, End, Goto
<1>29. ASSUME NEW r \in Requests, AskAgain(r) PROVE LooksHold'
  BY <1>0, <1>29, SMTT(20)
     DEF TypeOK, JobKnows, LooksHold, Running, ShowsNewest, Admitted, service, requests,
         trash, At, AskAgain, End, Goto
<1> QED
  BY <1>1, <1>2, <1>3, <1>4, <1>5, <1>6, <1>7, <1>8, <1>9, <1>10, <1>11, <1>12, <1>13, <1>14,
     <1>15, <1>16, <1>17, <1>18, <1>19, <1>20, <1>21, <1>22, <1>23, <1>24, <1>25, <1>26,
     <1>27, <1>28, <1>29
     DEF Next, JobStep, RequestStep

-----------------------------------------------------------------------------
(* The theorems.                                                           *)

\* Nothing is written and nobody works at first.
LEMMA ScoresInvInit == Init => ScoresInv
<1> SUFFICES ASSUME Init PROVE ScoresInv
  OBVIOUS
<1>1. TypeOK
  BY ScoreConstants DEF Init, TypeOK, Commits
<1>2. JobKnows /\ FilesKnown /\ LooksHold
  BY DEF Init, JobKnows, FilesKnown, LooksHold, Running, Admitted
<1>3. \A r \in Requests : RequestKnows(r)
  BY DEF Init, RequestKnows, Copying
<1> QED
  BY <1>1, <1>2, <1>3 DEF ScoresInv

LEMMA ScoresInvStep == ScoresInv /\ [Next]_vars => ScoresInv'
<1> SUFFICES ASSUME ScoresInv, [Next]_vars PROVE ScoresInv'
  OBVIOUS
<1>1. TypeOK' /\ JobKnows' /\ FilesKnown' /\ LooksHold'
  BY ScoreTypesStep, JobKnowsStep, FilesKnownStep, LooksHoldStep
<1>2. \A r \in Requests : RequestKnows(r)'
  BY RequestKnowsStep
<1> QED
  BY <1>1, <1>2 DEF ScoresInv

LEMMA ScoresInvHolds == Spec => []ScoresInv
  BY ScoresInvInit, ScoresInvStep, PTL DEF Spec

\* Whatever fails, dies or overlaps, for any number of requests and outputs:
\* every score that current.json or a manifest lists has its files, and the
\* slot tells of the job what is so.
THEOREM ListedScoresExist == Spec => []PublishedScoresExist
<1>1. ScoresInv => PublishedScoresExist
  <2> SUFFICES ASSUME ScoresInv PROVE PublishedScoresExist
    OBVIOUS
  <2>1. TypeOK /\ JobKnows /\ FilesKnown
    BY DEF ScoresInv
  <2>2. SlotTellsTruth
    BY <2>1 DEF SlotTellsTruth, JobKnows
  <2>3. \A d : d # Nothing /\ IsSound(d) => Complete(d)
    BY DEF Complete, IsSound, SoundIn
  <2>4. Complete(Nothing)
    BY DEF Complete
  <2>5. Complete(current) /\ \A c \in Commits : Complete(manifests[c])
    BY <2>1, <2>3, <2>4 DEF FilesKnown
  <2> QED
    BY <2>1, <2>2, <2>5 DEF PublishedScoresExist
<1> QED
  BY <1>1, ScoresInvHolds, PTL

\* A request that nobody overtook publishes with the newest snapshot in hand.
LEMMA SnapshotsAreKept == ScoresInv => AdmittedVariantsKeepSnapshots
<1> SUFFICES ASSUME ScoresInv, NEW r \in Requests, PublishVariant(r) \/ SelectPublished(r),
                    ShowsNewest(current), r \notin since
             PROVE  ShowsNewest(current')
  BY DEF AdmittedVariantsKeepSnapshots
<1>1. ShowsNewest(copy[r])
  BY DEF ScoresInv, LooksHold, Admitted, PublishVariant, SelectPublished, At
<1>2. /\ current' # Nothing /\ current'.commit = copy[r].commit
      /\ current'.baseline = copy[r].baseline
  BY PublishedDocument DEF ScoresInv
<1>3. newest' = newest
  BY DEF PublishVariant, SelectPublished, service
<1> QED
  BY <1>1, <1>2, <1>3 DEF ShowsNewest

\* A variant's list replaces one that is no longer than it.
LEMMA ListsGrow == ScoresInv /\ [Next]_vars => ListedScoresStay
<1> SUFFICES ASSUME ScoresInv, [Next]_vars, NEW c \in Commits,
                    manifests[c] # Nothing, manifests'[c] # Nothing,
                    ~(WriteManifest /\ slot.commit = c)
             PROVE  manifests[c].variants \subseteq manifests'[c].variants
  BY DEF ListedScoresStay
<1>0. TypeOK /\ FilesKnown /\ JobKnows /\ \A r \in Requests : RequestKnows(r)
  BY DEF ScoresInv
<1>1. CASE WriteManifest
  <2>1. slot.commit # c /\ manifests' = [manifests EXCEPT ![slot.commit] = Snapshot]
    BY <1>1 DEF WriteManifest
  <2>2. manifests'[c] = manifests[c]
    BY <1>0, <2>1 DEF TypeOK
  <2> QED
    BY <2>2
<1>2. ASSUME NEW r \in Requests, AddToManifest(r)
      PROVE  manifests[c].variants \subseteq manifests'[c].variants
  <2> DEFINE b == copy[r].commit
             d == Document(manifests[b].commit, copy[r].baseline,
                           copy[r].variants \cup {asked[r].option}, manifests[b].selected)
  <2>1. manifests' = [manifests EXCEPT ![b] = d]
    BY <1>0, <1>2, AddedManifest
  <2>2. d.variants = copy[r].variants \cup {asked[r].option}
    BY DEF Document
  <2>3. /\ IsSound(copy[r]) /\ asked[r].option \in Options /\ b \in Commits
    BY <1>0, <1>2, CopyIsDocument DEF AddToManifest, At, Copying
  <2>4. ~Published(r)
    BY <1>0, <1>2 DEF RequestKnows, AddToManifest, At
  <2>5. asked[r].option = "enharmonic" /\ "automatic" \in copy[r].variants
    BY <2>3, <2>4 DEF Published, IsSound, SoundIn, Options
  <2>6. manifests[c] \in Documents /\ IsSound(manifests[c])
    BY <1>0 DEF TypeOK, FilesKnown
  <2>7. manifests[c].variants \subseteq {"automatic", "enharmonic"}
    BY <2>6, DocumentParts DEF IsSound, SoundIn, Options
  <2>8. CASE c = b
    <3> HIDE DEF d
    <3>1. manifests'[c] = d
      BY <1>0, <2>1, <2>3, <2>8 DEF TypeOK
    <3> QED
      BY <2>2, <2>5, <2>7, <3>1
  <2>9. CASE c # b
    BY <1>0, <2>1, <2>9 DEF TypeOK
  <2> QED
    BY <2>8, <2>9
<1>3. CASE UNCHANGED manifests
  BY <1>3
<1>4. \/ WriteManifest \/ \E r \in Requests : AddToManifest(r)
      \/ UNCHANGED manifests
  BY DEF Next, JobStep, RequestStep, vars, files, AdvanceHorizon, ReadSlot, TrashSession, Crash,
         RunAdapter, AdapterDone, JobFails, PlaceAutomatic, Publish, JobLosesDirectory, Finish,
         ReadTarget, CheckSlot, Claim, ClaimRefused, ReadPointer, RefuseBaseline,
         SelectPublished, MakeDirectory, RefuseDirectory, MakeVariant, VariantFails,
         PublishVariant, Answer, RequestLosesDirectory, AskAgain
<1> QED
  BY <1>1, <1>2, <1>3, <1>4

\* For any number of requests: the newest snapshot is hidden only by a request
\* that a job overtook or that read what such a one wrote back, a session is
\* taken from a running job only if that job started after the decision, and a
\* score disappears from a manifest only when a job writes that manifest anew.
THEOREM PublishedWorkIsRespected == Spec => WorkIsRespected
<1>1. ScoresInv => TrashSparesEarlierJobs
  BY DEF ScoresInv, LooksHold, JobKnows, TrashSparesEarlierJobs, TrashSession
<1>2. ScoresInv /\ [Next]_vars =>
        [AdmittedVariantsKeepSnapshots /\ TrashSparesEarlierJobs /\ ListedScoresStay]_vars
  BY <1>1, SnapshotsAreKept, ListsGrow
<1> QED
  BY <1>2, ScoresInvHolds, PTL DEF Spec, WorkIsRespected

-----------------------------------------------------------------------------
(* Recursion over an interval.                                             *)

LEMMA LeastNumber ==
  ASSUME NEW T, T \subseteq Nat, T # {}
  PROVE  \E x \in T : \A y \in T : x <= y
<1>1. PICK x \in T : \A y \in T : ~ (<<y, x>> \in OpToRel(<, Nat))
  BY NatLessThanWellFounded, WFMin
<1>2. \A y \in T : <<y, x>> \in OpToRel(<, Nat) <=> y < x
  BY DEF OpToRel
<1>3. \A y \in T : x \in Nat /\ y \in Nat /\ ~ (y < x)
  BY <1>1, <1>2
<1> QED
  BY <1>3

\* A function over a..b given by its first value and a step, itself a function.
Follows(f, a, b, base, step) ==
  f[a] = base /\ \A n \in (a + 1)..b : f[n] = step[<<n, f[n - 1]>>]

LEMMA RecursionOf ==
  ASSUME NEW a \in Nat, NEW b \in Nat, a <= b, NEW V, NEW base \in V,
         NEW step \in [((a + 1)..b) \X V -> V]
  PROVE  \E f \in [a..b -> V] : Follows(f, a, b, base, step)
<1> DEFINE Has(m) == \E f \in [a..m -> V] : Follows(f, a, m, base, step)
           lacks == {m \in a..b : ~ Has(m)}
<1>1. lacks = {}
  <2> SUFFICES ASSUME lacks # {} PROVE FALSE
    OBVIOUS
  <2>1. PICK m \in lacks : \A y \in lacks : m <= y
    <3>1. lacks \subseteq Nat
      OBVIOUS
    <3> HIDE DEF lacks
    <3> QED
      BY <3>1, LeastNumber
  <2>2. m \in a..b /\ ~ Has(m)
    BY <2>1
  <2>3. m # a
    <3> SUFFICES ASSUME m = a PROVE FALSE
      OBVIOUS
    <3> DEFINE f == [n \in a..a |-> base]
    <3>1. f \in [a..a -> V] /\ Follows(f, a, a, base, step)
      BY DEF Follows
    <3> QED
      BY <2>2, <3>1
  <2>4. m - 1 \in a..b /\ ~ (m <= m - 1) /\ m \in (a + 1)..b /\ m \in Nat /\ m - 1 \in Nat
    BY <2>2, <2>3
  <2>5. Has(m - 1)
    <3> HIDE DEF Has
    <3> QED
      BY <2>1, <2>4
  <2>6. PICK g \in [a..(m - 1) -> V] : Follows(g, a, m - 1, base, step)
    BY <2>5
  <2> DEFINE f == [n \in a..m |-> IF n = m THEN step[<<m, g[m - 1]>>] ELSE g[n]]
  <2>7. g[m - 1] \in V
    <3>1. m - 1 \in a..(m - 1)
      BY <2>4
    <3> QED
      BY <2>6, <3>1
  <2>8. f \in [a..m -> V]
    <3>1. step[<<m, g[m - 1]>>] \in V
      BY <2>4, <2>7
    <3>2. \A n \in a..m : n # m => n \in a..(m - 1)
      BY <2>4
    <3> QED
      BY <2>6, <3>1, <3>2
  <2>9. f[a] = base
    <3>1. a \in a..m /\ a # m
      BY <2>2, <2>3
    <3> QED
      BY <2>6, <3>1 DEF Follows
  <2>10. ASSUME NEW n \in (a + 1)..m PROVE f[n] = step[<<n, f[n - 1]>>]
    <3>1. n \in a..m /\ n - 1 \in a..m /\ n - 1 # m
      BY <2>4
    <3>2. f[n - 1] = g[n - 1]
      BY <3>1
    <3>3. CASE n = m
      BY <3>1, <3>2, <3>3
    <3>4. CASE n # m
      <4>1. n \in (a + 1)..(m - 1)
        BY <2>4, <3>4
      <4>2. f[n] = g[n]
        BY <3>1, <3>4
      <4> QED
        BY <2>6, <3>2, <4>1, <4>2 DEF Follows
    <3> QED
      BY <3>3, <3>4
  <2> HIDE DEF f
  <2>11. Has(m)
    BY <2>8, <2>9, <2>10 DEF Follows
  <2> QED
    BY <2>2, <2>11
<1>2. Has(b)
  <2>1. b \in a..b
    OBVIOUS
  <2> HIDE DEF Has
  <2> QED
    BY <1>1, <2>1
<1> QED
  BY <1>2

\* What holds at the beginning and is passed on holds everywhere.
LEMMA Everywhere ==
  ASSUME NEW a \in Nat, NEW b \in Nat, NEW T, a <= b => a \in T,
         \A n \in (a + 1)..b : n - 1 \in T => n \in T
  PROVE  a..b \subseteq T
<1> DEFINE lacks == (a..b) \ T
<1> SUFFICES ASSUME lacks # {} PROVE FALSE
  OBVIOUS
<1>1. PICK m \in lacks : \A y \in lacks : m <= y
  <2>1. lacks \subseteq Nat
    OBVIOUS
  <2> HIDE DEF lacks
  <2> QED
    BY <2>1, LeastNumber
<1>2. m \in a..b /\ m \notin T /\ m # a
  OBVIOUS
<1>3. m - 1 \in a..b /\ ~ (m <= m - 1) /\ m \in (a + 1)..b
  BY <1>2
<1>4. m - 1 \in T
  BY <1>1, <1>3
<1> QED
  BY <1>2, <1>3, <1>4

-----------------------------------------------------------------------------
(* The order of costs.                                                     *)

LEMMA PrecedesThree ==
  ASSUME NEW s, NEW t, DOMAIN s = {1, 2, 3}
  PROVE  Precedes(s, t) <=> \/ s[1] < t[1]
                            \/ s[2] < t[2] /\ s[1] = t[1]
                            \/ s[3] < t[3] /\ s[1] = t[1] /\ s[2] = t[2]
<1>1. 1..(1 - 1) = {} /\ 1..(2 - 1) = {1} /\ 1..(3 - 1) = {1, 2}
  OBVIOUS
<1> QED
  BY <1>1 DEF Precedes

LEMMA PrecedesFive ==
  ASSUME NEW s, NEW t, DOMAIN s = {1, 2, 3, 4, 5}
  PROVE  Precedes(s, t) <=>
           \/ s[1] < t[1]
           \/ s[2] < t[2] /\ s[1] = t[1]
           \/ s[3] < t[3] /\ s[1] = t[1] /\ s[2] = t[2]
           \/ s[4] < t[4] /\ s[1] = t[1] /\ s[2] = t[2] /\ s[3] = t[3]
           \/ s[5] < t[5] /\ s[1] = t[1] /\ s[2] = t[2] /\ s[3] = t[3] /\ s[4] = t[4]
<1>1. 1..(1 - 1) = {} /\ 1..(2 - 1) = {1} /\ 1..(3 - 1) = {1, 2} /\ 1..(4 - 1) = {1, 2, 3}
      /\ 1..(5 - 1) = {1, 2, 3, 4}
  OBVIOUS
<1> QED
  BY <1>1 DEF Precedes

-----------------------------------------------------------------------------
(* The choice of clefs.                                                    *)

\* Sums over a sequence, as the costs of a measure and of a part are made.
Sums(f, n, term) == f = [k \in 0..n |-> IF k = 0 THEN 0 ELSE f[k - 1] + term[k]]

LEMMA SumExists ==
  ASSUME NEW n \in Nat, NEW term \in [1..n -> Int]
  PROVE  \E f \in [0..n -> Int] : Sums(f, n, term)
<1> DEFINE step == [p \in ((0 + 1)..n) \X Int |-> p[2] + term[p[1]]]
<1>1. step \in [((0 + 1)..n) \X Int -> Int]
  OBVIOUS
<1>2. 0 \in Nat /\ 0 <= n /\ 0 \in Int
  OBVIOUS
<1>3. PICK f \in [0..n -> Int] : Follows(f, 0, n, 0, step)
  <2> HIDE DEF step
  <2> QED
    BY <1>1, <1>2, RecursionOf
<1>4. ASSUME NEW k \in 1..n PROVE f[k] = f[k - 1] + term[k]
  <2>1. k \in (0 + 1)..n /\ k - 1 \in 0..n /\ f[k - 1] \in Int
    OBVIOUS
  <2>2. f[k] = step[<<k, f[k - 1]>>]
    BY <1>3, <2>1 DEF Follows
  <2>3. <<k, f[k - 1]>> \in ((0 + 1)..n) \X Int
    BY <2>1
  <2> QED
    BY <2>2, <2>3
<1>5. f[0] = 0
  BY <1>3 DEF Follows
<1>6. \A k \in 0..n : k # 0 => k \in 1..n
  OBVIOUS
<1>7. \A k \in 0..n : f[k] = IF k = 0 THEN 0 ELSE f[k - 1] + term[k]
  BY <1>4, <1>5, <1>6
<1> QED
  BY <1>7 DEF Sums

\* A sum as a definition writes it, whatever its terms are.
LEMMA SumSteps ==
  ASSUME NEW n \in Nat, NEW term \in [1..n -> Int], NEW f, Sums(f, n, term)
  PROVE  /\ f \in [0..n -> Int] /\ f[0] = 0
         /\ \A k \in 1..n : f[k] = f[k - 1] + term[k]
<1>1. 0 \in 0..n /\ 0 \in Nat
  OBVIOUS
<1>2. f[0] = 0 /\ \A k \in 1..n : f[k] = f[k - 1] + term[k]
  BY <1>1 DEF Sums
<1> DEFINE T == {k \in 0..n : f[k] \in Int}
<1>3. 0 \in T
  BY <1>1, <1>2
<1>4. ASSUME NEW k \in (0 + 1)..n, k - 1 \in T PROVE k \in T
  <2>1. k \in 1..n /\ k \in 0..n /\ term[k] \in Int
    OBVIOUS
  <2> QED
    BY <1>2, <1>4, <2>1
<1>5. 0..n \subseteq T
  <2> HIDE DEF T
  <2> QED
    BY <1>1, <1>3, <1>4, Everywhere
<1>6. f \in [0..n -> Int]
  BY <1>5 DEF Sums
<1> QED
  BY <1>2, <1>6

LEMMA PenaltyIsInt ==
  ASSUME NEW position \in Int, NEW clef \in Clefs
  PROVE  LedgerPenalty(LedgerLines(position, clef)) \in Int
<1>1. StaffLimits[clef][1] \in Int /\ StaffLimits[clef][2] \in Int
  BY DEF StaffLimits, Clefs
<1>2. LedgerLines(position, clef) \in Int
  BY <1>1 DEF LedgerLines
<1>3. Larger(0, LedgerLines(position, clef) - SevereThreshold + 1) \in Int
  BY <1>2 DEF Larger, SevereThreshold
<1> HIDE DEF LedgerLines, Larger
<1>4. \A lines, severe \in Int : lines + SevereMultiplier * severe * severe \in Int
  BY DEF SevereMultiplier
<1> QED
  BY <1>2, <1>3, <1>4 DEF LedgerPenalty

LEMMA WeightedCostIsInt ==
  ASSUME NEW positions \in Seq(Int), NEW clef \in Clefs
  PROVE  WeightedCost(positions, clef) \in Int
<1> DEFINE n == Len(positions)
           penalty(k) == LedgerPenalty(LedgerLines(positions[k], clef))
           term == [k \in 1..n |-> penalty(k)]
           Rule(f) == f = [k \in 0..n |-> IF k = 0 THEN 0 ELSE f[k - 1] + penalty(k)]
<1>1. n \in Nat /\ \A k \in 1..n : penalty(k) \in Int
  BY PenaltyIsInt
<1>2. WeightedCost(positions, clef) = (CHOOSE f : Rule(f))[n]
  BY DEF WeightedCost
<1> HIDE DEF penalty, n
<1>3. term \in [1..n -> Int]
  BY <1>1
<1>4. \A f : Rule(f) <=> Sums(f, n, term)
  <2>1. \A f : [k \in 0..n |-> IF k = 0 THEN 0 ELSE f[k - 1] + penalty(k)]
                  = [k \in 0..n |-> IF k = 0 THEN 0 ELSE f[k - 1] + term[k]]
    <3>1. \A k \in 0..n : k # 0 => k \in 1..n
      BY <1>1
    <3> QED
      BY <3>1
  <2> QED
    BY <2>1 DEF Sums
<1>5. \E f : Rule(f)
  <2> HIDE DEF Rule, term
  <2> QED
    BY <1>1, <1>3, <1>4, SumExists
<1>6. Rule(CHOOSE f : Rule(f))
  <2> HIDE DEF Rule
  <2> QED
    BY <1>5
<1> DEFINE g == CHOOSE f : Rule(f)
<1>7. Sums(g, n, term)
  <2> HIDE DEF Rule
  <2> QED
    BY <1>4, <1>6
<1>8. g[n] \in Int
  <2> HIDE DEF g, term
  <2>1. g \in [0..n -> Int] /\ n \in 0..n
    BY <1>1, <1>3, <1>7, SumSteps
  <2> QED
    BY <2>1
<1> QED
  BY <1>2, <1>8

\* A cell of the table, and a row of them.
ClefCell == [cost : Int, changes : Int, preserve : Int, from : Clefs]
ClefRow == [treble : ClefCell, bass : ClefCell]

LEMMA TwoClefs ==
  /\ \A c \in Clefs : c = "treble" \/ c = "bass"
  /\ "treble" \in Clefs /\ "bass" \in Clefs
  /\ \A row \in ClefRow : \A c \in Clefs : row[c] \in ClefCell
BY DEF Clefs, ClefRow

\* What a measure adds to a choice of clefs.
Added(part, n, from, clef) ==
  [cost     |-> WeightedCost(part[n].positions, clef) + Preservation(part[n], clef)
                  + Differ(from, clef) * ChangePenalty,
   changes  |-> Differ(from, clef),
   preserve |-> Preservation(part[n], clef)]

LEMMA AddedIsInt ==
  ASSUME NEW part \in Seq(Measure), NEW n \in 1..Len(part), NEW from \in Clefs, NEW clef \in Clefs
  PROVE  /\ Added(part, n, from, clef).cost \in Int
         /\ Differ(from, clef) \in {0, 1} /\ Preservation(part[n], clef) \in {0, 1}
         /\ WeightedCost(part[n].positions, clef) \in Int
<1>1. part[n] \in Measure
  OBVIOUS
<1>2. WeightedCost(part[n].positions, clef) \in Int
  BY <1>1, WeightedCostIsInt DEF Measure
<1>3. Differ(from, clef) \in {0, 1} /\ Preservation(part[n], clef) \in {0, 1}
  BY DEF Differ, Preservation, PreservationPenalty
<1>4. Differ(from, clef) * ChangePenalty \in Int
  BY <1>3 DEF ChangePenalty
<1> HIDE DEF WeightedCost, Preservation, Differ, ChangePenalty
<1> QED
  BY <1>2, <1>3, <1>4 DEF Added

LEMMA ExtendedIs ==
  ASSUME NEW part \in Seq(Measure), NEW n \in 1..Len(part), NEW from \in Clefs, NEW clef \in Clefs,
         NEW prior \in ClefCell
  PROVE  LET cell == Extended(prior, part, n, clef, from)
             added == Added(part, n, from, clef)
         IN  /\ cell \in ClefCell /\ cell.from = from
             /\ cell.cost = prior.cost + added.cost
             /\ cell.changes = prior.changes + added.changes
             /\ cell.preserve = prior.preserve + added.preserve
<1> DEFINE w == WeightedCost(part[n].positions, clef)
           k == Preservation(part[n], clef)
           d == Differ(from, clef)
           e == d * ChangePenalty
<1>1. w \in Int /\ k \in Int /\ d \in Int
  BY AddedIsInt
<1>2. e \in Int
  BY <1>1 DEF ChangePenalty
<1>3. prior.cost \in Int /\ prior.changes \in Int /\ prior.preserve \in Int
  BY DEF ClefCell
<1>4. Extended(prior, part, n, clef, from)
        = [cost |-> prior.cost + w + k + e, changes |-> prior.changes + d,
           preserve |-> prior.preserve + k, from |-> from]
  BY DEF Extended
<1>5. Added(part, n, from, clef) = [cost |-> w + k + e, changes |-> d, preserve |-> k]
  BY DEF Added
<1> HIDE DEF w, k, d, e
<1> QED
  BY <1>1, <1>2, <1>3, <1>4, <1>5 DEF ClefCell

LEMMA FirstCellIs ==
  ASSUME NEW part \in Seq(Measure), 1 \in 1..Len(part), NEW clef \in Clefs
  PROVE  /\ FirstCell(part, clef) \in ClefCell
         /\ FirstCell(part, clef).cost = Added(part, 1, clef, clef).cost
         /\ FirstCell(part, clef).changes = 0
         /\ FirstCell(part, clef).preserve = Added(part, 1, clef, clef).preserve
<1> DEFINE w == WeightedCost(part[1].positions, clef)
           k == Preservation(part[1], clef)
<1>1. w \in Int /\ k \in Int
  BY AddedIsInt
<1>2. FirstCell(part, clef) = [cost |-> w + k, changes |-> 0, preserve |-> k, from |-> clef]
  BY DEF FirstCell
<1>3. Added(part, 1, clef, clef) = [cost |-> w + k + 0 * ChangePenalty, changes |-> 0, preserve |-> k]
  BY DEF Added, Differ
<1> HIDE DEF w, k
<1> QED
  BY <1>1, <1>2, <1>3 DEF ClefCell, ChangePenalty

\* No worse: what comes first, counts first.
NoWorse(c, d) ==
  \/ c.cost < d.cost
  \/ c.cost = d.cost /\ (c.changes < d.changes \/ (c.changes = d.changes /\ c.preserve <= d.preserve))

\* The cell of a clef extends one of the row before, and none that may be
\* extended is better.
LEMMA CellIs ==
  ASSUME NEW part \in Seq(Measure), NEW n \in 2..Len(part), NEW clef \in Clefs, NEW prior \in ClefRow
  PROVE  /\ Cell(part, n, clef, prior) \in ClefCell
         /\ Blocked(part, n) => Cell(part, n, clef, prior).from = clef
         /\ Cell(part, n, clef, prior)
              = Extended(prior[Cell(part, n, clef, prior).from], part, n, clef,
                         Cell(part, n, clef, prior).from)
         /\ \A from \in Clefs : (Blocked(part, n) => from = clef) =>
              NoWorse(Cell(part, n, clef, prior), Extended(prior[from], part, n, clef, from))
<1> DEFINE froms == IF Blocked(part, n) THEN {clef} ELSE Clefs
           cell(from) == Extended(prior[from], part, n, clef, from)
           candidates == {cell(from) : from \in froms}
           rank(c) == CellRank(c, part[n - 1].clef)
           Least(c) == \A d \in candidates : ~ Precedes(rank(d), rank(c))
<1>1. n \in 1..Len(part) /\ froms \subseteq Clefs /\ clef \in froms
  OBVIOUS
<1>2. \A from \in froms : cell(from) \in ClefCell /\ cell(from).from = from
  BY <1>1, TwoClefs, ExtendedIs
<1> HIDE DEF cell, froms
<1>3. \A c, d \in ClefCell :
        Precedes(rank(d), rank(c)) <=>
          LET b == part[n - 1].clef
          IN  \/ d.cost < c.cost
              \/ d.cost = c.cost /\
                   \/ d.changes < c.changes
                   \/ d.changes = c.changes /\
                        \/ d.preserve < c.preserve
                        \/ d.preserve = c.preserve /\
                             \/ Differ(d.from, b) < Differ(c.from, b)
                             \/ Differ(d.from, b) = Differ(c.from, b) /\ Name(d.from) < Name(c.from)
  <2> SUFFICES ASSUME NEW c \in ClefCell, NEW d \in ClefCell
               PROVE Precedes(rank(d), rank(c)) <=>
          LET b == part[n - 1].clef
          IN  \/ d.cost < c.cost
              \/ d.cost = c.cost /\
                   \/ d.changes < c.changes
                   \/ d.changes = c.changes /\
                        \/ d.preserve < c.preserve
                        \/ d.preserve = c.preserve /\
                             \/ Differ(d.from, b) < Differ(c.from, b)
                             \/ Differ(d.from, b) = Differ(c.from, b) /\ Name(d.from) < Name(c.from)
    OBVIOUS
  <2> DEFINE b == part[n - 1].clef
  <2>1. /\ c.cost \in Int /\ c.changes \in Int /\ c.preserve \in Int
        /\ d.cost \in Int /\ d.changes \in Int /\ d.preserve \in Int
    BY DEF ClefCell
  <2>2. /\ Differ(d.from, b) \in Int /\ Differ(c.from, b) \in Int
        /\ Name(d.from) \in Int /\ Name(c.from) \in Int
    BY DEF Differ, Name
  <2> DEFINE x == Differ(d.from, b)
             y == Name(d.from)
             v == Differ(c.from, b)
             w == Name(c.from)
  <2>3. rank(d) = <<d.cost, d.changes, d.preserve, x, y>> /\ rank(c) = <<c.cost, c.changes, c.preserve, v, w>>
    BY DEF CellRank
  <2> HIDE DEF x, y, v, w, b
  <2>4. DOMAIN rank(d) = {1, 2, 3, 4, 5}
    BY <2>3
  <2>6. /\ rank(d)[1] = d.cost /\ rank(d)[2] = d.changes /\ rank(d)[3] = d.preserve /\ rank(d)[4] = x /\ rank(d)[5] = y
        /\ rank(c)[1] = c.cost /\ rank(c)[2] = c.changes /\ rank(c)[3] = c.preserve /\ rank(c)[4] = v /\ rank(c)[5] = w
    BY <2>3
  <2> HIDE DEF rank
  <2>5. Precedes(rank(d), rank(c))
          <=> d.cost < c.cost \/ (d.cost = c.cost /\ (d.changes < c.changes \/ (d.changes = c.changes
                /\ (d.preserve < c.preserve \/ (d.preserve = c.preserve /\ (x < v \/ (x = v /\ y < w)))))))
    BY <2>4, <2>6, PrecedesFive
  <2> QED
    BY <2>5 DEF x, y, v, w, b
<1>4. \E c \in candidates : Least(c)
  <2>1. \A f \in Clefs : Name(f) \in Int /\ Differ(f, part[n - 1].clef) \in Int
    BY DEF Name, Differ
  <2>2. \A c \in ClefCell : /\ c.cost \in Int /\ c.changes \in Int /\ c.preserve \in Int /\ c.from \in Clefs
    BY DEF ClefCell
  <2>3. \A c, d \in ClefCell : ~ Precedes(rank(d), rank(c)) \/ ~ Precedes(rank(c), rank(d))
    <3> SUFFICES ASSUME NEW c \in ClefCell, NEW d \in ClefCell
                 PROVE  ~ Precedes(rank(d), rank(c)) \/ ~ Precedes(rank(c), rank(d))
      OBVIOUS
    <3> DEFINE b == part[n - 1].clef
               x == Differ(d.from, b)
               y == Name(d.from)
               v == Differ(c.from, b)
               w == Name(c.from)
    <3>1. /\ c.cost \in Int /\ c.changes \in Int /\ c.preserve \in Int
          /\ d.cost \in Int /\ d.changes \in Int /\ d.preserve \in Int
          /\ x \in Int /\ y \in Int /\ v \in Int /\ w \in Int
      BY <2>1, <2>2
    <3>2. Precedes(rank(d), rank(c))
            <=> d.cost < c.cost \/ (d.cost = c.cost /\ (d.changes < c.changes \/ (d.changes = c.changes
                  /\ (d.preserve < c.preserve \/ (d.preserve = c.preserve /\ (x < v \/ (x = v /\ y < w)))))))
      BY <1>3
    <3>3. Precedes(rank(c), rank(d))
            <=> c.cost < d.cost \/ (c.cost = d.cost /\ (c.changes < d.changes \/ (c.changes = d.changes
                  /\ (c.preserve < d.preserve \/ (c.preserve = d.preserve /\ (v < x \/ (v = x /\ w < y)))))))
      BY <1>3
    <3> HIDE DEF b, x, y, v, w, rank
    <3> QED
      BY <3>1, <3>2, <3>3
  <2>4. \A c \in ClefCell : ~ Precedes(rank(c), rank(c))
    BY <2>3
  <2> HIDE DEF rank
  <2>5. CASE Blocked(part, n)
    <3>1. candidates = {cell(clef)}
      BY <2>5 DEF froms
    <3>2. ~ Precedes(rank(cell(clef)), rank(cell(clef)))
      BY <1>1, <1>2, <2>4
    <3> QED
      BY <3>1, <3>2
  <2>6. CASE ~ Blocked(part, n)
    <3>1. candidates = {cell("treble"), cell("bass")} /\ froms = {"treble", "bass"}
      BY <2>6 DEF froms, Clefs
    <3>2. cell("treble") \in ClefCell /\ cell("bass") \in ClefCell
      BY <1>2, <3>1
    <3>3. CASE Precedes(rank(cell("treble")), rank(cell("bass")))
      BY <2>3, <2>4, <3>1, <3>2, <3>3
    <3>4. CASE ~ Precedes(rank(cell("treble")), rank(cell("bass")))
      BY <2>3, <2>4, <3>1, <3>2, <3>4
    <3> QED
      BY <3>3, <3>4
  <2> QED
    BY <2>5, <2>6
<1> DEFINE best == CHOOSE c \in candidates : Least(c)
<1>5. Cell(part, n, clef, prior) = best
  BY DEF Cell, cell, froms
<1>6. best \in candidates /\ Least(best)
  <2> HIDE DEF candidates, Least
  <2> QED
    BY <1>4
<1> HIDE DEF best
<1>7. PICK from \in froms : best = cell(from)
  BY <1>6
<1>8. best \in ClefCell /\ best.from = from /\ from \in Clefs
  BY <1>1, <1>2, <1>7
<1>9. ASSUME NEW other \in Clefs, Blocked(part, n) => other = clef
      PROVE  NoWorse(best, cell(other))
  <2>1. other \in froms
    BY <1>9 DEF froms
  <2>2. cell(other) \in ClefCell /\ ~ Precedes(rank(cell(other)), rank(best))
    BY <1>2, <1>6, <2>1
  <2>3. \A c \in ClefCell : /\ c.cost \in Int /\ c.changes \in Int /\ c.preserve \in Int
    BY DEF ClefCell
  <2> HIDE DEF rank
  <2> QED
    BY <1>3, <1>8, <2>2, <2>3 DEF NoWorse
<1>10. Blocked(part, n) => from = clef
  BY DEF froms
<1> QED
  BY <1>5, <1>7, <1>8, <1>9, <1>10 DEF cell

FirstRow(part) == [treble |-> FirstCell(part, "treble"), bass |-> FirstCell(part, "bass")]

NextClefRow(part, n, prior) ==
  [treble |-> Cell(part, n, "treble", prior), bass |-> Cell(part, n, "bass", prior)]

\* The table as it grows.
TableRule(f, part) ==
  f = [n \in DOMAIN part |->
         IF n = 1 THEN <<FirstRow(part)>>
         ELSE Append(f[n - 1], NextClefRow(part, n, f[n - 1][n - 1]))]

LEMMA RowsAreRows ==
  ASSUME NEW part \in Seq(Measure), 1 \in 1..Len(part)
  PROVE  /\ FirstRow(part) \in ClefRow
         /\ \A n \in 2..Len(part) : \A prior \in ClefRow : NextClefRow(part, n, prior) \in ClefRow
<1>1. FirstRow(part) \in ClefRow
  BY FirstCellIs, TwoClefs DEF FirstRow, ClefRow
<1>2. ASSUME NEW n \in 2..Len(part), NEW prior \in ClefRow
      PROVE  NextClefRow(part, n, prior) \in ClefRow
  <2>1. Cell(part, n, "treble", prior) \in ClefCell /\ Cell(part, n, "bass", prior) \in ClefCell
    BY CellIs, TwoClefs
  <2> QED
    BY <2>1 DEF NextClefRow, ClefRow
<1> QED
  BY <1>1, <1>2

LEMMA TableGrows ==
  ASSUME NEW part \in Seq(Measure), 1 \in 1..Len(part), NEW f, TableRule(f, part)
  PROVE  \A n \in 1..Len(part) :
           /\ f[n] \in Seq(ClefRow) /\ Len(f[n]) = n
           /\ f[n][1] = FirstRow(part)
           /\ \A m \in 2..n : f[n][m] = NextClefRow(part, m, f[n][m - 1])
<1> DEFINE N == Len(part)
           Grown(n) == /\ f[n] \in Seq(ClefRow) /\ Len(f[n]) = n
                       /\ f[n][1] = FirstRow(part)
                       /\ \A m \in 2..n : f[n][m] = NextClefRow(part, m, f[n][m - 1])
           T == {n \in 1..N : Grown(n)}
<1>1. N \in Nat /\ 1 \in Nat /\ 1 <= N /\ DOMAIN part = 1..N
  OBVIOUS
<1>2. f[1] = <<FirstRow(part)>>
  BY <1>1 DEF TableRule
<1>3. 1 \in T
  <2>1. <<FirstRow(part)>> \in Seq(ClefRow) /\ Len(<<FirstRow(part)>>) = 1
        /\ <<FirstRow(part)>>[1] = FirstRow(part)
    BY RowsAreRows
  <2>2. 2..1 = {}
    OBVIOUS
  <2> QED
    BY <1>1, <1>2, <2>1, <2>2
<1>4. ASSUME NEW n \in (1 + 1)..N, n - 1 \in T PROVE n \in T
  <2>1. n \in 1..N /\ n # 1 /\ n \in 2..N /\ n - 1 \in 1..N
    BY <1>1
  <2> DEFINE prior == f[n - 1]
             row == NextClefRow(part, n, prior[n - 1])
  <2>2. f[n] = Append(prior, row)
    BY <1>1, <2>1 DEF TableRule
  <2>3. /\ prior \in Seq(ClefRow) /\ Len(prior) = n - 1 /\ prior[1] = FirstRow(part)
        /\ \A m \in 2..(n - 1) : prior[m] = NextClefRow(part, m, prior[m - 1])
    BY <1>4
  <2>4. prior[n - 1] \in ClefRow
    BY <2>1, <2>3
  <2>5. row \in ClefRow
    BY <2>1, <2>4, RowsAreRows
  <2> HIDE DEF prior, row
  <2>6. /\ f[n] \in Seq(ClefRow) /\ Len(f[n]) = n /\ f[n][n] = row
        /\ \A m \in 1..(n - 1) : f[n][m] = prior[m]
    BY <2>1, <2>2, <2>3, <2>5
  <2>7. f[n][1] = FirstRow(part)
    BY <2>1, <2>3, <2>6
  <2>8. ASSUME NEW m \in 2..n PROVE f[n][m] = NextClefRow(part, m, f[n][m - 1])
    <3>1. m - 1 \in 1..(n - 1) /\ f[n][m - 1] = prior[m - 1]
      BY <2>1, <2>6
    <3>2. CASE m = n
      BY <2>6, <3>1, <3>2 DEF row
    <3>3. CASE m # n
      <4>1. m \in 2..(n - 1) /\ m \in 1..(n - 1)
        BY <2>1, <3>3
      <4> QED
        BY <2>3, <2>6, <3>1, <4>1
    <3> QED
      BY <3>2, <3>3
  <2> QED
    BY <2>1, <2>6, <2>7, <2>8
<1>5. 1..N \subseteq T
  <2> HIDE DEF T, N
  <2> QED
    BY <1>1, <1>3, <1>4, Everywhere
<1> QED
  BY <1>5

LEMMA TableExists ==
  ASSUME NEW part \in Seq(Measure), 1 \in 1..Len(part)
  PROVE  \E f : TableRule(f, part)
<1> DEFINE N == Len(part)
           V == Seq(ClefRow)
           grown(n, prior) == Append(prior, NextClefRow(part, n, prior[n - 1]))
           step == [p \in ((1 + 1)..N) \X V |->
                      IF Len(p[2]) = p[1] - 1 THEN grown(p[1], p[2]) ELSE p[2]]
<1>1. N \in Nat /\ 1 \in Nat /\ 1 <= N /\ DOMAIN part = 1..N
  OBVIOUS
<1>2. ASSUME NEW n \in (1 + 1)..N, NEW prior \in V, Len(prior) = n - 1
      PROVE  grown(n, prior) \in V /\ Len(grown(n, prior)) = n
  <2>1. n \in 2..N /\ n - 1 \in 1..Len(prior)
    BY <1>1, <1>2
  <2>2. prior[n - 1] \in ClefRow
    BY <2>1
  <2>3. NextClefRow(part, n, prior[n - 1]) \in ClefRow
    BY <2>1, <2>2, RowsAreRows
  <2> QED
    BY <1>2, <2>1, <2>3
<1> HIDE DEF grown
<1>3. step \in [((1 + 1)..N) \X V -> V]
  BY <1>2
<1>4. <<FirstRow(part)>> \in V /\ Len(<<FirstRow(part)>>) = 1
  BY RowsAreRows
<1>5. PICK f \in [1..N -> V] : Follows(f, 1, N, <<FirstRow(part)>>, step)
  <2> HIDE DEF step, V, N
  <2> QED
    BY <1>1, <1>3, <1>4, RecursionOf
<1>6. ASSUME NEW n \in (1 + 1)..N
      PROVE  f[n] = step[<<n, f[n - 1]>>] /\ f[n - 1] \in V /\ <<n, f[n - 1]>> \in ((1 + 1)..N) \X V
  <2>1. n - 1 \in 1..N
    BY <1>1
  <2> QED
    BY <1>5, <2>1 DEF Follows
<1> DEFINE T == {n \in 1..N : Len(f[n]) = n}
<1>7. 1 \in T
  BY <1>1, <1>4, <1>5 DEF Follows
<1>8. ASSUME NEW n \in (1 + 1)..N, n - 1 \in T PROVE n \in T /\ f[n] = grown(n, f[n - 1])
  <2>1. Len(f[n - 1]) = n - 1 /\ n \in 1..N
    BY <1>8
  <2>2. f[n] = grown(n, f[n - 1])
    BY <1>6, <2>1
  <2> QED
    BY <1>2, <1>6, <2>1, <2>2
<1>9. 1..N \subseteq T
  <2> HIDE DEF T, N
  <2> QED
    BY <1>1, <1>7, <1>8, Everywhere
<1>10. ASSUME NEW n \in 1..N
       PROVE  f[n] = IF n = 1 THEN <<FirstRow(part)>> ELSE grown(n, f[n - 1])
  <2>1. CASE n = 1
    BY <1>5, <2>1 DEF Follows
  <2>2. CASE n # 1
    <3>1. n \in (1 + 1)..N /\ n - 1 \in 1..N
      BY <1>1, <2>2
    <3> QED
      BY <1>8, <1>9, <2>2, <3>1
  <2> QED
    BY <2>1, <2>2
<1>11. f = [n \in 1..N |-> IF n = 1 THEN <<FirstRow(part)>> ELSE grown(n, f[n - 1])]
  <2> HIDE DEF T, step, V
  <2> QED
    BY <1>10
<1> QED
  <2>1. f = [n \in 1..N |->
               IF n = 1 THEN <<FirstRow(part)>>
               ELSE Append(f[n - 1], NextClefRow(part, n, f[n - 1][n - 1]))]
    BY <1>11 DEF grown
  <2>2. DOMAIN part = 1..N
    BY <1>1
  <2> HIDE DEF N
  <2>3. TableRule(f, part)
    BY <2>1, <2>2 DEF TableRule
  <2> QED
    BY <2>3

LEMMA ClefTableIs ==
  ASSUME NEW part \in Seq(Measure), 1 \in 1..Len(part)
  PROVE  LET table == ClefTable(part)
         IN  /\ table \in Seq(ClefRow) /\ Len(table) = Len(part)
             /\ \A c \in Clefs : table[1][c] = FirstCell(part, c)
             /\ \A n \in 2..Len(part) : \A c \in Clefs : table[n][c] = Cell(part, n, c, table[n - 1])
<1> DEFINE f == CHOOSE g : TableRule(g, part)
<1>1. TableRule(f, part)
  BY TableExists
<1>2. ClefTable(part) = f[Len(part)]
  BY DEF ClefTable, TableRule, FirstRow, NextClefRow
<1> HIDE DEF f
<1>3. Len(part) \in 1..Len(part)
  OBVIOUS
<1>4. \A c \in Clefs : FirstRow(part)[c] = FirstCell(part, c)
  BY TwoClefs DEF FirstRow
<1>5. \A n, prior : \A c \in Clefs : NextClefRow(part, n, prior)[c] = Cell(part, n, c, prior)
  BY TwoClefs DEF NextClefRow
<1> QED
  BY <1>1, <1>2, <1>3, <1>4, <1>5, TableGrows

\* The clef of the last measure, as the code chooses it.
LastClef(part) ==
  LET row  == ClefTable(part)[Len(part)]
      rank(clef) == <<row[clef].cost, row[clef].changes, row[clef].preserve,
                      Differ(clef, part[Len(part)].clef), Place(clef)>>
  IN  CHOOSE c \in Clefs : \A d \in Clefs : ~ Precedes(rank(d), rank(c))

LEMMA LastClefIs ==
  ASSUME NEW part \in Seq(Measure), 1 \in 1..Len(part)
  PROVE  LET row == ClefTable(part)[Len(part)]
         IN  /\ LastClef(part) \in Clefs
             /\ \A d \in Clefs : NoWorse(row[LastClef(part)], row[d])
<1> DEFINE row  == ClefTable(part)[Len(part)]
           b == part[Len(part)].clef
           rank(clef) == <<row[clef].cost, row[clef].changes, row[clef].preserve, Differ(clef, b), Place(clef)>>
           Least(c) == \A d \in Clefs : ~ Precedes(rank(d), rank(c))
<1>1. row \in ClefRow
  <2>1. Len(part) \in 1..Len(part)
    OBVIOUS
  <2> QED
    BY <2>1, ClefTableIs
<1>2. LastClef(part) = CHOOSE c \in Clefs : Least(c)
  BY DEF LastClef
<1> HIDE DEF row, b
<1>3. \A c \in Clefs : /\ row[c].cost \in Int /\ row[c].changes \in Int /\ row[c].preserve \in Int
                       /\ Differ(c, b) \in Int /\ Place(c) \in Int
  <2>1. \A c \in Clefs : row[c] \in ClefCell
    BY <1>1, TwoClefs
  <2> QED
    BY <2>1 DEF ClefCell, Differ, Place
<1>4. \A c, d \in Clefs : Precedes(rank(d), rank(c)) <=>
        \/ row[d].cost < row[c].cost
        \/ row[d].changes < row[c].changes /\ row[d].cost = row[c].cost
        \/ row[d].preserve < row[c].preserve /\ row[d].cost = row[c].cost /\ row[d].changes = row[c].changes
        \/ Differ(d, b) < Differ(c, b) /\ row[d].cost = row[c].cost /\ row[d].changes = row[c].changes
             /\ row[d].preserve = row[c].preserve
        \/ Place(d) < Place(c) /\ row[d].cost = row[c].cost /\ row[d].changes = row[c].changes
             /\ row[d].preserve = row[c].preserve /\ Differ(d, b) = Differ(c, b)
  <2> SUFFICES ASSUME NEW c \in Clefs, NEW d \in Clefs
               PROVE Precedes(rank(d), rank(c)) <=>
        \/ row[d].cost < row[c].cost
        \/ row[d].changes < row[c].changes /\ row[d].cost = row[c].cost
        \/ row[d].preserve < row[c].preserve /\ row[d].cost = row[c].cost /\ row[d].changes = row[c].changes
        \/ Differ(d, b) < Differ(c, b) /\ row[d].cost = row[c].cost /\ row[d].changes = row[c].changes
             /\ row[d].preserve = row[c].preserve
        \/ Place(d) < Place(c) /\ row[d].cost = row[c].cost /\ row[d].changes = row[c].changes
             /\ row[d].preserve = row[c].preserve /\ Differ(d, b) = Differ(c, b)
    OBVIOUS
  <2>1. DOMAIN rank(d) = {1, 2, 3, 4, 5}
    OBVIOUS
  <2>2. /\ rank(d)[1] = row[d].cost /\ rank(d)[2] = row[d].changes /\ rank(d)[3] = row[d].preserve
        /\ rank(d)[4] = Differ(d, b) /\ rank(d)[5] = Place(d)
        /\ rank(c)[1] = row[c].cost /\ rank(c)[2] = row[c].changes /\ rank(c)[3] = row[c].preserve
        /\ rank(c)[4] = Differ(c, b) /\ rank(c)[5] = Place(c)
    OBVIOUS
  <2> HIDE DEF rank
  <2> QED
    BY <2>1, <2>2, PrecedesFive
<1> HIDE DEF rank
<1>5. \E c \in Clefs : Least(c)
  <2>1. \A c, d \in Clefs : ~ Precedes(rank(d), rank(c)) \/ ~ Precedes(rank(c), rank(d))
    BY <1>3, <1>4
  <2>2. CASE Precedes(rank("treble"), rank("bass"))
    BY <2>1, <2>2, TwoClefs
  <2>3. CASE ~ Precedes(rank("treble"), rank("bass"))
    BY <2>1, <2>3, TwoClefs
  <2> QED
    BY <2>2, <2>3
<1> DEFINE best == CHOOSE c \in Clefs : Least(c)
<1>6. best \in Clefs /\ Least(best)
  <2> HIDE DEF Least
  <2> QED
    BY <1>5
<1> HIDE DEF best
<1>7. ASSUME NEW d \in Clefs PROVE NoWorse(row[best], row[d])
  <2>1. ~ Precedes(rank(d), rank(best))
    BY <1>6
  <2> QED
    BY <1>3, <1>4, <1>6, <2>1 DEF NoWorse
<1> QED
  BY <1>2, <1>6, <1>7 DEF best, row

LEMMA Concatenated ==
  ASSUME NEW S, NEW s \in Seq(S), NEW t \in Seq(S)
  PROVE  /\ s \o t \in Seq(S) /\ Len(s \o t) = Len(s) + Len(t)
         /\ \A i \in 1..Len(s) : (s \o t)[i] = s[i]
         /\ \A i \in 1..Len(t) : (s \o t)[Len(s) + i] = t[i]
OBVIOUS

\* The way back: the clefs of a measure and of those after it.
BackRule(f, part) ==
  f = [n \in DOMAIN part |->
         IF n = Len(part) THEN <<LastClef(part)>>
         ELSE <<ClefTable(part)[n + 1][Head(f[n + 1])].from>> \o f[n + 1]]

LEMMA BackGrows ==
  ASSUME NEW part \in Seq(Measure), 1 \in 1..Len(part), NEW f, BackRule(f, part)
  PROVE  \A n \in 1..Len(part) :
           /\ f[n] \in Seq(Clefs) /\ Len(f[n]) = Len(part) - n + 1
           /\ f[n][Len(part) - n + 1] = LastClef(part)
           /\ \A m \in 1..(Len(part) - n) : f[n][m] = ClefTable(part)[n + m][f[n][m + 1]].from
<1> DEFINE N == Len(part)
           table == ClefTable(part)
           Grown(n) == /\ f[n] \in Seq(Clefs) /\ Len(f[n]) = N - n + 1
                       /\ f[n][N - n + 1] = LastClef(part)
                       /\ \A m \in 1..(N - n) : f[n][m] = table[n + m][f[n][m + 1]].from
           T == {k \in 0..(N - 1) : Grown(N - k)}
<1>1. N \in Nat /\ 0 \in Nat /\ 1 <= N /\ DOMAIN part = 1..N /\ N - 1 \in Nat /\ 0 <= N - 1
  OBVIOUS
<1>2. LastClef(part) \in Clefs
  BY LastClefIs
<1>3. \A n \in 1..N : \A c \in Clefs : table[n][c].from \in Clefs
  <2>1. \A n \in 1..N : table[n] \in ClefRow
    BY ClefTableIs
  <2> HIDE DEF table
  <2> QED
    BY <2>1, TwoClefs DEF ClefCell
<1>8. BackRule(f, part) <=>
        f = [n \in 1..N |-> IF n = N THEN <<LastClef(part)>>
                            ELSE <<table[n + 1][Head(f[n + 1])].from>> \o f[n + 1]]
  BY <1>1 DEF BackRule
<1> HIDE DEF table, N
<1>4. 0 \in T
  <2>1. f[N] = <<LastClef(part)>>
    <3>1. N \in 1..N
      BY <1>1
    <3> QED
      BY <1>8, <3>1
  <2>2. 1..(N - N) = {} /\ N - N + 1 = 1
    BY <1>1
  <2>3. /\ <<LastClef(part)>> \in Seq(Clefs) /\ Len(<<LastClef(part)>>) = 1
        /\ <<LastClef(part)>>[1] = LastClef(part)
    BY <1>2
  <2>4. Grown(N)
    BY <2>1, <2>2, <2>3
  <2> QED
    BY <1>1, <2>4
<1>5. ASSUME NEW k \in (0 + 1)..(N - 1), k - 1 \in T PROVE k \in T
  <2> DEFINE n == N - k
             later == f[n + 1]
             c == table[n + 1][Head(later)].from
  <2>1. n \in 1..N /\ n # N /\ n + 1 \in 1..N /\ N - (k - 1) = n + 1 /\ k \in 0..(N - 1) /\ n \in Nat
    BY <1>1
  <2>2. f[n] = <<c>> \o later
    BY <1>8, <2>1
  <2>3. Grown(n + 1)
    BY <1>5, <2>1
  <2>4. /\ later \in Seq(Clefs) /\ Len(later) = N - n /\ later[N - n] = LastClef(part)
        /\ \A m \in 1..(N - n - 1) : later[m] = table[n + 1 + m][later[m + 1]].from
    <3>1. N - (n + 1) + 1 = N - n /\ N - (n + 1) = N - n - 1
      BY <1>1, <2>1
    <3> QED
      BY <2>3, <3>1
  <2> HIDE DEF later, Grown
  <2>5. N - n \in Nat /\ 1 <= N - n /\ N \in Int /\ n \in Int
    BY <1>1, <2>1
  <2>6. Head(later) = later[1] /\ later[1] \in Clefs
    BY <2>4, <2>5
  <2>7. c \in Clefs /\ c = table[n + 1][later[1]].from
    BY <1>3, <2>1, <2>6
  <2> HIDE DEF c, n
  <2>8. /\ f[n] \in Seq(Clefs) /\ Len(f[n]) = N - n + 1 /\ f[n][1] = c
        /\ \A m \in 1..(N - n) : f[n][m + 1] = later[m]
    <3> DEFINE s == <<c>>
    <3>1. s \in Seq(Clefs) /\ Len(s) = 1 /\ s[1] = c
      BY <2>7
    <3> HIDE DEF s
    <3>2. /\ s \o later \in Seq(Clefs) /\ Len(s \o later) = 1 + (N - n) /\ (s \o later)[1] = c
          /\ \A m \in 1..(N - n) : (s \o later)[1 + m] = later[m]
      <4>1. /\ s \o later \in Seq(Clefs) /\ Len(s \o later) = Len(s) + Len(later)
            /\ \A i \in 1..Len(s) : (s \o later)[i] = s[i]
            /\ \A i \in 1..Len(later) : (s \o later)[Len(s) + i] = later[i]
        <5>1. s \in Seq(Clefs) /\ later \in Seq(Clefs)
          BY <2>4, <3>1
        <5> QED
          BY <5>1, Concatenated
      <4>2. 1 \in 1..Len(s)
        BY <3>1
      <4> QED
        BY <2>4, <3>1, <4>1, <4>2
    <3>3. f[n] = s \o later
      BY <2>2 DEF s
    <3> QED
      <4>1. \A m \in 1..(N - n) : 1 + m = m + 1
        BY <2>5
      <4>2. 1 + (N - n) = N - n + 1
        BY <2>5
      <4> QED
        BY <3>2, <3>3, <4>1, <4>2
  <2>9. f[n][N - n + 1] = LastClef(part)
    <3>1. N - n \in 1..(N - n)
      BY <2>5
    <3> QED
      BY <2>4, <2>8, <3>1
  <2>10. ASSUME NEW m \in 1..(N - n) PROVE f[n][m] = table[n + m][f[n][m + 1]].from
    <3>1. f[n][m + 1] = later[m]
      BY <2>8
    <3>2. CASE m = 1
      BY <2>7, <2>8, <3>1, <3>2
    <3>3. CASE m # 1
      <4>1. m - 1 \in 1..(N - n - 1) /\ m - 1 \in 1..(N - n) /\ (m - 1) + 1 = m /\ n + 1 + (m - 1) = n + m
        BY <2>5, <3>3
      <4>2. f[n][m] = later[m - 1]
        BY <2>8, <4>1
      <4>3. later[m - 1] = table[n + m][later[m]].from
        BY <2>4, <4>1
      <4> QED
        BY <3>1, <4>2, <4>3
    <3> QED
      BY <3>2, <3>3
  <2>11. Grown(n)
    BY <2>8, <2>9, <2>10 DEF Grown
  <2> QED
    BY <2>1, <2>11 DEF n
<1>6. 0..(N - 1) \subseteq T
  <2> HIDE DEF T
  <2> QED
    BY <1>1, <1>4, <1>5, Everywhere
<1>7. ASSUME NEW n \in 1..N PROVE Grown(n)
  <2>1. N - n \in 0..(N - 1) /\ N - (N - n) = n
    BY <1>1
  <2> QED
    BY <1>6, <2>1
<1> QED
  BY <1>7 DEF table, N

LEMMA BackExists ==
  ASSUME NEW part \in Seq(Measure), 1 \in 1..Len(part)
  PROVE  \E f : BackRule(f, part)
<1> DEFINE N == Len(part)
           table == ClefTable(part)
           V == {s \in Seq(Clefs) : Len(s) >= 1}
           grown(n, later) == <<table[n + 1][Head(later)].from>> \o later
           step == [p \in ((0 + 1)..(N - 1)) \X V |-> grown(N - p[1], p[2])]
<1>1. N \in Nat /\ 0 \in Nat /\ 1 <= N /\ DOMAIN part = 1..N /\ N - 1 \in Nat /\ 0 <= N - 1
  OBVIOUS
<1>2. \A n \in 1..N : \A c \in Clefs : table[n][c].from \in Clefs
  <2>1. \A n \in 1..N : table[n] \in ClefRow
    BY ClefTableIs
  <2> HIDE DEF table
  <2> QED
    BY <2>1, TwoClefs DEF ClefCell
<1>4. \A f : BackRule(f, part) <=>
        f = [n \in 1..N |-> IF n = N THEN <<LastClef(part)>> ELSE grown(n, f[n + 1])]
  BY <1>1 DEF BackRule
<1> HIDE DEF N, table
<1>5. ASSUME NEW n \in 1..(N - 1), NEW later \in V PROVE grown(n, later) \in V
  <2>1. n + 1 \in 1..N
    BY <1>1
  <2>2. later \in Seq(Clefs) /\ Len(later) >= 1 /\ Head(later) \in Clefs
    OBVIOUS
  <2> DEFINE s == <<table[n + 1][Head(later)].from>>
  <2>3. s \in Seq(Clefs) /\ Len(s) = 1
    BY <1>2, <2>1, <2>2
  <2> HIDE DEF s
  <2>4. s \o later \in Seq(Clefs) /\ Len(s \o later) = 1 + Len(later)
    <3>1. s \in Seq(Clefs) /\ later \in Seq(Clefs)
      BY <2>2, <2>3
    <3>2. s \o later \in Seq(Clefs) /\ Len(s \o later) = Len(s) + Len(later)
      BY <3>1, Concatenated
    <3> QED
      BY <2>3, <3>2
  <2>5. Len(s \o later) >= 1
    BY <2>2, <2>4
  <2> QED
    BY <2>4, <2>5 DEF s
<1> HIDE DEF grown
<1>6. step \in [((0 + 1)..(N - 1)) \X V -> V]
  <2>1. \A k \in (0 + 1)..(N - 1) : N - k \in 1..(N - 1)
    BY <1>1
  <2>2. ASSUME NEW p \in ((0 + 1)..(N - 1)) \X V PROVE grown(N - p[1], p[2]) \in V
    <3>1. N - p[1] \in 1..(N - 1) /\ p[2] \in V
      BY <2>1
    <3> QED
      BY <1>5, <3>1
  <2> QED
    BY <2>2
<1>7. <<LastClef(part)>> \in V
  BY LastClefIs
<1>8. PICK g \in [0..(N - 1) -> V] : Follows(g, 0, N - 1, <<LastClef(part)>>, step)
  <2> HIDE DEF step, V
  <2> QED
    BY <1>1, <1>6, <1>7, RecursionOf
<1> DEFINE f == [n \in 1..N |-> g[N - n]]
<1>9. ASSUME NEW n \in 1..N
      PROVE  f[n] = IF n = N THEN <<LastClef(part)>> ELSE grown(n, f[n + 1])
  <2>1. CASE n = N
    <3>1. N - n = 0
      BY <1>1, <2>1
    <3> QED
      BY <1>8, <2>1, <3>1 DEF Follows
  <2>2. CASE n # N
    <3>1. N - n \in (0 + 1)..(N - 1) /\ N - (n + 1) = (N - n) - 1 /\ n + 1 \in 1..N
          /\ (N - n) - 1 \in 0..(N - 1) /\ N - (N - n) = n
      BY <1>1, <2>2
    <3>2. g[N - n] = step[<<N - n, g[(N - n) - 1]>>]
      BY <1>8, <3>1 DEF Follows
    <3>3. <<N - n, g[(N - n) - 1]>> \in ((0 + 1)..(N - 1)) \X V
      BY <1>8, <3>1
    <3>4. g[N - n] = grown(n, g[(N - n) - 1])
      BY <3>1, <3>2, <3>3
    <3> QED
      BY <2>2, <3>1, <3>4
  <2> QED
    BY <2>1, <2>2
<1>10. f = [n \in 1..N |-> IF n = N THEN <<LastClef(part)>> ELSE grown(n, f[n + 1])]
  <2>1. f = [n \in 1..N |-> f[n]]
    OBVIOUS
  <2> HIDE DEF f
  <2> QED
    BY <1>9, <2>1
<1> HIDE DEF f
<1> QED
  BY <1>4, <1>10

LEMMA OptimizeIs ==
  ASSUME NEW part \in Seq(Measure), 1 \in 1..Len(part)
  PROVE  LET clefs == Optimize(part)
             table == ClefTable(part)
         IN  /\ clefs \in Seq(Clefs) /\ Len(clefs) = Len(part)
             /\ clefs[Len(part)] = LastClef(part)
             /\ \A n \in 2..Len(part) : clefs[n - 1] = table[n][clefs[n]].from
<1> DEFINE f == CHOOSE g : BackRule(g, part)
           N == Len(part)
<1>1. BackRule(f, part)
  BY BackExists
<1>2. Optimize(part) = f[1]
  BY DEF Optimize, BackRule, LastClef
<1> HIDE DEF f
<1>3. N \in Nat /\ 1 \in 1..N /\ N - 1 + 1 = N
  OBVIOUS
<1>4. /\ f[1] \in Seq(Clefs) /\ Len(f[1]) = N /\ f[1][N] = LastClef(part)
      /\ \A m \in 1..(N - 1) : f[1][m] = ClefTable(part)[1 + m][f[1][m + 1]].from
  BY <1>1, <1>3, BackGrows
<1>5. \A n \in 2..N : n - 1 \in 1..(N - 1) /\ 1 + (n - 1) = n /\ (n - 1) + 1 = n
  BY <1>3
<1>6. ASSUME NEW n \in 2..N PROVE f[1][n - 1] = ClefTable(part)[n][f[1][n]].from
  BY <1>4, <1>5
<1> QED
  BY <1>2, <1>4, <1>6

\* The clef before a measure's.
Before(clefs, n) == IF n = 1 THEN clefs[1] ELSE clefs[n - 1]

\* What a choice of clefs costs, measure by measure.
Costs == [cost : Int, changes : Int, preserve : Int]

Accrues(w, part, clefs) ==
  /\ w[0].cost = 0 /\ w[0].changes = 0 /\ w[0].preserve = 0
  /\ \A n \in 1..Len(part) :
       LET added == Added(part, n, Before(clefs, n), clefs[n])
       IN  /\ w[n].cost = w[n - 1].cost + added.cost
           /\ w[n].changes = w[n - 1].changes + added.changes
           /\ w[n].preserve = w[n - 1].preserve + added.preserve

\* The same as the definition writes it.
WorthRule(f, part, clefs) ==
  f = [n \in 0..Len(part) |->
        IF n = 0 THEN <<0, 0, 0>>
        ELSE LET change == IF n = 1 THEN 0 ELSE Differ(clefs[n - 1], clefs[n])
                 kept   == Preservation(part[n], clefs[n])
             IN  <<f[n - 1][1] + WeightedCost(part[n].positions, clefs[n])
                     + kept + change * ChangePenalty,
                   f[n - 1][2] + change, f[n - 1][3] + kept>>]

LEMMA BeforeIs ==
  ASSUME NEW part \in Seq(Measure), NEW clefs \in [1..Len(part) -> Clefs], NEW n \in 1..Len(part)
  PROVE  /\ Before(clefs, n) \in Clefs /\ clefs[n] \in Clefs
         /\ Differ(Before(clefs, n), clefs[n]) = IF n = 1 THEN 0 ELSE Differ(clefs[n - 1], clefs[n])
<1>1. n # 1 => n - 1 \in 1..Len(part)
  OBVIOUS
<1> QED
  BY <1>1 DEF Before, Differ

LEMMA WorthExists ==
  ASSUME NEW part \in Seq(Measure), NEW clefs \in [1..Len(part) -> Clefs]
  PROVE  \E f : WorthRule(f, part, clefs)
<1> DEFINE N == Len(part)
           added(n) == Added(part, n, Before(clefs, n), clefs[n])
           weight(n) == WeightedCost(part[n].positions, clefs[n])
           kept(n) == Preservation(part[n], clefs[n])
           change(n) == Differ(Before(clefs, n), clefs[n])
           costs == [n \in 1..N |-> weight(n) + kept(n) + change(n) * ChangePenalty]
           changes == [n \in 1..N |-> change(n)]
           preserves == [n \in 1..N |-> kept(n)]
<1>1. N \in Nat
  OBVIOUS
<1>2. \A n \in 1..N : weight(n) \in Int /\ kept(n) \in Int /\ change(n) \in Int
  BY BeforeIs, AddedIsInt
<1>3. \A n \in 1..N : change(n) = IF n = 1 THEN 0 ELSE Differ(clefs[n - 1], clefs[n])
  BY BeforeIs
<1>4. \A f : WorthRule(f, part, clefs) <=>
        f = [n \in 0..N |-> IF n = 0 THEN <<0, 0, 0>>
               ELSE <<f[n - 1][1] + weight(n) + kept(n)
                        + (IF n = 1 THEN 0 ELSE Differ(clefs[n - 1], clefs[n])) * ChangePenalty,
                      f[n - 1][2] + (IF n = 1 THEN 0 ELSE Differ(clefs[n - 1], clefs[n])),
                      f[n - 1][3] + kept(n)>>]
  BY DEF WorthRule
<1> HIDE DEF weight, kept, change, N
<1>5. costs \in [1..N -> Int] /\ changes \in [1..N -> Int] /\ preserves \in [1..N -> Int]
  BY <1>2 DEF ChangePenalty
<1>6. PICK c \in [0..N -> Int] : Sums(c, N, costs)
  <2> HIDE DEF costs
  <2> QED
    BY <1>1, <1>5, SumExists
<1>7. PICK d \in [0..N -> Int] : Sums(d, N, changes)
  <2> HIDE DEF changes
  <2> QED
    BY <1>1, <1>5, SumExists
<1>8. PICK e \in [0..N -> Int] : Sums(e, N, preserves)
  <2> HIDE DEF preserves
  <2> QED
    BY <1>1, <1>5, SumExists
<1>9. /\ c[0] = 0 /\ d[0] = 0 /\ e[0] = 0
      /\ \A n \in 1..N : c[n] = c[n - 1] + costs[n] /\ d[n] = d[n - 1] + changes[n]
                         /\ e[n] = e[n - 1] + preserves[n]
  <2> HIDE DEF costs, changes, preserves
  <2>1. c[0] = 0 /\ \A n \in 1..N : c[n] = c[n - 1] + costs[n]
    <3>1. N \in Nat /\ costs \in [1..N -> Int] /\ Sums(c, N, costs)
      BY <1>1, <1>5, <1>6
    <3> QED
      BY <3>1, SumSteps
  <2>2. d[0] = 0 /\ \A n \in 1..N : d[n] = d[n - 1] + changes[n]
    <3>1. N \in Nat /\ changes \in [1..N -> Int] /\ Sums(d, N, changes)
      BY <1>1, <1>5, <1>7
    <3> QED
      BY <3>1, SumSteps
  <2>3. e[0] = 0 /\ \A n \in 1..N : e[n] = e[n - 1] + preserves[n]
    <3>1. N \in Nat /\ preserves \in [1..N -> Int] /\ Sums(e, N, preserves)
      BY <1>1, <1>5, <1>8
    <3> QED
      BY <3>1, SumSteps
  <2> QED
    BY <2>1, <2>2, <2>3
<1> DEFINE f == [n \in 0..N |-> <<c[n], d[n], e[n]>>]
<1>10. ASSUME NEW n \in 0..N
       PROVE  f[n] = IF n = 0 THEN <<0, 0, 0>>
               ELSE <<f[n - 1][1] + weight(n) + kept(n)
                        + (IF n = 1 THEN 0 ELSE Differ(clefs[n - 1], clefs[n])) * ChangePenalty,
                      f[n - 1][2] + (IF n = 1 THEN 0 ELSE Differ(clefs[n - 1], clefs[n])),
                      f[n - 1][3] + kept(n)>>
  <2>1. CASE n = 0
    BY <1>9, <2>1
  <2>2. CASE n # 0
    <3>1. n \in 1..N /\ n - 1 \in 0..N
      BY <1>1, <2>2
    <3>2. f[n - 1][1] = c[n - 1] /\ f[n - 1][2] = d[n - 1] /\ f[n - 1][3] = e[n - 1]
      BY <3>1
    <3>3. f[n] = <<c[n], d[n], e[n]>>
      OBVIOUS
    <3>4. c[n] = c[n - 1] + (weight(n) + kept(n) + change(n) * ChangePenalty)
      BY <1>9, <3>1
    <3>5. d[n] = d[n - 1] + change(n) /\ e[n] = e[n - 1] + kept(n)
      BY <1>9, <3>1
    <3>6. c[n - 1] \in Int /\ weight(n) \in Int /\ kept(n) \in Int /\ change(n) * ChangePenalty \in Int
      <4>1. weight(n) \in Int /\ kept(n) \in Int /\ change(n) \in Int
        BY <1>2, <3>1
      <4>2. change(n) * ChangePenalty \in Int
        BY <4>1 DEF ChangePenalty
      <4>3. c[n - 1] \in Int
        BY <1>6, <3>1
      <4> QED
        BY <4>1, <4>2, <4>3
    <3>7. c[n] = c[n - 1] + weight(n) + kept(n) + change(n) * ChangePenalty
      BY <3>4, <3>6
    <3>8. change(n) = IF n = 1 THEN 0 ELSE Differ(clefs[n - 1], clefs[n])
      BY <1>3, <3>1
    <3> HIDE DEF f
    <3> QED
      BY <2>2, <3>2, <3>3, <3>5, <3>7, <3>8
  <2> QED
    BY <2>1, <2>2
<1>11. f = [n \in 0..N |-> IF n = 0 THEN <<0, 0, 0>>
               ELSE <<f[n - 1][1] + weight(n) + kept(n)
                        + (IF n = 1 THEN 0 ELSE Differ(clefs[n - 1], clefs[n])) * ChangePenalty,
                      f[n - 1][2] + (IF n = 1 THEN 0 ELSE Differ(clefs[n - 1], clefs[n])),
                      f[n - 1][3] + kept(n)>>]
  <2>1. f = [n \in 0..N |-> f[n]]
    OBVIOUS
  <2> HIDE DEF f
  <2> QED
    BY <1>10, <2>1
<1> HIDE DEF f
<1> QED
  BY <1>4, <1>11

LEMMA WorthIs ==
  ASSUME NEW part \in Seq(Measure), NEW clefs \in [1..Len(part) -> Clefs]
  PROVE  \E w \in [0..Len(part) -> Costs] :
           /\ Accrues(w, part, clefs)
           /\ ClefWorth(part, clefs) = <<w[Len(part)].cost, w[Len(part)].changes,
                                             w[Len(part)].preserve>>
<1> DEFINE N == Len(part)
           added(n) == Added(part, n, Before(clefs, n), clefs[n])
           weight(n) == WeightedCost(part[n].positions, clefs[n])
           kept(n) == Preservation(part[n], clefs[n])
           change(n) == Differ(Before(clefs, n), clefs[n])
           f == CHOOSE g : WorthRule(g, part, clefs)
           w == [n \in 0..N |-> [cost |-> f[n][1], changes |-> f[n][2], preserve |-> f[n][3]]]
<1>1. N \in Nat /\ 0 \in Nat /\ 0 \in 0..N /\ N \in 0..N
  OBVIOUS
<1>2. WorthRule(f, part, clefs)
  BY WorthExists
<1>3. ClefWorth(part, clefs) = f[N]
  BY DEF ClefWorth, WorthRule
<1>4. \A n \in 1..N : weight(n) \in Int /\ kept(n) \in Int /\ change(n) \in Int
                      /\ change(n) = IF n = 1 THEN 0 ELSE Differ(clefs[n - 1], clefs[n])
  <2>1. \A n \in 1..N : Before(clefs, n) \in Clefs /\ clefs[n] \in Clefs
    BY BeforeIs
  <2>2. \A n \in 1..N : change(n) = IF n = 1 THEN 0 ELSE Differ(clefs[n - 1], clefs[n])
    BY BeforeIs
  <2>3. \A n \in 1..N : weight(n) \in Int /\ kept(n) \in Int /\ change(n) \in Int
    BY <2>1, AddedIsInt
  <2> QED
    BY <2>2, <2>3
<1> HIDE DEF f
<1>5. f[0] = <<0, 0, 0>>
  BY <1>1, <1>2 DEF WorthRule
<1>6. ASSUME NEW n \in 1..N
      PROVE  f[n] = <<f[n - 1][1] + weight(n) + kept(n) + change(n) * ChangePenalty,
                      f[n - 1][2] + change(n), f[n - 1][3] + kept(n)>>
  <2>1. n \in 0..N /\ n # 0
    OBVIOUS
  <2>2. f[n] = LET ch == IF n = 1 THEN 0 ELSE Differ(clefs[n - 1], clefs[n])
               IN <<f[n - 1][1] + weight(n) + kept(n) + ch * ChangePenalty,
                      f[n - 1][2] + ch, f[n - 1][3] + kept(n)>>
    BY <1>2, <2>1 DEF WorthRule
  <2> HIDE DEF weight, kept, change
  <2> QED
    BY <1>4, <2>2
<1>7. \A n \in 1..N : /\ added(n).cost = weight(n) + kept(n) + change(n) * ChangePenalty
                      /\ added(n).changes = change(n) /\ added(n).preserve = kept(n)
  BY DEF Added
<1> HIDE DEF weight, kept, change, added, N
<1> DEFINE T == {n \in 0..N : f[n][1] \in Int /\ f[n][2] \in Int /\ f[n][3] \in Int}
<1>8. 0 \in T
  BY <1>1, <1>5
<1>9. ASSUME NEW n \in (0 + 1)..N, n - 1 \in T PROVE n \in T
  <2>1. n \in 1..N /\ n \in 0..N
    BY <1>1
  <2>2. change(n) * ChangePenalty \in Int
    BY <1>4, <2>1 DEF ChangePenalty
  <2>3. /\ f[n][1] = f[n - 1][1] + weight(n) + kept(n) + change(n) * ChangePenalty
        /\ f[n][2] = f[n - 1][2] + change(n) /\ f[n][3] = f[n - 1][3] + kept(n)
    BY <1>6, <2>1
  <2>4. weight(n) \in Int /\ kept(n) \in Int /\ change(n) \in Int
    BY <1>4, <2>1
  <2>5. f[n - 1][1] \in Int /\ f[n - 1][2] \in Int /\ f[n - 1][3] \in Int
    BY <1>9
  <2>6. f[n][1] \in Int /\ f[n][2] \in Int /\ f[n][3] \in Int
    <3>2. f[n][1] \in Int
      <4> DEFINE a == f[n - 1][1]
                 b == weight(n)
                 c == kept(n)
                 d == change(n) * ChangePenalty
      <4>1. a \in Int /\ b \in Int /\ c \in Int /\ d \in Int
        BY <2>2, <2>4, <2>5
      <4>2. f[n][1] = a + b + c + d
        BY <2>3
      <4> HIDE DEF a, b, c, d
      <4>3. a + b + c + d \in Int
        BY <4>1
      <4> QED
        BY <4>2, <4>3
    <3>3. \A x, a, b : x = a + b /\ a \in Int /\ b \in Int => x \in Int
      OBVIOUS
    <3>4. f[n][2] \in Int
      BY <2>3, <2>4, <2>5, <3>3
    <3>5. f[n][3] \in Int
      BY <2>3, <2>4, <2>5, <3>3
    <3> QED
      BY <3>2, <3>4, <3>5
  <2> QED
    BY <2>1, <2>6
<1>10. 0..N \subseteq T
  <2> HIDE DEF T
  <2> QED
    BY <1>1, <1>8, <1>9, Everywhere
<1>11. w \in [0..N -> Costs]
  BY <1>10 DEF Costs
<1>12. \A n \in 0..N : w[n].cost = f[n][1] /\ w[n].changes = f[n][2] /\ w[n].preserve = f[n][3]
  OBVIOUS
<1> HIDE DEF w
<1>13. w[0].cost = 0 /\ w[0].changes = 0 /\ w[0].preserve = 0
  BY <1>1, <1>5, <1>12
<1>14. ASSUME NEW n \in 1..N
       PROVE  /\ w[n].cost = w[n - 1].cost + added(n).cost
              /\ w[n].changes = w[n - 1].changes + added(n).changes
              /\ w[n].preserve = w[n - 1].preserve + added(n).preserve
  <2>1. n \in 0..N /\ n - 1 \in 0..N
    BY <1>1
  <2>2. f[n - 1][1] \in Int /\ weight(n) \in Int /\ kept(n) \in Int /\ change(n) * ChangePenalty \in Int
    BY <1>4, <1>10, <2>1 DEF ChangePenalty
  <2>3. f[n][1] = f[n - 1][1] + (weight(n) + kept(n) + change(n) * ChangePenalty)
    <3>1. f[n][1] = f[n - 1][1] + weight(n) + kept(n) + change(n) * ChangePenalty
      BY <1>6
    <3>2. \A x, y, z, t \in Int : x + y + z + t = x + (y + z + t)
      OBVIOUS
    <3> QED
      BY <2>2, <3>1, <3>2
  <2>4. f[n][2] = f[n - 1][2] + change(n) /\ f[n][3] = f[n - 1][3] + kept(n)
    BY <1>6
  <2> QED
    BY <1>7, <1>12, <2>1, <2>3, <2>4
<1>15. Accrues(w, part, clefs)
  BY <1>13, <1>14 DEF Accrues, added, N
<1>16. f[N] = <<w[N].cost, w[N].changes, w[N].preserve>>
  <2>1. CASE N = 0
    BY <1>5, <1>13, <2>1
  <2>2. CASE N # 0
    <3>1. N \in 1..N
      BY <1>1, <2>2
    <3>2. f[N] = <<f[N - 1][1] + weight(N) + kept(N) + change(N) * ChangePenalty,
                   f[N - 1][2] + change(N), f[N - 1][3] + kept(N)>>
      BY <1>6, <3>1
    <3>3. f[N] = <<f[N][1], f[N][2], f[N][3]>>
      BY <3>2
    <3> QED
      BY <1>1, <1>12, <3>3
  <2> QED
    BY <2>1, <2>2
<1> QED
  BY <1>3, <1>11, <1>15, <1>16 DEF N

LEMMA NoWorseTrans ==
  ASSUME NEW a, NEW b, NEW c,
         \A x \in {a, b, c} : x.cost \in Int /\ x.changes \in Int /\ x.preserve \in Int,
         NoWorse(a, b), NoWorse(b, c)
  PROVE  NoWorse(a, c)
<1>1. /\ a.cost \in Int /\ a.changes \in Int /\ a.preserve \in Int
      /\ b.cost \in Int /\ b.changes \in Int /\ b.preserve \in Int
      /\ c.cost \in Int /\ c.changes \in Int /\ c.preserve \in Int
  OBVIOUS
<1> QED
  BY <1>1 DEF NoWorse

\* Adding the same to both keeps the order.
LEMMA NoWorseAdded ==
  ASSUME NEW a, NEW b, NEW c, NEW d, NEW e,
         \A x \in {a, b, c, d, e} : x.cost \in Int /\ x.changes \in Int /\ x.preserve \in Int,
         NoWorse(a, b),
         c.cost = a.cost + e.cost, c.changes = a.changes + e.changes, c.preserve = a.preserve + e.preserve,
         d.cost = b.cost + e.cost, d.changes = b.changes + e.changes, d.preserve = b.preserve + e.preserve
  PROVE  NoWorse(c, d)
<1>1. /\ a.cost \in Int /\ a.changes \in Int /\ a.preserve \in Int
      /\ b.cost \in Int /\ b.changes \in Int /\ b.preserve \in Int
      /\ e.cost \in Int /\ e.changes \in Int /\ e.preserve \in Int
  OBVIOUS
<1> QED
  BY <1>1 DEF NoWorse

LEMMA AddedIsCosts ==
  ASSUME NEW part \in Seq(Measure), NEW n \in 1..Len(part), NEW from \in Clefs, NEW clef \in Clefs
  PROVE  LET added == Added(part, n, from, clef)
         IN  added.cost \in Int /\ added.changes \in Int /\ added.preserve \in Int
<1>1. /\ Added(part, n, from, clef).changes = Differ(from, clef)
      /\ Added(part, n, from, clef).preserve = Preservation(part[n], clef)
  BY DEF Added
<1> QED
  BY <1>1, AddedIsInt

LEMMA AllowedIs ==
  ASSUME NEW part, NEW clefs, Len(part) \in Nat
  PROVE  Allowed(part, clefs)
           <=> \A n \in 2..Len(part) : Blocked(part, n) => clefs[n] = clefs[n - 1]
<1>1. \A n \in 2..Len(part) : n > 1
  OBVIOUS
<1> QED
  BY <1>1 DEF Allowed, Blocked

\* No choice beats its cell, and the path costs what its last cell says.
LEMMA CellsBound ==
  ASSUME NEW part \in Seq(Measure), 1 \in 1..Len(part),
         NEW clefs \in [1..Len(part) -> Clefs], Allowed(part, clefs),
         NEW w \in [0..Len(part) -> Costs], Accrues(w, part, clefs)
  PROVE  \A n \in 1..Len(part) : NoWorse(ClefTable(part)[n][clefs[n]], w[n])
<1> DEFINE N == Len(part)
           table == ClefTable(part)
           added(n) == Added(part, n, Before(clefs, n), clefs[n])
           T == {n \in 1..N : NoWorse(table[n][clefs[n]], w[n])}
<1>1. N \in Nat /\ 1 \in Nat /\ 1 \in 1..N
  OBVIOUS
<1>2. /\ table \in Seq(ClefRow) /\ Len(table) = N
      /\ \A c \in Clefs : table[1][c] = FirstCell(part, c)
      /\ \A n \in 2..N : \A c \in Clefs : table[n][c] = Cell(part, n, c, table[n - 1])
  BY ClefTableIs
<1> HIDE DEF table
<1>3. \A n \in 1..N : clefs[n] \in Clefs /\ table[n] \in ClefRow
  BY <1>2
<1>4. \A n \in 1..N : table[n][clefs[n]] \in ClefCell
  BY <1>3, TwoClefs
<1>5. \A n \in 1..N : added(n).cost \in Int /\ added(n).changes \in Int /\ added(n).preserve \in Int
  BY BeforeIs, AddedIsCosts
<1>6. \A n \in 0..N : w[n].cost \in Int /\ w[n].changes \in Int /\ w[n].preserve \in Int
  BY DEF Costs
<1>7. /\ w[0].cost = 0 /\ w[0].changes = 0 /\ w[0].preserve = 0
      /\ \A n \in 1..N : /\ w[n].cost = w[n - 1].cost + added(n).cost
                         /\ w[n].changes = w[n - 1].changes + added(n).changes
                         /\ w[n].preserve = w[n - 1].preserve + added(n).preserve
  BY DEF Accrues
<1>8. 1 \in T
  <2> DEFINE first == FirstCell(part, clefs[1])
  <2>1. table[1][clefs[1]] = first
    BY <1>1, <1>2, <1>3
  <2>2. Before(clefs, 1) = clefs[1] /\ Differ(clefs[1], clefs[1]) = 0
    BY DEF Before, Differ
  <2>3. first.cost = added(1).cost /\ first.changes = 0 /\ first.preserve = added(1).preserve
    BY <1>1, <1>3, <2>2, FirstCellIs
  <2>4. added(1).changes = 0
    BY <2>2 DEF Added
  <2> HIDE DEF first, added
  <2>5. w[1].cost = first.cost /\ w[1].changes = first.changes /\ w[1].preserve = first.preserve
    <3>1. w[1].cost = 0 + added(1).cost /\ w[1].changes = 0 + added(1).changes
          /\ w[1].preserve = 0 + added(1).preserve
      BY <1>1, <1>7
    <3>2. added(1).cost \in Int /\ added(1).changes \in Int /\ added(1).preserve \in Int
      BY <1>1, <1>5
    <3>3. \A x \in Int : 0 + x = x
      OBVIOUS
    <3>4. w[1].cost = added(1).cost /\ w[1].changes = added(1).changes /\ w[1].preserve = added(1).preserve
      BY <3>1, <3>2, <3>3
    <3> QED
      BY <2>3, <2>4, <3>4
  <2>6. w[1].cost \in Int /\ w[1].changes \in Int /\ w[1].preserve \in Int
    BY <1>1, <1>6
  <2> QED
    BY <1>1, <2>1, <2>5, <2>6 DEF NoWorse
<1>9. ASSUME NEW n \in (1 + 1)..N, n - 1 \in T PROVE n \in T
  <2>1. n \in 2..N /\ n \in 1..N /\ n - 1 \in 1..N /\ n # 1 /\ n \in 0..N /\ n - 1 \in 0..N
    BY <1>1
  <2> DEFINE from == clefs[n - 1]
             prior == table[n - 1]
             cell == Cell(part, n, clefs[n], prior)
             via == Extended(prior[from], part, n, clefs[n], from)
             extra == added(n)
  <2>2. from \in Clefs /\ clefs[n] \in Clefs /\ prior \in ClefRow /\ prior[from] \in ClefCell
    BY <1>3, <1>4, <2>1
  <2>3. Blocked(part, n) => from = clefs[n]
    BY <1>1, <2>1, AllowedIs
  <2>4. cell \in ClefCell /\ NoWorse(cell, via)
    BY <2>1, <2>2, <2>3, CellIs
  <2>5. extra = Added(part, n, from, clefs[n])
    BY <2>1 DEF Before
  <2>6. /\ via \in ClefCell /\ via.cost = prior[from].cost + extra.cost
        /\ via.changes = prior[from].changes + extra.changes
        /\ via.preserve = prior[from].preserve + extra.preserve
    BY <2>1, <2>2, <2>5, ExtendedIs
  <2>7. NoWorse(prior[from], w[n - 1])
    BY <1>9
  <2>8. table[n][clefs[n]] = cell
    BY <1>2, <2>1, <2>2
  <2>9. \A c \in ClefCell : c.cost \in Int /\ c.changes \in Int /\ c.preserve \in Int
    BY DEF ClefCell
  <2>10. /\ w[n].cost = w[n - 1].cost + extra.cost /\ w[n].changes = w[n - 1].changes + extra.changes
         /\ w[n].preserve = w[n - 1].preserve + extra.preserve
    BY <1>7, <2>1
  <2>11. /\ extra.cost \in Int /\ extra.changes \in Int /\ extra.preserve \in Int
         /\ w[n].cost \in Int /\ w[n].changes \in Int /\ w[n].preserve \in Int
         /\ w[n - 1].cost \in Int /\ w[n - 1].changes \in Int /\ w[n - 1].preserve \in Int
    BY <1>5, <1>6, <2>1
  <2> HIDE DEF from, prior, cell, via, extra
  <2>12. NoWorse(via, w[n])
    <3>1. \A x \in {prior[from], w[n - 1], via, w[n], extra} :
            x.cost \in Int /\ x.changes \in Int /\ x.preserve \in Int
      BY <2>2, <2>6, <2>9, <2>11
    <3> QED
      BY <2>6, <2>7, <2>10, <3>1, NoWorseAdded
  <2>13. NoWorse(cell, w[n])
    <3>1. \A x \in {cell, via, w[n]} : x.cost \in Int /\ x.changes \in Int /\ x.preserve \in Int
      BY <2>4, <2>6, <2>9, <2>11
    <3> QED
      BY <2>4, <2>12, <3>1, NoWorseTrans
  <2> QED
    BY <2>1, <2>8, <2>13
<1>10. 1..N \subseteq T
  <2> HIDE DEF T, N
  <2> QED
    BY <1>1, <1>8, <1>9, Everywhere
<1> QED
  BY <1>10 DEF table

LEMMA PathCosts ==
  ASSUME NEW part \in Seq(Measure), 1 \in 1..Len(part), NEW w \in [0..Len(part) -> Costs],
         Accrues(w, part, Optimize(part))
  PROVE  \A n \in 1..Len(part) :
           LET cell == ClefTable(part)[n][Optimize(part)[n]]
           IN  cell.cost = w[n].cost /\ cell.changes = w[n].changes /\ cell.preserve = w[n].preserve
<1> DEFINE N == Len(part)
           table == ClefTable(part)
           clefs == Optimize(part)
           added(n) == Added(part, n, Before(clefs, n), clefs[n])
           Equal(n) == /\ table[n][clefs[n]].cost = w[n].cost /\ table[n][clefs[n]].changes = w[n].changes
                      /\ table[n][clefs[n]].preserve = w[n].preserve
           T == {n \in 1..N : Equal(n)}
<1>1. N \in Nat /\ 1 \in Nat /\ 1 \in 1..N
  OBVIOUS
<1>2. /\ table \in Seq(ClefRow) /\ Len(table) = N
      /\ \A c \in Clefs : table[1][c] = FirstCell(part, c)
      /\ \A n \in 2..N : \A c \in Clefs : table[n][c] = Cell(part, n, c, table[n - 1])
  BY ClefTableIs
<1>3. /\ clefs \in Seq(Clefs) /\ Len(clefs) = N
      /\ \A n \in 2..N : clefs[n - 1] = table[n][clefs[n]].from
  BY OptimizeIs
<1>7. /\ w[0].cost = 0 /\ w[0].changes = 0 /\ w[0].preserve = 0
      /\ \A n \in 1..N : /\ w[n].cost = w[n - 1].cost + added(n).cost
                         /\ w[n].changes = w[n - 1].changes + added(n).changes
                         /\ w[n].preserve = w[n - 1].preserve + added(n).preserve
  BY DEF Accrues
<1> HIDE DEF table, clefs
<1>4. clefs \in [1..N -> Clefs]
  BY <1>3
<1>5. \A n \in 1..N : clefs[n] \in Clefs /\ table[n] \in ClefRow
  BY <1>2, <1>4
<1>6. \A n \in 1..N : added(n).cost \in Int /\ added(n).changes \in Int /\ added(n).preserve \in Int
  BY <1>4, BeforeIs, AddedIsCosts
<1>8. 1 \in T
  <2> DEFINE first == FirstCell(part, clefs[1])
  <2>1. table[1][clefs[1]] = first
    BY <1>1, <1>2, <1>5
  <2>2. Before(clefs, 1) = clefs[1] /\ Differ(clefs[1], clefs[1]) = 0
    BY DEF Before, Differ
  <2>3. first.cost = added(1).cost /\ first.changes = 0 /\ first.preserve = added(1).preserve
    BY <1>1, <1>5, <2>2, FirstCellIs
  <2>4. added(1).changes = 0
    BY <2>2 DEF Added
  <2> HIDE DEF first, added
  <2>5. w[1].cost = first.cost /\ w[1].changes = first.changes /\ w[1].preserve = first.preserve
    <3>1. w[1].cost = 0 + added(1).cost /\ w[1].changes = 0 + added(1).changes
          /\ w[1].preserve = 0 + added(1).preserve
      BY <1>1, <1>7
    <3>2. added(1).cost \in Int /\ added(1).changes \in Int /\ added(1).preserve \in Int
      BY <1>1, <1>6
    <3>3. \A x \in Int : 0 + x = x
      OBVIOUS
    <3>4. w[1].cost = added(1).cost /\ w[1].changes = added(1).changes /\ w[1].preserve = added(1).preserve
      BY <3>1, <3>2, <3>3
    <3> QED
      BY <2>3, <2>4, <3>4
  <2> QED
    BY <1>1, <2>1, <2>5
<1>9. ASSUME NEW n \in (1 + 1)..N, n - 1 \in T PROVE n \in T
  <2>1. n \in 2..N /\ n \in 1..N /\ n - 1 \in 1..N /\ n # 1
    BY <1>1
  <2> DEFINE from == clefs[n - 1]
             prior == table[n - 1]
             cell == Cell(part, n, clefs[n], prior)
             extra == added(n)
  <2>2. from \in Clefs /\ clefs[n] \in Clefs /\ prior \in ClefRow /\ prior[from] \in ClefCell
    <3>1. from \in Clefs /\ clefs[n] \in Clefs /\ prior \in ClefRow
      BY <1>5, <2>1
    <3> QED
      BY <3>1, TwoClefs
  <2>3. table[n][clefs[n]] = cell
    BY <1>2, <2>1, <2>2
  <2>4. cell.from = from
    BY <1>3, <2>1, <2>3
  <2>5. cell = Extended(prior[from], part, n, clefs[n], from)
    BY <2>1, <2>2, <2>4, CellIs
  <2>6. extra = Added(part, n, from, clefs[n])
    BY <2>1 DEF Before
  <2>7. /\ cell.cost = prior[from].cost + extra.cost
        /\ cell.changes = prior[from].changes + extra.changes
        /\ cell.preserve = prior[from].preserve + extra.preserve
    BY <2>1, <2>2, <2>5, <2>6, ExtendedIs
  <2>8. prior[from].cost = w[n - 1].cost /\ prior[from].changes = w[n - 1].changes
        /\ prior[from].preserve = w[n - 1].preserve
    BY <1>9
  <2>9. Equal(n)
    BY <1>7, <2>1, <2>3, <2>7, <2>8
  <2> QED
    BY <2>1, <2>9
<1>10. 1..N \subseteq T
  <2> HIDE DEF T, N
  <2> QED
    BY <1>1, <1>8, <1>9, Everywhere
<1> QED
  BY <1>10 DEF table, clefs

LEMMA PathIsAllowed ==
  ASSUME NEW part \in Seq(Measure), 1 \in 1..Len(part)
  PROVE  Allowed(part, Optimize(part))
<1> DEFINE clefs == Optimize(part)
           table == ClefTable(part)
<1>1. /\ clefs \in Seq(Clefs) /\ Len(clefs) = Len(part)
      /\ \A n \in 2..Len(part) : clefs[n - 1] = table[n][clefs[n]].from
  BY OptimizeIs
<1>2. /\ table \in Seq(ClefRow) /\ Len(table) = Len(part)
      /\ \A n \in 2..Len(part) : \A c \in Clefs : table[n][c] = Cell(part, n, c, table[n - 1])
  BY ClefTableIs
<1> HIDE DEF clefs, table
<1>3. ASSUME NEW n \in 2..Len(part), Blocked(part, n) PROVE clefs[n] = clefs[n - 1]
  <2>1. n \in 1..Len(part) /\ n - 1 \in 1..Len(part)
    OBVIOUS
  <2>2. clefs[n] \in Clefs /\ table[n - 1] \in ClefRow
    BY <1>1, <1>2, <2>1
  <2>3. Cell(part, n, clefs[n], table[n - 1]).from = clefs[n]
    BY <1>3, <2>2, CellIs
  <2> QED
    BY <1>1, <1>2, <2>2, <2>3
<1>4. Len(part) \in Nat
  OBVIOUS
<1> QED
  BY <1>3, <1>4, AllowedIs DEF clefs

LEMMA PathIsBest ==
  ASSUME NEW part \in Seq(Measure), 1 \in 1..Len(part),
         NEW other \in [1..Len(part) -> Clefs], Allowed(part, other)
  PROVE  ~ Precedes(ClefWorth(part, other), ClefWorth(part, Optimize(part)))
<1> DEFINE N == Len(part)
           clefs == Optimize(part)
           table == ClefTable(part)
<1>1. N \in 1..N /\ N \in 0..N
  OBVIOUS
<1>2. /\ clefs \in Seq(Clefs) /\ Len(clefs) = N /\ clefs[N] = LastClef(part)
  BY OptimizeIs
<1>3. clefs \in [1..N -> Clefs]
  BY <1>2
<1>4. PICK w \in [0..N -> Costs] :
        /\ Accrues(w, part, other)
        /\ ClefWorth(part, other) = <<w[N].cost, w[N].changes, w[N].preserve>>
  BY WorthIs
<1>5. PICK v \in [0..N -> Costs] :
        /\ Accrues(v, part, clefs)
        /\ ClefWorth(part, clefs) = <<v[N].cost, v[N].changes, v[N].preserve>>
  BY <1>3, WorthIs
<1>6. NoWorse(table[N][other[N]], w[N])
  BY <1>1, <1>4, CellsBound
<1>7. table[N][clefs[N]].cost = v[N].cost /\ table[N][clefs[N]].changes = v[N].changes
      /\ table[N][clefs[N]].preserve = v[N].preserve
  BY <1>1, <1>5, PathCosts
<1>8. NoWorse(table[N][clefs[N]], table[N][other[N]])
  BY <1>1, <1>2, LastClefIs
<1>9. /\ w[N].cost \in Int /\ w[N].changes \in Int /\ w[N].preserve \in Int
      /\ v[N].cost \in Int /\ v[N].changes \in Int /\ v[N].preserve \in Int
  BY <1>1 DEF Costs
<1>10. table[N][other[N]] \in ClefCell
  <2>1. table[N] \in ClefRow /\ other[N] \in Clefs
    BY <1>1, ClefTableIs
  <2> HIDE DEF table, N
  <2> QED
    BY <2>1, TwoClefs
<1> HIDE DEF table, clefs, N
<1>11. NoWorse(v[N], w[N])
  <2>1. \A x \in {table[N][clefs[N]], table[N][other[N]], w[N]} :
          x.cost \in Int /\ x.changes \in Int /\ x.preserve \in Int
    BY <1>7, <1>9, <1>10 DEF ClefCell
  <2>2. NoWorse(table[N][clefs[N]], w[N])
    BY <1>6, <1>8, <2>1, NoWorseTrans
  <2> QED
    BY <1>7, <2>2 DEF NoWorse
<1> DEFINE s == <<w[N].cost, w[N].changes, w[N].preserve>>
           t == <<v[N].cost, v[N].changes, v[N].preserve>>
<1>12. /\ DOMAIN s = {1, 2, 3} /\ s[1] = w[N].cost /\ s[2] = w[N].changes /\ s[3] = w[N].preserve
       /\ t[1] = v[N].cost /\ t[2] = v[N].changes /\ t[3] = v[N].preserve
  OBVIOUS
<1>13. ClefWorth(part, other) = s /\ ClefWorth(part, clefs) = t
  BY <1>4, <1>5
<1> HIDE DEF s, t
<1>14. ~ Precedes(s, t)
  <2>1. Precedes(s, t) <=> \/ s[1] < t[1]
                           \/ s[2] < t[2] /\ s[1] = t[1]
                           \/ s[3] < t[3] /\ s[1] = t[1] /\ s[2] = t[2]
    BY <1>12, PrecedesThree
  <2>2. \/ v[N].cost < w[N].cost
        \/ v[N].cost = w[N].cost
             /\ (v[N].changes < w[N].changes
                  \/ (v[N].changes = w[N].changes /\ v[N].preserve <= w[N].preserve))
    BY <1>11 DEF NoWorse
  <2> QED
    BY <1>9, <1>12, <2>1, <2>2
<1> QED
  BY <1>13, <1>14 DEF clefs

LEMMA LedgerIs ==
  ASSUME NEW part \in Seq(Measure), NEW clefs \in [1..Len(part) -> Clefs]
  PROVE  \E l \in [0..Len(part) -> Int] :
           /\ l[0] = 0
           /\ \A n \in 1..Len(part) :
                l[n] = l[n - 1] + WeightedCost(part[n].positions, clefs[n])
           /\ LedgerCost(part, clefs) = l[Len(part)]
<1> DEFINE N == Len(part)
           weight(n) == WeightedCost(part[n].positions, clefs[n])
           term == [n \in 1..N |-> weight(n)]
           Rule(f) == f = [n \in 0..N |-> IF n = 0 THEN 0 ELSE f[n - 1] + weight(n)]
<1>1. N \in Nat
  OBVIOUS
<1>2. \A n \in 1..N : weight(n) \in Int
  <2>1. \A n \in 1..N : clefs[n] \in Clefs
    OBVIOUS
  <2> QED
    BY <2>1, AddedIsInt
<1>3. LedgerCost(part, clefs) = (CHOOSE f : Rule(f))[N]
  BY DEF LedgerCost
<1> HIDE DEF weight, N
<1>4. term \in [1..N -> Int]
  BY <1>2
<1>5. \A f : Rule(f) <=> Sums(f, N, term)
  <2>1. \A f : [n \in 0..N |-> IF n = 0 THEN 0 ELSE f[n - 1] + weight(n)]
                 = [n \in 0..N |-> IF n = 0 THEN 0 ELSE f[n - 1] + term[n]]
    <3>1. \A n \in 0..N : n # 0 => n \in 1..N
      BY <1>1
    <3> QED
      BY <3>1
  <2> QED
    BY <2>1 DEF Sums
<1>6. \E f : Rule(f)
  <2> HIDE DEF Rule, term
  <2> QED
    BY <1>1, <1>4, <1>5, SumExists
<1> DEFINE l == CHOOSE f : Rule(f)
<1>7. Sums(l, N, term)
  <2>1. Rule(l)
    <3> HIDE DEF Rule
    <3> QED
      BY <1>6
  <2> HIDE DEF Rule, l
  <2> QED
    BY <1>5, <2>1
<1> HIDE DEF l
<1>8. l \in [0..N -> Int] /\ l[0] = 0 /\ \A n \in 1..N : l[n] = l[n - 1] + term[n]
  <2> HIDE DEF term
  <2> QED
    BY <1>1, <1>4, <1>7, SumSteps
<1>9. \A n \in 1..N : l[n] = l[n - 1] + weight(n)
  BY <1>8
<1>10. LedgerCost(part, clefs) = l[N]
  BY <1>3 DEF l
<1> QED
  BY <1>8, <1>9, <1>10 DEF N, weight

\* A choice costs its ledger lines, and more when it changes a clef.
LEMMA WorthHoldsLedger ==
  ASSUME NEW part \in Seq(Measure), NEW clefs \in [1..Len(part) -> Clefs]
  PROVE  /\ ClefWorth(part, clefs)[1] \in Int /\ LedgerCost(part, clefs) \in Int
         /\ LedgerCost(part, clefs) <= ClefWorth(part, clefs)[1]
         /\ (\A n \in 1..Len(part) : clefs[n] = part[n].clef /\ clefs[n] = Before(clefs, n))
              => LedgerCost(part, clefs) = ClefWorth(part, clefs)[1]
<1> DEFINE N == Len(part)
           weight(n) == WeightedCost(part[n].positions, clefs[n])
           kept(n) == Preservation(part[n], clefs[n])
           change(n) == Differ(Before(clefs, n), clefs[n])
           extra(n) == kept(n) + change(n) * ChangePenalty
           Kept == \A n \in 1..N : clefs[n] = part[n].clef /\ clefs[n] = Before(clefs, n)
<1>1. N \in Nat /\ 0 \in Nat /\ 0 \in 0..N /\ N \in 0..N
  OBVIOUS
<1>2. PICK l \in [0..N -> Int] :
        /\ l[0] = 0 /\ \A n \in 1..N : l[n] = l[n - 1] + weight(n)
        /\ LedgerCost(part, clefs) = l[N]
  BY LedgerIs
<1>3. PICK w \in [0..N -> Costs] :
        /\ Accrues(w, part, clefs)
        /\ ClefWorth(part, clefs) = <<w[N].cost, w[N].changes, w[N].preserve>>
  BY WorthIs
<1>4. \A n \in 1..N : weight(n) \in Int /\ kept(n) \in {0, 1} /\ change(n) \in {0, 1}
  <2>1. \A n \in 1..N : Before(clefs, n) \in Clefs /\ clefs[n] \in Clefs
    BY BeforeIs
  <2> QED
    BY <2>1, AddedIsInt
<1>5. w[0].cost = 0 /\ \A n \in 1..N : w[n].cost = w[n - 1].cost + (weight(n) + kept(n) + change(n) * ChangePenalty)
  BY <1>3 DEF Accrues, Added
<1>6. \A n \in 0..N : w[n].cost \in Int /\ l[n] \in Int
  BY DEF Costs
<1>7. Kept => \A n \in 1..N : kept(n) = 0 /\ change(n) = 0
  BY DEF Preservation, Differ
<1> HIDE DEF weight, kept, change, N
<1>8. \A n \in 1..N : extra(n) \in Int /\ extra(n) >= 0 /\ (Kept => extra(n) = 0)
  <2> SUFFICES ASSUME NEW n \in 1..N PROVE extra(n) \in Int /\ extra(n) >= 0 /\ (Kept => extra(n) = 0)
    OBVIOUS
  <2>1. kept(n) \in {0, 1} /\ change(n) \in {0, 1} /\ (Kept => kept(n) = 0 /\ change(n) = 0)
    BY <1>4, <1>7
  <2> HIDE DEF Kept
  <2> QED
    BY <2>1 DEF ChangePenalty
<1>9. \A n \in 1..N : w[n].cost = w[n - 1].cost + (weight(n) + extra(n))
  <2> SUFFICES ASSUME NEW n \in 1..N PROVE w[n].cost = w[n - 1].cost + (weight(n) + extra(n))
    OBVIOUS
  <2>1. weight(n) \in Int /\ kept(n) \in Int /\ change(n) \in Int
    BY <1>4
  <2>2. change(n) * ChangePenalty \in Int
    BY <2>1 DEF ChangePenalty
  <2>3. \A a, b, c \in Int : a + b + c = a + (b + c)
    OBVIOUS
  <2>4. w[n].cost = w[n - 1].cost + (weight(n) + kept(n) + change(n) * ChangePenalty)
    BY <1>5
  <2> QED
    BY <2>1, <2>2, <2>3, <2>4
<1> HIDE DEF extra, Kept
<1> DEFINE T == {n \in 0..N : l[n] <= w[n].cost /\ (Kept => l[n] = w[n].cost)}
<1>10. 0 \in T
  BY <1>1, <1>2, <1>5
<1>11. ASSUME NEW n \in (0 + 1)..N, n - 1 \in T PROVE n \in T
  <2>1. n \in 1..N /\ n \in 0..N /\ n - 1 \in 0..N
    BY <1>1
  <2>2. /\ l[n] = l[n - 1] + weight(n) /\ w[n].cost = w[n - 1].cost + (weight(n) + extra(n))
        /\ weight(n) \in Int /\ extra(n) \in Int /\ extra(n) >= 0 /\ (Kept => extra(n) = 0)
        /\ l[n - 1] \in Int /\ w[n - 1].cost \in Int
        /\ l[n - 1] <= w[n - 1].cost /\ (Kept => l[n - 1] = w[n - 1].cost)
    BY <1>2, <1>4, <1>6, <1>8, <1>9, <1>11, <2>1
  <2>3. l[n] <= w[n].cost /\ (Kept => l[n] = w[n].cost)
    BY <2>2
  <2> QED
    BY <2>1, <2>3
<1>12. 0..N \subseteq T
  <2> HIDE DEF T
  <2> QED
    BY <1>1, <1>10, <1>11, Everywhere
<1>13. ClefWorth(part, clefs)[1] = w[N].cost
  BY <1>3
<1> QED
  BY <1>1, <1>2, <1>6, <1>12, <1>13 DEF Kept, N

LEMMA LedgerNeverCostsMore ==
  ASSUME NEW part \in Seq(Measure), 1 \in 1..Len(part),
         \A i, k \in 1..Len(part) : part[i].clef = part[k].clef
  PROVE  LedgerCost(part, Optimize(part)) <= LedgerCost(part, Written(part))
<1> DEFINE N == Len(part)
           clefs == Optimize(part)
           written == Written(part)
<1>1. N \in Nat /\ DOMAIN part = 1..N
  OBVIOUS
<1>2. clefs \in Seq(Clefs) /\ Len(clefs) = N
  BY OptimizeIs
<1>3. clefs \in [1..N -> Clefs]
  BY <1>2
<1>4. \A n \in 1..N : written[n] = part[n].clef /\ part[n].clef \in Clefs
  <2>1. \A n \in 1..N : part[n] \in Measure
    OBVIOUS
  <2> QED
    BY <1>1, <2>1 DEF Written, Measure
<1>5. written \in [1..N -> Clefs]
  BY <1>1, <1>4 DEF Written
<1>6. \A n \in 1..N : written[n] = part[n].clef /\ written[n] = Before(written, n)
  <2>1. \A n \in 1..N : n # 1 => n - 1 \in 1..N
    BY <1>1
  <2> QED
    BY <1>4, <2>1 DEF Before
<1>7. Allowed(part, written)
  <2>1. \A n \in 2..N : n \in 1..N /\ n - 1 \in 1..N
    BY <1>1
  <2>2. \A n \in 2..N : written[n] = written[n - 1]
    BY <1>4, <2>1
  <2> QED
    BY <2>2 DEF Allowed
<1>8. ~ Precedes(ClefWorth(part, written), ClefWorth(part, clefs))
  BY <1>5, <1>7, PathIsBest
<1>9. DOMAIN ClefWorth(part, written) = {1, 2, 3}
  <2>1. \E w : ClefWorth(part, written) = <<w[N].cost, w[N].changes, w[N].preserve>>
    BY <1>5, WorthIs
  <2> QED
    BY <2>1
<1> HIDE DEF clefs, written, N
<1>10. ~ (ClefWorth(part, written)[1] < ClefWorth(part, clefs)[1])
  BY <1>8, <1>9, PrecedesThree
<1>11. /\ ClefWorth(part, written)[1] \in Int /\ LedgerCost(part, written) \in Int
       /\ LedgerCost(part, written) = ClefWorth(part, written)[1]
  BY <1>5, <1>6, WorthHoldsLedger DEF N
<1>12. /\ ClefWorth(part, clefs)[1] \in Int /\ LedgerCost(part, clefs) \in Int
       /\ LedgerCost(part, clefs) <= ClefWorth(part, clefs)[1]
  BY <1>3, WorthHoldsLedger DEF N
<1> QED
  BY <1>10, <1>11, <1>12 DEF clefs, written

-----------------------------------------------------------------------------
(* Spans.                                                                  *)

LEMMA OneSpan ==
  ASSUME NEW sequence \in Seq(Clefs), NEW n \in 1..Len(sequence)
  PROVE  Cardinality({s \in Spans(sequence) : s[1] <= n /\ n <= s[2]}) = 1
<1> DEFINE N == Len(sequence)
           here == {s \in Spans(sequence) : s[1] <= n /\ n <= s[2]}
           before == {a \in 1..n : \A k \in a..n : sequence[k] = sequence[n]}
           after == {c \in 0..(N - n) : \A k \in n..(N - c) : sequence[k] = sequence[n]}
<1>1. N \in Nat /\ n \in Nat /\ 1 <= n /\ n <= N /\ DOMAIN sequence = 1..N
  OBVIOUS
<1>2. \A s : s \in Spans(sequence) <=>
        /\ s \in (1..N) \X (1..N)
        /\ s[1] <= s[2] /\ \A k \in s[1]..s[2] : sequence[k] = sequence[s[1]]
        /\ s[1] = 1 \/ sequence[s[1] - 1] # sequence[s[1]]
        /\ s[2] = N \/ sequence[s[2] + 1] # sequence[s[2]]
  BY <1>1 DEF Spans
<1> HIDE DEF N
<1>3. PICK a \in before : \A x \in before : a <= x
  <2>1. n \in before /\ before \subseteq Nat
    <3>1. \A k \in n..n : k = n
      BY <1>1
    <3> QED
      BY <1>1, <3>1
  <2> HIDE DEF before
  <2> QED
    BY <2>1, LeastNumber
<1>4. PICK c \in after : \A x \in after : c <= x
  <2>1. N - n \in after /\ after \subseteq Nat
    <3>1. N - (N - n) = n /\ N - n \in 0..(N - n) /\ \A k \in n..n : k = n
      BY <1>1
    <3> QED
      BY <1>1, <3>1
  <2> HIDE DEF after
  <2> QED
    BY <2>1, LeastNumber
<1> DEFINE b == N - c
<1>5. /\ a \in 1..N /\ b \in 1..N /\ a <= n /\ n <= b
      /\ \A k \in a..n : sequence[k] = sequence[n]
      /\ \A k \in n..b : sequence[k] = sequence[n]
  BY <1>1
<1>6. \A k \in a..b : sequence[k] = sequence[n]
  <2>1. \A k \in a..b : k \in a..n \/ k \in n..b
    BY <1>1, <1>5
  <2> QED
    BY <1>5, <2>1
<1>7. a = 1 \/ sequence[a - 1] # sequence[a]
  <2> SUFFICES ASSUME a # 1, sequence[a - 1] = sequence[a] PROVE FALSE
    OBVIOUS
  <2>1. a - 1 \in 1..n /\ ~ (a <= a - 1) /\ \A k \in (a - 1)..n : k = a - 1 \/ k \in a..n
    BY <1>1, <1>5
  <2>2. a \in a..n
    BY <1>1, <1>5
  <2>3. \A k \in (a - 1)..n : sequence[k] = sequence[n]
    BY <1>5, <2>1, <2>2
  <2>4. a - 1 \in before
    BY <2>1, <2>3
  <2> QED
    BY <1>3, <2>1, <2>4
<1>8. b = N \/ sequence[b + 1] # sequence[b]
  <2> SUFFICES ASSUME b # N, sequence[b + 1] = sequence[b] PROVE FALSE
    OBVIOUS
  <2>1. c - 1 \in 0..(N - n) /\ ~ (c <= c - 1) /\ N - (c - 1) = b + 1
        /\ \A k \in n..(b + 1) : k = b + 1 \/ k \in n..b
    BY <1>1, <1>5
  <2>2. b \in n..b
    BY <1>1, <1>5
  <2>3. \A k \in n..(N - (c - 1)) : sequence[k] = sequence[n]
    BY <1>5, <2>1, <2>2
  <2>4. c - 1 \in after
    BY <2>1, <2>3
  <2> QED
    BY <1>4, <2>1, <2>4
<1> HIDE DEF before, after, b
<1>9. <<a, b>> \in here
  <2> DEFINE t == <<a, b>>
  <2>1. t \in (1..N) \X (1..N) /\ t[1] = a /\ t[2] = b
    BY <1>5
  <2> HIDE DEF t
  <2>2. a <= b /\ a \in a..b
    BY <1>1, <1>5
  <2>3. \A k \in a..b : sequence[k] = sequence[a]
    BY <1>6, <2>2
  <2>4. t \in Spans(sequence)
    BY <1>2, <1>7, <1>8, <2>1, <2>2, <2>3
  <2>5. t \in here
    BY <1>5, <2>1, <2>4
  <2> QED
    BY <2>5 DEF t
<1>10. ASSUME NEW s \in here, NEW t \in here PROVE ~ (s[1] < t[1]) /\ ~ (s[2] < t[2])
  <2>1. /\ s[1] \in 1..N /\ s[2] \in 1..N /\ t[1] \in 1..N /\ t[2] \in 1..N
        /\ s[1] <= n /\ n <= s[2] /\ t[1] <= n /\ n <= t[2]
    BY <1>2
  <2>2. /\ \A k \in s[1]..s[2] : sequence[k] = sequence[s[1]]
        /\ \A k \in t[1]..t[2] : sequence[k] = sequence[t[1]]
        /\ t[1] = 1 \/ sequence[t[1] - 1] # sequence[t[1]]
        /\ s[2] = N \/ sequence[s[2] + 1] # sequence[s[2]]
    BY <1>2
  <2>3. ASSUME s[1] < t[1] PROVE FALSE
    <3>1. t[1] - 1 \in s[1]..s[2] /\ t[1] \in s[1]..s[2] /\ t[1] # 1
      BY <1>1, <2>1, <2>3
    <3> QED
      BY <2>2, <3>1
  <2>4. ASSUME s[2] < t[2] PROVE FALSE
    <3>1. s[2] + 1 \in t[1]..t[2] /\ s[2] \in t[1]..t[2] /\ s[2] # N
      BY <1>1, <2>1, <2>4
    <3> QED
      BY <2>2, <3>1
  <2> QED
    BY <2>3, <2>4
<1>11. ASSUME NEW s \in here PROVE s = <<a, b>>
  <2> DEFINE t == <<a, b>>
  <2>1. s \in (1..N) \X (1..N) /\ t[1] = a /\ t[2] = b /\ t \in here
    BY <1>2, <1>9
  <2>2. ~ (s[1] < a) /\ ~ (a < s[1]) /\ ~ (s[2] < b) /\ ~ (b < s[2])
    <3> HIDE DEF t, here
    <3> QED
      BY <1>10, <2>1
  <2>3. s[1] = a /\ s[2] = b
    <3>1. s[1] \in Int /\ s[2] \in Int /\ a \in Int /\ b \in Int
      BY <1>5, <2>1
    <3> HIDE DEF here
    <3> QED
      BY <2>2, <3>1
  <2>4. s = <<s[1], s[2]>>
    BY <2>1
  <2> QED
    BY <2>3, <2>4
<1>12. here = {<<a, b>>}
  <2> HIDE DEF here
  <2> QED
    BY <1>9, <1>11
<1>13. Cardinality({<<a, b>>}) = 1
  BY FS_Singleton
<1> QED
  BY <1>12, <1>13

\* The best choice, of any part whose measures had one clef.
LEMMA ClefsAreBestOf ==
  ASSUME NEW m \in Seq(Measure), m # << >>, \A i, k \in DOMAIN m : m[i].clef = m[k].clef
  PROVE  LET clefs == Optimize(m)
         IN  /\ Allowed(m, clefs)
             /\ \A other \in [DOMAIN m -> Clefs] :
                  Allowed(m, other) => ~ Precedes(ClefWorth(m, other), ClefWorth(m, clefs))
             /\ LedgerCost(m, clefs) <= LedgerCost(m, Written(m))
             /\ \A n \in DOMAIN m : Cardinality({s \in Spans(clefs) : s[1] <= n /\ n <= s[2]}) = 1
<1>1. 1 \in 1..Len(m) /\ DOMAIN m = 1..Len(m)
  OBVIOUS
<1>2. Optimize(m) \in Seq(Clefs) /\ Len(Optimize(m)) = Len(m)
  BY <1>1, OptimizeIs
<1>3. \A n \in DOMAIN m : Cardinality({s \in Spans(Optimize(m)) : s[1] <= n /\ n <= s[2]}) = 1
  BY <1>1, <1>2, OneSpan
<1>4. LedgerCost(m, Optimize(m)) <= LedgerCost(m, Written(m))
  BY <1>1, LedgerNeverCostsMore
<1> QED
  BY <1>1, <1>3, <1>4, PathIsAllowed, PathIsBest

-----------------------------------------------------------------------------
(* What is engraved.                                                       *)

\* A part had one clef; a pitch lies on a staff, and a signature is ordinary.
EngravedInv ==
  /\ measures \in Seq(Measure)
  /\ \A i, k \in DOMAIN measures : measures[i].clef = measures[k].clef
  /\ subject = "key" /\ choice # << >> => choice[1] \in Pitch /\ choice[2] \in Signatures

LEMMA EngravedInvInit == InputInit => EngravedInv
BY DEF InputInit, EngravedInv, NotChosen

LEMMA EngravedInvStep ==
  ASSUME EngravedInv, [InputNext]_inputVars
  PROVE  EngravedInv'
<1>1. CASE AddMeasure
  <2>1. PICK measure \in Measures :
          /\ \A n \in DOMAIN measures : measures[n].clef = measure.clef
          /\ measures' = Append(measures, measure)
    BY <1>1 DEF AddMeasure
  <2>2. measures \in Seq(Measure) /\ measure \in Measure
    BY MeasuresAssumption DEF EngravedInv
  <2>3. measures' \in Seq(Measure)
    BY <2>1, <2>2
  <2>4. \A i \in DOMAIN measures' : measures'[i].clef = measure.clef
    <3>1. \A i \in DOMAIN measures' : i = Len(measures) + 1 \/ i \in DOMAIN measures
      BY <2>1, <2>2
    <3>2. \A i \in DOMAIN measures : measures'[i] = measures[i]
      BY <2>1, <2>2
    <3>3. measures'[Len(measures) + 1] = measure
      BY <2>1, <2>2
    <3> QED
      BY <2>1, <3>1, <3>2, <3>3
  <2>5. subject' = subject /\ choice' = choice
    BY <1>1 DEF AddMeasure
  <2> QED
    BY <2>3, <2>4, <2>5 DEF EngravedInv
<1>2. CASE ChoosePitch
  <2>1. PICK step \in 0..6, alteration \in -2..2, octave \in 3..4, key \in Signatures :
          choice' = <<[step |-> step, alteration |-> alteration, octave |-> octave], key>>
    BY <1>2 DEF ChoosePitch
  <2>2. [step |-> step, alteration |-> alteration, octave |-> octave] \in Pitch /\ key \in Signatures
    BY DEF Pitch
  <2>3. choice'[1] \in Pitch /\ choice'[2] \in Signatures
    BY <2>1, <2>2
  <2>4. subject' = subject /\ measures' = measures
    BY <1>2 DEF ChoosePitch
  <2> QED
    BY <2>3, <2>4 DEF EngravedInv
<1>3. ASSUME subject' = subject, measures' = measures, choice' = choice \/ subject # "key"
      PROVE  EngravedInv'
  BY <1>3 DEF EngravedInv
<1>4. CASE AddEvent \/ AddNote \/ AddOutput \/ Play \/ Send
  BY <1>3, <1>4 DEF AddEvent, AddNote, AddOutput, Play, Send
<1>5. CASE AskRange \/ Ask \/ Hear \/ OpenDirectory \/ OpenScore
  BY <1>3, <1>5 DEF AskRange, Ask, Hear, OpenDirectory, OpenScore
<1>6. CASE UNCHANGED inputVars
  BY <1>3, <1>6 DEF inputVars
<1> QED
  BY <1>1, <1>2, <1>4, <1>5, <1>6 DEF InputNext

LEMMA EngravedKeeps == EngravedInv => EngravingKeepsMusic
<1> SUFFICES ASSUME EngravedInv PROVE EngravingKeepsMusic
  OBVIOUS
<1>1. ClefsAreBest
  <2> SUFFICES ASSUME measures # << >> PROVE ClefsAreBest
    BY DEF ClefsAreBest
  <2> DEFINE clefs == Optimize(measures)
  <2>1. /\ Allowed(measures, clefs)
        /\ \A other \in [DOMAIN measures -> Clefs] :
             Allowed(measures, other) => ~ Precedes(ClefWorth(measures, other), ClefWorth(measures, clefs))
        /\ LedgerCost(measures, clefs) <= LedgerCost(measures, Written(measures))
        /\ \A n \in DOMAIN measures : Cardinality({s \in Spans(clefs) : s[1] <= n /\ n <= s[2]}) = 1
    BY ClefsAreBestOf DEF EngravedInv
  <2> QED
    BY <2>1 DEF ClefsAreBest
<1>2. RespellingKeepsMusic
  <2> SUFFICES ASSUME subject = "key", choice # << >>, NEW target \in EnharmonicFifths(choice[2])
               PROVE  LET pitch == choice[1]
                          key   == choice[2]
                          other == Respelled(pitch, key, target)
                      IN  /\ Midi(other.step, other.alteration, other.octave)
                               = Midi(pitch.step, pitch.alteration, pitch.octave)
                          /\ other.alteration - Signed(target, other.step)
                               = pitch.alteration - Signed(key, pitch.step)
                          /\ Respelled(other, target, key) = pitch
                          /\ pitch.alteration = Signed(key, pitch.step) => ~ Unsupported(other)
    BY DEF RespellingKeepsMusic, NotChosen
  <2>1. choice[1] \in Pitch /\ choice[2] \in Signatures
    BY DEF EngravedInv
  <2> QED
    BY <2>1, RespellingKeepsSound, RespellingReturns, RespellingKeepsAccidentals
<1> QED
  BY <1>1, <1>2 DEF EngravingKeepsMusic

\* What a score is engraved with changes how it reads and not what it says: of a
\* part of any length, of any measures that had one clef, no other choice of clefs
\* costs less, and none costs as much with fewer changes; and a pitch respelled
\* sounds the same (score_postprocess.py, optimize_clef_sequence, respell_pitch).
THEOREM EngravingHolds == InputSpec => []EngravingKeepsMusic
<1>1. InputInit => EngravedInv
  BY EngravedInvInit
<1>2. EngravedInv /\ [InputNext]_inputVars => EngravedInv'
  BY EngravedInvStep
<1>3. EngravedInv => EngravingKeepsMusic
  BY EngravedKeeps
<1> QED
  BY <1>1, <1>2, <1>3, PTL DEF InputSpec

-----------------------------------------------------------------------------
(* Sorting.                                                                *)

\* Tuples of one length are ordered by their first difference.
LEMMA PrecedesOrders ==
  ASSUME NEW n \in Nat, NEW s \in Seq(Int), NEW t \in Seq(Int), Len(s) = n, Len(t) = n
  PROVE  /\ ~ Precedes(s, s)
         /\ s # t => Precedes(s, t) \/ Precedes(t, s)
         /\ \A u \in Seq(Int) : Len(u) = n /\ Precedes(s, t) /\ Precedes(t, u) => Precedes(s, u)
<1>1. /\ DOMAIN s = 1..n /\ DOMAIN t = 1..n
      /\ \A k \in 1..n : s[k] \in Int /\ t[k] \in Int
  OBVIOUS
<1>2. ~ Precedes(s, s)
  BY <1>1 DEF Precedes
<1>3. ASSUME s # t PROVE Precedes(s, t) \/ Precedes(t, s)
  <2> DEFINE D == {k \in 1..n : s[k] # t[k]}
  <2>1. D # {}
    <3> SUFFICES ASSUME \A k \in 1..n : s[k] = t[k] PROVE s = t
      BY <1>3
    <3>1. s = [k \in 1..n |-> s[k]] /\ t = [k \in 1..n |-> t[k]]
      OBVIOUS
    <3> QED
      BY <3>1
  <2>2. D \subseteq Nat
    OBVIOUS
  <2>3. PICK k \in D : \A i \in D : k <= i
    <3> HIDE DEF D
    <3> QED
      BY <2>1, <2>2, LeastNumber
  <2>4. k \in 1..n /\ s[k] # t[k] /\ \A i \in 1..(k - 1) : i \in 1..n /\ ~ (k <= i)
    OBVIOUS
  <2>5. \A i \in 1..(k - 1) : s[i] = t[i]
    BY <2>3, <2>4
  <2>6. s[k] < t[k] \/ t[k] < s[k]
    BY <1>1, <2>4
  <2> QED
    BY <1>1, <2>4, <2>5, <2>6 DEF Precedes
<1>4. ASSUME NEW u \in Seq(Int), Len(u) = n, Precedes(s, t), Precedes(t, u) PROVE Precedes(s, u)
  <2>1. \A k \in 1..n : u[k] \in Int
    BY <1>4
  <2>2. PICK k \in 1..n : s[k] < t[k] /\ \A i \in 1..(k - 1) : s[i] = t[i]
    BY <1>1, <1>4 DEF Precedes
  <2>3. PICK l \in 1..n : t[l] < u[l] /\ \A i \in 1..(l - 1) : t[i] = u[i]
    BY <1>1, <1>4 DEF Precedes
  <2>4. CASE k <= l
    <3>1. \A i \in 1..(k - 1) : i \in 1..(l - 1)
      BY <2>4
    <3>2. k = l \/ k \in 1..(l - 1)
      BY <2>4
    <3>3. s[k] < u[k]
      BY <1>1, <2>1, <2>2, <2>3, <3>2
    <3> QED
      BY <1>1, <2>2, <2>3, <3>1, <3>3 DEF Precedes
  <2>5. CASE ~ (k <= l)
    <3>1. \A i \in 1..(l - 1) : i \in 1..(k - 1)
      BY <2>5
    <3>2. l \in 1..(k - 1)
      BY <2>5
    <3>3. s[l] < u[l]
      BY <2>2, <2>3, <3>2
    <3> QED
      BY <1>1, <2>2, <2>3, <3>1, <3>3 DEF Precedes
  <2> QED
    BY <2>4, <2>5
<1> QED
  BY <1>2, <1>3, <1>4

\* A set in the order of its keys.
InOrderOf(S, key) ==
  [k \in 1..Cardinality(S) |-> CHOOSE x \in S : Cardinality({y \in S : Precedes(key[y], key[x])}) = k - 1]

LEMMA SortedIs ==
  ASSUME NEW S, IsFiniteSet(S), NEW n \in Nat, NEW key \in [S -> Seq(Int)],
         \A x \in S : Len(key[x]) = n, \A x, y \in S : key[x] = key[y] => x = y
  PROVE  LET order == InOrderOf(S, key)
             N == Cardinality(S)
         IN  /\ N \in Nat /\ order \in [1..N -> S]
             /\ \A x \in S : \E k \in 1..N : order[k] = x
             /\ \A i, k \in 1..N : i < k <=> Precedes(key[order[i]], key[order[k]])
             /\ \A i, k \in 1..N : order[i] = order[k] => i = k
<1> DEFINE N == Cardinality(S)
           below(x) == {y \in S : Precedes(key[y], key[x])}
           rank == [x \in S |-> Cardinality(below(x))]
           order == InOrderOf(S, key)
           pick(k) == CHOOSE x \in S : Cardinality(below(x)) = k - 1
<1>1. N \in Nat
  BY FS_CardinalityType
<1>2. \A x, y, z \in S : /\ ~ Precedes(key[x], key[x])
                         /\ x # y => Precedes(key[x], key[y]) \/ Precedes(key[y], key[x])
                         /\ Precedes(key[x], key[y]) /\ Precedes(key[y], key[z]) => Precedes(key[x], key[z])
  <2>1. \A x \in S : key[x] \in Seq(Int) /\ Len(key[x]) = n
    OBVIOUS
  <2> SUFFICES ASSUME NEW x \in S, NEW y \in S, NEW z \in S
               PROVE  /\ ~ Precedes(key[x], key[x])
                      /\ x # y => Precedes(key[x], key[y]) \/ Precedes(key[y], key[x])
                      /\ Precedes(key[x], key[y]) /\ Precedes(key[y], key[z]) => Precedes(key[x], key[z])
    OBVIOUS
  <2> QED
    BY <2>1, PrecedesOrders
<1>3. \A x \in S : /\ IsFiniteSet(below(x)) /\ Cardinality(below(x)) \in Nat /\ x \notin below(x)
                   /\ below(x) \subseteq S
  <2> TAKE x \in S
  <2>1. below(x) \in SUBSET S /\ x \notin below(x)
    BY <1>2
  <2>2. IsFiniteSet(below(x))
    BY <2>1, FS_Subset
  <2> QED
    BY <2>1, <2>2, FS_CardinalityType
<1>4. ASSUME NEW x \in S PROVE rank[x] \in 0..(N - 1)
  <2>1. below(x) \in SUBSET (S \ {x})
    BY <1>3
  <2>2. IsFiniteSet(S \ {x}) /\ Cardinality(S \ {x}) = N - 1
    BY FS_RemoveElement
  <2>3. Cardinality(below(x)) <= Cardinality(S \ {x})
    BY <2>1, <2>2, FS_Subset
  <2>4. rank[x] = Cardinality(below(x)) /\ Cardinality(below(x)) \in Nat
    BY <1>3
  <2> HIDE DEF rank, below, N
  <2> QED
    BY <1>1, <2>2, <2>3, <2>4
<1>5. ASSUME NEW x \in S, NEW y \in S, Precedes(key[x], key[y]) PROVE rank[x] < rank[y]
  <2>1. below(x) \in SUBSET (below(y) \ {x}) /\ x \in below(y)
    BY <1>2, <1>3, <1>5
  <2>2. IsFiniteSet(below(y)) /\ Cardinality(below(y)) \in Nat /\ Cardinality(below(x)) \in Nat
    BY <1>3
  <2> HIDE DEF below
  <2>3. IsFiniteSet(below(y) \ {x}) /\ Cardinality(below(y) \ {x}) = Cardinality(below(y)) - 1
    BY <2>1, <2>2, FS_RemoveElement
  <2>4. Cardinality(below(x)) <= Cardinality(below(y) \ {x})
    BY <2>1, <2>3, FS_Subset
  <2> QED
    BY <2>2, <2>3, <2>4
<1>15. order = [k \in 1..N |-> pick(k)]
  BY DEF InOrderOf
<1> HIDE DEF below
<1>6. \A x \in S : rank[x] \in Int
  BY <1>3
<1>7. \A x, y \in S : rank[x] = rank[y] => x = y
  <2> SUFFICES ASSUME NEW x \in S, NEW y \in S, rank[x] = rank[y], x # y PROVE FALSE
    OBVIOUS
  <2>1. rank[x] < rank[y] \/ rank[y] < rank[x]
    BY <1>2, <1>5
  <2> HIDE DEF rank
  <2> QED
    BY <1>6, <2>1
<1>8. \A x, y \in S : rank[x] < rank[y] => Precedes(key[x], key[y])
  <2> SUFFICES ASSUME NEW x \in S, NEW y \in S, rank[x] < rank[y], ~ Precedes(key[x], key[y]) PROVE FALSE
    OBVIOUS
  <2>1. x = y \/ rank[y] < rank[x]
    BY <1>2, <1>5
  <2> HIDE DEF rank
  <2> QED
    BY <1>6, <2>1
<1>9. \A r \in 0..(N - 1) : \E x \in S : rank[x] = r
  <2> DEFINE T == 0..(N - 1)
  <2>1. IsFiniteSet(T) /\ Cardinality(T) = N
    <3>1. 0 \in Int /\ N - 1 \in Int
      BY <1>1
    <3>2. IsFiniteSet(0..(N - 1)) /\ Cardinality(0..(N - 1)) = IF 0 > N - 1 THEN 0 ELSE N - 1 - 0 + 1
      BY <3>1, FS_Interval
    <3> DEFINE c == Cardinality(0..(N - 1))
    <3> HIDE DEF N, c
    <3>3. c = N
      BY <1>1, <3>2 DEF c
    <3> QED
      BY <3>2, <3>3 DEF c
  <2>2. rank \in [S -> T]
    BY <1>4
  <2> HIDE DEF rank, T
  <2>3. rank \in Injection(S, T)
    BY <1>7, <2>2 DEF Injection, IsInjective
  <2>4. rank \in Surjection(S, T)
    BY <2>1, <2>3, FS_Injection
  <2> QED
    BY <2>4 DEF Surjection, T
<1>10. ASSUME NEW k \in 1..N PROVE order[k] \in S /\ rank[order[k]] = k - 1
  <2>1. k - 1 \in 0..(N - 1)
    BY <1>1
  <2>2. \E x \in S : Cardinality(below(x)) = k - 1
    BY <1>9, <2>1
  <2>3. order[k] = CHOOSE x \in S : Cardinality(below(x)) = k - 1
    <3> HIDE DEF order
    <3> QED
      BY <1>15
  <2>4. order[k] \in S /\ Cardinality(below(order[k])) = k - 1
    BY <2>2, <2>3
  <2> QED
    BY <2>4
<1>11. order \in [1..N -> S]
  <2>1. \A k \in 1..N : pick(k) = order[k]
    <3> HIDE DEF order, pick
    <3> QED
      BY <1>15
  <2> HIDE DEF order, pick
  <2> QED
    BY <1>10, <1>15, <2>1
<1> HIDE DEF order, rank
<1>12. ASSUME NEW x \in S PROVE \E k \in 1..N : order[k] = x
  <2> DEFINE k == rank[x] + 1
  <2>1. k \in 1..N /\ rank[x] = k - 1
    BY <1>1, <1>4
  <2>2. order[k] \in S /\ rank[order[k]] = rank[x]
    BY <1>10, <2>1
  <2> QED
    BY <1>7, <2>1, <2>2
<1>13. ASSUME NEW i \in 1..N, NEW k \in 1..N PROVE i < k <=> Precedes(key[order[i]], key[order[k]])
  <2>1. order[i] \in S /\ order[k] \in S /\ rank[order[i]] = i - 1 /\ rank[order[k]] = k - 1
    BY <1>10
  <2>2. i < k <=> rank[order[i]] < rank[order[k]]
    BY <2>1
  <2> QED
    BY <1>5, <1>8, <2>1, <2>2
<1>14. \A i, k \in 1..N : order[i] = order[k] => i = k
  <2> SUFFICES ASSUME NEW i \in 1..N, NEW k \in 1..N, order[i] = order[k] PROVE i = k
    OBVIOUS
  <2>1. i - 1 = k - 1
    BY <1>10
  <2> QED
    BY <2>1
<1> QED
  BY <1>1, <1>11, <1>12, <1>13, <1>14 DEF order

-----------------------------------------------------------------------------
(* The table of pairs.                                                     *)

PairCell == [count : Nat, displacement : Nat, choice : 0..2]

\* What a cell chooses from.
Offered(pitches, scored, i, j, diagonal, upper, left) ==
  {Up(upper), Left(left)} \cup
    (IF pitches[i] = scored[j]
     THEN {Match(diagonal, Displacement(i, Len(pitches), j, Len(scored)))} ELSE {})

AsGood(c, d) ==
  c.count > d.count \/ (c.count = d.count /\ c.displacement <= d.displacement)

LEMMA DisplacementIsNat ==
  ASSUME NEW i \in Int, NEW m \in Int, NEW j \in Int, NEW n \in Int
  PROVE  Displacement(i, m, j, n) \in Nat
<1>1. Larger(n - 1, 1) \in Int /\ Larger(m - 1, 1) \in Int
  BY DEF Larger
<1>2. \A a, b \in Int : a * b \in Int
  OBVIOUS
<1>3. (i - 1) * Larger(n - 1, 1) \in Int /\ (j - 1) * Larger(m - 1, 1) \in Int
  <2>1. i - 1 \in Int /\ j - 1 \in Int
    OBVIOUS
  <2> HIDE DEF Larger
  <2> QED
    BY <1>1, <1>2, <2>1
<1>4. \A a, b \in Int : Distance(a, b) \in Nat
  BY DEF Distance
<1> HIDE DEF Larger
<1> QED
  BY <1>3, <1>4 DEF Displacement

LEMMA MovesAre ==
  ASSUME NEW c \in PairCell, NEW d \in Nat
  PROVE  /\ Up(c) \in PairCell /\ Up(c).count = c.count /\ Up(c).displacement = c.displacement
         /\ Up(c).choice = 0
         /\ Left(c) \in PairCell /\ Left(c).count = c.count /\ Left(c).displacement = c.displacement
         /\ Left(c).choice = 1
         /\ Match(c, d) \in PairCell /\ Match(c, d).count = c.count + 1
         /\ Match(c, d).displacement = c.displacement + d /\ Match(c, d).choice = 2
BY DEF Up, Left, Match, PairCell

\* The order of ranks, and a least one of three.
LEMMA RankIs ==
  ASSUME NEW c \in PairCell, NEW d \in PairCell
  PROVE  Precedes(Rank(d), Rank(c)) <=>
           \/ d.count > c.count
           \/ d.count = c.count /\ (\/ d.displacement < c.displacement
                                    \/ d.displacement = c.displacement /\ d.choice > c.choice)
<1>1. /\ c.count \in Nat /\ c.displacement \in Nat /\ c.choice \in Nat
      /\ d.count \in Nat /\ d.displacement \in Nat /\ d.choice \in Nat
  BY DEF PairCell
<1> DEFINE s == Rank(d)
           t == Rank(c)
<1>2. /\ DOMAIN s = {1, 2, 3} /\ s[1] = -d.count /\ s[2] = d.displacement /\ s[3] = -d.choice
      /\ t[1] = -c.count /\ t[2] = c.displacement /\ t[3] = -c.choice
  BY DEF Rank
<1> HIDE DEF s, t
<1>3. Precedes(s, t) <=> \/ -d.count < -c.count
                         \/ d.displacement < c.displacement /\ -d.count = -c.count
                         \/ -d.choice < -c.choice /\ -d.count = -c.count /\ d.displacement = c.displacement
  BY <1>2, PrecedesThree
<1> QED
  BY <1>1, <1>3 DEF s, t

LEMMA BestIs ==
  ASSUME NEW pitches, NEW scored, NEW i, NEW j,
         Displacement(i, Len(pitches), j, Len(scored)) \in Nat,
         NEW diagonal \in PairCell, NEW upper \in PairCell, NEW left \in PairCell
  PROVE  LET c == Best(Offered(pitches, scored, i, j, diagonal, upper, left))
             m == Match(diagonal, Displacement(i, Len(pitches), j, Len(scored)))
         IN  /\ c \in PairCell
             /\ c.choice = 0 => c = Up(upper)
             /\ c.choice = 1 => c = Left(left)
             /\ c.choice = 2 => pitches[i] = scored[j] /\ c = m
             /\ AsGood(c, upper) /\ AsGood(c, left)
             /\ pitches[i] = scored[j] => AsGood(c, m)
<1> DEFINE D == Displacement(i, Len(pitches), j, Len(scored))
           m == Match(diagonal, D)
           u == Up(upper)
           l == Left(left)
           S == Offered(pitches, scored, i, j, diagonal, upper, left)
           Least(c) == \A d \in S : ~ Precedes(Rank(d), Rank(c))
           best == CHOOSE c \in S : Least(c)
<1>1. /\ m \in PairCell /\ u \in PairCell /\ l \in PairCell
      /\ m.choice = 2 /\ u.choice = 0 /\ l.choice = 1
      /\ u.count = upper.count /\ u.displacement = upper.displacement
      /\ l.count = left.count /\ l.displacement = left.displacement
  BY MovesAre
<1>2. S = {u, l} \cup (IF pitches[i] = scored[j] THEN {m} ELSE {})
  BY DEF Offered
<1>3. Best(S) = best
  BY DEF Best
<1> HIDE DEF m, u, l, S, D
<1>4. \A c, d, e \in PairCell :
        /\ ~ Precedes(Rank(c), Rank(c))
        /\ ~ Precedes(Rank(c), Rank(d)) \/ ~ Precedes(Rank(d), Rank(c))
        /\ ~ Precedes(Rank(c), Rank(d)) /\ ~ Precedes(Rank(d), Rank(e)) => ~ Precedes(Rank(c), Rank(e))
  <2>1. \A c \in PairCell : c.count \in Nat /\ c.displacement \in Nat /\ c.choice \in Nat
    BY DEF PairCell
  <2> SUFFICES ASSUME NEW c \in PairCell, NEW d \in PairCell, NEW e \in PairCell
               PROVE  /\ ~ Precedes(Rank(c), Rank(c))
                      /\ ~ Precedes(Rank(c), Rank(d)) \/ ~ Precedes(Rank(d), Rank(c))
                      /\ ~ Precedes(Rank(c), Rank(d)) /\ ~ Precedes(Rank(d), Rank(e))
                           => ~ Precedes(Rank(c), Rank(e))
    OBVIOUS
  <2> DEFINE less(a, b) ==
               \/ a.count > b.count
               \/ a.count = b.count /\ (\/ a.displacement < b.displacement
                                        \/ a.displacement = b.displacement /\ a.choice > b.choice)
  <2>2. \A a, b \in PairCell : Precedes(Rank(a), Rank(b)) <=> less(a, b)
    BY RankIs
  <2>3. ~ less(c, c) /\ (~ less(c, d) \/ ~ less(d, c))
    BY <2>1
  <2>4. ~ less(c, d) /\ ~ less(d, e) => ~ less(c, e)
    BY <2>1
  <2> HIDE DEF less
  <2> QED
    BY <2>2, <2>3, <2>4
<1> DEFINE x == IF Precedes(Rank(u), Rank(l)) THEN u ELSE l
           y == IF Precedes(Rank(m), Rank(x)) THEN m ELSE x
<1>5. x \in {u, l} /\ ~ Precedes(Rank(u), Rank(x)) /\ ~ Precedes(Rank(l), Rank(x))
  BY <1>1, <1>4
<1> HIDE DEF x
<1>6. y \in {x, m} /\ ~ Precedes(Rank(m), Rank(y)) /\ ~ Precedes(Rank(x), Rank(y))
  BY <1>1, <1>4, <1>5
<1> HIDE DEF y
<1>7. ~ Precedes(Rank(u), Rank(y)) /\ ~ Precedes(Rank(l), Rank(y))
  BY <1>1, <1>4, <1>5, <1>6
<1>8. \E c \in S : Least(c)
  <2>1. CASE pitches[i] = scored[j]
    <3>1. S = {u, l, m}
      BY <1>2, <2>1
    <3>2. y \in S /\ Least(y)
      BY <1>5, <1>6, <1>7, <3>1
    <3> QED
      BY <3>2
  <2>2. CASE pitches[i] # scored[j]
    <3>1. S = {u, l}
      BY <1>2, <2>2
    <3>2. x \in S /\ Least(x)
      BY <1>5, <3>1
    <3> QED
      BY <3>2
  <2> QED
    BY <2>1, <2>2
<1>9. best \in S /\ Least(best)
  <2> HIDE DEF Least
  <2> QED
    BY <1>8
<1> HIDE DEF best
<1>10. S \subseteq {u, l, m} /\ u \in S /\ l \in S /\ (m \in S /\ best = m => TRUE)
  BY <1>2
<1>11. best \in PairCell
  BY <1>1, <1>9, <1>10
<1>12. \A d \in PairCell : ~ Precedes(Rank(d), Rank(best)) => AsGood(best, d)
  <2>1. \A c \in PairCell : c.count \in Nat /\ c.displacement \in Nat /\ c.choice \in Nat
    BY DEF PairCell
  <2> QED
    BY <1>11, <2>1, RankIs DEF AsGood
<1>13. AsGood(best, u) /\ AsGood(best, l)
  BY <1>1, <1>9, <1>10, <1>12
<1>14. AsGood(best, upper) /\ AsGood(best, left)
  BY <1>1, <1>13 DEF AsGood
<1>15. pitches[i] = scored[j] => AsGood(best, m)
  BY <1>1, <1>2, <1>9, <1>12
<1>16. best.choice = 2 => pitches[i] = scored[j] /\ best = m
  BY <1>1, <1>2, <1>9
<1>17. (best.choice = 0 => best = u) /\ (best.choice = 1 => best = l)
  BY <1>1, <1>9, <1>10
<1> QED
  BY <1>3, <1>11, <1>14, <1>15, <1>16, <1>17 DEF m, u, l, D, S

\* A sequence that grows by appending, as the first values of a function.
Prefix(g, k) == [l \in 1..(k + 1) |-> g[l - 1]]

LEMMA PrefixGrows ==
  ASSUME NEW n \in Nat, NEW V, NEW g \in [0..n -> V]
  PROVE  /\ Prefix(g, 0) = <<g[0]>>
         /\ \A k \in 1..n : Prefix(g, k) = Append(Prefix(g, k - 1), g[k]) /\ Prefix(g, k - 1)[k] = g[k - 1]
<1>1. Prefix(g, 0) = <<g[0]>>
  <2>1. \A l \in 1..(0 + 1) : l = 1
    OBVIOUS
  <2>2. Prefix(g, 0) = [l \in 1..1 |-> g[0]]
    BY <2>1 DEF Prefix
  <2> QED
    BY <2>2
<1>2. ASSUME NEW k \in 1..n
      PROVE Prefix(g, k) = Append(Prefix(g, k - 1), g[k]) /\ Prefix(g, k - 1)[k] = g[k - 1]
  <2> DEFINE s == Prefix(g, k - 1)
  <2>1. s = [l \in 1..k |-> g[l - 1]]
    BY DEF Prefix
  <2>2. \A l \in 1..k : g[l - 1] \in V
    OBVIOUS
  <2>3. s \in Seq(V) /\ Len(s) = k
    BY <2>1, <2>2
  <2>4. s[k] = g[k - 1]
    BY <2>1
  <2> HIDE DEF s
  <2>5. Append(s, g[k]) = [l \in 1..(k + 1) |-> IF l = k + 1 THEN g[k] ELSE s[l]]
    BY <2>3
  <2>6. \A l \in 1..(k + 1) : (IF l = k + 1 THEN g[k] ELSE s[l]) = g[l - 1]
    BY <2>1
  <2>7. Append(s, g[k]) = [l \in 1..(k + 1) |-> g[l - 1]]
    BY <2>5, <2>6
  <2> QED
    BY <2>4, <2>7 DEF s, Prefix
<1> QED
  BY <1>1, <1>2

PairRow(scored) == [1..(Len(scored) + 1) -> PairCell]

CellOf(pitches, scored, i, j, diagonal, upper, left) ==
  Best(Offered(pitches, scored, i, j, diagonal, upper, left))

LEMMA CellOfIs ==
  ASSUME NEW pitches \in Seq(Int), NEW scored \in Seq(Int), NEW i \in Nat, NEW j \in Nat,
         NEW diagonal \in PairCell, NEW upper \in PairCell, NEW left \in PairCell
  PROVE  CellOf(pitches, scored, i, j, diagonal, upper, left) \in PairCell
<1>1. Displacement(i, Len(pitches), j, Len(scored)) \in Nat
  <2>1. i \in Int /\ j \in Int /\ Len(pitches) \in Int /\ Len(scored) \in Int
    OBVIOUS
  <2> QED
    BY <2>1, DisplacementIsNat
<1> QED
  BY <1>1, BestIs DEF CellOf

LEMMA EdgeIsCell == Edge \in PairCell
BY DEF Edge, PairCell

\* A row as the definition writes it.
RowRule(f, pitches, scored, i, above) ==
  f = [j \in 0..Len(scored) |->
         IF j = 0 THEN <<Edge>>
         ELSE Append(f[j - 1], CellOf(pitches, scored, i, j, above[j], above[j + 1], f[j - 1][j]))]

LEMMA RowRuleIsUnique ==
  ASSUME NEW pitches, NEW scored \in Seq(Int), NEW i, NEW above, NEW f, NEW g,
         RowRule(f, pitches, scored, i, above), RowRule(g, pitches, scored, i, above)
  PROVE  \A j \in 0..Len(scored) : f[j] = g[j]
<1> DEFINE n == Len(scored)
           T == {j \in 0..n : f[j] = g[j]}
           cell(j, last) == CellOf(pitches, scored, i, j, above[j], above[j + 1], last)
<1>1. n \in Nat /\ 0 \in Nat /\ 0 <= n
  OBVIOUS
<1>2. /\ \A j \in 0..n : f[j] = IF j = 0 THEN <<Edge>> ELSE Append(f[j - 1], cell(j, f[j - 1][j]))
      /\ \A j \in 0..n : g[j] = IF j = 0 THEN <<Edge>> ELSE Append(g[j - 1], cell(j, g[j - 1][j]))
  BY DEF RowRule
<1> HIDE DEF n, cell
<1>3. 0 \in T
  BY <1>1, <1>2
<1>4. ASSUME NEW j \in (0 + 1)..n, j - 1 \in T PROVE j \in T
  <2>1. j \in 0..n /\ j # 0
    BY <1>1
  <2> QED
    BY <1>2, <1>4, <2>1
<1>5. 0..n \subseteq T
  <2> HIDE DEF T
  <2> QED
    BY <1>1, <1>3, <1>4, Everywhere
<1> QED
  BY <1>5 DEF n

LEMMA NextRowIs ==
  ASSUME NEW pitches \in Seq(Int), NEW scored \in Seq(Int), NEW i \in Nat,
         NEW above \in PairRow(scored)
  PROVE  LET row == NextRow(pitches, scored, i, above)
         IN  /\ row \in PairRow(scored) /\ row[1] = Edge
             /\ \A j \in 1..Len(scored) :
                  row[j + 1] = CellOf(pitches, scored, i, j, above[j], above[j + 1], row[j])
<1> DEFINE n == Len(scored)
           cell(j, last) == CellOf(pitches, scored, i, j, above[j], above[j + 1], last)
           step == [p \in ((0 + 1)..n) \X PairCell |-> cell(p[1], p[2])]
<1>1. n \in Nat /\ 0 \in Nat /\ 0 <= n
  OBVIOUS
<1>2. \A j \in 1..n : \A last \in PairCell : cell(j, last) \in PairCell
  <2>1. \A j \in 1..n : above[j] \in PairCell /\ above[j + 1] \in PairCell /\ j \in Nat
    <3>1. above \in [1..(n + 1) -> PairCell]
      BY DEF PairRow
    <3>2. \A j \in 1..n : j \in 1..(n + 1) /\ j + 1 \in 1..(n + 1) /\ j \in Nat
      BY <1>1
    <3> HIDE DEF n
    <3> QED
      BY <3>1, <3>2
  <2> QED
    BY <2>1, CellOfIs
<1>3. \A f : RowRule(f, pitches, scored, i, above) <=>
        f = [j \in 0..n |-> IF j = 0 THEN <<Edge>> ELSE Append(f[j - 1], cell(j, f[j - 1][j]))]
  BY DEF RowRule
<1>4. NextRow(pitches, scored, i, above) = (CHOOSE f : RowRule(f, pitches, scored, i, above))[n]
  BY DEF NextRow, RowRule, CellOf, Offered
<1> HIDE DEF n, cell
<1>5. step \in [((0 + 1)..n) \X PairCell -> PairCell]
  <2>1. \A p \in ((0 + 1)..n) \X PairCell : p[1] \in 1..n /\ p[2] \in PairCell
    BY <1>1
  <2> QED
    BY <1>2, <2>1
<1>6. PICK g \in [0..n -> PairCell] : Follows(g, 0, n, Edge, step)
  <2> HIDE DEF step
  <2> QED
    BY <1>1, <1>5, EdgeIsCell, RecursionOf
<1>7. g[0] = Edge /\ \A j \in 1..n : g[j] = cell(j, g[j - 1])
  <2>1. ASSUME NEW j \in 1..n PROVE g[j] = cell(j, g[j - 1])
    <3>1. j \in (0 + 1)..n /\ j - 1 \in 0..n
      BY <1>1
    <3>2. g[j] = step[<<j, g[j - 1]>>]
      BY <1>6, <3>1 DEF Follows
    <3>3. <<j, g[j - 1]>> \in ((0 + 1)..n) \X PairCell
      BY <1>6, <3>1
    <3> QED
      BY <3>2, <3>3
  <2> QED
    BY <1>6, <2>1 DEF Follows
<1> DEFINE f == [j \in 0..n |-> Prefix(g, j)]
<1>8. RowRule(f, pitches, scored, i, above)
  <2>1. ASSUME NEW j \in 0..n
        PROVE  f[j] = IF j = 0 THEN <<Edge>> ELSE Append(f[j - 1], cell(j, f[j - 1][j]))
    <3>1. CASE j = 0
      BY <1>1, <1>6, <1>7, <3>1, PrefixGrows
    <3>2. CASE j # 0
      <4>1. j \in 1..n /\ j - 1 \in 0..n
        BY <1>1, <3>2
      <4>2. Prefix(g, j) = Append(Prefix(g, j - 1), g[j]) /\ Prefix(g, j - 1)[j] = g[j - 1]
        BY <1>1, <1>6, <4>1, PrefixGrows
      <4>3. f[j] = Prefix(g, j) /\ f[j - 1] = Prefix(g, j - 1)
        BY <4>1
      <4> HIDE DEF f
      <4> QED
        BY <1>7, <3>2, <4>1, <4>2, <4>3
    <3> QED
      BY <3>1, <3>2
  <2>2. f = [j \in 0..n |-> f[j]]
    OBVIOUS
  <2> HIDE DEF f
  <2>3. f = [j \in 0..n |-> IF j = 0 THEN <<Edge>> ELSE Append(f[j - 1], cell(j, f[j - 1][j]))]
    BY <2>1, <2>2
  <2> QED
    BY <1>3, <2>3
<1>9. NextRow(pitches, scored, i, above) = f[n]
  <2> DEFINE e == CHOOSE h : RowRule(h, pitches, scored, i, above)
  <2>1. RowRule(e, pitches, scored, i, above)
    <3> HIDE DEF f
    <3> QED
      BY <1>8
  <2> HIDE DEF e, f
  <2>2. n \in 0..n
    BY <1>1
  <2>3. e[n] = f[n]
    BY <1>8, <2>1, <2>2, RowRuleIsUnique DEF n
  <2> QED
    BY <1>4, <2>3 DEF e
<1>10. NextRow(pitches, scored, i, above) = [l \in 1..(n + 1) |-> g[l - 1]]
  BY <1>1, <1>9 DEF Prefix
<1>11. \A l \in 1..(n + 1) : g[l - 1] \in PairCell
  BY <1>1, <1>6
<1>12. NextRow(pitches, scored, i, above) \in PairRow(scored)
  BY <1>10, <1>11 DEF PairRow, n
<1>13. ASSUME NEW j \in 1..n
       PROVE  /\ NextRow(pitches, scored, i, above)[j + 1] = g[j]
              /\ NextRow(pitches, scored, i, above)[j] = g[j - 1]
  <2>1. j \in 1..(n + 1) /\ j + 1 \in 1..(n + 1) /\ j + 1 - 1 = j
    BY <1>1
  <2> QED
    BY <1>10, <2>1
<1>14. NextRow(pitches, scored, i, above)[1] = Edge
  <2>1. 1 \in 1..(n + 1) /\ 1 - 1 = 0
    BY <1>1
  <2> QED
    BY <1>7, <1>10, <2>1
<1> QED
  BY <1>7, <1>12, <1>13, <1>14 DEF n, cell

\* The table as the definition writes it.
PairTableRule(f, pitches, scored) ==
  f = [i \in 0..Len(pitches) |->
         IF i = 0 THEN <<[j \in 1..(Len(scored) + 1) |-> Edge]>>
         ELSE Append(f[i - 1], NextRow(pitches, scored, i, f[i - 1][i]))]

LEMMA PairTableIs ==
  ASSUME NEW pitches \in Seq(Int), NEW scored \in Seq(Int)
  PROVE  LET table == PairTable(pitches, scored)
         IN  /\ \A i \in 0..Len(pitches), j \in 0..Len(scored) :
                  /\ table[i + 1][j + 1] \in PairCell
                  /\ i = 0 \/ j = 0 => table[i + 1][j + 1] = Edge
             /\ \A i \in 1..Len(pitches), j \in 1..Len(scored) :
                  table[i + 1][j + 1]
                    = CellOf(pitches, scored, i, j, table[i][j], table[i][j + 1], table[i + 1][j])
<1> DEFINE m == Len(pitches)
           n == Len(scored)
           V == PairRow(scored)
           first == [j \in 1..(n + 1) |-> Edge]
           next(i, above) == NextRow(pitches, scored, i, above)
           step == [p \in ((0 + 1)..m) \X V |-> next(p[1], p[2])]
           Rule(f) == PairTableRule(f, pitches, scored)
<1>1. m \in Nat /\ 0 \in Nat /\ 0 <= m /\ n \in Nat
  OBVIOUS
<1>2. first \in V /\ \A j \in 1..(n + 1) : first[j] = Edge
  BY EdgeIsCell DEF PairRow
<1>3. \A f : Rule(f) <=>
        f = [i \in 0..m |-> IF i = 0 THEN <<first>> ELSE Append(f[i - 1], next(i, f[i - 1][i]))]
  BY DEF PairTableRule
<1>4. PairTable(pitches, scored) = (CHOOSE f : Rule(f))[m]
  BY DEF PairTable, PairTableRule
<1>5. \A i \in 1..m : \A above \in V :
        /\ next(i, above) \in V /\ next(i, above)[1] = Edge
        /\ \A j \in 1..n : next(i, above)[j + 1]
                             = CellOf(pitches, scored, i, j, above[j], above[j + 1], next(i, above)[j])
  <2>1. \A i \in 1..m : i \in Nat
    BY <1>1
  <2> HIDE DEF m
  <2> QED
    BY <2>1, NextRowIs
<1> HIDE DEF m, n, V, first, next, Rule
<1>6. step \in [((0 + 1)..m) \X V -> V]
  <2>1. \A p \in ((0 + 1)..m) \X V : p[1] \in 1..m /\ p[2] \in V
    BY <1>1
  <2> QED
    BY <1>5, <2>1
<1>7. PICK g \in [0..m -> V] : Follows(g, 0, m, first, step)
  <2> HIDE DEF step
  <2> QED
    BY <1>1, <1>2, <1>6, RecursionOf
<1>8. g[0] = first /\ \A i \in 1..m : g[i] = next(i, g[i - 1]) /\ g[i - 1] \in V
  <2>1. ASSUME NEW i \in 1..m PROVE g[i] = next(i, g[i - 1]) /\ g[i - 1] \in V
    <3>1. i \in (0 + 1)..m /\ i - 1 \in 0..m
      BY <1>1
    <3>2. g[i] = step[<<i, g[i - 1]>>]
      BY <1>7, <3>1 DEF Follows
    <3>3. <<i, g[i - 1]>> \in ((0 + 1)..m) \X V
      BY <1>7, <3>1
    <3> QED
      BY <3>2, <3>3
  <2> QED
    BY <1>7, <2>1 DEF Follows
<1> DEFINE f == [i \in 0..m |-> Prefix(g, i)]
<1>9. Rule(f)
  <2>1. ASSUME NEW i \in 0..m
        PROVE  f[i] = IF i = 0 THEN <<first>> ELSE Append(f[i - 1], next(i, f[i - 1][i]))
    <3>1. CASE i = 0
      BY <1>1, <1>7, <1>8, <3>1, PrefixGrows
    <3>2. CASE i # 0
      <4>1. i \in 1..m /\ i - 1 \in 0..m
        BY <1>1, <3>2
      <4>2. Prefix(g, i) = Append(Prefix(g, i - 1), g[i]) /\ Prefix(g, i - 1)[i] = g[i - 1]
        BY <1>1, <1>7, <4>1, PrefixGrows
      <4>3. f[i] = Prefix(g, i) /\ f[i - 1] = Prefix(g, i - 1)
        BY <4>1
      <4> HIDE DEF f
      <4> QED
        BY <1>8, <3>2, <4>1, <4>2, <4>3
    <3> QED
      BY <3>1, <3>2
  <2>2. f = [i \in 0..m |-> f[i]]
    OBVIOUS
  <2> HIDE DEF f
  <2>3. f = [i \in 0..m |-> IF i = 0 THEN <<first>> ELSE Append(f[i - 1], next(i, f[i - 1][i]))]
    BY <2>1, <2>2
  <2> QED
    BY <1>3, <2>3
<1> DEFINE e == CHOOSE h : Rule(h)
<1>10. Rule(e)
  <2> HIDE DEF f
  <2> QED
    BY <1>9
<1> HIDE DEF e
<1> DEFINE T == {i \in 0..m : e[i] = f[i]}
<1>11. /\ \A i \in 0..m : e[i] = IF i = 0 THEN <<first>> ELSE Append(e[i - 1], next(i, e[i - 1][i]))
       /\ \A i \in 0..m : f[i] = IF i = 0 THEN <<first>> ELSE Append(f[i - 1], next(i, f[i - 1][i]))
  <2> HIDE DEF f
  <2>1. e = [i \in 0..m |-> IF i = 0 THEN <<first>> ELSE Append(e[i - 1], next(i, e[i - 1][i]))]
    BY <1>3, <1>10
  <2>2. f = [i \in 0..m |-> IF i = 0 THEN <<first>> ELSE Append(f[i - 1], next(i, f[i - 1][i]))]
    BY <1>3, <1>9
  <2>3. \A i \in 0..m : e[i] = IF i = 0 THEN <<first>> ELSE Append(e[i - 1], next(i, e[i - 1][i]))
    BY <2>1
  <2>4. \A i \in 0..m : f[i] = IF i = 0 THEN <<first>> ELSE Append(f[i - 1], next(i, f[i - 1][i]))
    BY <2>2
  <2> QED
    BY <2>3, <2>4
<1>12. PairTable(pitches, scored) = Prefix(g, m)
  <2>1. f[m] = Prefix(g, m) /\ m \in 0..m
    BY <1>1
  <2> HIDE DEF f
  <2>2. 0 \in T
    <3>1. 0 \in 0..m
      BY <1>1
    <3>2. e[0] = f[0]
      BY <1>11, <3>1
    <3> QED
      BY <3>1, <3>2
  <2>3. ASSUME NEW i \in (0 + 1)..m, i - 1 \in T PROVE i \in T
    <3>1. i \in 0..m /\ i # 0
      BY <1>1
    <3> QED
      BY <1>11, <2>3, <3>1
  <2>4. 0..m \subseteq T
    <3> HIDE DEF T
    <3> QED
      BY <1>1, <2>2, <2>3, Everywhere
  <2>5. e[m] = f[m]
    BY <2>1, <2>4
  <2> QED
    BY <1>4, <2>1, <2>5 DEF e
<1> DEFINE table == PairTable(pitches, scored)
<1>13. \A i \in 0..m : table[i + 1] = g[i]
  <2>1. \A i \in 0..m : i + 1 \in 1..(m + 1) /\ i + 1 - 1 = i
    BY <1>1
  <2> QED
    BY <1>12, <2>1 DEF Prefix
<1> HIDE DEF table
<1>14. ASSUME NEW i \in 1..m PROVE table[i] = g[i - 1] /\ table[i + 1] = g[i]
  <2>1. i - 1 \in 0..m /\ (i - 1) + 1 = i /\ i \in 0..m
    BY <1>1
  <2> QED
    BY <1>13, <2>1
<1>15. ASSUME NEW i \in 0..m, NEW j \in 0..n
       PROVE  table[i + 1][j + 1] \in PairCell /\ (i = 0 \/ j = 0 => table[i + 1][j + 1] = Edge)
  <2>1. g[i] \in V /\ j + 1 \in 1..(n + 1) /\ table[i + 1] = g[i]
    BY <1>1, <1>7, <1>13
  <2>2. g[i][j + 1] \in PairCell
    BY <2>1 DEF V, PairRow, n
  <2>3. CASE i = 0
    BY <1>2, <1>8, <2>1, <2>2, <2>3
  <2>4. CASE i # 0 /\ j = 0
    <3>1. i \in 1..m /\ j + 1 = 1
      BY <1>1, <2>4
    <3>2. g[i][1] = Edge
      BY <1>5, <1>8, <3>1
    <3> QED
      BY <2>1, <2>2, <3>1, <3>2
  <2> QED
    BY <2>1, <2>2, <2>3, <2>4
<1>16. ASSUME NEW i \in 1..m, NEW j \in 1..n
       PROVE  table[i + 1][j + 1]
                = CellOf(pitches, scored, i, j, table[i][j], table[i][j + 1], table[i + 1][j])
  <2> DEFINE above == g[i - 1]
             row == g[i]
  <2>1. above \in V /\ row = next(i, above)
    BY <1>8
  <2>2. row[j + 1] = CellOf(pitches, scored, i, j, above[j], above[j + 1], row[j])
    <3> HIDE DEF above, row
    <3> QED
      BY <1>5, <2>1
  <2>3. table[i] = above /\ table[i + 1] = row
    BY <1>14
  <2> HIDE DEF above, row
  <2> QED
    BY <2>2, <2>3
<1> QED
  BY <1>15, <1>16 DEF m, n, table

-----------------------------------------------------------------------------
(* Matchings.                                                              *)

LEMMA PrecedesTwo ==
  ASSUME NEW s, NEW t, DOMAIN s = {1, 2}
  PROVE  Precedes(s, t) <=> s[1] < t[1] \/ (s[2] < t[2] /\ s[1] = t[1])
<1>1. 1..(1 - 1) = {} /\ 1..(2 - 1) = {1}
  OBVIOUS
<1> QED
  BY <1>1 DEF Precedes

\* What note i adds to the displacement of a matching.
Adds(M, m, n) ==
  [i \in 1..m |-> IF \E j \in 1..n : <<i, j>> \in M
                  THEN Displacement(i, m, CHOOSE j \in 1..n : <<i, j>> \in M, n) ELSE 0]

LEMMA TotalIs ==
  ASSUME NEW M, NEW m \in Nat, NEW n \in Nat
  PROVE  /\ Adds(M, m, n) \in [1..m -> Int]
         /\ \E f \in [0..m -> Int] : Sums(f, m, Adds(M, m, n)) /\ Total(M, m, n) = f[m]
<1> DEFINE of(i) == CHOOSE j \in 1..n : <<i, j>> \in M
           has(i) == \E j \in 1..n : <<i, j>> \in M
           add(i) == IF has(i) THEN Displacement(i, m, of(i), n) ELSE 0
           Rule(f) == f = [i \in 0..m |-> IF i = 0 THEN 0 ELSE f[i - 1] + add(i)]
           adds == Adds(M, m, n)
<1>1. Total(M, m, n) = (CHOOSE f : Rule(f))[m]
  BY DEF Total
<1>2. adds = [i \in 1..m |-> add(i)]
  BY DEF Adds
<1>3. ASSUME NEW i \in 1..m PROVE add(i) \in Int
  <2>1. CASE has(i)
    <3>1. of(i) \in 1..n
      BY <2>1
    <3>2. i \in Int /\ m \in Int /\ n \in Int /\ of(i) \in Int
      BY <3>1
    <3> HIDE DEF has, of
    <3>3. Displacement(i, m, of(i), n) \in Nat
      BY <3>2, DisplacementIsNat
    <3> QED
      BY <2>1, <3>3
  <2>2. CASE ~ has(i)
    BY <2>2
  <2> QED
    BY <2>1, <2>2
<1> HIDE DEF add, adds
<1>4. adds \in [1..m -> Int]
  BY <1>2, <1>3
<1>5. \A f : Rule(f) <=> Sums(f, m, adds)
  <2>1. \A f : [k \in 0..m |-> IF k = 0 THEN 0 ELSE f[k - 1] + add(k)]
                  = [k \in 0..m |-> IF k = 0 THEN 0 ELSE f[k - 1] + adds[k]]
    <3>1. \A k \in 0..m : k # 0 => k \in 1..m
      OBVIOUS
    <3> QED
      BY <1>2, <3>1
  <2> QED
    BY <2>1 DEF Sums
<1>6. \E f : Rule(f)
  <2> HIDE DEF Rule
  <2> QED
    BY <1>4, <1>5, SumExists
<1> DEFINE g == CHOOSE f : Rule(f)
<1>7. Sums(g, m, adds)
  <2> HIDE DEF Rule
  <2>1. Rule(g)
    BY <1>6
  <2> QED
    BY <1>5, <2>1
<1>8. g \in [0..m -> Int]
  <2> HIDE DEF g
  <2> QED
    BY <1>4, <1>7, SumSteps
<1> QED
  BY <1>1, <1>4, <1>7, <1>8 DEF adds

LEMMA TotalOfNone ==
  ASSUME NEW m \in Nat, NEW n \in Nat
  PROVE  Total({}, m, n) = 0
<1> DEFINE adds == Adds({}, m, n)
<1>1. \A i \in 1..m : adds[i] = 0
  BY DEF Adds
<1>2. adds \in [1..m -> Int]
  BY TotalIs
<1>3. PICK f \in [0..m -> Int] : Sums(f, m, adds) /\ Total({}, m, n) = f[m]
  BY TotalIs
<1> HIDE DEF adds
<1>4. f[0] = 0 /\ \A k \in 1..m : f[k] = f[k - 1] + adds[k]
  BY <1>2, <1>3, SumSteps
<1> DEFINE T == {k \in 0..m : f[k] = 0}
<1>5. 0 \in T /\ 0 \in Nat /\ m \in 0..m /\ 0 <= m
  BY <1>4
<1>6. ASSUME NEW k \in (0 + 1)..m, k - 1 \in T PROVE k \in T
  <2>1. k \in 1..m /\ k \in 0..m
    OBVIOUS
  <2> QED
    BY <1>1, <1>4, <1>6, <2>1
<1>7. 0..m \subseteq T
  <2> HIDE DEF T
  <2> QED
    BY <1>5, <1>6, Everywhere
<1> QED
  BY <1>3, <1>5, <1>7

\* A pair for a note without one adds its own displacement.
LEMMA TotalAdds ==
  ASSUME NEW M, NEW m \in Nat, NEW n \in Nat, NEW i \in 1..m, NEW j \in 1..n,
         \A l \in 1..n : <<i, l>> \notin M
  PROVE  /\ Total(M, m, n) \in Int
         /\ Total(M \cup {<<i, j>>}, m, n) = Total(M, m, n) + Displacement(i, m, j, n)
<1> DEFINE N == M \cup {<<i, j>>}
           a == Adds(M, m, n)
           b == Adds(N, m, n)
           D == Displacement(i, m, j, n)
<1>1. D \in Int
  <2>1. i \in Int /\ j \in Int /\ m \in Int /\ n \in Int
    OBVIOUS
  <2> QED
    BY <2>1, DisplacementIsNat
<1>2. a[i] = 0
  BY DEF Adds
<1>3. b[i] = D
  <2>1. \A l \in 1..n : <<i, l>> \in N <=> l = j
    OBVIOUS
  <2>2. (CHOOSE l \in 1..n : <<i, l>> \in N) = j
    <3> HIDE DEF N
    <3> QED
      BY <2>1
  <2> HIDE DEF N
  <2> QED
    BY <2>1, <2>2 DEF Adds
<1>4. ASSUME NEW k \in 1..m, k # i PROVE b[k] = a[k]
  <2>1. \A l : <<k, l>> \in N <=> <<k, l>> \in M
    BY <1>4
  <2> HIDE DEF N
  <2>2. (CHOOSE l \in 1..n : <<k, l>> \in N) = (CHOOSE l \in 1..n : <<k, l>> \in M)
    BY <2>1
  <2>3. (\E l \in 1..n : <<k, l>> \in N) <=> (\E l \in 1..n : <<k, l>> \in M)
    BY <2>1
  <2> QED
    BY <2>2, <2>3 DEF Adds
<1> HIDE DEF D, N, a, b
<1>5. PICK f \in [0..m -> Int] : Sums(f, m, a) /\ Total(M, m, n) = f[m]
  BY TotalIs DEF a
<1>6. PICK g \in [0..m -> Int] : Sums(g, m, b) /\ Total(N, m, n) = g[m]
  BY TotalIs DEF b
<1>7. a \in [1..m -> Int] /\ b \in [1..m -> Int]
  BY TotalIs DEF a, b
<1>8. /\ f[0] = 0 /\ \A k \in 1..m : f[k] = f[k - 1] + a[k]
      /\ g[0] = 0 /\ \A k \in 1..m : g[k] = g[k - 1] + b[k]
  <2>1. m \in Nat /\ a \in [1..m -> Int] /\ b \in [1..m -> Int] /\ Sums(f, m, a) /\ Sums(g, m, b)
    BY <1>5, <1>6, <1>7
  <2>2. f[0] = 0 /\ \A k \in 1..m : f[k] = f[k - 1] + a[k]
    BY <2>1, SumSteps
  <2>3. g[0] = 0 /\ \A k \in 1..m : g[k] = g[k - 1] + b[k]
    BY <2>1, SumSteps
  <2> QED
    BY <2>2, <2>3
<1> DEFINE T == {k \in 0..m : g[k] = f[k] + (IF k < i THEN 0 ELSE D)}
<1>9. 0 \in T /\ 0 \in Nat /\ m \in 0..m /\ 0 <= m
  BY <1>8
<1>10. ASSUME NEW k \in (0 + 1)..m, k - 1 \in T PROVE k \in T
  <2>1. k \in 1..m /\ k \in 0..m /\ k - 1 \in 0..m
    OBVIOUS
  <2>2. f[k] \in Int /\ f[k - 1] \in Int /\ g[k - 1] \in Int /\ a[k] \in Int /\ b[k] \in Int
    BY <1>7, <2>1
  <2>3. f[k] = f[k - 1] + a[k] /\ g[k] = g[k - 1] + b[k]
    BY <1>8, <2>1
  <2>4. g[k - 1] = f[k - 1] + (IF k - 1 < i THEN 0 ELSE D)
    BY <1>10
  <2>5. CASE k < i
    <3>1. k - 1 < i /\ k # i
      BY <2>5
    <3>2. b[k] = a[k]
      BY <1>4, <2>1, <3>1
    <3>3. g[k] = f[k] + 0
      BY <2>2, <2>3, <2>4, <3>1, <3>2
    <3> QED
      BY <2>1, <2>5, <3>3
  <2>6. CASE k = i
    <3>1. g[k - 1] = f[k - 1] + 0
      BY <2>4, <2>6
    <3>2. g[k] = f[k] + D
      BY <1>1, <1>2, <1>3, <2>2, <2>3, <2>6, <3>1
    <3> QED
      BY <2>1, <2>6, <3>2
  <2>7. CASE i < k
    <3>1. ~ (k - 1 < i) /\ k # i /\ ~ (k < i)
      BY <2>7
    <3>2. b[k] = a[k]
      BY <1>4, <2>1, <3>1
    <3>3. g[k] = f[k] + D
      <4> DEFINE x == f[k - 1]
                 y == a[k]
      <4>1. x \in Int /\ y \in Int
        BY <2>2
      <4>2. f[k] = x + y /\ g[k] = (x + D) + y
        BY <2>3, <2>4, <3>1, <3>2
      <4> HIDE DEF x, y
      <4> QED
        BY <1>1, <4>1, <4>2
    <3> QED
      BY <2>1, <3>1, <3>3
  <2> QED
    BY <2>5, <2>6, <2>7
<1>11. 0..m \subseteq T
  <2> HIDE DEF T
  <2> QED
    BY <1>9, <1>10, Everywhere
<1>12. g[m] = f[m] + D /\ f[m] \in Int
  BY <1>9, <1>11
<1> QED
  BY <1>5, <1>6, <1>12 DEF D, N

Unpaired(M, i, n) == \A l \in 1..n : <<i, l>> \notin M

LEMMA TotalOfMore ==
  ASSUME NEW M, NEW m \in Nat, NEW n \in Nat, NEW i \in 1..m, NEW j \in 1..n, Unpaired(M, i, n),
         NEW W, W = M \cup {<<i, j>>}
  PROVE  /\ Total(M, m, n) \in Int
         /\ Total(W, m, n) = Total(M, m, n) + Displacement(i, m, j, n)
<1>1. \A l \in 1..n : <<i, l>> \notin M
  BY DEF Unpaired
<1> QED
  BY <1>1, TotalAdds

LEMMA MatchingIs ==
  ASSUME NEW pitches \in Seq(Int), NEW scored \in Seq(Int), NEW M
  PROVE  M \in Matchings(pitches, scored) <=>
           /\ \A p \in M : /\ p \in (1..Len(pitches)) \X (1..Len(scored))
                           /\ pitches[p[1]] = scored[p[2]]
           /\ \A p, q \in M : p # q => ~ Crossing(p, q)
<1>1. DOMAIN pitches = 1..Len(pitches) /\ DOMAIN scored = 1..Len(scored)
  OBVIOUS
<1> QED
  BY <1>1 DEF Matchings

LEMMA MatchingIsFinite ==
  ASSUME NEW pitches \in Seq(Int), NEW scored \in Seq(Int), NEW M \in Matchings(pitches, scored)
  PROVE  IsFiniteSet(M) /\ Cardinality(M) \in Nat
<1> DEFINE A == 1..Len(pitches)
           B == 1..Len(scored)
<1>1. IsFiniteSet(A) /\ IsFiniteSet(B)
  <2>1. Len(pitches) \in Int /\ Len(scored) \in Int /\ 1 \in Int
    OBVIOUS
  <2> QED
    BY <2>1, FS_Interval
<1>2. M \in SUBSET (A \X B)
  BY MatchingIs
<1> HIDE DEF A, B
<1>3. IsFiniteSet(A \X B)
  BY <1>1, FS_Product
<1>4. IsFiniteSet(M)
  BY <1>2, <1>3, FS_Subset
<1> QED
  BY <1>4, FS_CardinalityType

Worth(M, m, n) == [count |-> Cardinality(M), displacement |-> Total(M, m, n)]

LEMMA AsGoodTrans ==
  ASSUME NEW a, NEW b, NEW c,
         a.count \in Int, a.displacement \in Int, b.count \in Int, b.displacement \in Int,
         c.count \in Int, c.displacement \in Int, AsGood(a, b), AsGood(b, c)
  PROVE  AsGood(a, c)
BY DEF AsGood

\* No matching of the first i notes with the first j outputs is better than the cell.
LEMMA CellsBoundPairs ==
  ASSUME NEW pitches \in Seq(Int), NEW scored \in Seq(Int)
  PROVE  \A i \in 0..Len(pitches) : \A j \in 0..Len(scored) :
           \A M \in Matchings(pitches, scored) :
             M \subseteq (1..i) \X (1..j) =>
               AsGood(PairTable(pitches, scored)[i + 1][j + 1], Worth(M, Len(pitches), Len(scored)))
<1> DEFINE m == Len(pitches)
           n == Len(scored)
           table == PairTable(pitches, scored)
           cell(i, j) == table[i + 1][j + 1]
           All == Matchings(pitches, scored)
           worth(M) == Worth(M, m, n)
           Bound(i, j) == \A M \in All : M \subseteq (1..i) \X (1..j) => AsGood(cell(i, j), worth(M))
           D(i, j) == Displacement(i, m, j, n)
<1>1. m \in Nat /\ n \in Nat /\ 0 \in Nat /\ 0 <= m /\ 0 <= n
  OBVIOUS
<1>2. /\ \A i \in 0..m, j \in 0..n : cell(i, j) \in PairCell /\ (i = 0 \/ j = 0 => cell(i, j) = Edge)
      /\ \A i \in 1..m, j \in 1..n :
           table[i + 1][j + 1] = CellOf(pitches, scored, i, j, table[i][j], table[i][j + 1], table[i + 1][j])
  BY PairTableIs
<1> HIDE DEF table
<1>3. ASSUME NEW i \in 1..m, NEW j \in 1..n
      PROVE  /\ AsGood(cell(i, j), cell(i - 1, j)) /\ AsGood(cell(i, j), cell(i, j - 1))
             /\ pitches[i] = scored[j] => AsGood(cell(i, j), Match(cell(i - 1, j - 1), D(i, j)))
  <2>1. i - 1 \in 0..m /\ j - 1 \in 0..n /\ i - 1 + 1 = i /\ j - 1 + 1 = j /\ i \in 0..m /\ j \in 0..n
    BY <1>1
  <2>2. cell(i - 1, j - 1) = table[i][j] /\ cell(i - 1, j) = table[i][j + 1] /\ cell(i, j - 1) = table[i + 1][j]
    BY <2>1
  <2>3. table[i][j] \in PairCell /\ table[i][j + 1] \in PairCell /\ table[i + 1][j] \in PairCell
    BY <1>2, <2>1, <2>2
  <2>4. D(i, j) \in Nat
    <3>1. i \in Int /\ j \in Int /\ m \in Int /\ n \in Int
      BY <1>1
    <3> QED
      BY <3>1, DisplacementIsNat
  <2> DEFINE a == table[i][j]
             b == table[i][j + 1]
             c == table[i + 1][j]
             best == Best(Offered(pitches, scored, i, j, a, b, c))
  <2>5. cell(i, j) = best
    BY <1>2 DEF CellOf
  <2>6. Displacement(i, Len(pitches), j, Len(scored)) \in Nat
    BY <2>4
  <2>7. a \in PairCell /\ b \in PairCell /\ c \in PairCell
    BY <2>3
  <2> HIDE DEF a, b, c
  <2>8. /\ AsGood(best, b) /\ AsGood(best, c)
        /\ pitches[i] = scored[j] => AsGood(best, Match(a, Displacement(i, Len(pitches), j, Len(scored))))
    BY <2>6, <2>7, BestIs
  <2>9. cell(i - 1, j - 1) = a /\ cell(i - 1, j) = b /\ cell(i, j - 1) = c
    BY <2>2 DEF a, b, c
  <2> HIDE DEF best, cell
  <2> QED
    BY <2>5, <2>8, <2>9
<1> HIDE DEF m, n, cell
<1>4. \A M \in All : /\ \A p \in M : p \in (1..m) \X (1..n) /\ pitches[p[1]] = scored[p[2]]
                     /\ \A p, q \in M : p # q => ~ Crossing(p, q)
                     /\ IsFiniteSet(M) /\ Cardinality(M) \in Nat /\ Total(M, m, n) \in Int
  <2>1. \A M : Total(M, m, n) \in Int
    <3> TAKE M
    <3>1. PICK f \in [0..m -> Int] : Total(M, m, n) = f[m]
      BY <1>1, TotalIs
    <3>2. m \in 0..m
      BY <1>1
    <3> QED
      BY <3>1, <3>2
  <2>2. TAKE M \in All
  <2>3. /\ \A p \in M : p \in (1..m) \X (1..n) /\ pitches[p[1]] = scored[p[2]]
        /\ \A p, q \in M : p # q => ~ Crossing(p, q)
    BY MatchingIs DEF m, n
  <2>4. IsFiniteSet(M) /\ Cardinality(M) \in Nat
    BY MatchingIsFinite
  <2> HIDE DEF All
  <2> QED
    BY <2>1, <2>3, <2>4
<1>5. \A M \in All : \A N \in SUBSET M : N \in All
  <2>1. \A M \in All : \A N \in SUBSET M :
          /\ \A p \in N : p \in (1..m) \X (1..n) /\ pitches[p[1]] = scored[p[2]]
          /\ \A p, q \in N : p # q => ~ Crossing(p, q)
    <3> HIDE DEF All
    <3> QED
      BY <1>4
  <2> QED
    BY <2>1, MatchingIs DEF m, n
<1>6. \A M \in All : worth(M).count = Cardinality(M) /\ worth(M).displacement = Total(M, m, n)
  BY DEF Worth
<1>7. \A c \in PairCell : c.count \in Nat /\ c.displacement \in Nat
  BY DEF PairCell
<1> HIDE DEF All, worth, Bound
\* Nothing is matched at the edges.
<1>8. ASSUME NEW i \in 0..m, NEW j \in 0..n, i = 0 \/ j = 0 PROVE Bound(i, j)
  <2> SUFFICES ASSUME NEW M \in All, M \subseteq (1..i) \X (1..j) PROVE AsGood(cell(i, j), worth(M))
    BY DEF Bound
  <2>1. (1..i) \X (1..j) = {}
    <3>1. 1..0 = {}
      OBVIOUS
    <3> QED
      BY <1>8, <3>1
  <2>2. M = {}
    BY <2>1
  <2>3. worth(M).count = 0 /\ worth(M).displacement = 0
    BY <1>1, <1>6, <2>2, FS_EmptySet, TotalOfNone
  <2>4. cell(i, j) = Edge
    BY <1>2, <1>8
  <2> QED
    BY <2>3, <2>4 DEF AsGood, Edge
\* What a pair of the last note and the last output is worth.
<1>9. ASSUME NEW i \in 1..m, NEW j \in 1..n, Bound(i - 1, j - 1), Bound(i - 1, j), Bound(i, j - 1)
      PROVE  Bound(i, j)
  <2> SUFFICES ASSUME NEW M \in All, M \subseteq (1..i) \X (1..j) PROVE AsGood(cell(i, j), worth(M))
    BY DEF Bound
  <2>1. /\ i - 1 \in 0..m /\ j - 1 \in 0..n /\ i \in 0..m /\ j \in 0..n
        /\ i \in Int /\ j \in Int
    BY <1>1
  <2>2. /\ cell(i, j) \in PairCell /\ cell(i - 1, j) \in PairCell /\ cell(i, j - 1) \in PairCell
        /\ cell(i - 1, j - 1) \in PairCell
    BY <1>2, <2>1
  <2>3. \A p \in M : p[1] \in 1..i /\ p[2] \in 1..j /\ p = <<p[1], p[2]>>
    OBVIOUS
  <2>4. worth(M).count \in Int /\ worth(M).displacement \in Int
    BY <1>4, <1>6
  <2>5. CASE <<i, j>> \in M
    <3> DEFINE N == M \ {<<i, j>>}
               match == Match(cell(i - 1, j - 1), D(i, j))
    <3>1. N \in All
      BY <1>5
    <3>2. N \subseteq (1..(i - 1)) \X (1..(j - 1))
      <4> SUFFICES ASSUME NEW p \in N PROVE p \in (1..(i - 1)) \X (1..(j - 1))
        OBVIOUS
      <4>1. p \in M /\ p # <<i, j>> /\ p[1] \in 1..i /\ p[2] \in 1..j /\ p = <<p[1], p[2]>>
        BY <2>3
      <4>2. ~ Crossing(p, <<i, j>>)
        BY <1>4, <2>5, <4>1
      <4>3. ~ (p[1] <= i /\ p[2] >= j) /\ ~ (p[1] >= i /\ p[2] <= j)
        BY <4>2 DEF Crossing
      <4>4. p[1] \in 1..(i - 1) /\ p[2] \in 1..(j - 1)
        BY <2>1, <4>1, <4>3
      <4> QED
        BY <4>1, <4>4
    <3>3. AsGood(cell(i - 1, j - 1), worth(N))
      BY <1>9, <3>1, <3>2 DEF Bound
    <3>4. Cardinality(M) = Cardinality(N) + 1 /\ Cardinality(N) \in Nat
      <4>1. IsFiniteSet(M) /\ Cardinality(M) \in Nat
        BY <1>4
      <4>2. Cardinality(N) = Cardinality(M) - 1
        BY <2>5, <4>1, FS_RemoveElement
      <4>3. Cardinality(N) \in Nat
        BY <1>4, <3>1
      <4> HIDE DEF N
      <4> QED
        BY <4>1, <4>2, <4>3
    <3>5. Total(M, m, n) = Total(N, m, n) + D(i, j) /\ Total(N, m, n) \in Int
      <4>1. \A l \in 1..n : <<i, l>> \notin N
        <5>1. \A l : <<i, l>> \in (1..(i - 1)) \X (1..(j - 1)) => i \in 1..(i - 1)
          OBVIOUS
        <5>2. i \notin 1..(i - 1)
          BY <2>1
        <5> HIDE DEF N
        <5> QED
          BY <3>2, <5>1, <5>2
      <4>2. M = N \cup {<<i, j>>}
        BY <2>5
      <4>3. i \in 1..m /\ j \in 1..n
        OBVIOUS
      <4> HIDE DEF N
      <4>4. Unpaired(N, i, n)
        BY <4>1 DEF Unpaired
      <4>5. /\ Total(N, m, n) \in Int
            /\ Total(M, m, n) = Total(N, m, n) + Displacement(i, m, j, n)
        <5> HIDE DEF D, All
        <5> QED
          BY <1>1, <4>2, <4>3, <4>4, TotalOfMore
      <4> QED
        BY <4>5
    <3>6. D(i, j) \in Nat
      <4>1. i \in Int /\ j \in Int /\ m \in Int /\ n \in Int
        BY <1>1
      <4> QED
        BY <4>1, DisplacementIsNat
    <3>7. /\ match.count = cell(i - 1, j - 1).count + 1
          /\ match.displacement = cell(i - 1, j - 1).displacement + D(i, j)
      BY <2>2, <3>6, MovesAre
    <3>8. pitches[i] = scored[j]
      <4>1. pitches[<<i, j>>[1]] = scored[<<i, j>>[2]]
        BY <1>4, <2>5
      <4> QED
        BY <4>1
    <3>9. AsGood(cell(i, j), match)
      BY <1>3, <3>8
    <3>10. /\ worth(M).count = worth(N).count + 1
           /\ worth(M).displacement = worth(N).displacement + D(i, j)
           /\ worth(N).count \in Int /\ worth(N).displacement \in Int
      BY <1>6, <3>1, <3>4, <3>5
    <3> HIDE DEF N, match, D
    <3>11. AsGood(match, worth(M))
      <4>1. cell(i - 1, j - 1).count \in Int /\ cell(i - 1, j - 1).displacement \in Int
        BY <1>7, <2>2
      <4> DEFINE a == cell(i - 1, j - 1).count
                 b == cell(i - 1, j - 1).displacement
                 e == worth(N).count
                 f == worth(N).displacement
                 d == D(i, j)
      <4>2. e < a \/ (a = e /\ b <= f)
        BY <3>3, <3>10, <4>1 DEF AsGood
      <4>3. a \in Int /\ b \in Int /\ e \in Int /\ f \in Int /\ d \in Int
        BY <3>6, <3>10, <4>1
      <4>4. /\ match.count = a + 1 /\ match.displacement = b + d
            /\ worth(M).count = e + 1 /\ worth(M).displacement = f + d
        BY <3>7, <3>10
      <4> HIDE DEF a, b, e, f, d
      <4>5. e + 1 < a + 1 \/ (a + 1 = e + 1 /\ b + d <= f + d)
        BY <4>2, <4>3
      <4> QED
        BY <4>3, <4>4, <4>5 DEF AsGood
    <3>12. /\ cell(i, j).count \in Int /\ cell(i, j).displacement \in Int
           /\ match.count \in Int /\ match.displacement \in Int
      <4> DEFINE a == cell(i - 1, j - 1).count
                 b == cell(i - 1, j - 1).displacement
                 d == D(i, j)
      <4>1. /\ cell(i, j).count \in Nat /\ cell(i, j).displacement \in Nat
            /\ a \in Nat /\ b \in Nat
        BY <1>7, <2>2
      <4>2. match.count = a + 1 /\ match.displacement = b + d /\ d \in Nat
        BY <3>6, <3>7
      <4> HIDE DEF a, b, d
      <4>3. match.count \in Int
        BY <4>1, <4>2
      <4>4. match.displacement \in Int
        BY <4>1, <4>2
      <4> QED
        BY <4>1, <4>3, <4>4
    <3> QED
      BY <2>4, <3>9, <3>11, <3>12, AsGoodTrans
  <2>6. CASE <<i, j>> \notin M /\ \A p \in M : p[1] # i
    <3>1. M \subseteq (1..(i - 1)) \X (1..j)
      <4> SUFFICES ASSUME NEW p \in M PROVE p \in (1..(i - 1)) \X (1..j)
        OBVIOUS
      <4>1. p[1] \in 1..i /\ p[1] # i /\ p[2] \in 1..j /\ p = <<p[1], p[2]>>
        BY <2>3, <2>6
      <4>2. p[1] \in 1..(i - 1)
        BY <2>1, <4>1
      <4> QED
        BY <4>1, <4>2
    <3>2. AsGood(cell(i - 1, j), worth(M))
      BY <1>9, <3>1 DEF Bound
    <3>3. AsGood(cell(i, j), cell(i - 1, j))
      BY <1>3
    <3>4. /\ cell(i, j).count \in Int /\ cell(i, j).displacement \in Int
          /\ cell(i - 1, j).count \in Int /\ cell(i - 1, j).displacement \in Int
      BY <1>7, <2>2
    <3> QED
      BY <2>4, <3>2, <3>3, <3>4, AsGoodTrans
  <2>7. CASE <<i, j>> \notin M /\ \E p \in M : p[1] = i
    <3>1. PICK q \in M : q[1] = i
      BY <2>7
    <3>2. q[2] \in 1..j /\ q[2] # j
      BY <2>3, <2>7, <3>1
    <3>3. M \subseteq (1..i) \X (1..(j - 1))
      <4> SUFFICES ASSUME NEW p \in M PROVE p \in (1..i) \X (1..(j - 1))
        OBVIOUS
      <4>1. p[1] \in 1..i /\ p[2] \in 1..j /\ p = <<p[1], p[2]>>
        BY <2>3
      <4>2. p[2] # j
        <5> SUFFICES ASSUME p[2] = j PROVE FALSE
          OBVIOUS
        <5>1. p # q
          BY <3>2
        <5>2. ~ Crossing(p, q)
          BY <1>4, <5>1
        <5>3. p[1] <= q[1] /\ p[2] >= q[2]
          BY <2>1, <3>1, <3>2, <4>1
        <5> QED
          BY <5>2, <5>3 DEF Crossing
      <4>3. p[2] \in 1..(j - 1)
        BY <2>1, <4>1, <4>2
      <4> QED
        BY <4>1, <4>3
    <3>4. AsGood(cell(i, j - 1), worth(M))
      BY <1>9, <3>3 DEF Bound
    <3>5. AsGood(cell(i, j), cell(i, j - 1))
      BY <1>3
    <3>6. /\ cell(i, j).count \in Int /\ cell(i, j).displacement \in Int
          /\ cell(i, j - 1).count \in Int /\ cell(i, j - 1).displacement \in Int
      BY <1>7, <2>2
    <3> QED
      BY <2>4, <3>4, <3>5, <3>6, AsGoodTrans
  <2> QED
    BY <2>5, <2>6, <2>7
<1> HIDE DEF cell, D
<1> DEFINE T == {i \in 0..m : \A j \in 0..n : Bound(i, j)}
<1>10. 0 \in T
  <2>1. 0 \in 0..m
    BY <1>1
  <2> QED
    BY <1>8, <2>1
<1>11. ASSUME NEW i \in (0 + 1)..m, i - 1 \in T PROVE i \in T
  <2>1. i \in 1..m /\ i \in 0..m
    BY <1>1
  <2> DEFINE U == {j \in 0..n : Bound(i, j)}
  <2>2. 0 \in U
    <3>1. 0 \in 0..n
      BY <1>1
    <3> QED
      BY <1>8, <2>1, <3>1
  <2>3. ASSUME NEW j \in (0 + 1)..n, j - 1 \in U PROVE j \in U
    <3>1. j \in 1..n /\ j \in 0..n /\ j - 1 \in 0..n
      BY <1>1
    <3>2. Bound(i - 1, j - 1) /\ Bound(i - 1, j) /\ Bound(i, j - 1)
      BY <1>11, <2>3, <3>1
    <3> QED
      BY <1>9, <2>1, <3>1, <3>2
  <2>4. 0..n \subseteq U
    <3> HIDE DEF U
    <3> QED
      BY <1>1, <2>2, <2>3, Everywhere
  <2> QED
    BY <2>1, <2>4
<1>12. 0..m \subseteq T
  <2> HIDE DEF T
  <2> QED
    BY <1>1, <1>10, <1>11, Everywhere
<1>13. \A i \in 0..m : \A j \in 0..n : Bound(i, j)
  BY <1>12
<1> QED
  BY <1>13 DEF Bound, All, worth, cell, table, m, n

\* The way back as the definition writes it.
WalkRule(w, pitches, scored) ==
  w = [k \in 0..(Len(pitches) + Len(scored)) |->
         IF k = 0 THEN [i |-> Len(pitches), j |-> Len(scored), pairs |-> {}]
         ELSE StepBack(PairTable(pitches, scored), w[k - 1])]

LEMMA WalkIs ==
  ASSUME NEW pitches \in Seq(Int), NEW scored \in Seq(Int)
  PROVE  LET m == Len(pitches)
             n == Len(scored)
         IN  \E w : /\ w[0] = [i |-> m, j |-> n, pairs |-> {}]
                    /\ \A k \in 1..(m + n) : w[k] = StepBack(PairTable(pitches, scored), w[k - 1])
                    /\ Pairs(pitches, scored) = w[m + n].pairs
<1> DEFINE m == Len(pitches)
           n == Len(scored)
           b == m + n
           first == [i |-> m, j |-> n, pairs |-> {}]
           table == PairTable(pitches, scored)
           V == [i : 0..m, j : 0..n, pairs : SUBSET (Nat \X Nat)]
           step == [p \in ((0 + 1)..b) \X V |-> StepBack(table, p[2])]
           Rule(w) == WalkRule(w, pitches, scored)
<1>1. m \in Nat /\ n \in Nat /\ 0 \in Nat /\ b \in Nat /\ 0 <= b
  OBVIOUS
<1>2. first \in V
  BY <1>1
<1>3. \A w : Rule(w) <=> w = [k \in 0..b |-> IF k = 0 THEN first ELSE StepBack(table, w[k - 1])]
  BY DEF WalkRule
<1>4. Pairs(pitches, scored) = (CHOOSE w : Rule(w))[b].pairs
  BY DEF Pairs, WalkRule
<1> HIDE DEF m, n, b, first, table, Rule
<1>5. ASSUME NEW at \in V PROVE StepBack(table, at) \in V
  <2> DEFINE c == table[at.i + 1][at.j + 1].choice
  <2>1. at.i \in 0..m /\ at.j \in 0..n /\ at.pairs \in SUBSET (Nat \X Nat)
    OBVIOUS
  <2>2. CASE at.i = 0 \/ at.j = 0
    BY <2>2 DEF StepBack
  <2>3. CASE ~ (at.i = 0 \/ at.j = 0)
    <3>1. StepBack(table, at)
            = [i     |-> IF c \in {0, 2} THEN at.i - 1 ELSE at.i,
               j     |-> IF c \in {1, 2} THEN at.j - 1 ELSE at.j,
               pairs |-> IF c = 2 THEN at.pairs \cup {<<at.i, at.j>>} ELSE at.pairs]
      BY <2>3 DEF StepBack
    <3>2. /\ at.i - 1 \in 0..m /\ at.j - 1 \in 0..n
          /\ at.i \in Nat /\ at.j \in Nat
      BY <1>1, <2>1, <2>3
    <3>3. at.pairs \cup {<<at.i, at.j>>} \in SUBSET (Nat \X Nat)
      BY <2>1, <3>2
    <3> HIDE DEF c
    <3> QED
      BY <2>1, <3>1, <3>2, <3>3
  <2> QED
    BY <2>2, <2>3
<1>6. step \in [((0 + 1)..b) \X V -> V]
  <2>1. \A p \in ((0 + 1)..b) \X V : p[2] \in V
    OBVIOUS
  <2> HIDE DEF V
  <2> QED
    BY <1>5, <2>1
<1> HIDE DEF V
<1>7. PICK w \in [0..b -> V] : Follows(w, 0, b, first, step)
  <2> HIDE DEF step
  <2> QED
    BY <1>1, <1>2, <1>6, RecursionOf
<1>8. w[0] = first /\ \A k \in 1..b : w[k] = StepBack(table, w[k - 1])
  <2>1. ASSUME NEW k \in 1..b PROVE w[k] = StepBack(table, w[k - 1])
    <3>1. k \in (0 + 1)..b /\ k - 1 \in 0..b
      BY <1>1
    <3>2. w[k] = step[<<k, w[k - 1]>>]
      BY <1>7, <3>1 DEF Follows
    <3>3. <<k, w[k - 1]>> \in ((0 + 1)..b) \X V
      BY <1>7, <3>1
    <3> QED
      BY <3>2, <3>3
  <2> QED
    BY <1>7, <2>1 DEF Follows
<1>9. \A k \in 0..b : k # 0 => k \in 1..b
  BY <1>1
<1>10. Rule(w)
  <2>1. w = [k \in 0..b |-> w[k]]
    BY <1>7
  <2>2. \A k \in 0..b : w[k] = IF k = 0 THEN first ELSE StepBack(table, w[k - 1])
    BY <1>8, <1>9
  <2>3. w = [k \in 0..b |-> IF k = 0 THEN first ELSE StepBack(table, w[k - 1])]
    BY <2>1, <2>2
  <2> QED
    BY <1>3, <2>3
<1> DEFINE e == CHOOSE v : Rule(v)
<1>11. Rule(e)
  BY <1>10
<1> HIDE DEF e
<1>12. e = [k \in 0..b |-> IF k = 0 THEN first ELSE StepBack(table, e[k - 1])]
  BY <1>3, <1>11
<1>13. e[0] = first /\ \A k \in 1..b : e[k] = StepBack(table, e[k - 1])
  <2>1. 0 \in 0..b /\ \A k \in 1..b : k \in 0..b /\ k # 0
    BY <1>1
  <2>2. \A k \in 0..b : e[k] = IF k = 0 THEN first ELSE StepBack(table, e[k - 1])
    BY <1>12
  <2> QED
    BY <2>1, <2>2
<1> QED
  BY <1>4, <1>13 DEF e, b, m, n, first, table

\* What is matched on the way back, and what is left to match, is worth the
\* whole table.
LEMMA WalkKeepsWorth ==
  ASSUME NEW pitches \in Seq(Int), NEW scored \in Seq(Int)
  PROVE  LET m == Len(pitches)
             n == Len(scored)
             last == PairTable(pitches, scored)[m + 1][n + 1]
             M == Pairs(pitches, scored)
         IN  /\ M \in Matchings(pitches, scored)
             /\ Cardinality(M) = last.count /\ Total(M, m, n) = last.displacement
<1> DEFINE m == Len(pitches)
           n == Len(scored)
           b == m + n
           table == PairTable(pitches, scored)
           cell(i, j) == table[i + 1][j + 1]
           D(i, j) == Displacement(i, m, j, n)
           last == cell(m, n)
<1>1. m \in Nat /\ n \in Nat /\ 0 \in Nat /\ b \in Nat /\ 0 <= b
  OBVIOUS
<1>2. /\ \A i \in 0..m, j \in 0..n : cell(i, j) \in PairCell /\ (i = 0 \/ j = 0 => cell(i, j) = Edge)
      /\ \A i \in 1..m, j \in 1..n :
           table[i + 1][j + 1] = CellOf(pitches, scored, i, j, table[i][j], table[i][j + 1], table[i + 1][j])
  BY PairTableIs
<1>3. PICK w : /\ w[0] = [i |-> m, j |-> n, pairs |-> {}]
               /\ \A k \in 1..b : w[k] = StepBack(table, w[k - 1])
               /\ Pairs(pitches, scored) = w[b].pairs
  BY WalkIs
<1> HIDE DEF table
<1>4. \A c \in PairCell : c.count \in Nat /\ c.displacement \in Nat /\ c.choice \in {0, 1, 2}
  BY DEF PairCell
<1>5. ASSUME NEW i \in 1..m, NEW j \in 1..n
      PROVE  /\ D(i, j) \in Nat
             /\ cell(i, j).choice = 0 => /\ cell(i, j).count = cell(i - 1, j).count
                                         /\ cell(i, j).displacement = cell(i - 1, j).displacement
             /\ cell(i, j).choice = 1 => /\ cell(i, j).count = cell(i, j - 1).count
                                         /\ cell(i, j).displacement = cell(i, j - 1).displacement
             /\ cell(i, j).choice = 2 =>
                  /\ pitches[i] = scored[j]
                  /\ cell(i, j).count = cell(i - 1, j - 1).count + 1
                  /\ cell(i, j).displacement = cell(i - 1, j - 1).displacement + D(i, j)
  <2>1. i - 1 \in 0..m /\ j - 1 \in 0..n /\ i - 1 + 1 = i /\ j - 1 + 1 = j /\ i \in 0..m /\ j \in 0..n
    BY <1>1
  <2>2. cell(i - 1, j - 1) = table[i][j] /\ cell(i - 1, j) = table[i][j + 1] /\ cell(i, j - 1) = table[i + 1][j]
    BY <2>1
  <2>3. table[i][j] \in PairCell /\ table[i][j + 1] \in PairCell /\ table[i + 1][j] \in PairCell
    BY <1>2, <2>1, <2>2
  <2>4. D(i, j) \in Nat
    <3>1. i \in Int /\ j \in Int /\ m \in Int /\ n \in Int
      BY <1>1
    <3> QED
      BY <3>1, DisplacementIsNat
  <2>5. cell(i, j) = Best(Offered(pitches, scored, i, j, table[i][j], table[i][j + 1], table[i + 1][j]))
    BY <1>2 DEF CellOf
  <2> DEFINE x == table[i][j]
             y == table[i][j + 1]
             z == table[i + 1][j]
             d == Displacement(i, Len(pitches), j, Len(scored))
             best == Best(Offered(pitches, scored, i, j, x, y, z))
  <2>6. x \in PairCell /\ y \in PairCell /\ z \in PairCell /\ d \in Nat
    BY <2>3, <2>4
  <2>7. cell(i, j) = best /\ D(i, j) = d
    BY <2>5
  <2>8. cell(i - 1, j - 1) = x /\ cell(i - 1, j) = y /\ cell(i, j - 1) = z
    BY <2>2
  <2> HIDE DEF x, y, z, cell, D
  <2>9. /\ best.choice = 0 => best = Up(y)
        /\ best.choice = 1 => best = Left(z)
        /\ best.choice = 2 => pitches[i] = scored[j] /\ best = Match(x, d)
    BY <2>6, BestIs
  <2> HIDE DEF best, d
  <2>10. /\ Up(y).count = y.count /\ Up(y).displacement = y.displacement
         /\ Left(z).count = z.count /\ Left(z).displacement = z.displacement
         /\ Match(x, d).count = x.count + 1 /\ Match(x, d).displacement = x.displacement + d
    BY <2>6, MovesAre
  <2> QED
    BY <2>6, <2>7, <2>8, <2>9, <2>10
<1> DEFINE Walked(k, i, j, M) ==
             /\ w[k].i = i /\ w[k].j = j /\ w[k].pairs = M
             /\ i \in 0..m /\ j \in 0..n
             /\ i = 0 \/ j = 0 \/ i + j <= b - k
             /\ M \in Matchings(pitches, scored)
             /\ \A p \in M : p[1] > i /\ p[2] > j
             /\ Cardinality(M) + cell(i, j).count = last.count
             /\ Total(M, m, n) + cell(i, j).displacement = last.displacement
           T == {k \in 0..b : \E i, j, M : Walked(k, i, j, M)}
<1>6. m \in 0..m /\ n \in 0..n /\ last \in PairCell
  <2>1. m \in 0..m /\ n \in 0..n
    BY <1>1
  <2> HIDE DEF m, n, cell
  <2>2. cell(m, n) \in PairCell
    BY <1>2, <2>1
  <2> QED
    BY <2>1, <2>2
<1>7. \A M \in Matchings(pitches, scored) :
        IsFiniteSet(M) /\ Cardinality(M) \in Nat /\ Total(M, m, n) \in Int
  <2> TAKE M \in Matchings(pitches, scored)
  <2>1. PICK f \in [0..m -> Int] : Total(M, m, n) = f[m]
    BY <1>1, TotalIs
  <2>2. Total(M, m, n) \in Int
    BY <1>6, <2>1
  <2> QED
    BY <2>2, MatchingIsFinite
<1>8. \A M : M \in Matchings(pitches, scored) <=>
        /\ \A p \in M : p \in (1..m) \X (1..n) /\ pitches[p[1]] = scored[p[2]]
        /\ \A p, q \in M : p # q => ~ Crossing(p, q)
  BY MatchingIs
<1> HIDE DEF m, n, cell, D
<1>9. 0 \in T
  <2>1. {} \in Matchings(pitches, scored)
    BY <1>8
  <2>2. Cardinality({}) = 0 /\ Total({}, m, n) = 0
    BY <1>1, FS_EmptySet, TotalOfNone
  <2>3. last.count \in Nat /\ last.displacement \in Nat
    BY <1>4, <1>6
  <2>4. m + n <= b - 0
    BY <1>1
  <2>5. /\ w[0].i = m /\ w[0].j = n /\ w[0].pairs = {}
    BY <1>3
  <2> HIDE DEF b
  <2>6. /\ Cardinality({}) + cell(m, n).count = last.count
        /\ Total({}, m, n) + cell(m, n).displacement = last.displacement
    BY <2>2, <2>3
  <2>7. Walked(0, m, n, {})
    BY <1>6, <2>1, <2>4, <2>5, <2>6
  <2>8. 0 \in 0..b
    BY <1>1
  <2> HIDE DEF At
  <2>9. \E i, j, M : Walked(0, i, j, M)
    BY <2>7
  <2> QED
    BY <2>8, <2>9
<1> HIDE DEF b, last
<1>10. ASSUME NEW k \in (0 + 1)..b, k - 1 \in T PROVE k \in T
  <2>1. k \in 1..b /\ k \in 0..b /\ k - 1 \in 0..b
    BY <1>1
  <2>2. PICK i, j, M : Walked(k - 1, i, j, M)
    BY <1>10
  <2> DEFINE at == w[k - 1]
             c == cell(i, j)
  <2>3. /\ at.i = i /\ at.j = j /\ at.pairs = M
        /\ i \in 0..m /\ j \in 0..n
        /\ i = 0 \/ j = 0 \/ i + j <= b - (k - 1)
        /\ M \in Matchings(pitches, scored)
        /\ \A p \in M : p[1] > i /\ p[2] > j
        /\ Cardinality(M) + cell(i, j).count = last.count
        /\ Total(M, m, n) + cell(i, j).displacement = last.displacement
    BY <2>2
  <2>4. w[k] = StepBack(table, at)
    BY <1>3, <2>1
  <2> HIDE DEF At
  <2>5. CASE i = 0 \/ j = 0
    <3>1. w[k] = at
      BY <2>3, <2>4, <2>5 DEF StepBack
    <3>2. Walked(k, i, j, M)
      BY <2>3, <2>5, <3>1 DEF At
    <3> QED
      BY <2>1, <3>2
  <2>6. CASE ~ (i = 0 \/ j = 0)
    <3>1. /\ i \in 1..m /\ j \in 1..n /\ i - 1 \in 0..m /\ j - 1 \in 0..n
          /\ i \in Nat /\ j \in Nat /\ i + j <= b - (k - 1)
      BY <1>1, <2>3, <2>6
    <3>2. w[k] = [i     |-> IF c.choice \in {0, 2} THEN i - 1 ELSE i,
                  j     |-> IF c.choice \in {1, 2} THEN j - 1 ELSE j,
                  pairs |-> IF c.choice = 2 THEN M \cup {<<i, j>>} ELSE M]
      BY <2>3, <2>4, <2>6 DEF StepBack, cell
    <3>3. /\ c.choice \in {0, 1, 2}
          /\ cell(i - 1, j).count \in Nat /\ cell(i - 1, j).displacement \in Nat
          /\ cell(i, j - 1).count \in Nat /\ cell(i, j - 1).displacement \in Nat
          /\ cell(i - 1, j - 1).count \in Nat /\ cell(i - 1, j - 1).displacement \in Nat
          /\ Cardinality(M) \in Nat /\ Total(M, m, n) \in Int /\ IsFiniteSet(M)
          /\ b \in Nat /\ k \in Nat
      <4>1. /\ cell(i - 1, j) \in PairCell /\ cell(i, j - 1) \in PairCell
            /\ cell(i - 1, j - 1) \in PairCell /\ cell(i, j) \in PairCell
        BY <1>2, <2>3, <3>1
      <4>2. Cardinality(M) \in Nat /\ Total(M, m, n) \in Int /\ IsFiniteSet(M)
        BY <1>7, <2>3
      <4>3. b \in Nat /\ k \in Nat
        BY <1>1, <2>1
      <4>4. \A x \in PairCell : x.count \in Nat /\ x.displacement \in Nat /\ x.choice \in {0, 1, 2}
        BY <1>4
      <4> QED
        BY <4>1, <4>2, <4>3, <4>4
    <3>4. \A p \in M : p \in (1..m) \X (1..n) /\ p[1] \in Nat /\ p[2] \in Nat
      <4>1. \A p \in M : p \in (1..m) \X (1..n)
        BY <1>8, <2>3
      <4> QED
        BY <1>1, <4>1
    <3> HIDE DEF c
    <3>5. CASE c.choice = 0
      <4>1. w[k].i = i - 1 /\ w[k].j = j /\ w[k].pairs = M
        BY <3>2, <3>5
      <4>2. c.count = cell(i - 1, j).count /\ c.displacement = cell(i - 1, j).displacement
        BY <1>5, <3>1, <3>5 DEF c
      <4>3. \A p \in M : p[1] > i - 1 /\ p[2] > j
        BY <2>3, <3>1, <3>4
      <4>4. (i - 1) + j <= b - k
        BY <3>1, <3>3
      <4>5. Walked(k, i - 1, j, M)
        BY <2>3, <3>1, <4>1, <4>2, <4>3, <4>4 DEF At, c
      <4> QED
        BY <2>1, <4>5
    <3>6. CASE c.choice = 1
      <4>1. w[k].i = i /\ w[k].j = j - 1 /\ w[k].pairs = M
        BY <3>2, <3>6
      <4>2. c.count = cell(i, j - 1).count /\ c.displacement = cell(i, j - 1).displacement
        BY <1>5, <3>1, <3>6 DEF c
      <4>3. \A p \in M : p[1] > i /\ p[2] > j - 1
        BY <2>3, <3>1, <3>4
      <4>4. i + (j - 1) <= b - k
        BY <3>1, <3>3
      <4>5. Walked(k, i, j - 1, M)
        BY <2>3, <3>1, <4>1, <4>2, <4>3, <4>4 DEF At, c
      <4> QED
        BY <2>1, <4>5
    <3>7. CASE c.choice = 2
      <4> DEFINE N == M \cup {<<i, j>>}
      <4>1. w[k].i = i - 1 /\ w[k].j = j - 1 /\ w[k].pairs = N
        BY <3>2, <3>7
      <4>2. /\ pitches[i] = scored[j]
            /\ c.count = cell(i - 1, j - 1).count + 1
            /\ c.displacement = cell(i - 1, j - 1).displacement + D(i, j)
            /\ D(i, j) \in Nat
        BY <1>5, <3>1, <3>7 DEF c
      <4>3. \A p \in M : p # <<i, j>> /\ ~ Crossing(p, <<i, j>>) /\ ~ Crossing(<<i, j>>, p)
        <5> SUFFICES ASSUME NEW p \in M
                     PROVE p # <<i, j>> /\ ~ Crossing(p, <<i, j>>) /\ ~ Crossing(<<i, j>>, p)
          OBVIOUS
        <5>1. p[1] > i /\ p[2] > j /\ p[1] \in Nat /\ p[2] \in Nat
          BY <2>3, <3>4
        <5>2. <<i, j>>[1] = i /\ <<i, j>>[2] = j
          OBVIOUS
        <5> QED
          BY <3>1, <5>1, <5>2 DEF Crossing
      <4>4. N \in Matchings(pitches, scored)
        <5>1. \A p \in N : p \in (1..m) \X (1..n) /\ pitches[p[1]] = scored[p[2]]
          <6> SUFFICES ASSUME NEW p \in N
                       PROVE p \in (1..m) \X (1..n) /\ pitches[p[1]] = scored[p[2]]
            OBVIOUS
          <6>1. CASE p \in M
            BY <1>8, <2>3, <6>1
          <6>2. CASE p = <<i, j>>
            <7>1. p[1] = i /\ p[2] = j /\ p \in (1..m) \X (1..n)
              BY <3>1, <6>2
            <7> QED
              BY <4>2, <7>1
          <6> QED
            BY <6>1, <6>2
        <5>2. \A p, q \in N : p # q => ~ Crossing(p, q)
          <6>1. \A p, q \in M : p # q => ~ Crossing(p, q)
            BY <1>8, <2>3
          <6> QED
            BY <4>3, <6>1
        <5> HIDE DEF N
        <5> QED
          BY <1>8, <5>1, <5>2
      <4>5. Cardinality(N) = Cardinality(M) + 1
        BY <3>3, <4>3, FS_AddElement
      <4>6. Total(N, m, n) = Total(M, m, n) + D(i, j)
        <5>1. \A l \in 1..n : <<i, l>> \notin M
          <6> SUFFICES ASSUME NEW l \in 1..n, <<i, l>> \in M PROVE FALSE
            OBVIOUS
          <6>1. <<i, l>>[1] > i
            BY <2>3
          <6> QED
            BY <3>1, <6>1
        <5> QED
          BY <1>1, <3>1, <5>1, TotalAdds DEF D
      <4> HIDE DEF N
      <4>7. \A p \in N : p[1] > i - 1 /\ p[2] > j - 1
        <5> SUFFICES ASSUME NEW p \in N PROVE p[1] > i - 1 /\ p[2] > j - 1
          OBVIOUS
        <5>1. CASE p \in M
          BY <2>3, <3>1, <3>4, <5>1
        <5>2. CASE p = <<i, j>>
          BY <3>1, <5>2
        <5> QED
          BY <5>1, <5>2 DEF N
      <4>8. (i - 1) + (j - 1) <= b - k
        BY <3>1, <3>3
      <4>9. /\ Cardinality(N) + cell(i - 1, j - 1).count = last.count
            /\ Total(N, m, n) + cell(i - 1, j - 1).displacement = last.displacement
        <5>1. /\ Cardinality(M) + c.count = last.count
              /\ Total(M, m, n) + c.displacement = last.displacement
          BY <2>3 DEF c
        <5>3. \A x, y, z, v \in Int : x + (y + z) = v => (x + z) + y = v
          OBVIOUS
        <5>8. last.count \in Int /\ last.displacement \in Int
          BY <1>4, <1>6
        <5>4. Cardinality(M) + (cell(i - 1, j - 1).count + 1) = last.count
          BY <4>2, <5>1
        <5>5. Total(M, m, n) + (cell(i - 1, j - 1).displacement + D(i, j)) = last.displacement
          BY <4>2, <5>1
        <5>6. (Cardinality(M) + 1) + cell(i - 1, j - 1).count = last.count
          <6> DEFINE x == Cardinality(M)
                     y == cell(i - 1, j - 1).count
                     z == last.count
          <6>1. x \in Int /\ y \in Int /\ z \in Int /\ x + (y + 1) = z
            BY <3>3, <5>4, <5>8
          <6> HIDE DEF x, y, z
          <6>2. (x + 1) + y = z
            BY <6>1
          <6> QED
            BY <6>2 DEF x, y, z
        <5>7. (Total(M, m, n) + D(i, j)) + cell(i - 1, j - 1).displacement = last.displacement
          BY <3>3, <4>2, <5>3, <5>5, <5>8
        <5> QED
          BY <4>5, <4>6, <5>6, <5>7
      <4>10. Walked(k, i - 1, j - 1, N)
        BY <3>1, <4>1, <4>4, <4>7, <4>8, <4>9 DEF At
      <4> QED
        BY <2>1, <4>10
    <3> QED
      BY <3>3, <3>5, <3>6, <3>7
  <2> QED
    BY <2>5, <2>6
<1>11. 0..b \subseteq T
  <2> HIDE DEF T
  <2> QED
    BY <1>1, <1>9, <1>10, Everywhere
<1>12. b \in T
  <2>1. b \in 0..b
    BY <1>1
  <2> HIDE DEF T
  <2> QED
    BY <1>11, <2>1
<1>13. PICK i, j, M : Walked(b, i, j, M)
  BY <1>12
<1>14. M = Pairs(pitches, scored) /\ M \in Matchings(pitches, scored)
  BY <1>3, <1>13
<1>15. i = 0 \/ j = 0
  <2>1. i \in 0..m /\ j \in 0..n /\ (i = 0 \/ j = 0 \/ i + j <= b - b)
    BY <1>13
  <2> QED
    BY <1>1, <2>1
<1>16. cell(i, j) = Edge
  BY <1>2, <1>13, <1>15
<1>17. Cardinality(M) = last.count /\ Total(M, m, n) = last.displacement
  <2>1. /\ Cardinality(M) + cell(i, j).count = last.count
        /\ Total(M, m, n) + cell(i, j).displacement = last.displacement
    BY <1>13
  <2>2. cell(i, j).count = 0 /\ cell(i, j).displacement = 0
    BY <1>16 DEF Edge
  <2>3. Cardinality(M) \in Nat /\ Total(M, m, n) \in Int
    BY <1>7, <1>14
  <2>4. \A x \in Int : x + 0 = x
    OBVIOUS
  <2> QED
    BY <2>1, <2>2, <2>3, <2>4
<1> QED
  BY <1>14, <1>17 DEF m, n, last, cell, table

\* No matching has more pairs, or as many with a smaller displacement.
LEMMA PairsAreBest ==
  ASSUME NEW pitches \in Seq(Int), NEW scored \in Seq(Int)
  PROVE  Optimal(Pairs(pitches, scored), pitches, scored)
<1> DEFINE m == Len(pitches)
           n == Len(scored)
           M == Pairs(pitches, scored)
           last == PairTable(pitches, scored)[m + 1][n + 1]
<1>1. M \in Matchings(pitches, scored) /\ Cardinality(M) = last.count /\ Total(M, m, n) = last.displacement
  BY WalkKeepsWorth
<1>2. m \in 0..m /\ n \in 0..n /\ m \in Nat /\ n \in Nat
  OBVIOUS
<1>3. last \in PairCell
  BY <1>2, PairTableIs
<1>4. ASSUME NEW N \in Matchings(pitches, scored)
      PROVE  ~ Precedes(MatchWorth(N, m, n), MatchWorth(M, m, n))
  <2>1. N \subseteq (1..m) \X (1..n)
    BY MatchingIs
  <2>2. AsGood(last, Worth(N, m, n))
    <3> HIDE DEF m, n
    <3> QED
      BY <1>2, <2>1, CellsBoundPairs DEF m, n
  <2>3. Cardinality(N) \in Nat
    BY MatchingIsFinite
  <2>4. Total(N, m, n) \in Int
    <3>1. PICK f \in [0..m -> Int] : Total(N, m, n) = f[m]
      BY <1>2, TotalIs
    <3> QED
      BY <1>2, <3>1
  <2> HIDE DEF M, last, m, n
  <2>5. last.count \in Nat /\ last.displacement \in Nat
    BY <1>3 DEF PairCell
  <2>6. \/ last.count > Cardinality(N)
        \/ last.count = Cardinality(N) /\ last.displacement <= Total(N, m, n)
    BY <2>2 DEF AsGood, Worth
  <2> DEFINE s == MatchWorth(N, m, n)
             t == MatchWorth(M, m, n)
  <2>7. /\ DOMAIN s = {1, 2} /\ s[1] = -Cardinality(N) /\ s[2] = Total(N, m, n)
        /\ t[1] = -Cardinality(M) /\ t[2] = Total(M, m, n)
    BY DEF MatchWorth
  <2> HIDE DEF s, t
  <2>8. Precedes(s, t) <=> s[1] < t[1] \/ (s[2] < t[2] /\ s[1] = t[1])
    BY <2>7, PrecedesTwo
  <2>9. ~ Precedes(s, t)
    BY <1>1, <2>3, <2>4, <2>5, <2>6, <2>7, <2>8
  <2> QED
    BY <2>9 DEF s, t
<1> QED
  BY <1>1, <1>4 DEF Optimal

-----------------------------------------------------------------------------
(* The rows of the document.                                               *)

SourceKey(recording, S) ==
  [i \in S |-> <<recording[i].onset, recording[i].pitch, Length(recording[i]), i>>]

\* A key that orders a set: lists of numbers of one length, no two alike.
Keyed(S, key, parts) ==
  /\ IsFiniteSet(S) /\ parts \in Nat /\ key \in [S -> Seq(Int)]
  /\ \A x \in S : Len(key[x]) = parts
  /\ \A x, y \in S : key[x] = key[y] => x = y

LEMMA KeyedIsSorted ==
  ASSUME NEW S, NEW key, NEW parts, Keyed(S, key, parts)
  PROVE  LET order == InOrderOf(S, key)
             N == Cardinality(S)
         IN  /\ N \in Nat /\ order \in [1..N -> S]
             /\ \A x \in S : \E k \in 1..N : order[k] = x
             /\ \A i, k \in 1..N : i < k <=> Precedes(key[order[i]], key[order[k]])
             /\ \A i, k \in 1..N : order[i] = order[k] => i = k
<1>1. /\ IsFiniteSet(S) /\ parts \in Nat /\ key \in [S -> Seq(Int)]
      /\ \A x \in S : Len(key[x]) = parts
      /\ \A x, y \in S : key[x] = key[y] => x = y
  BY DEF Keyed
<1> QED
  BY <1>1, SortedIs

LEMMA SourceKeyIs ==
  ASSUME NEW recording \in Seq(SourceNote), NEW S \in SUBSET (1..Len(recording))
  PROVE  /\ IsFiniteSet(S) /\ SourceKey(recording, S) \in [S -> Seq(Int)]
         /\ \A x \in S : Len(SourceKey(recording, S)[x]) = 4
         /\ \A x, y \in S : SourceKey(recording, S)[x] = SourceKey(recording, S)[y] => x = y
<1>1. IsFiniteSet(S)
  <2>1. 1 \in Int /\ Len(recording) \in Int
    OBVIOUS
  <2>2. IsFiniteSet(1..Len(recording))
    BY <2>1, FS_Interval
  <2> QED
    BY <2>2, FS_Subset
<1>2. ASSUME NEW x \in S
      PROVE  /\ SourceKey(recording, S)[x] \in Seq(Int) /\ Len(SourceKey(recording, S)[x]) = 4
             /\ SourceKey(recording, S)[x][4] = x
  <2>1. x \in 1..Len(recording) /\ recording[x] \in SourceNote
    OBVIOUS
  <2> DEFINE a == recording[x].onset
             b == recording[x].pitch
             c == Length(recording[x])
  <2>2. a \in Int /\ b \in Int /\ c \in Int /\ x \in Int
    BY <2>1 DEF SourceNote, Length
  <2>3. SourceKey(recording, S)[x] = <<a, b, c, x>>
    BY DEF SourceKey
  <2> HIDE DEF a, b, c
  <2> QED
    BY <2>2, <2>3
<1>3. SourceKey(recording, S) = [x \in S |-> SourceKey(recording, S)[x]]
  BY DEF SourceKey
<1>4. SourceKey(recording, S) \in [S -> Seq(Int)]
  BY <1>2, <1>3
<1> QED
  BY <1>1, <1>2, <1>4

LEMMA SourceOrderIs ==
  ASSUME NEW recording \in Seq(SourceNote)
  PROVE  LET m == Len(recording)
             order == SourceOrder(recording)
             key == SourceKey(recording, 1..m)
         IN  /\ order \in [1..m -> 1..m]
             /\ \A x \in 1..m : \E k \in 1..m : order[k] = x
             /\ \A i, k \in 1..m : i < k <=> Precedes(key[order[i]], key[order[k]])
             /\ \A i, k \in 1..m : order[i] = order[k] => i = k
<1> DEFINE m == Len(recording)
           S == DOMAIN recording
           key == SourceKey(recording, S)
           KeyOf(i) == <<recording[i].onset, recording[i].pitch, Length(recording[i]), i>>
           first(k) == CHOOSE x \in S : Cardinality({y \in S : Precedes(KeyOf(y), KeyOf(x))}) = k - 1
           second(k) == CHOOSE x \in S : Cardinality({y \in S : Precedes(key[y], key[x])}) = k - 1
<1>1. S = 1..m /\ m \in Nat /\ S \in SUBSET (1..Len(recording))
  OBVIOUS
<1>2. Cardinality(S) = m
  <2>1. 1 \in Int /\ m \in Int
    BY <1>1
  <2>2. Cardinality(S) = IF 1 > m THEN 0 ELSE m - 1 + 1
    <3>1. Cardinality(1..m) = IF 1 > m THEN 0 ELSE m - 1 + 1
      BY <2>1, FS_Interval
    <3> HIDE DEF S
    <3> QED
      BY <1>1, <3>1
  <2> HIDE DEF S
  <2> QED
    BY <1>1, <2>2
<1>3. SourceOrder(recording) = [k \in 1..Cardinality(S) |-> first(k)]
  BY DEF SourceOrder, SortedBy
<1>10. InOrderOf(S, key) = [k \in 1..Cardinality(S) |-> second(k)]
  BY DEF InOrderOf
<1>4. \A x \in S : key[x] = KeyOf(x)
  BY DEF SourceKey
<1>5. IsFiniteSet(S) /\ key \in [S -> Seq(Int)] /\ (\A x \in S : Len(key[x]) = 4)
      /\ \A x, y \in S : key[x] = key[y] => x = y
  BY <1>1, SourceKeyIs
<1> HIDE DEF S, KeyOf, key
<1>6. \A x \in S : {y \in S : Precedes(KeyOf(y), KeyOf(x))} = {y \in S : Precedes(key[y], key[x])}
  BY <1>4
<1>7. SourceOrder(recording) = InOrderOf(S, key)
  <2>1. \A k : first(k) = second(k)
    BY <1>6
  <2> HIDE DEF first, second
  <2> QED
    BY <1>3, <1>10, <2>1
<1>8. m \in Nat
  BY <1>1
<1> HIDE DEF m
<1> DEFINE order == InOrderOf(S, key)
<1>9. /\ order \in [1..m -> S]
      /\ \A x \in S : \E k \in 1..m : order[k] = x
      /\ \A i, k \in 1..m : i < k <=> Precedes(key[order[i]], key[order[k]])
      /\ \A i, k \in 1..m : order[i] = order[k] => i = k
  <2>1. Keyed(S, key, 4)
    BY <1>5 DEF Keyed
  <2>4. LET o == InOrderOf(S, key)
            N == Cardinality(S)
        IN  /\ N \in Nat /\ o \in [1..N -> S]
            /\ \A x \in S : \E k \in 1..N : o[k] = x
            /\ \A i, k \in 1..N : i < k <=> Precedes(key[o[i]], key[o[k]])
            /\ \A i, k \in 1..N : o[i] = o[k] => i = k
    BY <2>1, KeyedIsSorted
  <2> QED
    BY <1>2, <2>4 DEF order
<1> HIDE DEF order
<1>11. SourceOrder(recording) = order /\ key = SourceKey(recording, 1..m)
  BY <1>1, <1>7 DEF order, key
<1> QED
  BY <1>1, <1>9, <1>11 DEF m

ScoreKey(tokens) ==
  [i \in DOMAIN tokens |-> <<Attack(tokens[i]), tokens[i].pitch, i>>]

LEMMA ScoreOrderIs ==
  ASSUME NEW tokens \in Seq(ScoreOutput)
  PROVE  LET n == Len(tokens)
             order == ScoreOrder(tokens)
         IN  /\ order \in [1..n -> 1..n]
             /\ \A x \in 1..n : \E k \in 1..n : order[k] = x
             /\ \A i, k \in 1..n : i < k => Attack(tokens[order[i]]) <= Attack(tokens[order[k]])
             /\ \A i, k \in 1..n : order[i] = order[k] => i = k
<1> DEFINE n == Len(tokens)
           S == DOMAIN tokens
           key == ScoreKey(tokens)
           KeyOf(i) == <<Attack(tokens[i]), tokens[i].pitch, i>>
           first(k) == CHOOSE x \in S : Cardinality({y \in S : Precedes(KeyOf(y), KeyOf(x))}) = k - 1
           second(k) == CHOOSE x \in S : Cardinality({y \in S : Precedes(key[y], key[x])}) = k - 1
<1>1. S = 1..n /\ n \in Nat
  OBVIOUS
<1>2. IsFiniteSet(S) /\ Cardinality(S) = n
  <2>1. 1 \in Int /\ n \in Int
    BY <1>1
  <2>2. IsFiniteSet(S) /\ Cardinality(S) = IF 1 > n THEN 0 ELSE n - 1 + 1
    <3>1. IsFiniteSet(1..n) /\ Cardinality(1..n) = IF 1 > n THEN 0 ELSE n - 1 + 1
      BY <2>1, FS_Interval
    <3> HIDE DEF S
    <3> QED
      BY <1>1, <3>1
  <2> HIDE DEF S
  <2> QED
    BY <1>1, <2>2
<1>3. ScoreOrder(tokens) = [k \in 1..Cardinality(S) |-> first(k)]
  BY DEF ScoreOrder, SortedBy
<1>11. InOrderOf(S, key) = [k \in 1..Cardinality(S) |-> second(k)]
  BY DEF InOrderOf
<1>4. key = [x \in S |-> KeyOf(x)]
  BY DEF ScoreKey
<1>5. ASSUME NEW x \in S
      PROVE  /\ KeyOf(x) \in Seq(Int) /\ Len(KeyOf(x)) = 3
             /\ KeyOf(x)[1] = Attack(tokens[x]) /\ KeyOf(x)[3] = x /\ Attack(tokens[x]) \in Int
             /\ DOMAIN KeyOf(x) = {1, 2, 3}
  <2>1. tokens[x] \in ScoreOutput
    BY <1>1
  <2> DEFINE a == Attack(tokens[x])
             b == tokens[x].pitch
  <2>2. a \in Int /\ b \in Int /\ x \in Int
    <3>1. tokens[x].pitch \in Int /\ tokens[x].times \in Seq(Int) /\ tokens[x].times # << >>
      BY <2>1 DEF ScoreOutput
    <3>2. tokens[x].times[1] \in Int
      BY <3>1
    <3> QED
      BY <3>1, <3>2 DEF Attack
  <2> HIDE DEF a, b
  <2>3. /\ <<a, b, x>> \in Seq(Int) /\ Len(<<a, b, x>>) = 3
        /\ <<a, b, x>>[1] = a /\ <<a, b, x>>[3] = x /\ DOMAIN <<a, b, x>> = {1, 2, 3}
    BY <2>2
  <2> QED
    BY <2>2, <2>3 DEF a, b
<1> HIDE DEF S, KeyOf, key
<1>6. /\ key \in [S -> Seq(Int)] /\ (\A x \in S : Len(key[x]) = 3)
      /\ \A x, y \in S : key[x] = key[y] => x = y
  <2>1. key \in [S -> Seq(Int)]
    BY <1>4, <1>5
  <2>2. \A x \in S : key[x] = KeyOf(x)
    BY <1>4
  <2> QED
    BY <1>5, <2>1, <2>2
<1>7. \A x \in S : {y \in S : Precedes(KeyOf(y), KeyOf(x))} = {y \in S : Precedes(key[y], key[x])}
  <2>1. \A x \in S : key[x] = KeyOf(x)
    BY <1>4
  <2> QED
    BY <2>1
<1>8. ScoreOrder(tokens) = InOrderOf(S, key)
  <2>1. \A k : first(k) = second(k)
    BY <1>7
  <2> HIDE DEF first, second
  <2> QED
    BY <1>3, <1>11, <2>1
<1> DEFINE order == InOrderOf(S, key)
<1>9. /\ order \in [1..n -> S]
      /\ \A x \in S : \E k \in 1..n : order[k] = x
      /\ \A i, k \in 1..n : i < k <=> Precedes(key[order[i]], key[order[k]])
      /\ \A i, k \in 1..n : order[i] = order[k] => i = k
  <2>1. Keyed(S, key, 3)
    BY <1>2, <1>6 DEF Keyed
  <2> HIDE DEF order
  <2>2. LET o == InOrderOf(S, key)
            N == Cardinality(S)
        IN  /\ N \in Nat /\ o \in [1..N -> S]
            /\ \A x \in S : \E k \in 1..N : o[k] = x
            /\ \A i, k \in 1..N : i < k <=> Precedes(key[o[i]], key[o[k]])
            /\ \A i, k \in 1..N : o[i] = o[k] => i = k
    BY <2>1, KeyedIsSorted
  <2> QED
    BY <1>2, <2>2 DEF order
<1> HIDE DEF order
<1>10. ASSUME NEW i \in 1..n, NEW k \in 1..n, i < k
       PROVE  Attack(tokens[order[i]]) <= Attack(tokens[order[k]])
  <2> DEFINE s == KeyOf(order[i])
             t == KeyOf(order[k])
  <2>1. order[i] \in S /\ order[k] \in S
    BY <1>9
  <2>2. key[order[i]] = s /\ key[order[k]] = t
    BY <1>4, <2>1
  <2>3. Precedes(s, t)
    BY <1>9, <1>10, <2>2
  <2>4. /\ DOMAIN s = {1, 2, 3} /\ s[1] = Attack(tokens[order[i]]) /\ t[1] = Attack(tokens[order[k]])
        /\ Attack(tokens[order[i]]) \in Int /\ Attack(tokens[order[k]]) \in Int
    BY <1>5, <2>1
  <2> HIDE DEF s, t
  <2>5. s[1] < t[1] \/ s[1] = t[1]
    BY <2>3, <2>4, PrecedesThree
  <2> QED
    BY <2>4, <2>5
<1> QED
  BY <1>1, <1>8, <1>9, <1>10 DEF order

\* The pitches of the notes and of the outputs, in their orders.
NotePitches(recording) ==
  [k \in DOMAIN SourceOrder(recording) |-> recording[SourceOrder(recording)[k]].pitch]
ScorePitches(tokens) ==
  [k \in DOMAIN ScoreOrder(tokens) |-> tokens[ScoreOrder(tokens)[k]].pitch]

LEMMA PitchesAre ==
  ASSUME NEW recording \in Seq(SourceNote), NEW tokens \in Seq(ScoreOutput)
  PROVE  LET notes == SourceOrder(recording)
             scored == ScoreOrder(tokens)
         IN  /\ NotePitches(recording) \in Seq(Int) /\ Len(NotePitches(recording)) = Len(recording)
             /\ \A k \in 1..Len(recording) : NotePitches(recording)[k] = recording[notes[k]].pitch
             /\ ScorePitches(tokens) \in Seq(Int) /\ Len(ScorePitches(tokens)) = Len(tokens)
             /\ \A k \in 1..Len(tokens) : ScorePitches(tokens)[k] = tokens[scored[k]].pitch
<1> DEFINE notes == SourceOrder(recording)
           scored == ScoreOrder(tokens)
           m == Len(recording)
           n == Len(tokens)
<1>1. notes \in [1..m -> 1..m] /\ scored \in [1..n -> 1..n] /\ m \in Nat /\ n \in Nat
  BY SourceOrderIs, ScoreOrderIs
<1>2. NotePitches(recording) = [k \in 1..m |-> recording[notes[k]].pitch]
      /\ ScorePitches(tokens) = [k \in 1..n |-> tokens[scored[k]].pitch]
  <2>1. /\ NotePitches(recording) = [k \in DOMAIN notes |-> recording[notes[k]].pitch]
        /\ ScorePitches(tokens) = [k \in DOMAIN scored |-> tokens[scored[k]].pitch]
    BY DEF NotePitches, ScorePitches
  <2>2. DOMAIN notes = 1..m /\ DOMAIN scored = 1..n
    BY <1>1
  <2> HIDE DEF notes, scored, m, n
  <2> QED
    BY <2>1, <2>2
<1>3. /\ \A k \in 1..m : recording[notes[k]] \in SourceNote
      /\ \A k \in 1..n : tokens[scored[k]] \in ScoreOutput
  <2>1. (\A i \in 1..m : recording[i] \in SourceNote) /\ \A i \in 1..n : tokens[i] \in ScoreOutput
    OBVIOUS
  <2> HIDE DEF notes, scored, m, n
  <2> QED
    BY <1>1, <2>1
<1>4. /\ \A k \in 1..m : recording[notes[k]].pitch \in Int
      /\ \A k \in 1..n : tokens[scored[k]].pitch \in Int
  <2>1. \A note \in SourceNote : note.pitch \in Int
    BY DEF SourceNote
  <2>2. \A output \in ScoreOutput : output.pitch \in Int
    BY DEF ScoreOutput
  <2> HIDE DEF notes, scored, m, n
  <2> QED
    BY <1>3, <2>1, <2>2
<1> HIDE DEF notes, scored, m, n
<1>5. NotePitches(recording) \in Seq(Int) /\ Len(NotePitches(recording)) = m
  <2>1. m \in Nat
    BY <1>1
  <2>2. NotePitches(recording) \in [1..m -> Int]
    BY <1>2, <1>4
  <2> DEFINE f == NotePitches(recording)
  <2> HIDE DEF f
  <2>3. f \in [1..m -> Int]
    BY <2>2 DEF f
  <2>4. f \in Seq(Int) /\ Len(f) = m
    BY <2>1, <2>3
  <2> QED
    BY <2>4 DEF f
<1>6. ScorePitches(tokens) \in Seq(Int) /\ Len(ScorePitches(tokens)) = n
  <2>1. n \in Nat
    BY <1>1
  <2>2. ScorePitches(tokens) \in [1..n -> Int]
    BY <1>2, <1>4
  <2> DEFINE f == ScorePitches(tokens)
  <2> HIDE DEF f
  <2>3. f \in [1..n -> Int]
    BY <2>2 DEF f
  <2>4. f \in Seq(Int) /\ Len(f) = n
    BY <2>1, <2>3
  <2> QED
    BY <2>4 DEF f
<1> QED
  BY <1>2, <1>5, <1>6 DEF notes, scored, m, n

\* The pairs of a document.
PairsOf(recording, tokens) == Pairs(NotePitches(recording), ScorePitches(tokens))

LEMMA PairsOfAre ==
  ASSUME NEW recording \in Seq(SourceNote), NEW tokens \in Seq(ScoreOutput)
  PROVE  LET notes == SourceOrder(recording)
             scored == ScoreOrder(tokens)
             P == PairsOf(recording, tokens)
         IN  /\ \A p \in P : /\ p = <<p[1], p[2]>> /\ p[1] \in 1..Len(recording) /\ p[2] \in 1..Len(tokens)
                             /\ recording[notes[p[1]]].pitch = tokens[scored[p[2]]].pitch
             /\ \A p, q \in P : p # q => ~ Crossing(p, q)
             /\ Optimal(P, NotePitches(recording), ScorePitches(tokens))
<1> DEFINE s == NotePitches(recording)
           t == ScorePitches(tokens)
           P == PairsOf(recording, tokens)
<1>1. /\ s \in Seq(Int) /\ Len(s) = Len(recording) /\ t \in Seq(Int) /\ Len(t) = Len(tokens)
      /\ \A k \in 1..Len(recording) : s[k] = recording[SourceOrder(recording)[k]].pitch
      /\ \A k \in 1..Len(tokens) : t[k] = tokens[ScoreOrder(tokens)[k]].pitch
  BY PitchesAre
<1>2. P = Pairs(s, t)
  BY DEF PairsOf
<1> HIDE DEF s, t, P
<1>3. Optimal(P, s, t)
  BY <1>1, <1>2, PairsAreBest
<1>4. P \in Matchings(s, t)
  BY <1>3 DEF Optimal
<1>5. /\ \A p \in P : p \in (1..Len(s)) \X (1..Len(t)) /\ s[p[1]] = t[p[2]]
      /\ \A p, q \in P : p # q => ~ Crossing(p, q)
  BY <1>1, <1>4, MatchingIs
<1>6. \A p \in P : /\ p = <<p[1], p[2]>> /\ p[1] \in 1..Len(recording) /\ p[2] \in 1..Len(tokens)
                   /\ s[p[1]] = t[p[2]]
  BY <1>1, <1>5
<1> QED
  BY <1>1, <1>3, <1>5, <1>6 DEF s, t, P

SegmentsOf(output) ==
  [k \in DOMAIN output.times |-> [pitch |-> output.pitch, time |-> output.times[k]]]

LEMMA MappedRow ==
  ASSUME NEW note, NEW S, NEW T, NEW o \in T, \A x \in T : x = o
  PROVE  /\ Row(note, T, S).note = note
         /\ Row(note, T, S).status = "mapped"
         /\ Row(note, T, S).output = o
         /\ Row(note, T, S).time = Attack(S[o])
         /\ Row(note, T, S).segments = SegmentsOf(S[o])
<1> DEFINE segments == SegmentsOf(S[o])
           attack == Attack(S[o])
<1>1. (CHOOSE x \in T : TRUE) = o
  OBVIOUS
<1>2. T # {}
  OBVIOUS
<1>3. Row(note, T, S)
        = [note |-> note, status |-> "mapped", time |-> attack, output |-> o, segments |-> segments]
  BY <1>1, <1>2 DEF Row, SegmentsOf
<1> HIDE DEF segments, attack
<1>4. /\ Row(note, T, S).note = note
      /\ Row(note, T, S).status = "mapped"
      /\ Row(note, T, S).output = o
      /\ Row(note, T, S).time = attack
      /\ Row(note, T, S).segments = segments
  BY <1>3
<1> QED
  BY <1>4 DEF segments, attack

LEMMA RowsAre ==
  ASSUME NEW recording \in Seq(SourceNote), NEW tokens \in Seq(ScoreOutput)
  PROVE  LET notes == SourceOrder(recording)
             scored == ScoreOrder(tokens)
             P == PairsOf(recording, tokens)
             rows == Rows(recording, tokens)
         IN  /\ DOMAIN rows = 1..Len(recording)
             /\ \A i \in 1..Len(recording) : rows[i].note = recording[i]
             /\ \A p \in P :
                  LET row == rows[notes[p[1]]]
                      output == tokens[scored[p[2]]]
                  IN  /\ row.status = "mapped" /\ row.output = scored[p[2]]
                      /\ row.time = Attack(output)
                      /\ row.segments = [k \in DOMAIN output.times |->
                                           [pitch |-> output.pitch, time |-> output.times[k]]]
             /\ \A i \in 1..Len(recording) :
                  \/ \E p \in P : notes[p[1]] = i
                  \/ /\ rows[i].status = "unmatched" /\ rows[i].output = 0
                     /\ rows[i].time = NoTime /\ rows[i].segments = << >>
<1> DEFINE notes == SourceOrder(recording)
           scored == ScoreOrder(tokens)
           P == PairsOf(recording, tokens)
           rows == Rows(recording, tokens)
           chosen == OutputOf(recording, tokens)
           m == Len(recording)
<1>1. chosen = [i \in DOMAIN recording |-> {scored[p[2]] : p \in {q \in P : notes[q[1]] = i}}]
  BY DEF OutputOf, PairsOf, NotePitches, ScorePitches
<1>2. rows = [i \in DOMAIN recording |-> Row(recording[i], chosen[i], tokens)]
  BY DEF Rows
<1>3. DOMAIN recording = 1..m
  OBVIOUS
<1>4. /\ notes \in [1..m -> 1..m]
      /\ \A i, k \in 1..m : notes[i] = notes[k] => i = k
  BY SourceOrderIs
<1>5. /\ \A p \in P : /\ p = <<p[1], p[2]>> /\ p[1] \in 1..m /\ p[2] \in 1..Len(tokens)
      /\ \A p, q \in P : p # q => ~ Crossing(p, q)
  BY PairsOfAre
<1> HIDE DEF notes, scored, P, rows, chosen, m
<1>6. \A i \in 1..m : /\ chosen[i] = {scored[p[2]] : p \in {q \in P : notes[q[1]] = i}}
                      /\ rows[i] = Row(recording[i], chosen[i], tokens)
  BY <1>1, <1>2, <1>3
<1>8. \A note :
        LET row == Row(note, {}, tokens)
        IN  /\ row.note = note /\ row.status = "unmatched" /\ row.time = NoTime /\ row.output = 0
            /\ row.segments = << >>
  BY DEF Row
<1>9. ASSUME NEW p \in P PROVE chosen[notes[p[1]]] = {scored[p[2]]} /\ notes[p[1]] \in 1..m
  <2>1. p[1] \in 1..m /\ notes[p[1]] \in 1..m
    BY <1>4, <1>5
  <2>2. ASSUME NEW q \in P, notes[q[1]] = notes[p[1]] PROVE q = p
    <3>1. q[1] \in 1..m /\ q[1] = p[1]
      BY <1>4, <1>5, <2>1, <2>2
    <3>2. q[2] \in 1..Len(tokens) /\ p[2] \in 1..Len(tokens)
      BY <1>5
    <3>3. Crossing(q, p)
      BY <2>1, <3>1, <3>2 DEF Crossing, m
    <3> QED
      BY <1>5, <3>3
  <2>3. {q \in P : notes[q[1]] = notes[p[1]]} = {p}
    BY <2>2
  <2> QED
    BY <1>6, <2>1, <2>3
<1>10. ASSUME NEW i \in 1..m, ~ \E p \in P : notes[p[1]] = i PROVE chosen[i] = {}
  <2>1. {q \in P : notes[q[1]] = i} = {}
    BY <1>10
  <2> QED
    BY <1>6, <2>1
<1>11. ASSUME NEW i \in 1..m PROVE rows[i].note = recording[i]
  <2>1. CASE \E p \in P : notes[p[1]] = i
    <3>1. PICK p \in P : notes[p[1]] = i
      BY <2>1
    <3>2. rows[i] = Row(recording[i], chosen[i], tokens) 
      BY <1>6
    <3>3. scored[p[2]] \in chosen[i] /\ \A x \in chosen[i] : x = scored[p[2]]
      BY <1>9, <3>1
    <3> QED
      BY <3>2, <3>3, MappedRow
  <2>2. CASE ~ \E p \in P : notes[p[1]] = i
    <3>1. rows[i] = Row(recording[i], {}, tokens)
      BY <1>6, <1>10, <2>2
    <3> QED
      BY <1>8, <3>1
  <2> QED
    BY <2>1, <2>2
<1>12. ASSUME NEW p \in P
       PROVE  LET row == rows[notes[p[1]]]
                  output == tokens[scored[p[2]]]
              IN  /\ row.status = "mapped" /\ row.output = scored[p[2]]
                  /\ row.time = Attack(output)
                  /\ row.segments = [k \in DOMAIN output.times |->
                                       [pitch |-> output.pitch, time |-> output.times[k]]]
  <2> DEFINE note == recording[notes[p[1]]]
             o == scored[p[2]]
             row == rows[notes[p[1]]]
             some == chosen[notes[p[1]]]
  <2>1. row = Row(note, some, tokens) /\ o \in some /\ \A x \in some : x = o
    BY <1>6, <1>9
  <2> HIDE DEF note, o, row, some
  <2>2. /\ row.status = "mapped" /\ row.output = o /\ row.time = Attack(tokens[o])
        /\ row.segments = SegmentsOf(tokens[o])
    BY <2>1, MappedRow
  <2> QED
    BY <2>2 DEF o, row, SegmentsOf
<1>13. ASSUME NEW i \in 1..m
       PROVE  \/ \E p \in P : notes[p[1]] = i
              \/ /\ rows[i].status = "unmatched" /\ rows[i].output = 0
                 /\ rows[i].time = NoTime /\ rows[i].segments = << >>
  <2> SUFFICES ASSUME ~ \E p \in P : notes[p[1]] = i
               PROVE  /\ rows[i].status = "unmatched" /\ rows[i].output = 0
                      /\ rows[i].time = NoTime /\ rows[i].segments = << >>
    OBVIOUS
  <2>1. rows[i] = Row(recording[i], {}, tokens)
    BY <1>6, <1>10
  <2> QED
    BY <1>8, <2>1
<1>14. DOMAIN rows = 1..m
  BY <1>2, <1>3
<1> QED
  BY <1>11, <1>12, <1>13, <1>14 DEF notes, scored, P, rows, m

\* The server accepts the document of its own adapter.
LEMMA RowsAreValid ==
  ASSUME NEW recording \in Seq(SourceNote), NEW tokens \in Seq(ScoreOutput)
  PROVE  Valid(recording, tokens, Rows(recording, tokens))
<1> DEFINE notes == SourceOrder(recording)
           scored == ScoreOrder(tokens)
           P == PairsOf(recording, tokens)
           rows == Rows(recording, tokens)
           m == Len(recording)
           n == Len(tokens)
           mapped == {i \in DOMAIN rows : rows[i].status = "mapped"}
           KeyOf(i) == <<rows[i].note.onset, rows[i].note.pitch, Length(rows[i].note), i>>
           sorted == SortedBy(mapped, KeyOf)
           key == SourceKey(recording, mapped)
           all == SourceKey(recording, 1..m)
<1>1. /\ notes \in [1..m -> 1..m]
      /\ \A x \in 1..m : \E k \in 1..m : notes[k] = x
      /\ \A i, k \in 1..m : i < k <=> Precedes(all[notes[i]], all[notes[k]])
      /\ \A i, k \in 1..m : notes[i] = notes[k] => i = k
  BY SourceOrderIs
<1>2. /\ scored \in [1..n -> 1..n]
      /\ \A i, k \in 1..n : i < k => Attack(tokens[scored[i]]) <= Attack(tokens[scored[k]])
      /\ \A i, k \in 1..n : scored[i] = scored[k] => i = k
  BY ScoreOrderIs
<1>3. /\ \A p \in P : /\ p = <<p[1], p[2]>> /\ p[1] \in 1..m /\ p[2] \in 1..n
                      /\ recording[notes[p[1]]].pitch = tokens[scored[p[2]]].pitch
      /\ \A p, q \in P : p # q => ~ Crossing(p, q)
  BY PairsOfAre
<1>4. /\ DOMAIN rows = 1..m
      /\ \A i \in 1..m : rows[i].note = recording[i]
      /\ \A p \in P : /\ rows[notes[p[1]]].status = "mapped"
                      /\ rows[notes[p[1]]].output = scored[p[2]]
                      /\ rows[notes[p[1]]].time = Attack(tokens[scored[p[2]]])
                      /\ rows[notes[p[1]]].segments
                           = [k \in DOMAIN tokens[scored[p[2]]].times |->
                                [pitch |-> tokens[scored[p[2]]].pitch,
                                 time |-> tokens[scored[p[2]]].times[k]]]
      /\ \A i \in 1..m :
           \/ \E p \in P : notes[p[1]] = i
           \/ /\ rows[i].status = "unmatched" /\ rows[i].output = 0
              /\ rows[i].time = NoTime /\ rows[i].segments = << >>
  BY RowsAre
<1>5. DOMAIN recording = 1..m /\ DOMAIN tokens = 1..n /\ m \in Nat /\ n \in Nat
  OBVIOUS
<1> HIDE DEF notes, scored, P, rows, m, n
<1>6. \A i : i \in mapped <=> i \in 1..m /\ rows[i].status = "mapped"
  BY <1>4
<1> HIDE DEF mapped
<1>7. \A i \in 1..m : i \in mapped <=> \E p \in P : notes[p[1]] = i
  <2> TAKE i \in 1..m
  <2>1. ASSUME i \in mapped PROVE \E p \in P : notes[p[1]] = i
    <3>1. rows[i].status # "unmatched"
      BY <1>6, <2>1
    <3> QED
      BY <1>4, <3>1
  <2>2. ASSUME NEW p \in P, notes[p[1]] = i PROVE i \in mapped
    <3>1. rows[notes[p[1]]].status = "mapped"
      BY <1>4
    <3> QED
      BY <1>6, <2>2, <3>1
  <2> QED
    BY <2>1, <2>2
<1>8. mapped \in SUBSET (1..m)
  BY <1>6
<1>9. \A i \in DOMAIN rows \ mapped : rows[i].segments = << >> /\ rows[i].time = NoTime
  BY <1>4, <1>7
<1>10. ASSUME NEW i \in mapped
       PROVE  /\ rows[i].segments # << >>
              /\ \A k \in DOMAIN rows[i].segments :
                   rows[i].segments[k].pitch = rows[i].note.pitch
                   /\ rows[i].segments[k].time >= rows[i].time
              /\ \E k \in DOMAIN rows[i].segments : rows[i].segments[k].time = rows[i].time
  <2>1. PICK p \in P : notes[p[1]] = i
    BY <1>7, <1>8
  <2> DEFINE output == tokens[scored[p[2]]]
             segments == rows[i].segments
  <2>2. scored[p[2]] \in 1..n /\ i \in 1..m
    BY <1>2, <1>3, <1>8
  <2>3. output \in ScoreOutput
    BY <1>5, <2>2
  <2>4. /\ output.times \in Seq(Int) /\ output.times # << >> /\ output.pitch \in Int
        /\ \A k \in DOMAIN output.times : output.times[1] <= output.times[k]
    BY <2>3 DEF ScoreOutput
  <2>5. 1 \in DOMAIN output.times /\ \A k \in DOMAIN output.times : output.times[k] \in Int
    BY <2>4
  <2>6. /\ segments = [k \in DOMAIN output.times |-> [pitch |-> output.pitch, time |-> output.times[k]]]
        /\ rows[i].time = output.times[1] /\ rows[i].note.pitch = output.pitch
    BY <1>3, <1>4, <2>1, <2>2 DEF Attack
  <2> HIDE DEF output, segments
  <2>7. /\ DOMAIN segments = DOMAIN output.times
        /\ \A k \in DOMAIN output.times : segments[k].pitch = output.pitch /\ segments[k].time = output.times[k]
    BY <2>6
  <2>8. segments # << >>
    <3>1. DOMAIN << >> = {}
      OBVIOUS
    <3> QED
      BY <2>5, <2>7, <3>1
  <2>9. \A k \in DOMAIN segments : segments[k].pitch = rows[i].note.pitch /\ segments[k].time >= rows[i].time
    BY <2>4, <2>5, <2>6, <2>7
  <2>10. \E k \in DOMAIN segments : segments[k].time = rows[i].time
    BY <2>5, <2>6, <2>7
  <2> QED
    BY <2>8, <2>9, <2>10 DEF segments
<1>11. \A k \in 1..(Len(sorted) - 1) : rows[sorted[k]].time <= rows[sorted[k + 1]].time
  <2> DEFINE N == Cardinality(mapped)
             order == InOrderOf(mapped, key)
  <2>1. /\ IsFiniteSet(mapped) /\ key \in [mapped -> Seq(Int)]
        /\ \A x \in mapped : Len(key[x]) = 4
        /\ \A x, y \in mapped : key[x] = key[y] => x = y
    BY <1>8, SourceKeyIs DEF m
  <2>2. \A x \in mapped : key[x] = KeyOf(x) /\ all[x] = key[x]
    BY <1>4, <1>8 DEF SourceKey
  <2> HIDE DEF KeyOf, key, all
  <2>3. sorted = order
    <3> DEFINE first(k) == CHOOSE x \in mapped :
                             Cardinality({y \in mapped : Precedes(KeyOf(y), KeyOf(x))}) = k - 1
               second(k) == CHOOSE x \in mapped :
                              Cardinality({y \in mapped : Precedes(key[y], key[x])}) = k - 1
    <3>1. sorted = [k \in 1..N |-> first(k)]
      BY DEF SortedBy, KeyOf
    <3>4. order = [k \in 1..N |-> second(k)]
      BY DEF InOrderOf
    <3>2. \A x \in mapped : {y \in mapped : Precedes(KeyOf(y), KeyOf(x))} = {y \in mapped : Precedes(key[y], key[x])}
      BY <2>2
    <3>3. \A k : first(k) = second(k)
      BY <3>2
    <3> HIDE DEF sorted, order, first, second
    <3> QED
      BY <3>1, <3>3, <3>4
  <2>4. /\ N \in Nat /\ order \in [1..N -> mapped]
        /\ \A i, k \in 1..N : i < k <=> Precedes(key[order[i]], key[order[k]])
    <3>1. Keyed(mapped, key, 4)
      BY <2>1 DEF Keyed
    <3> QED
      BY <3>1, KeyedIsSorted
  <2> HIDE DEF sorted, order, N
  <2>5. Len(sorted) = N
    BY <2>3, <2>4
  <2> SUFFICES ASSUME NEW k \in 1..(N - 1)
               PROVE  rows[order[k]].time <= rows[order[k + 1]].time
    BY <2>3, <2>5
  <2>6. k \in 1..N /\ k + 1 \in 1..N /\ k < k + 1
    BY <2>4
  <2>7. order[k] \in mapped /\ order[k + 1] \in mapped
        /\ Precedes(key[order[k]], key[order[k + 1]])
    BY <2>4, <2>6
  <2>8. PICK p \in P : notes[p[1]] = order[k]
    BY <1>7, <1>8, <2>7
  <2>9. PICK q \in P : notes[q[1]] = order[k + 1]
    BY <1>7, <1>8, <2>7
  <2>10. Precedes(all[notes[p[1]]], all[notes[q[1]]])
    BY <2>2, <2>7, <2>8, <2>9
  <2>11. p[1] \in 1..m /\ q[1] \in 1..m /\ p[2] \in 1..n /\ q[2] \in 1..n
    BY <1>3
  <2>12. p[1] < q[1]
    BY <1>1, <2>10, <2>11 DEF all
  <2>13. p[2] < q[2]
    <3>1. p # q
      BY <1>5, <2>11, <2>12
    <3>2. ~ (p[1] <= q[1] /\ p[2] >= q[2])
      BY <1>3, <3>1 DEF Crossing
    <3> QED
      BY <1>5, <2>11, <2>12, <3>2
  <2>14. Attack(tokens[scored[p[2]]]) <= Attack(tokens[scored[q[2]]])
    BY <1>2, <2>11, <2>13
  <2>15. /\ rows[notes[p[1]]].time = Attack(tokens[scored[p[2]]])
         /\ rows[notes[q[1]]].time = Attack(tokens[scored[q[2]]])
    BY <1>4
  <2> QED
    BY <2>8, <2>9, <2>14, <2>15
<1>12. ASSUME NEW o \in DOMAIN tokens
       PROVE  Cardinality({i \in DOMAIN rows : rows[i].output = o}) +
                (IF o \in Inserted(tokens, rows) THEN 1 ELSE 0) = 1
  <2> DEFINE with == {i \in DOMAIN rows : rows[i].output = o}
  <2>1. o \in 1..n /\ o # 0
    BY <1>5
  <2>2. o \in Inserted(tokens, rows) <=> with = {}
    BY DEF Inserted
  <2>3. CASE with = {}
    <3>1. Cardinality(with) = 0
      BY <2>3, FS_EmptySet
    <3> HIDE DEF with
    <3> QED
      BY <2>2, <2>3, <3>1 DEF with
  <2>4. CASE with # {}
    <3>1. PICK i \in 1..m : rows[i].output = o
      <4>1. PICK i \in with : TRUE
        BY <2>4
      <4>2. i \in 1..m /\ rows[i].output = o
        BY <1>4
      <4> QED
        BY <4>2
    <3>2. \A l \in 1..m : rows[l].output = o => \E p \in P : notes[p[1]] = l /\ scored[p[2]] = o
      <4> SUFFICES ASSUME NEW l \in 1..m, rows[l].output = o
                   PROVE  \E p \in P : notes[p[1]] = l /\ scored[p[2]] = o
        OBVIOUS
      <4>1. PICK p \in P : notes[p[1]] = l
        BY <1>4, <2>1
      <4>2. rows[notes[p[1]]].output = scored[p[2]]
        BY <1>4
      <4> QED
        BY <4>1, <4>2
    <3>3. ASSUME NEW l \in 1..m, rows[l].output = o PROVE l = i
      <4>1. PICK p \in P : notes[p[1]] = l /\ scored[p[2]] = o
        BY <3>2, <3>3
      <4>2. PICK q \in P : notes[q[1]] = i /\ scored[q[2]] = o
        BY <3>1, <3>2
      <4>3. p[2] = q[2] /\ p[2] \in 1..n /\ p[1] \in 1..m /\ q[1] \in 1..m
        BY <1>2, <1>3, <4>1, <4>2
      <4>4. Crossing(p, q)
        <5>1. p[1] <= q[1] \/ p[1] >= q[1]
          BY <1>5, <4>3
        <5>2. p[2] >= q[2] /\ p[2] <= q[2]
          BY <1>5, <4>3
        <5> QED
          BY <5>1, <5>2 DEF Crossing
      <4>5. p = q
        BY <1>3, <4>4
      <4> QED
        BY <4>1, <4>2, <4>5
    <3>4. with = {i}
      BY <1>4, <3>1, <3>3
    <3>5. Cardinality(with) = 1
      BY <3>4, FS_Singleton
    <3> HIDE DEF with
    <3> QED
      BY <2>2, <2>4, <3>5 DEF with
  <2> QED
    BY <2>3, <2>4
<1>13. DOMAIN rows = DOMAIN recording /\ \A i \in DOMAIN rows : rows[i].note = recording[i]
  BY <1>4, <1>5
<1> HIDE DEF sorted
<1> QED
  BY <1>9, <1>10, <1>11, <1>12, <1>13 DEF Valid, mapped, sorted, rows

\* The pairs can be read from the rows.
LEMMA RowsSayPairs ==
  ASSUME NEW recording \in Seq(SourceNote), NEW tokens \in Seq(ScoreOutput)
  PROVE  LET notes == SourceOrder(recording)
             scored == ScoreOrder(tokens)
             rows == Rows(recording, tokens)
             spot(o) == CHOOSE k \in DOMAIN scored : scored[k] = o
         IN  {<<k, spot(rows[notes[k]].output)>> :
                k \in {l \in DOMAIN notes : rows[notes[l]].status = "mapped"}}
               = PairsOf(recording, tokens)
<1> DEFINE notes == SourceOrder(recording)
           scored == ScoreOrder(tokens)
           P == PairsOf(recording, tokens)
           rows == Rows(recording, tokens)
           m == Len(recording)
           n == Len(tokens)
           spot(o) == CHOOSE k \in DOMAIN scored : scored[k] = o
           read == {<<k, spot(rows[notes[k]].output)>> :
                      k \in {l \in DOMAIN notes : rows[notes[l]].status = "mapped"}}
<1>1. notes \in [1..m -> 1..m] /\ \A i, k \in 1..m : notes[i] = notes[k] => i = k
  BY SourceOrderIs
<1>2. scored \in [1..n -> 1..n] /\ \A i, k \in 1..n : scored[i] = scored[k] => i = k
  BY ScoreOrderIs
<1>3. \A p \in P : p = <<p[1], p[2]>> /\ p[1] \in 1..m /\ p[2] \in 1..n
  BY PairsOfAre
<1>9. /\ \A p \in P : /\ rows[notes[p[1]]].status = "mapped"
                      /\ rows[notes[p[1]]].output = scored[p[2]]
                      /\ rows[notes[p[1]]].time = Attack(tokens[scored[p[2]]])
                      /\ rows[notes[p[1]]].segments
                           = [k \in DOMAIN tokens[scored[p[2]]].times |->
                                [pitch |-> tokens[scored[p[2]]].pitch,
                                 time |-> tokens[scored[p[2]]].times[k]]]
      /\ \A i \in 1..m :
           \/ \E p \in P : notes[p[1]] = i
           \/ /\ rows[i].status = "unmatched" /\ rows[i].output = 0
              /\ rows[i].time = NoTime /\ rows[i].segments = << >>
  BY RowsAre
<1>4. /\ \A p \in P : /\ rows[notes[p[1]]].status = "mapped"
                      /\ rows[notes[p[1]]].output = scored[p[2]]
      /\ \A i \in 1..m : \/ \E p \in P : notes[p[1]] = i
                         \/ rows[i].status = "unmatched"
  <2> HIDE DEF rows, notes, scored, P, m
  <2> QED
    BY <1>9
<1> HIDE DEF notes, scored, P, rows, m, n
<1>5. \A k \in 1..n : spot(scored[k]) = k
  <2> TAKE k \in 1..n
  <2>1. \A l \in DOMAIN scored : scored[l] = scored[k] <=> l = k
    BY <1>2
  <2>2. k \in DOMAIN scored
    BY <1>2
  <2> QED
    BY <2>1, <2>2
<1> HIDE DEF spot
<1>6. \A p \in P : p \in read
  <2> TAKE p \in P
  <2>1. p[1] \in DOMAIN notes /\ rows[notes[p[1]]].status = "mapped"
    BY <1>1, <1>3, <1>4
  <2>2. spot(rows[notes[p[1]]].output) = p[2]
    BY <1>3, <1>4, <1>5
  <2>3. <<p[1], spot(rows[notes[p[1]]].output)>> \in read
    BY <2>1
  <2> QED
    BY <1>3, <2>2, <2>3
<1>7. ASSUME NEW k \in DOMAIN notes, rows[notes[k]].status = "mapped"
      PROVE  <<k, spot(rows[notes[k]].output)>> \in P
  <2>1. k \in 1..m /\ notes[k] \in 1..m
    BY <1>1
  <2>2. PICK p \in P : notes[p[1]] = notes[k]
    BY <1>4, <1>7, <2>1
  <2>3. p[1] = k
    BY <1>1, <1>3, <2>1, <2>2
  <2>4. spot(rows[notes[k]].output) = p[2]
    BY <1>3, <1>4, <1>5, <2>3
  <2> QED
    BY <1>3, <2>3, <2>4
<1>8. read = P
  BY <1>6, <1>7
<1> QED
  BY <1>8 DEF read, spot, notes, scored, P, rows

\* The document of a recording.
LEMMA DocumentIs ==
  ASSUME NEW notes \in Seq(SourceNote)
  PROVE  InputDocument(notes) \in Seq(SourceNote)
<1> DEFINE S == DOMAIN notes
           KeyOf(i) == <<Tick(notes[i].onset), notes[i].pitch,
                       Tick(notes[i].offset) - Tick(notes[i].onset),
                       notes[i].onset, notes[i].offset, i>>
           key == [i \in S |-> KeyOf(i)]
           order == InOrderOf(S, key)
           first(k) == CHOOSE x \in S : Cardinality({y \in S : Precedes(KeyOf(y), KeyOf(x))}) = k - 1
           second(k) == CHOOSE x \in S : Cardinality({y \in S : Precedes(key[y], key[x])}) = k - 1
<1>1. S = 1..Len(notes) /\ Len(notes) \in Nat
  OBVIOUS
<1>2. IsFiniteSet(S)
  <2>1. 1 \in Int /\ Len(notes) \in Int
    OBVIOUS
  <2> HIDE DEF S
  <2> QED
    BY <1>1, <2>1, FS_Interval
<1>3. \A sample \in Int : Tick(sample) \in Int
  <2> TAKE sample \in Int
  <2>1. SamplesPerTick \in Nat /\ SamplesPerTick > 0
    BY MidiAssumption
  <2>2. sample \div SamplesPerTick \in Int
    BY <2>1
  <2> DEFINE whole == sample \div SamplesPerTick
  <2>3. Tick(sample) = whole \/ Tick(sample) = whole + 1
    BY DEF Tick, Nearest
  <2> HIDE DEF whole
  <2> QED
    BY <2>2, <2>3 DEF whole
<1>4. ASSUME NEW i \in S PROVE KeyOf(i) \in Seq(Int) /\ Len(KeyOf(i)) = 6 /\ KeyOf(i)[6] = i
  <2> DEFINE a == Tick(notes[i].onset)
             b == notes[i].pitch
             c == Tick(notes[i].offset) - Tick(notes[i].onset)
             d == notes[i].onset
             e == notes[i].offset
  <2>1. notes[i] \in SourceNote /\ i \in Int
    OBVIOUS
  <2>2. b \in Int /\ d \in Int /\ e \in Int
    BY <2>1 DEF SourceNote
  <2>3. a \in Int /\ Tick(e) \in Int
    BY <1>3, <2>2
  <2>4. c \in Int
    <3>1. c = Tick(e) - a
      OBVIOUS
    <3> HIDE DEF a, c, e
    <3> QED
      BY <2>3, <3>1
  <2>5. KeyOf(i) = <<a, b, c, d, e, i>>
    OBVIOUS
  <2> HIDE DEF a, b, c, d, e, KeyOf
  <2> QED
    BY <2>1, <2>2, <2>3, <2>4, <2>5
<1>5. InputDocument(notes)
        = LET o == [k \in 1..Cardinality(S) |-> first(k)]
          IN  [k \in DOMAIN o |-> notes[o[k]]]
  BY DEF InputDocument, SortedBy
<1>12. order = [k \in 1..Cardinality(S) |-> second(k)]
  BY DEF InOrderOf
<1> HIDE DEF S, KeyOf
<1>6. \A x \in S : {y \in S : Precedes(KeyOf(y), KeyOf(x))} = {y \in S : Precedes(key[y], key[x])}
  OBVIOUS
<1>7. /\ key \in [S -> Seq(Int)] /\ (\A x \in S : Len(key[x]) = 6)
      /\ \A x, y \in S : key[x] = key[y] => x = y
  <2>1. \A x \in S : key[x] = KeyOf(x)
    OBVIOUS
  <2>2. key \in [S -> Seq(Int)]
    BY <1>4
  <2> HIDE DEF key
  <2> QED
    BY <1>4, <2>1, <2>2
<1> HIDE DEF key
<1>8. /\ Cardinality(S) \in Nat /\ order \in [1..Cardinality(S) -> S]
  <2>1. Keyed(S, key, 6)
    BY <1>2, <1>7 DEF Keyed
  <2> QED
    BY <2>1, KeyedIsSorted
<1>9. InputDocument(notes) = [k \in DOMAIN order |-> notes[order[k]]]
  <2>1. \A k : first(k) = second(k)
    BY <1>6
  <2> HIDE DEF order, first, second
  <2>2. order = [k \in 1..Cardinality(S) |-> first(k)]
    BY <1>12, <2>1
  <2> QED
    BY <1>5, <2>2
<1> HIDE DEF order
<1>10. InputDocument(notes) = [k \in 1..Cardinality(S) |-> notes[order[k]]]
  BY <1>8, <1>9
<1>11. \A k \in 1..Cardinality(S) : notes[order[k]] \in SourceNote
  BY <1>1, <1>8
<1> QED
  BY <1>8, <1>10, <1>11

-----------------------------------------------------------------------------
(* What is aligned.                                                        *)

AlignmentInv == source \in Seq(SourceNote) /\ outputs \in Seq(ScoreOutput)

LEMMA AlignmentInvInit == InputInit => AlignmentInv
BY DEF InputInit, AlignmentInv

LEMMA AlignmentInvStep ==
  ASSUME AlignmentInv, [InputNext]_inputVars
  PROVE  AlignmentInv'
<1>1. CASE AddNote
  <2>1. PICK note \in Notes : source' = Append(source, note)
    BY <1>1 DEF AddNote
  <2>2. source \in Seq(SourceNote) /\ note \in SourceNote
    BY AlignmentAssumption DEF AlignmentInv
  <2>3. outputs' = outputs
    BY <1>1 DEF AddNote
  <2> QED
    BY <2>1, <2>2, <2>3 DEF AlignmentInv
<1>2. CASE AddOutput
  <2>1. PICK output \in ScoreNotes : outputs' = Append(outputs, output)
    BY <1>2 DEF AddOutput
  <2>2. outputs \in Seq(ScoreOutput) /\ output \in ScoreOutput
    BY AlignmentAssumption DEF AlignmentInv
  <2>3. source' = source
    BY <1>2 DEF AddOutput
  <2> QED
    BY <2>1, <2>2, <2>3 DEF AlignmentInv
<1>3. ASSUME source' = source, outputs' = outputs PROVE AlignmentInv'
  BY <1>3 DEF AlignmentInv
<1>4. CASE AddEvent \/ AddMeasure \/ ChoosePitch \/ Play \/ Send
  BY <1>3, <1>4 DEF AddEvent, AddMeasure, ChoosePitch, Play, Send
<1>5. CASE AskRange \/ Ask \/ Hear \/ OpenDirectory \/ OpenScore
  BY <1>3, <1>5 DEF AskRange, Ask, Hear, OpenDirectory, OpenScore
<1>6. CASE UNCHANGED inputVars
  BY <1>3, <1>6 DEF inputVars
<1> QED
  BY <1>1, <1>2, <1>4, <1>5, <1>6 DEF InputNext

LEMMA AlignmentKeeps == AlignmentInv => AlignmentHolds
<1> SUFFICES ASSUME AlignmentInv PROVE AlignmentHolds
  OBVIOUS
<1> DEFINE document == InputDocument(source)
           notes == SourceOrder(document)
           scored == ScoreOrder(outputs)
           rows == Rows(document, outputs)
           spot(o) == CHOOSE k \in DOMAIN scored : scored[k] = o
           read == {<<k, spot(rows[notes[k]].output)>> :
                      k \in {l \in DOMAIN notes : rows[notes[l]].status = "mapped"}}
<1>1. document \in Seq(SourceNote) /\ outputs \in Seq(ScoreOutput)
  BY DocumentIs DEF AlignmentInv
<1> HIDE DEF document
<1>2. Valid(document, outputs, rows)
  BY <1>1, RowsAreValid
<1>3. read = PairsOf(document, outputs)
  BY <1>1, RowsSayPairs
<1>4. Optimal(PairsOf(document, outputs), NotePitches(document), ScorePitches(outputs))
  BY <1>1, PairsOfAre
<1> HIDE DEF read, rows
<1>5. Optimal(read, [k \in DOMAIN notes |-> document[notes[k]].pitch],
              [k \in DOMAIN scored |-> outputs[scored[k]].pitch])
  BY <1>3, <1>4 DEF NotePitches, ScorePitches
<1> QED
  BY <1>2, <1>5 DEF AlignmentHolds, read, rows, document

\* The alignment pairs as many notes with the score as can be without crossing,
\* and as near to each other as can be, for recordings and scores of any length;
\* and the server accepts the document (midi2score_adapter.py,
\* _monotonic_exact_pitch_pairs, _alignment_rows; score_alignment.py,
\* validate_score_alignment).
THEOREM AlignmentIsBest == InputSpec => []AlignmentHolds
<1>1. InputInit => AlignmentInv
  BY AlignmentInvInit
<1>2. AlignmentInv /\ [InputNext]_inputVars => AlignmentInv'
  BY AlignmentInvStep
<1>3. AlignmentInv => AlignmentHolds
  BY AlignmentKeeps
<1> QED
  BY <1>1, <1>2, <1>3, PTL DEF InputSpec

========================================================================
