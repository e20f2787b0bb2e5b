-------------------------- MODULE CommitLaneProofs --------------------------
(***************************************************************************)
(* The commit lane and the preview lane, proved for every buffer, hop, guard *)
(* and context CommitTimingAssumption allows and for any finite set of notes *)
(* BoundsAssumption allows: the scheduler (no audio falls between two      *)
(* decodes, and the commit horizon keeps its guard), the events the lanes  *)
(* leave in the store, and that what has been decided stands.              *)
(***************************************************************************)
EXTENDS CommitLane, TLAPS, FiniteSetTheorems, WellFoundedInduction

Finalized == commitOut.final \/ commitDone

\* Where the next decode stands with respect to the last band.
NextDecodeDue ==
    \/ commitSample = 0 /\ nextDecode = MinContext
    \/ /\ commitSample + Guard <= head
       /\ commitSample + Guard + BaseHop <= nextDecode
       /\ nextDecode <= commitSample + Guard + MaxHop

SchedulerInv ==
    /\ SchedulerTypes
    /\ BaseHop <= hop /\ hop <= MaxHop
    /\ BandsWithinContext
    /\ commitHorizon <= commitSample /\ commitSample <= head
    /\ commitOut.final \in BOOLEAN
    /\ commitOut = NoUpdate \/ commitOut.horizon = commitSample
    /\ ~Finalized => NextDecodeDue
    /\ Finalized => stopped /\ commitSample = head
    /\ commitDone => commitHorizon = head /\ commitOut = NoUpdate

\* What a decode does to the scheduler, whatever the model hears.
LEMMA DecodeOutcome ==
    ASSUME NEW decodeHead, NEW final, Decode(decodeHead, final)
    PROVE  /\ commitSample' = BandEnd(decodeHead, final)
           /\ lastDecode' = [start |-> SourceStart(decodeHead), stop |-> decodeHead,
                             from |-> commitSample, upto |-> BandEnd(decodeHead, final)]
           /\ commitOut'.horizon = BandEnd(decodeHead, final)
           /\ commitOut'.final = final
<1> DEFINE band == [from |-> commitSample, upto |-> BandEnd(decodeHead, final)]
<1>1. PICK obs : Decide(obs, band, SourceStart(decodeHead), final)
  BY DEF Decode
<1>2. PICK rows : commitOut' = [rows |-> rows, horizon |-> band.upto, final |-> final]
  BY <1>1, Zenon DEF Decide
<1>3. commitOut'.horizon = BandEnd(decodeHead, final) /\ commitOut'.final = final
  BY <1>2
<1> QED BY <1>3 DEF Decode

LEMMA SchedulerInit == Init => SchedulerInv
<1> SUFFICES ASSUME Init PROVE SchedulerInv
  OBVIOUS
<1>1. SchedulerTypes
  BY CommitTimingAssumption DEF Init, SchedulerTypes
<1>2. BandsWithinContext
  BY DEF Init, BandsWithinContext
<1>3. BaseHop <= hop /\ hop <= MaxHop
  BY CommitTimingAssumption DEF Init
<1>4. commitOut.final = FALSE /\ commitOut = NoUpdate /\ ~Finalized
  BY DEF Init, NoUpdate, Finalized
<1>5. NextDecodeDue /\ ~commitDone /\ commitHorizon <= commitSample /\ commitSample <= head
  BY DEF Init, NextDecodeDue
<1> QED BY <1>1, <1>2, <1>3, <1>4, <1>5 DEF SchedulerInv, Finalized

LEMMA SchedulerStep == SchedulerInv /\ [Next]_vars => SchedulerInv'
<1> SUFFICES ASSUME SchedulerInv, [Next]_vars PROVE SchedulerInv'
  OBVIOUS
<1> USE CommitTimingAssumption
<1>t. /\ head \in Nat /\ nextDecode \in Nat /\ hop \in Nat
      /\ commitSample \in Nat /\ commitHorizon \in Nat
      /\ Guard \in Nat /\ Buffer \in Nat /\ BaseHop \in Nat /\ MaxHop \in Nat
      /\ MinContext \in Nat
  BY DEF SchedulerInv, SchedulerTypes
<1>0. NoUpdate.final = FALSE /\ NoUpdate.horizon = -1
  BY DEF NoUpdate, Open
<1>1. CASE AcceptPcm
  <2>1. ~Finalized /\ head' = head + 1
    BY <1>1 DEF AcceptPcm, SchedulerInv
  <2>2. UNCHANGED <<stopped, nextDecode, hop, commitSample, lastDecode, commitOut,
                    commitDone, commitHorizon>>
    BY <1>1 DEF AcceptPcm, commitVars
  <2>3. SchedulerTypes'
    BY <1>t, <2>1, <2>2 DEF SchedulerInv, SchedulerTypes
  <2>4. BandsWithinContext'
    BY <1>t, <2>1, <2>2 DEF SchedulerInv, SchedulerTypes, BandsWithinContext
  <2>5. NextDecodeDue'
    BY <1>t, <2>1, <2>2 DEF SchedulerInv, NextDecodeDue
  <2>6. ~Finalized'
    BY <2>1, <2>2 DEF Finalized
  <2>7. commitHorizon' <= commitSample' /\ commitSample' <= head'
    BY <1>t, <2>1, <2>2 DEF SchedulerInv
  <2> QED BY <2>1, <2>2, <2>3, <2>4, <2>5, <2>6, <2>7 DEF SchedulerInv, Finalized
<1>2. CASE BeginSettling
  <2>1. /\ stopped' = TRUE
        /\ UNCHANGED <<head, nextDecode, hop, commitSample, lastDecode, commitOut,
                       commitDone, commitHorizon>>
    BY <1>2 DEF BeginSettling, commitVars
  <2>2. SchedulerTypes' /\ BandsWithinContext'
    BY <2>1 DEF SchedulerInv, SchedulerTypes, BandsWithinContext
  <2>3. (NextDecodeDue' <=> NextDecodeDue) /\ (Finalized' <=> Finalized)
    BY <2>1 DEF NextDecodeDue, Finalized
  <2> QED BY <2>1, <2>2, <2>3 DEF SchedulerInv
<1>3. CASE CommitDecode
  <2>1. /\ head >= nextDecode /\ ~Finalized /\ NextDecodeDue
        /\ Decode(nextDecode, FALSE)
        /\ nextDecode' = nextDecode + hop'
        /\ UNCHANGED <<head, stopped, commitDone, commitHorizon>>
    BY <1>3, <1>0 DEF CommitDecode, SchedulerInv, Finalized, audioVars
  <2>2. hop' \in Nat /\ BaseHop <= hop' /\ hop' <= MaxHop
    BY <1>3, <1>t DEF CommitDecode, GrowHop, Smaller, SchedulerInv
  <2>3. BandEnd(nextDecode, FALSE) = nextDecode - Guard
        /\ commitSample <= nextDecode - Guard
    BY <2>1, <1>t DEF BandEnd, Larger, NextDecodeDue
  <2>4. SourceStart(nextDecode) \in Nat /\ SourceStart(nextDecode) <= commitSample
    BY <2>1, <1>t DEF SourceStart, Larger, NextDecodeDue
  <2>5. /\ commitSample' = nextDecode - Guard
        /\ lastDecode' = [start |-> SourceStart(nextDecode), stop |-> nextDecode,
                          from |-> commitSample, upto |-> nextDecode - Guard]
        /\ commitOut'.horizon = nextDecode - Guard
        /\ commitOut'.final = FALSE
    BY <2>1, <2>3, DecodeOutcome, Zenon
  <2>6. SchedulerTypes'
    <3>1. nextDecode - Guard \in Nat
      BY <2>3, <1>t
    <3>2. nextDecode' \in Nat
      <4>1. PICK h \in Nat : h = hop'
        BY <2>2
      <4>2. nextDecode + h \in Nat
        BY <1>t
      <4> QED BY <2>1, <4>1, <4>2, Zenon
    <3>3. lastDecode' \in [start : Nat, stop : Nat, from : Nat, upto : Nat]
      BY <3>1, <2>4, <2>5, <1>t
    <3> QED BY <3>1, <3>2, <3>3, <2>1, <2>2, <2>5, <1>t DEF SchedulerInv, SchedulerTypes
  <2>7. BandsWithinContext'
    BY <2>1, <2>3, <2>4, <2>5, <1>t DEF BandsWithinContext
  <2>8. NextDecodeDue'
    <3>1. commitSample' + Guard = nextDecode
      BY <2>5, <1>t
    <3>2. nextDecode' = nextDecode + hop' /\ head' = head /\ head >= nextDecode
      BY <2>1
    <3>3. commitSample' + Guard <= head'
      BY <3>1, <3>2, <1>t
    <3>4. /\ commitSample' + Guard + BaseHop <= nextDecode'
          /\ nextDecode' <= commitSample' + Guard + MaxHop
      BY <3>1, <3>2, <2>2, <1>t
    <3> QED BY <3>3, <3>4 DEF NextDecodeDue
  <2>9. commitHorizon' <= commitSample' /\ commitSample' <= head'
    BY <2>1, <2>3, <2>5, <1>t DEF SchedulerInv
  <2>10. ~Finalized' /\ ~commitDone'
    BY <2>1, <2>5 DEF Finalized
  <2> QED BY <2>2, <2>5, <2>6, <2>7, <2>8, <2>9, <2>10 DEF SchedulerInv
<1>4. CASE CommitFinalize
  <2>1. /\ head < nextDecode /\ ~Finalized /\ NextDecodeDue /\ stopped
        /\ Decode(head, TRUE)
        /\ UNCHANGED <<head, stopped, hop, nextDecode, commitDone, commitHorizon>>
    BY <1>4, <1>0 DEF CommitFinalize, SchedulerInv, Finalized, audioVars
  <2>2. SourceStart(head) \in Nat /\ SourceStart(head) <= commitSample
    BY <2>1, <1>t DEF SourceStart, Larger, NextDecodeDue
  <2>3. BandEnd(head, TRUE) = head
    BY DEF BandEnd
  <2>4. /\ commitSample' = head
        /\ lastDecode' = [start |-> SourceStart(head), stop |-> head,
                          from |-> commitSample, upto |-> head]
        /\ commitOut'.horizon = head
        /\ commitOut'.final = TRUE
    BY <2>1, <2>3, DecodeOutcome, Zenon
  <2>5. SchedulerTypes'
    BY <2>1, <2>2, <2>4, <1>t DEF SchedulerInv, SchedulerTypes
  <2>6. BandsWithinContext'
    BY <2>1, <2>2, <2>4, <1>t DEF BandsWithinContext, SchedulerInv
  <2>7. commitHorizon' <= commitSample' /\ commitSample' <= head'
    BY <2>1, <2>4, <1>t DEF SchedulerInv
  <2>8. Finalized' /\ ~commitDone'
    BY <2>1, <2>4 DEF Finalized
  <2> QED BY <2>1, <2>4, <2>5, <2>6, <2>7, <2>8 DEF SchedulerInv
<1>5. CASE ApplyCommit
  <2>1. /\ commitHorizon' = commitOut.horizon /\ commitDone' = commitOut.final
        /\ commitOut' = NoUpdate /\ commitOut # NoUpdate
        /\ UNCHANGED <<head, stopped, nextDecode, hop, commitSample, lastDecode>>
    BY <1>5 DEF ApplyCommit, audioVars
  <2>2. commitHorizon' = commitSample /\ ~commitDone
    BY <2>1 DEF SchedulerInv
  <2>3. commitOut'.final = FALSE /\ (Finalized' <=> commitDone') /\ (Finalized' <=> Finalized)
    BY <2>1, <2>2, <1>0 DEF Finalized, SchedulerInv
  <2>4. SchedulerTypes'
    BY <2>1, <2>2, <1>t DEF SchedulerInv, SchedulerTypes
  <2>5. BandsWithinContext' /\ (NextDecodeDue' <=> NextDecodeDue)
    BY <2>1 DEF SchedulerInv, BandsWithinContext, NextDecodeDue
  <2>6. commitHorizon' <= commitSample' /\ commitSample' <= head'
    BY <2>1, <2>2, <1>t DEF SchedulerInv
  <2>7. commitDone' => commitHorizon' = head' /\ commitOut' = NoUpdate
    BY <2>1, <2>2, <2>3 DEF SchedulerInv
  <2>8. Finalized' => stopped' /\ commitSample' = head'
    BY <2>1, <2>3 DEF SchedulerInv
  <2> QED BY <2>1, <2>3, <2>4, <2>5, <2>6, <2>7, <2>8 DEF SchedulerInv
<1>6. CASE \/ PreviewWindow \/ ApplyPreview \/ PreviewFinalize \/ UNCHANGED vars
  <2>1. UNCHANGED <<head, stopped, nextDecode, hop, commitSample, lastDecode,
                    commitOut, commitDone, commitHorizon>>
    BY <1>6 DEF PreviewWindow, ApplyPreview, PreviewFinalize, vars, audioVars, commitVars
  <2>2. SchedulerTypes' /\ BandsWithinContext'
    BY <2>1 DEF SchedulerInv, SchedulerTypes, BandsWithinContext
  <2>3. (NextDecodeDue' <=> NextDecodeDue) /\ (Finalized' <=> Finalized)
    BY <2>1 DEF NextDecodeDue, Finalized
  <2> QED BY <2>1, <2>2, <2>3 DEF SchedulerInv
<1> QED BY <1>1, <1>2, <1>3, <1>4, <1>5, <1>6 DEF Next

LEMMA SchedulerInvariant == Spec => []SchedulerInv
BY SchedulerInit, SchedulerStep, PTL DEF Spec

\* The band each decode settles lies inside the audio it decoded, for every
\* growth of the hop CorrectedCommitLane allows.
THEOREM NoAudioBetweenDecodes == Spec => []BandsWithinContext
<1>1. SchedulerInv => BandsWithinContext
  BY DEF SchedulerInv
<1> QED BY <1>1, SchedulerInvariant, PTL

\* The commit horizon stays Guard frames behind the audio until the lane
\* finishes, and then covers all of it.
THEOREM HorizonKeepsGuard == Spec => []HorizonGuarded
<1>1. SchedulerInv => HorizonGuarded
  <2> SUFFICES ASSUME SchedulerInv PROVE HorizonGuarded
    OBVIOUS
  <2>1. ~Finalized => commitSample = 0 \/ commitSample + Guard <= head
    BY DEF SchedulerInv, NextDecodeDue
  <2>2. commitSample > 0 /\ commitSample + Guard > head => Finalized
    BY <2>1, CommitTimingAssumption DEF SchedulerInv, SchedulerTypes
  <2> QED BY <2>2 DEF SchedulerInv, HorizonGuarded, Finalized
<1> QED BY <1>1, SchedulerInvariant, PTL

\* The published horizon never moves back (advance_commit never raises).
THEOREM CommitHorizonAdvances == Spec => [][commitHorizon <= commitHorizon']_vars
<1>1. SchedulerInv /\ [Next]_vars => [commitHorizon <= commitHorizon']_vars
  <2> SUFFICES ASSUME SchedulerInv, Next PROVE commitHorizon <= commitHorizon'
    OBVIOUS
  <2>1. CASE ApplyCommit
    BY <2>1 DEF ApplyCommit, SchedulerInv
  <2>2. CASE ~ApplyCommit
    <3>1. commitHorizon' = commitHorizon
      BY <2>2 DEF Next, AcceptPcm, BeginSettling, CommitDecode, CommitFinalize,
                  PreviewWindow, ApplyPreview, PreviewFinalize
    <3> QED BY <3>1 DEF SchedulerInv, SchedulerTypes
  <2> QED BY <2>1, <2>2
<1> QED BY <1>1, SchedulerInvariant, PTL DEF Spec

-----------------------------------------------------------------------------
(* What the operators of the lanes return.                                 *)

Lanes == {"none", "preview", "commit"}
Lifecycles == {"none", "provisional", "committed", "retracted"}
Events == [rev : Nat, lane : Lanes, lifecycle : Lifecycles, pitch : Nat, onset : Nat,
           offset : Nat \cup {Open}]
EventRows == [id : Ids, rev : Nat, lane : Lanes, lifecycle : Lifecycles, pitch : Nat,
              onset : Nat, offset : Nat \cup {Open}]
Notes == [pitch : Nat, onset : Nat, offset : Nat]

\* The least of a set of numbers, which stands for induction.
LEMMA LeastNumber ==
  ASSUME NEW T, T \subseteq Nat, T # {}
  PROVE  \E x \in T : \A y \in T : x <= y
<1>1. PICK x \in T : \A y \in T : ~ (<<y, x>> \in OpToRel(<, Nat))
  BY NatLessThanWellFounded, WFMin
<1>2. \A y \in T : <<y, x>> \in OpToRel(<, Nat) <=> y < x
  BY DEF OpToRel
<1>3. \A y \in T : x \in Nat /\ y \in Nat /\ ~ (y < x)
  BY <1>1, <1>2
<1> QED
  BY <1>3

LEMMA FiniteValues ==
  ASSUME NEW S, IsFiniteSet(S), NEW f, NEW T, T = {f[x] : x \in S}
  PROVE  IsFiniteSet(T)
<1> DEFINE g == [x \in S |-> f[x]]
<1>1. g \in Surjection(S, T)
  BY DEF Surjection
<1> HIDE DEF g
<1> QED
  BY <1>1, FS_Surjection

LEMMA MatchingIsOneToOne ==
  ASSUME NEW lefts, NEW rights, NEW matches \in Matchings(lefts, rights)
  PROVE  /\ \A m \in matches :
               /\ m = <<m[1], m[2]>> /\ m[1] \in lefts /\ m[2] \in rights
               /\ m[1].pitch = m[2].pitch /\ Distance(m[1].onset, m[2].onset) <= MatchFrames
         /\ \A m, n \in matches : m[1] = n[1] \/ m[2] = n[2] => m = n
         /\ Lefts(matches) \subseteq lefts /\ Rights(matches) \subseteq rights
<1>1. matches \subseteq Pairs(lefts, rights)
  BY DEF Matchings
<1>2. \A m \in matches :
         /\ m = <<m[1], m[2]>> /\ m[1] \in lefts /\ m[2] \in rights
         /\ m[1].pitch = m[2].pitch /\ Distance(m[1].onset, m[2].onset) <= MatchFrames
  BY <1>1 DEF Pairs
<1>3. \A m, n \in matches : m[1] = n[1] \/ m[2] = n[2] => m = n
  BY DEF Matchings
<1> QED
  BY <1>2, <1>3 DEF Lefts, Rights

LEMMA MatchingIsFinite ==
  ASSUME NEW lefts, NEW rights, IsFiniteSet(lefts), NEW matches \in Matchings(lefts, rights)
  PROVE  IsFiniteSet(matches)
<1> DEFINE f == [m \in matches |-> m[1]]
<1>1. f \in Injection(matches, lefts)
  BY MatchingIsOneToOne DEF Injection, IsInjective
<1> HIDE DEF f
<1> QED
  BY <1>1, FS_Injection

LEMMA HeardNote ==
  ASSUME NEW n \in [pitch : Nat, onset : Nat, offset : Nat, jitter : Nat],
         NEW from \in Nat, NEW limit \in Nat, NEW j \in -n.jitter..n.jitter,
         NEW o, o = [pitch |-> n.pitch, onset |-> n.onset + j, offset |-> Smaller(n.offset, limit)],
         from <= o.onset
  PROVE  o \in Notes
<1>1. o.onset \in Nat
  <2>1. o.onset = n.onset + j /\ n.onset \in Nat /\ j \in Int
    OBVIOUS
  <2> QED
    BY <2>1
<1>2. o.offset \in Nat
  BY DEF Smaller
<1> QED
  BY <1>1, <1>2 DEF Notes

\* What a model reports: finitely many notes of the window.
LEMMA ObservationsAreNotes ==
  ASSUME BoundsAssumption, NEW notes \in SUBSET (Played \cup Imagined), NEW from \in Nat,
         NEW upto \in Nat, NEW padding \in Nat, NEW obs \in Observations(notes, from, upto, padding)
  PROVE  /\ IsFiniteSet(obs) /\ obs \subseteq Notes
         /\ \A o \in obs : from <= o.onset /\ o.onset < upto /\ o.onset < o.offset
<1> DEFINE Heard(n) == {[pitch |-> n.pitch, onset |-> n.onset + j,
                         offset |-> Smaller(n.offset, upto + padding)] : j \in -n.jitter..n.jitter}
           InWindow(o) == from <= o.onset /\ o.onset < upto /\ o.onset < o.offset
           hearings == UNION {Heard(n) : n \in notes}
<1>1. PICK some \in SUBSET notes : obs \in {Range(f) : f \in
              {f \in [some -> {o \in hearings : InWindow(o)}] : \A n \in some : f[n] \in Heard(n)}}
  BY DEF Observations
<1>2. PICK f \in [some -> {o \in hearings : InWindow(o)}] : obs = Range(f)
  BY <1>1
<1>3. IsFiniteSet(some)
  BY FS_Union, FS_Subset DEF BoundsAssumption
<1>4. obs = {f[x] : x \in some}
  BY <1>2 DEF Range
<1>5. IsFiniteSet(obs)
  BY <1>3, <1>4, FiniteValues
<1>6. ASSUME NEW o \in obs PROVE o \in Notes /\ InWindow(o)
  <2>1. o \in hearings /\ InWindow(o)
    BY <1>2, <1>4
  <2>2. PICK n \in notes : o \in Heard(n)
    BY <2>1
  <2>3. PICK j \in -n.jitter..n.jitter :
           o = [pitch |-> n.pitch, onset |-> n.onset + j, offset |-> Smaller(n.offset, upto + padding)]
    BY <2>2
  <2>4. n \in [pitch : Nat, onset : Nat, offset : Nat, jitter : Nat] /\ upto + padding \in Nat
    BY DEF BoundsAssumption
  <2> QED
    BY <2>1, <2>3, <2>4, HeardNote
<1> QED
  BY <1>5, <1>6

\* A set laid out as a sequence.
LEMMA SequenceOfSet ==
  ASSUME NEW S, IsFiniteSet(S), NEW n, n = Cardinality(S)
  PROVE  /\ n \in Nat
         /\ SetToSeq(S) \in [1..n -> S]
         /\ \A i, j \in 1..n : SetToSeq(S)[i] = SetToSeq(S)[j] => i = j
         /\ \A x \in S : \E i \in 1..n : SetToSeq(S)[i] = x
<1> DEFINE s == SetToSeq(S)
<1>1. n \in Nat /\ ExistsBijection(1..n, S)
  BY FS_CardinalityType
<1>2. PICK f : f \in Bijection(1..n, S)
  BY <1>1 DEF ExistsBijection
<1>3. \E g \in [1..n -> S] : IsInjective(g)
  BY <1>2 DEF Bijection, Injection
<1>4. s \in [1..n -> S] /\ IsInjective(s)
  BY <1>3 DEF SetToSeq
<1> HIDE DEF s
<1>5. s \in Injection(1..n, S)
  BY <1>4 DEF Injection
<1>6. Cardinality(1..n) = Cardinality(S)
  BY <1>1, FS_Interval
<1>7. s \in Surjection(1..n, S)
  BY <1>5, <1>6, FS_Injection
<1>8. /\ \A i, j \in 1..n : s[i] = s[j] => i = j
      /\ \A x \in S : \E i \in 1..n : s[i] = x
  BY <1>4, <1>7 DEF IsInjective, Surjection
<1> QED
  BY <1>1, <1>4, <1>8 DEF s

\* New identities are the next ones, one for each note.
LEMMA NewIdsAreNext ==
  ASSUME NEW notes, IsFiniteSet(notes), nextId \in Nat, NEW count, count = Cardinality(notes)
  PROVE  /\ count \in Nat
         /\ \A n \in notes : NewIds(notes)[n] \in nextId..(nextId + count - 1)
         /\ \A n, o \in notes : NewIds(notes)[n] = NewIds(notes)[o] => n = o
         /\ \A k \in nextId..(nextId + count - 1) : \E n \in notes : NewIds(notes)[n] = k
<1> DEFINE s == SetToSeq(notes)
           at(n) == CHOOSE i \in DOMAIN s : s[i] = n
<1>1. /\ count \in Nat /\ s \in [1..count -> notes]
      /\ \A i, j \in 1..count : s[i] = s[j] => i = j
      /\ \A x \in notes : \E i \in 1..count : s[i] = x
  BY SequenceOfSet
<1>2. \A n \in notes : NewIds(notes)[n] = nextId - 1 + at(n)
  BY DEF NewIds
<1> HIDE DEF s
<1>3. \A n \in notes : at(n) \in 1..count /\ s[at(n)] = n
  BY <1>1
<1>4. \A i \in 1..count : s[i] \in notes /\ at(s[i]) = i
  BY <1>1, <1>3
<1> HIDE DEF at
<1>5. ASSUME NEW n \in notes PROVE NewIds(notes)[n] \in nextId..(nextId + count - 1)
  <2>1. PICK k \in 1..count : k = at(n)
    BY <1>3
  <2> QED
    BY <1>1, <1>2, <2>1
<1>6. ASSUME NEW n \in notes, NEW o \in notes, NewIds(notes)[n] = NewIds(notes)[o] PROVE n = o
  <2>1. PICK k \in 1..count : k = at(n)
    BY <1>3
  <2>2. PICK l \in 1..count : l = at(o)
    BY <1>3
  <2>3. k = l
    BY <1>1, <1>2, <1>6, <2>1, <2>2
  <2> QED
    BY <1>3, <2>1, <2>2, <2>3
<1>7. ASSUME NEW k \in nextId..(nextId + count - 1) PROVE \E n \in notes : NewIds(notes)[n] = k
  <2>1. PICK i \in 1..count : k = nextId - 1 + i
    <3>1. k + 1 - nextId \in 1..count /\ k = nextId - 1 + (k + 1 - nextId)
      BY <1>1
    <3> QED
      BY <3>1
  <2> QED
    BY <1>2, <1>4, <2>1
<1> QED
  BY <1>1, <1>5, <1>6, <1>7

\* The store shows a row: all it says but the revision asked for.
Shows(event, row) ==
    /\ event.lane = row.lane /\ event.lifecycle = row.lifecycle
    /\ event.pitch = row.pitch /\ event.onset = row.onset /\ event.offset = row.offset

\* A row always becomes the latest revision of its event, and of no other.
LEMMA MaterializeShows ==
  ASSUME NEW events \in [Ids -> Events], NEW row \in EventRows
  PROVE  /\ Materialize(events, row) \in [Ids -> Events]
         /\ Shows(Materialize(events, row)[row.id], row)
         /\ \A e \in Ids : e # row.id => Materialize(events, row)[e] = events[e]
<1> DEFINE rev == Revision(events[row.id].rev, row.rev)
           new == [rev |-> rev, lane |-> row.lane, lifecycle |-> row.lifecycle,
                   pitch |-> row.pitch, onset |-> row.onset, offset |-> row.offset]
<1>1. row.id \in Ids /\ row.rev \in Nat /\ events[row.id].rev \in Nat
  BY DEF EventRows, Events
<1>2. rev \in Nat /\ rev > events[row.id].rev
  BY <1>1 DEF Revision, Larger
<1>3. new \in Events /\ Shows(new, row)
  BY <1>2 DEF Events, EventRows, Shows
<1>4. Materialize(events, row) = [events EXCEPT ![row.id] = new]
  BY <1>2 DEF Materialize
<1> HIDE DEF new
<1> QED
  BY <1>1, <1>3, <1>4

\* The store after each of the first m rows.
Applied(rows, f, m) ==
    f = [i \in 0..m |-> IF i = 0 THEN store ELSE Materialize(f[i - 1], rows[i])]

LEMMA AppliedSteps ==
  ASSUME NEW rows, NEW m \in Nat, NEW f, Applied(rows, f, m)
  PROVE  f[0] = store /\ \A i \in 1..m : f[i] = Materialize(f[i - 1], rows[i])
<1>1. f = [i \in 0..m |-> IF i = 0 THEN store ELSE Materialize(f[i - 1], rows[i])]
  BY DEF Applied
<1>2. 0 \in 0..m
  OBVIOUS
<1>3. \A i \in 1..m : i \in 0..m /\ i # 0
  OBVIOUS
<1> QED
  BY <1>1, <1>2, <1>3, Zenon

LEMMA AppliedExists ==
  ASSUME NEW rows, NEW n \in Nat
  PROVE  \E f : Applied(rows, f, n)
<1> DEFINE bad == {m \in Nat : ~ \E f : Applied(rows, f, m)}
<1>1. SUFFICES ASSUME bad # {} PROVE FALSE
  BY <1>1
<1>2. PICK m \in bad : \A y \in bad : m <= y
  <2>1. bad \subseteq Nat
    OBVIOUS
  <2> HIDE DEF bad
  <2> QED
    BY <1>1, <2>1, LeastNumber
<1>3. m \in Nat /\ ~ \E f : Applied(rows, f, m)
  BY <1>2
<1>4. m # 0
  <2>1. Applied(rows, [i \in 0..0 |-> store], 0)
    BY DEF Applied
  <2> QED
    BY <1>3, <2>1
<1>5. PICK f : Applied(rows, f, m - 1)
  <2>1. m - 1 \in Nat /\ ~ (m <= m - 1)
    BY <1>3, <1>4
  <2> QED
    BY <1>2, <2>1
<1> DEFINE g == [i \in 0..m |-> IF i < m THEN f[i] ELSE Materialize(f[m - 1], rows[m])]
<1>6. f[0] = store /\ \A i \in 1..(m - 1) : f[i] = Materialize(f[i - 1], rows[i])
  <2>1. m - 1 \in Nat
    BY <1>3, <1>4
  <2> QED
    BY <1>5, <2>1, AppliedSteps
<1>7. ASSUME NEW i \in 0..m
      PROVE  g[i] = IF i = 0 THEN store ELSE Materialize(g[i - 1], rows[i])
  <2>1. CASE i = 0
    BY <1>3, <1>4, <1>6, <2>1
  <2>2. CASE i # 0
    <3>1. i - 1 \in 0..m /\ i - 1 < m
      BY <1>3, <2>2
    <3>2. g[i - 1] = f[i - 1]
      BY <3>1
    <3>3. g[i] = Materialize(f[i - 1], rows[i])
      <4>1. CASE i < m
        <5>1. i \in 1..(m - 1) /\ g[i] = f[i]
          BY <1>3, <2>2, <4>1
        <5> QED
          BY <1>6, <5>1
      <4>2. CASE i = m
        BY <4>2
      <4> QED
        BY <1>3, <4>1, <4>2
    <3> QED
      BY <2>2, <3>2, <3>3
  <2> QED
    BY <2>1, <2>2
<1>8. Applied(rows, g, m)
  <2>1. g = [i \in 0..m |-> IF i = 0 THEN store ELSE Materialize(g[i - 1], rows[i])]
    <3>1. g = [i \in 0..m |-> g[i]]
      OBVIOUS
    <3> HIDE DEF g
    <3> QED
      BY <1>7, <3>1
  <2> HIDE DEF g
  <2> QED
    BY <2>1 DEF Applied
<1> QED
  BY <1>3, <1>8

LEMMA AppendedIsApplied ==
  ASSUME NEW rows, Len(rows) \in Nat
  PROVE  \E f : Applied(rows, f, Len(rows)) /\ Appended(rows) = f[Len(rows)]
<1> DEFINE Rule(f) == f = [i \in 0..Len(rows) |-> IF i = 0 THEN store ELSE Materialize(f[i - 1], rows[i])]
<1>1. PICK g : Rule(g)
  BY AppliedExists DEF Applied
<1>2. Rule(CHOOSE f : Rule(f))
  BY <1>1
<1>3. Appended(rows) = (CHOOSE f : Rule(f))[Len(rows)]
  BY DEF Appended
<1> QED
  BY <1>2, <1>3 DEF Applied

\* What appending a batch does: an event it does not name is left alone; of one
\* it names, the store shows the last of its rows.
LEMMA AppendedShows ==
  ASSUME store \in [Ids -> Events], NEW rows \in Seq(EventRows)
  PROVE  /\ Appended(rows) \in [Ids -> Events]
         /\ \A e \in Ids : (\A i \in 1..Len(rows) : rows[i].id # e) => Appended(rows)[e] = store[e]
         /\ \A i \in 1..Len(rows) : (\A j \in 1..Len(rows) : j > i => rows[j].id # rows[i].id)
               => Shows(Appended(rows)[rows[i].id], rows[i])
<1> DEFINE n == Len(rows)
<1>1. n \in Nat /\ \A i \in 1..n : rows[i] \in EventRows /\ rows[i].id \in Ids
  <2>1. n \in Nat /\ \A i \in 1..n : rows[i] \in EventRows
    OBVIOUS
  <2> QED
    BY <2>1 DEF EventRows
<1>2. PICK f : Applied(rows, f, n) /\ Appended(rows) = f[n]
  BY <1>1, AppendedIsApplied
<1>3. f[0] = store /\ \A i \in 1..n : f[i] = Materialize(f[i - 1], rows[i])
  BY <1>1, <1>2, AppliedSteps
<1> HIDE DEF n
<1> DEFINE Left(m) == \A e \in Ids : (\A i \in 1..m : rows[i].id # e) => f[m][e] = store[e]
           FinalRow(m) == \A i \in 1..m : (\A j \in 1..m : j > i => rows[j].id # rows[i].id)
                                          => Shows(f[m][rows[i].id], rows[i])
           Good(m) == f[m] \in [Ids -> Events] /\ Left(m) /\ FinalRow(m)
           bad == {m \in 0..n : ~ Good(m)}
<1>4. bad = {}
  <2> SUFFICES ASSUME bad # {} PROVE FALSE
    OBVIOUS
  <2>1. PICK m \in bad : \A y \in bad : m <= y
    <3>1. bad \subseteq Nat
      BY <1>1
    <3> HIDE DEF bad
    <3> QED
      BY <3>1, LeastNumber
  <2>2. m \in 0..n /\ ~ Good(m)
    BY <2>1
  <2>3. m # 0
    <3>1. Good(0)
      BY <1>3
    <3> HIDE DEF Good
    <3> QED
      BY <2>2, <3>1
  <2>4. m \in 1..n /\ m - 1 \in 0..n /\ ~ (m <= m - 1)
    BY <1>1, <2>2, <2>3
  <2>5. Good(m - 1)
    <3> HIDE DEF Good
    <3> QED
      BY <2>1, <2>4
  <2> HIDE DEF bad
  <2> DEFINE row == rows[m]
  <2>6. row \in EventRows /\ row.id \in Ids
    BY <1>1, <2>4
  <2>7. f[m] = Materialize(f[m - 1], row)
    BY <1>3, <2>4
  <2>8. /\ f[m] \in [Ids -> Events] /\ Shows(f[m][row.id], row)
        /\ \A e \in Ids : e # row.id => f[m][e] = f[m - 1][e]
    <3>1. f[m - 1] \in [Ids -> Events]
      BY <2>5
    <3> QED
      BY <2>6, <2>7, <3>1, MaterializeShows
  <2>9. \A i \in 1..m : i = m \/ i \in 1..(m - 1)
    BY <1>1, <2>4
  <2>10. 1..(m - 1) \subseteq 1..m /\ m \in 1..m
    BY <1>1, <2>4
  <2>11. Left(m)
    <3> SUFFICES ASSUME NEW e \in Ids, \A i \in 1..m : rows[i].id # e PROVE f[m][e] = store[e]
      OBVIOUS
    <3>1. e # row.id /\ \A i \in 1..(m - 1) : rows[i].id # e
      BY <2>10
    <3> QED
      BY <2>5, <2>8, <3>1
  <2>12. FinalRow(m)
    <3> SUFFICES ASSUME NEW i \in 1..m, \A j \in 1..m : j > i => rows[j].id # rows[i].id
                 PROVE  Shows(f[m][rows[i].id], rows[i])
      OBVIOUS
    <3>1. CASE i = m
      BY <2>8, <3>1
    <3>2. CASE i # m
      <4>1. i \in 1..(m - 1) /\ m > i
        BY <1>1, <2>4, <2>9, <3>2
      <4>2. rows[i].id # row.id /\ rows[i].id \in Ids
        <5>1. i \in 1..n
          BY <1>1, <2>4, <4>1
        <5> QED
          BY <1>1, <2>10, <4>1, <5>1
      <4>3. \A j \in 1..(m - 1) : j > i => rows[j].id # rows[i].id
        BY <2>10
      <4>4. Shows(f[m - 1][rows[i].id], rows[i])
        BY <2>5, <4>1, <4>3
      <4> QED
        BY <2>8, <4>2, <4>4
    <3> QED
      BY <3>1, <3>2
  <2> QED
    BY <2>2, <2>8, <2>11, <2>12
<1>5. Good(n)
  <2>1. n \in 0..n
    BY <1>1
  <2> HIDE DEF Good
  <2> QED
    BY <1>4, <2>1
<1> QED
  BY <1>2, <1>5 DEF n

\* The rows of a batch, whatever their order.
RowsOf(rows) == {rows[i] : i \in DOMAIN rows}

LEMMA LastOfBatch ==
  ASSUME NEW n \in Nat, NEW T, T \subseteq 1..n, T # {}
  PROVE  \E i \in T : \A j \in T : j <= i
<1> DEFINE above == {k \in Nat : \A t \in T : t <= k}
<1>1. n \in above
  OBVIOUS
<1>2. PICK k \in above : \A y \in above : k <= y
  <2>1. above \subseteq Nat
    OBVIOUS
  <2> HIDE DEF above
  <2> QED
    BY <1>1, <2>1, LeastNumber
<1>3. k \in T
  <2> SUFFICES ASSUME k \notin T PROVE FALSE
    OBVIOUS
  <2>1. k - 1 \in Nat /\ ~ (k <= k - 1)
    <3>1. PICK t \in T : TRUE
      OBVIOUS
    <3>2. t \in Nat /\ 1 <= t /\ t <= k /\ k \in Nat
      BY <1>2
    <3> QED
      BY <3>2
  <2>2. \A t \in T : t <= k - 1
    BY <1>2
  <2> QED
    BY <1>2, <2>1, <2>2
<1> QED
  BY <1>2, <1>3

LEMMA AppendedIs ==
  ASSUME store \in [Ids -> Events], NEW rows \in Seq(EventRows)
  PROVE  /\ Appended(rows) \in [Ids -> Events]
         /\ \A e \in Ids : \/ /\ \A r \in RowsOf(rows) : r.id # e
                              /\ Appended(rows)[e] = store[e]
                           \/ \E r \in RowsOf(rows) : r.id = e /\ Shows(Appended(rows)[e], r)
<1> DEFINE n == Len(rows)
<1>1. n \in Nat /\ RowsOf(rows) = {rows[i] : i \in 1..n}
  BY DEF RowsOf
<1>2. /\ Appended(rows) \in [Ids -> Events]
      /\ \A e \in Ids : (\A i \in 1..n : rows[i].id # e) => Appended(rows)[e] = store[e]
      /\ \A i \in 1..n : (\A j \in 1..n : j > i => rows[j].id # rows[i].id)
               => Shows(Appended(rows)[rows[i].id], rows[i])
  BY AppendedShows
<1> HIDE DEF n
<1>3. ASSUME NEW e \in Ids, NEW i \in 1..n, rows[i].id = e
      PROVE  \E r \in RowsOf(rows) : r.id = e /\ Shows(Appended(rows)[e], r)
  <2> DEFINE T == {k \in 1..n : rows[k].id = e}
  <2>1. PICK k \in T : \A j \in T : j <= k
    <3>1. T \subseteq 1..n /\ T # {}
      BY <1>3
    <3> HIDE DEF T
    <3> QED
      BY <1>1, <3>1, LastOfBatch
  <2>2. \A j \in 1..n : j > k => rows[j].id # rows[k].id
    <3>1. \A j \in 1..n : rows[j].id = rows[k].id => j <= k
      BY <2>1
    <3>2. k \in 1..n
      OBVIOUS
    <3> QED
      BY <1>1, <3>1, <3>2
  <2> QED
    BY <1>1, <1>2, <2>1, <2>2
<1> QED
  BY <1>1, <1>2, <1>3

LEMMA RowsOfSet ==
  ASSUME NEW S, IsFiniteSet(S)
  PROVE  Rows(S) \in Seq(S) /\ RowsOf(Rows(S)) = S
<1> DEFINE n == Cardinality(S)
<1>1. /\ n \in Nat /\ Rows(S) \in [1..n -> S]
      /\ \A x \in S : \E i \in 1..n : Rows(S)[i] = x
  BY SequenceOfSet DEF Rows
<1> HIDE DEF n
<1> QED
  BY <1>1 DEF RowsOf

LEMMA RowsOfTwo ==
  ASSUME NEW S, NEW T, NEW U, IsFiniteSet(S), IsFiniteSet(T), S \subseteq U, T \subseteq U
  PROVE  Rows(S) \o Rows(T) \in Seq(U) /\ RowsOf(Rows(S) \o Rows(T)) = S \cup T
<1>1. PICK s \in Seq(U) : s = Rows(S) /\ RowsOf(s) = S
  <2>1. Rows(S) \in Seq(U)
    BY RowsOfSet
  <2> QED
    BY <2>1, RowsOfSet
<1>2. PICK t \in Seq(U) : t = Rows(T) /\ RowsOf(t) = T
  <2>1. Rows(T) \in Seq(U)
    BY RowsOfSet
  <2> QED
    BY <2>1, RowsOfSet
<1>3. /\ s \o t \in Seq(U) /\ DOMAIN (s \o t) = 1..(Len(s) + Len(t))
      /\ \A i \in 1..Len(s) : (s \o t)[i] = s[i]
      /\ \A i \in 1..Len(t) : (s \o t)[Len(s) + i] = t[i]
  OBVIOUS
<1>4. Len(s) \in Nat /\ Len(t) \in Nat /\ DOMAIN s = 1..Len(s) /\ DOMAIN t = 1..Len(t)
  OBVIOUS
<1>5. ASSUME NEW x \in S \cup T PROVE \E i \in DOMAIN (s \o t) : (s \o t)[i] = x
  <2>1. CASE x \in S
    <3>1. PICK i \in 1..Len(s) : s[i] = x
      BY <1>1, <1>4, <2>1 DEF RowsOf
    <3>2. i \in 1..(Len(s) + Len(t))
      BY <1>4
    <3> QED
      BY <1>3, <3>1, <3>2
  <2>2. CASE x \in T
    <3>1. PICK i \in 1..Len(t) : t[i] = x
      BY <1>2, <1>4, <2>2 DEF RowsOf
    <3>2. Len(s) + i \in 1..(Len(s) + Len(t))
      BY <1>4
    <3> QED
      BY <1>3, <3>1, <3>2
  <2> QED
    BY <2>1, <2>2
<1>6. ASSUME NEW i \in DOMAIN (s \o t) PROVE (s \o t)[i] \in S \cup T
  <2>1. i \in 1..Len(s) \/ \E k \in 1..Len(t) : i = Len(s) + k
    <3>1. i \in 1..(Len(s) + Len(t))
      BY <1>3
    <3>2. CASE i <= Len(s)
      BY <1>4, <3>1, <3>2
    <3>3. CASE ~ (i <= Len(s))
      <4>1. i - Len(s) \in 1..Len(t) /\ i = Len(s) + (i - Len(s))
        BY <1>4, <3>1, <3>3
      <4> QED
        BY <4>1
    <3> QED
      BY <3>2, <3>3
  <2>2. CASE i \in 1..Len(s)
    BY <1>1, <1>3, <1>4, <2>2 DEF RowsOf
  <2>3. CASE \E k \in 1..Len(t) : i = Len(s) + k
    BY <1>2, <1>3, <1>4, <2>3 DEF RowsOf
  <2> QED
    BY <2>1, <2>2, <2>3
<1>7. RowsOf(s \o t) = S \cup T
  BY <1>5, <1>6 DEF RowsOf
<1> QED
  BY <1>1, <1>2, <1>3, <1>7

Pendings == [id : Ids, rev : Nat, pitch : Nat, onset : Nat, last : Nat]
Tracks == [id : Ids, rev : Nat, lifecycle : Lifecycles, pitch : Nat, onset : Nat, offset : Nat]
Decisions == [id : Ids, rev : Nat, note : Notes]

CommitRows  == RowsOf(commitOut.rows)
PreviewRows == RowsOf(previewOut)

LaneTypes ==
    /\ store \in [Ids -> Events] /\ nextId \in 1..(MaxEvents + 1)
    /\ windowStart \in Nat /\ previewDone \in BOOLEAN /\ overtaken \in BOOLEAN
    /\ IsFiniteSet(pending) /\ pending \subseteq Pendings
    /\ IsFiniteSet(tracks) /\ tracks \subseteq Tracks
    /\ commitOut.rows \in Seq(EventRows) /\ previewOut \in Seq(EventRows)

\* A pending event after a decode: the same event, its end perhaps later.
Continues(x, p) ==
    /\ x.id = p.id /\ x.pitch = p.pitch /\ x.onset = p.onset /\ p.last <= x.last

DistinctIds(set) == \A x, y \in set : x.id = y.id => x = y

LEMMA ExtendedContinues ==
  ASSUME LaneTypes, NEW obs, obs \subseteq Notes, NEW tails \in Matchings(pending, obs)
  PROVE  /\ Extended(tails) \subseteq Pendings /\ IsFiniteSet(Extended(tails))
         /\ \A x \in Extended(tails) : \E p \in pending : Continues(x, p)
         /\ \A p \in pending : \E x \in Extended(tails) : Continues(x, p)
         /\ DistinctIds(pending) => DistinctIds(Extended(tails))
<1> DEFINE longer == [m \in tails |-> [m[1] EXCEPT !.last = Larger(@, m[2].offset)]]
           moved == {longer[m] : m \in tails}
<1>1. Extended(tails) = moved \cup (pending \ Lefts(tails))
  BY DEF Extended
<1>2. \A m \in tails : m[1] \in pending /\ m[1] \in Pendings /\ m[2] \in Notes
  BY MatchingIsOneToOne DEF LaneTypes
<1>3. ASSUME NEW m \in tails
      PROVE  longer[m] \in Pendings /\ Continues(longer[m], m[1])
  <2>1. m[1] \in Pendings /\ m[1].last \in Nat /\ m[2].offset \in Nat
    BY <1>2 DEF Pendings, Notes
  <2>2. Larger(m[1].last, m[2].offset) \in Nat /\ m[1].last <= Larger(m[1].last, m[2].offset)
    BY <2>1 DEF Larger
  <2>3. longer[m] = [m[1] EXCEPT !.last = Larger(m[1].last, m[2].offset)]
    OBVIOUS
  <2> HIDE DEF longer
  <2> QED
    BY <2>1, <2>2, <2>3 DEF Pendings, Continues
<1>4. IsFiniteSet(moved)
  <2>1. IsFiniteSet(tails)
    BY MatchingIsFinite DEF LaneTypes
  <2> HIDE DEF longer
  <2> QED
    BY <2>1, FiniteValues
<1>5. \A p \in pending : p \in Pendings /\ Continues(p, p)
  BY DEF LaneTypes, Pendings, Continues
<1> HIDE DEF longer
<1>6. \A m, n \in tails : m[1] = n[1] => m = n
  BY MatchingIsOneToOne
<1>7. \A x \in Extended(tails) :
         \/ x \in pending /\ x \notin Lefts(tails)
         \/ \E m \in tails : x = longer[m]
  BY <1>1
<1>8. DistinctIds(pending) => DistinctIds(Extended(tails))
  <2> SUFFICES ASSUME DistinctIds(pending), NEW x \in Extended(tails), NEW y \in Extended(tails),
                      x.id = y.id
               PROVE  x = y
    BY DEF DistinctIds
  <2>1. ASSUME NEW m \in tails, NEW n \in tails, longer[m].id = longer[n].id PROVE m = n
    <3>1. m[1].id = n[1].id
      BY <1>3, <2>1 DEF Continues
    <3>2. m[1] = n[1]
      BY <1>2, <3>1 DEF DistinctIds
    <3> QED
      BY <1>6, <3>2
  <2>2. ASSUME NEW m \in tails, NEW p \in pending, longer[m].id = p.id PROVE p \in Lefts(tails)
    <3>1. m[1] = p
      BY <1>2, <1>3, <2>2 DEF DistinctIds, Continues
    <3> QED
      BY <3>1 DEF Lefts
  <2>3. CASE x \in pending /\ x \notin Lefts(tails)
    <3>1. CASE y \in pending /\ y \notin Lefts(tails)
      BY <2>3, <3>1 DEF DistinctIds
    <3>2. CASE \E m \in tails : y = longer[m]
      BY <2>2, <2>3, <3>2
    <3> QED
      BY <1>7, <3>1, <3>2
  <2>4. CASE \E m \in tails : x = longer[m]
    <3>1. CASE y \in pending /\ y \notin Lefts(tails)
      BY <2>2, <2>4, <3>1
    <3>2. CASE \E m \in tails : y = longer[m]
      BY <2>1, <2>4, <3>2
    <3> QED
      BY <1>7, <3>1, <3>2
  <2> QED
    BY <1>7, <2>3, <2>4
<1>9. \A x \in Extended(tails) : x \in Pendings /\ \E p \in pending : Continues(x, p)
  BY <1>2, <1>3, <1>5, <1>7
<1>10. ASSUME NEW p \in pending PROVE \E x \in Extended(tails) : Continues(x, p)
  <2>1. CASE p \in Lefts(tails)
    <3>1. PICK m \in tails : m[1] = p
      BY <2>1 DEF Lefts
    <3> QED
      BY <1>1, <1>3, <3>1
  <2>2. CASE p \notin Lefts(tails)
    BY <1>1, <1>5, <2>2
  <2> QED
    BY <2>1, <2>2
<1>11. IsFiniteSet(Extended(tails))
  <2>1. IsFiniteSet(pending \ Lefts(tails))
    BY FS_Subset DEF LaneTypes
  <2> HIDE DEF moved
  <2> QED
    BY <1>1, <1>4, <2>1, FS_Union
<1> QED
  BY <1>8, <1>9, <1>10, <1>11

Provisionals == [id : Ids, rev : Nat, pitch : Nat, onset : Nat, offset : Nat \cup {Open}]

LEMMA PreviewEventsAre ==
  ASSUME LaneTypes, BoundsAssumption, NEW band
  PROVE  /\ IsFiniteSet(PreviewEvents(band)) /\ PreviewEvents(band) \subseteq Provisionals
         /\ \A v \in PreviewEvents(band) :
               /\ store[v.id].lane = "preview" /\ InRange(store[v.id], band.from, band.upto)
               /\ v.rev = store[v.id].rev /\ v.pitch = store[v.id].pitch
               /\ v.onset = store[v.id].onset /\ v.offset = store[v.id].offset
         /\ \A e \in Ids : store[e].lane = "preview" /\ InRange(store[e], band.from, band.upto)
               => \E v \in PreviewEvents(band) : v.id = e
         /\ DistinctIds(PreviewEvents(band))
<1> DEFINE some == {e \in Ids : store[e].lane = "preview" /\ InRange(store[e], band.from, band.upto)}
           row == [e \in some |-> [id |-> e, rev |-> store[e].rev, pitch |-> store[e].pitch,
                                   onset |-> store[e].onset, offset |-> store[e].offset]]
<1>1. PreviewEvents(band) = {row[e] : e \in some}
  BY DEF PreviewEvents
<1>2. IsFiniteSet(some)
  <2>1. IsFiniteSet(Ids)
    BY FS_Interval DEF Ids, BoundsAssumption
  <2>2. some \subseteq Ids
    OBVIOUS
  <2> HIDE DEF some
  <2> QED
    BY <2>1, <2>2, FS_Subset
<1>3. IsFiniteSet(PreviewEvents(band))
  <2> HIDE DEF row, some
  <2> QED
    BY <1>1, <1>2, FiniteValues
<1>4. ASSUME NEW e \in some
      PROVE  /\ row[e] \in Provisionals /\ row[e].id = e
             /\ row[e].rev = store[e].rev /\ row[e].pitch = store[e].pitch
             /\ row[e].onset = store[e].onset /\ row[e].offset = store[e].offset
  <2>1. store[e] \in Events
    BY DEF LaneTypes
  <2> QED
    BY <2>1 DEF Events, Provisionals
<1>5. \A e \in some : e \in Ids /\ store[e].lane = "preview" /\ InRange(store[e], band.from, band.upto)
  OBVIOUS
<1>6. \A e \in Ids : store[e].lane = "preview" /\ InRange(store[e], band.from, band.upto) => e \in some
  OBVIOUS
<1> HIDE DEF row, some
<1> QED
  BY <1>1, <1>3, <1>4, <1>5, <1>6 DEF DistinctIds

\* The decisions of a band: one identity each, that of the preview event it
\* matches, near the note, or a new one.
BandDecided(band, obs, matches, decided, next) ==
    /\ decided \subseteq Decisions /\ IsFiniteSet(decided) /\ DistinctIds(decided)
    /\ next \in nextId..(MaxEvents + 1)
    /\ \A d \in decided : d.note \in Candidates(obs, band) /\ d.id < next
    /\ \A d \in decided : \/ nextId <= d.id
                          \/ \E v \in PreviewEvents(band) :
                                v.id = d.id /\ Distance(v.onset, d.note.onset) <= MatchFrames
    /\ \A v \in PreviewEvents(band) : v \in Lefts(matches) <=> \E d \in decided : d.id = v.id

LEMMA DecidedAre ==
  ASSUME LaneTypes, BoundsAssumption, NEW band, NEW obs, IsFiniteSet(obs), obs \subseteq Notes,
         NEW matches \in Matchings(PreviewEvents(band), Candidates(obs, band)),
         NEW decided, decided = Decided(Candidates(obs, band), matches),
         {d.id : d \in decided} \subseteq Ids,
         \A e \in Ids : e >= nextId => store[e] = Never,
         NEW next, next = nextId + Cardinality(Candidates(obs, band) \ Rights(matches))
  PROVE  BandDecided(band, obs, matches, decided, next)
<1> DEFINE candidates == Candidates(obs, band)
           additions == candidates \ Rights(matches)
           new == NewIds(additions)
           count == Cardinality(additions)
           taken == [m \in matches |-> [id |-> m[1].id, rev |-> m[1].rev + 1, note |-> m[2]]]
           fresh == [n \in additions |-> [id |-> new[n], rev |-> 1, note |-> n]]
<1>1. decided = {taken[m] : m \in matches} \cup {fresh[n] : n \in additions}
  BY DEF Decided
<1>2. candidates \subseteq obs /\ IsFiniteSet(candidates) /\ IsFiniteSet(additions) /\ candidates \subseteq Notes
  <2>1. candidates \subseteq obs /\ additions \subseteq obs
    BY DEF Candidates
  <2> HIDE DEF additions, candidates
  <2> QED
    BY <2>1, FS_Subset
<1>3. /\ \A m \in matches : /\ m[1] \in PreviewEvents(band) /\ m[2] \in candidates
                            /\ Distance(m[1].onset, m[2].onset) <= MatchFrames
      /\ \A m, n \in matches : m[1] = n[1] \/ m[2] = n[2] => m = n
      /\ IsFiniteSet(matches)
  BY MatchingIsOneToOne, MatchingIsFinite, PreviewEventsAre
<1>4. /\ count \in Nat
      /\ \A n \in additions : new[n] \in nextId..(nextId + count - 1)
      /\ \A n, o \in additions : new[n] = new[o] => n = o
      /\ \A k \in nextId..(nextId + count - 1) : \E n \in additions : new[n] = k
  <2>1. nextId \in Nat
    BY DEF LaneTypes
  <2> HIDE DEF additions
  <2> QED
    BY <1>2, <2>1, NewIdsAreNext
<1>5. \A v \in PreviewEvents(band) : /\ v \in Provisionals /\ store[v.id].lane = "preview"
                                     /\ v.id \in Ids /\ v.id < nextId
  <2>1. \A v \in PreviewEvents(band) : v \in Provisionals /\ store[v.id].lane = "preview"
    BY PreviewEventsAre
  <2>2. Never.lane # "preview"
    BY DEF Never
  <2>3. \A v \in PreviewEvents(band) : v.id \in Ids /\ v.id \in Nat /\ nextId \in Nat
    BY <2>1 DEF Provisionals, LaneTypes, Ids
  <2> QED
    BY <2>1, <2>2, <2>3
<1>6. ASSUME NEW m \in matches
      PROVE  /\ taken[m] \in Decisions /\ taken[m].note = m[2] /\ taken[m].id = m[1].id
             /\ m[1].id < nextId /\ m[1].id \in Ids
  <2>1. m[1] \in Provisionals /\ m[2] \in Notes /\ m[1].id < nextId /\ m[1].rev + 1 \in Nat /\ m[1].id \in Ids
    BY <1>2, <1>3, <1>5 DEF Provisionals
  <2> QED
    BY <2>1 DEF Decisions
<1>7. ASSUME NEW n \in additions
      PROVE  fresh[n] \in Decisions /\ fresh[n].note = n /\ fresh[n].id = new[n] /\ new[n] \in Ids
  <2>1. fresh[n] = [id |-> new[n], rev |-> 1, note |-> n] /\ fresh[n] \in decided
    BY <1>1
  <2>2. fresh[n].id \in Ids
    BY <2>1
  <2> QED
    BY <1>2, <2>1, <2>2 DEF Decisions
<1>8. next = nextId + count
  OBVIOUS
<1> HIDE DEF taken, fresh, new, count, additions
<1>9. next \in nextId..(MaxEvents + 1)
  <2>1. nextId \in 1..(MaxEvents + 1) /\ MaxEvents \in Nat
    BY DEF LaneTypes, BoundsAssumption
  <2>2. CASE count = 0
    BY <1>8, <2>1, <2>2
  <2>3. CASE count # 0
    <3>1. nextId + count - 1 \in nextId..(nextId + count - 1)
      BY <1>4, <2>1, <2>3
    <3>2. nextId + count - 1 \in Ids
      BY <1>4, <1>7, <3>1
    <3> QED
      BY <1>4, <1>8, <2>1, <3>2 DEF Ids
  <2> QED
    BY <2>2, <2>3
<1>10. \A d \in decided : \/ \E m \in matches : d = taken[m]
                          \/ \E n \in additions : d = fresh[n]
  BY <1>1
<1>11. \A n \in additions : nextId <= new[n] /\ new[n] < next /\ new[n] \in Nat
  BY <1>4, <1>8 DEF LaneTypes
<1>12. IsFiniteSet(decided)
  <2> DEFINE matched == {taken[m] : m \in matches}
             added == {fresh[n] : n \in additions}
  <2>1. IsFiniteSet(matched) /\ IsFiniteSet(added)
    BY <1>2, <1>3, FiniteValues
  <2>2. decided = matched \cup added
    BY <1>1
  <2> HIDE DEF matched, added
  <2> QED
    BY <2>1, <2>2, FS_Union
<1>13. nextId \in Nat /\ next \in Nat /\ nextId <= next /\ \A m \in matches : m[1].id \in Nat
  BY <1>6, <1>9 DEF LaneTypes, Ids
<1>14. DistinctIds(decided)
  <2>1. \A m, n \in matches : taken[m].id = taken[n].id => m = n
    <3>1. DistinctIds(PreviewEvents(band))
      BY PreviewEventsAre
    <3> QED
      BY <1>3, <1>6, <3>1 DEF DistinctIds
  <2>2. \A m, n \in additions : fresh[m].id = fresh[n].id => m = n
    BY <1>4, <1>7
  <2>3. \A m \in matches, n \in additions : taken[m].id # fresh[n].id
    BY <1>6, <1>7, <1>11, <1>13
  <2> QED
    BY <1>10, <2>1, <2>2, <2>3 DEF DistinctIds
<1>15. \A d \in decided : d.note \in candidates /\ d.id < next /\ d \in Decisions
  <2>1. \A m \in matches : taken[m].note \in candidates /\ taken[m].id < next
    BY <1>3, <1>6, <1>13
  <2>2. \A n \in additions : fresh[n].note \in candidates /\ fresh[n].id < next
    BY <1>7, <1>11 DEF additions
  <2> QED
    BY <1>6, <1>7, <1>10, <2>1, <2>2
<1>16. \A d \in decided : \/ nextId <= d.id
                          \/ \E v \in PreviewEvents(band) :
                                     v.id = d.id /\ Distance(v.onset, d.note.onset) <= MatchFrames
  BY <1>3, <1>6, <1>7, <1>10, <1>11
<1>17. ASSUME NEW v \in Lefts(matches) PROVE \E d \in decided : d.id = v.id
  <2>1. PICK m \in matches : m[1] = v
    BY DEF Lefts
  <2> QED
    BY <1>1, <1>6, <2>1
<1>18. ASSUME NEW v \in PreviewEvents(band), NEW d \in decided, d.id = v.id PROVE v \in Lefts(matches)
  <2>1. CASE \E m \in matches : d = taken[m]
    <3>1. PICK m \in matches : d = taken[m]
      BY <2>1
    <3>2. m[1] = v
      <4>1. DistinctIds(PreviewEvents(band)) /\ m[1] \in PreviewEvents(band) /\ m[1].id = v.id
        BY <1>3, <1>6, <1>18, <3>1, PreviewEventsAre
      <4> QED
        BY <4>1 DEF DistinctIds
    <3> QED
      BY <3>2 DEF Lefts
  <2>2. CASE \E n \in additions : d = fresh[n]
    <3>1. nextId <= v.id
      BY <1>7, <1>11, <1>18, <2>2
    <3>2. v.id < nextId /\ v.id \in Nat
      BY <1>5 DEF Ids
    <3> QED
      BY <1>13, <3>1, <3>2
  <2> QED
    BY <1>10, <2>1, <2>2
<1> QED
  BY <1>9, <1>12, <1>14, <1>15, <1>16, <1>17, <1>18 DEF BandDecided

IdsIssued ==
    /\ \A p \in pending : p.id < nextId
    /\ \A t \in tracks : t.id < nextId
    /\ \A r \in CommitRows \cup PreviewRows : r.id < nextId
    /\ \A e \in Ids : e >= nextId => store[e] = Never

\* The preview lane publishes and withdraws, with an onset before the offset;
\* what it wrote last of an event is not committed.
PreviewShape ==
    /\ \A t \in tracks : t.onset < t.offset
    /\ \A r \in PreviewRows :
          r.lane = "preview" /\ r.lifecycle \in {"provisional", "retracted"} /\ r.onset < r.offset
    /\ \A e \in Ids : /\ store[e].lifecycle = "provisional" => store[e].lane = "preview"
                      /\ store[e].lane = "preview" => /\ ~Committed(store[e])
                                                      /\ store[e].onset < store[e].offset

\* What the commit lane has decided and not applied.
CommitShape ==
    /\ commitOut = NoUpdate => commitHorizon = commitSample
    /\ \A p \in pending : p.onset < p.last /\ p.onset < commitSample
    /\ \A r \in CommitRows :
          /\ r.lane = "commit" /\ r.lifecycle \in {"committed", "retracted"}
          /\ r.offset = Open => /\ ~commitOut.final /\ \E p \in pending : p.id = r.id
          /\ Committed(r) => /\ r.onset < commitSample
                             /\ r.offset # Open => r.onset < r.offset /\ r.offset <= head
    /\ commitOut.final => pending = {}

OpenTailsKept ==
    \A e \in Ids : CommittedOpen(e) =>
        /\ ~commitDone
        /\ \/ \E p \in pending : p.id = e
           \/ \E r \in CommitRows : r.id = e /\ r.offset # Open

\* Unless it was overtaken, the commit lane has decided every preview event
\* behind it.
SettledBehindBand ==
    ~overtaken => \A e \in Ids :
        store[e].lifecycle = "provisional" /\ store[e].onset < commitSample
            => \E r \in CommitRows : r.id = e

LaneInv ==
    /\ SchedulerInv /\ LaneTypes /\ IdsIssued /\ PreviewShape /\ CommitShape
    /\ OpenTailsKept /\ CommittedWithinAudio /\ SettledBehindHorizon /\ SettledBehindBand

\* The rows of a decode, one after the other.
DecodeRows(closing, retracted, decided, band, final) ==
    {ClosingRow(p) : p \in closing}
    \cup {RetractedRow(v) : v \in retracted}
    \cup {CommittedRow(d.id, d.rev, d.note, band, final) : d \in decided}

Tails(decided, band, final) ==
    {PendingOffset(d.id, d.rev, d.note) : d \in {d \in decided : StaysOpen(d.note, band, final)}}

\* Everything a decode decides, whatever the model heard.
Decision(extended, closing, retracted, decided, band, final) ==
    /\ extended \subseteq Pendings /\ closing \subseteq extended
    /\ \A x \in extended : \E p \in pending : Continues(x, p)
    /\ \A p \in pending : \E x \in extended : Continues(x, p)
    /\ DistinctIds(pending) => DistinctIds(extended)
    /\ final => closing = extended
    /\ retracted \subseteq PreviewEvents(band)
    /\ decided \subseteq Decisions /\ DistinctIds(decided)
    /\ \A d \in decided : /\ d.note.onset < d.note.offset
                          /\ band.from <= d.note.onset /\ d.note.onset < band.upto
                          /\ d.id < nextId'
                          /\ \/ nextId <= d.id
                             \/ \E v \in PreviewEvents(band) :
                                   v.id = d.id /\ Distance(v.onset, d.note.onset) <= MatchFrames
    /\ \A v \in PreviewEvents(band) : v \in retracted <=> ~ \E d \in decided : d.id = v.id
    /\ pending' = {p \in extended \ closing : \A o \in Tails(decided, band, final) : o.id # p.id}
                  \cup Tails(decided, band, final)
    /\ IsFiniteSet(pending') /\ pending' \subseteq Pendings
    /\ nextId' \in nextId..(MaxEvents + 1)
    /\ commitOut'.rows \in Seq(EventRows)
    /\ RowsOf(commitOut'.rows) = DecodeRows(closing, retracted, decided, band, final)

LEMMA ClosedOffsetIs ==
  ASSUME head \in Nat, NEW p \in Pendings, p.onset < head, p.onset < p.last
  PROVE  /\ ClosedOffset(p) \in Nat /\ p.onset < ClosedOffset(p) /\ ClosedOffset(p) <= head
<1>1. p.onset \in Nat /\ p.last \in Nat
  BY DEF Pendings
<1> QED
  BY <1>1 DEF ClosedOffset, Smaller, Larger

LEMMA ClosingRowIs ==
  ASSUME head \in Nat, NEW p \in Pendings
  PROVE  /\ ClosingRow(p) \in EventRows
         /\ ClosingRow(p).id = p.id /\ ClosingRow(p).lane = "commit"
         /\ ClosingRow(p).lifecycle = "committed" /\ ClosingRow(p).pitch = p.pitch
         /\ ClosingRow(p).onset = p.onset /\ ClosingRow(p).offset = ClosedOffset(p)
<1>1. p.id \in Ids /\ p.onset \in Nat /\ p.last \in Nat /\ p.pitch \in Nat /\ p.rev \in Nat
  BY DEF Pendings
<1>2. ClosedOffset(p) \in Nat
  BY <1>1 DEF ClosedOffset, Smaller, Larger
<1>3. p.rev + 1 \in Nat
  BY <1>1
<1> QED
  BY <1>1, <1>2, <1>3 DEF ClosingRow, Row, EventRows, Lanes, Lifecycles

LEMMA RetractedRowIs ==
  ASSUME NEW v \in Provisionals
  PROVE  /\ RetractedRow(v) \in EventRows
         /\ RetractedRow(v).id = v.id /\ RetractedRow(v).lane = "commit"
         /\ RetractedRow(v).lifecycle = "retracted" /\ RetractedRow(v).offset = v.offset
<1>1. v.id \in Ids /\ v.onset \in Nat /\ v.offset \in Nat \cup {Open} /\ v.pitch \in Nat /\ v.rev + 1 \in Nat
  BY DEF Provisionals
<1> QED
  BY <1>1 DEF RetractedRow, Row, EventRows, Lanes, Lifecycles

LEMMA CommittedRowIs ==
  ASSUME head \in Nat, NEW d \in Decisions, NEW band, NEW final, NEW r,
         r = CommittedRow(d.id, d.rev, d.note, band, final)
  PROVE  /\ r \in EventRows
         /\ r.id = d.id /\ r.lane = "commit" /\ r.lifecycle = "committed"
         /\ r.pitch = d.note.pitch /\ r.onset = d.note.onset
         /\ r.offset = IF StaysOpen(d.note, band, final) THEN Open ELSE Smaller(d.note.offset, head)
<1>1. /\ d.id \in Ids /\ d.rev \in Nat /\ d.note.onset \in Nat /\ d.note.offset \in Nat
      /\ d.note.pitch \in Nat
  BY DEF Decisions, Notes
<1>2. Smaller(d.note.offset, head) \in Nat
  BY <1>1 DEF Smaller
<1> HIDE DEF StaysOpen, Smaller
<1> QED
  BY <1>1, <1>2 DEF CommittedRow, Row, EventRows, Lanes, Lifecycles

LEMMA PendingOffsetIs ==
  ASSUME NEW d \in Decisions, NEW o, o = PendingOffset(d.id, d.rev, d.note)
  PROVE  /\ o \in Pendings /\ o.id = d.id /\ o.pitch = d.note.pitch
         /\ o.onset = d.note.onset /\ o.last = d.note.offset
BY DEF PendingOffset, Pendings, Decisions, Notes

LEMMA DecideDecides ==
  ASSUME LaneTypes, BoundsAssumption, head \in Nat, \A e \in Ids : e >= nextId => store[e] = Never,
         NEW band, NEW obs, IsFiniteSet(obs), obs \subseteq Notes,
         \A o \in obs : o.onset < o.offset,
         NEW start, NEW final \in BOOLEAN, Decide(obs, band, start, final)
  PROVE  \E extended, closing, retracted, decided :
            Decision(extended, closing, retracted, decided, band, final)
<1>1. PICK tails \in Matchings(pending, obs),
           matches \in Matchings(PreviewEvents(band), Candidates(obs, band)) :
        LET extended == Extended(tails)
            closing == {p \in extended : Closes(p, tails, start, band.upto, final)}
            retracted == PreviewEvents(band) \ Lefts(matches)
            decided == Decided(Candidates(obs, band), matches)
            opened  == {PendingOffset(d.id, d.rev, d.note) :
                          d \in {d \in decided : StaysOpen(d.note, band, final)}}
        IN  /\ {d.id : d \in decided} \subseteq Ids
            /\ nextId' = nextId + Cardinality(Candidates(obs, band) \ Rights(matches))
            /\ pending' = {p \in extended \ closing : \A o \in opened : o.id # p.id}
                          \cup opened
            /\ commitOut' =
                 [rows |-> Rows({ClosingRow(p) : p \in closing})
                           \o Rows({RetractedRow(e) : e \in retracted}
                                   \cup {CommittedRow(d.id, d.rev, d.note, band, final) :
                                           d \in decided}),
                  horizon |-> band.upto,
                  final |-> final]
  BY DEF Decide
<1> DEFINE extended == Extended(tails)
           closing == {p \in extended : Closes(p, tails, start, band.upto, final)}
           retracted == PreviewEvents(band) \ Lefts(matches)
           decided == Decided(Candidates(obs, band), matches)
           opened == Tails(decided, band, final)
           closingRows == {ClosingRow(p) : p \in closing}
           retractedRows == {RetractedRow(e) : e \in retracted}
           committedRows == {CommittedRow(d.id, d.rev, d.note, band, final) : d \in decided}
<1>2. /\ {d.id : d \in decided} \subseteq Ids
      /\ nextId' = nextId + Cardinality(Candidates(obs, band) \ Rights(matches))
      /\ pending' = {p \in extended \ closing : \A o \in opened : o.id # p.id} \cup opened
      /\ commitOut'.rows = Rows(closingRows) \o Rows(retractedRows \cup committedRows)
  BY <1>1 DEF Tails
<1>3. /\ extended \subseteq Pendings /\ IsFiniteSet(extended)
      /\ \A x \in extended : \E p \in pending : Continues(x, p)
      /\ \A p \in pending : \E x \in extended : Continues(x, p)
      /\ DistinctIds(pending) => DistinctIds(extended)
  BY ExtendedContinues
<1>4. closing \subseteq extended /\ (final => closing = extended)
  BY DEF Closes
<1>5. IsFiniteSet(closing)
  <2> HIDE DEF extended, closing
  <2> QED
    BY <1>3, <1>4, FS_Subset
<1>6. /\ decided \subseteq Decisions /\ IsFiniteSet(decided) /\ DistinctIds(decided)
      /\ nextId' \in nextId..(MaxEvents + 1)
      /\ \A d \in decided : d.note \in Candidates(obs, band) /\ d.id < nextId'
      /\ \A d \in decided : \/ nextId <= d.id
                            \/ \E v \in PreviewEvents(band) :
                                  v.id = d.id /\ Distance(v.onset, d.note.onset) <= MatchFrames
      /\ \A v \in PreviewEvents(band) : v \in retracted <=> ~ \E d \in decided : d.id = v.id
  <2>1. decided = Decided(Candidates(obs, band), matches)
    OBVIOUS
  <2> DEFINE next == nextId + Cardinality(Candidates(obs, band) \ Rights(matches))
  <2>2. nextId' = next /\ {d.id : d \in decided} \subseteq Ids
    BY <1>2
  <2>4. next = nextId + Cardinality(Candidates(obs, band) \ Rights(matches))
    OBVIOUS
  <2> HIDE DEF decided, next, retracted, extended, opened, closing
  <2>3. BandDecided(band, obs, matches, decided, next)
    BY <2>1, <2>2, <2>4, DecidedAre
  <2> QED
    BY <2>2, <2>3 DEF BandDecided, retracted
<1>7. retracted \subseteq Provisionals /\ IsFiniteSet(retracted)
  <2>1. IsFiniteSet(PreviewEvents(band)) /\ PreviewEvents(band) \subseteq Provisionals
    BY PreviewEventsAre
  <2>2. retracted \subseteq PreviewEvents(band)
    OBVIOUS
  <2> HIDE DEF retracted
  <2> QED
    BY <2>1, <2>2, FS_Subset
<1>8. \A d \in decided : /\ d.note.onset < d.note.offset
                         /\ band.from <= d.note.onset /\ d.note.onset < band.upto
  BY <1>6 DEF Candidates
<1> HIDE DEF extended, closing, decided
<1>9. closingRows \subseteq EventRows /\ IsFiniteSet(closingRows)
  <2>1. \A p \in closing : ClosingRow(p) \in EventRows
    BY <1>3, <1>4, ClosingRowIs
  <2> DEFINE row == [p \in closing |-> ClosingRow(p)]
  <2>2. closingRows = {row[p] : p \in closing}
    OBVIOUS
  <2>3. closingRows \subseteq EventRows
    BY <2>1
  <2> HIDE DEF closingRows, row
  <2> QED
    BY <1>5, <2>2, <2>3, FiniteValues
<1>10. retractedRows \subseteq EventRows /\ IsFiniteSet(retractedRows)
  <2>1. \A v \in retracted : RetractedRow(v) \in EventRows
    BY <1>7, RetractedRowIs
  <2> DEFINE row == [v \in retracted |-> RetractedRow(v)]
  <2>2. retractedRows = {row[v] : v \in retracted}
    OBVIOUS
  <2>3. retractedRows \subseteq EventRows
    BY <2>1
  <2> HIDE DEF retractedRows, retracted, row
  <2> QED
    BY <1>7, <2>2, <2>3, FiniteValues
<1>11. committedRows \subseteq EventRows /\ IsFiniteSet(committedRows)
  <2>1. \A d \in decided : CommittedRow(d.id, d.rev, d.note, band, final) \in EventRows
    BY <1>6, CommittedRowIs
  <2> DEFINE row == [d \in decided |-> CommittedRow(d.id, d.rev, d.note, band, final)]
  <2>2. committedRows = {row[d] : d \in decided}
    OBVIOUS
  <2>3. committedRows \subseteq EventRows
    BY <2>1
  <2> HIDE DEF committedRows, row
  <2> QED
    BY <1>6, <2>2, <2>3, FiniteValues
<1>12. opened \subseteq Pendings /\ IsFiniteSet(opened)
  <2> DEFINE still == {d \in decided : StaysOpen(d.note, band, final)}
             tail == [d \in still |-> PendingOffset(d.id, d.rev, d.note)]
  <2>1. opened = {tail[d] : d \in still}
    BY DEF Tails
  <2>2. still \subseteq decided
    OBVIOUS
  <2>3. \A d \in still : tail[d] \in Pendings
    BY <1>6, <2>2, PendingOffsetIs
  <2> HIDE DEF still, tail, opened
  <2>4. IsFiniteSet(still)
    BY <1>6, <2>2, FS_Subset
  <2>5. IsFiniteSet(opened)
    BY <2>1, <2>4, FiniteValues
  <2> QED
    BY <2>1, <2>3, <2>5
<1>13. IsFiniteSet(pending') /\ pending' \subseteq Pendings
  <2> DEFINE kept == {p \in extended \ closing : \A o \in opened : o.id # p.id}
  <2>1. kept \subseteq extended /\ pending' = kept \cup opened
    BY <1>2
  <2> HIDE DEF kept, opened
  <2>2. IsFiniteSet(kept)
    BY <1>3, <2>1, FS_Subset
  <2> QED
    BY <1>3, <1>12, <2>1, <2>2, FS_Union
<1>14. /\ commitOut'.rows \in Seq(EventRows)
       /\ RowsOf(commitOut'.rows) = DecodeRows(closing, retracted, decided, band, final)
  <2>1. closingRows \cup (retractedRows \cup committedRows)
           = DecodeRows(closing, retracted, decided, band, final)
    BY DEF DecodeRows
  <2>2. retractedRows \cup committedRows \subseteq EventRows
    BY <1>10, <1>11
  <2> HIDE DEF closingRows, retractedRows, committedRows
  <2> DEFINE others == retractedRows \cup committedRows
  <2>3. IsFiniteSet(others)
    BY <1>10, <1>11, FS_Union
  <2>4. others \subseteq EventRows /\ commitOut'.rows = Rows(closingRows) \o Rows(others)
        /\ closingRows \cup others = DecodeRows(closing, retracted, decided, band, final)
    BY <1>2, <2>1, <2>2
  <2> HIDE DEF others
  <2>5. /\ Rows(closingRows) \o Rows(others) \in Seq(EventRows)
        /\ RowsOf(Rows(closingRows) \o Rows(others)) = closingRows \cup others
    BY <1>9, <2>3, <2>4, RowsOfTwo
  <2> QED
    BY <2>4, <2>5, Zenon
<1>15. \A v \in PreviewEvents(band) : v \in retracted <=> ~ \E d \in decided : d.id = v.id
  BY <1>6
<1>16. retracted \subseteq PreviewEvents(band)
  OBVIOUS
<1> HIDE DEF retracted
<1>17. Decision(extended, closing, retracted, decided, band, final)
  BY <1>2, <1>3, <1>4, <1>6, <1>8, <1>13, <1>14, <1>15, <1>16 DEF Decision
<1> QED
  BY <1>17

LEMMA NoRows == RowsOf(<< >>) = {} /\ NoUpdate.rows = << >> /\ NoUpdate.final = FALSE /\ NoUpdate.horizon = Open
BY DEF RowsOf, NoUpdate

LEMMA LaneInit == Init => LaneInv
<1> SUFFICES ASSUME Init PROVE LaneInv
  OBVIOUS
<1>1. SchedulerInv
  BY SchedulerInit
<1>2. /\ pending = {} /\ tracks = {} /\ previewOut = << >> /\ commitOut = NoUpdate
      /\ windowStart = 0 /\ previewDone = FALSE /\ overtaken = FALSE /\ nextId = 1
      /\ store = [e \in Ids |-> Never] /\ commitHorizon = 0 /\ commitSample = 0
  BY DEF Init
<1>3. CommitRows = {} /\ PreviewRows = {} /\ commitOut.rows = << >> /\ commitOut.final = FALSE
  BY <1>2, NoRows DEF CommitRows, PreviewRows
<1>4. Never \in Events /\ Never.lifecycle = "none" /\ Never.lane = "none"
  BY DEF Never, Events, Lanes, Lifecycles
<1>5. LaneTypes
  <2>1. 1 \in 1..(MaxEvents + 1)
    BY BoundsAssumption DEF BoundsAssumption
  <2>2. IsFiniteSet({})
    BY FS_EmptySet
  <2>3. store \in [Ids -> Events]
    BY <1>2, <1>4
  <2>4. << >> \in Seq(EventRows)
    OBVIOUS
  <2> QED
    BY <1>2, <1>3, <2>1, <2>2, <2>3, <2>4 DEF LaneTypes
<1>6. IdsIssued /\ PreviewShape /\ CommitShape
  BY <1>2, <1>3, <1>4 DEF IdsIssued, PreviewShape, CommitShape, Committed
<1>7. OpenTailsKept /\ CommittedWithinAudio /\ SettledBehindHorizon /\ SettledBehindBand
  BY <1>2, <1>4 DEF OpenTailsKept, CommittedOpen, CommittedWithinAudio, SettledBehindHorizon, SettledBehindBand
<1> QED
  BY <1>1, <1>5, <1>6, <1>7 DEF LaneInv

\* More audio, or the end of it, changes nothing the lanes have decided.
LEMMA LaneAudio ==
  ASSUME LaneInv, AcceptPcm \/ BeginSettling \/ UNCHANGED vars, SchedulerInv'
  PROVE  LaneInv'
<1>1. /\ UNCHANGED <<commitVars, commitHorizon, previewVars, eventVars, nextId>>
      /\ head \in Nat /\ head' \in Nat /\ head <= head'
  BY DEF AcceptPcm, BeginSettling, vars, audioVars, LaneInv, SchedulerInv, SchedulerTypes
<1>2. /\ UNCHANGED <<pending, commitOut, commitHorizon, commitSample, commitDone, windowStart, tracks,
                     previewOut, previewDone, store, overtaken, nextId>>
  BY <1>1 DEF commitVars, previewVars, eventVars
<1>3. CommitRows' = CommitRows /\ PreviewRows' = PreviewRows
  BY <1>2 DEF CommitRows, PreviewRows
<1>4. LaneTypes' /\ IdsIssued' /\ PreviewShape'
  BY <1>2, <1>3 DEF LaneInv, LaneTypes, IdsIssued, PreviewShape
<1>5. ASSUME NEW x \in Nat \cup {Open}, x <= head PROVE x <= head'
  BY <1>1, <1>5 DEF Open
<1>6. \A r \in CommitRows : r.offset \in Nat \cup {Open}
  <2>1. CommitRows \subseteq EventRows
    BY DEF LaneInv, LaneTypes, CommitRows, RowsOf
  <2> QED
    BY <2>1 DEF EventRows
<1>7. CommitShape'
  BY <1>2, <1>3, <1>5, <1>6 DEF LaneInv, CommitShape
<1>8. \A e \in Ids : store[e].offset \in Nat \cup {Open}
  BY DEF LaneInv, LaneTypes, Events
<1>9. CommittedWithinAudio'
  BY <1>2, <1>5, <1>8 DEF LaneInv, CommittedWithinAudio
<1>10. OpenTailsKept' /\ SettledBehindHorizon' /\ SettledBehindBand'
  BY <1>2, <1>3 DEF LaneInv, OpenTailsKept, CommittedOpen, SettledBehindHorizon, SettledBehindBand
<1> QED
  BY <1>4, <1>7, <1>9, <1>10 DEF LaneInv

\* The events a decode leaves in the hands of the lane.
LEMMA DecidedPending ==
  ASSUME LaneInv, NEW extended, NEW closing, NEW retracted, NEW decided, NEW band, NEW final,
         Decision(extended, closing, retracted, decided, band, final),
         band.upto \in Nat, commitSample <= band.upto
  PROVE  /\ \A x \in extended : /\ x \in Pendings /\ x.id < nextId /\ x.id \in Ids
                                /\ x.onset < x.last /\ x.onset < commitSample
         /\ \A o \in Tails(decided, band, final) :
               \E d \in decided : /\ d \in Decisions /\ StaysOpen(d.note, band, final)
                                  /\ o.id = d.id /\ o.pitch = d.note.pitch
                                  /\ o.onset = d.note.onset /\ o.last = d.note.offset
         /\ \A d \in decided : StaysOpen(d.note, band, final)
               => \E o \in Tails(decided, band, final) : o.id = d.id
         /\ \A o \in pending' : o.id < nextId' /\ o.onset < o.last /\ o.onset < band.upto
<1>1. commitSample \in Nat /\ nextId \in Nat /\ nextId' \in Nat /\ nextId <= nextId'
  BY DEF LaneInv, LaneTypes, SchedulerInv, SchedulerTypes, Decision
<1>2. ASSUME NEW x \in extended
      PROVE  /\ x \in Pendings /\ x.id < nextId /\ x.id \in Ids /\ x.onset < x.last /\ x.onset < commitSample
  <2>1. PICK p \in pending : Continues(x, p)
    BY DEF Decision
  <2>2. x \in Pendings /\ p \in Pendings
    BY DEF Decision, LaneInv, LaneTypes
  <2>3. p.id < nextId /\ p.onset < p.last /\ p.onset < commitSample
    BY DEF LaneInv, IdsIssued, CommitShape
  <2>4. x.onset \in Nat /\ x.last \in Nat /\ p.last \in Nat /\ x.id \in Ids
    BY <2>2 DEF Pendings
  <2>5. x.onset < x.last
    <3>1. p.last <= x.last /\ x.onset < p.last
      BY <2>1, <2>3 DEF Continues
    <3> QED
      BY <2>4, <3>1
  <2> QED
    BY <2>1, <2>2, <2>3, <2>4, <2>5 DEF Continues
<1>3. \A o \in Tails(decided, band, final) :
               \E d \in decided : /\ d \in Decisions /\ StaysOpen(d.note, band, final)
                                  /\ o.id = d.id /\ o.pitch = d.note.pitch
                                  /\ o.onset = d.note.onset /\ o.last = d.note.offset
  <2>1. decided \subseteq Decisions
    BY DEF Decision
  <2> QED
    BY <2>1, PendingOffsetIs DEF Tails
<1>4. \A d \in decided : StaysOpen(d.note, band, final) => \E o \in Tails(decided, band, final) : o.id = d.id
  <2>1. decided \subseteq Decisions
    BY DEF Decision
  <2> QED
    BY <2>1, PendingOffsetIs DEF Tails
<1>5. ASSUME NEW o \in pending' PROVE o.id < nextId' /\ o.onset < o.last /\ o.onset < band.upto
  <2>1. CASE o \in extended
    <3>1. o.id \in Nat /\ o.onset \in Nat
      BY <1>2, <2>1 DEF Pendings, Ids
    <3>2. o.id < nextId /\ o.onset < commitSample /\ o.onset < o.last
      BY <1>2, <2>1
    <3> QED
      BY <1>1, <3>1, <3>2
  <2>2. CASE o \in Tails(decided, band, final)
    <3>1. PICK d \in decided : o.id = d.id /\ o.onset = d.note.onset /\ o.last = d.note.offset
      BY <1>3, <2>2
    <3> QED
      BY <3>1 DEF Decision
  <2> QED
    BY <2>1, <2>2 DEF Decision
<1> QED
  BY <1>2, <1>3, <1>4, <1>5

LEMMA DecidedRows ==
  ASSUME LaneInv, NEW extended, NEW closing, NEW retracted, NEW decided, NEW band, NEW final \in BOOLEAN,
         Decision(extended, closing, retracted, decided, band, final),
         band.upto \in Nat, commitSample <= band.upto, band.upto <= head
  PROVE  \A r \in CommitRows' :
            /\ r \in EventRows /\ r.id < nextId' /\ r.lane = "commit"
            /\ r.lifecycle \in {"committed", "retracted"}
            /\ r.offset = Open => ~final /\ \E p \in pending' : p.id = r.id
            /\ Committed(r) => /\ r.onset < band.upto
                               /\ r.offset # Open => r.onset < r.offset /\ r.offset <= head
<1>1. head \in Nat /\ commitSample \in Nat /\ nextId \in Nat /\ nextId' \in Nat /\ nextId <= nextId'
  BY DEF LaneInv, LaneTypes, SchedulerInv, SchedulerTypes, Decision
<1>2. CommitRows' = DecodeRows(closing, retracted, decided, band, final)
  BY DEF CommitRows, Decision
<1>3. \A n \in Nat : n # Open
  BY DEF Open
<1>4. ASSUME NEW p \in closing, NEW r, r = ClosingRow(p)
      PROVE  /\ r \in EventRows /\ r.id < nextId' /\ r.lane = "commit" /\ r.lifecycle = "committed"
             /\ r.offset # Open /\ r.onset < band.upto /\ r.onset < r.offset /\ r.offset <= head
  <2>1. p \in Pendings /\ p.id < nextId /\ p.id \in Ids /\ p.onset < p.last /\ p.onset < commitSample
    <3>1. p \in extended
      BY DEF Decision
    <3> QED
      BY <3>1, DecidedPending
  <2>2. p.onset \in Nat /\ p.id \in Nat
    BY <2>1 DEF Pendings, Ids
  <2>3. p.onset < head /\ p.onset < band.upto /\ p.id < nextId'
    BY <1>1, <2>1, <2>2
  <2>4. ClosedOffset(p) \in Nat /\ p.onset < ClosedOffset(p) /\ ClosedOffset(p) <= head
    BY <1>1, <2>1, <2>3, ClosedOffsetIs
  <2> QED
    BY <1>1, <1>3, <1>4, <2>1, <2>3, <2>4, ClosingRowIs
<1>5. ASSUME NEW v \in retracted, NEW r, r = RetractedRow(v)
      PROVE  /\ r \in EventRows /\ r.id < nextId' /\ r.lane = "commit" /\ r.lifecycle = "retracted"
             /\ r.offset # Open
  <2>1. v \in PreviewEvents(band)
    BY DEF Decision
  <2>2. v \in Provisionals /\ store[v.id].lane = "preview" /\ v.offset = store[v.id].offset
    BY <2>1, PreviewEventsAre, BoundsAssumption DEF LaneInv
  <2>3. v.id \in Ids /\ v.id \in Nat
    BY <2>2 DEF Provisionals, Ids
  <2>4. v.id < nextId
    <3>1. Never.lane # "preview"
      BY DEF Never
    <3>2. ~ (v.id >= nextId)
      BY <2>2, <2>3, <3>1 DEF LaneInv, IdsIssued
    <3> QED
      BY <1>1, <2>3, <3>2
  <2>5. v.offset # Open
    <3>1. store[v.id].onset < store[v.id].offset /\ store[v.id].onset \in Nat
      BY <2>2, <2>3 DEF LaneInv, PreviewShape, LaneTypes, Events
    <3> QED
      BY <2>2, <3>1 DEF Open
  <2>6. v.id < nextId'
    BY <1>1, <2>3, <2>4
  <2> QED
    BY <1>5, <2>2, <2>5, <2>6, RetractedRowIs
<1>6. ASSUME NEW d \in decided, NEW r, r = CommittedRow(d.id, d.rev, d.note, band, final)
      PROVE  /\ r \in EventRows /\ r.id < nextId' /\ r.lane = "commit" /\ r.lifecycle = "committed"
             /\ r.offset = Open => ~final /\ \E p \in pending' : p.id = r.id
             /\ r.onset < band.upto
             /\ r.offset # Open => r.onset < r.offset /\ r.offset <= head
  <2>1. /\ d \in Decisions /\ d.id < nextId' /\ d.note.onset < d.note.offset /\ d.note.onset < band.upto
    BY DEF Decision
  <2>2. d.note.onset \in Nat /\ d.note.offset \in Nat
    BY <2>1 DEF Decisions, Notes
  <2>3. /\ r \in EventRows
         /\ r.id = d.id /\ r.lane = "commit" /\ r.lifecycle = "committed"
         /\ r.pitch = d.note.pitch /\ r.onset = d.note.onset
         /\ r.offset = IF StaysOpen(d.note, band, final) THEN Open ELSE Smaller(d.note.offset, head)
    BY <1>1, <1>6, <2>1, CommittedRowIs
  <2>4. /\ Smaller(d.note.offset, head) \in Nat /\ d.note.onset < Smaller(d.note.offset, head)
        /\ Smaller(d.note.offset, head) <= head
    BY <1>1, <2>1, <2>2 DEF Smaller
  <2>5. StaysOpen(d.note, band, final) => ~final /\ \E p \in pending' : p.id = r.id
    <3> SUFFICES ASSUME StaysOpen(d.note, band, final) PROVE ~final /\ \E p \in pending' : p.id = r.id
      OBVIOUS
    <3>1. \E o \in Tails(decided, band, final) : o.id = d.id
      BY DecidedPending
    <3>2. Tails(decided, band, final) \subseteq pending'
      BY DEF Decision
    <3> QED
      BY <2>3, <3>1, <3>2 DEF StaysOpen
  <2> QED
    BY <1>3, <2>1, <2>3, <2>4, <2>5
<1> QED
  BY <1>2, <1>4, <1>5, <1>6 DEF DecodeRows, Committed

\* A decode keeps what the lanes have promised: it leaves every open event in
\* its hands or closes it, and decides every preview event of its band.
LEMMA LaneDecodes ==
  ASSUME LaneInv, SchedulerInv', NEW decodeHead \in Nat, NEW final \in BOOLEAN, Decode(decodeHead, final),
         commitOut = NoUpdate, ~commitDone,
         SourceStart(decodeHead) \in Nat, BandEnd(decodeHead, final) \in Nat,
         commitSample <= BandEnd(decodeHead, final), BandEnd(decodeHead, final) <= head,
         UNCHANGED <<head, commitDone, commitHorizon, previewVars, eventVars>>
  PROVE  LaneInv'
<1> DEFINE band == [from |-> commitSample, upto |-> BandEnd(decodeHead, final)]
           padding == IF final THEN Guard ELSE 0
<1>1. PICK obs \in Observations(Played, SourceStart(decodeHead), decodeHead, padding) :
         Decide(obs, band, SourceStart(decodeHead), final)
  BY DEF Decode
<1>2. /\ IsFiniteSet(obs) /\ obs \subseteq Notes
      /\ \A o \in obs : o.onset < o.offset
  <2>1. padding \in Nat
    BY CommitTimingAssumption
  <2>2. Played \in SUBSET (Played \cup Imagined)
    OBVIOUS
  <2> HIDE DEF padding
  <2> QED
    BY <2>1, <2>2, ObservationsAreNotes, BoundsAssumption
<1>3. head \in Nat /\ commitSample \in Nat
  BY DEF LaneInv, SchedulerInv, SchedulerTypes
<1>4. PICK extended, closing, retracted, decided :
         Decision(extended, closing, retracted, decided, band, final)
  <2> HIDE DEF band
  <2> QED
    BY <1>1, <1>2, <1>3, DecideDecides, BoundsAssumption DEF LaneInv, IdsIssued
<1>5. /\ commitSample' = band.upto /\ commitOut'.horizon = band.upto /\ commitOut'.final = final
      /\ band.from = commitSample /\ band.upto \in Nat /\ commitSample <= band.upto /\ band.upto <= head
  BY DecodeOutcome
<1>6. /\ UNCHANGED <<head, commitDone, commitHorizon, windowStart, tracks, previewOut, previewDone,
                     store, overtaken>>
      /\ PreviewRows' = PreviewRows
  BY DEF previewVars, eventVars, PreviewRows
<1> HIDE DEF band, padding
<1>7. CommitRows = {}
  BY NoRows DEF CommitRows
<1>8. /\ \A x \in extended : /\ x \in Pendings /\ x.id < nextId /\ x.id \in Ids
                             /\ x.onset < x.last /\ x.onset < commitSample
      /\ \A o \in pending' : o.id < nextId' /\ o.onset < o.last /\ o.onset < band.upto
      /\ \A o \in Tails(decided, band, final) :
               \E d \in decided : StaysOpen(d.note, band, final)
  BY <1>4, <1>5, DecidedPending
<1>9. \A r \in CommitRows' :
            /\ r \in EventRows /\ r.id < nextId' /\ r.lane = "commit"
            /\ r.lifecycle \in {"committed", "retracted"}
            /\ r.offset = Open => ~final /\ \E p \in pending' : p.id = r.id
            /\ Committed(r) => /\ r.onset < band.upto
                               /\ r.offset # Open => r.onset < r.offset /\ r.offset <= head
  BY <1>4, <1>5, DecidedRows
<1>10. nextId \in Nat /\ nextId' \in Nat /\ nextId <= nextId' /\ nextId' \in 1..(MaxEvents + 1)
  BY <1>4, BoundsAssumption DEF LaneInv, LaneTypes, Decision
<1>11. LaneTypes'
  BY <1>4, <1>6, <1>10 DEF LaneInv, LaneTypes, Decision
<1>12. IdsIssued'
  <2>1. \A t \in tracks : t.id < nextId'
    <3>1. \A t \in tracks : t.id < nextId /\ t.id \in Nat
      BY DEF LaneInv, LaneTypes, IdsIssued, Tracks, Ids
    <3> QED
      BY <1>10, <3>1
  <2>2. \A r \in PreviewRows : r.id < nextId'
    <3>1. PreviewRows \subseteq EventRows
      BY DEF LaneInv, LaneTypes, PreviewRows, RowsOf
    <3>2. \A r \in PreviewRows : r.id < nextId /\ r.id \in Nat
      BY <3>1 DEF LaneInv, IdsIssued, EventRows, Ids
    <3> QED
      BY <1>10, <3>2
  <2>3. \A e \in Ids : e >= nextId' => store[e] = Never
    <3>1. \A e \in Ids : e \in Nat
      BY DEF Ids
    <3>2. \A e \in Ids : e >= nextId => store[e] = Never
      BY DEF LaneInv, IdsIssued
    <3> QED
      BY <1>10, <3>1, <3>2
  <2> QED
    BY <1>6, <1>8, <1>9, <2>1, <2>2, <2>3 DEF IdsIssued
<1>13. PreviewShape'
  BY <1>6 DEF LaneInv, PreviewShape
<1>14. CommitShape'
  <2>1. commitOut' # NoUpdate
    BY <1>5, NoRows DEF Open
  <2>2. final => pending' = {}
    <3>1. final => Tails(decided, band, final) = {}
      BY <1>8 DEF StaysOpen
    <3>2. final => extended \ closing = {}
      BY <1>4 DEF Decision
    <3> QED
      BY <1>4, <3>1, <3>2 DEF Decision
  <2> QED
    BY <1>5, <1>6, <1>8, <1>9, <2>1, <2>2 DEF CommitShape
<1>15. OpenTailsKept'
  <2> SUFFICES ASSUME NEW e \in Ids, CommittedOpen(e)
               PROVE  \/ \E p \in pending' : p.id = e
                      \/ \E r \in CommitRows' : r.id = e /\ r.offset # Open
    BY <1>6 DEF OpenTailsKept, CommittedOpen
  <2>1. PICK p \in pending : p.id = e
    BY <1>7 DEF LaneInv, OpenTailsKept
  <2>2. PICK x \in extended : x.id = e
    BY <1>4, <2>1 DEF Decision, Continues
  <2>3. CASE x \in closing
    <3>1. ClosingRow(x) \in CommitRows'
      BY <1>4, <2>3 DEF CommitRows, Decision, DecodeRows
    <3>2. ClosingRow(x).id = e /\ ClosingRow(x).offset = ClosedOffset(x)
      BY <1>3, <1>8, <2>2, ClosingRowIs
    <3>3. ClosedOffset(x) \in Nat
      <4>1. x.onset \in Nat /\ x.last \in Nat
        BY <1>8 DEF Pendings
      <4> QED
        BY <1>3, <4>1 DEF ClosedOffset, Smaller, Larger
    <3> QED
      BY <3>1, <3>2, <3>3 DEF Open
  <2>4. CASE x \notin closing
    BY <1>4, <2>2, <2>4 DEF Decision
  <2> QED
    BY <2>3, <2>4
<1>16. CommittedWithinAudio' /\ SettledBehindHorizon'
  BY <1>6 DEF LaneInv, CommittedWithinAudio, SettledBehindHorizon
<1>17. SettledBehindBand'
  <2> SUFFICES ASSUME ~overtaken, NEW e \in Ids, store[e].lifecycle = "provisional",
                      store[e].onset < band.upto
               PROVE  \E r \in CommitRows' : r.id = e
    BY <1>5, <1>6 DEF SettledBehindBand
  <2>1. /\ store[e] \in Events /\ store[e].lane = "preview" /\ store[e].onset < store[e].offset
    BY DEF LaneInv, LaneTypes, PreviewShape
  <2>2. ~ (store[e].onset < commitSample)
    BY <1>7 DEF LaneInv, SettledBehindBand
  <2>3. store[e].offset = Open \/ store[e].offset >= band.from
    <3>1. store[e].onset \in Nat /\ store[e].offset \in Nat \cup {Open}
      BY <2>1 DEF Events
    <3> QED
      BY <1>3, <1>5, <2>1, <2>2, <3>1
  <2>4. InRange(store[e], band.from, band.upto)
    BY <2>3 DEF InRange
  <2>5. PICK v \in PreviewEvents(band) : v.id = e
    BY <2>1, <2>4, PreviewEventsAre, BoundsAssumption DEF LaneInv
  <2>6. v \in Provisionals
    BY PreviewEventsAre, BoundsAssumption DEF LaneInv
  <2>7. CASE v \in retracted
    <3>1. RetractedRow(v) \in CommitRows'
      BY <1>4, <2>7 DEF CommitRows, Decision, DecodeRows
    <3> QED
      BY <2>5, <2>6, <3>1, RetractedRowIs
  <2>8. CASE \E d \in decided : d.id = v.id
    <3>1. PICK d \in decided : d.id = v.id
      BY <2>8
    <3>2. CommittedRow(d.id, d.rev, d.note, band, final) \in CommitRows'
      BY <1>4, <3>1 DEF CommitRows, Decision, DecodeRows
    <3>3. d \in Decisions
      BY <1>4 DEF Decision
    <3> QED
      BY <1>3, <2>5, <3>1, <3>2, <3>3, CommittedRowIs
  <2> QED
    BY <1>4, <2>7, <2>8 DEF Decision
<1> QED
  BY <1>11, <1>12, <1>13, <1>14, <1>15, <1>16, <1>17 DEF LaneInv

\* Applying what the commit lane decided.
LEMMA LaneCommits ==
  ASSUME LaneInv, SchedulerInv', ApplyCommit
  PROVE  LaneInv'
<1>1. /\ commitOut # NoUpdate /\ store' = Appended(commitOut.rows)
      /\ commitHorizon' = commitOut.horizon /\ commitDone' = commitOut.final /\ commitOut' = NoUpdate
      /\ UNCHANGED <<head, commitSample, pending, windowStart, tracks, previewOut, previewDone,
                     overtaken, nextId>>
  BY DEF ApplyCommit, AppendRows, audioVars, previewVars
<1>2. commitHorizon' = commitSample /\ commitHorizon <= commitSample /\ ~commitDone
      /\ commitHorizon \in Nat /\ commitSample \in Nat /\ head \in Nat
  BY <1>1 DEF LaneInv, SchedulerInv, SchedulerTypes
<1>3. CommitRows' = {} /\ commitOut'.rows = << >> /\ commitOut'.final = FALSE /\ PreviewRows' = PreviewRows
  BY <1>1, NoRows DEF CommitRows, PreviewRows
<1>4. /\ store' \in [Ids -> Events]
      /\ \A e \in Ids : \/ /\ \A r \in CommitRows : r.id # e
                           /\ store'[e] = store[e]
                        \/ \E r \in CommitRows : r.id = e /\ Shows(store'[e], r)
  BY <1>1, AppendedIs DEF LaneInv, LaneTypes, CommitRows
<1>5. \A r \in CommitRows :
         /\ r.lane = "commit" /\ r.lifecycle \in {"committed", "retracted"} /\ r.id < nextId
         /\ r.offset = Open => /\ ~commitOut.final /\ \E p \in pending : p.id = r.id
         /\ Committed(r) => /\ r.onset < commitSample
                            /\ r.offset # Open => r.onset < r.offset /\ r.offset <= head
  BY DEF LaneInv, CommitShape, IdsIssued
<1>6. LaneTypes'
  <2>1. << >> \in Seq(EventRows)
    OBVIOUS
  <2> QED
    BY <1>1, <1>3, <1>4, <2>1 DEF LaneInv, LaneTypes
<1>7. IdsIssued'
  <2>1. ASSUME NEW e \in Ids, e >= nextId PROVE store'[e] = Never
    <3>1. e \in Nat /\ nextId \in Nat
      BY DEF LaneInv, LaneTypes, Ids
    <3>2. \A r \in CommitRows : r.id # e
      BY <1>5, <2>1, <3>1
    <3> QED
      BY <1>4, <2>1, <3>2 DEF LaneInv, IdsIssued
  <2> QED
    BY <1>1, <1>3, <2>1 DEF LaneInv, IdsIssued
<1>8. PreviewShape'
  <2>1. ASSUME NEW e \in Ids
        PROVE  /\ store'[e].lifecycle = "provisional" => store'[e].lane = "preview"
               /\ store'[e].lane = "preview" => ~Committed(store'[e]) /\ store'[e].onset < store'[e].offset
    <3>1. CASE store'[e] = store[e]
      BY <3>1 DEF LaneInv, PreviewShape
    <3>2. CASE \E r \in CommitRows : Shows(store'[e], r)
      BY <1>5, <3>2 DEF Shows
    <3> QED
      BY <1>4, <3>1, <3>2
  <2> QED
    BY <1>1, <1>3, <2>1 DEF LaneInv, PreviewShape, Committed
<1>9. CommitShape'
  BY <1>1, <1>2, <1>3 DEF LaneInv, CommitShape
<1>10. OpenTailsKept'
  <2> SUFFICES ASSUME NEW e \in Ids, CommittedOpen(e)'
               PROVE  ~commitDone' /\ \E p \in pending' : p.id = e
    BY DEF OpenTailsKept
  <2>1. CASE (\A r \in CommitRows : r.id # e) /\ store'[e] = store[e]
    <3>1. CommittedOpen(e)
      BY <2>1 DEF CommittedOpen
    <3>2. \E p \in pending : p.id = e
      BY <2>1, <3>1 DEF LaneInv, OpenTailsKept
    <3>3. ~commitOut.final
      BY <3>2 DEF LaneInv, CommitShape
    <3> QED
      BY <1>1, <3>2, <3>3
  <2>2. CASE \E r \in CommitRows : r.id = e /\ Shows(store'[e], r)
    <3>1. PICK r \in CommitRows : r.id = e /\ Shows(store'[e], r)
      BY <2>2
    <3>2. r.offset = Open
      BY <3>1 DEF Shows, CommittedOpen
    <3> QED
      BY <1>1, <1>5, <3>1, <3>2
  <2> QED
    BY <1>4, <2>1, <2>2
<1>11. CommittedWithinAudio'
  <2> SUFFICES ASSUME NEW e \in Ids, store'[e].lifecycle = "committed"
               PROVE  /\ store'[e].onset < commitSample
                      /\ store'[e].offset # Open => store'[e].onset < store'[e].offset /\ store'[e].offset <= head
    BY <1>1, <1>2 DEF CommittedWithinAudio
  <2>1. CASE store'[e] = store[e]
    <3>1. store[e].onset \in Nat
      BY DEF LaneInv, LaneTypes, Events
    <3>2. /\ store[e].onset < commitHorizon
          /\ store[e].offset # Open => store[e].onset < store[e].offset /\ store[e].offset <= head
      BY <2>1 DEF LaneInv, CommittedWithinAudio
    <3> QED
      BY <1>2, <2>1, <3>1, <3>2
  <2>2. CASE \E r \in CommitRows : Shows(store'[e], r)
    BY <1>5, <2>2 DEF Shows, Committed
  <2> QED
    BY <1>4, <2>1, <2>2
<1>12. ASSUME ~overtaken, NEW e \in Ids, store'[e].lifecycle = "provisional"
       PROVE  store'[e].onset >= commitSample
  <2>1. CASE (\A r \in CommitRows : r.id # e) /\ store'[e] = store[e]
    <3>1. ~ (store[e].onset < commitSample)
      BY <1>12, <2>1 DEF LaneInv, SettledBehindBand
    <3>2. store[e].onset \in Nat
      BY DEF LaneInv, LaneTypes, Events
    <3> QED
      BY <1>2, <2>1, <3>1, <3>2
  <2>2. CASE \E r \in CommitRows : Shows(store'[e], r)
    BY <1>5, <1>12, <2>2 DEF Shows
  <2> QED
    BY <1>4, <2>1, <2>2
<1>13. SettledBehindHorizon'
  BY <1>1, <1>2, <1>12 DEF SettledBehindHorizon
<1>14. SettledBehindBand'
  <2>1. \A e \in Ids : store'[e].onset \in Nat
    BY <1>4 DEF Events
  <2>2. ASSUME ~overtaken, NEW e \in Ids, store'[e].lifecycle = "provisional" PROVE ~ (store'[e].onset < commitSample)
    <3>1. store'[e].onset >= commitSample
      BY <1>12, <2>2
    <3> QED
      BY <1>2, <2>1, <3>1
  <2> QED
    BY <1>1, <2>2 DEF SettledBehindBand
<1> QED
  BY <1>6, <1>7, <1>8, <1>9, <1>10, <1>11, <1>13, <1>14 DEF LaneInv

-----------------------------------------------------------------------------
(* The preview lane.                                                       *)

\* An identity as a window revises it: the same event, moved by no more than the
\* matching distance.
RevisedFrom(t, u) ==
    /\ t.id = u.id /\ t.pitch = u.pitch /\ Distance(t.onset, u.onset) <= MatchFrames

\* Everything a window decides, whatever the model heard.
Reconciliation(gone, emitted) ==
    /\ gone \subseteq tracks /\ emitted \subseteq Tracks /\ IsFiniteSet(emitted)
    /\ \A t \in emitted : /\ t.id < nextId' /\ t.onset < t.offset
                          /\ nextId <= t.id \/ \E u \in gone : RevisedFrom(t, u)
    /\ DistinctIds(tracks) => DistinctIds((tracks \ gone) \cup emitted)
    /\ nextId' \in nextId..(MaxEvents + 1)
    /\ tracks' \subseteq (tracks \ gone) \cup emitted
    /\ previewOut' \in Seq(EventRows)
    /\ RowsOf(previewOut') = {PreviewRow(t) : t \in emitted}

LEMMA PreviewRowIs ==
  ASSUME NEW t \in Tracks
  PROVE  /\ PreviewRow(t) \in EventRows /\ PreviewRow(t).id = t.id /\ PreviewRow(t).lane = "preview"
         /\ PreviewRow(t).lifecycle \in {"provisional", "retracted"} /\ PreviewRow(t).pitch = t.pitch
         /\ PreviewRow(t).onset = t.onset /\ PreviewRow(t).offset = t.offset
<1>1. t.id \in Ids /\ t.rev \in Nat /\ t.pitch \in Nat /\ t.onset \in Nat /\ t.offset \in Nat
  BY DEF Tracks
<1> QED
  BY <1>1 DEF PreviewRow, Row, EventRows, Lanes, Lifecycles

LEMMA DistanceFacts ==
  ASSUME MatchFrames \in Nat, NEW a \in Nat, NEW b \in Nat
  PROVE  /\ Distance(a, a) <= MatchFrames
         /\ Distance(a, b) <= MatchFrames => a <= b + MatchFrames /\ b <= a + MatchFrames /\ Distance(b, a) <= MatchFrames
BY DEF Distance, Larger

LEMMA ReconcileReconciles ==
  ASSUME LaneTypes, IdsIssued, PreviewShape, BoundsAssumption,
         NEW obs, IsFiniteSet(obs), obs \subseteq Notes, \A o \in obs : o.onset < o.offset,
         Reconcile(obs)
  PROVE  \E gone, emitted : Reconciliation(gone, emitted)
<1> DEFINE live == {t \in tracks : t.lifecycle # "retracted"}
           Provisional(t) == t.lifecycle = "provisional"
           Created(notes) == {[id |-> NewIds(notes)[n], rev |-> 1,
                            lifecycle |-> "provisional", pitch |-> n.pitch,
                            onset |-> n.onset, offset |-> n.offset] : n \in notes}
           Retaken(m) == [m[1] EXCEPT !.onset = m[2].onset, !.offset = m[2].offset]
           Revised(t, next) == [t EXCEPT !.rev = @ + 1, !.lifecycle = next]
           Moved(matches, settled) == {m \in matches \ settled : Provisional(m[1]) /\ Retaken(m) # m[1]}
           Emitted(matches, settled, dropped) ==
              {Revised(Retaken(m), "provisional") : m \in Moved(matches, settled)}
              \cup {Revised(Retaken(m), "committed") : m \in settled}
              \cup {Revised(t, "retracted") : t \in dropped}
              \cup Created(obs \ Rights(matches))
<1>1. PICK matches \in Matchings(live, obs) :
        \E settled \in SUBSET {m \in matches : Provisional(m[1])},
           dropped \in SUBSET {t \in live \ Lefts(matches) : Provisional(t)} :
           /\ {t.id : t \in Created(obs \ Rights(matches))} \subseteq Ids
           /\ nextId' = nextId + Cardinality(Created(obs \ Rights(matches)))
           /\ previewOut' = Rows({PreviewRow(t) : t \in Emitted(matches, settled, dropped)})
           /\ tracks' = Pruned((tracks \ (Lefts(Moved(matches, settled) \cup settled) \cup dropped))
                               \cup Emitted(matches, settled, dropped))
  BY DEF Reconcile
<1>2. PICK settled \in SUBSET {m \in matches : Provisional(m[1])},
           dropped \in SUBSET {t \in live \ Lefts(matches) : Provisional(t)} :
           /\ {t.id : t \in Created(obs \ Rights(matches))} \subseteq Ids
           /\ nextId' = nextId + Cardinality(Created(obs \ Rights(matches)))
           /\ previewOut' = Rows({PreviewRow(t) : t \in Emitted(matches, settled, dropped)})
           /\ tracks' = Pruned((tracks \ (Lefts(Moved(matches, settled) \cup settled) \cup dropped))
                               \cup Emitted(matches, settled, dropped))
  BY <1>1
<1> DEFINE additions == obs \ Rights(matches)
           created == Created(additions)
           moved == Moved(matches, settled)
           emitted == Emitted(matches, settled, dropped)
           gone == Lefts(moved \cup settled) \cup dropped
           new == NewIds(additions)
           count == Cardinality(additions)
           fresh == [n \in additions |-> [id |-> new[n], rev |-> 1, lifecycle |-> "provisional",
                                          pitch |-> n.pitch, onset |-> n.onset, offset |-> n.offset]]
           again == [m \in moved |-> Revised(Retaken(m), "provisional")]
           agreed == [m \in settled |-> Revised(Retaken(m), "committed")]
           withdrawn == [t \in dropped |-> Revised(t, "retracted")]
<1>3. /\ created = {fresh[n] : n \in additions}
      /\ emitted = {again[m] : m \in moved} \cup {agreed[m] : m \in settled}
                   \cup {withdrawn[t] : t \in dropped} \cup created
  OBVIOUS
<1>4. /\ {t.id : t \in created} \subseteq Ids /\ nextId' = nextId + Cardinality(created)
      /\ previewOut' = Rows({PreviewRow(t) : t \in emitted})
      /\ tracks' = Pruned((tracks \ gone) \cup emitted)
  BY <1>2
<1>5. /\ moved \subseteq matches /\ settled \subseteq matches /\ dropped \subseteq tracks
      /\ moved \cap settled = {} /\ live \subseteq tracks
      /\ \A t \in dropped : t \notin Lefts(matches)
  OBVIOUS
<1>6. /\ \A m \in matches : /\ m[1] \in live /\ m[2] \in obs /\ m[1].pitch = m[2].pitch
                            /\ Distance(m[1].onset, m[2].onset) <= MatchFrames
      /\ \A m, n \in matches : m[1] = n[1] \/ m[2] = n[2] => m = n
  BY MatchingIsOneToOne
<1>7. IsFiniteSet(matches) /\ IsFiniteSet(moved) /\ IsFiniteSet(settled) /\ IsFiniteSet(dropped)
      /\ IsFiniteSet(additions)
  <2>1. IsFiniteSet(live)
    <3> HIDE DEF live
    <3> QED
      BY <1>5, FS_Subset DEF LaneTypes
  <2>2. IsFiniteSet(matches)
    <3> HIDE DEF live
    <3> QED
      BY <2>1, MatchingIsFinite
  <2>3. additions \subseteq obs
    OBVIOUS
  <2> HIDE DEF moved, live, additions
  <2> QED
    BY <1>5, <2>2, <2>3, FS_Subset DEF LaneTypes
<1>8. /\ count \in Nat
      /\ \A n \in additions : new[n] \in nextId..(nextId + count - 1)
      /\ \A n, o \in additions : new[n] = new[o] => n = o
      /\ \A k \in nextId..(nextId + count - 1) : \E n \in additions : new[n] = k
  <2>1. nextId \in Nat
    BY DEF LaneTypes
  <2> HIDE DEF additions
  <2> QED
    BY <1>7, <2>1, NewIdsAreNext
<1>9. \A n \in additions : n \in Notes /\ n.onset < n.offset
  OBVIOUS
<1>10. ASSUME NEW n \in additions
       PROVE  /\ fresh[n] \in Tracks /\ fresh[n].id = new[n] /\ new[n] \in Ids
              /\ fresh[n].onset < fresh[n].offset
  <2>1. n.pitch \in Nat /\ n.onset \in Nat /\ n.offset \in Nat /\ n.onset < n.offset
    BY <1>9 DEF Notes
  <2>2. fresh[n] = [id |-> new[n], rev |-> 1, lifecycle |-> "provisional",
                    pitch |-> n.pitch, onset |-> n.onset, offset |-> n.offset]
    OBVIOUS
  <2>3. fresh[n] \in created
    BY <1>3
  <2> HIDE DEF created, fresh, new
  <2>4. new[n] \in Ids
    <3>1. fresh[n].id = new[n]
      BY <2>2
    <3> QED
      BY <1>4, <2>3, <3>1
  <2> QED
    BY <2>1, <2>2, <2>4 DEF Tracks, Lifecycles
<1>11. ASSUME NEW m \in matches, NEW next \in Lifecycles, NEW t, t = Revised(Retaken(m), next)
       PROVE  /\ t \in Tracks /\ t.onset < t.offset /\ RevisedFrom(t, m[1])
  <2>1. m[1] \in Tracks /\ m[2] \in Notes /\ m[2].onset < m[2].offset
        /\ Distance(m[1].onset, m[2].onset) <= MatchFrames
    BY <1>5, <1>6 DEF LaneTypes
  <2>2. /\ m[1].rev + 1 \in Nat /\ m[2].onset \in Nat /\ m[2].offset \in Nat /\ m[1].onset \in Nat
        /\ m[1].id \in Ids /\ m[1].pitch \in Nat
    BY <2>1 DEF Tracks, Notes
  <2>3. Distance(m[2].onset, m[1].onset) <= MatchFrames
    BY <2>1, <2>2, DistanceFacts DEF BoundsAssumption
  <2>4. t = [id |-> m[1].id, rev |-> m[1].rev + 1, lifecycle |-> next, pitch |-> m[1].pitch,
             onset |-> m[2].onset, offset |-> m[2].offset]
    BY <1>11, <2>1 DEF Tracks
  <2> HIDE DEF Revised, Retaken
  <2> QED
    BY <2>1, <2>2, <2>3, <2>4 DEF Tracks, RevisedFrom
<1>12. ASSUME NEW u \in dropped, NEW t, t = Revised(u, "retracted")
       PROVE  /\ t \in Tracks /\ t.onset < t.offset /\ RevisedFrom(t, u)
  <2>1. u \in Tracks /\ u.onset < u.offset
    BY <1>5 DEF LaneTypes, PreviewShape
  <2>2. u.rev + 1 \in Nat /\ u.onset \in Nat /\ u.id \in Ids /\ u.pitch \in Nat /\ u.offset \in Nat
    BY <2>1 DEF Tracks
  <2>3. Distance(u.onset, u.onset) <= MatchFrames
    BY <2>2, DistanceFacts DEF BoundsAssumption
  <2>4. t = [id |-> u.id, rev |-> u.rev + 1, lifecycle |-> "retracted", pitch |-> u.pitch,
             onset |-> u.onset, offset |-> u.offset]
    BY <1>12, <2>1 DEF Tracks
  <2> HIDE DEF Revised
  <2> QED
    BY <2>1, <2>2, <2>3, <2>4 DEF Tracks, RevisedFrom, Lifecycles
<1>13. /\ \A m \in moved : again[m] \in Tracks /\ again[m].onset < again[m].offset /\ RevisedFrom(again[m], m[1])
       /\ \A m \in settled : agreed[m] \in Tracks /\ agreed[m].onset < agreed[m].offset /\ RevisedFrom(agreed[m], m[1])
       /\ \A u \in dropped : withdrawn[u] \in Tracks /\ withdrawn[u].onset < withdrawn[u].offset /\ RevisedFrom(withdrawn[u], u)
  <2> DEFINE first == "provisional"  second == "committed"
  <2>1. first \in Lifecycles /\ second \in Lifecycles
    BY DEF Lifecycles
  <2>2. \A m \in moved : m \in matches /\ again[m] = Revised(Retaken(m), "provisional")
    BY <1>5
  <2>3. \A m \in settled : m \in matches /\ agreed[m] = Revised(Retaken(m), "committed")
    BY <1>5
  <2>4. \A u \in dropped : withdrawn[u] = Revised(u, "retracted")
    OBVIOUS
  <2> HIDE DEF Revised, Retaken, again, agreed, withdrawn, moved
  <2> QED
    BY <1>11, <1>12, <2>1, <2>2, <2>3, <2>4
<1>14. count = Cardinality(created)
  <2>1. \A n, o \in additions : fresh[n] = fresh[o] => n = o
    BY <1>8, <1>10
  <2>4. fresh \in [additions -> created]
    BY <1>3
  <2>2. fresh \in Bijection(additions, created)
    <3> HIDE DEF created, fresh, additions
    <3> QED
      BY <1>3, <2>1, <2>4 DEF Bijection, Injection, Surjection, IsInjective
  <2>3. ExistsBijection(additions, created)
    BY <2>2 DEF ExistsBijection
  <2> HIDE DEF created, additions, fresh
  <2> QED
    BY <1>7, <2>3, FS_Bijection
<1> HIDE DEF created, fresh, again, agreed, withdrawn, moved, emitted, gone, new, count, live
<1>15. nextId' = nextId + count
  BY <1>4, <1>14
<1>16. nextId' \in nextId..(MaxEvents + 1)
  <2>1. nextId \in 1..(MaxEvents + 1) /\ MaxEvents \in Nat
    BY DEF LaneTypes, BoundsAssumption
  <2>2. CASE count = 0
    BY <1>15, <2>1, <2>2
  <2>3. CASE count # 0
    <3>1. nextId + count - 1 \in nextId..(nextId + count - 1)
      BY <1>8, <2>1, <2>3
    <3>2. nextId + count - 1 \in Ids
      BY <1>8, <1>10, <3>1
    <3> QED
      BY <1>8, <1>15, <2>1, <3>2 DEF Ids
  <2> QED
    BY <2>2, <2>3
<1>17. \A t \in emitted : \/ \E m \in moved : t = again[m]
                          \/ \E m \in settled : t = agreed[m]
                          \/ \E u \in dropped : t = withdrawn[u]
                          \/ \E n \in additions : t = fresh[n]
  BY <1>3
<1>18. nextId \in Nat /\ nextId' \in Nat /\ nextId <= nextId' /\ \A n \in additions : nextId <= new[n] /\ new[n] < nextId' /\ new[n] \in Nat
  <2>1. nextId \in Nat
    BY DEF LaneTypes
  <2> QED
    BY <1>8, <1>15, <2>1
<1>19. \A t \in tracks : t.id \in Nat /\ t.id < nextId
  BY DEF LaneTypes, IdsIssued, Tracks, Ids
<1>20. gone \subseteq tracks /\ \A m \in moved \cup settled : m[1] \in gone /\ m[1] \in tracks
  BY <1>5, <1>6 DEF gone, Lefts
<1>21. dropped \subseteq gone
  BY DEF gone
<1>22. ASSUME NEW t \in emitted
       PROVE  /\ t \in Tracks /\ t.onset < t.offset
              /\ \/ \E n \in additions : t.id = new[n]
                 \/ \E u \in gone : RevisedFrom(t, u)
  BY <1>10, <1>13, <1>17, <1>20, <1>21
<1>23. \A t \in emitted : t.id < nextId'
  <2> SUFFICES ASSUME NEW t \in emitted PROVE t.id < nextId'
    OBVIOUS
  <2>1. CASE \E n \in additions : t.id = new[n]
    BY <1>18, <2>1
  <2>2. CASE \E u \in gone : RevisedFrom(t, u)
    <3>1. t.id < nextId /\ t.id \in Nat
      BY <1>19, <1>20, <2>2 DEF RevisedFrom
    <3> QED
      BY <1>18, <3>1
  <2> QED
    BY <1>22, <2>1, <2>2
<1>24. \A t \in emitted : nextId <= t.id \/ \E u \in gone : RevisedFrom(t, u)
  BY <1>18, <1>22
<1>25. IsFiniteSet(emitted)
  <2> DEFINE a == {again[m] : m \in moved}
             b == {agreed[m] : m \in settled}
             c == {withdrawn[u] : u \in dropped}
  <2>1. IsFiniteSet(a) /\ IsFiniteSet(b) /\ IsFiniteSet(c)
    BY <1>7, FiniteValues
  <2>2. IsFiniteSet(created)
    BY <1>3, <1>7, FiniteValues
  <2>3. emitted = ((a \cup b) \cup c) \cup created
    BY <1>3
  <2> HIDE DEF a, b, c
  <2>4. IsFiniteSet(a \cup b)
    BY <2>1, FS_Union
  <2>5. IsFiniteSet((a \cup b) \cup c)
    BY <2>1, <2>4, FS_Union
  <2> QED
    BY <2>2, <2>3, <2>5, FS_Union
<1>26. DistinctIds(tracks) => DistinctIds((tracks \ gone) \cup emitted)
  <2> SUFFICES ASSUME DistinctIds(tracks) PROVE DistinctIds((tracks \ gone) \cup emitted)
    OBVIOUS
  <2>1. \A m, n \in matches : m[1].id = n[1].id => m = n
    BY <1>5, <1>6 DEF DistinctIds
  <2>2. \A m \in matches, u \in dropped : m[1].id # u.id
    <3> SUFFICES ASSUME NEW m \in matches, NEW u \in dropped, m[1].id = u.id PROVE FALSE
      OBVIOUS
    <3>1. m[1] = u
      BY <1>5, <1>6 DEF DistinctIds
    <3> QED
      BY <1>5, <3>1 DEF Lefts
  <2>3. \A u, w \in dropped : u.id = w.id => u = w
    BY <1>5 DEF DistinctIds
  <2>4. /\ \A m \in moved : again[m].id = m[1].id /\ m \in matches /\ m \notin settled
        /\ \A m \in settled : agreed[m].id = m[1].id /\ m \in matches
        /\ \A u \in dropped : withdrawn[u].id = u.id
        /\ \A n \in additions : fresh[n].id = new[n]
    BY <1>5, <1>10, <1>13 DEF RevisedFrom
  <2>5. \A m \in matches, n \in additions : m[1].id # new[n]
    <3>1. \A m \in matches : m[1].id \in Nat /\ m[1].id < nextId
      BY <1>5, <1>6, <1>19
    <3> QED
      BY <1>18, <3>1
  <2>6. \A u \in dropped, n \in additions : u.id # new[n]
    <3>1. \A u \in dropped : u.id \in Nat /\ u.id < nextId
      BY <1>5, <1>19
    <3> QED
      BY <1>18, <3>1
  <2>7. ASSUME NEW t \in emitted, NEW s \in emitted, t.id = s.id PROVE t = s
    <3>1. CASE \E m \in moved : t = again[m]
      BY <1>17, <2>1, <2>2, <2>4, <2>5, <2>7, <3>1
    <3>2. CASE \E m \in settled : t = agreed[m]
      BY <1>17, <2>1, <2>2, <2>4, <2>5, <2>7, <3>2
    <3>3. CASE \E u \in dropped : t = withdrawn[u]
      BY <1>17, <2>2, <2>3, <2>4, <2>6, <2>7, <3>3
    <3>4. CASE \E n \in additions : t = fresh[n]
      BY <1>8, <1>17, <2>4, <2>5, <2>6, <2>7, <3>4
    <3> QED
      BY <1>17, <3>1, <3>2, <3>3, <3>4
  <2>8. ASSUME NEW t \in tracks \ gone, NEW s \in emitted PROVE t.id # s.id
    <3>1. CASE \E n \in additions : s.id = new[n]
      BY <1>18, <1>19, <3>1
    <3>2. CASE \E u \in gone : RevisedFrom(s, u)
      <4>1. PICK u \in gone : s.id = u.id
        BY <3>2 DEF RevisedFrom
      <4>2. u \in tracks /\ u # t
        BY <1>20
      <4> QED
        BY <4>1, <4>2 DEF DistinctIds
    <3> QED
      BY <1>22, <3>1, <3>2
  <2> QED
    BY <2>7, <2>8 DEF DistinctIds
<1>27. /\ previewOut' \in Seq(EventRows)
       /\ RowsOf(previewOut') = {PreviewRow(t) : t \in emitted}
  <2> DEFINE row == [t \in emitted |-> PreviewRow(t)]
             all == {PreviewRow(t) : t \in emitted}
  <2>1. all = {row[t] : t \in emitted} /\ previewOut' = Rows(all)
    BY <1>4
  <2>2. all \subseteq EventRows
    BY <1>22, PreviewRowIs
  <2> HIDE DEF row, all
  <2>3. IsFiniteSet(all)
    BY <1>25, <2>1, FiniteValues
  <2>4. Rows(all) \in Seq(all) /\ RowsOf(Rows(all)) = all
    BY <2>3, RowsOfSet
  <2>5. Seq(all) \subseteq Seq(EventRows)
    BY <2>2
  <2> QED
    BY <2>1, <2>4, <2>5 DEF all
<1>28. tracks' \subseteq (tracks \ gone) \cup emitted
  BY <1>4 DEF Pruned
<1>29. Reconciliation(gone, emitted)
  BY <1>16, <1>20, <1>22, <1>23, <1>24, <1>25, <1>26, <1>27, <1>28 DEF Reconciliation
<1> QED
  BY <1>29

\* What any step of the preview lane leaves as it was.
LEMMA CommitLaneKept ==
  ASSUME LaneInv, UNCHANGED <<audioVars, commitVars, commitHorizon>>
  PROVE  /\ UNCHANGED <<head, commitSample, commitHorizon, commitDone, pending, commitOut>>
         /\ CommitRows' = CommitRows
BY DEF audioVars, commitVars, CommitRows

\* A window of the preview lane: its rows wait to be applied.
LEMMA LanePreviews ==
  ASSUME LaneInv, SchedulerInv', PreviewWindow
  PROVE  LaneInv'
<1>1. PICK obs \in Observations(Played \cup Imagined, windowStart, windowStart + PreviewLength, 0) :
         Reconcile(obs)
  BY DEF PreviewWindow
<1>2. /\ UNCHANGED <<audioVars, commitVars, commitHorizon, previewDone, eventVars>>
      /\ windowStart' = windowStart + PreviewHop
  BY DEF PreviewWindow
<1>3. windowStart \in Nat /\ windowStart + PreviewLength \in Nat /\ windowStart' \in Nat
  BY <1>2, BoundsAssumption DEF LaneInv, LaneTypes, BoundsAssumption
<1>4. /\ IsFiniteSet(obs) /\ obs \subseteq Notes
      /\ \A o \in obs : o.onset < o.offset
  <2>1. 0 \in Nat /\ Played \cup Imagined \in SUBSET (Played \cup Imagined)
    OBVIOUS
  <2> DEFINE upto == windowStart + PreviewLength
  <2>2. upto \in Nat /\ obs \in Observations(Played \cup Imagined, windowStart, upto, 0)
    BY <1>1, <1>3
  <2> HIDE DEF upto
  <2> QED
    BY <1>3, <2>1, <2>2, ObservationsAreNotes, BoundsAssumption
<1>5. PICK gone, emitted : Reconciliation(gone, emitted)
  BY <1>1, <1>4, ReconcileReconciles, BoundsAssumption DEF LaneInv
<1>6. /\ UNCHANGED <<head, commitSample, commitHorizon, commitDone, pending, commitOut>>
      /\ CommitRows' = CommitRows
      /\ UNCHANGED <<store, overtaken, previewDone>>
  BY <1>2, CommitLaneKept DEF eventVars
<1>7. PreviewRows' = {PreviewRow(t) : t \in emitted}
  BY <1>5 DEF PreviewRows, Reconciliation
<1>8. /\ nextId \in Nat /\ nextId' \in Nat /\ nextId <= nextId' /\ nextId' \in 1..(MaxEvents + 1)
  BY <1>5, BoundsAssumption DEF LaneInv, LaneTypes, Reconciliation
<1>9. /\ tracks' \subseteq tracks \cup emitted
      /\ \A t \in emitted : t \in Tracks /\ t.id < nextId' /\ t.onset < t.offset
  BY <1>5 DEF Reconciliation
<1>10. \A t \in tracks : t \in Tracks /\ t.id \in Nat /\ t.id < nextId /\ t.onset < t.offset
  BY DEF LaneInv, LaneTypes, IdsIssued, PreviewShape, Tracks, Ids
<1>11. \A t \in tracks' : t \in Tracks /\ t.id < nextId' /\ t.onset < t.offset
  BY <1>8, <1>9, <1>10
<1>12. LaneTypes'
  <2>1. IsFiniteSet(tracks')
    <3>1. IsFiniteSet(tracks \cup emitted)
      BY <1>5, FS_Union DEF LaneInv, LaneTypes, Reconciliation
    <3> QED
      BY <1>9, <3>1, FS_Subset
  <2> QED
    BY <1>3, <1>5, <1>6, <1>8, <1>11, <2>1 DEF LaneInv, LaneTypes, Reconciliation
<1>13. \A r \in PreviewRows' : /\ r.id < nextId' /\ r.lane = "preview"
                               /\ r.lifecycle \in {"provisional", "retracted"} /\ r.onset < r.offset
  <2>1. \A t \in emitted : /\ PreviewRow(t).id = t.id /\ PreviewRow(t).lane = "preview"
                           /\ PreviewRow(t).lifecycle \in {"provisional", "retracted"}
                           /\ PreviewRow(t).onset = t.onset /\ PreviewRow(t).offset = t.offset
    BY <1>9, PreviewRowIs
  <2> QED
    BY <1>7, <1>9, <2>1
<1>14. IdsIssued'
  <2>1. \A p \in pending : p.id < nextId'
    <3>1. \A p \in pending : p.id < nextId /\ p.id \in Nat
      BY DEF LaneInv, LaneTypes, IdsIssued, Pendings, Ids
    <3> QED
      BY <1>8, <3>1
  <2>2. \A r \in CommitRows : r.id < nextId'
    <3>1. CommitRows \subseteq EventRows
      BY DEF LaneInv, LaneTypes, CommitRows, RowsOf
    <3>2. \A r \in CommitRows : r.id < nextId /\ r.id \in Nat
      BY <3>1 DEF LaneInv, IdsIssued, EventRows, Ids
    <3> QED
      BY <1>8, <3>2
  <2>3. \A e \in Ids : e >= nextId' => store[e] = Never
    <3>1. \A e \in Ids : e \in Nat
      BY DEF Ids
    <3>2. \A e \in Ids : e >= nextId => store[e] = Never
      BY DEF LaneInv, IdsIssued
    <3> QED
      BY <1>8, <3>1, <3>2
  <2> QED
    BY <1>6, <1>11, <1>13, <2>1, <2>2, <2>3 DEF IdsIssued
<1>15. PreviewShape'
  BY <1>6, <1>11, <1>13 DEF LaneInv, PreviewShape
<1>16. CommitShape'
  BY <1>6 DEF LaneInv, CommitShape
<1>17. OpenTailsKept' /\ CommittedWithinAudio' /\ SettledBehindHorizon' /\ SettledBehindBand'
  BY <1>6 DEF LaneInv, OpenTailsKept, CommittedOpen, CommittedWithinAudio, SettledBehindHorizon,
              SettledBehindBand
<1> QED
  BY <1>12, <1>14, <1>15, <1>16, <1>17 DEF LaneInv

\* What applying the preview lane's rows does to the store.
LEMMA PreviewApplied ==
  ASSUME LaneInv, ApplyPreview
  PROVE  /\ store' \in [Ids -> Events]
         /\ \A e \in Ids : \/ /\ \A r \in PreviewRows : r.id # e
                              /\ store'[e] = store[e]
                           \/ \E r \in PreviewRows : r.id = e /\ Shows(store'[e], r)
         /\ \A r \in PreviewRows : /\ r \in EventRows /\ r.lane = "preview" /\ r.id < nextId
                                   /\ r.lifecycle \in {"provisional", "retracted"}
                                   /\ r.onset < r.offset /\ r.onset \in Nat
         /\ ~overtaken' => /\ ~overtaken
                           /\ \A r \in PreviewRows : commitSample + 2 * MatchFrames <= r.onset
<1>1. /\ store' = Appended(previewOut)
      /\ overtaken' = (overtaken \/ \E i \in DOMAIN previewOut :
                  previewOut[i].onset < commitSample + 2 * MatchFrames)
  BY DEF ApplyPreview, AppendRows
<1>2. /\ store' \in [Ids -> Events]
      /\ \A e \in Ids : \/ /\ \A r \in PreviewRows : r.id # e
                           /\ store'[e] = store[e]
                        \/ \E r \in PreviewRows : r.id = e /\ Shows(store'[e], r)
  BY <1>1, AppendedIs DEF LaneInv, LaneTypes, PreviewRows
<1>3. \A r \in PreviewRows : /\ r \in EventRows /\ r.lane = "preview" /\ r.id < nextId
                             /\ r.lifecycle \in {"provisional", "retracted"}
                             /\ r.onset < r.offset /\ r.onset \in Nat
  <2>1. PreviewRows \subseteq EventRows
    BY DEF LaneInv, LaneTypes, PreviewRows, RowsOf
  <2> QED
    BY <2>1 DEF LaneInv, PreviewShape, IdsIssued, EventRows
<1>4. ~overtaken' => ~overtaken /\ \A r \in PreviewRows : ~ (r.onset < commitSample + 2 * MatchFrames)
  BY <1>1 DEF PreviewRows, RowsOf
<1>5. commitSample + 2 * MatchFrames \in Nat
  BY BoundsAssumption DEF BoundsAssumption, LaneInv, SchedulerInv, SchedulerTypes
<1>6. ASSUME NEW n \in Nat, NEW m \in Nat, ~ (n < m) PROVE m <= n
  BY <1>6
<1> QED
  BY <1>2, <1>3, <1>4, <1>5, <1>6

LEMMA LaneShowsPreview ==
  ASSUME LaneInv, SchedulerInv', ApplyPreview
  PROVE  LaneInv'
<1>1. /\ UNCHANGED <<head, commitSample, commitHorizon, commitDone, pending, commitOut>>
      /\ CommitRows' = CommitRows
      /\ UNCHANGED <<windowStart, tracks, previewDone, nextId>> /\ previewOut' = << >>
      /\ overtaken' \in BOOLEAN
  BY CommitLaneKept DEF ApplyPreview, LaneInv, LaneTypes
<1>2. PreviewRows' = {}
  BY <1>1, NoRows DEF PreviewRows
<1>3. /\ store' \in [Ids -> Events]
      /\ \A e \in Ids : \/ /\ \A r \in PreviewRows : r.id # e
                           /\ store'[e] = store[e]
                        \/ \E r \in PreviewRows : r.id = e /\ Shows(store'[e], r)
      /\ \A r \in PreviewRows : /\ r \in EventRows /\ r.lane = "preview" /\ r.id < nextId
                                /\ r.lifecycle \in {"provisional", "retracted"}
                                /\ r.onset < r.offset /\ r.onset \in Nat
      /\ ~overtaken' => /\ ~overtaken
                        /\ \A r \in PreviewRows : commitSample + 2 * MatchFrames <= r.onset
  BY PreviewApplied
<1>4. /\ commitSample \in Nat /\ commitHorizon \in Nat /\ MatchFrames \in Nat
      /\ commitHorizon <= commitSample
  BY BoundsAssumption DEF BoundsAssumption, LaneInv, SchedulerInv, SchedulerTypes
<1>5. LaneTypes'
  <2>1. << >> \in Seq(EventRows)
    OBVIOUS
  <2> QED
    BY <1>1, <1>3, <2>1 DEF LaneInv, LaneTypes
<1>6. IdsIssued'
  <2>1. ASSUME NEW e \in Ids, e >= nextId PROVE store'[e] = Never
    <3>1. e \in Nat /\ nextId \in Nat
      BY DEF LaneInv, LaneTypes, Ids
    <3>2. \A r \in PreviewRows : r.id # e
      BY <1>3, <2>1, <3>1
    <3> QED
      BY <1>3, <2>1, <3>2 DEF LaneInv, IdsIssued
  <2> QED
    BY <1>1, <1>2, <2>1 DEF LaneInv, IdsIssued
<1>7. ASSUME NEW e \in Ids
      PROVE  \/ store'[e] = store[e]
             \/ /\ store'[e].lane = "preview" /\ store'[e].lifecycle \in {"provisional", "retracted"}
                /\ store'[e].onset < store'[e].offset
                /\ ~overtaken' => commitSample + 2 * MatchFrames <= store'[e].onset
  <2>1. CASE \E r \in PreviewRows : Shows(store'[e], r)
    BY <1>3, <2>1 DEF Shows
  <2> QED
    BY <1>3, <2>1
<1>8. PreviewShape'
  BY <1>1, <1>2, <1>7 DEF LaneInv, PreviewShape, Committed
<1>9. CommitShape'
  BY <1>1 DEF LaneInv, CommitShape
<1>10. OpenTailsKept' /\ CommittedWithinAudio'
  <2>1. \A e \in Ids : store'[e].lifecycle = "committed" => store'[e] = store[e]
    BY <1>7
  <2> QED
    BY <1>1, <2>1 DEF LaneInv, OpenTailsKept, CommittedOpen, CommittedWithinAudio
<1>11. \A e \in Ids : store'[e].onset \in Nat
  BY <1>3 DEF Events
<1>12. ASSUME NEW x \in Nat, commitSample + 2 * MatchFrames <= x
       PROVE  x >= commitHorizon /\ ~ (x < commitSample)
  <2>1. 2 * MatchFrames \in Nat
    BY <1>4
  <2> DEFINE twice == 2 * MatchFrames
  <2> HIDE DEF twice
  <2>2. twice \in Nat /\ commitSample + twice <= x
    BY <1>12, <2>1 DEF twice
  <2> QED
    BY <1>4, <2>2
<1>13. SettledBehindHorizon' /\ SettledBehindBand'
  BY <1>1, <1>3, <1>7, <1>11, <1>12 DEF LaneInv, SettledBehindHorizon, SettledBehindBand
<1> QED
  BY <1>5, <1>6, <1>8, <1>9, <1>10, <1>13 DEF LaneInv

LEMMA LanePreviewEnds ==
  ASSUME LaneInv, SchedulerInv', PreviewFinalize
  PROVE  LaneInv'
<1>1. /\ UNCHANGED <<head, commitSample, commitHorizon, commitDone, pending, commitOut>>
      /\ CommitRows' = CommitRows
      /\ UNCHANGED <<windowStart, previewOut, store, overtaken, nextId>> /\ PreviewRows' = PreviewRows
      /\ previewDone' = TRUE /\ tracks' \subseteq tracks
  BY CommitLaneKept DEF PreviewFinalize, eventVars, Pruned, PreviewRows
<1>2. IsFiniteSet(tracks')
  BY <1>1, FS_Subset DEF LaneInv, LaneTypes
<1>3. LaneTypes' /\ IdsIssued' /\ PreviewShape'
  BY <1>1, <1>2 DEF LaneInv, LaneTypes, IdsIssued, PreviewShape
<1>4. CommitShape' /\ OpenTailsKept' /\ CommittedWithinAudio' /\ SettledBehindHorizon' /\ SettledBehindBand'
  BY <1>1 DEF LaneInv, CommitShape, OpenTailsKept, CommittedOpen, CommittedWithinAudio, SettledBehindHorizon,
              SettledBehindBand
<1> QED
  BY <1>3, <1>4 DEF LaneInv

LEMMA DecodeWithinAudio ==
  ASSUME LaneInv, NEW decodeHead \in Nat, decodeHead <= head, NEW final \in BOOLEAN,
         final => decodeHead = head
  PROVE  /\ SourceStart(decodeHead) \in Nat /\ BandEnd(decodeHead, final) \in Nat
         /\ commitSample <= BandEnd(decodeHead, final) /\ BandEnd(decodeHead, final) <= head
<1>1. /\ head \in Nat /\ commitSample \in Nat /\ commitSample <= head
      /\ Guard \in Nat /\ Buffer \in Nat
  BY CommitTimingAssumption DEF LaneInv, SchedulerInv, SchedulerTypes
<1>2. SourceStart(decodeHead) \in Nat
  BY <1>1 DEF SourceStart, Larger
<1>3. BandEnd(decodeHead, final) = IF final THEN head ELSE Larger(commitSample, decodeHead - Guard)
  BY DEF BandEnd
<1>4. /\ Larger(commitSample, decodeHead - Guard) \in Nat
      /\ commitSample <= Larger(commitSample, decodeHead - Guard)
      /\ Larger(commitSample, decodeHead - Guard) <= head
  BY <1>1 DEF Larger
<1> QED
  BY <1>1, <1>2, <1>3, <1>4

LEMMA LaneStep == LaneInv /\ [Next]_vars => LaneInv'
<1> SUFFICES ASSUME LaneInv, [Next]_vars PROVE LaneInv'
  OBVIOUS
<1>1. SchedulerInv'
  BY SchedulerStep DEF LaneInv
<1>2. CASE AcceptPcm \/ BeginSettling \/ UNCHANGED vars
  BY <1>1, <1>2, LaneAudio
<1>3. CASE CommitDecode
  <2>1. /\ nextDecode <= head /\ Decode(nextDecode, FALSE) /\ commitOut = NoUpdate /\ ~commitDone
        /\ UNCHANGED <<head, commitDone, commitHorizon, previewVars, eventVars>> /\ nextDecode \in Nat
    BY <1>3 DEF CommitDecode, audioVars, LaneInv, SchedulerInv, SchedulerTypes
  <2>2. FALSE \in BOOLEAN
    OBVIOUS
  <2>3. /\ SourceStart(nextDecode) \in Nat /\ BandEnd(nextDecode, FALSE) \in Nat
        /\ commitSample <= BandEnd(nextDecode, FALSE) /\ BandEnd(nextDecode, FALSE) <= head
    BY <2>1, <2>2, DecodeWithinAudio
  <2> QED
    BY <1>1, <2>1, <2>2, <2>3, LaneDecodes
<1>8. CASE CommitFinalize
  <2>1. /\ Decode(head, TRUE) /\ commitOut = NoUpdate /\ ~commitDone
        /\ UNCHANGED <<head, commitDone, commitHorizon, previewVars, eventVars>>
    BY <1>8 DEF CommitFinalize, audioVars
  <2>4. head \in Nat /\ head <= head
    <3>1. head \in Nat
      BY DEF LaneInv, SchedulerInv, SchedulerTypes
    <3> QED
      BY <3>1
  <2>2. TRUE \in BOOLEAN
    OBVIOUS
  <2>3. /\ SourceStart(head) \in Nat /\ BandEnd(head, TRUE) \in Nat
        /\ commitSample <= BandEnd(head, TRUE) /\ BandEnd(head, TRUE) <= head
    BY <2>2, <2>4, DecodeWithinAudio
  <2> QED
    BY <1>1, <2>1, <2>2, <2>3, <2>4, LaneDecodes
<1>4. CASE ApplyCommit
  BY <1>1, <1>4, LaneCommits
<1>5. CASE PreviewWindow
  BY <1>1, <1>5, LanePreviews
<1>6. CASE ApplyPreview
  BY <1>1, <1>6, LaneShowsPreview
<1>7. CASE PreviewFinalize
  BY <1>1, <1>7, LanePreviewEnds
<1> QED
  BY <1>2, <1>3, <1>4, <1>5, <1>6, <1>7, <1>8 DEF Next

LEMMA LaneInvariant == Spec => []LaneInv
BY LaneInit, LaneStep, PTL DEF Spec

\* In every reachable state the store's events are what the two horizons
\* promise (corrected.py, corrected_commit.py): every event has the shape of its
\* lane and lifecycle, every note left open is tracked by the commit lane or
\* about to be shown closed, no committed note reaches past the audio that was
\* accepted, and nothing behind the commit horizon is provisional unless the
\* commit lane overtook the preview lane.  This holds for any notes the models
\* may hear, in any order the lanes' results are applied.
THEOREM EventsKeepPromises == Spec => []EventsFollowHorizon
<1>1. LaneInv => EventsFollowHorizon
  <2> SUFFICES ASSUME LaneInv PROVE EventsFollowHorizon
    OBVIOUS
  <2>1. TypeOK
    BY DEF LaneInv, SchedulerInv, LaneTypes, IdsIssued, CommitShape, TypeOK
  <2>2. OpenTailsTracked
    <3>1. \A r \in CommitRows : \E i \in DOMAIN commitOut.rows : commitOut.rows[i] = r
      BY DEF CommitRows, RowsOf
    <3> QED
      BY <3>1 DEF LaneInv, OpenTailsKept, OpenTailsTracked
  <2> QED
    BY <2>1, <2>2 DEF LaneInv, EventsFollowHorizon
<1> QED
  BY <1>1, LaneInvariant, PTL

-----------------------------------------------------------------------------
(* What has been decided stands.                                           *)

SameNote(a, b) == a.pitch = b.pitch /\ a.onset = b.onset

\* A row of the event waits to be applied by the preview lane.
BeingRevised(e) == \E r \in PreviewRows : r.id = e

\* The commit lane has committed the event, or is about to.
IsDecided(e) == Committed(store[e]) \/ \E r \in CommitRows : r.id = e /\ Committed(r)

OneOfEach == DistinctIds(pending) /\ DistinctIds(tracks) /\ DistinctIds(PreviewRows)

\* No decision on its way contradicts what is committed, and every event whose
\* end is open is committed, or about to be, as the note it was decided for.
DecisionsHeld ==
    ~overtaken =>
        /\ \A r \in CommitRows :
              Committed(store[r.id]) => Committed(r) /\ SameNote(r, store[r.id])
        /\ \A p \in pending :
              /\ \A r \in CommitRows : r.id = p.id => Committed(r) /\ SameNote(r, p)
              /\ \/ Committed(store[p.id]) /\ SameNote(store[p.id], p)
                 \/ \E r \in CommitRows : r.id = p.id

\* An identity of the preview lane is where the store, or the row on its way
\* there, shows it, and that row moves it no further than the matching distance.
TracksShown ==
    /\ \A t \in tracks : store[t.id].lane = "preview" /\ ~BeingRevised(t.id)
                            => store[t.id].onset = t.onset
    /\ \A t \in tracks, r \in PreviewRows : r.id = t.id => r.onset = t.onset
    /\ \A r \in PreviewRows : store[r.id].lane = "preview"
                            => Distance(r.onset, store[r.id].onset) <= MatchFrames

\* What the preview lane still says of an event that is decided is close to the
\* band it was decided in, so that applying it counts as being overtaken.
Trailing ==
    ~overtaken =>
        /\ \A t \in tracks : IsDecided(t.id) /\ ~BeingRevised(t.id)
                                => t.onset < commitSample + MatchFrames
        /\ \A r \in PreviewRows : IsDecided(r.id) => r.onset < commitSample + 2 * MatchFrames

DecisionInv == LaneInv /\ OneOfEach /\ DecisionsHeld /\ TracksShown /\ Trailing

LEMMA DecisionInit == Init => DecisionInv
<1> SUFFICES ASSUME Init PROVE DecisionInv
  OBVIOUS
<1>1. LaneInv
  BY LaneInit
<1>2. pending = {} /\ tracks = {} /\ CommitRows = {} /\ PreviewRows = {}
  BY NoRows DEF Init, CommitRows, PreviewRows
<1> QED
  BY <1>1, <1>2 DEF DecisionInv, OneOfEach, DistinctIds, DecisionsHeld, TracksShown, Trailing

LEMMA DecisionIdle ==
  ASSUME DecisionInv, AcceptPcm \/ BeginSettling \/ PreviewFinalize \/ UNCHANGED vars, LaneInv'
  PROVE  DecisionInv'
<1>1. /\ UNCHANGED <<commitSample, pending, commitOut, previewOut, store, overtaken>>
      /\ tracks' \subseteq tracks
  BY DEF AcceptPcm, BeginSettling, PreviewFinalize, vars, commitVars, previewVars, eventVars, Pruned
<1>2. CommitRows' = CommitRows /\ PreviewRows' = PreviewRows
  BY <1>1 DEF CommitRows, PreviewRows
<1>3. \A e \in Ids : (BeingRevised(e)' <=> BeingRevised(e)) /\ (IsDecided(e)' <=> IsDecided(e))
  BY <1>1, <1>2 DEF BeingRevised, IsDecided
<1>4. \A t \in tracks : t.id \in Ids
  BY DEF DecisionInv, LaneInv, LaneTypes, Tracks
<1>5. \A r \in PreviewRows : r.id \in Ids
  <2>1. PreviewRows \subseteq EventRows
    BY DEF DecisionInv, LaneInv, LaneTypes, PreviewRows, RowsOf
  <2> QED
    BY <2>1 DEF EventRows
<1>6. OneOfEach' /\ DecisionsHeld'
  BY <1>1, <1>2 DEF DecisionInv, OneOfEach, DistinctIds, DecisionsHeld
<1>7. TracksShown'
  BY <1>1, <1>2, <1>3, <1>4 DEF DecisionInv, TracksShown
<1>8. Trailing'
  BY <1>1, <1>2, <1>3, <1>4, <1>5 DEF DecisionInv, Trailing
<1> QED
  BY <1>6, <1>7, <1>8 DEF DecisionInv

LEMMA FrameBounds ==
  ASSUME NEW a \in Nat, NEW b \in Nat, NEW c \in Nat, NEW d \in Nat, MatchFrames \in Nat
  PROVE  /\ a < b + MatchFrames /\ b <= c => a < c + MatchFrames
         /\ a < b + 2 * MatchFrames /\ b <= c => a < c + 2 * MatchFrames
         /\ Distance(a, b) <= MatchFrames /\ b < c => a < c + MatchFrames
         /\ Distance(a, b) <= MatchFrames /\ b < c + MatchFrames => a < c + 2 * MatchFrames
         /\ Distance(a, b) <= MatchFrames /\ Distance(b, d) <= MatchFrames /\ d < c
               => a < c + 2 * MatchFrames
         /\ c + 2 * MatchFrames <= a => ~ (a < c + 2 * MatchFrames)
BY DEF Distance, Larger

LEMMA DecisionDecodes ==
  ASSUME DecisionInv, LaneInv', NEW decodeHead, NEW final \in BOOLEAN, NEW obs,
         IsFiniteSet(obs), obs \subseteq Notes, \A o \in obs : o.onset < o.offset,
         NEW band, NEW start, Decide(obs, band, start, final), commitOut = NoUpdate,
         commitSample' = band.upto, band.upto \in Nat, commitSample <= band.upto,
         UNCHANGED <<previewVars, eventVars>>
  PROVE  DecisionInv'
<1>0. LaneInv /\ head \in Nat /\ commitSample \in Nat /\ MatchFrames \in Nat
  BY BoundsAssumption DEF BoundsAssumption, DecisionInv, LaneInv, SchedulerInv, SchedulerTypes
<1>1. PICK extended, closing, retracted, decided :
         Decision(extended, closing, retracted, decided, band, final)
  BY <1>0, DecideDecides, BoundsAssumption DEF LaneInv, IdsIssued
<1>2. UNCHANGED <<tracks, previewOut, store, overtaken>> /\ PreviewRows' = PreviewRows
  BY DEF previewVars, eventVars, PreviewRows
<1>3. CommitRows = {}
  BY NoRows DEF CommitRows
<1>4. /\ \A x \in extended : x \in Pendings /\ x.id < nextId /\ x.id \in Ids
      /\ \A o \in Tails(decided, band, final) :
               \E d \in decided : /\ d \in Decisions /\ StaysOpen(d.note, band, final)
                                  /\ o.id = d.id /\ o.pitch = d.note.pitch
                                  /\ o.onset = d.note.onset /\ o.last = d.note.offset
  BY <1>0, <1>1, DecidedPending
<1>5. /\ CommitRows' = {ClosingRow(p) : p \in closing}
             \cup {RetractedRow(v) : v \in retracted}
             \cup {CommittedRow(d.id, d.rev, d.note, band, final) : d \in decided}
      /\ closing \subseteq extended
  BY <1>1 DEF CommitRows, Decision, DecodeRows
<1>6. \A p \in closing : /\ ClosingRow(p).id = p.id /\ Committed(ClosingRow(p)) /\ SameNote(ClosingRow(p), p)
                         /\ p \in extended
  BY <1>0, <1>4, <1>5, ClosingRowIs DEF Committed, SameNote
<1>7. ASSUME NEW v \in PreviewEvents(band)
      PROVE  /\ v \in Provisionals /\ v.id \in Ids /\ v.id < nextId /\ ~Committed(store[v.id])
             /\ store[v.id].lane = "preview" /\ v.onset = store[v.id].onset /\ v.onset \in Nat
  <2>1. v \in Provisionals /\ store[v.id].lane = "preview" /\ v.onset = store[v.id].onset
    BY <1>0, PreviewEventsAre, BoundsAssumption DEF LaneInv
  <2>2. v.id \in Ids /\ v.onset \in Nat
    BY <2>1 DEF Provisionals
  <2>3. v.id < nextId
    <3>1. Never.lane # "preview"
      BY DEF Never
    <3>2. v.id \in Nat /\ nextId \in Nat
      BY <1>0, <2>2 DEF Ids, LaneInv, LaneTypes
    <3> QED
      BY <1>0, <2>1, <2>2, <3>1, <3>2 DEF LaneInv, IdsIssued
  <2> QED
    BY <1>0, <2>1, <2>2, <2>3 DEF LaneInv, PreviewShape
<1>8. \A v \in retracted : /\ RetractedRow(v).id = v.id /\ ~Committed(RetractedRow(v))
                           /\ v \in PreviewEvents(band)
  BY <1>1, <1>7, RetractedRowIs DEF Decision, Committed
<1>9. ASSUME NEW d \in decided
      PROVE  /\ d \in Decisions /\ d.id \in Ids /\ ~Committed(store[d.id])
             /\ d.note.onset \in Nat /\ d.note.onset < band.upto
             /\ \/ nextId <= d.id
                \/ \E v \in PreviewEvents(band) : v.id = d.id /\ Distance(v.onset, d.note.onset) <= MatchFrames
             /\ \A v \in retracted : v.id # d.id
  <2>1. /\ d \in Decisions /\ d.id \in Ids /\ d.note.onset \in Nat /\ d.note.onset < band.upto
        /\ \/ nextId <= d.id
           \/ \E v \in PreviewEvents(band) : v.id = d.id /\ Distance(v.onset, d.note.onset) <= MatchFrames
        /\ \A v \in retracted : v.id # d.id
    BY <1>1, <1>8 DEF Decision, Decisions, Notes
  <2>2. CASE nextId <= d.id
    <3>1. store[d.id] = Never
      <4>1. nextId \in Nat /\ d.id \in Nat
        BY <1>0, <2>1 DEF LaneInv, LaneTypes, Ids
      <4>2. d.id >= nextId
        BY <2>2, <4>1
      <4> QED
        BY <1>0, <2>1, <4>2 DEF LaneInv, IdsIssued
    <3> QED
      BY <2>1, <3>1 DEF Never, Committed
  <2>3. CASE \E v \in PreviewEvents(band) : v.id = d.id
    BY <1>7, <2>1, <2>3
  <2> QED
    BY <2>1, <2>2, <2>3
<1>10. \A d \in decided : LET r == CommittedRow(d.id, d.rev, d.note, band, final) IN
          r.id = d.id /\ Committed(r) /\ r.pitch = d.note.pitch /\ r.onset = d.note.onset
  BY <1>0, <1>9, CommittedRowIs DEF Committed
<1>11. \A r \in CommitRows' :
          \/ \E p \in closing : r.id = p.id /\ Committed(r) /\ SameNote(r, p)
          \/ \E v \in retracted : r.id = v.id /\ ~Committed(r)
          \/ \E d \in decided : r.id = d.id /\ Committed(r) /\ r.pitch = d.note.pitch /\ r.onset = d.note.onset
  BY <1>5, <1>6, <1>8, <1>10
<1>12. DistinctIds(extended) /\ DistinctIds(decided)
  BY <1>1 DEF Decision, DecisionInv, OneOfEach
<1>13. pending' = {p \in extended \ closing : \A o \in Tails(decided, band, final) : o.id # p.id}
                  \cup Tails(decided, band, final)
  BY <1>1 DEF Decision
<1>14. OneOfEach'
  <2>1. DistinctIds(Tails(decided, band, final))
    <3> SUFFICES ASSUME NEW x \in Tails(decided, band, final), NEW y \in Tails(decided, band, final), x.id = y.id
                 PROVE  x = y
      BY DEF DistinctIds
    <3>1. PICK c \in decided : x = PendingOffset(c.id, c.rev, c.note)
      BY DEF Tails
    <3>2. PICK d \in decided : y = PendingOffset(d.id, d.rev, d.note)
      BY DEF Tails
    <3>3. x.id = c.id /\ y.id = d.id
      BY <1>9, <3>1, <3>2, PendingOffsetIs
    <3>4. c = d
      BY <1>12, <3>3 DEF DistinctIds
    <3> QED
      BY <3>1, <3>2, <3>4
  <2>2. DistinctIds(pending')
    BY <1>12, <1>13, <2>1 DEF DistinctIds
  <2> QED
    BY <1>2, <2>2 DEF DecisionInv, OneOfEach, DistinctIds
<1>15. DecisionsHeld'
  <2> SUFFICES ASSUME ~overtaken
               PROVE  /\ \A r \in CommitRows' : Committed(store[r.id]) => Committed(r) /\ SameNote(r, store[r.id])
                      /\ \A p \in pending' :
                            /\ \A r \in CommitRows' : r.id = p.id => Committed(r) /\ SameNote(r, p)
                            /\ \/ Committed(store[p.id]) /\ SameNote(store[p.id], p)
                               \/ \E r \in CommitRows' : r.id = p.id
    BY <1>2 DEF DecisionsHeld
  <2>1. \A x \in extended : Committed(store[x.id]) /\ SameNote(store[x.id], x)
    <3> SUFFICES ASSUME NEW x \in extended PROVE Committed(store[x.id]) /\ SameNote(store[x.id], x)
      OBVIOUS
    <3>1. PICK p \in pending : x.id = p.id /\ x.pitch = p.pitch /\ x.onset = p.onset
      BY <1>1 DEF Decision, Continues
    <3>2. Committed(store[p.id]) /\ SameNote(store[p.id], p)
      BY <1>3 DEF DecisionInv, DecisionsHeld
    <3> QED
      BY <3>1, <3>2 DEF SameNote
  <2>2. ASSUME NEW r \in CommitRows', Committed(store[r.id])
        PROVE  Committed(r) /\ SameNote(r, store[r.id])
               /\ \E p \in closing : r.id = p.id /\ SameNote(r, p)
    <3>1. PICK p \in closing : r.id = p.id /\ Committed(r) /\ SameNote(r, p)
      BY <1>7, <1>8, <1>9, <1>11, <2>2
    <3>2. SameNote(store[p.id], p)
      BY <1>6, <2>1
    <3> QED
      BY <3>1, <3>2 DEF SameNote
  <2>3. ASSUME NEW x \in extended \ closing, NEW r \in CommitRows' PROVE r.id # x.id
    <3> SUFFICES ASSUME r.id = x.id PROVE FALSE
      OBVIOUS
    <3>1. Committed(store[r.id])
      BY <2>1
    <3>2. PICK p \in closing : r.id = p.id
      BY <2>2, <3>1
    <3>3. p = x
      BY <1>6, <1>12, <3>2 DEF DistinctIds
    <3> QED
      BY <3>2, <3>3
  <2>4. ASSUME NEW o \in Tails(decided, band, final)
        PROVE  /\ \A r \in CommitRows' : r.id = o.id => Committed(r) /\ SameNote(r, o)
               /\ \E r \in CommitRows' : r.id = o.id
    <3>1. PICK d \in decided : o.id = d.id /\ o.pitch = d.note.pitch /\ o.onset = d.note.onset
      BY <1>4
    <3>2. ASSUME NEW r \in CommitRows', r.id = o.id PROVE Committed(r) /\ SameNote(r, o)
      <4>1. ~ \E p \in closing : r.id = p.id
        BY <1>6, <1>9, <2>1, <3>1, <3>2
      <4>2. ~ \E v \in retracted : r.id = v.id
        BY <1>9, <3>1, <3>2
      <4>3. PICK c \in decided : r.id = c.id /\ Committed(r) /\ r.pitch = c.note.pitch /\ r.onset = c.note.onset
        BY <1>11, <4>1, <4>2
      <4>4. c = d
        BY <1>12, <3>1, <3>2, <4>3 DEF DistinctIds
      <4> QED
        BY <3>1, <4>3, <4>4 DEF SameNote
    <3>3. CommittedRow(d.id, d.rev, d.note, band, final) \in CommitRows'
      BY <1>5
    <3> QED
      BY <1>10, <3>1, <3>2, <3>3
  <2> QED
    BY <1>13, <2>1, <2>2, <2>3, <2>4
<1>16. \A e \in Ids : BeingRevised(e)' <=> BeingRevised(e)
  BY <1>2 DEF BeingRevised
<1>17. \A t \in tracks : t \in Tracks /\ t.id \in Ids /\ t.id < nextId /\ t.onset \in Nat
  BY DEF DecisionInv, LaneInv, LaneTypes, IdsIssued, Tracks
<1>18. \A r \in PreviewRows : r \in EventRows /\ r.id \in Ids /\ r.id < nextId /\ r.onset \in Nat
  <2>1. PreviewRows \subseteq EventRows
    BY DEF DecisionInv, LaneInv, LaneTypes, PreviewRows, RowsOf
  <2> QED
    BY <2>1 DEF DecisionInv, LaneInv, IdsIssued, EventRows
<1>19. TracksShown'
  BY <1>2, <1>16, <1>17 DEF DecisionInv, TracksShown
<1>20. Trailing'
  <2> SUFFICES ASSUME ~overtaken
               PROVE  /\ \A t \in tracks : IsDecided(t.id)' /\ ~BeingRevised(t.id) => t.onset < band.upto + MatchFrames
                      /\ \A r \in PreviewRows : IsDecided(r.id)' => r.onset < band.upto + 2 * MatchFrames
    BY <1>2, <1>16, <1>17 DEF Trailing
  <2>1. ASSUME NEW e \in Ids, IsDecided(e)', e < nextId
        PROVE  \/ IsDecided(e)
               \/ \E d \in decided, v \in PreviewEvents(band) :
                     d.id = e /\ v.id = e /\ Distance(v.onset, d.note.onset) <= MatchFrames
    <3>1. CASE Committed(store[e])
      BY <3>1 DEF IsDecided
    <3>2. CASE \E r \in CommitRows' : r.id = e /\ Committed(r)
      <4>1. PICK r \in CommitRows' : r.id = e /\ Committed(r)
        BY <3>2
      <4>2. CASE \E p \in closing : r.id = p.id
        <5>1. PICK p \in closing : r.id = p.id
          BY <4>2
        <5>2. PICK q \in pending : q.id = p.id
          BY <1>1, <1>6 DEF Decision, Continues
        <5>3. Committed(store[q.id])
          BY <1>3 DEF DecisionInv, DecisionsHeld
        <5> QED
          BY <4>1, <5>1, <5>2, <5>3 DEF IsDecided
      <4>3. CASE \E d \in decided : r.id = d.id
        <5>1. PICK d \in decided : d.id = e
          BY <4>1, <4>3
        <5>2. ~ (nextId <= d.id)
          <6>1. e \in Nat /\ nextId \in Nat
            BY DEF DecisionInv, LaneInv, LaneTypes, Ids
          <6> QED
            BY <2>1, <5>1, <6>1
        <5> QED
          BY <1>9, <5>1, <5>2
      <4> QED
        BY <1>11, <4>1, <4>2, <4>3
    <3> QED
      BY <1>2, <2>1, <3>1, <3>2 DEF IsDecided
  <2>2. ASSUME NEW t \in tracks, IsDecided(t.id)', ~BeingRevised(t.id)
        PROVE  t.onset < band.upto + MatchFrames
    <3>1. CASE IsDecided(t.id)
      <4>1. t.onset < commitSample + MatchFrames
        BY <2>2, <3>1 DEF DecisionInv, Trailing
      <4> QED
        BY <1>0, <1>17, <4>1, FrameBounds
    <3>2. CASE \E d \in decided, v \in PreviewEvents(band) :
                     d.id = t.id /\ v.id = t.id /\ Distance(v.onset, d.note.onset) <= MatchFrames
      <4>1. PICK d \in decided, v \in PreviewEvents(band) :
                     d.id = t.id /\ v.id = t.id /\ Distance(v.onset, d.note.onset) <= MatchFrames
        BY <3>2
      <4>2. v.onset = t.onset
        BY <1>7, <2>2, <4>1 DEF DecisionInv, TracksShown
      <4>3. d.note.onset \in Nat /\ d.note.onset < band.upto
        BY <1>9
      <4> QED
        BY <1>0, <1>17, <4>1, <4>2, <4>3, FrameBounds
    <3> QED
      BY <1>17, <2>1, <2>2, <3>1, <3>2
  <2>3. ASSUME NEW r \in PreviewRows, IsDecided(r.id)'
        PROVE  r.onset < band.upto + 2 * MatchFrames
    <3>1. CASE IsDecided(r.id)
      <4>1. r.onset < commitSample + 2 * MatchFrames
        BY <2>3, <3>1 DEF DecisionInv, Trailing
      <4> QED
        BY <1>0, <1>18, <4>1, FrameBounds
    <3>2. CASE \E d \in decided, v \in PreviewEvents(band) :
                     d.id = r.id /\ v.id = r.id /\ Distance(v.onset, d.note.onset) <= MatchFrames
      <4>1. PICK d \in decided, v \in PreviewEvents(band) :
                     d.id = r.id /\ v.id = r.id /\ Distance(v.onset, d.note.onset) <= MatchFrames
        BY <3>2
      <4>2. Distance(r.onset, v.onset) <= MatchFrames /\ v.onset \in Nat
        BY <1>7, <4>1 DEF DecisionInv, TracksShown
      <4>3. d.note.onset \in Nat /\ d.note.onset < band.upto
        BY <1>9
      <4> QED
        BY <1>0, <1>18, <4>1, <4>2, <4>3, FrameBounds
    <3> QED
      BY <1>18, <2>1, <2>3, <3>1, <3>2
  <2> QED
    BY <2>2, <2>3
<1> QED
  BY <1>14, <1>15, <1>19, <1>20 DEF DecisionInv

LEMMA RowTypes ==
  ASSUME LaneInv
  PROVE  /\ \A r \in CommitRows : r \in EventRows /\ r.id \in Ids /\ r.id < nextId /\ r.onset \in Nat
         /\ \A r \in PreviewRows : r \in EventRows /\ r.id \in Ids /\ r.id < nextId /\ r.onset \in Nat
         /\ \A t \in tracks : t \in Tracks /\ t.id \in Ids /\ t.id < nextId /\ t.onset \in Nat
         /\ \A p \in pending : p \in Pendings /\ p.id \in Ids /\ p.id < nextId /\ p.onset \in Nat
         /\ \A e \in Ids : store[e].onset \in Nat
         /\ commitSample \in Nat /\ MatchFrames \in Nat /\ nextId \in Nat
<1>1. CommitRows \subseteq EventRows /\ PreviewRows \subseteq EventRows
  BY DEF LaneInv, LaneTypes, CommitRows, PreviewRows, RowsOf
<1>2. \A r \in EventRows : r.id \in Ids /\ r.onset \in Nat
  BY DEF EventRows
<1>3. /\ \A t \in Tracks : t.id \in Ids /\ t.onset \in Nat
      /\ \A p \in Pendings : p.id \in Ids /\ p.onset \in Nat
      /\ \A v \in Events : v.onset \in Nat
  BY DEF Tracks, Pendings, Events
<1>4. commitSample \in Nat /\ MatchFrames \in Nat /\ nextId \in Nat
  BY BoundsAssumption DEF BoundsAssumption, LaneInv, LaneTypes, SchedulerInv, SchedulerTypes
<1>5. tracks \subseteq Tracks /\ pending \subseteq Pendings /\ \A e \in Ids : store[e] \in Events
  BY DEF LaneInv, LaneTypes
<1> QED
  BY <1>1, <1>2, <1>3, <1>4, <1>5 DEF LaneInv, IdsIssued

\* What applying the commit lane's rows does to the store.
LEMMA CommitApplied ==
  ASSUME LaneInv, ApplyCommit
  PROVE  /\ \A e \in Ids : \/ /\ \A r \in CommitRows : r.id # e
                              /\ store'[e] = store[e]
                           \/ \E r \in CommitRows : r.id = e /\ Shows(store'[e], r)
         /\ \A r \in CommitRows : r.lane = "commit"
         /\ CommitRows' = {} /\ PreviewRows' = PreviewRows
         /\ UNCHANGED <<commitSample, pending, tracks, overtaken>>
<1>1. store' = Appended(commitOut.rows) /\ commitOut' = NoUpdate
  BY DEF ApplyCommit, AppendRows
<1>2. UNCHANGED <<commitSample, pending, tracks, previewOut, overtaken>>
  BY DEF ApplyCommit, previewVars
<1>3. \A e \in Ids : \/ /\ \A r \in CommitRows : r.id # e
                        /\ store'[e] = store[e]
                     \/ \E r \in CommitRows : r.id = e /\ Shows(store'[e], r)
  BY <1>1, AppendedIs DEF LaneInv, LaneTypes, CommitRows
<1> QED
  BY <1>1, <1>2, <1>3, NoRows DEF CommitRows, PreviewRows, LaneInv, CommitShape

LEMMA DecisionCommits ==
  ASSUME DecisionInv, LaneInv', ApplyCommit
  PROVE  DecisionInv'
<1>1. LaneInv
  BY DEF DecisionInv
<1>2. /\ \A e \in Ids : \/ /\ \A r \in CommitRows : r.id # e
                           /\ store'[e] = store[e]
                        \/ \E r \in CommitRows : r.id = e /\ Shows(store'[e], r)
      /\ \A r \in CommitRows : r.lane = "commit"
      /\ CommitRows' = {} /\ PreviewRows' = PreviewRows
      /\ UNCHANGED <<commitSample, pending, tracks, overtaken>>
  BY <1>1, CommitApplied
<1>3. /\ \A r \in PreviewRows : r.id \in Ids
      /\ \A t \in tracks : t.id \in Ids
      /\ \A p \in pending : p.id \in Ids
  BY <1>1, RowTypes
<1>4. \A e \in Ids : BeingRevised(e)' <=> BeingRevised(e)
  BY <1>2 DEF BeingRevised
<1>5. OneOfEach'
  BY <1>2 DEF DecisionInv, OneOfEach, DistinctIds
<1>6. DecisionsHeld'
  <2> SUFFICES ASSUME ~overtaken, NEW p \in pending
               PROVE  Committed(store'[p.id]) /\ SameNote(store'[p.id], p)
    BY <1>2 DEF DecisionsHeld, Committed, SameNote
  <2>1. /\ \A r \in CommitRows : r.id = p.id => Committed(r) /\ SameNote(r, p)
        /\ \/ Committed(store[p.id]) /\ SameNote(store[p.id], p)
           \/ \E r \in CommitRows : r.id = p.id
    BY DEF DecisionInv, DecisionsHeld
  <2>2. CASE \E r \in CommitRows : r.id = p.id /\ Shows(store'[p.id], r)
    BY <2>1, <2>2 DEF Shows, Committed, SameNote
  <2>3. CASE (\A r \in CommitRows : r.id # p.id) /\ store'[p.id] = store[p.id]
    BY <2>1, <2>3 DEF Committed, SameNote
  <2> QED
    BY <1>2, <1>3, <2>2, <2>3
<1>7. \A e \in Ids : store'[e].lane = "preview" => store'[e] = store[e]
  BY <1>2 DEF Shows
<1>8. TracksShown'
  BY <1>2, <1>3, <1>4, <1>7 DEF DecisionInv, TracksShown
<1>9. \A e \in Ids : IsDecided(e)' => IsDecided(e)
  <2> SUFFICES ASSUME NEW e \in Ids, Committed(store'[e]) PROVE IsDecided(e)
    BY <1>2 DEF IsDecided, Committed
  <2> QED
    BY <1>2 DEF IsDecided, Shows, Committed
<1>10. Trailing'
  BY <1>2, <1>3, <1>4, <1>9 DEF DecisionInv, Trailing
<1> QED
  BY <1>5, <1>6, <1>8, <1>10 DEF DecisionInv

LEMMA DecisionPreviews ==
  ASSUME DecisionInv, LaneInv', NEW gone, NEW emitted, Reconciliation(gone, emitted),
         previewOut = << >>,
         UNCHANGED <<commitSample, pending, commitOut, store, overtaken>>
  PROVE  DecisionInv'
<1>1. LaneInv
  BY DEF DecisionInv
<1>2. PreviewRows = {} /\ CommitRows' = CommitRows
  BY NoRows DEF PreviewRows, CommitRows
<1>3. /\ PreviewRows' = {PreviewRow(t) : t \in emitted}
      /\ tracks' \subseteq (tracks \ gone) \cup emitted /\ gone \subseteq tracks
      /\ \A t \in emitted : t \in Tracks
      /\ \A t \in emitted : nextId <= t.id \/ \E u \in gone : RevisedFrom(t, u)
      /\ DistinctIds((tracks \ gone) \cup emitted)
  BY DEF Reconciliation, PreviewRows, DecisionInv, OneOfEach
<1>4. \A t \in emitted : /\ t.id \in Ids /\ t.onset \in Nat
                         /\ PreviewRow(t).id = t.id /\ PreviewRow(t).onset = t.onset
  BY <1>3, PreviewRowIs DEF Tracks
<1>5. /\ \A r \in CommitRows : r.id \in Ids /\ r.id < nextId
      /\ \A t \in tracks : t.id \in Ids /\ t.onset \in Nat
      /\ \A e \in Ids : store[e].onset \in Nat
      /\ commitSample \in Nat /\ MatchFrames \in Nat /\ nextId \in Nat
  BY <1>1, RowTypes
<1>6. \A e \in Ids : IsDecided(e)' <=> IsDecided(e)
  BY <1>2 DEF IsDecided
<1>7. \A e \in Ids : BeingRevised(e)' <=> \E t \in emitted : t.id = e
  BY <1>3, <1>4 DEF BeingRevised
<1>8. OneOfEach'
  <2>1. DistinctIds(PreviewRows')
    <3> SUFFICES ASSUME NEW t \in emitted, NEW u \in emitted, t.id = u.id PROVE t = u
      BY <1>3, <1>4 DEF DistinctIds
    <3> QED
      BY <1>3 DEF DistinctIds
  <2>2. DistinctIds(tracks')
    BY <1>3 DEF DistinctIds
  <2> QED
    BY <2>1, <2>2 DEF DecisionInv, OneOfEach, DistinctIds
<1>9. DecisionsHeld'
  BY <1>2 DEF DecisionInv, DecisionsHeld
<1>10. ASSUME NEW t \in tracks', ~BeingRevised(t.id)' PROVE t \in tracks /\ t.id \in Ids /\ ~BeingRevised(t.id)
  <2>1. t \notin emitted
    BY <1>4, <1>7, <1>10
  <2> QED
    BY <1>2, <1>3, <1>5, <2>1 DEF BeingRevised
<1>11. ASSUME NEW t \in emitted, nextId <= t.id PROVE store[t.id].lane # "preview" /\ ~IsDecided(t.id)
  <2>1. t.id >= nextId
    BY <1>4, <1>5, <1>11 DEF Ids
  <2>2. store[t.id] = Never
    BY <1>1, <1>4, <2>1 DEF LaneInv, IdsIssued
  <2>3. \A r \in CommitRows : r.id # t.id
    <3>1. \A r \in CommitRows : r.id \in Nat /\ r.id < nextId
      BY <1>5 DEF Ids
    <3> QED
      BY <1>5, <1>11, <3>1
  <2> QED
    BY <2>2, <2>3 DEF Never, Committed, IsDecided
<1>12. TracksShown'
  <2>1. ASSUME NEW t \in tracks', store[t.id].lane = "preview", ~BeingRevised(t.id)' PROVE store[t.id].onset = t.onset
    BY <1>10, <2>1 DEF DecisionInv, TracksShown
  <2>2. ASSUME NEW t \in tracks', NEW u \in emitted, u.id = t.id PROVE u.onset = t.onset
    <3>1. u = t
      BY <1>3, <2>2 DEF DistinctIds
    <3> QED
      BY <3>1
  <2>3. ASSUME NEW t \in emitted, store[t.id].lane = "preview" PROVE Distance(t.onset, store[t.id].onset) <= MatchFrames
    <3>1. PICK u \in gone : RevisedFrom(t, u)
      BY <1>3, <1>11, <2>3
    <3>2. u \in tracks /\ ~BeingRevised(u.id) /\ store[u.id].lane = "preview"
      BY <1>2, <1>3, <2>3, <3>1 DEF BeingRevised, RevisedFrom
    <3>3. store[u.id].onset = u.onset
      BY <3>2 DEF DecisionInv, TracksShown
    <3> QED
      BY <3>1, <3>3 DEF RevisedFrom
  <2>4. \A t \in tracks', r \in PreviewRows' : r.id = t.id => r.onset = t.onset
    BY <1>3, <1>4, <2>2
  <2>5. \A r \in PreviewRows' : store[r.id].lane = "preview" => Distance(r.onset, store[r.id].onset) <= MatchFrames
    BY <1>3, <1>4, <2>3
  <2> QED
    BY <2>1, <2>4, <2>5 DEF TracksShown
<1>13. Trailing'
  <2> SUFFICES ASSUME ~overtaken
               PROVE  /\ \A t \in tracks' : IsDecided(t.id)' /\ ~BeingRevised(t.id)' => t.onset < commitSample + MatchFrames
                      /\ \A r \in PreviewRows' : IsDecided(r.id)' => r.onset < commitSample + 2 * MatchFrames
    BY DEF Trailing
  <2>1. ASSUME NEW t \in tracks', IsDecided(t.id)', ~BeingRevised(t.id)' PROVE t.onset < commitSample + MatchFrames
    BY <1>6, <1>10, <2>1 DEF DecisionInv, Trailing
  <2>2. ASSUME NEW t \in emitted, IsDecided(t.id)' PROVE t.onset < commitSample + 2 * MatchFrames
    <3>1. IsDecided(t.id)
      BY <1>4, <1>6, <2>2
    <3>2. PICK u \in gone : RevisedFrom(t, u)
      BY <1>3, <1>11, <3>1
    <3>3. u \in tracks /\ u.id = t.id /\ ~BeingRevised(u.id)
      BY <1>2, <1>3, <3>2 DEF BeingRevised, RevisedFrom
    <3>4. u.onset < commitSample + MatchFrames
      BY <3>1, <3>3 DEF DecisionInv, Trailing
    <3>5. u.onset \in Nat /\ t.onset \in Nat /\ Distance(t.onset, u.onset) <= MatchFrames
      BY <1>4, <1>5, <3>2, <3>3 DEF RevisedFrom
    <3> QED
      BY <1>5, <3>4, <3>5, FrameBounds
  <2>3. \A r \in PreviewRows' : IsDecided(r.id)' => r.onset < commitSample + 2 * MatchFrames
    <3> SUFFICES ASSUME NEW r \in PreviewRows', IsDecided(r.id)' PROVE r.onset < commitSample + 2 * MatchFrames
      OBVIOUS
    <3>1. PICK t \in emitted : r = PreviewRow(t)
      BY <1>3
    <3>2. r.id = t.id /\ r.onset = t.onset
      BY <1>4, <3>1
    <3>3. IsDecided(t.id)'
      BY <3>2 DEF IsDecided
    <3> QED
      BY <2>2, <3>2, <3>3
  <2> QED
    BY <2>1, <2>3
<1> QED
  BY <1>8, <1>9, <1>12, <1>13 DEF DecisionInv

\* Unless the lane was overtaken, no row of the preview lane is about an event
\* that is decided.
LEMMA PreviewSparesDecided ==
  ASSUME DecisionInv, ApplyPreview, ~overtaken'
  PROVE  /\ ~overtaken
         /\ \A r \in PreviewRows : ~IsDecided(r.id)
         /\ \A e \in Ids : IsDecided(e) => store'[e] = store[e] /\ ~BeingRevised(e)
<1>1. LaneInv
  BY DEF DecisionInv
<1>2. /\ \A e \in Ids : \/ /\ \A r \in PreviewRows : r.id # e
                           /\ store'[e] = store[e]
                        \/ \E r \in PreviewRows : r.id = e /\ Shows(store'[e], r)
      /\ ~overtaken
      /\ \A r \in PreviewRows : commitSample + 2 * MatchFrames <= r.onset
  BY <1>1, PreviewApplied
<1>3. \A r \in PreviewRows : ~IsDecided(r.id)
  <2> SUFFICES ASSUME NEW r \in PreviewRows, IsDecided(r.id) PROVE FALSE
    OBVIOUS
  <2>1. r.onset < commitSample + 2 * MatchFrames
    BY <1>2 DEF DecisionInv, Trailing
  <2>2. commitSample + 2 * MatchFrames <= r.onset /\ r.onset \in Nat /\ commitSample \in Nat /\ MatchFrames \in Nat
    BY <1>1, <1>2, RowTypes
  <2> QED
    BY <2>1, <2>2, FrameBounds
<1> QED
  BY <1>2, <1>3 DEF BeingRevised

LEMMA DecisionShowsPreview ==
  ASSUME DecisionInv, LaneInv', ApplyPreview
  PROVE  DecisionInv'
<1>1. LaneInv
  BY DEF DecisionInv
<1>2. /\ UNCHANGED <<commitSample, pending, commitOut, tracks>> /\ CommitRows' = CommitRows
      /\ previewOut' = << >>
  BY DEF ApplyPreview, commitVars, CommitRows
<1>3. PreviewRows' = {}
  BY <1>2, NoRows DEF PreviewRows
<1>4. /\ \A e \in Ids : \/ /\ \A r \in PreviewRows : r.id # e
                           /\ store'[e] = store[e]
                        \/ \E r \in PreviewRows : r.id = e /\ Shows(store'[e], r)
      /\ \A r \in PreviewRows : r.lifecycle \in {"provisional", "retracted"}
  BY <1>1, PreviewApplied
<1>5. \A e \in Ids : Committed(store'[e]) => store'[e] = store[e]
  BY <1>4 DEF Shows, Committed
<1>6. /\ \A r \in CommitRows : r.id \in Ids
      /\ \A t \in tracks : t.id \in Ids
      /\ \A p \in pending : p.id \in Ids
  BY <1>1, RowTypes
<1>7. OneOfEach'
  BY <1>2, <1>3 DEF DecisionInv, OneOfEach, DistinctIds
<1>8. DecisionsHeld'
  <2> SUFFICES ASSUME ~overtaken'
               PROVE  /\ \A r \in CommitRows : Committed(store'[r.id]) => Committed(r) /\ SameNote(r, store'[r.id])
                      /\ \A p \in pending :
                            /\ \A r \in CommitRows : r.id = p.id => Committed(r) /\ SameNote(r, p)
                            /\ \/ Committed(store'[p.id]) /\ SameNote(store'[p.id], p)
                               \/ \E r \in CommitRows : r.id = p.id
    BY <1>2 DEF DecisionsHeld
  <2>1. ~overtaken /\ \A e \in Ids : IsDecided(e) => store'[e] = store[e]
    BY PreviewSparesDecided
  <2>2. \A e \in Ids : Committed(store[e]) => store'[e] = store[e]
    BY <2>1 DEF IsDecided
  <2> QED
    BY <1>5, <1>6, <2>1, <2>2 DEF DecisionInv, DecisionsHeld
<1>9. TracksShown'
  <2> SUFFICES ASSUME NEW t \in tracks, store'[t.id].lane = "preview" PROVE store'[t.id].onset = t.onset
    BY <1>2, <1>3 DEF TracksShown
  <2>1. CASE (\A r \in PreviewRows : r.id # t.id) /\ store'[t.id] = store[t.id]
    BY <2>1 DEF DecisionInv, TracksShown, BeingRevised
  <2>2. CASE \E r \in PreviewRows : r.id = t.id /\ Shows(store'[t.id], r)
    BY <2>2 DEF DecisionInv, TracksShown, Shows
  <2> QED
    BY <1>4, <1>6, <2>1, <2>2
<1>10. Trailing'
  <2> SUFFICES ASSUME ~overtaken', NEW t \in tracks, IsDecided(t.id)'
               PROVE  t.onset < commitSample + MatchFrames
    BY <1>2, <1>3 DEF Trailing
  <2>1. IsDecided(t.id)
    BY <1>2, <1>5, <1>6 DEF IsDecided
  <2>2. ~overtaken /\ ~BeingRevised(t.id)
    BY <1>6, <2>1, PreviewSparesDecided
  <2> QED
    BY <2>1, <2>2 DEF DecisionInv, Trailing
<1> QED
  BY <1>7, <1>8, <1>9, <1>10 DEF DecisionInv

\* What the model heard, in a decode.
LEMMA DecodeHears ==
  ASSUME LaneInv, NEW decodeHead \in Nat, NEW final \in BOOLEAN, Decode(decodeHead, final),
         decodeHead <= head, final => decodeHead = head
  PROVE  \E obs, band :
            /\ IsFiniteSet(obs) /\ obs \subseteq Notes /\ \A o \in obs : o.onset < o.offset
            /\ Decide(obs, band, SourceStart(decodeHead), final)
            /\ commitSample' = band.upto /\ band.upto \in Nat /\ commitSample <= band.upto
<1> DEFINE band == [from |-> commitSample, upto |-> BandEnd(decodeHead, final)]
           padding == IF final THEN Guard ELSE 0
<1>1. PICK obs \in Observations(Played, SourceStart(decodeHead), decodeHead, padding) :
         Decide(obs, band, SourceStart(decodeHead), final)
  BY DEF Decode
<1>2. /\ SourceStart(decodeHead) \in Nat /\ BandEnd(decodeHead, final) \in Nat
      /\ commitSample <= BandEnd(decodeHead, final)
  BY DecodeWithinAudio
<1>3. commitSample' = BandEnd(decodeHead, final)
  BY DecodeOutcome
<1>4. /\ IsFiniteSet(obs) /\ obs \subseteq Notes
      /\ \A o \in obs : o.onset < o.offset
  <2>1. padding \in Nat
    BY CommitTimingAssumption
  <2>2. Played \in SUBSET (Played \cup Imagined)
    OBVIOUS
  <2> HIDE DEF padding
  <2> QED
    BY <1>2, <2>1, <2>2, ObservationsAreNotes, BoundsAssumption
<1>5. band.upto = BandEnd(decodeHead, final)
  OBVIOUS
<1> HIDE DEF band
<1> QED
  BY <1>1, <1>2, <1>3, <1>4, <1>5

LEMMA WindowHears ==
  ASSUME LaneInv, PreviewWindow
  PROVE  \E gone, emitted : Reconciliation(gone, emitted)
<1>1. PICK obs \in Observations(Played \cup Imagined, windowStart, windowStart + PreviewLength, 0) :
         Reconcile(obs)
  BY DEF PreviewWindow
<1>2. windowStart \in Nat /\ windowStart + PreviewLength \in Nat
  BY BoundsAssumption DEF LaneInv, LaneTypes, BoundsAssumption
<1>3. /\ IsFiniteSet(obs) /\ obs \subseteq Notes
      /\ \A o \in obs : o.onset < o.offset
  <2>1. 0 \in Nat /\ Played \cup Imagined \in SUBSET (Played \cup Imagined)
    OBVIOUS
  <2> DEFINE upto == windowStart + PreviewLength
  <2>2. upto \in Nat /\ obs \in Observations(Played \cup Imagined, windowStart, upto, 0)
    BY <1>1, <1>2
  <2> HIDE DEF upto
  <2> QED
    BY <1>2, <2>1, <2>2, ObservationsAreNotes, BoundsAssumption
<1> QED
  BY <1>1, <1>3, ReconcileReconciles, BoundsAssumption DEF LaneInv

LEMMA DecisionStep == DecisionInv /\ [Next]_vars => DecisionInv'
<1> SUFFICES ASSUME DecisionInv, [Next]_vars PROVE DecisionInv'
  OBVIOUS
<1>1. LaneInv /\ LaneInv'
  BY LaneStep DEF DecisionInv
<1>2. CASE AcceptPcm \/ BeginSettling \/ PreviewFinalize \/ UNCHANGED vars
  BY <1>1, <1>2, DecisionIdle
<1>3. CASE CommitDecode
  <2>1. /\ nextDecode <= head /\ Decode(nextDecode, FALSE) /\ commitOut = NoUpdate
        /\ UNCHANGED <<previewVars, eventVars>> /\ nextDecode \in Nat
    BY <1>1, <1>3 DEF CommitDecode, LaneInv, SchedulerInv, SchedulerTypes
  <2>2. FALSE \in BOOLEAN
    OBVIOUS
  <2>3. PICK obs, band :
            /\ IsFiniteSet(obs) /\ obs \subseteq Notes /\ \A o \in obs : o.onset < o.offset
            /\ Decide(obs, band, SourceStart(nextDecode), FALSE)
            /\ commitSample' = band.upto /\ band.upto \in Nat /\ commitSample <= band.upto
    BY <1>1, <2>1, <2>2, DecodeHears
  <2> QED
    BY <1>1, <2>1, <2>2, <2>3, DecisionDecodes
<1>4. CASE CommitFinalize
  <2>1. /\ Decode(head, TRUE) /\ commitOut = NoUpdate
        /\ UNCHANGED <<previewVars, eventVars>>
    BY <1>4 DEF CommitFinalize
  <2>2. TRUE \in BOOLEAN
    OBVIOUS
  <2>4. head \in Nat /\ head <= head
    <3>1. head \in Nat
      BY <1>1 DEF LaneInv, SchedulerInv, SchedulerTypes
    <3> QED
      BY <3>1
  <2>3. PICK obs, band :
            /\ IsFiniteSet(obs) /\ obs \subseteq Notes /\ \A o \in obs : o.onset < o.offset
            /\ Decide(obs, band, SourceStart(head), TRUE)
            /\ commitSample' = band.upto /\ band.upto \in Nat /\ commitSample <= band.upto
    BY <1>1, <2>1, <2>2, <2>4, DecodeHears
  <2> QED
    BY <1>1, <2>1, <2>2, <2>3, DecisionDecodes
<1>5. CASE ApplyCommit
  BY <1>1, <1>5, DecisionCommits
<1>6. CASE PreviewWindow
  <2>1. PICK gone, emitted : Reconciliation(gone, emitted)
    BY <1>1, <1>6, WindowHears
  <2>2. /\ previewOut = << >> /\ UNCHANGED <<commitSample, pending, commitOut, store, overtaken>>
    BY <1>6 DEF PreviewWindow, commitVars, eventVars
  <2> QED
    BY <1>1, <2>1, <2>2, DecisionPreviews
<1>7. CASE ApplyPreview
  BY <1>1, <1>7, DecisionShowsPreview
<1> QED
  BY <1>2, <1>3, <1>4, <1>5, <1>6, <1>7 DEF Next

LEMMA DecisionInvariant == Spec => []DecisionInv
BY DecisionInit, DecisionStep, PTL DEF Spec

LEMMA AppliedTakesEffect ==
  ASSUME LaneInv, ApplyCommit, NEW i \in DOMAIN commitOut.rows
  PROVE  Overridden(i) \/ TakesEffect(commitOut.rows[i])
<1> DEFINE rows == commitOut.rows
<1>1. rows \in Seq(EventRows) /\ store \in [Ids -> Events]
  BY DEF LaneInv, LaneTypes
<1>2. DOMAIN rows = 1..Len(rows)
  BY <1>1
<1>3. store' = Appended(rows)
  BY DEF ApplyCommit, AppendRows
<1>4. SUFFICES ASSUME ~Overridden(i) PROVE TakesEffect(rows[i])
  OBVIOUS
<1> HIDE DEF rows
<1>5. i \in 1..Len(rows) /\ \A j \in 1..Len(rows) : j > i => rows[j].id # rows[i].id
  BY <1>2, <1>4 DEF Overridden, rows
<1>6. Shows(store'[rows[i].id], rows[i])
  BY <1>1, <1>3, <1>5, AppendedShows
<1>7. rows[i].lane = "commit"
  <2>1. rows[i] \in CommitRows
    BY DEF CommitRows, RowsOf, rows
  <2> QED
    BY <2>1 DEF LaneInv, CommitShape
<1> QED
  BY <1>6, <1>7 DEF Shows, TakesEffect

\* A decision of the commit lane takes effect in the store when it is applied,
\* whatever revision the preview lane reached meanwhile, and a note once
\* committed keeps its pitch and its onset, unless the commit lane overtook the
\* preview lane (SegmentedEventStore.append, CommitScheduler._reconcile_band).
THEOREM DecisionsAlwaysStand == Spec => DecisionsStand
<1>1. DecisionInv /\ [Next]_vars => [DecisionsTakeEffect /\ CommittedStand]_vars
  <2> SUFFICES ASSUME DecisionInv, Next PROVE DecisionsTakeEffect /\ CommittedStand
    BY DEF vars
  <2>1. LaneInv
    BY DEF DecisionInv
  <2>2. commitOut # NoUpdate /\ commitOut' = NoUpdate => ApplyCommit
    BY DEF Next, AcceptPcm, BeginSettling, CommitDecode, CommitFinalize, PreviewWindow, ApplyPreview,
           PreviewFinalize, commitVars
  <2>3. DecisionsTakeEffect
    BY <2>1, <2>2, AppliedTakesEffect DEF DecisionsTakeEffect
  <2>4. CASE ApplyCommit
    <3> SUFFICES ASSUME ~overtaken', NEW e \in Ids, Committed(store[e])
                 PROVE  Committed(store'[e]) /\ store'[e].pitch = store[e].pitch /\ store'[e].onset = store[e].onset
      BY <2>3 DEF CommittedStand, Stands
    <3>1. ~overtaken /\ \/ store'[e] = store[e]
                        \/ \E r \in CommitRows : r.id = e /\ Shows(store'[e], r)
      BY <2>1, <2>4, CommitApplied
    <3>2. \A r \in CommitRows : r.id = e => Committed(r) /\ SameNote(r, store[e])
      BY <3>1 DEF DecisionInv, DecisionsHeld
    <3>3. CASE store'[e] = store[e]
      BY <3>3 DEF Committed
    <3>4. CASE \E r \in CommitRows : r.id = e /\ Shows(store'[e], r)
      BY <3>2, <3>4 DEF Shows, Committed, SameNote
    <3> QED
      BY <3>1, <3>3, <3>4
  <2>5. CASE ApplyPreview
    <3>1. ~overtaken' => \A e \in Ids : Committed(store[e]) => store'[e] = store[e]
      BY <2>5, PreviewSparesDecided DEF IsDecided
    <3> QED
      BY <2>3, <3>1 DEF CommittedStand, Stands, Committed
  <2>6. CASE ~ApplyCommit /\ ~ApplyPreview
    <3>1. UNCHANGED store
      BY <2>6 DEF Next, AcceptPcm, BeginSettling, CommitDecode, CommitFinalize, PreviewWindow,
                  PreviewFinalize, eventVars
    <3> QED
      BY <2>3, <3>1 DEF CommittedStand, Stands, Committed
  <2> QED
    BY <2>3, <2>4, <2>5, <2>6
<1> QED
  BY <1>1, DecisionInvariant, PTL DEF Spec, DecisionsStand

=============================================================================
