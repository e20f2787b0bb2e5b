----------------------------- MODULE StorageProofs -----------------------------
(***************************************************************************)
(* Proofs about what a session keeps on disk: the audio of AudioLog, the   *)
(* recording of RecordingRetention after Stop and after a crash, the names *)
(* and listings of SessionCatalog, DebugRetention, FamilyCatalog, and the  *)
(* events of SessionStore, each for any size and with every fault.         *)
(***************************************************************************)
EXTENDS AudioLog, Workspace, SequenceTheorems, FiniteSetTheorems, WellFoundedInduction, TLAPS

-------------------------------------------------------------------------------
(* AudioLog.  Any accepted range of audio reads back as it was sent, for   *)
(* every length of segment, ring and block and with every fault.  The      *)
(* invariant says what the read loop of SegmentedAudioLog.read rests on:   *)
(* the indexed segments and the active file follow each other without a    *)
(* gap, and the rows the loop has passed end at or before its cursor.      *)


IndexEnd == IF segments = << >> THEN 0 ELSE EndOf(segments[Len(segments)])

Correct(run) == run.data = Samples(run.first, EndOf(run))

(* Each segment starts where the one before it ends.                         *)
Chained ==
    \A i \in 1..Len(segments) :
        /\ Correct(segments[i])
        /\ segments[i].first = IF i = 1 THEN 0 ELSE EndOf(segments[i - 1])

FileFollows ==
    /\ Correct(file)
    /\ wave # "none" => file.first = IndexEnd /\ EndOf(file) = nextSample
    /\ wave = "none" => IndexEnd = nextSample

RingEndsAtHead == Correct(ring) /\ EndOf(ring) = head

SourceAtEnd ==
    /\ head <= nextSample
    /\ source.pc # "idle" => source.first <= source.end /\ head <= source.first
    /\ source.pc = "writing" => source.first = nextSample
    /\ source.pc = "written" => source.end = nextSample

ReaderOnTrack ==
    /\ reader.pc # "missing"
    /\ reader.pc = "done" => reader.got = Samples(reader.start, reader.end)
    /\ reader.pc = "rows" =>
         /\ source.pc \notin {"writing"}
         /\ reader.start <= reader.cursor /\ reader.cursor < reader.end
         /\ reader.end <= IndexEnd
         /\ reader.got = Samples(reader.start, reader.cursor)
         /\ reader.row \in 1..(Len(segments) + 1)
         /\ \A i \in 1..Len(segments) : i < reader.row => EndOf(segments[i]) <= reader.cursor

AudioInv ==
    /\ AudioTypeOK
    /\ Chained /\ FileFollows /\ RingEndsAtHead /\ SourceAtEnd /\ ReaderOnTrack

-----------------------------------------------------------------------------
(* Runs of samples.                                                         *)

LEMMA SamplesAreSequences ==
    ASSUME NEW a \in Nat, NEW b \in Nat, a <= b
    PROVE  /\ Samples(a, b) \in Seq(Nat)
           /\ Len(Samples(a, b)) = b - a
           /\ \A i \in 1..(b - a) : Samples(a, b)[i] = a + i - 1
<1>1. b - a \in Nat
  OBVIOUS
<1>2. Samples(a, b) \in [1..(b - a) -> Nat]
  BY <1>1 DEF Samples
<1>3. Samples(a, b) \in Seq(Nat)
  BY <1>1, <1>2, SeqDef
<1>4. Len(Samples(a, b)) = b - a
  BY <1>1, <1>2, <1>3, LenProperties
<1> QED
  BY <1>3, <1>4 DEF Samples

LEMMA SamplesJoin ==
    ASSUME NEW a \in Nat, NEW b \in Nat, NEW c \in Nat, a <= b, b <= c
    PROVE  Samples(a, b) \o Samples(b, c) = Samples(a, c)
<1> DEFINE s == Samples(a, b)
           t == Samples(b, c)
           u == Samples(a, c)
<1>1. /\ s \in Seq(Nat) /\ Len(s) = b - a
      /\ \A i \in 1..(b - a) : s[i] = a + i - 1
  BY SamplesAreSequences
<1>2. /\ t \in Seq(Nat) /\ Len(t) = c - b
      /\ \A i \in 1..(c - b) : t[i] = b + i - 1
  BY SamplesAreSequences
<1>3. /\ u \in Seq(Nat) /\ Len(u) = c - a
      /\ \A i \in 1..(c - a) : u[i] = a + i - 1
  BY SamplesAreSequences
<1> HIDE DEF s, t, u
<1>4. /\ s \o t \in Seq(Nat) /\ Len(s \o t) = Len(s) + Len(t)
      /\ \A i \in 1..Len(s) + Len(t) : (s \o t)[i] = IF i <= Len(s) THEN s[i] ELSE t[i - Len(s)]
  BY <1>1, <1>2, ConcatProperties
<1>5. Len(s \o t) = Len(u)
  BY <1>1, <1>2, <1>3, <1>4
<1>6. \A i \in 1..Len(s \o t) : (s \o t)[i] = u[i]
  <2> TAKE i \in 1..Len(s \o t)
  <2>1. CASE i <= Len(s)
    BY <2>1, <1>1, <1>2, <1>3, <1>4
  <2>2. CASE ~ (i <= Len(s))
    <3>1. i - Len(s) \in 1..(c - b)
      BY <2>2, <1>1, <1>2, <1>4
    <3>2. t[i - Len(s)] = b + (i - Len(s)) - 1
      BY <3>1, <1>2
    <3>3. (s \o t)[i] = t[i - Len(s)]
      BY <2>2, <1>1, <1>2, <1>4
    <3>4. u[i] = a + i - 1
      BY <1>1, <1>2, <1>3, <1>4
    <3>5. b + (i - Len(s)) - 1 = a + i - 1
      BY <1>1, <1>4
    <3> QED
      BY <3>2, <3>3, <3>4, <3>5
  <2> QED
    BY <2>1, <2>2
<1>7. s \o t = u
  BY <1>3, <1>4, <1>5, <1>6, SeqEqual
<1> QED
  BY <1>7 DEF s, t, u

LEMMA SamplesPart ==
    ASSUME NEW a \in Nat, NEW b \in Nat, NEW c \in Nat, NEW d \in Nat, a <= c, c <= d, d <= b,
           NEW m \in Int, NEW n \in Int, m = c - a + 1, n = d - a
    PROVE  SubSeq(Samples(a, b), m, n) = Samples(c, d)
<1> DEFINE s == Samples(a, b)
           t == Samples(c, d)
<1>1. /\ s \in Seq(Nat) /\ Len(s) = b - a
      /\ \A i \in 1..(b - a) : s[i] = a + i - 1
  BY SamplesAreSequences
<1>2. /\ t \in Seq(Nat) /\ Len(t) = d - c
      /\ \A i \in 1..(d - c) : t[i] = c + i - 1
  BY SamplesAreSequences
<1>3. m \in Int /\ n \in Int /\ m >= 1 /\ n <= b - a /\ n - m + 1 = d - c
  OBVIOUS
<1> HIDE DEF s, t
<1>4. \A i \in m..n : s[i] \in Nat
  BY <1>1, <1>3
<1>5. /\ SubSeq(s, m, n) \in Seq(Nat)
      /\ Len(SubSeq(s, m, n)) = IF m <= n THEN n - m + 1 ELSE 0
      /\ \A i \in 1..n - m + 1 : SubSeq(s, m, n)[i] = s[m + i - 1]
  BY <1>3, <1>4, SubSeqProperties
<1>6. Len(SubSeq(s, m, n)) = Len(t)
  BY <1>2, <1>5
<1>7. \A i \in 1..Len(t) : SubSeq(s, m, n)[i] = t[i]
  BY <1>1, <1>2, <1>3, <1>5
<1>8. SubSeq(s, m, n) = t
  BY <1>2, <1>5, <1>6, <1>7, SeqEqual
<1> QED
  BY <1>8 DEF s, t

-----------------------------------------------------------------------------
(* Closing the active file.                                                 *)

LEMMA NoSamples == ASSUME NEW a \in Nat PROVE Correct(Empty(a)) /\ EndOf(Empty(a)) = a /\ Empty(a) \in Runs
<1>1. << >> \in Seq(Nat) /\ Len(<< >>) = 0
  BY EmptySeq
<1>2. EndOf(Empty(a)) = a
  BY <1>1 DEF EndOf, Empty
<1>3. Samples(a, a) \in Seq(Nat) /\ Len(Samples(a, a)) = 0
  BY SamplesAreSequences
<1>4. Samples(a, a) = << >>
  BY <1>1, <1>3, SeqEqual
<1> QED
  BY <1>1, <1>2, <1>4 DEF Correct, Empty, Runs

LEMMA EndsAreNumbers ==
    ASSUME NEW run \in Runs
    PROVE  run.first \in Nat /\ run.data \in Seq(Nat) /\ Len(run.data) \in Nat
           /\ EndOf(run) \in Nat /\ run.first <= EndOf(run)
<1>1. run.first \in Nat /\ run.data \in Seq(Nat)
  BY DEF Runs
<1>2. Len(run.data) \in Nat
  BY <1>1, LenProperties
<1> QED
  BY <1>1, <1>2 DEF EndOf

LEMMA IndexEndType == AudioTypeOK => IndexEnd \in Nat /\ Len(segments) \in Nat
<1> SUFFICES ASSUME AudioTypeOK PROVE IndexEnd \in Nat /\ Len(segments) \in Nat
  OBVIOUS
<1>1. segments \in Seq(Runs) /\ Len(segments) \in Nat
  BY LenProperties DEF AudioTypeOK
<1>2. CASE segments = << >>
  BY <1>1, <1>2 DEF IndexEnd
<1>3. CASE segments # << >>
  <2>1. Len(segments) \in 1..Len(segments)
    BY <1>1, <1>3, EmptySeq
  <2>2. segments[Len(segments)] \in Runs
    BY <1>1, <2>1, ElementOfSeq
  <2> QED
    BY <1>1, <1>3, <2>2, EndsAreNumbers DEF IndexEnd
<1> QED
  BY <1>2, <1>3

LEMMA ClosingKeepsOrder ==
    ASSUME AudioTypeOK, Chained, FileFollows, CloseSegment, UNCHANGED nextSample
    PROVE  /\ segments' \in Seq(Runs) /\ file' \in Runs /\ wave' = "none"
           /\ Chained' /\ FileFollows' /\ IndexEnd' = nextSample
<1>1. CASE wave = "none"
  <2>1. segments' = segments /\ file' = file /\ wave' = "none" /\ nextSample' = nextSample
    BY <1>1 DEF CloseSegment
  <2> QED
    BY <1>1, <2>1 DEF AudioTypeOK, Chained, FileFollows, IndexEnd, Correct
<1>2. CASE wave # "none"
  <2>1. /\ segments' = Append(segments, file) /\ file' = Empty(EndOf(file))
        /\ wave' = "none" /\ nextSample' = nextSample
    BY <1>2 DEF CloseSegment
  <2>2. segments \in Seq(Runs) /\ file \in Runs /\ Len(segments) \in Nat
    BY LenProperties DEF AudioTypeOK
  <2>3. /\ Append(segments, file) \in Seq(Runs)
        /\ Append(segments, file) # << >>
        /\ Len(Append(segments, file)) = Len(segments) + 1
        /\ \A i \in 1..Len(segments) : Append(segments, file)[i] = segments[i]
        /\ Append(segments, file)[Len(segments) + 1] = file
    BY <2>2, AppendProperties
  <2>4. EndOf(file) \in Nat /\ EndOf(file) = nextSample
    BY <1>2, <2>2, EndsAreNumbers DEF FileFollows
  <2>5. IndexEnd' = nextSample
    BY <2>1, <2>3, <2>4 DEF IndexEnd
  <2>6. file' \in Runs /\ Correct(file')
    BY <2>1, <2>4, NoSamples
  <2>7. FileFollows'
    BY <2>1, <2>5, <2>6 DEF FileFollows, Correct
  <2>8. Chained'
    <3> SUFFICES ASSUME NEW i \in 1..(Len(segments) + 1)
                 PROVE  /\ Correct(Append(segments, file)[i])
                        /\ Append(segments, file)[i].first =
                             IF i = 1 THEN 0 ELSE EndOf(Append(segments, file)[i - 1])
      BY <2>1, <2>3 DEF Chained, Correct
    <3>1. CASE i \in 1..Len(segments)
      <4>1. i # 1 => i - 1 \in 1..Len(segments)
        BY <3>1, <2>2
      <4> QED
        BY <3>1, <4>1, <2>3 DEF Chained
    <3>2. CASE i = Len(segments) + 1
      <4>1. CASE segments = << >>
        <5>1. i = 1
          BY <3>2, <4>1, EmptySeq
        <5> QED
          BY <1>2, <3>2, <4>1, <5>1, <2>3 DEF FileFollows, IndexEnd
      <4>2. CASE segments # << >>
        <5>1. i # 1 /\ i - 1 = Len(segments) /\ Len(segments) \in 1..Len(segments)
          BY <3>2, <4>2, <2>2, EmptySeq
        <5> QED
          BY <1>2, <3>2, <4>2, <5>1, <2>3 DEF FileFollows, IndexEnd
      <4> QED
        BY <4>1, <4>2
    <3> QED
      BY <3>1, <3>2, <2>2
  <2> QED
    BY <2>1, <2>3, <2>5, <2>6, <2>7, <2>8
<1> QED
  BY <1>1, <1>2

LEMMA FailedCloseKeepsOrder ==
    ASSUME AudioTypeOK, Chained, FileFollows, CloseFails, UNCHANGED nextSample
    PROVE  /\ segments' \in Seq(Runs) /\ file' \in Runs /\ wave' = "shut"
           /\ Chained' /\ FileFollows' /\ IndexEnd' = IndexEnd
BY DEF AudioTypeOK, Chained, FileFollows, CloseFails, IndexEnd, Correct

-----------------------------------------------------------------------------
(* The steps of the source.                                                 *)

SourceTypes == [pc : {"idle", "checked", "writing", "written"}, first : Nat, end : Nat]
ReaderTypes == [pc : {"idle", "rows", "done", "missing"}, start : Nat, end : Nat,
                cursor : Nat, row : Nat, got : Seq(Nat)]

(* What a step may leave alone: everything on disk and in the ring.          *)
LEMMA StoreUntouched ==
    ASSUME AudioInv, UNCHANGED <<head, nextSample, ring, segments, wave, file>>
    PROVE  /\ Chained' /\ FileFollows' /\ RingEndsAtHead' /\ IndexEnd' = IndexEnd
           /\ head' \in Nat /\ nextSample' \in Nat /\ ring' \in Runs /\ segments' \in Seq(Runs)
           /\ wave' \in {"none", "open", "shut"} /\ file' \in Runs /\ (head <= nextSample)'
BY DEF AudioInv, AudioTypeOK, Chained, FileFollows, RingEndsAtHead, SourceAtEnd, IndexEnd, Correct

LEMMA SourceOnlySteps ==
    ASSUME AudioInv,
           \/ \E first \in 0..MaxHead, n \in 1..MaxBlock : AcceptPcm(first, n)
           \/ RefuseAppend \/ EnterAppend \/ AppendRaises \/ AppendEnds
    PROVE  AudioInv'
<1>1. UNCHANGED <<head, nextSample, ring, segments, wave, file, capture, reader>>
  BY DEF AcceptPcm, RefuseAppend, EnterAppend, AppendRaises, AppendEnds
<1>2. source' \in SourceTypes
  <2>1. CASE \E first \in 0..MaxHead, n \in 1..MaxBlock : AcceptPcm(first, n)
    <3>1. PICK first \in 0..MaxHead, n \in 1..MaxBlock : AcceptPcm(first, n)
      BY <2>1
    <3>2. first \in Nat /\ first + n \in Nat
      BY SizesAssumption
    <3> QED
      BY <3>1, <3>2 DEF AcceptPcm, SourceTypes
  <2>2. CASE RefuseAppend \/ EnterAppend \/ AppendRaises \/ AppendEnds
    BY <2>2
       DEF RefuseAppend, EnterAppend, AppendRaises, AppendEnds, SourceTypes, AudioInv,
           AudioTypeOK
  <2> QED
    BY <2>1, <2>2
<1>3. SourceAtEnd'
  <2>1. CASE \E first \in 0..MaxHead, n \in 1..MaxBlock : AcceptPcm(first, n)
    <3>1. PICK first \in 0..MaxHead, n \in 1..MaxBlock : AcceptPcm(first, n)
      BY <2>1
    <3>2. first \in Nat /\ n \in Nat /\ first <= first + n
      BY SizesAssumption
    <3> QED
      BY <1>1, <3>1, <3>2 DEF AcceptPcm, SourceAtEnd, AudioInv, AudioTypeOK
  <2>2. CASE RefuseAppend \/ AppendRaises
    BY <1>1, <2>2 DEF RefuseAppend, AppendRaises, SourceAtEnd, AudioInv, AudioTypeOK
  <2>3. CASE EnterAppend
    BY <1>1, <2>3 DEF EnterAppend, SourceAtEnd, AudioInv, AudioTypeOK
  <2>4. CASE AppendEnds
    BY <1>1, <2>4 DEF AppendEnds, SourceAtEnd, AudioInv, AudioTypeOK
  <2> QED
    BY <2>1, <2>2, <2>3, <2>4
<1>4. reader.pc = "rows" => source'.pc # "writing"
  <2>1. CASE EnterAppend
    BY <2>1 DEF EnterAppend, AudioLockFree, ReaderIdle
  <2>2. CASE \/ \E first \in 0..MaxHead, n \in 1..MaxBlock : AcceptPcm(first, n)
             \/ RefuseAppend \/ AppendRaises \/ AppendEnds
    BY <2>2 DEF AcceptPcm, RefuseAppend, AppendRaises, AppendEnds, AudioInv, AudioTypeOK
  <2> QED
    BY <2>1, <2>2
<1>5. ReaderOnTrack'
  BY <1>1, <1>4, StoreUntouched DEF ReaderOnTrack, AudioInv
<1> QED
  BY <1>1, <1>2, <1>3, <1>5, StoreUntouched DEF AudioInv, AudioTypeOK, SourceTypes

LEMMA OpenSegmentStep == ASSUME AudioInv, OpenSegment PROVE AudioInv'
<1>1. /\ wave = "none" /\ wave' = "open" /\ file' = Empty(nextSample)
      /\ source.pc = "writing"
      /\ UNCHANGED <<head, nextSample, ring, segments, capture, source, reader>>
  BY DEF OpenSegment, Writing
<1>2. Correct(file') /\ EndOf(file') = nextSample /\ file' \in Runs /\ file'.first = nextSample
  BY <1>1, NoSamples DEF AudioInv, AudioTypeOK, Empty
<1>3. IndexEnd' = IndexEnd /\ IndexEnd = nextSample
  BY <1>1 DEF IndexEnd, AudioInv, FileFollows
<1>4. FileFollows'
  BY <1>1, <1>2, <1>3 DEF FileFollows, Correct
<1>5. Chained' /\ RingEndsAtHead' /\ SourceAtEnd'
  BY <1>1 DEF AudioInv, Chained, RingEndsAtHead, SourceAtEnd, Correct
<1>6. ReaderOnTrack'
  BY <1>1 DEF AudioInv, ReaderOnTrack
<1> QED
  BY <1>1, <1>2, <1>4, <1>5, <1>6 DEF AudioInv, AudioTypeOK

LEMMA WriteFramesStep == ASSUME AudioInv, WriteFrames PROVE AudioInv'
<1> DEFINE first == source.first
           next == source.first + Part
<1>1. /\ wave = "open" /\ source.pc = "writing" /\ first < source.end /\ Fits > 0
      /\ file' = [file EXCEPT !.data = @ \o Samples(first, next)]
      /\ nextSample' = nextSample + Part
      /\ source' = [source EXCEPT !.first = @ + Part]
      /\ UNCHANGED <<head, ring, segments, wave, capture, reader>>
  BY DEF WriteFrames, Writing
<1>2. file \in Runs /\ first \in Nat /\ source.end \in Nat /\ source \in SourceTypes
  BY DEF AudioInv, AudioTypeOK, SourceTypes
<1>3. Fits \in Int /\ file.first \in Nat /\ EndOf(file) \in Nat /\ file.first <= EndOf(file)
  BY <1>2, SizesAssumption, EndsAreNumbers DEF Fits
<1>4. Part \in Nat /\ Part <= source.end - first
  BY <1>1, <1>2, <1>3 DEF Part
<1>5. next \in Nat /\ first <= next /\ next <= source.end
  BY <1>2, <1>4
<1>6. EndOf(file) = first /\ nextSample = first /\ file.first = IndexEnd
  BY <1>1 DEF AudioInv, FileFollows, SourceAtEnd
<1>7. file.data = Samples(file.first, first)
  BY <1>6 DEF AudioInv, FileFollows, Correct
<1>8. file'.first = file.first /\ file'.data = Samples(file.first, next)
  <2>1. file'.data = file.data \o Samples(first, next) /\ file'.first = file.first
    BY <1>1, <1>2 DEF Runs
  <2>2. file.first \in Nat /\ first \in Nat /\ next \in Nat /\ file.first <= first /\ first <= next
    BY <1>2, <1>3, <1>5, <1>6
  <2> HIDE DEF first, next
  <2>3. Samples(file.first, first) \o Samples(first, next) = Samples(file.first, next)
    BY <2>2, SamplesJoin
  <2> QED
    BY <1>7, <2>1, <2>3
<1>9. /\ Samples(file.first, next) \in Seq(Nat)
      /\ Len(Samples(file.first, next)) = next - file.first
  <2>1. file.first \in Nat /\ next \in Nat /\ file.first <= next
    BY <1>2, <1>3, <1>5, <1>6
  <2> HIDE DEF next
  <2> QED
    BY <2>1, SamplesAreSequences
<1>10. EndOf(file') = next
  BY <1>3, <1>5, <1>8, <1>9 DEF EndOf
<1>11. file' \in Runs
  BY <1>1, <1>2, <1>8, <1>9 DEF Runs
<1>12. IndexEnd' = IndexEnd /\ nextSample' = next
  BY <1>1, <1>6 DEF IndexEnd
<1>13. FileFollows'
  BY <1>1, <1>6, <1>8, <1>10, <1>12 DEF FileFollows, Correct
<1>14. source' \in SourceTypes /\ source'.first = next /\ source'.end = source.end /\ source'.pc = "writing"
  BY <1>1, <1>2, <1>5 DEF SourceTypes
<1>15. SourceAtEnd'
  BY <1>1, <1>2, <1>5, <1>6, <1>12, <1>14 DEF AudioInv, AudioTypeOK, SourceAtEnd
<1>16. Chained' /\ RingEndsAtHead'
  BY <1>1 DEF AudioInv, Chained, RingEndsAtHead, Correct
<1>17. ReaderOnTrack'
  BY <1>1 DEF AudioInv, ReaderOnTrack
<1>18. nextSample' \in Nat
  BY <1>5, <1>12
<1> QED
  BY <1>1, <1>11, <1>13, <1>14, <1>15, <1>16, <1>17, <1>18 DEF AudioInv, AudioTypeOK, SourceTypes

LEMMA CloseFullStep == ASSUME AudioInv, CloseFull PROVE AudioInv'
<1>1. source.pc = "writing" /\ UNCHANGED <<head, nextSample, ring, capture, reader>>
  BY DEF CloseFull
<1>2. /\ segments' \in Seq(Runs) /\ file' \in Runs /\ wave' \in {"none", "open", "shut"}
      /\ Chained' /\ FileFollows'
  BY <1>1, ClosingKeepsOrder, FailedCloseKeepsOrder DEF CloseFull, AudioInv
<1>3. source' = source \/ source' = [source EXCEPT !.pc = "idle"]
  BY DEF CloseFull
<1>4. source' \in SourceTypes /\ SourceAtEnd'
  BY <1>1, <1>3 DEF AudioInv, AudioTypeOK, SourceAtEnd, SourceTypes
<1>5. RingEndsAtHead' /\ ReaderOnTrack'
  BY <1>1 DEF AudioInv, RingEndsAtHead, ReaderOnTrack, Correct
<1> QED
  BY <1>1, <1>2, <1>4, <1>5 DEF AudioInv, AudioTypeOK, SourceTypes

LEMMA SamplesAfter ==
    ASSUME NEW r \in Nat, NEW e \in Nat, NEW x \in Nat, r + x <= e
    PROVE  SubSeq(Samples(r, e), x + 1, e - r) = Samples(r + x, e)
<1> DEFINE c == r + x
           m == x + 1
           n == e - r
<1>1. c \in Nat /\ m \in Int /\ n \in Int /\ r <= c /\ c <= e /\ e <= e /\ m = c - r + 1 /\ n = e - r
  OBVIOUS
<1> HIDE DEF c, m, n
<1>2. SubSeq(Samples(r, e), m, n) = Samples(c, e)
  BY <1>1, SamplesPart
<1> QED
  BY <1>2 DEF c, m, n

LEMMA KeepBlockStep == ASSUME AudioInv, KeepBlock PROVE AudioInv'
<1> DEFINE data == ring.data \o Samples(head, source.end)
           end == source.end
           from == ring.first + Excess(data)
<1>1. /\ source.pc = "written"
      /\ ring' = [first |-> from, data |-> SubSeq(data, Excess(data) + 1, Len(data))]
      /\ head' = end
      /\ source' = [source EXCEPT !.pc = "idle"]
      /\ UNCHANGED <<nextSample, segments, wave, file, capture, reader>>
  BY DEF KeepBlock
<1>2. ring \in Runs /\ head \in Nat /\ end \in Nat /\ head <= end /\ end = nextSample
  BY <1>1 DEF AudioInv, AudioTypeOK, SourceAtEnd
<1>3. ring.first \in Nat /\ EndOf(ring) = head /\ ring.first <= head /\ ring.data = Samples(ring.first, head)
  BY <1>2, EndsAreNumbers DEF AudioInv, RingEndsAtHead, Correct
<1>4. data = Samples(ring.first, end)
  <2>1. Samples(ring.first, head) \o Samples(head, end) = Samples(ring.first, end)
    <3> HIDE DEF end
    <3> QED
      BY <1>2, <1>3, SamplesJoin
  <2> QED
    BY <1>3, <2>1
<1> HIDE DEF data, end
<1>5. Len(data) = end - ring.first
  <2>1. ring.first \in Nat /\ end \in Nat /\ ring.first <= end
    BY <1>2, <1>3
  <2> QED
    BY <1>4, <2>1, SamplesAreSequences
<1>6. Excess(data) \in Nat /\ Excess(data) <= Len(data)
  BY <1>2, <1>3, <1>5, SizesAssumption DEF Excess
<1>7. from \in Nat /\ ring.first <= from /\ from <= end
  BY <1>2, <1>3, <1>5, <1>6
<1>8. SubSeq(data, Excess(data) + 1, Len(data)) = Samples(from, end)
  <2> DEFINE x == Excess(data)
  <2>1. x \in Nat /\ from = ring.first + x /\ ring.first + x <= end
    BY <1>6, <1>7
  <2> HIDE DEF x, from
  <2>2. SubSeq(Samples(ring.first, end), x + 1, end - ring.first) = Samples(ring.first + x, end)
    BY <1>2, <1>3, <2>1, SamplesAfter
  <2> QED
    BY <1>4, <1>5, <2>1, <2>2 DEF x
<1>9. Samples(from, end) \in Seq(Nat) /\ Len(Samples(from, end)) = end - from
  <2> HIDE DEF from, end
  <2> QED
    BY <1>2, <1>7, SamplesAreSequences
<1>10. ring'.first = from /\ ring'.data = Samples(from, end) /\ ring' \in Runs
  BY <1>1, <1>7, <1>8, <1>9 DEF Runs
<1>11. EndOf(ring') = end
  BY <1>2, <1>7, <1>9, <1>10 DEF EndOf
<1>12. RingEndsAtHead'
  BY <1>1, <1>10, <1>11 DEF RingEndsAtHead, Correct
<1>13. source' \in SourceTypes /\ SourceAtEnd'
  BY <1>1, <1>2 DEF AudioInv, AudioTypeOK, SourceAtEnd, SourceTypes
<1>14. Chained' /\ FileFollows'
  BY <1>1 DEF AudioInv, Chained, FileFollows, IndexEnd, Correct
<1>15. ReaderOnTrack'
  BY <1>1 DEF AudioInv, ReaderOnTrack, IndexEnd
<1> QED
  BY <1>1, <1>2, <1>10, <1>12, <1>13, <1>14, <1>15 DEF AudioInv, AudioTypeOK, SourceTypes

-----------------------------------------------------------------------------
(* The steps of a reader.                                                   *)

LEMMA ReadRingStep ==
    ASSUME AudioInv, NEW from \in Nat, NEW end \in Nat, ReadRing(from, end)
    PROVE  AudioInv'
<1> DEFINE got == SubSeq(ring.data, from - ring.first + 1, end - ring.first)
<1>1. /\ from < end /\ end <= head /\ ring.first <= from /\ end <= EndOf(ring)
      /\ reader' = [reader EXCEPT !.pc = "done", !.start = from, !.end = end, !.got = got]
      /\ UNCHANGED <<head, nextSample, ring, segments, wave, file, capture, source>>
  BY DEF ReadRing, InRing
<1>2. ring.first \in Nat /\ EndOf(ring) \in Nat /\ ring.data = Samples(ring.first, EndOf(ring))
  BY EndsAreNumbers DEF AudioInv, AudioTypeOK, RingEndsAtHead, Correct
<1>3. got = Samples(from, end)
  <2> DEFINE a == ring.first
             b == EndOf(ring)
             m == from - a + 1
             n == end - a
  <2>1. a \in Nat /\ b \in Nat /\ a <= from /\ from <= end /\ end <= b
        /\ m \in Int /\ n \in Int /\ m = from - a + 1 /\ n = end - a
    BY <1>1, <1>2
  <2>2. got = SubSeq(Samples(a, b), m, n)
    BY <1>2
  <2> HIDE DEF a, b, m, n, got
  <2>3. SubSeq(Samples(a, b), m, n) = Samples(from, end)
    BY <2>1, SamplesPart
  <2> QED
    BY <2>2, <2>3
<1>4. Samples(from, end) \in Seq(Nat)
  BY <1>1, SamplesAreSequences
<1>5. reader' \in ReaderTypes
  BY <1>1, <1>3, <1>4 DEF AudioInv, AudioTypeOK, ReaderTypes
<1>6. ReaderOnTrack'
  BY <1>1, <1>3 DEF ReaderOnTrack, AudioInv, AudioTypeOK
<1>7. SourceAtEnd'
  BY <1>1 DEF AudioInv, SourceAtEnd
<1> QED
  BY <1>1, <1>5, <1>6, <1>7, StoreUntouched DEF AudioInv, AudioTypeOK, ReaderTypes

LEMMA ReadFilesStep ==
    ASSUME AudioInv, NEW from \in Nat, NEW end \in Nat, ReadFiles(from, end)
    PROVE  AudioInv'
<1>1. /\ from < end /\ end <= head /\ source.pc # "writing"
      /\ UNCHANGED <<head, nextSample, ring, capture, source>>
  BY DEF ReadFiles, AudioLockFree
<1>2. head <= nextSample /\ head \in Nat /\ nextSample \in Nat /\ end <= nextSample
  BY <1>1 DEF AudioInv, AudioTypeOK, SourceAtEnd
<1>3. CASE /\ IF Overlaps(end) THEN CloseSegment ELSE UNCHANGED <<segments, wave, file>>
           /\ reader' = [pc |-> "rows", start |-> from, end |-> end, cursor |-> from,
                         row |-> 1, got |-> << >>]
  <2>1. /\ segments' \in Seq(Runs) /\ file' \in Runs /\ wave' \in {"none", "open", "shut"}
        /\ Chained' /\ FileFollows' /\ end <= IndexEnd'
    <3>1. CASE Overlaps(end)
      BY <1>1, <1>2, <1>3, <3>1, ClosingKeepsOrder DEF AudioInv
    <3>2. CASE ~ Overlaps(end)
      <4>1. UNCHANGED <<segments, wave, file, nextSample>>
        BY <1>1, <1>3, <3>2
      <4>2. IndexEnd' = IndexEnd
        BY <4>1 DEF IndexEnd
      <4>3. file.first \in Nat
        BY EndsAreNumbers DEF AudioInv, AudioTypeOK
      <4>4. end <= IndexEnd
        BY <1>2, <3>2, <4>3 DEF Overlaps, AudioInv, FileFollows
      <4> QED
        BY <4>1, <4>2, <4>4 DEF AudioInv, AudioTypeOK, Chained, FileFollows, Correct
    <3> QED
      BY <3>1, <3>2
  <2>2. << >> \in Seq(Nat) /\ Samples(from, from) = << >>
    <3>1. << >> \in Seq(Nat) /\ Len(<< >>) = 0
      BY EmptySeq
    <3>2. Samples(from, from) \in Seq(Nat) /\ Len(Samples(from, from)) = 0
      BY SamplesAreSequences
    <3> QED
      BY <3>1, <3>2, SeqEqual
  <2>3. reader' \in ReaderTypes
    BY <1>3, <2>2 DEF ReaderTypes
  <2>4. Len(segments)' \in Nat
    BY <2>1, LenProperties
  <2>5. /\ reader'.pc = "rows" /\ reader'.start = from /\ reader'.end = end
        /\ reader'.cursor = from /\ reader'.row = 1 /\ reader'.got = << >>
    BY <1>3
  <2>6. ReaderOnTrack'
    <3>1. source'.pc # "writing"
      BY <1>1
    <3>2. 1 \in 1..(Len(segments)' + 1) /\ \A i \in 1..Len(segments)' : ~ (i < 1)
      BY <2>4
    <3> QED
      BY <1>1, <2>1, <2>2, <2>5, <3>1, <3>2 DEF ReaderOnTrack
  <2>7. RingEndsAtHead' /\ SourceAtEnd'
    BY <1>1 DEF AudioInv, RingEndsAtHead, SourceAtEnd, Correct
  <2> QED
    BY <1>1, <2>1, <2>3, <2>6, <2>7 DEF AudioInv, AudioTypeOK, ReaderTypes
<1>4. CASE CloseFails /\ reader' = [reader EXCEPT !.pc = "idle"]
  <2>1. /\ segments' \in Seq(Runs) /\ file' \in Runs /\ wave' = "shut"
        /\ Chained' /\ FileFollows'
    BY <1>1, <1>4, FailedCloseKeepsOrder DEF AudioInv
  <2>2. reader' \in ReaderTypes /\ reader'.pc = "idle"
    BY <1>4 DEF AudioInv, AudioTypeOK, ReaderTypes
  <2>3. RingEndsAtHead' /\ SourceAtEnd' /\ ReaderOnTrack'
    BY <1>1, <2>2 DEF AudioInv, RingEndsAtHead, SourceAtEnd, ReaderOnTrack, Correct
  <2> QED
    BY <1>1, <2>1, <2>2, <2>3 DEF AudioInv, AudioTypeOK, ReaderTypes
<1> QED
  BY <1>3, <1>4 DEF ReadFiles

(* The row the loop looks at: it does not start behind the cursor.           *)
LEMMA NextRowFollows ==
    ASSUME AudioInv, reader.pc = "rows"
    PROVE  /\ reader.row <= Len(segments)
           /\ Row \in Runs /\ Correct(Row)
           /\ Row.first <= reader.cursor
<1>1. segments \in Seq(Runs) /\ Len(segments) \in Nat /\ IndexEnd \in Nat
  BY LenProperties, IndexEndType DEF AudioInv, AudioTypeOK
<1>2. /\ reader.cursor \in Nat /\ reader.end \in Nat /\ reader.row \in 1..(Len(segments) + 1)
      /\ reader.cursor < reader.end /\ reader.end <= IndexEnd
      /\ \A i \in 1..Len(segments) : i < reader.row => EndOf(segments[i]) <= reader.cursor
  BY DEF AudioInv, AudioTypeOK, ReaderOnTrack
<1>3. reader.row <= Len(segments)
  <2> SUFFICES ASSUME reader.row = Len(segments) + 1 PROVE FALSE
    BY <1>1, <1>2
  <2>1. CASE segments = << >>
    BY <1>2, <2>1 DEF IndexEnd
  <2>2. CASE segments # << >>
    <3>1. Len(segments) \in 1..Len(segments)
      BY <1>1, <2>2, EmptySeq
    <3>2. EndOf(segments[Len(segments)]) <= reader.cursor /\ IndexEnd = EndOf(segments[Len(segments)])
      BY <1>1, <1>2, <2>2, <3>1 DEF IndexEnd
    <3> QED
      BY <1>1, <1>2, <3>2
  <2> QED
    BY <2>1, <2>2
<1>4. reader.row \in 1..Len(segments)
  BY <1>1, <1>2, <1>3
<1>5. Row \in Runs /\ Correct(Row)
  BY <1>1, <1>4, ElementOfSeq DEF Row, AudioInv, Chained
<1>6. Row.first <= reader.cursor
  <2>1. CASE reader.row = 1
    BY <1>2, <1>4, <2>1 DEF Row, AudioInv, Chained
  <2>2. CASE reader.row # 1
    <3>1. reader.row - 1 \in 1..Len(segments) /\ reader.row - 1 < reader.row
      BY <1>1, <1>4, <2>2
    <3>2. Row.first = EndOf(segments[reader.row - 1])
      BY <1>4, <2>2 DEF Row, AudioInv, Chained
    <3> QED
      BY <1>2, <3>1, <3>2
  <2> QED
    BY <2>1, <2>2
<1> QED
  BY <1>3, <1>5, <1>6

LEMMA SkipRowStep == ASSUME AudioInv, SkipRow PROVE AudioInv'
<1>1. /\ reader.pc = "rows" /\ reader.row <= Len(segments) /\ EndOf(Row) <= reader.cursor
      /\ reader' = [reader EXCEPT !.row = @ + 1]
      /\ UNCHANGED <<head, nextSample, ring, segments, wave, file, capture, source>>
  BY DEF SkipRow, Reading
<1>2. reader \in ReaderTypes /\ reader.row \in Nat /\ Len(segments) \in Nat
  BY IndexEndType DEF AudioInv, AudioTypeOK, ReaderTypes
<1>3. reader' \in ReaderTypes /\ reader'.row = reader.row + 1
  BY <1>1, <1>2 DEF ReaderTypes
<1>4. /\ reader'.pc = "rows" /\ reader'.start = reader.start /\ reader'.end = reader.end
      /\ reader'.cursor = reader.cursor /\ reader'.got = reader.got
  BY <1>1, <1>2 DEF ReaderTypes
<1>5. \A i \in 1..Len(segments) : i < reader.row + 1 => EndOf(segments[i]) <= reader.cursor
  BY <1>1, <1>2 DEF AudioInv, ReaderOnTrack, Row
<1>6. reader.row + 1 \in 1..(Len(segments) + 1)
  BY <1>1, <1>2 DEF AudioInv, ReaderOnTrack
<1>7. ReaderOnTrack'
  BY <1>1, <1>3, <1>4, <1>5, <1>6, StoreUntouched DEF AudioInv, ReaderOnTrack
<1>8. SourceAtEnd'
  BY <1>1 DEF AudioInv, SourceAtEnd
<1> QED
  BY <1>1, <1>3, <1>7, <1>8, StoreUntouched DEF AudioInv, AudioTypeOK, ReaderTypes

LEMMA ReadRowStep == ASSUME AudioInv, ReadRow PROVE AudioInv'
<1> DEFINE from == reader.cursor
           piece == SubSeq(Row.data, reader.cursor - Row.first + 1, PieceEnd - Row.first)
<1>1. /\ reader.pc = "rows" /\ reader.row <= Len(segments)
      /\ Row.first <= from /\ from < EndOf(Row)
      /\ reader' = [reader EXCEPT !.pc = IF PieceEnd = reader.end THEN "done" ELSE "rows",
                        !.row = @ + 1, !.cursor = PieceEnd, !.got = @ \o piece]
      /\ UNCHANGED <<head, nextSample, ring, segments, wave, file, capture, source>>
  BY DEF ReadRow, Reading
<1>2. /\ reader \in ReaderTypes /\ from \in Nat /\ reader.start \in Nat /\ reader.end \in Nat
      /\ reader.row \in Nat /\ Len(segments) \in Nat
      /\ reader.start <= from /\ from < reader.end
      /\ reader.got = Samples(reader.start, from)
      /\ reader.row \in 1..(Len(segments) + 1)
  BY <1>1, IndexEndType DEF AudioInv, AudioTypeOK, ReaderTypes, ReaderOnTrack
<1>3. Row.first \in Nat /\ EndOf(Row) \in Nat /\ Row.data = Samples(Row.first, EndOf(Row))
  BY <1>1, NextRowFollows, EndsAreNumbers DEF Correct
<1>4. /\ PieceEnd \in Nat /\ from <= PieceEnd /\ PieceEnd <= EndOf(Row) /\ PieceEnd <= reader.end
      /\ PieceEnd # reader.end => PieceEnd = EndOf(Row) /\ PieceEnd < reader.end
  BY <1>1, <1>2, <1>3 DEF PieceEnd
<1>5. piece = Samples(from, PieceEnd)
  <2> DEFINE a == Row.first
             b == EndOf(Row)
             d == PieceEnd
             m == from - a + 1
             n == d - a
  <2>1. /\ a \in Nat /\ b \in Nat /\ from \in Nat /\ d \in Nat
        /\ a <= from /\ from <= d /\ d <= b
        /\ m \in Int /\ n \in Int /\ m = from - a + 1 /\ n = d - a
    BY <1>1, <1>2, <1>3, <1>4
  <2>2. piece = SubSeq(Samples(a, b), m, n)
    BY <1>3
  <2> HIDE DEF a, b, d, m, n, piece, from
  <2>3. SubSeq(Samples(a, b), m, n) = Samples(from, d)
    BY <2>1, SamplesPart
  <2> QED
    BY <2>2, <2>3 DEF d
<1>6. reader.got \o piece = Samples(reader.start, PieceEnd)
  <2>1. Samples(reader.start, from) \o Samples(from, PieceEnd) = Samples(reader.start, PieceEnd)
    <3> HIDE DEF from
    <3> QED
      BY <1>2, <1>4, SamplesJoin
  <2> QED
    BY <1>2, <1>5, <2>1
<1>7. Samples(reader.start, PieceEnd) \in Seq(Nat)
  <2>1. reader.start <= PieceEnd
    BY <1>2, <1>4
  <2> QED
    BY <1>2, <1>4, <2>1, SamplesAreSequences
<1> HIDE DEF piece
<1>8. /\ reader' \in ReaderTypes
      /\ reader'.pc = (IF PieceEnd = reader.end THEN "done" ELSE "rows")
      /\ reader'.start = reader.start /\ reader'.end = reader.end
      /\ reader'.row = reader.row + 1 /\ reader'.cursor = PieceEnd
      /\ reader'.got = Samples(reader.start, PieceEnd)
  <2> DEFINE got == Samples(reader.start, PieceEnd)
             point == IF PieceEnd = reader.end THEN "done" ELSE "rows"
  <2>1. reader' = [reader EXCEPT !.pc = point, !.row = reader.row + 1, !.cursor = PieceEnd, !.got = got]
    BY <1>1, <1>6
  <2>2. got \in Seq(Nat) /\ point \in {"done", "rows"} /\ reader.row + 1 \in Nat
    BY <1>2, <1>7
  <2> HIDE DEF got, point
  <2>3. /\ reader' \in ReaderTypes /\ reader'.pc = point
        /\ reader'.start = reader.start /\ reader'.end = reader.end
        /\ reader'.row = reader.row + 1 /\ reader'.cursor = PieceEnd /\ reader'.got = got
    BY <1>2, <1>4, <2>1, <2>2 DEF ReaderTypes
  <2> QED
    BY <2>3 DEF got, point
<1>9. ReaderOnTrack'
  <2>1. CASE PieceEnd = reader.end
    BY <1>1, <1>8, <2>1 DEF ReaderOnTrack
  <2>2. CASE PieceEnd # reader.end
    <3>1. \A i \in 1..Len(segments) : i < reader.row + 1 => EndOf(segments[i]) <= PieceEnd
      <4> SUFFICES ASSUME NEW i \in 1..Len(segments), i < reader.row + 1
                   PROVE  EndOf(segments[i]) <= PieceEnd
        OBVIOUS
      <4>1. CASE i = reader.row
        BY <1>3, <1>4, <2>2, <4>1 DEF Row
      <4>2. CASE i # reader.row
        <5>1. i < reader.row
          BY <1>2, <4>2
        <5>2. EndOf(segments[i]) <= from
          BY <1>1, <5>1 DEF AudioInv, ReaderOnTrack
        <5>3. segments[i] \in Runs
          BY ElementOfSeq DEF AudioInv, AudioTypeOK
        <5>4. EndOf(segments[i]) \in Nat
          BY <5>3, EndsAreNumbers
        <5> QED
          BY <1>2, <1>4, <5>2, <5>4
      <4> QED
        BY <4>1, <4>2
    <3>2. reader.row + 1 \in 1..(Len(segments) + 1)
      BY <1>1, <1>2
    <3>3. reader.start <= PieceEnd /\ PieceEnd < reader.end
      BY <1>2, <1>4, <2>2
    <3>4. IndexEnd' = IndexEnd /\ reader.end <= IndexEnd /\ source.pc # "writing"
      BY <1>1 DEF AudioInv, ReaderOnTrack, IndexEnd
    <3> QED
      BY <1>1, <1>8, <2>2, <3>1, <3>2, <3>3, <3>4 DEF ReaderOnTrack
  <2> QED
    BY <2>1, <2>2
<1>10. SourceAtEnd'
  BY <1>1 DEF AudioInv, SourceAtEnd
<1> QED
  BY <1>1, <1>8, <1>9, <1>10, StoreUntouched DEF AudioInv, AudioTypeOK, ReaderTypes

LEMMA TakeAudioStep == AudioInv /\ TakeAudio => AudioInv'
<1> SUFFICES ASSUME AudioInv, TakeAudio PROVE AudioInv'
  OBVIOUS
<1>1. /\ UNCHANGED <<head, nextSample, ring, segments, wave, file, capture, source>>
      /\ reader' = NoRead
  BY DEF TakeAudio
<1>2. << >> \in Seq(Nat)
  BY EmptySeq
<1>3. AudioTypeOK'
  BY <1>1, <1>2 DEF AudioInv, AudioTypeOK, NoRead
<1>4. SourceAtEnd' /\ ReaderOnTrack'
  BY <1>1 DEF AudioInv, SourceAtEnd, ReaderOnTrack, NoRead
<1> QED
  BY <1>1, <1>3, <1>4, StoreUntouched DEF AudioInv

LEMMA NothingIsMissing == AudioInv => ~ ReadMisses
<1> SUFFICES ASSUME AudioInv, ReadMisses PROVE FALSE
  OBVIOUS
<1>1. reader.pc = "rows"
  BY DEF ReadMisses
<1>2. reader.row <= Len(segments) /\ Row \in Runs /\ Row.first <= reader.cursor
  BY <1>1, NextRowFollows
<1>3. Row.first \in Nat /\ reader.cursor \in Nat /\ reader.row \in Nat /\ Len(segments) \in Nat
  BY <1>2, EndsAreNumbers, IndexEndType DEF AudioInv, AudioTypeOK
<1> QED
  BY <1>2, <1>3 DEF ReadMisses

LEMMA ClosingSteps == ASSUME AudioInv, BeginSettling \/ Abort PROVE AudioInv'
<1>1. /\ capture' \in {"closed", "aborted"}
      /\ CloseSegment \/ CloseFails
      /\ reader.pc # "rows"
      /\ UNCHANGED <<head, nextSample, ring, source, reader>>
  BY DEF BeginSettling, Abort, AudioLockFree, ReaderIdle
<1>2. /\ segments' \in Seq(Runs) /\ file' \in Runs /\ wave' \in {"none", "open", "shut"}
      /\ Chained' /\ FileFollows'
  BY <1>1, ClosingKeepsOrder, FailedCloseKeepsOrder DEF AudioInv
<1>3. RingEndsAtHead' /\ SourceAtEnd' /\ ReaderOnTrack'
  BY <1>1 DEF AudioInv, RingEndsAtHead, SourceAtEnd, ReaderOnTrack, Correct
<1>4. AudioTypeOK'
  <2>1. capture' \in {"open", "closed", "aborted"}
    BY <1>1
  <2>2. /\ head' \in Nat /\ nextSample' \in Nat /\ ring' \in Runs /\ source' = source
        /\ reader' = reader
    BY <1>1 DEF AudioInv, AudioTypeOK
  <2> QED
    BY <1>2, <2>1, <2>2 DEF AudioInv, AudioTypeOK
<1> QED
  BY <1>2, <1>3, <1>4 DEF AudioInv

-----------------------------------------------------------------------------

LEMMA AudioInvInit == AudioInit => AudioInv
<1> SUFFICES ASSUME AudioInit PROVE AudioInv
  OBVIOUS
<1>1. /\ Empty(0) \in Runs /\ Correct(Empty(0)) /\ EndOf(Empty(0)) = 0
  BY NoSamples
<1>2. << >> \in Seq(Runs) /\ << >> \in Seq(Nat) /\ Len(<< >>) = 0
  BY EmptySeq
<1>3. AudioTypeOK
  BY <1>1, <1>2 DEF AudioInit, AudioTypeOK, NoRead
<1>4. Chained
  BY <1>2 DEF AudioInit, Chained
<1>5. FileFollows /\ RingEndsAtHead
  BY <1>1 DEF AudioInit, FileFollows, RingEndsAtHead, IndexEnd
<1>6. SourceAtEnd /\ ReaderOnTrack
  BY DEF AudioInit, NoRead, SourceAtEnd, ReaderOnTrack
<1> QED
  BY <1>3, <1>4, <1>5, <1>6 DEF AudioInv

LEMMA AudioInvStep == AudioInv /\ [AudioNext]_audioVars => AudioInv'
<1> SUFFICES ASSUME AudioInv, [AudioNext]_audioVars PROVE AudioInv'
  OBVIOUS
<1>1. CASE SourceStep
  BY <1>1, SourceOnlySteps, OpenSegmentStep, WriteFramesStep, CloseFullStep, KeepBlockStep
     DEF SourceStep
<1>2. CASE ReaderStep
  <2>1. CASE \E from, end \in 0..MaxHead : ReadRing(from, end) \/ ReadFiles(from, end)
    BY <2>1, SizesAssumption, ReadRingStep, ReadFilesStep
  <2>2. CASE SkipRow \/ ReadRow \/ ReadMisses
    BY <2>2, SkipRowStep, ReadRowStep, NothingIsMissing
  <2>3. CASE TakeAudio
    BY <2>3, TakeAudioStep
  <2> QED
    BY <1>2, <2>1, <2>2, <2>3 DEF ReaderStep
<1>3. CASE BeginSettling \/ Abort
  BY <1>3, ClosingSteps
<1>4. CASE UNCHANGED audioVars
  <2>1. UNCHANGED <<head, nextSample, ring, segments, wave, file, capture, source, reader>>
    BY <1>4 DEF audioVars
  <2> QED
    BY <2>1, StoreUntouched DEF AudioInv, AudioTypeOK, SourceAtEnd, ReaderOnTrack
<1> QED
  BY <1>1, <1>2, <1>3, <1>4 DEF AudioNext

(* Every type of the audio log, for any sizes and faults.                    *)
THEOREM AudioTypesHold == AudioSpec => []AudioTypeOK
<1>1. AudioInv => AudioTypeOK
  BY DEF AudioInv
<1> QED
  BY <1>1, AudioInvInit, AudioInvStep, PTL DEF AudioSpec

(* read_pcm returns the audio of the range, whatever was cut, closed or      *)
(* failed before (SegmentedAudioLog.read, PcmRing.read).                     *)
THEOREM AcceptedAudioReadsBack == AudioSpec => []AcceptedAudioIsRead
<1>1. AudioInv => AcceptedAudioIsRead
  BY DEF AudioInv, ReaderOnTrack, AcceptedAudioIsRead
<1> QED
  BY <1>1, AudioInvInit, AudioInvStep, PTL DEF AudioSpec

(* The files hold what was accepted, and the ring ends at the head.          *)
THEOREM AcceptedAudioIsOnDisk == AudioSpec => []FilesHoldAccepted
<1>1. AudioInv => FilesHoldAccepted
  BY DEF AudioInv, FileFollows, RingEndsAtHead, SourceAtEnd, FilesHoldAccepted, IndexEnd
<1> QED
  BY <1>1, AudioInvInit, AudioInvStep, PTL DEF AudioSpec

(* Both.                                                                     *)
THEOREM AudioStaysKept == AudioSpec => []AudioIsKept
<1>1. AcceptedAudioIsRead /\ FilesHoldAccepted => AudioIsKept
  BY DEF AudioIsKept
<1> QED
  BY <1>1, AcceptedAudioReadsBack, AcceptedAudioIsOnDisk, PTL

-------------------------------------------------------------------------------
(* RecordingRetention, for any raw segments, any number of deaths and any  *)
(* combination of faults and power losses.                                 *)

(* The inductive invariant.                                                *)

\* recording.json says, or may say after a power loss, that raw audio may go.
Promised == (recordingOnDisk \cup {recording}) \cap {"retirement-pending", "complete"} # {}

Retiring == pc \in {"syncPending", "retire", "writeComplete", "resume", "writeRecovered"}

Durable == playback = "good" /\ playbackOnDisk = {"good"}

\* Whoever retires, has retired or has promised to, had every reason to.
RetirementJustified ==
    Retiring \/ Promised \/ unlinked # {} => Durable /\ compact /\ commit # "behind"

\* Nothing is decided before the decision.
UndecidedBefore ==
    pc \in {"encode", "publish", "syncPlayback", "decide"} =>
        unlinked = {} /\ recording = "none" /\ recordingOnDisk = {"none"}

\* The finalizer hears only of playback files that were synced.
KnownIsSynced ==
    /\ pc \in {"encode", "publish", "syncPlayback"} => ~playbackKnown
    /\ At("decide") /\ playbackKnown => playbackOnDisk = {playback}

\* What the process has done agrees with where it is.
PlaceKnown ==
    /\ Retiring => recording = "retirement-pending"
    /\ At("syncRecovered") => recording = "complete"
    /\ pc \in {"writeComplete", "writeRecovered", "syncRecovered"} => raw = {} /\ ~index

RetentionInv ==
    /\ TypeOK
    /\ RetirementJustified /\ UndecidedBefore /\ KnownIsSynced /\ PlaceKnown
    /\ RecoveryReportsTruth
    /\ ManifestMatchesRaw
    /\ ~lostPower => recording # "torn"
-----------------------------------------------------------------------------
(* Steps.                                                                  *)

\* What the decision depends on (_finalize_recording).
LEMMA OutcomeMeaning ==
    ASSUME NEW readable \in BOOLEAN, NEW tools \in BOOLEAN
    PROVE  /\ Outcome(readable, tools) \in
                {"incomplete", "raw-retained", "retirement-pending"}
           /\ Outcome(readable, tools) = "retirement-pending"
                => compact /\ commit # "behind" /\ playbackKnown /\ playback = "good"
  BY DEF Outcome, RetirementReady, Verified

\* The finalizer decides with some answer of the files and of the tools.
LEMMA DecideMeaning ==
    Decide => \E readable, tools \in BOOLEAN :
                /\ Write(Outcome(readable, tools))
                /\ Goto(IF Outcome(readable, tools) = "retirement-pending"
                        THEN "syncPending" ELSE "syncResult")
<1> SUFFICES ASSUME Decide
             PROVE  \E readable, tools \in BOOLEAN :
                      /\ Write(Outcome(readable, tools))
                      /\ Goto(IF Outcome(readable, tools) = "retirement-pending"
                              THEN "syncPending" ELSE "syncResult")
  OBVIOUS
<1>1. SegmentsReadable \in BOOLEAN  BY DEF SegmentsReadable
<1>2. PICK readable \in {SegmentsReadable} \cup (IF "read" \in Faults THEN {FALSE} ELSE {}),
           tools \in {TRUE} \cup (IF "verify" \in Faults THEN {FALSE} ELSE {}) :
         /\ Write(Outcome(readable, tools))
         /\ Goto(IF Outcome(readable, tools) = "retirement-pending"
                 THEN "syncPending" ELSE "syncResult")
  BY DEF Decide
<1>3. readable \in BOOLEAN /\ tools \in BOOLEAN  BY <1>1, <1>2
<1>4. QED  BY <1>2, <1>3

\* A step preserves the types of the variables.
LEMMA TypeStep == TypeOK /\ [Next]_vars => TypeOK'
<1> SUFFICES ASSUME TypeOK, [Next]_vars PROVE TypeOK'
  OBVIOUS
<1> USE DEF TypeOK, CommitOutcomes, Contents, RecordingStates, Decisions, Points,
            input, lanes, audioFiles, playbackFiles, recordingFile, history,
            At, Goto, Write, Report
<1>1. CASE BeginEncode
  <2>1. partial' \in BOOLEAN /\ pc' \in Points  BY <1>1 DEF BeginEncode
  <2>2. QED  BY <1>1, <2>1 DEF BeginEncode
<1>2. CASE EncodeFails
  <2>1. partial' \in BOOLEAN /\ pc' \in Points  BY <1>2 DEF EncodeFails
  <2>2. QED  BY <1>2, <2>1 DEF EncodeFails
<1>3. CASE PublishPlayback
  <2>1. partial' \in BOOLEAN /\ pc' \in Points  BY <1>3 DEF PublishPlayback
  <2>2. playback' \in Contents /\ playbackOnDisk' \subseteq Contents  BY <1>3 DEF PublishPlayback
  <2>3. QED  BY <1>3, <2>1, <2>2 DEF PublishPlayback
<1>4. CASE SyncPlayback
  <2>1. playbackKnown' \in BOOLEAN  BY <1>4 DEF SyncPlayback
  <2>2. playbackOnDisk' \subseteq Contents  BY <1>4 DEF SyncPlayback
  <2>3. pc' \in Points  BY <1>4 DEF SyncPlayback
  <2>4. QED  BY <1>4, <2>1, <2>2, <2>3 DEF SyncPlayback
<1>5. CASE Decide
  <2>1. PICK readable, tools \in BOOLEAN :
              /\ Write(Outcome(readable, tools))
              /\ Goto(IF Outcome(readable, tools) = "retirement-pending"
                      THEN "syncPending" ELSE "syncResult")
    BY <1>5, DecideMeaning
  <2>2. pc' \in Points  BY <2>1
  <2>3. recording' \in RecordingStates /\ recordingOnDisk' \subseteq RecordingStates
    BY <2>1, OutcomeMeaning
  <2>4. QED  BY <1>5, <2>2, <2>3 DEF Decide
<1>6. CASE SyncRecording
  <2>1. recordingOnDisk' \subseteq RecordingStates  BY <1>6 DEF SyncRecording
  <2>2. pc' \in Points  BY <1>6 DEF SyncRecording
  <2>3. decision' \in Decisions  BY <1>6 DEF SyncRecording
  <2>4. QED  BY <1>6, <2>1, <2>2, <2>3 DEF SyncRecording
<1>7. CASE UnlinkSegment  BY <1>7 DEF UnlinkSegment
<1>8. CASE UnlinkIndex
  <2>1. index' \in BOOLEAN  BY <1>8 DEF UnlinkIndex
  <2>2. pc' \in Points  BY <1>8 DEF UnlinkIndex
  <2>3. QED  BY <1>8, <2>1, <2>2 DEF UnlinkIndex
<1>9. CASE UnlinkFails
  <2>1. recording' \in RecordingStates /\ recordingOnDisk' \subseteq RecordingStates  BY <1>9 DEF UnlinkFails
  <2>2. pc' \in Points  BY <1>9 DEF UnlinkFails
  <2>3. QED  BY <1>9, <2>1, <2>2 DEF UnlinkFails
<1>10. CASE WriteComplete
  <2>1. recording' \in RecordingStates /\ recordingOnDisk' \subseteq RecordingStates  BY <1>10 DEF WriteComplete
  <2>2. pc' \in Points  BY <1>10 DEF WriteComplete
  <2>3. QED  BY <1>10, <2>1, <2>2 DEF WriteComplete
<1>11. CASE FinalizerRaises  BY <1>11 DEF FinalizerRaises
<1>12. CASE Crash  BY <1>12 DEF Crash
<1>13. CASE PowerLoss
  <2>1. partial' \in BOOLEAN /\ lostPower' \in BOOLEAN  BY <1>13 DEF PowerLoss
  <2>2. playback' \in Contents /\ playbackOnDisk' \subseteq Contents
    BY <1>13 DEF PowerLoss
  <2>3. recording' \in RecordingStates /\ recordingOnDisk' \subseteq RecordingStates
    BY <1>13 DEF PowerLoss
  <2>4. pc' \in Points /\ deaths' \in Nat  BY <1>13 DEF PowerLoss
  <2>5. QED  BY <1>13, <2>1, <2>2, <2>3, <2>4 DEF PowerLoss
<1>14. CASE Restart
  <2>1. partial' \in BOOLEAN /\ playbackKnown' \in BOOLEAN  BY <1>14 DEF Restart
  <2>2. pc' \in Points /\ decision' \in Decisions  BY <1>14 DEF Restart
  <2>3. QED  BY <1>14, <2>1, <2>2 DEF Restart
<1>15. CASE Recover
  <2>1. pc' \in Points /\ decision' \in Decisions  BY <1>15 DEF Recover
  <2>2. QED  BY <1>15, <2>1 DEF Recover
<1>16. CASE RecoveryRaises
  <2>1. pc' \in Points /\ decision' \in Decisions  BY <1>16 DEF RecoveryRaises
  <2>2. QED  BY <1>16, <2>1 DEF RecoveryRaises
<1>17. CASE UNCHANGED vars  BY <1>17 DEF vars
<1>18. QED
  BY <1>1, <1>2, <1>3, <1>4, <1>5, <1>6, <1>7, <1>8, <1>9, <1>10, <1>11, <1>12,
     <1>13, <1>14, <1>15, <1>16, <1>17
     DEF Next

\* A step preserves the reasons for retirement.
LEMMA JustifiedStep ==
    TypeOK /\ RetirementJustified /\ UndecidedBefore /\ KnownIsSynced
           /\ (Retiring => recording = "retirement-pending") /\ [Next]_vars
        => RetirementJustified' /\ UndecidedBefore' /\ KnownIsSynced'
<1> SUFFICES ASSUME TypeOK, RetirementJustified, UndecidedBefore, KnownIsSynced,
                    Retiring => recording = "retirement-pending", [Next]_vars
             PROVE  RetirementJustified' /\ UndecidedBefore' /\ KnownIsSynced'
  OBVIOUS
<1> USE DEF TypeOK, RetirementJustified, UndecidedBefore, KnownIsSynced,
            Promised, Retiring, Durable,
            input, lanes, audioFiles, playbackFiles, recordingFile, history,
            At, Goto, Write, Report
<1>1. CASE BeginEncode  BY <1>1 DEF BeginEncode
<1>2. CASE EncodeFails  BY <1>2 DEF EncodeFails
<1>3. CASE PublishPlayback  BY <1>3 DEF PublishPlayback
<1>4. CASE SyncPlayback  BY <1>4 DEF SyncPlayback
<1>5. CASE Decide
  <2>1. PICK readable, tools \in BOOLEAN :
              /\ Write(Outcome(readable, tools))
              /\ Goto(IF Outcome(readable, tools) = "retirement-pending"
                      THEN "syncPending" ELSE "syncResult")
    BY <1>5, DecideMeaning
  <2>2. QED  BY <1>5, <2>1, OutcomeMeaning DEF Decide
<1>6. CASE SyncRecording  BY <1>6 DEF SyncRecording
<1>7. CASE UnlinkSegment  BY <1>7 DEF UnlinkSegment
<1>8. CASE UnlinkIndex  BY <1>8 DEF UnlinkIndex
<1>9. CASE UnlinkFails  BY <1>9 DEF UnlinkFails
<1>10. CASE WriteComplete  BY <1>10 DEF WriteComplete
<1>11. CASE FinalizerRaises  BY <1>11 DEF FinalizerRaises
<1>12. CASE Crash  BY <1>12 DEF Crash
<1>13. CASE PowerLoss  BY <1>13 DEF PowerLoss
<1>14. CASE Restart  BY <1>14 DEF Restart
<1>15. CASE Recover  BY <1>15 DEF Recover, Resumable
<1>16. CASE RecoveryRaises  BY <1>16 DEF RecoveryRaises
<1>17. CASE UNCHANGED vars  BY <1>17 DEF vars
<1>18. QED
  BY <1>1, <1>2, <1>3, <1>4, <1>5, <1>6, <1>7, <1>8, <1>9, <1>10, <1>11, <1>12,
     <1>13, <1>14, <1>15, <1>16, <1>17
     DEF Next

\* A step keeps the account of the raw audio.
LEMMA AccountStep == RetentionInv /\ [Next]_vars =>
    /\ PlaceKnown' /\ RecoveryReportsTruth' /\ ManifestMatchesRaw'
    /\ (~lostPower => recording # "torn")'
<1> SUFFICES ASSUME RetentionInv, [Next]_vars
             PROVE  /\ PlaceKnown' /\ RecoveryReportsTruth' /\ ManifestMatchesRaw'
                    /\ (~lostPower => recording # "torn")'
  OBVIOUS
<1> USE DEF RetentionInv, TypeOK, UndecidedBefore, PlaceKnown, RecoveryReportsTruth,
            ManifestMatchesRaw, SegmentsReadable, Retiring,
            input, lanes, audioFiles, playbackFiles, recordingFile, history,
            At, Goto, Write, Report
<1>1. CASE BeginEncode  BY <1>1 DEF BeginEncode
<1>2. CASE EncodeFails  BY <1>2 DEF EncodeFails
<1>3. CASE PublishPlayback  BY <1>3 DEF PublishPlayback
<1>4. CASE SyncPlayback  BY <1>4 DEF SyncPlayback
<1>5. CASE Decide
  <2>1. PICK readable, tools \in BOOLEAN :
              /\ Write(Outcome(readable, tools))
              /\ Goto(IF Outcome(readable, tools) = "retirement-pending"
                      THEN "syncPending" ELSE "syncResult")
    BY <1>5, DecideMeaning
  <2>2. QED  BY <1>5, <2>1, OutcomeMeaning DEF Decide
<1>6. CASE SyncRecording  BY <1>6 DEF SyncRecording
<1>7. CASE UnlinkSegment  BY <1>7 DEF UnlinkSegment
<1>8. CASE UnlinkIndex  BY <1>8 DEF UnlinkIndex
<1>9. CASE UnlinkFails  BY <1>9 DEF UnlinkFails
<1>10. CASE WriteComplete  BY <1>10 DEF WriteComplete
<1>11. CASE FinalizerRaises  BY <1>11 DEF FinalizerRaises
<1>12. CASE Crash  BY <1>12 DEF Crash
<1>13. CASE PowerLoss  BY <1>13 DEF PowerLoss
<1>14. CASE Restart  BY <1>14 DEF Restart
<1>15. CASE Recover  BY <1>15 DEF Recover, Resumable
<1>16. CASE RecoveryRaises  BY <1>16 DEF RecoveryRaises
<1>17. CASE UNCHANGED vars  BY <1>17 DEF vars
<1>18. QED
  BY <1>1, <1>2, <1>3, <1>4, <1>5, <1>6, <1>7, <1>8, <1>9, <1>10, <1>11, <1>12,
     <1>13, <1>14, <1>15, <1>16, <1>17
     DEF Next

-----------------------------------------------------------------------------
(* Theorems.                                                               *)

LEMMA InvHolds == Spec => []RetentionInv
<1>1. Init => RetentionInv
  <2> SUFFICES ASSUME Init PROVE RetentionInv
    OBVIOUS
  <2>1. index \in BOOLEAN /\ partial \in BOOLEAN /\ playbackKnown \in BOOLEAN
           /\ lostPower \in BOOLEAN
    BY DEF Init
  <2>2. TypeOK
    BY <2>1 DEF Init, TypeOK, CommitOutcomes, Contents, RecordingStates, Decisions, Points
  <2>3. RetirementJustified /\ UndecidedBefore /\ KnownIsSynced /\ PlaceKnown
    BY DEF Init, RetirementJustified, UndecidedBefore, KnownIsSynced, PlaceKnown,
           Promised, Retiring, At
  <2>4. RecoveryReportsTruth /\ ManifestMatchesRaw /\ recording # "torn"
    BY DEF Init, RecoveryReportsTruth, ManifestMatchesRaw, SegmentsReadable, At
  <2>5. QED  BY <2>2, <2>3, <2>4 DEF RetentionInv
<1>2. RetentionInv /\ [Next]_vars => RetentionInv'
  BY TypeStep, JustifiedStep, AccountStep DEF RetentionInv, PlaceKnown
<1>3. QED  BY <1>1, <1>2, PTL DEF Spec

\* Type correctness of RecordingRetention.
THEOREM RetentionTypeCorrect == Spec => []TypeOK
<1>1. RetentionInv => TypeOK  BY DEF RetentionInv
<1>2. QED  BY <1>1, InvHolds, PTL

\* Whatever fails, and whenever the process dies or power is lost, raw audio is
\* removed only when a good playback file is on the disk to stay.
THEOREM OnlyRecordingIsNeverDeleted == Spec => []NeverDeleteOnlyRecording
<1>1. RetentionInv => NeverDeleteOnlyRecording
  BY DEF RetentionInv, RetirementJustified, Durable, NeverDeleteOnlyRecording
<1>2. QED  BY <1>1, InvHolds, PTL

\* recording.json never promises a compact recording that is not there.
THEOREM PromisedRecordingExists == Spec => []ManifestPointsToPlayback
<1>1. RetentionInv => ManifestPointsToPlayback
  BY DEF RetentionInv, RetirementJustified, Promised, Durable, ManifestPointsToPlayback
<1>2. QED  BY <1>1, InvHolds, PTL

\* Without a power loss, recording.json is right about the raw audio.
THEOREM RawAudioIsAccountedFor == Spec => []ManifestMatchesRaw
<1>1. RetentionInv => ManifestMatchesRaw  BY DEF RetentionInv
<1>2. QED  BY <1>1, InvHolds, PTL

\* Raw audio is removed only where compaction is on and the commit lane has
\* read all of it.
THEOREM RetirementIsAllowed == Spec => []RetirementAllowed
<1>1. RetentionInv => RetirementAllowed
  BY DEF RetentionInv, RetirementJustified, RetirementAllowed
<1>2. QED  BY <1>1, InvHolds, PTL

\* What recovery reports of a session is so.
THEOREM RecoveryIsTruthful == Spec => []RecoveryReportsTruth
<1>1. RetentionInv => RecoveryReportsTruth  BY DEF RetentionInv
<1>2. QED  BY <1>1, InvHolds, PTL

\* recording.json is right about the playback file and about the raw audio, and
\* so is the recovery report.
THEOREM ManifestIsTruthful == Spec => []ManifestTellsTruth
<1>1. ManifestPointsToPlayback /\ ManifestMatchesRaw /\ RecoveryReportsTruth => ManifestTellsTruth
  BY DEF ManifestTellsTruth
<1>2. QED  BY <1>1, PromisedRecordingExists, RawAudioIsAccountedFor, RecoveryIsTruthful, PTL

-------------------------------------------------------------------------------
(* SessionCatalog, for any clients, names, sessions and sizes of a page.   *)

Ops == {"none", "name", "performer", "delete"}
Documents == [storage : BOOLEAN, creator : BOOLEAN,
              name : Values \cup {None}, performer : Values \cup {None}]
ClientStates == [pc : {"idle", "resolved", "locked", "trashing"}, op : Ops,
                 session : 0..MaxSessions, value : Values \cup {None}, read : Documents]

CatalogTypes ==
    /\ created \in Nat /\ created <= MaxSessions
    /\ manifests \subseteq 1..created
    /\ document \in [SessionIds -> Documents] /\ expected \in [SessionIds -> Documents]
    /\ active \in 0..created
    /\ start \in [pc : {"idle", "create", "storage", "read", "write", "running"}, read : Documents]
    /\ client \in [Clients -> ClientStates]

\* The capture that starts is listed from its session.json on, and stays so.
StartKnown ==
    /\ start.pc = "idle" <=> active = 0
    /\ start.pc = "create" =>
          /\ active \notin manifests
          /\ \A c \in Clients : client[c].pc # "idle" => client[c].session # active
    /\ start.pc \notin {"idle", "create"} => active \in manifests
    /\ \A c \in Clients : client[c].pc = "trashing" => client[c].session # active

\* What a thread is about to write contains what clients were told.
ReadsAreCurrent ==
    /\ \A c \in Clients : client[c].pc # "idle" => client[c].session \in 1..created
    /\ \A c, d \in Clients : client[c].pc = "locked" /\ client[d].pc = "locked" => c = d
    /\ start.pc = "write" /\ active \notin early => start.read = expected[active]
    /\ \A c \in Clients : client[c].pc \in {"resolved", "locked"}
          /\ client[c].session \in manifests \ early =>
              /\ ~ Starting(client[c].session)
              /\ client[c].pc = "locked" => client[c].read = expected[client[c].session]

\* Documents hold what clients were told, and new sessions hold nothing.
DocumentsAreKept ==
    /\ \A s \in manifests \ early : document[s] = expected[s]
    /\ \A s \in SessionIds : s > created \/ (s = active /\ start.pc \in {"create", "storage"})
          => s \in early \/ (document[s] = Blank /\ expected[s] = Blank)
    /\ early \subseteq manifests

CatalogInv == CatalogTypes /\ StartKnown /\ ReadsAreCurrent /\ DocumentsAreKept


\* The shape of documents and clients.
LEMMA CatalogInvTyped ==
  ASSUME CatalogInv
  PROVE  /\ CatalogTypes /\ StartKnown /\ ReadsAreCurrent /\ DocumentsAreKept
         /\ \A c \in Clients : client[c].session \in Nat
         /\ active # 0 => active \in SessionIds
         /\ manifests \subseteq SessionIds
<1>1. \A c \in Clients : client[c] \in ClientStates
  BY DEF CatalogInv, CatalogTypes
<1>2. \A c \in Clients : client[c].session \in Nat
  BY <1>1, CatalogAssumption DEF ClientStates
<1> QED
  BY <1>2, CatalogAssumption DEF CatalogInv, CatalogTypes, SessionIds

LEMMA BlankAndResting == Blank \in Documents /\ Resting \in ClientStates
<1>1. Blank \in Documents
  BY DEF Blank, Documents
<1> QED
  BY <1>1, CatalogAssumption DEF Resting, ClientStates, Ops

\* An annotation changes one part of a document.
LEMMA AnnotatedIsDocument ==
  ASSUME NEW doc \in Documents, NEW c \in Clients, client[c] \in ClientStates
  PROVE  Annotated(doc, client[c].op, client[c].value) \in Documents
  BY DEF Annotated, Documents, ClientStates

\* What the start adds to a document.
WithStorage(doc) == [doc EXCEPT !.storage = TRUE]

WithProvenance(doc, performer) ==
    [doc EXCEPT !.creator = TRUE, !.performer = IF performer = None THEN @ ELSE performer]

LEMMA ProvenanceIsDocument ==
  ASSUME NEW doc \in Documents, NEW performer \in Values \cup {None}
  PROVE  WithProvenance(doc, performer) \in Documents
  BY DEF Documents, WithProvenance

\* One client moves, or one document is written.
ClientBecomes(c, new) ==
    /\ client'[c] = new /\ new \in ClientStates
    /\ \A d \in Clients \ {c} : client'[d] = client[d]
    /\ client' \in [Clients -> ClientStates]

StoredAndTold(s, doc, told) ==
    /\ document'[s] = doc /\ expected'[s] = told
    /\ \A t \in SessionIds \ {s} : document'[t] = document[t] /\ expected'[t] = expected[t]
    /\ document' \in [SessionIds -> Documents] /\ expected' \in [SessionIds -> Documents]

\* The start of a capture, step by step.
InitializeDoes ==
    /\ start.pc = "storage" /\ active \in SessionIds
    /\ StoredAndTold(active, WithStorage(Blank),
                             WithStorage(expected[active]))
    /\ start'.pc \in {"read", "running"} /\ start'.read \in Documents
    /\ start' \in [pc : {"read", "running"}, read : Documents]
    /\ UNCHANGED <<created, active, manifests, client, early>>

LEMMA InitializeEffect ==
  ASSUME CatalogInv, InitializeStorage
  PROVE  InitializeDoes
<1>0. CatalogTypes /\ StartKnown /\ (active # 0 => active \in SessionIds)
  BY CatalogInvTyped
<1>1. start.pc = "storage" /\ active \in SessionIds
  BY <1>0 DEF InitializeStorage, StartKnown
<1>2. WithStorage(Blank) \in Documents
  BY BlankAndResting DEF Documents, WithStorage
<1>3. WithStorage(expected[active]) \in Documents
  BY <1>0, <1>1 DEF CatalogTypes, Documents, WithStorage
<1>4. /\ document' = [document EXCEPT ![active] = WithStorage(Blank)]
      /\ expected' = [expected EXCEPT ![active] = WithStorage(expected[active])]
  BY <1>0, <1>1 DEF InitializeStorage, CatalogTypes, WithStorage
<1>5. StoredAndTold(active, WithStorage(Blank),
                            WithStorage(expected[active]))
  BY <1>0, <1>1, <1>2, <1>3, <1>4 DEF StoredAndTold, CatalogTypes
<1> QED
  BY <1>0, <1>1, <1>5 DEF InitializeStorage, StartGoes, CatalogTypes, InitializeDoes

ReadProvenanceDoes ==
    /\ start.pc = "read" /\ active \in SessionIds
    /\ start'.pc = "write" /\ start'.read = document[active] /\ document[active] \in Documents
    /\ start' = [pc |-> "write", read |-> document[active]]
    /\ UNCHANGED <<created, active, manifests, document, client, expected, early>>

LEMMA ReadProvenanceEffect ==
  ASSUME CatalogInv, ReadProvenance
  PROVE  ReadProvenanceDoes
<1>0. CatalogTypes /\ StartKnown /\ (active # 0 => active \in SessionIds)
  BY CatalogInvTyped
<1> QED
  BY <1>0 DEF ReadProvenance, StartKnown, CatalogTypes, ReadProvenanceDoes

WriteProvenanceDoes ==
    /\ start.pc = "write" /\ active \in SessionIds
    /\ \E performer \in Values \cup {None} :
          StoredAndTold(active, WithProvenance(start.read, performer),
                                WithProvenance(expected[active], performer))
    /\ start'.pc = "running" /\ start'.read = start.read /\ start.read \in Documents
    /\ start' \in [pc : {"running"}, read : Documents]
    /\ UNCHANGED <<created, active, manifests, client, early>>

LEMMA WriteProvenanceEffect ==
  ASSUME CatalogInv, WriteProvenance
  PROVE  WriteProvenanceDoes
<1>0. CatalogTypes /\ StartKnown /\ (active # 0 => active \in SessionIds)
  BY CatalogInvTyped
<1>1. start.pc = "write" /\ active \in SessionIds
  BY <1>0 DEF WriteProvenance, StartKnown
<1>2. PICK performer \in Values \cup {None} :
        /\ document' = [document EXCEPT ![active] = WithProvenance(start.read, performer)]
        /\ expected' = [expected EXCEPT ![active] = WithProvenance(@, performer)]
  BY DEF WriteProvenance, WithProvenance
<1>3. start.read \in Documents /\ expected[active] \in Documents
  BY <1>0, <1>1 DEF CatalogTypes
<1>4. /\ WithProvenance(start.read, performer) \in Documents
      /\ WithProvenance(expected[active], performer) \in Documents
  BY <1>3, ProvenanceIsDocument
<1>5. StoredAndTold(active, WithProvenance(start.read, performer),
                            WithProvenance(expected[active], performer))
  BY <1>0, <1>1, <1>2, <1>4 DEF StoredAndTold, CatalogTypes
<1>6. /\ start'.pc = "running" /\ start'.read = start.read
      /\ start' \in [pc : {"running"}, read : Documents]
      /\ UNCHANGED <<created, active, manifests, client, early>>
  BY <1>0 DEF WriteProvenance, StartGoes, CatalogTypes
<1> QED
  BY <1>1, <1>3, <1>5, <1>6 DEF WriteProvenanceDoes

\* The requests, step by step.
AskDoes(c) ==
    /\ client[c].pc = "idle"
    /\ \E s \in manifests, new \in ClientStates :
         /\ ClientBecomes(c, new) /\ new.session = s
         /\ \/ new.pc = "resolved" /\ early' = IF Starting(s) THEN early \cup {s} ELSE early
            \/ new.pc = "trashing" /\ s # active /\ early' = early
    /\ UNCHANGED <<created, active, start, manifests, document, expected>>

LEMMA AskEffect ==
  ASSUME CatalogInv, NEW c \in Clients, Ask(c)
  PROVE  AskDoes(c)
<1>0. CatalogTypes /\ manifests \subseteq SessionIds
  BY CatalogInvTyped
<1>1. PICK s \in manifests :
         \/ \E op \in {"name", "performer"}, value \in Values \cup {None} :
               /\ client' = [client EXCEPT ![c] = [pc |-> "resolved", op |-> op, session |-> s,
                                                   value |-> value, read |-> Blank]]
               /\ early' = IF Starting(s) THEN early \cup {s} ELSE early
         \/ /\ s # active
            /\ client' = [client EXCEPT ![c] = [Resting EXCEPT !.pc = "trashing", !.op = "delete",
                                                               !.session = s]]
            /\ early' = early
  BY DEF Ask
<1>2. client[c].pc = "idle" /\ UNCHANGED <<created, active, start, manifests, document, expected>>
  BY DEF Ask, startVars
<1>3. s \in 0..MaxSessions
  BY <1>0, CatalogAssumption DEF SessionIds
<1>4. CASE \E op \in {"name", "performer"}, value \in Values \cup {None} :
               /\ client' = [client EXCEPT ![c] = [pc |-> "resolved", op |-> op, session |-> s,
                                                   value |-> value, read |-> Blank]]
               /\ early' = IF Starting(s) THEN early \cup {s} ELSE early
  <2>1. PICK op \in {"name", "performer"}, value \in Values \cup {None} :
               /\ client' = [client EXCEPT ![c] = [pc |-> "resolved", op |-> op, session |-> s,
                                                   value |-> value, read |-> Blank]]
               /\ early' = IF Starting(s) THEN early \cup {s} ELSE early
    BY <1>4
  <2> DEFINE new == [pc |-> "resolved", op |-> op, session |-> s, value |-> value, read |-> Blank]
  <2>2. new \in ClientStates /\ new.pc = "resolved" /\ new.session = s
    BY <1>3, BlankAndResting DEF ClientStates, Ops
  <2> HIDE DEF new
  <2>3. ClientBecomes(c, new)
    BY <1>0, <2>1, <2>2 DEF ClientBecomes, CatalogTypes, new
  <2> QED
    BY <1>2, <2>1, <2>2, <2>3 DEF AskDoes
<1>5. CASE /\ s # active
           /\ client' = [client EXCEPT ![c] = [Resting EXCEPT !.pc = "trashing", !.op = "delete",
                                                              !.session = s]]
           /\ early' = early
  <2> DEFINE new == [Resting EXCEPT !.pc = "trashing", !.op = "delete", !.session = s]
  <2>2. new \in ClientStates /\ new.pc = "trashing" /\ new.session = s
    BY <1>3, BlankAndResting DEF ClientStates, Ops, Resting
  <2> HIDE DEF new
  <2>3. ClientBecomes(c, new)
    BY <1>0, <1>5, <2>2 DEF ClientBecomes, CatalogTypes, new
  <2> QED
    BY <1>2, <1>5, <2>2, <2>3 DEF AskDoes
<1> QED
  BY <1>1, <1>4, <1>5 DEF AskDoes

ReadDocumentDoes(c) ==
    /\ client[c].pc = "resolved" /\ LockFree
    /\ \E new \in ClientStates :
         /\ ClientBecomes(c, new) /\ new.pc = "locked" /\ new.session = client[c].session
         /\ new.read = document[client[c].session]
    /\ UNCHANGED <<created, active, start, manifests, document, expected, early>>

LEMMA ReadDocumentEffect ==
  ASSUME CatalogInv, NEW c \in Clients, ReadDocument(c)
  PROVE  ReadDocumentDoes(c)
<1>0. CatalogTypes /\ ReadsAreCurrent
  BY CatalogInvTyped
<1> DEFINE new == [client[c] EXCEPT !.pc = "locked", !.read = document[client[c].session]]
<1>1. client[c].session \in SessionIds
  BY <1>0, CatalogAssumption DEF ReadsAreCurrent, ReadDocument, CatalogTypes, SessionIds
<1>2. document[client[c].session] \in Documents /\ client[c] \in ClientStates
  BY <1>0, <1>1 DEF CatalogTypes
<1>3. /\ new \in ClientStates /\ new.pc = "locked" /\ new.session = client[c].session
      /\ new.read = document[client[c].session]
  BY <1>2 DEF ClientStates
<1>4. client' = [client EXCEPT ![c] = new]
  BY <1>0 DEF ReadDocument, CatalogTypes
<1> HIDE DEF new
<1>5. ClientBecomes(c, new)
  BY <1>0, <1>3, <1>4 DEF ClientBecomes, CatalogTypes
<1> QED
  BY <1>3, <1>5 DEF ReadDocument, startVars, ReadDocumentDoes

WriteDocumentDoes(c) ==
    /\ client[c].pc = "locked" /\ ClientBecomes(c, Resting)
    /\ client[c].session \in SessionIds
    /\ \/ StoredAndTold(client[c].session,
             Annotated(client[c].read, client[c].op, client[c].value),
             Annotated(expected[client[c].session], client[c].op, client[c].value))
       \/ UNCHANGED <<document, expected>>
    /\ UNCHANGED <<created, active, start, manifests, early>>

LEMMA WriteDocumentEffect ==
  ASSUME CatalogInv, NEW c \in Clients, WriteDocument(c)
  PROVE  WriteDocumentDoes(c)
<1>0. CatalogTypes /\ ReadsAreCurrent
  BY CatalogInvTyped
<1> DEFINE s == client[c].session
           Changed(doc) == Annotated(doc, client[c].op, client[c].value)
<1>1. s \in SessionIds /\ client[c] \in ClientStates
  BY <1>0, CatalogAssumption DEF ReadsAreCurrent, WriteDocument, CatalogTypes, SessionIds
<1>2. client[c].read \in Documents /\ expected[s] \in Documents
  BY <1>0, <1>1 DEF CatalogTypes, ClientStates
<1>3. Changed(client[c].read) \in Documents /\ Changed(expected[s]) \in Documents
  BY <1>1, <1>2, AnnotatedIsDocument
<1>4. /\ \/ /\ document' = [document EXCEPT ![s] = Changed(client[c].read)]
            /\ expected' = [expected EXCEPT ![s] = Changed(expected[s])]
         \/ UNCHANGED <<document, expected>>
      /\ client' = [client EXCEPT ![c] = Resting] /\ client[c].pc = "locked"
      /\ UNCHANGED <<created, active, start, manifests, early>>
  BY <1>0, <1>1 DEF WriteDocument, CatalogTypes, startVars
<1>5. ClientBecomes(c, Resting)
  BY <1>0, <1>4, BlankAndResting DEF ClientBecomes, CatalogTypes
<1> HIDE DEF Changed, s
<1>6. StoredAndTold(s, Changed(client[c].read), Changed(expected[s]))
         \/ UNCHANGED <<document, expected>>
  BY <1>0, <1>1, <1>3, <1>4 DEF StoredAndTold, CatalogTypes
<1> QED
  BY <1>1, <1>4, <1>5, <1>6 DEF s, Changed, WriteDocumentDoes

TrashSessionDoes(c) ==
    /\ client[c].pc = "trashing" /\ ClientBecomes(c, Resting)
    /\ client[c].session \in SessionIds
    /\ StoredAndTold(client[c].session, Blank, Blank)
    /\ manifests' = manifests \ {client[c].session}
    /\ early' = early \ {client[c].session}
    /\ UNCHANGED <<created, active, start>>

LEMMA TrashSessionEffect ==
  ASSUME CatalogInv, NEW c \in Clients, TrashSession(c)
  PROVE  TrashSessionDoes(c)
<1>0. CatalogTypes /\ ReadsAreCurrent
  BY CatalogInvTyped
<1>1. client[c].session \in SessionIds
  BY <1>0, CatalogAssumption DEF ReadsAreCurrent, TrashSession, CatalogTypes, SessionIds
<1>2. /\ document' = [document EXCEPT ![client[c].session] = Blank]
      /\ expected' = [expected EXCEPT ![client[c].session] = Blank]
      /\ client' = [client EXCEPT ![c] = Resting]
  BY DEF TrashSession
<1>3. ClientBecomes(c, Resting)
  BY <1>0, <1>2, BlankAndResting DEF ClientBecomes, CatalogTypes
<1>4. StoredAndTold(client[c].session, Blank, Blank)
  BY <1>0, <1>1, <1>2, BlankAndResting DEF StoredAndTold, CatalogTypes
<1> QED
  BY <1>1, <1>3, <1>4 DEF TrashSession, startVars, TrashSessionDoes

\* Every step keeps the types.
LEMMA CatalogTypesStep == CatalogInv /\ [CatalogNext]_catalogVars => CatalogTypes'
<1> SUFFICES ASSUME CatalogInv, [CatalogNext]_catalogVars PROVE CatalogTypes'
  OBVIOUS
<1>0. /\ CatalogTypes /\ StartKnown /\ ReadsAreCurrent /\ DocumentsAreKept
      /\ manifests \subseteq SessionIds /\ (active # 0 => active \in SessionIds)
      /\ \A c \in Clients : client[c].session \in Nat
      /\ created \in Nat /\ active \in Nat /\ manifests \subseteq 1..created /\ active <= created
  BY CatalogInvTyped DEF CatalogTypes
<1>1. CASE UNCHANGED catalogVars
  BY <1>0, <1>1 DEF catalogVars, startVars, CatalogTypes
<1>2. ASSUME Claim PROVE CatalogTypes'
  BY <1>0, <1>2, CatalogAssumption DEF CatalogTypes, Claim, StartGoes
<1>3. ASSUME CreateSession PROVE CatalogTypes'
  <2>1. active \in 1..created
    BY <1>0, <1>3 DEF StartKnown, CatalogTypes, CreateSession
  <2> QED
    BY <1>0, <1>3, <2>1 DEF CatalogTypes, CreateSession, StartGoes
<1>4. ASSUME InitializeStorage PROVE CatalogTypes'
  <2>1. InitializeDoes
    BY <1>4, InitializeEffect
  <2> QED
    BY <1>0, <2>1, SMTT(20) DEF InitializeDoes, CatalogTypes, StoredAndTold
<1>5. ASSUME ReadProvenance PROVE CatalogTypes'
  <2>1. ReadProvenanceDoes
    BY <1>5, ReadProvenanceEffect
  <2> QED
    BY <1>0, <2>1, SMTT(20) DEF ReadProvenanceDoes, CatalogTypes
<1>6. ASSUME WriteProvenance PROVE CatalogTypes'
  <2>1. WriteProvenanceDoes
    BY <1>6, WriteProvenanceEffect
  <2> QED
    BY <1>0, <2>1, SMTT(20) DEF WriteProvenanceDoes, CatalogTypes, StoredAndTold
<1>7. ASSUME EndCapture PROVE CatalogTypes'
  BY <1>0, <1>7, BlankAndResting DEF CatalogTypes, EndCapture
<1>8. ASSUME ListPage PROVE CatalogTypes'
  BY <1>0, <1>8, SMTT(20) DEF ListPage, CatalogTypes, startVars
<1>9. ASSUME NEW c \in Clients, Ask(c) PROVE CatalogTypes'
  <2>1. AskDoes(c)
    BY <1>9, AskEffect
  <2> QED
    BY <1>0, <2>1, SMTT(20) DEF AskDoes, CatalogTypes, ClientBecomes
<1>10. ASSUME NEW c \in Clients, ReadDocument(c) PROVE CatalogTypes'
  <2>1. ReadDocumentDoes(c)
    BY <1>10, ReadDocumentEffect
  <2> QED
    BY <1>0, <2>1, SMTT(20) DEF ReadDocumentDoes, CatalogTypes, ClientBecomes
<1>11. ASSUME NEW c \in Clients, WriteDocument(c) PROVE CatalogTypes'
  <2>1. WriteDocumentDoes(c)
    BY <1>11, WriteDocumentEffect
  <2> QED
    BY <1>0, <2>1, SMTT(20) DEF WriteDocumentDoes, CatalogTypes, ClientBecomes, StoredAndTold
<1>12. ASSUME NEW c \in Clients, TrashSession(c) PROVE CatalogTypes'
  <2>1. TrashSessionDoes(c)
    BY <1>12, TrashSessionEffect
  <2>2. /\ manifests' \subseteq manifests /\ UNCHANGED <<created, active, start>>
        /\ document' \in [SessionIds -> Documents] /\ expected' \in [SessionIds -> Documents]
        /\ client' \in [Clients -> ClientStates]
    BY <2>1 DEF TrashSessionDoes, ClientBecomes, StoredAndTold
  <2> QED
    BY <1>0, <2>2 DEF CatalogTypes
<1> QED
  BY <1>1, <1>2, <1>3, <1>4, <1>5, <1>6, <1>7, <1>8, <1>9, <1>10, <1>11, <1>12 DEF CatalogNext

\* Every step keeps what the start relies on.
LEMMA StartKnownStep == CatalogInv /\ [CatalogNext]_catalogVars => StartKnown'
<1> SUFFICES ASSUME CatalogInv, [CatalogNext]_catalogVars PROVE StartKnown'
  OBVIOUS
<1>0. /\ CatalogTypes /\ StartKnown /\ ReadsAreCurrent /\ DocumentsAreKept
      /\ manifests \subseteq SessionIds /\ (active # 0 => active \in SessionIds)
      /\ \A c \in Clients : client[c].session \in Nat
      /\ created \in Nat /\ active \in Nat /\ manifests \subseteq 1..created /\ active <= created
  BY CatalogInvTyped DEF CatalogTypes
<1>1. CASE UNCHANGED catalogVars
  BY <1>0, <1>1 DEF catalogVars, startVars, StartKnown
<1>2. ASSUME Claim PROVE StartKnown'
  <2>1. \A c \in Clients : client[c].pc # "idle" => client[c].session \in 1..created
    BY <1>0 DEF ReadsAreCurrent
  <2> QED
    BY <1>0, <1>2, <2>1, SMTT(20) DEF StartKnown, CatalogTypes, Claim, StartGoes
<1>3. ASSUME CreateSession PROVE StartKnown'
  BY <1>0, <1>3, SMTT(20) DEF CreateSession, StartKnown, StartGoes, startVars
<1>4. ASSUME InitializeStorage PROVE StartKnown'
  <2>1. InitializeDoes
    BY <1>4, InitializeEffect
  <2> QED
    BY <1>0, <2>1, SMTT(20) DEF InitializeDoes, StartKnown, StoredAndTold
<1>5. ASSUME ReadProvenance PROVE StartKnown'
  <2>1. ReadProvenanceDoes
    BY <1>5, ReadProvenanceEffect
  <2> QED
    BY <1>0, <2>1, SMTT(20) DEF ReadProvenanceDoes, StartKnown
<1>6. ASSUME WriteProvenance PROVE StartKnown'
  <2>1. WriteProvenanceDoes
    BY <1>6, WriteProvenanceEffect
  <2> QED
    BY <1>0, <2>1, SMTT(20) DEF WriteProvenanceDoes, StartKnown, StoredAndTold
<1>7. ASSUME EndCapture PROVE StartKnown'
  <2>1. \A c \in Clients : client[c].pc = "trashing" => client[c].session # 0
    BY <1>0 DEF ReadsAreCurrent, CatalogTypes
  <2> QED
    BY <1>0, <1>7, <2>1 DEF StartKnown, EndCapture
<1>8. ASSUME ListPage PROVE StartKnown'
  BY <1>0, <1>8, SMTT(20) DEF ListPage, StartKnown, startVars
<1>9. ASSUME NEW c \in Clients, Ask(c) PROVE StartKnown'
  <2>1. AskDoes(c)
    BY <1>9, AskEffect
  <2> QED
    BY <1>0, <2>1, SMTT(20) DEF AskDoes, StartKnown, ClientBecomes
<1>10. ASSUME NEW c \in Clients, ReadDocument(c) PROVE StartKnown'
  <2>1. ReadDocumentDoes(c)
    BY <1>10, ReadDocumentEffect
  <2> QED
    BY <1>0, <2>1, SMTT(20) DEF ReadDocumentDoes, StartKnown, ClientBecomes
<1>11. ASSUME NEW c \in Clients, WriteDocument(c) PROVE StartKnown'
  <2>1. WriteDocumentDoes(c)
    BY <1>11, WriteDocumentEffect
  <2> QED
    BY <1>0, <2>1, SMTT(20)
       DEF WriteDocumentDoes, StartKnown, ClientBecomes, StoredAndTold, Resting
<1>12. ASSUME NEW c \in Clients, TrashSession(c) PROVE StartKnown'
  <2>1. TrashSessionDoes(c)
    BY <1>12, TrashSessionEffect
  <2> QED
    BY <1>0, <2>1, SMTT(20)
       DEF TrashSessionDoes, StartKnown, ClientBecomes, StoredAndTold, Resting
<1> QED
  BY <1>1, <1>2, <1>3, <1>4, <1>5, <1>6, <1>7, <1>8, <1>9, <1>10, <1>11, <1>12 DEF CatalogNext

\* Every step keeps what is about to be written current.
LEMMA ReadsAreCurrentStep == CatalogInv /\ [CatalogNext]_catalogVars => ReadsAreCurrent'
<1> SUFFICES ASSUME CatalogInv, [CatalogNext]_catalogVars PROVE ReadsAreCurrent'
  OBVIOUS
<1>0. /\ CatalogTypes /\ StartKnown /\ ReadsAreCurrent /\ DocumentsAreKept
      /\ manifests \subseteq SessionIds /\ (active # 0 => active \in SessionIds)
      /\ \A c \in Clients : client[c].session \in Nat
      /\ created \in Nat /\ active \in Nat /\ manifests \subseteq 1..created /\ active <= created
  BY CatalogInvTyped DEF CatalogTypes
<1>1. CASE UNCHANGED catalogVars
  BY <1>0, <1>1
     DEF catalogVars, startVars, ReadsAreCurrent, StartKnown, DocumentsAreKept, Starting,
         LockFree
<1>2. ASSUME Claim PROVE ReadsAreCurrent'
  BY <1>0, <1>2, SMTT(20)
     DEF Claim, ReadsAreCurrent, StartKnown, DocumentsAreKept, Starting, LockFree, StartGoes,
         startVars
<1>3. ASSUME CreateSession PROVE ReadsAreCurrent'
  BY <1>0, <1>3, SMTT(20)
     DEF CreateSession, ReadsAreCurrent, StartKnown, DocumentsAreKept, Starting, LockFree,
         StartGoes, startVars
<1>4. ASSUME InitializeStorage PROVE ReadsAreCurrent'
  <2>1. InitializeDoes
    BY <1>4, InitializeEffect
  <2> QED
    BY <1>0, <2>1, SMTT(20)
       DEF InitializeDoes, ReadsAreCurrent, StartKnown, DocumentsAreKept, Starting, LockFree,
           StoredAndTold
<1>5. ASSUME ReadProvenance PROVE ReadsAreCurrent'
  <2>1. ReadProvenanceDoes
    BY <1>5, ReadProvenanceEffect
  <2> QED
    BY <1>0, <2>1, SMTT(20)
       DEF ReadProvenanceDoes, ReadsAreCurrent, StartKnown, DocumentsAreKept, Starting,
           LockFree
<1>6. ASSUME WriteProvenance PROVE ReadsAreCurrent'
  <2>1. WriteProvenanceDoes
    BY <1>6, WriteProvenanceEffect
  <2> QED
    BY <1>0, <2>1, SMTT(20)
       DEF WriteProvenanceDoes, ReadsAreCurrent, StartKnown, DocumentsAreKept, Starting,
           LockFree, StoredAndTold
<1>7. ASSUME EndCapture PROVE ReadsAreCurrent'
  BY <1>0, <1>7, SMTT(20)
     DEF EndCapture, ReadsAreCurrent, StartKnown, DocumentsAreKept, Starting, LockFree,
         startVars
<1>8. ASSUME ListPage PROVE ReadsAreCurrent'
  BY <1>0, <1>8, SMTT(20)
     DEF ListPage, ReadsAreCurrent, StartKnown, DocumentsAreKept, Starting, LockFree,
         startVars
<1>9. ASSUME NEW c \in Clients, Ask(c) PROVE ReadsAreCurrent'
  <2>1. AskDoes(c)
    BY <1>9, AskEffect
  <2> QED
    BY <1>0, <2>1, SMTT(20)
       DEF AskDoes, ReadsAreCurrent, StartKnown, DocumentsAreKept, Starting, LockFree,
           ClientBecomes
<1>10. ASSUME NEW c \in Clients, ReadDocument(c) PROVE ReadsAreCurrent'
  <2>1. ReadDocumentDoes(c)
    BY <1>10, ReadDocumentEffect
  <2> QED
    BY <1>0, <2>1, SMTT(20)
       DEF ReadDocumentDoes, ReadsAreCurrent, StartKnown, DocumentsAreKept, Starting,
           LockFree, ClientBecomes
<1>11. ASSUME NEW c \in Clients, WriteDocument(c) PROVE ReadsAreCurrent'
  <2>1. WriteDocumentDoes(c)
    BY <1>11, WriteDocumentEffect
  <2> QED
    BY <1>0, <2>1, SMTT(20)
       DEF WriteDocumentDoes, ReadsAreCurrent, StartKnown, DocumentsAreKept, Starting,
           LockFree, ClientBecomes, StoredAndTold, Resting
<1>12. ASSUME NEW c \in Clients, TrashSession(c) PROVE ReadsAreCurrent'
  <2>1. TrashSessionDoes(c)
    BY <1>12, TrashSessionEffect
  <2> QED
    BY <1>0, <2>1, SMTT(20)
       DEF TrashSessionDoes, ReadsAreCurrent, StartKnown, DocumentsAreKept, Starting,
           LockFree, ClientBecomes, StoredAndTold, Resting
<1> QED
  BY <1>1, <1>2, <1>3, <1>4, <1>5, <1>6, <1>7, <1>8, <1>9, <1>10, <1>11, <1>12 DEF CatalogNext

\* Every step keeps what clients were told.
LEMMA DocumentsAreKeptStep == CatalogInv /\ [CatalogNext]_catalogVars => DocumentsAreKept'
<1> SUFFICES ASSUME CatalogInv, [CatalogNext]_catalogVars PROVE DocumentsAreKept'
  OBVIOUS
<1>0. /\ CatalogTypes /\ StartKnown /\ ReadsAreCurrent /\ DocumentsAreKept
      /\ manifests \subseteq SessionIds /\ (active # 0 => active \in SessionIds)
      /\ \A c \in Clients : client[c].session \in Nat
      /\ created \in Nat /\ active \in Nat /\ manifests \subseteq 1..created /\ active <= created
  BY CatalogInvTyped DEF CatalogTypes
<1>1. CASE UNCHANGED catalogVars
  BY <1>0, <1>1
     DEF catalogVars, startVars, DocumentsAreKept, ReadsAreCurrent, StartKnown, SessionIds
<1>2. ASSUME Claim PROVE DocumentsAreKept'
  BY <1>0, <1>2, SMTT(20)
     DEF Claim, DocumentsAreKept, ReadsAreCurrent, StartKnown, SessionIds, StartGoes,
         startVars
<1>3. ASSUME CreateSession PROVE DocumentsAreKept'
  BY <1>0, <1>3, SMTT(20)
     DEF CreateSession, DocumentsAreKept, ReadsAreCurrent, StartKnown, SessionIds, StartGoes,
         startVars
<1>4. ASSUME InitializeStorage PROVE DocumentsAreKept'
  <2>1. InitializeDoes
    BY <1>4, InitializeEffect
  <2> QED
    BY <1>0, <2>1, SMTT(20)
       DEF InitializeDoes, DocumentsAreKept, ReadsAreCurrent, StartKnown, SessionIds,
           StoredAndTold
<1>5. ASSUME ReadProvenance PROVE DocumentsAreKept'
  <2>1. ReadProvenanceDoes
    BY <1>5, ReadProvenanceEffect
  <2> QED
    BY <1>0, <2>1, SMTT(20)
       DEF ReadProvenanceDoes, DocumentsAreKept, ReadsAreCurrent, StartKnown, SessionIds
<1>6. ASSUME WriteProvenance PROVE DocumentsAreKept'
  <2>1. WriteProvenanceDoes
    BY <1>6, WriteProvenanceEffect
  <2> QED
    BY <1>0, <2>1, SMTT(20)
       DEF WriteProvenanceDoes, DocumentsAreKept, ReadsAreCurrent, StartKnown, SessionIds,
           StoredAndTold
<1>7. ASSUME EndCapture PROVE DocumentsAreKept'
  BY <1>0, <1>7, SMTT(20)
     DEF EndCapture, DocumentsAreKept, ReadsAreCurrent, StartKnown, SessionIds, startVars
<1>8. ASSUME ListPage PROVE DocumentsAreKept'
  <2>1. UNCHANGED <<created, active, start, manifests, document, expected, early>>
    BY <1>8 DEF ListPage, startVars
  <2> QED
    BY <1>0, <2>1 DEF DocumentsAreKept, Starting
<1>9. ASSUME NEW c \in Clients, Ask(c) PROVE DocumentsAreKept'
  <2>1. AskDoes(c)
    BY <1>9, AskEffect
  <2>2. /\ early \subseteq early' /\ early' \subseteq manifests
        /\ UNCHANGED <<created, active, start, manifests, document, expected>>
    BY <1>0, <2>1 DEF AskDoes, DocumentsAreKept
  <2> QED
    BY <1>0, <2>2 DEF DocumentsAreKept
<1>10. ASSUME NEW c \in Clients, ReadDocument(c) PROVE DocumentsAreKept'
  <2>1. ReadDocumentDoes(c)
    BY <1>10, ReadDocumentEffect
  <2>2. UNCHANGED <<created, active, start, manifests, document, expected, early>>
    BY <2>1 DEF ReadDocumentDoes
  <2> QED
    BY <1>0, <2>2 DEF DocumentsAreKept, Starting
<1>11. ASSUME NEW c \in Clients, WriteDocument(c) PROVE DocumentsAreKept'
  <2>1. WriteDocumentDoes(c)
    BY <1>11, WriteDocumentEffect
  <2> DEFINE s == client[c].session
  <2>2. s \in manifests \ early => client[c].read = expected[s]
    BY <1>0, <2>1 DEF WriteDocumentDoes, ReadsAreCurrent
  <2>3. s \in 1..created /\ (s = active /\ start.pc \in {"create", "storage"} => s \in early)
    BY <1>0, <2>1 DEF WriteDocumentDoes, ReadsAreCurrent, StartKnown, Starting
  <2> HIDE DEF s
  <2>4. /\ \/ StoredAndTold(s, Annotated(client[c].read, client[c].op, client[c].value),
                              Annotated(expected[s], client[c].op, client[c].value))
           \/ UNCHANGED <<document, expected>>
        /\ UNCHANGED <<created, active, start, manifests, early>>
    BY <2>1 DEF WriteDocumentDoes, s
  <2> QED
    BY <1>0, <2>2, <2>3, <2>4 DEF DocumentsAreKept, StoredAndTold
<1>12. ASSUME NEW c \in Clients, TrashSession(c) PROVE DocumentsAreKept'
  <2>1. TrashSessionDoes(c)
    BY <1>12, TrashSessionEffect
  <2> DEFINE s == client[c].session
  <2>2. s # active /\ s \in 1..created
    BY <1>0, <2>1 DEF TrashSessionDoes, StartKnown, ReadsAreCurrent
  <2> HIDE DEF s
  <2>3. /\ StoredAndTold(s, Blank, Blank) /\ manifests' = manifests \ {s} /\ early' = early \ {s}
        /\ UNCHANGED <<created, active, start>>
    BY <2>1 DEF TrashSessionDoes, s
  <2> QED
    BY <1>0, <2>2, <2>3 DEF DocumentsAreKept, StoredAndTold
<1> QED
  BY <1>1, <1>2, <1>3, <1>4, <1>5, <1>6, <1>7, <1>8, <1>9, <1>10, <1>11, <1>12 DEF CatalogNext

\* Nothing has been told at first.
LEMMA CatalogInvInit == CatalogInit => CatalogInv
<1> SUFFICES ASSUME CatalogInit PROVE CatalogInv
  OBVIOUS
<1>1. Blank \in Documents /\ Resting \in ClientStates
  BY BlankAndResting
<1>2. [Blank EXCEPT !.storage = TRUE, !.creator = TRUE] \in Documents
  BY <1>1 DEF Documents
<1>3. CatalogTypes
  <2>1. document \in [SessionIds -> Documents]
    BY <1>1, <1>2 DEF CatalogInit
  <2> QED
    BY <1>1, <2>1, CatalogAssumption DEF CatalogInit, CatalogTypes, SessionIds
<1>4. StartKnown /\ ReadsAreCurrent
  BY DEF CatalogInit, StartKnown, ReadsAreCurrent, Resting
<1>5. DocumentsAreKept
  <2>1. \A s \in SessionIds : s > Recorded => document[s] = Blank
    BY CatalogAssumption DEF CatalogInit, SessionIds
  <2> QED
    BY <2>1, CatalogAssumption DEF CatalogInit, DocumentsAreKept, SessionIds
<1> QED
  BY <1>3, <1>4, <1>5 DEF CatalogInv

LEMMA CatalogInvStep == CatalogInv /\ [CatalogNext]_catalogVars => CatalogInv'
  BY CatalogTypesStep, StartKnownStep, ReadsAreCurrentStep, DocumentsAreKeptStep DEF CatalogInv

\* A listing knows its cursor, and what comes after it.
ListingKnown ==
    /\ listing \in [pc : {"idle", "paging", "ended", "refused"}, cursor : Nat,
                    items : Seq(SessionIds), first : SUBSET SessionIds]
    /\ LatestFirst(listing.items)
    /\ listing.first \subseteq 1..created
    /\ start.pc = "create" => active \notin listing.first
    /\ listing.pc = "idle" => listing.items = << >> /\ listing.cursor = 0 /\ listing.first = {}
    /\ listing.pc = "paging" =>
          /\ listing.items # << >> /\ listing.cursor = listing.items[Len(listing.items)]
          /\ \A s \in listing.first \cap manifests :
                s \in ToSet(listing.items) \/ s < listing.cursor
    /\ listing.pc = "ended" => listing.first \cap manifests \subseteq ToSet(listing.items)

LEMMA SessionsAreNumbers == /\ SessionIds \subseteq Int /\ SessionIds \subseteq Nat
                            /\ \A s \in SessionIds : s \in Int /\ s \in Nat /\ s > 0
  BY CatalogAssumption DEF SessionIds

\* A row for every session, the latest first.
LEMMA RowsAreSessions ==
  ASSUME CatalogTypes, NEW found \in SetToSeqs(manifests)
  PROVE  /\ found \in Seq(manifests) /\ found \in Seq(SessionIds)
         /\ \A s \in manifests : \E i \in 1..Len(found) : found[i] = s
<1> DEFINE n == Cardinality(manifests)
<1>1. IsFiniteSet(manifests) /\ manifests \subseteq SessionIds
  <2>1. manifests \subseteq 1..created /\ created \in 0..MaxSessions
    BY DEF CatalogTypes
  <2>2. manifests \subseteq SessionIds
    BY <2>1, CatalogAssumption DEF SessionIds
  <2>3. IsFiniteSet(1..created)
    BY <2>1, CatalogAssumption, FS_Interval
  <2>4. IsFiniteSet(manifests)
    BY <2>1, <2>3, FS_Subset
  <2> QED
    BY <2>2, <2>4
<1>2. n \in Nat
  BY <1>1, FS_CardinalityType
<1>3. found \in [1..n -> manifests] /\ \A i, j \in 1..n : i # j => found[i] # found[j]
  BY DEF SetToSeqs
<1>4. Cardinality(1..n) = n
  BY <1>2, FS_Interval
<1> HIDE DEF n
<1>5. found \in Injection(1..n, manifests)
  BY <1>3 DEF Injection, IsInjective
<1>6. found \in Surjection(1..n, manifests)
  BY <1>1, <1>4, <1>5, FS_Injection DEF n
<1>7. found \in Seq(manifests) /\ Len(found) = n
  BY <1>2, <1>3
<1> QED
  BY <1>1, <1>6, <1>7 DEF Surjection

\* What follows the cursor are the sessions that started before it.
LEMMA RestIsEarlier ==
  ASSUME NEW found \in Seq(SessionIds), LatestFirst(found), NEW cursor \in Nat,
         cursor # 0 => \E i \in 1..Len(found) : found[i] = cursor
  PROVE  LET rest == Rest(found, cursor)
         IN  /\ rest \in Seq(SessionIds) /\ LatestFirst(rest)
             /\ \A i \in 1..Len(rest) : cursor # 0 => rest[i] < cursor
             /\ \A i \in 1..Len(found) : cursor = 0 \/ found[i] < cursor =>
                   \E j \in 1..Len(rest) : rest[j] = found[i]
<1>1. CASE cursor = 0
  BY <1>1 DEF Rest
<1>2. CASE cursor # 0
  <2> DEFINE k == CHOOSE i \in DOMAIN found : found[i] = cursor
  <2>1. k \in 1..Len(found) /\ found[k] = cursor
    BY <1>2
  <2> HIDE DEF k
  <2> DEFINE rest == SubSeq(found, k + 1, Len(found))
  <2>2. rest = Rest(found, cursor)
    BY <1>2 DEF Rest, k
  <2>3. /\ rest \in Seq(SessionIds) /\ Len(rest) = Len(found) - k
        /\ \A i \in 1..Len(rest) : rest[i] = found[k + i]
    BY <2>1
  <2> HIDE DEF rest
  <2>4. \A i, j \in 1..Len(found) : i < j => found[j] < found[i]
    BY DEF LatestFirst, SessionIds
  <2>5. LatestFirst(rest)
    <3> SUFFICES ASSUME NEW i \in 1..Len(rest), NEW j \in 1..Len(rest), i < j
                 PROVE  rest[i] > rest[j]
      BY <2>3 DEF LatestFirst
    <3>1. k + i \in 1..Len(found) /\ k + j \in 1..Len(found) /\ k + i < k + j
      BY <2>1, <2>3
    <3> QED
      BY <2>3, <2>4, <3>1
  <2>6. \A i \in 1..Len(rest) : rest[i] < cursor
    <3> TAKE i \in 1..Len(rest)
    <3>1. k + i \in 1..Len(found) /\ k < k + i
      BY <2>1, <2>3
    <3> QED
      BY <2>1, <2>3, <2>4, <3>1
  <2>7. ASSUME NEW i \in 1..Len(found), found[i] < cursor
        PROVE  \E j \in 1..Len(rest) : rest[j] = found[i]
    <3>1. i > k
      <4>1. found[i] \in SessionIds
        OBVIOUS
      <4>2. found[i] \in Int
        BY <4>1, SessionsAreNumbers
      <4>3. cursor \in Int /\ i \in Int /\ k \in Int
        BY <2>1
      <4> QED
        BY <2>1, <2>4, <2>7, <4>2, <4>3
    <3>2. i - k \in 1..Len(rest) /\ rest[i - k] = found[i]
      BY <2>1, <2>3, <3>1
    <3> QED
      BY <3>2
  <2> QED
    BY <1>2, <2>2, <2>3, <2>5, <2>6, <2>7
<1> QED
  BY <1>1, <1>2

\* A page is the beginning of what follows the cursor; what it leaves over
\* started before its last session.
LEMMA PageIsFirst ==
  ASSUME NEW rest \in Seq(SessionIds), LatestFirst(rest)
  PROVE  LET sheet == SubSeq(rest, 1, IF Len(rest) < PageSize THEN Len(rest) ELSE PageSize)
         IN  /\ sheet \in Seq(SessionIds) /\ LatestFirst(sheet) /\ Len(sheet) <= Len(rest)
             /\ \A i \in 1..Len(sheet) : sheet[i] = rest[i]
             /\ Len(sheet) < Len(rest) => sheet # << >>
             /\ \A i \in 1..Len(rest) :
                   i <= Len(sheet) \/ (sheet # << >> /\ rest[i] < sheet[Len(sheet)])
<1> DEFINE m == IF Len(rest) < PageSize THEN Len(rest) ELSE PageSize
           sheet == SubSeq(rest, 1, m)
<1>1. m \in 0..Len(rest) /\ (m = Len(rest) \/ m >= 1)
  BY CatalogAssumption
<1> HIDE DEF m
<1>2. sheet \in Seq(SessionIds) /\ Len(sheet) = m /\ \A i \in 1..m : sheet[i] = rest[i]
  BY <1>1
<1>3. \A i, j \in 1..Len(rest) : i < j => rest[j] < rest[i]
  BY DEF LatestFirst, SessionIds
<1> HIDE DEF sheet
<1>4. LatestFirst(sheet)
  BY <1>1, <1>2, <1>3 DEF LatestFirst, SessionIds
<1>5. \A i \in 1..Len(rest) : i <= m \/ (sheet # << >> /\ rest[i] < sheet[m])
  <2> TAKE i \in 1..Len(rest)
  <2>1. CASE i > m
    <3>1. m \in 1..Len(rest)
      BY <1>1, <2>1
    <3> QED
      BY <1>2, <1>3, <2>1, <3>1
  <2>2. CASE ~ (i > m)
    BY <1>1, <2>2
  <2> QED
    BY <2>1, <2>2
<1> QED
  BY <1>1, <1>2, <1>4, <1>5 DEF sheet, m

\* A page that comes after everything listed keeps the order.
LEMMA AppendedLatestFirst ==
  ASSUME NEW items \in Seq(SessionIds), NEW sheet \in Seq(SessionIds),
         LatestFirst(items), LatestFirst(sheet),
         items # << >> => \A i \in 1..Len(sheet) : sheet[i] < items[Len(items)]
  PROVE  /\ items \o sheet \in Seq(SessionIds) /\ LatestFirst(items \o sheet)
         /\ ToSet(items \o sheet) = ToSet(items) \cup ToSet(sheet)
<1> DEFINE all == items \o sheet
<1>1. /\ all \in Seq(SessionIds) /\ Len(all) = Len(items) + Len(sheet)
      /\ \A i \in 1..Len(all) : all[i] = IF i <= Len(items) THEN items[i] ELSE sheet[i - Len(items)]
  OBVIOUS
<1>0. /\ \A i \in 1..Len(items) : items[i] \in SessionIds /\ items[i] \in Int
      /\ \A i \in 1..Len(sheet) : sheet[i] \in SessionIds /\ sheet[i] \in Int
  <2>1. /\ \A i \in 1..Len(items) : items[i] \in SessionIds
        /\ \A i \in 1..Len(sheet) : sheet[i] \in SessionIds
    OBVIOUS
  <2> QED
    BY <2>1, SessionsAreNumbers
<1>2. \A i, j \in 1..Len(items) : i < j => items[j] < items[i]
  BY <1>0 DEF LatestFirst
<1>3. \A i, j \in 1..Len(sheet) : i < j => sheet[j] < sheet[i]
  BY <1>0 DEF LatestFirst
<1> HIDE DEF all
<1>4. LatestFirst(all)
  <2> SUFFICES ASSUME NEW i \in 1..Len(all), NEW j \in 1..Len(all), i < j
               PROVE  all[i] > all[j]
    BY <1>1 DEF LatestFirst
  <2>1. CASE j <= Len(items)
    <3>1. i \in 1..Len(items) /\ j \in 1..Len(items) /\ all[i] = items[i] /\ all[j] = items[j]
      BY <1>1, <2>1
    <3> QED
      BY <1>0, <1>2, <3>1
  <2>2. CASE i > Len(items)
    <3> DEFINE ii == i - Len(items)
               jj == j - Len(items)
    <3>1. /\ ii \in 1..Len(sheet) /\ jj \in 1..Len(sheet) /\ ii < jj
          /\ all[i] = sheet[ii] /\ all[j] = sheet[jj]
      BY <1>1, <2>2
    <3> HIDE DEF ii, jj
    <3> QED
      BY <1>0, <1>3, <3>1
  <2>3. CASE i <= Len(items) /\ j > Len(items)
    <3>1. all[i] = items[i] /\ all[j] = sheet[j - Len(items)] /\ j - Len(items) \in 1..Len(sheet)
      BY <1>1, <2>3
    <3>2. sheet[j - Len(items)] < items[Len(items)]
      BY <2>3, <3>1
    <3>3. items[Len(items)] <= items[i]
      <4>0. i \in 1..Len(items) /\ Len(items) \in 1..Len(items)
        BY <2>3
      <4>1. CASE i = Len(items)
        BY <1>0, <4>0, <4>1
      <4>2. CASE i < Len(items)
        BY <1>0, <1>2, <4>0, <4>2
      <4> QED
        BY <2>3, <4>1, <4>2
    <3>4. /\ sheet[j - Len(items)] \in Int /\ items[Len(items)] \in Int /\ items[i] \in Int
      <4>1. i \in 1..Len(items) /\ Len(items) \in 1..Len(items)
        BY <2>3
      <4> QED
        BY <1>0, <3>1, <4>1
    <3> QED
      BY <3>1, <3>2, <3>3, <3>4
  <2> QED
    BY <1>1, <2>1, <2>2, <2>3
<1>5. ToSet(all) = ToSet(items) \cup ToSet(sheet)
  <2>0. /\ ToSet(all) = {all[i] : i \in 1..Len(all)} /\ ToSet(items) = {items[i] : i \in 1..Len(items)}
        /\ ToSet(sheet) = {sheet[i] : i \in 1..Len(sheet)}
    <3>1. DOMAIN all = 1..Len(all) /\ DOMAIN items = 1..Len(items) /\ DOMAIN sheet = 1..Len(sheet)
      BY <1>1
    <3> QED
      BY <3>1 DEF ToSet
  <2>1. ASSUME NEW i \in 1..Len(all) PROVE all[i] \in ToSet(items) \cup ToSet(sheet)
    <3>1. CASE i <= Len(items)
      <4>1. i \in 1..Len(items) /\ all[i] = items[i]
        BY <1>1, <3>1
      <4> QED
        BY <2>0, <4>1
    <3>2. CASE ~ (i <= Len(items))
      <4>1. i - Len(items) \in 1..Len(sheet) /\ all[i] = sheet[i - Len(items)]
        BY <1>1, <3>2
      <4> QED
        BY <2>0, <4>1
    <3> QED
      BY <3>1, <3>2
  <2>2. ASSUME NEW i \in 1..Len(items) PROVE items[i] \in ToSet(all)
    <3>1. i \in 1..Len(all) /\ all[i] = items[i]
      BY <1>1
    <3> QED
      BY <2>0, <3>1
  <2>3. ASSUME NEW i \in 1..Len(sheet) PROVE sheet[i] \in ToSet(all)
    <3>1. i + Len(items) \in 1..Len(all) /\ all[i + Len(items)] = sheet[i]
      BY <1>1
    <3> QED
      BY <2>0, <3>1
  <2> QED
    BY <2>0, <2>1, <2>2, <2>3
<1> QED
  BY <1>1, <1>4, <1>5 DEF all

\* The page that follows, whatever has become of the sessions in between.
LEMMA ListPageStep == ASSUME CatalogInv, ListingKnown, ListPage PROVE ListingKnown'
<1>0. CatalogTypes /\ manifests \subseteq SessionIds
  BY CatalogInvTyped
<1>1. PICK found \in SetToSeqs(manifests) :
        LET rest == Rest(found, listing.cursor)
            sheet == SubSeq(rest, 1, IF Len(rest) < PageSize THEN Len(rest) ELSE PageSize)
        IN  /\ LatestFirst(found)
            /\ IF listing.cursor # 0 /\ listing.cursor \notin manifests
               THEN listing' = [listing EXCEPT !.pc = "refused"]
               ELSE listing' =
                      [pc     |-> IF Len(sheet) < Len(rest) THEN "paging" ELSE "ended",
                       cursor |-> IF sheet = << >> THEN 0 ELSE Last(sheet),
                       items  |-> listing.items \o sheet,
                       first  |-> IF listing.pc = "idle" THEN manifests ELSE listing.first]
  BY DEF ListPage
<1>2. listing.pc \in {"idle", "paging"} /\ UNCHANGED <<created, active, start, manifests>>
  BY DEF ListPage, startVars
<1>3. /\ found \in Seq(SessionIds) /\ LatestFirst(found)
      /\ \A s \in manifests : \E i \in 1..Len(found) : found[i] = s
  BY <1>0, <1>1, RowsAreSessions
<1> DEFINE rest == Rest(found, listing.cursor)
           sheet == SubSeq(rest, 1, IF Len(rest) < PageSize THEN Len(rest) ELSE PageSize)
<1>4. CASE listing.cursor # 0 /\ listing.cursor \notin manifests
  <2>1. listing' = [listing EXCEPT !.pc = "refused"]
    BY <1>1, <1>4
  <2>2. /\ listing'.pc = "refused" /\ listing'.items = listing.items
        /\ listing'.first = listing.first
        /\ listing' \in [pc : {"idle", "paging", "ended", "refused"}, cursor : Nat,
                         items : Seq(SessionIds), first : SUBSET SessionIds]
    BY <2>1 DEF ListingKnown
  <2> QED
    BY <1>2, <2>2 DEF ListingKnown
<1>5. CASE ~ (listing.cursor # 0 /\ listing.cursor \notin manifests)
  <2>1. listing.cursor \in Nat /\ (listing.cursor # 0 => \E i \in 1..Len(found) : found[i] = listing.cursor)
    BY <1>0, <1>3, <1>5 DEF ListingKnown
  <2>2. /\ rest \in Seq(SessionIds) /\ LatestFirst(rest)
        /\ \A i \in 1..Len(rest) : listing.cursor # 0 => rest[i] < listing.cursor
        /\ \A i \in 1..Len(found) : listing.cursor = 0 \/ found[i] < listing.cursor =>
              \E j \in 1..Len(rest) : rest[j] = found[i]
    BY <1>3, <2>1, RestIsEarlier
  <2> HIDE DEF rest
  <2>3. /\ sheet \in Seq(SessionIds) /\ LatestFirst(sheet) /\ Len(sheet) <= Len(rest)
        /\ \A i \in 1..Len(sheet) : sheet[i] = rest[i]
        /\ Len(sheet) < Len(rest) => sheet # << >>
        /\ \A i \in 1..Len(rest) :
              i <= Len(sheet) \/ (sheet # << >> /\ rest[i] < sheet[Len(sheet)])
    BY <2>2, PageIsFirst
  <2> DEFINE told == [pc     |-> IF Len(sheet) < Len(rest) THEN "paging" ELSE "ended",
                      cursor |-> IF sheet = << >> THEN 0 ELSE Last(sheet),
                      items  |-> listing.items \o sheet,
                      first  |-> IF listing.pc = "idle" THEN manifests ELSE listing.first]
  <2>11. listing' = told
    BY <1>1, <1>5 DEF rest
  <2>4. /\ listing'.pc = IF Len(sheet) < Len(rest) THEN "paging" ELSE "ended"
        /\ listing'.cursor = IF sheet = << >> THEN 0 ELSE Last(sheet)
        /\ listing'.items = listing.items \o sheet
        /\ listing'.first = IF listing.pc = "idle" THEN manifests ELSE listing.first
    BY <2>11
  <2> HIDE DEF sheet, told
  <2>5. /\ listing.items # << >> => listing.pc = "paging" /\ listing.cursor # 0
        /\ listing.items # << >> => listing.cursor = listing.items[Len(listing.items)]
        /\ listing.pc = "idle" => listing.items = << >> /\ listing.cursor = 0
    <3>1. listing.items # << >> => listing.items[Len(listing.items)] \in SessionIds
      BY DEF ListingKnown
    <3> QED
      BY <1>2, <3>1, SessionsAreNumbers DEF ListingKnown
  <2>6. \A i \in 1..Len(sheet) : listing.items # << >> => sheet[i] < listing.items[Len(listing.items)]
    BY <2>2, <2>3, <2>5
  <2>7. /\ listing'.items \in Seq(SessionIds) /\ LatestFirst(listing'.items)
        /\ ToSet(listing'.items) = ToSet(listing.items) \cup ToSet(sheet)
    BY <2>3, <2>4, <2>6, AppendedLatestFirst DEF ListingKnown
  <2>8. \A s \in listing'.first \cap manifests :
           s \in ToSet(listing'.items) \/ (sheet # << >> /\ s < sheet[Len(sheet)] /\ Len(sheet) < Len(rest))
    <3> TAKE s \in listing'.first \cap manifests
    <3>1. s \in ToSet(listing.items) \/ listing.cursor = 0 \/ s < listing.cursor
      BY <1>2, <2>4, <2>5 DEF ListingKnown
    <3>2. CASE s \in ToSet(listing.items)
      BY <2>7, <3>2
    <3>3. CASE listing.cursor = 0 \/ s < listing.cursor
      <4>1. PICK j \in 1..Len(rest) : rest[j] = s
        BY <1>3, <2>2, <3>3
      <4>2. CASE j <= Len(sheet)
        <5>1. j \in 1..Len(sheet) /\ sheet[j] = s
          BY <2>3, <4>1, <4>2
        <5>2. s \in ToSet(sheet)
          BY <2>3, <5>1 DEF ToSet
        <5> QED
          BY <2>7, <5>2
      <4>3. CASE ~ (j <= Len(sheet))
        BY <2>2, <2>3, <4>1, <4>3
      <4> QED
        BY <4>2, <4>3
    <3> QED
      BY <3>1, <3>2, <3>3
  <2>9. sheet # << >> => Last(sheet) = sheet[Len(sheet)]
                        /\ listing'.items[Len(listing'.items)] = sheet[Len(sheet)]
                        /\ listing'.items # << >>
    <3> SUFFICES ASSUME sheet # << >>
                 PROVE  Last(sheet) = sheet[Len(sheet)]
                        /\ listing'.items[Len(listing'.items)] = sheet[Len(sheet)]
                        /\ listing'.items # << >>
      OBVIOUS
    <3>1. Len(sheet) >= 1 /\ listing.items \in Seq(SessionIds)
      BY <2>3 DEF ListingKnown
    <3> QED
      BY <2>3, <2>4, <3>1 DEF Last
  <2>10. listing'.first \subseteq 1..created /\ (start.pc = "create" => active \notin listing'.first)
    BY <1>0, <2>4, CatalogInvTyped DEF ListingKnown, CatalogTypes, StartKnown
  <2>12. sheet # << >> => sheet[Len(sheet)] \in SessionIds
    BY <2>3
  <2>13. listing'.cursor \in Nat /\ listing'.first \subseteq SessionIds
    <3>1. listing.first \in SUBSET SessionIds
      BY DEF ListingKnown
    <3>2. listing'.cursor = 0 \/ listing'.cursor \in SessionIds
      BY <2>4, <2>9, <2>12
    <3>3. listing'.cursor \in Nat
      BY <3>2, CatalogAssumption DEF SessionIds
    <3>4. listing'.first \subseteq SessionIds
      BY <1>0, <2>4, <3>1
    <3> QED
      BY <3>3, <3>4
  <2>14. listing' \in [pc : {"idle", "paging", "ended", "refused"}, cursor : Nat,
                       items : Seq(SessionIds), first : SUBSET SessionIds]
    BY <2>4, <2>7, <2>11, <2>13 DEF told
  <2>15. listing'.pc = "paging" =>
           /\ listing'.items # << >> /\ listing'.cursor = listing'.items[Len(listing'.items)]
           /\ \A s \in listing'.first \cap manifests :
                 s \in ToSet(listing'.items) \/ s < listing'.cursor
    BY <2>3, <2>4, <2>8, <2>9
  <2>16. listing'.pc = "ended" => listing'.first \cap manifests \subseteq ToSet(listing'.items)
    BY <2>3, <2>4, <2>8
  <2>17. listing'.pc # "idle"
    BY <2>4
  <2> QED
    BY <1>2, <2>7, <2>10, <2>14, <2>15, <2>16, <2>17 DEF ListingKnown
<1> QED
  BY <1>4, <1>5

LEMMA ListingKnownStep == CatalogInv /\ ListingKnown /\ [CatalogNext]_catalogVars => ListingKnown'
<1> SUFFICES ASSUME CatalogInv, ListingKnown, [CatalogNext]_catalogVars PROVE ListingKnown'
  OBVIOUS
<1>0. CatalogTypes /\ StartKnown
  BY CatalogInvTyped
<1>1. CASE ListPage
  BY <1>1, ListPageStep
<1>2. CASE Claim
  <2>1. /\ created' = created + 1 /\ active' = created + 1 /\ created \in Nat
        /\ UNCHANGED <<listing, manifests>>
    BY <1>0, <1>2 DEF Claim, CatalogTypes
  <2> QED
    BY <2>1 DEF ListingKnown
<1>3. CASE CreateSession
  <2>1. /\ manifests' = manifests \cup {active} /\ active \notin listing.first
        /\ start'.pc # "create" /\ UNCHANGED <<listing, created>>
    BY <1>0, <1>3 DEF CreateSession, StartGoes, ListingKnown, CatalogTypes
  <2> QED
    BY <2>1 DEF ListingKnown
<1>4. ASSUME manifests' \subseteq manifests, UNCHANGED <<listing, created>>,
             start'.pc = "create" => start.pc = "create" /\ active' = active
      PROVE  ListingKnown'
  BY <1>4 DEF ListingKnown
<1>5. ASSUME NEW c \in Clients, Ask(c) \/ ReadDocument(c) \/ WriteDocument(c) \/ TrashSession(c)
      PROVE  ListingKnown'
  BY <1>4, <1>5 DEF Ask, ReadDocument, WriteDocument, TrashSession, startVars
<1>6. CASE InitializeStorage \/ ReadProvenance \/ WriteProvenance \/ EndCapture
  <2>1. start'.pc # "create"
    <3>1. \A x \in {"read", "running"} : StartGoes(x) => start'.pc = x
      BY <1>0 DEF StartGoes, CatalogTypes
    <3>2. StartGoes("read") \/ StartGoes("running") => start'.pc # "create"
      BY <3>1
    <3>3. InitializeStorage \/ WriteProvenance => StartGoes("read") \/ StartGoes("running")
      BY DEF InitializeStorage, WriteProvenance
    <3>4. ReadProvenance => start' = [pc |-> "write", read |-> document[active]]
      BY DEF ReadProvenance
    <3>5. EndCapture => start' = [pc |-> "idle", read |-> Blank]
      BY DEF EndCapture
    <3> QED
      BY <1>6, <3>2, <3>3, <3>4, <3>5
  <2>2. manifests' \subseteq manifests /\ UNCHANGED <<listing, created>>
    BY <1>6 DEF InitializeStorage, ReadProvenance, WriteProvenance, EndCapture
  <2> QED
    BY <1>4, <2>1, <2>2
<1>7. CASE UNCHANGED catalogVars
  BY <1>4, <1>7 DEF catalogVars, startVars
<1> QED
  BY <1>1, <1>2, <1>3, <1>5, <1>6, <1>7 DEF CatalogNext

LEMMA CatalogHolds == CatalogSpec => [](CatalogInv /\ ListingKnown)
<1>1. CatalogInit => ListingKnown
  BY CatalogAssumption DEF CatalogInit, ListingKnown, LatestFirst, ToSet
<1> QED
  BY <1>1, CatalogInvInit, CatalogInvStep, ListingKnownStep, PTL DEF CatalogSpec

\* For any number of clients, sessions and requests, whatever annotations, starts
\* and deletions overlap: what clients were told of a session that nobody
\* annotated before its start had ended is in its application.json.
THEOREM ToldNamesSurvive == CatalogSpec => []NamesSurvive
<1>1. CatalogInv => NamesSurvive
  BY DEF CatalogInv, DocumentsAreKept, NamesSurvive
<1> QED
  BY <1>1, CatalogHolds, PTL

\* For any size of a page and any number of sessions: a listing that was paged to
\* its end has every session that was there when it began and still is, each
\* once, the latest first.
THEOREM PagedListingsAreWhole == CatalogSpec => []ListingsAreWhole
<1>1. ListingKnown => ListingsAreWhole
  BY DEF ListingKnown, ListingsAreWhole
<1> QED
  BY <1>1, CatalogHolds, PTL

-------------------------------------------------------------------------------
(* DebugRetention, for any sessions, sizes, ages and numbers of windows.   *)

DebugFiles == [session : Sessions, name : Nat, time : Nat]

DebugTypes ==
    /\ debugFiles \subseteq DebugFiles /\ IsFiniteSet(debugFiles)
    /\ now \in Nat /\ written \in 0..MaxWindows
    /\ prune \in [pc : {"free", "scan", "delete", "done"}, pins : SUBSET Sessions,
                  candidates : SUBSET DebugFiles, scanned : SUBSET DebugFiles,
                  spared : SUBSET DebugFiles, cutoff : Nat]

\* No two files have one path, and the captured session has no others than the
\* windows written so far and the trace.
FilesKnown ==
    /\ \A f \in debugFiles \cup prune.scanned :
          /\ f.time <= now
          /\ f.session = Active => f.name \in 1..written \/ f.name = Trace
    /\ \A f, g \in debugFiles : SamePath(f, g) => f = g
    /\ \A f, g \in prune.scanned : SamePath(f, g) => f = g

\* What the sweep has not removed yet are its candidates, and what it has removed
\* is older than they are.
SweepKnown ==
    /\ prune.candidates \subseteq prune.scanned /\ IsFiniteSet(prune.scanned)
    /\ prune.scanned \cap debugFiles \subseteq prune.candidates
    /\ Own(Trace) \in prune.scanned => Own(Trace) \in prune.candidates
    /\ \A f \in prune.candidates : f.session # Active => f \in debugFiles
    /\ \A g \in prune.scanned \ prune.candidates, f \in prune.candidates : Older(g, f)
    /\ \A f \in prune.scanned : f.time >= prune.cutoff /\ f.session \notin prune.pins
    /\ \A f \in prune.spared : f.session \in prune.pins /\ (f.session # Active => f \in debugFiles)
    /\ prune.pc = "done" => Cardinality(prune.candidates) <= ByteCap

DebugInv == DebugTypes /\ FilesKnown /\ SweepKnown

LEMMA OwnIsFile == ASSUME now \in Nat, NEW name \in Nat
                   PROVE  Own(name) \in DebugFiles
  BY DebugAssumption DEF Own, DebugFiles

LEMMA DebugNumbers == /\ MaxWindows \in Nat /\ Trace \in Nat /\ Trace > MaxWindows
                      /\ ByteCap \in Nat /\ ByteCap >= 1 /\ MaxAge \in Nat
                      /\ Sessions \subseteq Nat /\ Active \in Sessions
  BY DebugAssumption DEF Trace

LEMMA DebugInvInit == DebugInit => DebugInv
<1> SUFFICES ASSUME DebugInit PROVE DebugInv
  OBVIOUS
<1>1. PICK times \in [Sessions \ {Active} -> [1..2 -> 0..1]] :
        debugFiles = {[session |-> s, name |-> n, time |-> times[s][n]] : s \in Sessions \ {Active}, n \in 1..2}
  BY DEF DebugInit
<1>2. now = MaxAge /\ written = 0 /\ prune = NoPrune
  BY DEF DebugInit
<1> DEFINE File(p) == [session |-> p[1], name |-> p[2], time |-> times[p[1]][p[2]]]
           paths == (Sessions \ {Active}) \X (1..2)
           file_of == [p \in paths |-> File(p)]
<1>3. IsFiniteSet(paths)
  <2>1. IsFiniteSet(Sessions \ {Active}) /\ IsFiniteSet(1..2)
    <3>1. IsFiniteSet(Sessions \ {Active})
      BY DebugAssumption, FS_RemoveElement
    <3>2. IsFiniteSet(1..2)
      <4>1. 1..2 = {1} \cup {2}
        OBVIOUS
      <4>2. IsFiniteSet({1} \cup {2})
        BY FS_Singleton, FS_Union
      <4> QED
        BY <4>1, <4>2, Zenon
    <3> QED
      BY <3>1, <3>2
  <2> QED
    BY <2>1, FS_Product
<1>4. \A s \in Sessions \ {Active}, n \in 1..2 : times[s][n] \in 0..1
  OBVIOUS
<1>5. IsFiniteSet(debugFiles)
  <2>1. file_of \in [paths -> debugFiles]
    BY <1>1
  <2>2. \A f \in debugFiles : \E p \in paths : file_of[p] = f
    <3> TAKE f \in debugFiles
    <3>1. PICK s \in Sessions \ {Active}, n \in 1..2 : f = [session |-> s, name |-> n, time |-> times[s][n]]
      BY <1>1
    <3>2. <<s, n>> \in paths /\ file_of[<<s, n>>] = f
      BY <3>1
    <3> QED
      BY <3>2
  <2> HIDE DEF file_of, paths
  <2>3. file_of \in Surjection(paths, debugFiles)
    BY <2>1, <2>2 DEF Surjection
  <2> QED
    BY <1>3, <2>3, FS_Surjection
<1>6. \A f \in debugFiles : /\ f \in DebugFiles /\ f.session # Active /\ f.time \in 0..1
                            /\ f = [session |-> f.session, name |-> f.name, time |-> times[f.session][f.name]]
  BY <1>1, <1>4 DEF DebugFiles
<1>7. \A f, g \in debugFiles : SamePath(f, g) => f = g
  BY <1>6 DEF SamePath
<1>8. /\ prune.pc = "free" /\ prune.scanned = {} /\ prune.candidates = {} /\ prune.spared = {}
      /\ prune \in [pc : {"free", "scan", "delete", "done"}, pins : SUBSET Sessions,
                    candidates : SUBSET DebugFiles, scanned : SUBSET DebugFiles,
                    spared : SUBSET DebugFiles, cutoff : Nat]
  BY <1>2 DEF NoPrune
<1>9. MaxAge >= 1
  BY DebugAssumption
<1>10. DebugTypes
  BY <1>2, <1>5, <1>6, <1>8, DebugNumbers DEF DebugTypes
<1>11. FilesKnown
  BY <1>2, <1>6, <1>7, <1>8, <1>9, DebugNumbers DEF FilesKnown
<1>12. SweepKnown
  BY <1>8, FS_EmptySet DEF SweepKnown
<1> QED
  BY <1>10, <1>11, <1>12 DEF DebugInv

\* A file that a lane adds has a path that is free, and is the trace, or a window
\* that no sweep has seen.
LEMMA LaneAddsFile ==
  ASSUME DebugInv, NEW name,
         \/ name = written + 1 /\ written < MaxWindows /\ written' = written + 1
         \/ name = Trace /\ written' = written,
         debugFiles' = (debugFiles \ Named(name)) \cup {Own(name)},
         UNCHANGED <<now, prune>>
  PROVE  DebugInv'
<1>1. name \in Nat /\ written \in Nat /\ written' \in 0..MaxWindows /\ written <= written' /\ now \in Nat
  BY DebugNumbers DEF DebugInv, DebugTypes
<1>2. Own(name) \in DebugFiles
  BY <1>1, OwnIsFile
<1>3. /\ Own(name).session = Active /\ Own(name).name = name /\ Own(name).time = now
  BY DEF Own
<1>4. name \in 1..written' \/ name = Trace
  BY <1>1
<1>5. DebugTypes'
  <2>1. IsFiniteSet(debugFiles \ Named(name))
    BY FS_Subset DEF DebugInv, DebugTypes
  <2>2. IsFiniteSet({Own(name)})
    BY FS_Singleton
  <2>3. IsFiniteSet(debugFiles')
    BY <2>1, <2>2, FS_Union
  <2> QED
    BY <1>1, <1>2, <2>3 DEF DebugInv, DebugTypes
<1>6. FilesKnown'
  <2>1. \A f \in debugFiles' \cup prune'.scanned :
          /\ f.time <= now'
          /\ f.session = Active => f.name \in 1..written' \/ f.name = Trace
    BY <1>1, <1>3, <1>4 DEF DebugInv, FilesKnown
  <2>2. ASSUME NEW f \in debugFiles', NEW g \in debugFiles', SamePath(f, g) PROVE f = g
    <3>1. \A h \in debugFiles \ Named(name) : h.session # Active \/ h.name # name
      BY DEF Named
    <3> QED
      BY <1>3, <2>2, <3>1 DEF DebugInv, FilesKnown, SamePath
  <2> QED
    BY <2>1, <2>2 DEF DebugInv, FilesKnown
<1>7. SweepKnown'
  <2>1. Own(name) \in prune.scanned => Own(name) \in prune.candidates
    <3>1. CASE name = Trace
      BY <3>1 DEF DebugInv, SweepKnown
    <3>2. CASE name # Trace
      <4>1. name = written + 1 /\ name \notin 1..written
        BY <1>1, <3>2
      <4> QED
        BY <1>3, <3>2, <4>1 DEF DebugInv, FilesKnown
    <3> QED
      BY <3>1, <3>2
  <2>2. prune'.scanned \cap debugFiles' \subseteq prune'.candidates
    BY <2>1 DEF DebugInv, SweepKnown
  <2>3. \A f \in debugFiles : f.session # Active => f \in debugFiles'
    BY DEF Named
  <2>4. Own(Trace)' = Own(Trace)
    BY DEF Own
  <2> QED
    BY <2>2, <2>3, <2>4 DEF DebugInv, SweepKnown
<1> QED
  BY <1>5, <1>6, <1>7 DEF DebugInv

\* Files of the captured session that a lane removes are not in the way.
LEMMA LaneRemovesFiles ==
  ASSUME DebugInv, debugFiles' \subseteq debugFiles,
         \A f \in debugFiles \ debugFiles' : f.session = Active,
         UNCHANGED <<now, prune, written>>
  PROVE  DebugInv'
<1>1. DebugTypes'
  BY FS_Subset DEF DebugInv, DebugTypes
<1>2. FilesKnown'
  BY DEF DebugInv, FilesKnown
<1>3. SweepKnown'
  BY DEF DebugInv, SweepKnown, Own
<1> QED
  BY <1>1, <1>2, <1>3 DEF DebugInv

LEMMA TickKeepsDebug == ASSUME DebugInv, Tick PROVE DebugInv'
<1>1. now \in Nat /\ now' = now + 1 /\ UNCHANGED <<debugFiles, written, prune>>
  BY DEF Tick, DebugInv, DebugTypes
<1>2. DebugTypes'
  BY <1>1 DEF DebugInv, DebugTypes
<1>3. FilesKnown'
  <2>1. \A f \in debugFiles \cup prune.scanned : f.time \in Nat /\ f.time <= now
    BY DEF DebugInv, DebugTypes, FilesKnown, DebugFiles
  <2>2. \A f \in debugFiles \cup prune.scanned : f.time <= now'
    BY <1>1, <2>1
  <2> QED
    BY <1>1, <2>2 DEF DebugInv, FilesKnown
<1>4. SweepKnown'
  <2>1. \A f \in prune.scanned : f.time \in Nat /\ f.time <= now
    BY DEF DebugInv, DebugTypes, FilesKnown, DebugFiles
  <2>2. Own(Trace)'.time = now'
    BY DEF Own
  <2>3. Own(Trace)' \notin prune.scanned
    BY <1>1, <2>1, <2>2
  <2> QED
    BY <1>1, <2>3 DEF DebugInv, SweepKnown
<1> QED
  BY <1>2, <1>3, <1>4 DEF DebugInv

LEMMA BeginPruneKeepsDebug ==
  ASSUME DebugInv, NEW l \in DebugLanes, BeginPrune(l) \/ EndPrune(l), pins \subseteq Sessions
  PROVE  DebugInv'
<1>1. /\ prune'.pc # "done" /\ prune'.scanned = {} /\ prune'.candidates = {} /\ prune'.spared = {}
      /\ prune' \in [pc : {"free", "scan", "delete", "done"}, pins : SUBSET Sessions,
                     candidates : SUBSET DebugFiles, scanned : SUBSET DebugFiles,
                     spared : SUBSET DebugFiles, cutoff : Nat]
  <2>1. now \in Nat /\ MaxAge \in Nat
    BY DebugNumbers DEF DebugInv, DebugTypes
  <2>2. CASE BeginPrune(l)
    <3> DEFINE cut == IF now > MaxAge THEN now - MaxAge ELSE 0
    <3>1. cut \in Nat
      BY <2>1
    <3>2. prune' = [NoPrune EXCEPT !.pc = "scan", !.pins = pins, !.cutoff = cut]
      BY <2>2 DEF BeginPrune
    <3> HIDE DEF cut
    <3> QED
      BY <3>1, <3>2 DEF NoPrune
  <2>3. CASE EndPrune(l)
    BY <2>3 DEF EndPrune, NoPrune
  <2> QED
    BY <2>2, <2>3
<1>2. UNCHANGED <<debugFiles, now, written>>
  BY DEF BeginPrune, EndPrune
<1>3. DebugTypes'
  BY <1>1, <1>2 DEF DebugInv, DebugTypes
<1>4. FilesKnown'
  BY <1>1, <1>2 DEF DebugInv, FilesKnown
<1>5. SweepKnown'
  BY <1>1, FS_EmptySet DEF SweepKnown
<1> QED
  BY <1>3, <1>4, <1>5 DEF DebugInv

LEMMA ScanKeepsDebug == ASSUME DebugInv, ScanFiles PROVE DebugInv'
<1> DEFINE loose   == {f \in debugFiles : f.session \notin prune.pins}
           expired == {f \in loose : f.time < prune.cutoff}
<1>1. /\ prune' = [prune EXCEPT !.pc = "delete", !.candidates = loose \ expired,
                                !.scanned = loose \ expired, !.spared = debugFiles \ loose]
      /\ debugFiles' = debugFiles \ expired /\ UNCHANGED <<now, written>>
  BY DEF ScanFiles
<1>2. /\ loose \subseteq debugFiles /\ expired \subseteq loose
      /\ \A f \in loose : f.session \notin prune.pins
      /\ \A f \in debugFiles \ loose : f.session \in prune.pins
      /\ \A f \in loose \ expired : ~ (f.time < prune.cutoff)
  OBVIOUS
<1> HIDE DEF loose, expired
<1>3. /\ prune'.pc = "delete" /\ prune'.candidates = loose \ expired
      /\ prune'.scanned = loose \ expired /\ prune'.spared = debugFiles \ loose
      /\ prune'.pins = prune.pins /\ prune'.cutoff = prune.cutoff
  BY <1>1 DEF DebugInv, DebugTypes
<1>4. /\ IsFiniteSet(debugFiles') /\ IsFiniteSet(prune'.scanned)
  BY <1>1, <1>2, <1>3, FS_Subset DEF DebugInv, DebugTypes
<1>5. DebugTypes'
  BY <1>1, <1>2, <1>4 DEF DebugInv, DebugTypes
<1>6. FilesKnown'
  BY <1>1, <1>2, <1>3 DEF DebugInv, FilesKnown
<1>7. \A f \in loose \ expired : f.time >= prune.cutoff
  <2>1. \A f \in loose : f.time \in Nat /\ prune.cutoff \in Nat
    BY <1>2 DEF DebugInv, DebugTypes, DebugFiles
  <2> QED
    BY <1>2, <2>1
<1>8. SweepKnown'
  BY <1>1, <1>2, <1>3, <1>4, <1>7 DEF SweepKnown
<1> QED
  BY <1>5, <1>6, <1>8 DEF DebugInv

\* The trace, if it was written just now, is the newest of all.
LEMMA TraceIsNewest ==
  ASSUME DebugInv, NEW g \in prune.scanned
  PROVE  ~ Older(Own(Trace), g)
<1>1. /\ g.time \in Nat /\ g.session \in Nat /\ g.session <= Active /\ g.name \in Nat
      /\ now \in Nat /\ g.time <= now /\ written \in 0..MaxWindows
      /\ g.session = Active => g.name \in 1..written \/ g.name = Trace
  BY DebugAssumption DEF DebugInv, DebugTypes, FilesKnown, DebugFiles
<1>2. g.session = Active => g.name <= Trace
  BY <1>1, DebugNumbers
<1>3. Own(Trace).session = Active /\ Own(Trace).name = Trace /\ Own(Trace).time = now
  BY DEF Own
<1>4. Active \in Nat /\ Trace \in Nat
  BY DebugNumbers
<1> QED
  BY <1>1, <1>2, <1>3, <1>4 DEF Older, ByPath

LEMMA RemoveKeepsDebug == ASSUME DebugInv, RemoveOldest PROVE DebugInv'
<1>0. UNCHANGED <<now, written>> /\ prune.candidates \subseteq prune.scanned
  BY DEF RemoveOldest, DebugInv, SweepKnown
<1>1. CASE Cardinality(prune.candidates) > ByteCap
  <2>1. PICK f \in prune.candidates :
          /\ \A g \in prune.candidates \ {f} : Older(f, g)
          /\ debugFiles' = {g \in debugFiles : ~ SamePath(f, g)}
          /\ prune' = [prune EXCEPT !.candidates = @ \ {f}]
    BY <1>1 DEF RemoveOldest
  <2>2. prune.pc = "delete"
    BY DEF RemoveOldest
  <2>3. /\ prune'.pc = "delete" /\ prune'.candidates = prune.candidates \ {f}
        /\ prune'.scanned = prune.scanned /\ prune'.spared = prune.spared
        /\ prune'.pins = prune.pins /\ prune'.cutoff = prune.cutoff
        /\ prune' \in [pc : {"free", "scan", "delete", "done"}, pins : SUBSET Sessions,
                       candidates : SUBSET DebugFiles, scanned : SUBSET DebugFiles,
                       spared : SUBSET DebugFiles, cutoff : Nat]
    BY <2>1, <2>2 DEF DebugInv, DebugTypes
  <2>4. debugFiles' \subseteq debugFiles /\ IsFiniteSet(debugFiles')
    BY <2>1, FS_Subset DEF DebugInv, DebugTypes
  <2>5. f \notin debugFiles' /\ \A g \in debugFiles : ~ SamePath(f, g) => g \in debugFiles'
    BY <2>1 DEF SamePath
  <2>6. PICK other \in prune.candidates : other # f
    <3>1. SUFFICES ASSUME \A g \in prune.candidates : g = f PROVE FALSE
      OBVIOUS
    <3>2. prune.candidates = {f}
      BY <3>1
    <3>3. Cardinality(prune.candidates) = 1
      BY <3>2, FS_Singleton
    <3> QED
      BY <1>1, <3>3, DebugNumbers
  <2>7. f # Own(Trace)
    BY <1>0, <2>1, <2>6, TraceIsNewest
  <2>8. DebugTypes'
    BY <1>0, <2>3, <2>4 DEF DebugInv, DebugTypes
  <2>9. FilesKnown'
    BY <1>0, <2>3, <2>4 DEF DebugInv, FilesKnown
  <2>10. \A g \in prune'.candidates : g.session # Active => g \in debugFiles'
    BY <1>0, <2>3, <2>5 DEF DebugInv, SweepKnown, FilesKnown
  <2>11. \A g \in prune'.spared : g.session \in prune'.pins /\ (g.session # Active => g \in debugFiles')
    <3> TAKE g \in prune'.spared
    <3>1. g.session \in prune.pins /\ f.session \notin prune.pins
      BY <1>0, <2>3 DEF DebugInv, SweepKnown
    <3> QED
      BY <2>3, <2>5, <3>1 DEF DebugInv, SweepKnown, SamePath
  <2>12. \A g \in prune'.scanned \ prune'.candidates, h \in prune'.candidates : Older(g, h)
    BY <2>1, <2>3 DEF DebugInv, SweepKnown
  <2>13. Own(Trace)' = Own(Trace)
    BY <1>0 DEF Own
  <2>14. SweepKnown'
    BY <2>3, <2>4, <2>5, <2>7, <2>10, <2>11, <2>12, <2>13 DEF DebugInv, SweepKnown
  <2> QED
    BY <2>8, <2>9, <2>14 DEF DebugInv
<1>2. CASE ~ (Cardinality(prune.candidates) > ByteCap)
  <2>1. prune' = [prune EXCEPT !.pc = "done"] /\ UNCHANGED debugFiles
    BY <1>2 DEF RemoveOldest
  <2>2. /\ prune'.pc = "done" /\ prune'.candidates = prune.candidates
        /\ prune'.scanned = prune.scanned /\ prune'.spared = prune.spared
        /\ prune'.pins = prune.pins /\ prune'.cutoff = prune.cutoff
        /\ prune' \in [pc : {"free", "scan", "delete", "done"}, pins : SUBSET Sessions,
                       candidates : SUBSET DebugFiles, scanned : SUBSET DebugFiles,
                       spared : SUBSET DebugFiles, cutoff : Nat]
    BY <2>1 DEF DebugInv, DebugTypes
  <2>3. Cardinality(prune.candidates) \in Nat
    BY <1>0, FS_Subset, FS_CardinalityType DEF DebugInv, SweepKnown
  <2>4. Cardinality(prune.candidates) <= ByteCap
    BY <1>2, <2>3, DebugNumbers
  <2>5. Own(Trace)' = Own(Trace)
    BY <1>0 DEF Own
  <2>6. DebugTypes' /\ FilesKnown'
    BY <1>0, <2>1, <2>2 DEF DebugInv, DebugTypes, FilesKnown
  <2>7. SweepKnown'
    BY <2>1, <2>2, <2>4, <2>5 DEF DebugInv, SweepKnown
  <2> QED
    BY <2>6, <2>7 DEF DebugInv
<1> QED
  BY <1>1, <1>2

\* Sessions are pinned, none other.
PinsKnown == pins \subseteq Sessions

LEMMA DebugInvStep == DebugInv /\ PinsKnown /\ [DebugNext]_debugVars => DebugInv' /\ PinsKnown'
<1> SUFFICES ASSUME DebugInv, PinsKnown, [DebugNext]_debugVars PROVE DebugInv' /\ PinsKnown'
  OBVIOUS
<1>1. CASE Tick
  BY <1>1, TickKeepsDebug DEF Tick, PinsKnown
<1>2. CASE PersistWindow
  <2>1. /\ written < MaxWindows /\ written' = written + 1
        /\ debugFiles' = debugFiles \cup {Own(written + 1)} /\ UNCHANGED <<pins, now, prune>>
    BY <1>2 DEF PersistWindow
  <2>2. written \in 0..MaxWindows /\ MaxWindows \in Nat /\ Trace = MaxWindows + 1
    BY DebugNumbers DEF DebugInv, DebugTypes, Trace
  <2>3. Named(written + 1) = {}
    <3>1. written + 1 \notin 1..written /\ written + 1 # Trace
      BY <2>1, <2>2
    <3> QED
      BY <3>1 DEF Named, DebugInv, FilesKnown
  <2>4. debugFiles' = (debugFiles \ Named(written + 1)) \cup {Own(written + 1)}
    BY <2>1, <2>3
  <2>5. written + 1 # Trace
    BY <2>1, <2>2
  <2> QED
    BY <2>1, <2>4, <2>5, LaneAddsFile DEF PinsKnown
<1>3. CASE RecordDecode
  <2>1. /\ debugFiles' = (debugFiles \ Named(Trace)) \cup {Own(Trace)}
        /\ UNCHANGED <<pins, now, prune, written>>
    BY <1>3 DEF RecordDecode
  <2> QED
    BY <2>1, LaneAddsFile DEF PinsKnown
<1>4. CASE EvictWindow
  <2>1. /\ debugFiles' \subseteq debugFiles /\ \A f \in debugFiles \ debugFiles' : f.session = Active
        /\ UNCHANGED <<pins, now, prune, written>>
    BY <1>4 DEF EvictWindow, Named
  <2> QED
    BY <2>1, LaneRemovesFiles DEF PinsKnown
<1>5. CASE Pin
  <2>1. UNCHANGED <<debugFiles, now, prune, written>> /\ PinsKnown'
    BY <1>5 DEF Pin, PinsKnown
  <2> QED
    BY <2>1, LaneRemovesFiles
<1>6. CASE ScanFiles
  BY <1>6, ScanKeepsDebug DEF ScanFiles, PinsKnown
<1>7. CASE RemoveOldest
  BY <1>7, RemoveKeepsDebug DEF RemoveOldest, PinsKnown
<1>8. ASSUME NEW l \in DebugLanes, BeginPrune(l) \/ EndPrune(l) PROVE DebugInv' /\ PinsKnown'
  BY <1>8, BeginPruneKeepsDebug DEF BeginPrune, EndPrune, PinsKnown
<1>9. CASE UNCHANGED debugVars
  <2>1. UNCHANGED <<debugFiles, now, prune, written, pins>>
    BY <1>9 DEF debugVars
  <2> QED
    BY <2>1, LaneRemovesFiles DEF PinsKnown
<1> QED
  BY <1>1, <1>2, <1>3, <1>4, <1>5, <1>6, <1>7, <1>8, <1>9 DEF DebugNext

\* For any sessions, any cap, age and number of windows: a sweep that ends leaves
\* what fits, the newest of what it saw, and nothing expired; of pinned sessions it
\* removes nothing, while both lanes go on writing and removing files.
THEOREM SweepBoundsDebug == DebugSpec => []DebugIsBounded
<1>1. DebugInv => DebugIsBounded
  <2> SUFFICES ASSUME DebugInv, prune.pc = "done" PROVE DebugIsBounded
    BY DEF DebugIsBounded
  <2> DEFINE kept == prune.scanned \cap debugFiles
  <2>1. /\ kept \subseteq prune.candidates /\ prune.candidates \subseteq prune.scanned
        /\ IsFiniteSet(prune.scanned) /\ Cardinality(prune.candidates) <= ByteCap
    BY DEF DebugInv, SweepKnown
  <2>2. Cardinality(kept) <= ByteCap
    <3>1. IsFiniteSet(prune.candidates)
      BY <2>1, FS_Subset
    <3>2. Cardinality(kept) <= Cardinality(prune.candidates) /\ IsFiniteSet(kept)
      BY <2>1, <3>1, FS_Subset
    <3>3. Cardinality(kept) \in Nat /\ Cardinality(prune.candidates) \in Nat
      BY <3>1, <3>2, FS_CardinalityType
    <3> QED
      BY <2>1, <3>2, <3>3, DebugNumbers
  <2>3. \A f \in kept : f.time >= prune.cutoff
    BY DEF DebugInv, SweepKnown
  <2>4. ASSUME NEW f \in kept, NEW g \in prune.scanned, g.session # Active, ~ Still(g)
        PROVE  g.time <= f.time
    <3>1. g \notin debugFiles
      BY <2>4 DEF Still, SamePath
    <3>2. g \notin prune.candidates /\ f \in prune.candidates
      BY <2>1, <2>4, <3>1 DEF DebugInv, SweepKnown
    <3>3. Older(g, f)
      BY <3>2 DEF DebugInv, SweepKnown
    <3>4. g.time \in Nat /\ f.time \in Nat
      BY DEF DebugInv, DebugTypes, DebugFiles
    <3> QED
      BY <3>3, <3>4 DEF Older
  <2>5. \A f \in prune.spared : f.session # Active => Still(f)
    BY DEF DebugInv, SweepKnown, Still, SamePath
  <2> QED
    BY <2>2, <2>3, <2>4, <2>5 DEF DebugIsBounded
<1>2. DebugInit => PinsKnown
  BY DEF DebugInit, PinsKnown
<1> QED
  BY <1>1, <1>2, DebugInvInit, DebugInvStep, PTL DEF DebugSpec

-------------------------------------------------------------------------------
(* FamilyCatalog, for any family and any number of processes.              *)

Memberships == [user : Family, role : Roles]
TableNames == {"users", "workspaces", "memberships", "web_sessions", "groups", "group_memberships",
               "profiles", "profile_controllers", "group_profiles", "_alembic_tmp_workspaces"}
OpenerStates == [pc : {"down", "create", "extend", "workspace", "insert", "running", "refused"},
                 todo : Seq(TableNames), kept : Seq(Memberships)]

FamilyTypes ==
    /\ revision \in {Null, "0001", "0002"}
    /\ joined \in Seq(Memberships)
    /\ \A i, j \in 1..Len(joined) : joined[i].user = joined[j].user => i = j
    /\ groupRole \in [Family -> {Null, "owner", "member"}]
    /\ space \in [there : BOOLEAN, home : {Null} \cup {SelfProfile(u) : u \in Family},
                  creator : {Null} \cup Family]
    /\ opener \in [Processes -> OpenerStates]

Begun(p, point, list) == opener[p].pc = point /\ Len(opener[p].todo) < Len(list)

\* A process creates the tables in order, from the first of its migration on.
OpenersKnown ==
    /\ \A p \in Processes :
        /\ opener[p].pc = "create" =>
              /\ revision # "0001"
              /\ Begun(p, "create", CatalogTables) \/ opener[p].todo = CatalogTables
        /\ opener[p].pc = "extend" =>
              /\ revision # Null
              /\ Begun(p, "extend", FamilyTables) \/ opener[p].todo = FamilyTables
        /\ opener[p].pc \in {"workspace", "insert", "running"} => revision = "0002"
    /\ \A p, q \in Processes : ~ (opener[p].pc = "create" /\ opener[q].pc = "extend")

\* One process at most has got past the first table, which is then there; until
\* its commit nothing else changes.
OneUpgrades ==
    /\ \A p \in Processes :
        /\ Begun(p, "create", CatalogTables) => "users" \in tables
        /\ Begun(p, "extend", FamilyTables) => "groups" \in tables
        /\ Begun(p, "create", CatalogTables) \/ (opener[p].pc = "create" /\ "users" \notin tables)
              => revision = Null
        /\ Begun(p, "extend", FamilyTables) \/ (opener[p].pc = "extend" /\ "groups" \notin tables)
              => revision = "0001" /\ opener[p].kept = joined
    /\ \A p, q \in Processes :
        \/ Begun(p, "create", CatalogTables) /\ Begun(q, "create", CatalogTables)
        \/ Begun(p, "extend", FamilyTables) /\ Begun(q, "extend", FamilyTables)
        => p = q

BeforeFamilies ==
    /\ revision = Null => joined = << >>
    /\ revision = "0001" => space.there
    /\ revision # "0002" => space.home = Null

FamilyInv == FamilyTypes /\ OpenersKnown /\ OneUpgrades /\ BeforeFamilies

LEMMA TheTables ==
  /\ CatalogTables \in Seq(TableNames) /\ Len(CatalogTables) = 4
  /\ Head(CatalogTables) = "users" /\ CatalogTables # << >>
  /\ FamilyTables \in Seq(TableNames) /\ Len(FamilyTables) = 6
  /\ Head(FamilyTables) = "groups" /\ FamilyTables # << >>
<1>1. CatalogTables \in Seq(TableNames) /\ CatalogTables # << >>
  BY DEF CatalogTables, TableNames
<1>2. Len(CatalogTables) = 4
  BY DEF CatalogTables
<1>3. Head(CatalogTables) = "users"
  BY DEF CatalogTables
<1>4. FamilyTables \in Seq(TableNames) /\ FamilyTables # << >>
  BY DEF FamilyTables, TableNames
<1>5. Len(FamilyTables) = 6
  BY DEF FamilyTables
<1>6. Head(FamilyTables) = "groups"
  BY DEF FamilyTables
<1> QED
  BY <1>1, <1>2, <1>3, <1>4, <1>5, <1>6

\* A catalog has every account once, with a role.
LEMMA FamilyInvInit == FamilyInit => FamilyInv
<1> SUFFICES ASSUME FamilyInit PROVE FamilyInv
  OBVIOUS
<1>1. /\ groupRole = [u \in Family |-> Null] /\ opener = [p \in Processes |-> Down]
      /\ space.home = Null /\ space.creator = Null
      /\ space \in [there : BOOLEAN, home : {Null} \cup {SelfProfile(u) : u \in Family},
                    creator : {Null} \cup Family]
      /\ (revision = Null /\ joined = << >>) \/ (revision = "0001" /\ space.there)
  <2>1. \/ revision = Null /\ joined = << >> /\ space = [there |-> FALSE, home |-> Null, creator |-> Null]
        \/ revision = "0001" /\ space = [there |-> TRUE, home |-> Null, creator |-> Null]
    BY DEF FamilyInit
  <2>2. groupRole = [u \in Family |-> Null] /\ opener = [p \in Processes |-> Down]
    BY DEF FamilyInit
  <2>3. CASE space = [there |-> FALSE, home |-> Null, creator |-> Null]
    BY <2>1, <2>2, <2>3
  <2>4. CASE space = [there |-> TRUE, home |-> Null, creator |-> Null]
    BY <2>1, <2>2, <2>4
  <2> QED
    BY <2>1, <2>3, <2>4
<1>2. /\ joined \in Seq(Memberships)
      /\ \A i, j \in 1..Len(joined) : joined[i].user = joined[j].user => i = j
  <2>1. CASE joined = << >>
    BY <2>1
  <2>2. CASE joined # << >>
    <3>1. PICK people \in SUBSET Family : \E order \in SetToSeqs(people), has \in [people -> Roles] :
            joined = [i \in DOMAIN order |-> [user |-> order[i], role |-> has[order[i]]]]
      BY <2>2 DEF FamilyInit
    <3>2. PICK order \in SetToSeqs(people), has \in [people -> Roles] :
            joined = [i \in DOMAIN order |-> [user |-> order[i], role |-> has[order[i]]]]
      BY <3>1
    <3> DEFINE n == Cardinality(people)
    <3>3. n \in Nat
      BY FamilyAssumption, FS_Subset, FS_CardinalityType
    <3>4. /\ order \in [1..n -> people]
          /\ \A i, j \in 1..n : i # j => order[i] # order[j]
      BY DEF SetToSeqs
    <3> HIDE DEF n
    <3>5. /\ joined \in [1..n -> Memberships]
          /\ \A i \in 1..n : joined[i].user = order[i]
      BY <3>2, <3>4 DEF Memberships
    <3>6. Len(joined) = n /\ joined \in Seq(Memberships)
      BY <3>3, <3>5
    <3> QED
      BY <3>4, <3>5, <3>6
  <2> QED
    BY <2>1, <2>2
<1>3. \A p \in Processes : opener[p].pc = "down" /\ opener[p] \in OpenerStates
  BY <1>1 DEF Down, OpenerStates
<1>4. FamilyTypes
  BY <1>1, <1>2, <1>3 DEF FamilyTypes
<1>5. OpenersKnown
  BY <1>3 DEF OpenersKnown
<1>6. OneUpgrades
  BY <1>3 DEF OneUpgrades, Begun
<1>7. BeforeFamilies
  BY <1>1 DEF BeforeFamilies, Null
<1> QED
  BY <1>4, <1>5, <1>6, <1>7 DEF FamilyInv

-----------------------------------------------------------------------------

OpenerGoes(p, with) ==
    /\ opener'[p] = with /\ opener' \in [Processes -> OpenerStates]
    /\ \A q \in Processes \ {p} : opener'[q] = opener[q]

LEMMA GoesEffect ==
  ASSUME FamilyTypes, NEW p \in Processes, NEW with \in OpenerStates, GoesOn(p, with)
  PROVE  OpenerGoes(p, with)
  BY DEF GoesOn, OpenerGoes, FamilyTypes

\* The process that commits is the one that upgrades, and the memberships are
\* what they were.
CommitDoes(p) ==
    /\ \/ Begun(p, "create", CatalogTables) /\ revision = Null
       \/ Begun(p, "extend", FamilyTables) /\ revision = "0001"
    /\ joined' = joined /\ revision' = "0002"
    /\ "users" \in tables => "users" \in tables'
    /\ "groups" \in tables'
    /\ SeedFamily(joined)
    /\ OpenerGoes(p, [opener[p] EXCEPT !.pc = "workspace", !.kept = << >>])
    /\ opener'[p].pc = "workspace"

LEMMA CommitEffect ==
  ASSUME FamilyInv, NEW p \in Processes, CommitUpgrade(p)
  PROVE  CommitDoes(p)
<1>1. opener[p] \in OpenerStates /\ opener[p].todo = << >> /\ opener[p].pc \in {"create", "extend"}
  BY DEF CommitUpgrade, FamilyInv, FamilyTypes
<1>2. Len(opener[p].todo) = 0
  BY <1>1
<1>3. Begun(p, "create", CatalogTables) \/ Begun(p, "extend", FamilyTables)
  BY <1>1, <1>2, TheTables DEF Begun
<1>4. \/ Begun(p, "create", CatalogTables) /\ revision = Null
      \/ Begun(p, "extend", FamilyTables) /\ revision = "0001" /\ opener[p].kept = joined
  BY <1>3 DEF FamilyInv, OneUpgrades
<1> DEFINE memberships == Restored(IF opener[p].pc = "create" THEN << >> ELSE opener[p].kept)
<1>5. memberships = joined
  BY <1>4 DEF Restored, Begun, FamilyInv, BeforeFamilies
<1>6. /\ revision' = "0002" /\ joined' = memberships /\ SeedFamily(memberships)
      /\ tables' = (tables \cup ToSet(FamilyTables) \cup {"workspace_group_grants"})
                     \ {"_alembic_tmp_workspaces"}
      /\ GoesOn(p, [opener[p] EXCEPT !.pc = "workspace", !.kept = << >>])
  BY DEF CommitUpgrade
<1> HIDE DEF memberships
<1>7. "groups" \in ToSet(FamilyTables)
  <2>1. FamilyTables[1] = "groups" /\ 1 \in DOMAIN FamilyTables
    BY DEF FamilyTables
  <2> QED
    BY <2>1 DEF ToSet
<1>8. [opener[p] EXCEPT !.pc = "workspace", !.kept = << >>] \in OpenerStates
  <2>1. << >> \in Seq(Memberships)
    OBVIOUS
  <2> QED
    BY <1>1, <2>1 DEF OpenerStates
<1>9. OpenerGoes(p, [opener[p] EXCEPT !.pc = "workspace", !.kept = << >>])
  BY <1>6, <1>8, GoesEffect DEF FamilyInv
<1>10. opener'[p].pc = "workspace"
  BY <1>1, <1>9 DEF OpenerGoes, OpenerStates
<1> QED
  BY <1>4, <1>5, <1>6, <1>7, <1>9, <1>10 DEF CommitDoes

\* A process that neither upgrades nor begins to has no part in the invariant.
LEMMA OpenerRests ==
  ASSUME FamilyInv, NEW p \in Processes, NEW with \in OpenerStates, OpenerGoes(p, with),
         with.pc \in {"down", "refused"} \/ (with.pc \in {"workspace", "insert", "running"} /\ revision = "0002"),
         UNCHANGED <<revision, tables, joined>>
  PROVE  OpenersKnown' /\ OneUpgrades'
<1>1. with.pc \notin {"create", "extend"}
  OBVIOUS
<1>2. \A q \in Processes : opener'[q].pc \in {"create", "extend"} => q # p /\ opener'[q] = opener[q]
  BY <1>1 DEF OpenerGoes
<1>3. \A q \in Processes : opener'[q].pc \in {"workspace", "insert", "running"} => revision = "0002"
  BY DEF OpenerGoes, FamilyInv, OpenersKnown
<1>4. \A q \in Processes :
        /\ Begun(q, "create", CatalogTables)' => q # p /\ Begun(q, "create", CatalogTables)
        /\ Begun(q, "extend", FamilyTables)' => q # p /\ Begun(q, "extend", FamilyTables)
        /\ q # p /\ Begun(q, "create", CatalogTables) => Begun(q, "create", CatalogTables)'
        /\ q # p /\ Begun(q, "extend", FamilyTables) => Begun(q, "extend", FamilyTables)'
  BY <1>2 DEF Begun, OpenerGoes
<1>5. OpenersKnown'
  BY <1>2, <1>3, <1>4 DEF FamilyInv, OpenersKnown
<1>6. OneUpgrades'
  <2>1. \A q \in Processes :
        /\ Begun(q, "create", CatalogTables)' => "users" \in tables'
        /\ Begun(q, "extend", FamilyTables)' => "groups" \in tables'
    BY <1>4 DEF FamilyInv, OneUpgrades
  <2>2. \A q \in Processes :
        Begun(q, "create", CatalogTables)' \/ (opener'[q].pc = "create" /\ "users" \notin tables')
              => revision' = Null
    BY <1>2, <1>4 DEF FamilyInv, OneUpgrades
  <2>3. \A q \in Processes :
        Begun(q, "extend", FamilyTables)' \/ (opener'[q].pc = "extend" /\ "groups" \notin tables')
              => revision' = "0001" /\ opener'[q].kept = joined'
    <3> TAKE q \in Processes
    <3> HAVE Begun(q, "extend", FamilyTables)' \/ (opener'[q].pc = "extend" /\ "groups" \notin tables')
    <3>1. opener'[q].pc = "extend"
      BY DEF Begun
    <3> QED
      BY <1>2, <1>4, <3>1 DEF FamilyInv, OneUpgrades
  <2>4. \A q, o \in Processes :
        \/ Begun(q, "create", CatalogTables)' /\ Begun(o, "create", CatalogTables)'
        \/ Begun(q, "extend", FamilyTables)' /\ Begun(o, "extend", FamilyTables)'
        => q = o
    BY <1>4 DEF FamilyInv, OneUpgrades
  <2> QED
    BY <2>1, <2>2, <2>3, <2>4 DEF OneUpgrades
<1> QED
  BY <1>5, <1>6

LEMMA OpenKeepsFamily ==
  ASSUME FamilyInv, NEW p \in Processes, OpenCatalog(p)
  PROVE  FamilyInv' /\ UNCHANGED familyRows /\ revision' = revision
<1> DEFINE point == CASE revision = Null -> "create" [] revision = "0001" -> "extend"
                    [] revision = "0002" -> "workspace"
           todo == CASE revision = Null -> CatalogTables [] revision = "0001" -> FamilyTables
                      [] revision = "0002" -> << >>
           to == [pc |-> point, todo |-> todo, kept |-> joined]
<1>1. GoesOn(p, to) /\ UNCHANGED <<revision, tables, familyRows>>
  BY DEF OpenCatalog
<1>2. \/ revision = Null /\ point = "create" /\ todo = CatalogTables
      \/ revision = "0001" /\ point = "extend" /\ todo = FamilyTables
      \/ revision = "0002" /\ point = "workspace" /\ todo = << >>
  BY DEF FamilyInv, FamilyTypes, Null
<1> HIDE DEF point, todo
<1>3. to \in OpenerStates /\ to.pc = point /\ to.todo = todo /\ to.kept = joined
  <2>1. /\ point \in {"create", "extend", "workspace"} /\ todo \in Seq(TableNames)
        /\ joined \in Seq(Memberships)
    <3>1. << >> \in Seq(TableNames)
      OBVIOUS
    <3>2. joined \in Seq(Memberships)
      BY DEF FamilyInv, FamilyTypes
    <3>3. CatalogTables \in Seq(TableNames) /\ FamilyTables \in Seq(TableNames)
      BY TheTables
    <3> QED
      BY <1>2, <3>1, <3>2, <3>3
  <2> QED
    BY <2>1 DEF OpenerStates
<1> HIDE DEF to
<1>4. OpenerGoes(p, to)
  BY <1>1, <1>3, GoesEffect DEF FamilyInv
<1>5. UNCHANGED <<joined, groupRole, space>>
  BY <1>1 DEF familyRows
<1>6. FamilyTypes' /\ BeforeFamilies'
  BY <1>1, <1>4, <1>5 DEF FamilyInv, FamilyTypes, BeforeFamilies, OpenerGoes
<1>7. CASE revision = "0002"
  BY <1>1, <1>2, <1>3, <1>4, <1>5, <1>6, <1>7, OpenerRests DEF FamilyInv, Null
<1>8. CASE revision # "0002"
  <2>1. /\ ~ Begun(p, "create", CatalogTables)' /\ ~ Begun(p, "extend", FamilyTables)'
        /\ \A q \in Processes : q # p =>
              /\ Begun(q, "create", CatalogTables)' <=> Begun(q, "create", CatalogTables)
              /\ Begun(q, "extend", FamilyTables)' <=> Begun(q, "extend", FamilyTables)
    <3>1. /\ opener'[p].pc = "create" => opener'[p].todo = CatalogTables
          /\ opener'[p].pc = "extend" => opener'[p].todo = FamilyTables
      BY <1>2, <1>3, <1>4, <1>8 DEF OpenerGoes
    <3>2. \A q \in Processes : q # p => opener'[q] = opener[q]
      BY <1>4 DEF OpenerGoes
    <3>3. ~ (Len(CatalogTables) < Len(CatalogTables)) /\ ~ (Len(FamilyTables) < Len(FamilyTables))
      BY TheTables
    <3> QED
      BY <3>1, <3>2, <3>3 DEF Begun
  <2>2. OpenersKnown'
    BY <1>1, <1>2, <1>3, <1>4, <1>8, <2>1 DEF FamilyInv, OpenersKnown, OpenerGoes, Null
  <2>3. OneUpgrades'
    BY <1>1, <1>2, <1>3, <1>4, <1>5, <1>8, <2>1 DEF FamilyInv, OneUpgrades, OpenerGoes, Null
  <2> QED
    BY <1>1, <1>6, <2>2, <2>3 DEF FamilyInv
<1> QED
  BY <1>7, <1>8

LEMMA CreateTableKeepsFamily ==
  ASSUME FamilyInv, NEW p \in Processes, CreateTable(p)
  PROVE  FamilyInv' /\ UNCHANGED familyRows /\ revision' = revision
<1>1. /\ opener[p] \in OpenerStates /\ opener[p].pc \in {"create", "extend"} /\ opener[p].todo # << >>
      /\ UNCHANGED <<revision, joined, groupRole, space, familyRows>>
  BY DEF CreateTable, FamilyInv, FamilyTypes, familyRows
<1>2. CASE Head(opener[p].todo) \in tables /\ UNCHANGED tables
           /\ GoesOn(p, [opener[p] EXCEPT !.pc = "refused"])
  <2>1. [opener[p] EXCEPT !.pc = "refused"] \in OpenerStates
        /\ [opener[p] EXCEPT !.pc = "refused"].pc = "refused"
    BY <1>1 DEF OpenerStates
  <2>2. OpenerGoes(p, [opener[p] EXCEPT !.pc = "refused"])
    BY <1>2, <2>1, GoesEffect DEF FamilyInv
  <2>3. FamilyTypes' /\ BeforeFamilies'
    BY <1>1, <2>2 DEF FamilyInv, FamilyTypes, BeforeFamilies, OpenerGoes
  <2>4. OpenersKnown' /\ OneUpgrades'
    BY <1>1, <1>2, <2>1, <2>2, OpenerRests
  <2> QED
    BY <1>1, <2>3, <2>4 DEF FamilyInv
<1>3. CASE /\ Head(opener[p].todo) \notin tables /\ tables' = tables \cup {Head(opener[p].todo)}
           /\ GoesOn(p, [opener[p] EXCEPT !.todo = Tail(@)])
  <2> DEFINE to == [opener[p] EXCEPT !.todo = Tail(@)]
  <2>1. /\ to \in OpenerStates /\ to.pc = opener[p].pc /\ to.kept = opener[p].kept
        /\ to.todo = Tail(opener[p].todo)
    <3>1. opener[p].todo \in Seq(TableNames)
      BY <1>1 DEF OpenerStates
    <3>2. Tail(opener[p].todo) \in Seq(TableNames)
      BY <1>1, <3>1
    <3> QED
      BY <1>1, <3>2 DEF OpenerStates
  <2>2. Len(to.todo) < Len(opener[p].todo) /\ Len(to.todo) \in Nat /\ Len(opener[p].todo) \in Nat
    BY <1>1, <2>1 DEF OpenerStates
  <2>3. OpenerGoes(p, to)
    BY <1>3, <2>1, GoesEffect DEF FamilyInv
  <2> HIDE DEF to
  <2>4. /\ opener[p].pc = "create" => Begun(p, "create", CatalogTables)'
        /\ opener[p].pc = "extend" => Begun(p, "extend", FamilyTables)'
    <3>1. opener'[p] = to
      BY <2>3 DEF OpenerGoes
    <3>2. /\ opener[p].pc = "create" => Len(opener[p].todo) <= Len(CatalogTables)
          /\ opener[p].pc = "extend" => Len(opener[p].todo) <= Len(FamilyTables)
      <4>1. /\ opener[p].pc = "create" =>
                  Len(opener[p].todo) < Len(CatalogTables) \/ opener[p].todo = CatalogTables
            /\ opener[p].pc = "extend" =>
                  Len(opener[p].todo) < Len(FamilyTables) \/ opener[p].todo = FamilyTables
        BY DEF FamilyInv, OpenersKnown, Begun
      <4>2. Len(CatalogTables) \in Nat /\ Len(FamilyTables) \in Nat
        BY TheTables
      <4> QED
        BY <2>2, <4>1, <4>2
    <3>3. /\ opener[p].pc = "create" => Len(to.todo) < Len(CatalogTables)
          /\ opener[p].pc = "extend" => Len(to.todo) < Len(FamilyTables)
      <4>1. Len(CatalogTables) = 4 /\ Len(FamilyTables) = 6
        BY TheTables
      <4> QED
        BY <2>2, <3>2, <4>1
    <3> QED
      BY <2>1, <3>1, <3>3 DEF Begun
  <2>5. /\ opener[p].pc = "create" /\ ~ Begun(p, "create", CatalogTables) =>
              "users" \notin tables /\ "users" \in tables'
        /\ opener[p].pc = "extend" /\ ~ Begun(p, "extend", FamilyTables) =>
              "groups" \notin tables /\ "groups" \in tables'
    BY <1>3, TheTables DEF FamilyInv, OpenersKnown
  <2>6. /\ opener'[p].pc = opener[p].pc /\ opener'[p].kept = opener[p].kept
        /\ \A q \in Processes : q # p =>
              /\ opener'[q] = opener[q]
              /\ Begun(q, "create", CatalogTables)' <=> Begun(q, "create", CatalogTables)
              /\ Begun(q, "extend", FamilyTables)' <=> Begun(q, "extend", FamilyTables)
    BY <2>1, <2>3 DEF OpenerGoes, Begun
  <2>7. FamilyTypes' /\ BeforeFamilies'
    BY <1>1, <2>3 DEF FamilyInv, FamilyTypes, BeforeFamilies, OpenerGoes
  <2>8. OpenersKnown'
    BY <1>1, <2>4, <2>6 DEF FamilyInv, OpenersKnown
  <2>9. tables \subseteq tables'
    BY <1>3
  <2>10. /\ Begun(p, "create", CatalogTables)' => opener[p].pc = "create"
         /\ Begun(p, "extend", FamilyTables)' => opener[p].pc = "extend"
    BY <2>6 DEF Begun
  <2>11. OneUpgrades'
    BY <1>1, <2>4, <2>5, <2>6, <2>9, <2>10 DEF FamilyInv, OneUpgrades
  <2> QED
    BY <1>1, <2>7, <2>8, <2>11 DEF FamilyInv
<1> QED
  BY <1>2, <1>3 DEF CreateTable

\* The group's creator, and the home, are of the family.
LEMMA FirstOwnerIs ==
  ASSUME NEW memberships \in Seq(Memberships), NEW among
  PROVE  LET first == FirstOwner(memberships, among)
             owners == {i \in 1..Len(memberships) :
                          memberships[i].role = "owner" /\ memberships[i].user \in among}
         IN  /\ owners = {} => first = Null
             /\ owners # {} => \E i \in owners : first = memberships[i].user
<1> DEFINE owners == {i \in DOMAIN memberships :
                        memberships[i].role = "owner" /\ memberships[i].user \in among}
<1>1. owners = {i \in 1..Len(memberships) :
                  memberships[i].role = "owner" /\ memberships[i].user \in among}
  OBVIOUS
<1>2. CASE owners = {}
  BY <1>1, <1>2 DEF FirstOwner
<1>3. CASE owners # {}
  <2>1. owners \subseteq Nat
    BY <1>1
  <2>2. FirstOwner(memberships, among) = memberships[Min(owners)].user
    BY <1>3 DEF FirstOwner
  <2> HIDE DEF owners
  <2>3. \E x \in owners : \A y \in owners : x <= y
    <3>1. PICK x \in owners : \A y \in owners : ~ (<<y, x>> \in OpToRel(<, Nat))
      BY <1>3, <2>1, NatLessThanWellFounded, WFMin
    <3>2. \A y \in owners : <<y, x>> \in OpToRel(<, Nat) <=> y < x
      BY <2>1 DEF OpToRel
    <3>3. \A y \in owners : x \in Nat /\ y \in Nat /\ ~ (y < x)
      BY <2>1, <3>1, <3>2
    <3> QED
      BY <3>3
  <2>4. Min(owners) \in owners
    BY <2>3 DEF Min
  <2> QED
    BY <1>1, <1>3, <2>2, <2>4
<1> QED
  BY <1>2, <1>3

-----------------------------------------------------------------------------
(* Members and their roles.                                                *)

\* Whoever has a row is a member, with the role of that row.
LEMMA RolesAreRows ==
  ASSUME NEW those \in Seq(Memberships),
         \A i, j \in 1..Len(those) : those[i].user = those[j].user => i = j
  PROVE  /\ Members(those) = {those[i].user : i \in 1..Len(those)} /\ Members(those) \subseteq Family
         /\ \A i \in 1..Len(those) : RoleOf(those[i].user, those) = those[i].role
         /\ \A u : u \notin Members(those) => RoleOf(u, those) = Null
         /\ \A u \in Members(those) : RoleOf(u, those) \in Roles
<1>1. ToSet(those) = {those[i] : i \in 1..Len(those)} /\ \A i \in 1..Len(those) : those[i] \in Memberships
  <2>1. DOMAIN those = 1..Len(those)
    OBVIOUS
  <2> QED
    BY <2>1 DEF ToSet
<1>2. Members(those) = {those[i].user : i \in 1..Len(those)}
  BY <1>1 DEF Members
<1>3. Members(those) \subseteq Family
  BY <1>1, <1>2 DEF Memberships
<1>4. ASSUME NEW i \in 1..Len(those) PROVE RoleOf(those[i].user, those) = those[i].role
  <2> DEFINE own == {row \in ToSet(those) : row.user = those[i].user}
  <2>1. own = {those[i]}
    BY <1>1
  <2>2. (CHOOSE row \in own : TRUE) = those[i]
    BY <2>1
  <2> QED
    BY <2>1, <2>2 DEF RoleOf
<1>5. ASSUME NEW u, u \notin Members(those) PROVE RoleOf(u, those) = Null
  <2>1. {row \in ToSet(those) : row.user = u} = {}
    BY <1>1, <1>2, <1>5
  <2> QED
    BY <2>1 DEF RoleOf
<1>6. \A u \in Members(those) : RoleOf(u, those) \in Roles
  BY <1>1, <1>2, <1>4 DEF Memberships
<1> QED
  BY <1>2, <1>3, <1>4, <1>5, <1>6

\* As many rows as members.
LEMMA RowsAreMembers ==
  ASSUME NEW those \in Seq(Memberships),
         \A i, j \in 1..Len(those) : those[i].user = those[j].user => i = j
  PROVE  Len(those) = Cardinality(Members(those))
<1> DEFINE n == Len(those)
           user_of == [i \in 1..n |-> those[i].user]
<1>1. Members(those) = {those[i].user : i \in 1..n}
  BY RolesAreRows
<1>2. n \in Nat /\ IsFiniteSet(1..n) /\ Cardinality(1..n) = n
  BY FS_Interval
<1>3. user_of \in [1..n -> Members(those)] /\ \A i \in 1..n : user_of[i] = those[i].user
  BY <1>1
<1> HIDE DEF n, user_of
<1>4. user_of \in Injection(1..n, Members(those))
  BY <1>3 DEF Injection, IsInjective, n
<1>5. user_of \in Surjection(1..n, Members(those))
  BY <1>1, <1>3 DEF Surjection
<1>6. Cardinality(Members(those)) = Cardinality(1..n)
  BY <1>2, <1>4, <1>5, FS_Surjection
<1> QED
  BY <1>2, <1>6 DEF n

\* A row for somebody new changes nobody else's role.
LEMMA AddedMember ==
  ASSUME NEW those \in Seq(Memberships), NEW u \in Family, NEW r \in Roles,
         \A i, j \in 1..Len(those) : those[i].user = those[j].user => i = j,
         u \notin Members(those)
  PROVE  LET longer == Append(those, [user |-> u, role |-> r])
         IN  /\ longer \in Seq(Memberships)
             /\ \A i, j \in 1..Len(longer) : longer[i].user = longer[j].user => i = j
             /\ Members(longer) = Members(those) \cup {u}
             /\ RoleOf(u, longer) = r
             /\ \A v : v # u => RoleOf(v, longer) = RoleOf(v, those)
<1> DEFINE longer == Append(those, [user |-> u, role |-> r])
<1>1. [user |-> u, role |-> r] \in Memberships
  BY DEF Memberships
<1>2. /\ longer \in Seq(Memberships) /\ Len(longer) = Len(those) + 1
      /\ longer[Len(longer)] = [user |-> u, role |-> r]
      /\ \A i \in 1..Len(those) : longer[i] = those[i]
  BY <1>1
<1> HIDE DEF longer
<1>3. longer[Len(longer)].user = u /\ longer[Len(longer)].role = r /\ Len(longer) \in 1..Len(longer)
  BY <1>2
<1>4. Members(those) = {those[i].user : i \in 1..Len(those)}
  BY RolesAreRows
<1>5. \A i \in 1..Len(longer) : i = Len(longer) \/ (i \in 1..Len(those) /\ longer[i] = those[i])
  BY <1>2
<1>6. ASSUME NEW i \in 1..Len(longer), NEW j \in 1..Len(longer), longer[i].user = longer[j].user
      PROVE  i = j
  BY <1>3, <1>4, <1>5, <1>6
<1>7. Members(longer) = {longer[i].user : i \in 1..Len(longer)} /\ RoleOf(u, longer) = r
  BY <1>2, <1>3, <1>6, RolesAreRows
<1>8. Members(longer) = Members(those) \cup {u}
  BY <1>2, <1>3, <1>4, <1>5, <1>7
<1>9. ASSUME NEW v, v # u PROVE RoleOf(v, longer) = RoleOf(v, those)
  <2>1. CASE v \in Members(those)
    <3>1. PICK i \in 1..Len(those) : v = those[i].user
      BY <1>4, <2>1
    <3>2. i \in 1..Len(longer) /\ longer[i] = those[i]
      BY <1>2
    <3>3. RoleOf(those[i].user, those) = those[i].role
      BY RolesAreRows
    <3>4. RoleOf(longer[i].user, longer) = longer[i].role
      BY <1>2, <1>6, <3>2, RolesAreRows
    <3> QED
      BY <3>1, <3>2, <3>3, <3>4
  <2>2. CASE v \notin Members(those)
    <3>1. v \notin Members(longer)
      BY <1>8, <1>9, <2>2
    <3>2. RoleOf(v, longer) = Null
      BY <1>2, <1>6, <3>1, RolesAreRows
    <3>3. RoleOf(v, those) = Null
      BY <2>2, RolesAreRows
    <3> QED
      BY <3>2, <3>3
  <2> QED
    BY <2>1, <2>2
<1> QED
  BY <1>2, <1>6, <1>7, <1>8, <1>9 DEF longer

-----------------------------------------------------------------------------
(* The family is whole.                                                    *)

PlacesFit ==
    \A u \in Family :
        /\ u \notin Members(joined) => groupRole[u] = Null
        /\ u \in Members(joined) =>
              groupRole[u] = IF RoleOf(u, joined) = "owner" THEN "owner" ELSE "member"

ProfilesFit ==
    /\ \A u \in Family :
        /\ \A v \in Family : <<v, SelfProfile(u)>> \in controls <=> v = u /\ u \in Members(joined)
        /\ SelfProfile(u) \in affiliated <=> u \in Members(joined)
    /\ \A profile \in affiliated : \E u \in Members(joined) : <<u, profile>> \in controls

HomeFits ==
    /\ (\A u \in Family : RoleOf(u, joined) # "owner") => space.home = Null
    /\ (\E u \in Family : RoleOf(u, joined) = "owner") =>
          \E u \in Family : RoleOf(u, joined) = "owner" /\ space.home = SelfProfile(u)

FamilyFits == revision = "0002" => PlacesFit /\ ProfilesFit /\ HomeFits

LEMMA ProfilesDiffer ==
  /\ \A u, v : SelfProfile(u) = SelfProfile(v) => u = v
  /\ \A u, n : SelfProfile(u) # Managed(n)
  BY DEF SelfProfile, Managed

\* The commit of an upgrade makes a family of whoever is a member.
LEMMA CommitKeepsFamily ==
  ASSUME FamilyInv, NEW p \in Processes, CommitUpgrade(p)
  PROVE  FamilyInv' /\ FamilyFits' /\ joined' = joined
<1>1. CommitDoes(p)
  BY CommitEffect
<1>2. /\ joined' = joined /\ revision' = "0002" /\ SeedFamily(joined)
      /\ joined \in Seq(Memberships)
      /\ \A i, j \in 1..Len(joined) : joined[i].user = joined[j].user => i = j
      /\ space \in [there : BOOLEAN, home : {Null} \cup {SelfProfile(u) : u \in Family},
                    creator : {Null} \cup Family]
  BY <1>1 DEF CommitDoes, FamilyInv, FamilyTypes
<1> DEFINE first == FirstOwner(joined, Family)
           owners == {i \in 1..Len(joined) : joined[i].role = "owner" /\ joined[i].user \in Family}
<1>3. /\ owners = {} => first = Null
      /\ owners # {} => \E i \in owners : first = joined[i].user
  BY <1>2, FirstOwnerIs
<1>4. /\ groupRole' = [u \in Family |->
               IF u \notin Members(joined) THEN Null
               ELSE IF RoleOf(u, joined) = "owner" THEN "owner" ELSE "member"]
      /\ affiliated' = {SelfProfile(u) : u \in Members(joined)}
      /\ controls' = {<<u, SelfProfile(u)>> : u \in Members(joined)}
      /\ space' = IF ~ space.there THEN space
                    ELSE [space EXCEPT !.creator = first,
                                       !.home = IF first = Null THEN Null ELSE SelfProfile(first)]
  BY <1>2 DEF SeedFamily
<1>5. /\ Members(joined) = {joined[i].user : i \in 1..Len(joined)} /\ Members(joined) \subseteq Family
      /\ \A i \in 1..Len(joined) : RoleOf(joined[i].user, joined) = joined[i].role
      /\ \A u : u \notin Members(joined) => RoleOf(u, joined) = Null
      /\ \A u \in Members(joined) : RoleOf(u, joined) \in Roles
  BY <1>2, RolesAreRows
<1>6. /\ first = Null => \A u \in Family : RoleOf(u, joined) # "owner"
      /\ first # Null => first \in Family /\ RoleOf(first, joined) = "owner"
      /\ first = Null \/ first \in Family
  <2>1. CASE owners = {}
    <3>1. \A u \in Members(joined) : RoleOf(u, joined) # "owner"
      BY <1>5, <2>1
    <3>2. \A u \in Family : RoleOf(u, joined) # "owner"
      BY <1>5, <3>1 DEF Null
    <3> QED
      BY <1>3, <2>1, <3>2
  <2>2. CASE owners # {}
    <3>1. PICK i \in owners : first = joined[i].user
      BY <1>3, <2>2
    <3>2. first \in Family /\ RoleOf(first, joined) = "owner"
      BY <1>5, <3>1
    <3> QED
      BY <3>2, FamilyAssumption
  <2> QED
    BY <2>1, <2>2
<1> HIDE DEF first, owners
<1> DEFINE home == IF first = Null THEN Null ELSE SelfProfile(first)
<1>7. /\ space.there => space'.home = home
      /\ ~ space.there => space'.home = Null /\ joined = << >>
      /\ space' \in [there : BOOLEAN, home : {Null} \cup {SelfProfile(u) : u \in Family},
                     creator : {Null} \cup Family]
  <2>1. home \in {Null} \cup {SelfProfile(u) : u \in Family}
    BY <1>6
  <2> HIDE DEF home
  <2>2. CASE space.there
    <3>1. space' = [space EXCEPT !.creator = first, !.home = home]
      BY <1>4, <2>2 DEF home
    <3>2. first \in {Null} \cup Family
      BY <1>6
    <3> QED
      BY <1>2, <2>1, <2>2, <3>1, <3>2
  <2>3. CASE ~ space.there
    <3>1. joined = << >> /\ space.home = Null
      BY <1>1, <2>3 DEF CommitDoes, FamilyInv, BeforeFamilies, Null
    <3> QED
      BY <1>2, <1>4, <2>3, <3>1
  <2> QED
    BY <2>2, <2>3
<1>8. PlacesFit'
  BY <1>2, <1>4 DEF PlacesFit
<1>9. ProfilesFit'
  BY <1>2, <1>4, ProfilesDiffer DEF ProfilesFit
<1>10. HomeFits'
  <2>1. CASE space.there
    BY <1>2, <1>6, <1>7, <2>1 DEF HomeFits
  <2>2. CASE ~ space.there
    <3>1. \A u : RoleOf(u, joined) = Null
      BY <1>5, <1>7, <2>2
    <3> QED
      BY <1>2, <1>7, <2>2, <3>1 DEF HomeFits, Null
  <2> QED
    BY <2>1, <2>2
<1>11. FamilyTypes'
  <2>1. groupRole' \in [Family -> {Null, "owner", "member"}]
    BY <1>4
  <2>2. opener' \in [Processes -> OpenerStates]
    BY <1>1 DEF CommitDoes, OpenerGoes
  <2> QED
    BY <1>2, <1>7, <2>1, <2>2 DEF FamilyTypes
<1>12. BeforeFamilies'
  BY <1>2 DEF BeforeFamilies, Null
<1>13. /\ opener'[p].pc = "workspace"
       /\ \A q \in Processes : q # p => opener'[q] = opener[q]
  BY <1>1 DEF CommitDoes, OpenerGoes
<1>14. \A q \in Processes :
         /\ Begun(q, "create", CatalogTables)' => q # p /\ Begun(q, "create", CatalogTables)
         /\ Begun(q, "extend", FamilyTables)' => q # p /\ Begun(q, "extend", FamilyTables)
  BY <1>13 DEF Begun
\* Whoever had begun would be this process.
<1>15. \A q \in Processes : ~ Begun(q, "create", CatalogTables)' /\ ~ Begun(q, "extend", FamilyTables)'
  <2>1. CASE Begun(p, "create", CatalogTables) /\ revision = Null
    <3>1. \A q \in Processes : ~ Begun(q, "extend", FamilyTables)
      BY <2>1 DEF FamilyInv, OneUpgrades, Null
    <3> QED
      BY <1>14, <2>1, <3>1 DEF FamilyInv, OneUpgrades
  <2>2. CASE Begun(p, "extend", FamilyTables) /\ revision = "0001"
    <3>1. \A q \in Processes : ~ Begun(q, "create", CatalogTables)
      BY <2>2 DEF FamilyInv, OneUpgrades, Null
    <3> QED
      BY <1>14, <2>2, <3>1 DEF FamilyInv, OneUpgrades
  <2> QED
    BY <1>1, <2>1, <2>2 DEF CommitDoes
<1>16. OpenersKnown'
  <2>1. \A q \in Processes :
          /\ opener'[q].pc = "create" => opener'[q].todo = CatalogTables /\ opener[q].pc = "create"
          /\ opener'[q].pc = "extend" => opener'[q].todo = FamilyTables /\ opener[q].pc = "extend"
    <3> TAKE q \in Processes
    <3>1. /\ ~ Begun(q, "create", CatalogTables)' /\ ~ Begun(q, "extend", FamilyTables)'
          /\ opener'[q].pc \in {"create", "extend"} => q # p /\ opener'[q] = opener[q]
      BY <1>13, <1>15
    <3>2. /\ opener[q].pc = "create" => Begun(q, "create", CatalogTables) \/ opener[q].todo = CatalogTables
          /\ opener[q].pc = "extend" => Begun(q, "extend", FamilyTables) \/ opener[q].todo = FamilyTables
      BY DEF FamilyInv, OpenersKnown
    <3> QED
      BY <3>1, <3>2 DEF Begun
  <2> QED
    BY <1>2, <2>1 DEF FamilyInv, OpenersKnown, Null
<1>17. OneUpgrades'
  <2>1. \A q \in Processes : opener'[q].pc = "create" => "users" \in tables'
    <3> SUFFICES ASSUME NEW q \in Processes, opener'[q].pc = "create" PROVE "users" \in tables'
      OBVIOUS
    <3>1. q # p /\ opener[q].pc = "create"
      BY <1>13
    <3>2. Begun(p, "create", CatalogTables)
      BY <1>1, <3>1 DEF CommitDoes, FamilyInv, OpenersKnown
    <3> QED
      BY <1>1, <3>2 DEF CommitDoes, FamilyInv, OneUpgrades
  <2>2. "groups" \in tables'
    BY <1>1 DEF CommitDoes
  <2> QED
    BY <1>15, <2>1, <2>2 DEF OneUpgrades
<1> QED
  BY <1>2, <1>8, <1>9, <1>10, <1>11, <1>12, <1>16, <1>17 DEF FamilyInv, FamilyFits

\* A step that leaves the rows alone leaves the family whole.
LEMMA FamilyRests ==
  ASSUME FamilyFits, UNCHANGED familyRows, revision' = revision
  PROVE  FamilyFits'
  BY DEF FamilyFits, PlacesFit, ProfilesFit, HomeFits, familyRows

LEMMA InsertKeepsFamily ==
  ASSUME FamilyInv, FamilyFits, NEW p \in Processes, InsertWorkspace(p)
  PROVE  FamilyInv' /\ FamilyFits' /\ joined' = joined
<1> DEFINE to == [opener[p] EXCEPT !.pc = IF space.there THEN "refused" ELSE "running"]
<1>1. /\ opener[p].pc = "insert" /\ revision = "0002" /\ opener[p] \in OpenerStates
      /\ space' = [space EXCEPT !.there = TRUE] /\ GoesOn(p, to)
      /\ UNCHANGED <<revision, tables, joined, disabled, groupRole, controls, affiliated, group, crashes>>
  BY DEF InsertWorkspace, FamilyInv, OpenersKnown, FamilyTypes
<1>2. to \in OpenerStates /\ to.pc \in {"refused", "running"}
  BY <1>1 DEF OpenerStates
<1> HIDE DEF to
<1>3. OpenerGoes(p, to)
  BY <1>1, <1>2, GoesEffect DEF FamilyInv
<1>4. /\ space'.home = space.home
      /\ space' \in [there : BOOLEAN, home : {Null} \cup {SelfProfile(u) : u \in Family},
                     creator : {Null} \cup Family]
  BY <1>1 DEF FamilyInv, FamilyTypes
<1>5. FamilyTypes'
  BY <1>1, <1>3, <1>4 DEF FamilyInv, FamilyTypes, OpenerGoes
<1>6. BeforeFamilies'
  BY <1>1 DEF BeforeFamilies, Null
<1>7. OpenersKnown' /\ OneUpgrades'
  BY <1>1, <1>2, <1>3, OpenerRests
<1>8. FamilyFits'
  BY <1>1, <1>4 DEF FamilyFits, PlacesFit, ProfilesFit, HomeFits
<1> QED
  BY <1>1, <1>5, <1>6, <1>7, <1>8 DEF FamilyInv

\* The processes that read the workspace, end or are killed.
LEMMA OpenerKeepsFamily ==
  ASSUME FamilyInv, NEW p \in Processes, ReadWorkspace(p) \/ CloseCatalog(p) \/ KillOpener(p)
  PROVE  FamilyInv' /\ UNCHANGED familyRows /\ revision' = revision
<1>1. /\ opener[p] \in OpenerStates /\ UNCHANGED <<revision, tables, familyRows>>
      /\ UNCHANGED <<joined, groupRole, space>>
  BY DEF ReadWorkspace, CloseCatalog, KillOpener, familyRows, FamilyInv, FamilyTypes
<1>2. PICK to : GoesOn(p, to) /\ to \in OpenerStates
                /\ (to.pc = "down" \/ (to.pc \in {"running", "insert"} /\ revision = "0002"))
  <2>1. CASE ReadWorkspace(p)
    <3> DEFINE to == [opener[p] EXCEPT !.pc = IF space.there THEN "running" ELSE "insert", !.kept = << >>]
    <3>1. GoesOn(p, to) /\ revision = "0002"
      BY <2>1 DEF ReadWorkspace, FamilyInv, OpenersKnown
    <3>2. << >> \in Seq(Memberships)
      OBVIOUS
    <3>3. to \in OpenerStates /\ to.pc \in {"running", "insert"}
      BY <1>1, <3>2 DEF OpenerStates
    <3> HIDE DEF to
    <3> QED
      BY <3>1, <3>3
  <2>2. CASE CloseCatalog(p) \/ KillOpener(p)
    <3>1. GoesOn(p, Down)
      BY <2>2 DEF CloseCatalog, KillOpener
    <3>2. Down \in OpenerStates /\ Down.pc = "down"
      BY DEF Down, OpenerStates
    <3> QED
      BY <3>1, <3>2
  <2> QED
    BY <2>1, <2>2
<1>3. OpenerGoes(p, to)
  BY <1>2, GoesEffect DEF FamilyInv
<1>4. FamilyTypes' /\ BeforeFamilies'
  BY <1>1, <1>3 DEF FamilyInv, FamilyTypes, BeforeFamilies, OpenerGoes
<1>5. OpenersKnown' /\ OneUpgrades'
  BY <1>1, <1>2, <1>3, OpenerRests
<1> QED
  BY <1>1, <1>4, <1>5 DEF FamilyInv

\* An account gets its place and its profile with its row.
LEMMA CreateUserKeepsFamily ==
  ASSUME FamilyInv, FamilyFits, NEW p \in Processes, NEW u \in Family, NEW r \in Roles, CreateUser(p, u, r)
  PROVE  /\ FamilyInv' /\ FamilyFits'
         /\ \A v \in Members(joined) : RoleOf(v, joined') = RoleOf(v, joined)
<1>1. /\ opener[p].pc = "running" /\ u \notin Members(joined)
      /\ joined' = Append(joined, [user |-> u, role |-> r])
      /\ groupRole' = [groupRole EXCEPT ![u] = IF r = "owner" THEN "owner" ELSE "member"]
      /\ affiliated' = affiliated \cup {SelfProfile(u)}
      /\ controls' = controls \cup {<<u, SelfProfile(u)>>}
      /\ space' = HomeFor(u, r)
      /\ UNCHANGED <<revision, tables, opener>>
  BY DEF CreateUser
<1>2. /\ revision = "0002" /\ joined \in Seq(Memberships)
      /\ \A i, j \in 1..Len(joined) : joined[i].user = joined[j].user => i = j
      /\ groupRole \in [Family -> {Null, "owner", "member"}]
      /\ space \in [there : BOOLEAN, home : {Null} \cup {SelfProfile(v) : v \in Family},
                    creator : {Null} \cup Family]
  BY <1>1 DEF FamilyInv, FamilyTypes, OpenersKnown
<1>3. /\ joined' \in Seq(Memberships)
      /\ \A i, j \in 1..Len(joined') : joined'[i].user = joined'[j].user => i = j
      /\ Members(joined') = Members(joined) \cup {u} /\ RoleOf(u, joined') = r
      /\ \A v : v # u => RoleOf(v, joined') = RoleOf(v, joined)
  <2> DEFINE longer == Append(joined, [user |-> u, role |-> r])
  <2>1. /\ longer \in Seq(Memberships)
        /\ \A i, j \in 1..Len(longer) : longer[i].user = longer[j].user => i = j
        /\ Members(longer) = Members(joined) \cup {u} /\ RoleOf(u, longer) = r
        /\ \A v : v # u => RoleOf(v, longer) = RoleOf(v, joined)
    BY <1>1, <1>2, AddedMember
  <2>2. joined' = longer
    BY <1>1
  <2> HIDE DEF longer
  <2> QED
    BY <2>1, <2>2
<1>4. PlacesFit /\ ProfilesFit /\ HomeFits
  BY <1>2 DEF FamilyFits
<1>5. PlacesFit'
  BY <1>1, <1>2, <1>3, <1>4 DEF PlacesFit
<1>6. ProfilesFit'
  <2>1. ASSUME NEW v \in Family, NEW w \in Family
        PROVE  <<w, SelfProfile(v)>> \in controls' <=> w = v /\ v \in Members(joined')
    <3>1. <<w, SelfProfile(v)>> = <<u, SelfProfile(u)>> <=> w = u /\ v = u
      BY ProfilesDiffer
    <3> QED
      BY <1>1, <1>3, <1>4, <3>1 DEF ProfilesFit
  <2>2. ASSUME NEW v \in Family
        PROVE  SelfProfile(v) \in affiliated' <=> v \in Members(joined')
    BY <1>1, <1>3, <1>4, ProfilesDiffer DEF ProfilesFit
  <2>3. \A profile \in affiliated' : \E v \in Members(joined') : <<v, profile>> \in controls'
    BY <1>1, <1>3, <1>4 DEF ProfilesFit
  <2> QED
    BY <2>1, <2>2, <2>3 DEF ProfilesFit
<1>7. /\ space.home = Null /\ r = "owner" => space'.home = SelfProfile(u)
      /\ ~ (space.home = Null /\ r = "owner") => space'.home = space.home
      /\ space' \in [there : BOOLEAN, home : {Null} \cup {SelfProfile(v) : v \in Family},
                     creator : {Null} \cup Family]
  BY <1>1, <1>2 DEF HomeFor
<1>8. HomeFits'
  <2>1. CASE r = "owner" /\ space.home = Null
    BY <1>3, <1>7, <2>1 DEF HomeFits
  <2>2. CASE ~ (r = "owner" /\ space.home = Null)
    <3>1. space'.home = space.home
      BY <1>7, <2>2
    <3>2. RoleOf(u, joined) # "owner"
      BY <1>1, <1>2, RolesAreRows DEF Null
    <3>3. CASE \E v \in Family : RoleOf(v, joined) = "owner"
      BY <1>3, <1>4, <3>1, <3>2, <3>3 DEF HomeFits
    <3>4. CASE ~ \E v \in Family : RoleOf(v, joined) = "owner"
      BY <1>3, <1>4, <2>2, <3>1, <3>4 DEF HomeFits
    <3> QED
      BY <3>3, <3>4
  <2> QED
    BY <2>1, <2>2
<1>9. groupRole' \in [Family -> {Null, "owner", "member"}]
  BY <1>1, <1>2
<1>10. FamilyTypes'
  BY <1>1, <1>3, <1>7, <1>9 DEF FamilyInv, FamilyTypes
<1>11. BeforeFamilies'
  BY <1>1, <1>2 DEF BeforeFamilies, Null
<1>12. OpenersKnown'
  BY <1>1 DEF FamilyInv, OpenersKnown, Begun
<1>13. OneUpgrades'
  <2>1. \A q \in Processes :
          /\ ~ Begun(q, "create", CatalogTables) /\ ~ Begun(q, "extend", FamilyTables)
          /\ opener[q].pc = "create" => "users" \in tables
          /\ opener[q].pc = "extend" => "groups" \in tables
    BY <1>2 DEF FamilyInv, OneUpgrades, Null
  <2>2. \A q \in Processes :
          ~ Begun(q, "create", CatalogTables)' /\ ~ Begun(q, "extend", FamilyTables)'
    BY <1>1, <2>1 DEF Begun
  <2> QED
    BY <1>1, <2>1, <2>2 DEF OneUpgrades
<1>14. \A v \in Members(joined) : RoleOf(v, joined') = RoleOf(v, joined)
  BY <1>1, <1>3
<1>15. FamilyInv' /\ FamilyFits'
  BY <1>5, <1>6, <1>8, <1>10, <1>11, <1>12, <1>13 DEF FamilyInv, FamilyFits
<1> QED
  BY <1>14, <1>15

\* A profile without an account belongs to the owner who adds it.
LEMMA ManagedKeepsFamily ==
  ASSUME FamilyInv, FamilyFits, NEW p \in Processes, NEW u \in Family, CreateManagedProfile(p, u)
  PROVE  FamilyInv' /\ FamilyFits' /\ joined' = joined
<1>1. PICK n \in 1..MaxProfiles : affiliated' = affiliated \cup {Managed(n)}
                                  /\ controls' = controls \cup {<<u, Managed(n)>>}
  BY DEF CreateManagedProfile
<1>2. /\ opener[p].pc = "running" /\ groupRole[u] = "owner"
      /\ UNCHANGED <<revision, tables, joined, groupRole, space, opener>>
  BY DEF CreateManagedProfile
<1>3. revision = "0002" /\ PlacesFit /\ ProfilesFit /\ HomeFits
  BY <1>2 DEF FamilyInv, OpenersKnown, FamilyFits
<1>4. u \in Members(joined)
  BY <1>2, <1>3 DEF PlacesFit, Null
<1>5. ProfilesFit'
  <2>1. \A v, w : <<w, SelfProfile(v)>> # <<u, Managed(n)>> /\ SelfProfile(v) # Managed(n)
    BY ProfilesDiffer
  <2>2. \A v \in Family :
          /\ \A w \in Family : <<w, SelfProfile(v)>> \in controls' <=> w = v /\ v \in Members(joined')
          /\ SelfProfile(v) \in affiliated' <=> v \in Members(joined')
    BY <1>1, <1>2, <1>3, <2>1 DEF ProfilesFit
  <2>3. \A profile \in affiliated' : \E v \in Members(joined') : <<v, profile>> \in controls'
    BY <1>1, <1>2, <1>3, <1>4 DEF ProfilesFit
  <2> QED
    BY <2>2, <2>3 DEF ProfilesFit
<1>6. PlacesFit' /\ HomeFits'
  BY <1>2, <1>3 DEF PlacesFit, HomeFits
<1>7. FamilyInv'
  BY <1>2 DEF FamilyInv, FamilyTypes, OpenersKnown, OneUpgrades, BeforeFamilies, Begun
<1> QED
  BY <1>2, <1>5, <1>6, <1>7 DEF FamilyFits

RolesStay == \A u \in Members(joined) : RoleOf(u, joined') = RoleOf(u, joined)

LEMMA FamilyStep ==
  FamilyInv /\ FamilyFits /\ [FamilyNext]_familyVars => FamilyInv' /\ FamilyFits' /\ RolesStay
<1> SUFFICES ASSUME FamilyInv, FamilyFits, [FamilyNext]_familyVars
             PROVE  FamilyInv' /\ FamilyFits' /\ RolesStay
  OBVIOUS
<1>1. ASSUME NEW p \in Processes,
             OpenCatalog(p) \/ CreateTable(p) \/ ReadWorkspace(p) \/ CloseCatalog(p) \/ KillOpener(p)
      PROVE  FamilyInv' /\ FamilyFits' /\ RolesStay
  <2>1. FamilyInv' /\ UNCHANGED familyRows /\ revision' = revision
    BY <1>1, OpenKeepsFamily, CreateTableKeepsFamily, OpenerKeepsFamily
  <2>2. joined' = joined
    BY <2>1 DEF familyRows
  <2> QED
    BY <2>1, <2>2, FamilyRests DEF RolesStay
<1>2. ASSUME NEW p \in Processes, CommitUpgrade(p) PROVE FamilyInv' /\ FamilyFits' /\ RolesStay
  BY <1>2, CommitKeepsFamily DEF RolesStay
<1>3. ASSUME NEW p \in Processes, InsertWorkspace(p) PROVE FamilyInv' /\ FamilyFits' /\ RolesStay
  BY <1>3, InsertKeepsFamily DEF RolesStay
<1>4. ASSUME NEW p \in Processes, NEW u \in Family, CreateManagedProfile(p, u)
      PROVE  FamilyInv' /\ FamilyFits' /\ RolesStay
  BY <1>4, ManagedKeepsFamily DEF RolesStay
<1>5. ASSUME NEW p \in Processes, NEW u \in Family, NEW r \in Roles, CreateUser(p, u, r)
      PROVE  FamilyInv' /\ FamilyFits' /\ RolesStay
  BY <1>5, CreateUserKeepsFamily DEF RolesStay
<1>6. CASE UNCHANGED familyVars
  <2>1. UNCHANGED <<revision, tables, familyRows, opener>>
        /\ UNCHANGED <<joined, groupRole, space>>
    BY <1>6 DEF familyVars, familyRows
  <2>2. FamilyInv'
    BY <2>1 DEF FamilyInv, FamilyTypes, OpenersKnown, OneUpgrades, BeforeFamilies, Begun
  <2> QED
    BY <2>1, <2>2, FamilyRests DEF RolesStay
<1> QED
  BY <1>1, <1>2, <1>3, <1>4, <1>5, <1>6 DEF FamilyNext

LEMMA FamilyHolds == FamilySpec => [](FamilyInv /\ FamilyFits)
<1>1. FamilyInit => FamilyFits
  BY DEF FamilyInit, FamilyFits, Null
<1> QED
  BY <1>1, FamilyInvInit, FamilyStep, PTL DEF FamilySpec

\* For any family and any number of processes that start, meet and are killed
\* anywhere: no step changes the role of an account that has one.
THEOREM RolesSurviveUpgrades == FamilySpec => AccessSurvives
<1>1. FamilyInv /\ FamilyFits /\ [FamilyNext]_familyVars
        => [\A u \in Members(joined) : RoleOf(u, joined') = RoleOf(u, joined)]_familyVars
  BY FamilyStep DEF RolesStay
<1> QED
  BY <1>1, FamilyHolds, PTL DEF FamilySpec, AccessSurvives

\* For any family and any number of processes: once the catalog is of this
\* release, every account has its place and its profile, and an owner the home.
THEOREM FamiliesAreWhole == FamilySpec => []FamilyIsWhole
<1>1. FamilyInv /\ FamilyFits => FamilyIsWhole
  <2> SUFFICES ASSUME FamilyInv, FamilyFits, revision = "0002" PROVE FamilyIsWhole
    BY DEF FamilyIsWhole
  <2>1. PlacesFit /\ ProfilesFit /\ HomeFits
    BY DEF FamilyFits
  <2>2. /\ Members(joined) \subseteq Family
        /\ \A u : u \notin Members(joined) => RoleOf(u, joined) = Null
        /\ \A u \in Members(joined) : RoleOf(u, joined) \in Roles
    BY RolesAreRows DEF FamilyInv, FamilyTypes
  <2>3. Len(joined) = Cardinality(Members(joined))
    BY RowsAreMembers DEF FamilyInv, FamilyTypes
  <2>4. ASSUME NEW u \in Family
        PROVE  groupRole[u] = CASE RoleOf(u, joined) = Null -> Null
                                [] RoleOf(u, joined) = "owner" -> "owner"
                                [] OTHER -> "member"
    <3>1. CASE u \notin Members(joined)
      BY <2>1, <2>2, <3>1 DEF PlacesFit, Null
    <3>2. CASE u \in Members(joined)
      <4>1. RoleOf(u, joined) # Null
        BY <2>2, <3>2 DEF Roles, Null
      <4> QED
        BY <2>1, <3>2, <4>1 DEF PlacesFit
    <3> QED
      BY <3>1, <3>2
  <2>5. \A u \in Family :
          /\ {v \in Family : <<v, SelfProfile(u)>> \in controls} = {u} \cap Members(joined)
          /\ SelfProfile(u) \in affiliated <=> u \in Members(joined)
    BY <2>1 DEF ProfilesFit
  <2>6. LET owners == {u \in Family : RoleOf(u, joined) = "owner"}
        IN  IF owners = {} THEN space.home = Null ELSE \E u \in owners : space.home = SelfProfile(u)
    BY <2>1 DEF HomeFits
  <2>7. \A profile \in affiliated : \E u \in Members(joined) : <<u, profile>> \in controls
    BY <2>1 DEF ProfilesFit
  <2> QED
    BY <2>3, <2>4, <2>5, <2>6, <2>7 DEF FamilyIsWhole
<1> QED
  BY <1>1, FamilyHolds, PTL

-------------------------------------------------------------------------------
(* SessionStore: audio and events of one session, for any lanes, batches   *)
(* and faults.  First the numbering of a batch; then the invariant of the  *)
(* event store, that the materialized table is what no row of the history  *)
(* passes; then that of the lanes: what a lane found and is not stored is  *)
(* in its hands, at or after its horizon.                                  *)

\* The least and the largest of a set of numbers, which stand for induction.
LEMMA LeastNumber ==
  ASSUME NEW T, T \subseteq Nat, T # {}
  PROVE  \E x \in T : \A y \in T : x <= y
<1>1. PICK x \in T : \A y \in T : ~ (<<y, x>> \in OpToRel(<, Nat))
  BY NatLessThanWellFounded, WFMin
<1>2. \A y \in T : <<y, x>> \in OpToRel(<, Nat) <=> y < x
  BY DEF OpToRel
<1>3. \A y \in T : x \in Nat /\ y \in Nat /\ ~ (y < x)
  BY <1>1, <1>2
<1> QED
  BY <1>3

LEMMA LargestNumber ==
  ASSUME NEW n \in Nat, NEW T, T \subseteq 0..n, T # {}
  PROVE  \E x \in T : \A y \in T : y <= x
<1> DEFINE below == {n - t : t \in T}
<1>1. below \subseteq Nat /\ below # {}
  <2>1. ASSUME NEW t \in T PROVE n - t \in Nat
    <3>1. t \in Int /\ t <= n
      OBVIOUS
    <3> QED
      BY <3>1
  <2> QED
    BY <2>1
<1>2. PICK b \in below : \A y \in below : b <= y
  <2> HIDE DEF below
  <2> QED
    BY <1>1, LeastNumber
<1>3. PICK x \in T : b = n - x
  OBVIOUS
<1>4. ASSUME NEW y \in T PROVE y <= x
  <2>1. n - y \in below
    OBVIOUS
  <2>2. n - x <= n - y
    BY <1>2, <1>3, <2>1
  <2>3. x \in Int /\ y \in Int
    OBVIOUS
  <2> QED
    BY <2>2, <2>3
<1> QED
  BY <1>4

LEMMA LessThrough ==
  ASSUME NEW a \in Int, NEW b \in Int, NEW c \in Int, a < b, b < c
  PROVE  a < c
OBVIOUS

LEMMA OneMore ==
  ASSUME NEW own \in Nat, NEW latest \in Nat, NEW v,
         v = IF own > latest THEN own ELSE latest + 1
  PROVE  v \in Nat /\ v > latest
OBVIOUS

LEMMA FewerThan ==
  ASSUME NEW n \in Nat, NEW k \in 1..n
  PROVE  \A j \in 1..(k - 1) : j \in 1..n /\ ~ (k <= j)
<1>1. k \in Nat /\ k <= n
  OBVIOUS
<1> QED
  BY <1>1

\* The row of an event that was there last.
LastOf(same) == CHOOSE j \in same : \A k \in same : k <= j

LEMMA LastEarlier ==
  ASSUME NEW batch, NEW i \in Nat, Earlier(batch, i) # {}
  PROVE  /\ LastOf(Earlier(batch, i)) \in Earlier(batch, i)
         /\ \A k \in Earlier(batch, i) : k <= LastOf(Earlier(batch, i))
<1>1. Earlier(batch, i) \subseteq 0..i
  BY DEF Earlier
<1>2. \E j \in Earlier(batch, i) : \A k \in Earlier(batch, i) : k <= j
  BY <1>1, LargestNumber
<1> QED
  BY <1>2 DEF LastOf

\* A revision is computed from those of earlier events.
LEMMA RevisionUses ==
  ASSUME NEW batch, NEW i \in Nat, NEW f, NEW g,
         \A j \in 1..(i - 1) : f[j] = g[j]
  PROVE  Revision(batch, f, i) = Revision(batch, g, i)
<1> DEFINE same == Earlier(batch, i)
<1>1. CASE same = {}
  BY <1>1 DEF Revision
<1>2. CASE same # {}
  <2>1. LastOf(same) \in 1..(i - 1)
    BY <1>2, LastEarlier DEF Earlier
  <2>2. f[LastOf(same)] = g[LastOf(same)]
    BY <2>1
  <2>3. \A r : Revision(batch, r, i) = IF batch[i].revision > r[LastOf(same)]
                                      THEN batch[i].revision ELSE r[LastOf(same)] + 1
    BY <1>2 DEF Revision, LastOf
  <2> QED
    BY <2>2, <2>3
<1> QED
  BY <1>1, <1>2

LatestKnown == \A id \in Ids :
    /\ Latest(id) \in Nat
    /\ \A r \in rows : r.id = id => r.revision <= Latest(id)

LEMMA RevisionAdvances ==
  ASSUME LatestKnown, EventsAssumption, NEW batch \in Seq(Events), NEW i \in 1..Len(batch),
         NEW f, \A j \in 1..(i - 1) : f[j] \in Nat
  PROVE  /\ Revision(batch, f, i) \in Nat
         /\ Earlier(batch, i) = {} => Revision(batch, f, i) > Latest(batch[i].id)
         /\ Earlier(batch, i) # {} => Revision(batch, f, i) > f[LastOf(Earlier(batch, i))]
<1>1. batch[i] \in Events /\ batch[i].revision \in Nat /\ batch[i].id \in Ids
  <2>1. batch[i] \in Events
    OBVIOUS
  <2>2. batch[i].revision \in Nat
    BY <2>1 DEF EventsAssumption
  <2> QED
    BY <2>1, <2>2 DEF Ids
<1> DEFINE same == Earlier(batch, i)
           latest == IF same = {} THEN Latest(batch[i].id) ELSE f[LastOf(same)]
<1>2. latest \in Nat
  <2>1. CASE same = {}
    BY <1>1, <2>1 DEF LatestKnown
  <2>2. CASE same # {}
    <3>0. i \in Nat
      OBVIOUS
    <3>1. LastOf(same) \in 1..(i - 1)
      BY <2>2, <3>0, LastEarlier DEF Earlier
    <3> QED
      BY <2>2, <3>1
  <2> QED
    BY <2>1, <2>2
<1>3. Revision(batch, f, i) = IF batch[i].revision > latest THEN batch[i].revision ELSE latest + 1
  BY DEF Revision, LastOf
<1> HIDE DEF latest
<1>4. Revision(batch, f, i) \in Nat /\ Revision(batch, f, i) > latest
  <2> DEFINE own == batch[i].revision
  <2>1. own \in Nat /\ Revision(batch, f, i) = IF own > latest THEN own ELSE latest + 1
    BY <1>1, <1>3
  <2> HIDE DEF own
  <2> QED
    BY <1>2, <2>1, OneMore
<1> QED
  BY <1>4 DEF latest

\* The numbering of a batch is well defined, whatever its length.
Numbers(batch, f, n) == f \in [1..n -> Nat] /\ \A i \in 1..n : f[i] = Revision(batch, f, i)

LEMMA NumbersExist ==
  ASSUME LatestKnown, EventsAssumption, NEW batch \in Seq(Events), NEW n \in 0..Len(batch)
  PROVE  \E f : Numbers(batch, f, n)
<1> DEFINE bad == {m \in 0..Len(batch) : ~ \E f : Numbers(batch, f, m)}
<1>0. Len(batch) \in Nat
  OBVIOUS
<1>1. SUFFICES ASSUME bad # {} PROVE FALSE
  BY <1>1
<1>2. PICK m \in bad : \A y \in bad : m <= y
  <2>1. bad \subseteq Nat
    BY <1>0
  <2> HIDE DEF bad
  <2> QED
    BY <1>1, <2>1, LeastNumber
<1>3. m \in 0..Len(batch) /\ ~ \E f : Numbers(batch, f, m)
  BY <1>2
<1>4. m # 0
  <2>1. Numbers(batch, [i \in 1..0 |-> 0], 0)
    BY DEF Numbers
  <2> QED
    BY <1>3, <2>1
<1>5. m - 1 \in 0..Len(batch) /\ m - 1 \notin bad
  <2>0. m \in Nat /\ m <= Len(batch)
    BY <1>0, <1>3
  <2>1. m - 1 \in 0..Len(batch)
    BY <1>0, <1>4, <2>0
  <2>2. ~ (m <= m - 1)
    BY <2>0
  <2> QED
    BY <1>2, <2>1, <2>2
<1>6. PICK f : Numbers(batch, f, m - 1)
  BY <1>5
<1> DEFINE g == [i \in 1..m |-> IF i < m THEN f[i] ELSE Revision(batch, f, m)]
<1>7. \A i \in 1..(m - 1) : f[i] \in Nat /\ g[i] = f[i] /\ f[i] = Revision(batch, f, i)
  BY <1>0, <1>3, <1>6 DEF Numbers
<1>8. Revision(batch, f, m) \in Nat /\ m \in 1..Len(batch)
  <2>1. m \in 1..Len(batch)
    BY <1>0, <1>3, <1>4
  <2> QED
    BY <1>7, <2>1, RevisionAdvances
<1>9. g \in [1..m -> Nat]
  <2>1. \A i \in 1..m : i < m => i \in 1..(m - 1)
    BY <1>8
  <2> QED
    BY <1>7, <1>8, <2>1
<1>10. ASSUME NEW i \in 1..m PROVE g[i] = Revision(batch, g, i)
  <2>1. i \in Nat /\ \A j \in 1..(i - 1) : j \in 1..(m - 1)
    <3>1. m \in Nat /\ i \in Nat /\ i <= m
      BY <1>8
    <3> QED
      BY <3>1
  <2>2. Revision(batch, g, i) = Revision(batch, f, i)
    <3>1. \A j \in 1..(i - 1) : f[j] = g[j]
      BY <1>7, <2>1
    <3> HIDE DEF g
    <3> QED
      BY <2>1, <3>1, RevisionUses
  <2>3. CASE i < m
    <3>1. i \in 1..(m - 1)
      BY <1>8, <2>3
    <3> QED
      BY <1>7, <2>2, <3>1
  <2>4. CASE i = m
    BY <2>2, <2>4
  <2> QED
    BY <1>8, <2>3, <2>4
<1> QED
  BY <1>3, <1>9, <1>10 DEF Numbers

LEMMA RevisionsAre ==
  ASSUME LatestKnown, EventsAssumption, NEW batch \in Seq(Events)
  PROVE  Numbers(batch, Revisions(batch), Len(batch))
<1> DEFINE n == Len(batch)
           Rule(f) == f = [i \in 1..n |-> Revision(batch, f, i)]
<1>1. n \in Nat
  OBVIOUS
<1>2. PICK f : Numbers(batch, f, n)
  <2>1. n \in 0..Len(batch)
    BY <1>1
  <2> QED
    BY <2>1, NumbersExist
<1>3. Rule(f)
  BY <1>2 DEF Numbers
<1>4. Revisions(batch) = CHOOSE r : Rule(r)
  BY DEF Revisions
<1>5. Rule(Revisions(batch))
  BY <1>3, <1>4
<1> DEFINE r == Revisions(batch)
<1>6. r = [i \in 1..n |-> Revision(batch, r, i)]
  BY <1>5
<1> HIDE DEF r, n
<1>7. \A i \in 1..n : r[i] = Revision(batch, r, i)
  BY <1>6
<1>8. \A i \in 1..n : r[i] \in Nat
  <2> DEFINE bad == {i \in 1..n : r[i] \notin Nat}
  <2>1. SUFFICES ASSUME bad # {} PROVE FALSE
    BY <2>1
  <2>2. PICK i \in bad : \A y \in bad : i <= y
    <3>1. bad \subseteq Nat
      BY <1>1
    <3> HIDE DEF bad
    <3> QED
      BY <2>1, <3>1, LeastNumber
  <2>3. i \in 1..n /\ \A j \in 1..(i - 1) : r[j] \in Nat
    BY <1>1, <2>2
  <2>4. Revision(batch, r, i) \in Nat
    BY <2>3, RevisionAdvances DEF n
  <2> QED
    BY <1>7, <2>2, <2>3, <2>4
<1>9. r \in [1..n -> Nat]
  BY <1>6, <1>8, <1>7
<1> QED
  BY <1>7, <1>9 DEF Numbers, n, r

\* Each revision of the batch is past the earlier ones, in the table and here.
LEMMA RevisionsPass ==
  ASSUME LatestKnown, EventsAssumption, NEW batch \in Seq(Events), NEW i \in 1..Len(batch)
  PROVE  /\ Revisions(batch)[i] \in Nat /\ Revisions(batch)[i] > Latest(batch[i].id)
         /\ \A j \in Earlier(batch, i) : Revisions(batch)[j] < Revisions(batch)[i]
<1> DEFINE r == Revisions(batch)
           n == Len(batch)
           Past(k) == r[k] > Latest(batch[k].id) /\ \A j \in Earlier(batch, k) : r[j] < r[k]
           bad == {k \in 1..n : ~ Past(k)}
<1>1. r \in [1..n -> Nat] /\ \A k \in 1..n : r[k] = Revision(batch, r, k)
  BY RevisionsAre DEF Numbers
<1>2. n \in Nat
  OBVIOUS
<1> HIDE DEF r
<1>3. bad = {}
  <2> SUFFICES ASSUME bad # {} PROVE FALSE
    OBVIOUS
  <2>1. PICK k \in bad : \A y \in bad : k <= y
    <3>1. bad \subseteq Nat
      BY <1>2
    <3> HIDE DEF bad
    <3> QED
      BY <3>1, LeastNumber
  <2>2. k \in 1..n /\ ~ Past(k) /\ \A j \in 1..(k - 1) : j \in 1..n /\ Past(j) /\ r[j] \in Nat
    <3>1. k \in 1..n /\ ~ Past(k)
      BY <2>1
    <3>2. \A j \in 1..(k - 1) : j \in 1..n /\ ~ (k <= j)
      BY <1>2, <3>1, FewerThan DEF n
    <3>3. \A j \in 1..(k - 1) : Past(j)
      BY <2>1, <3>2
    <3> QED
      BY <1>1, <3>1, <3>2, <3>3
  <2> HIDE DEF bad
  <2> DEFINE same == Earlier(batch, k)
             last == LastOf(same)
  <2>3. batch[k] \in Events /\ batch[k].id \in Ids
    <3>1. batch[k] \in Events
      BY <2>2
    <3> QED
      BY <3>1 DEF Ids
  <2>4. Latest(batch[k].id) \in Nat
    BY <2>3 DEF LatestKnown
  <2>5. /\ same = {} => r[k] > Latest(batch[k].id)
        /\ same # {} => r[k] > r[last]
    BY <1>1, <2>2, RevisionAdvances
  <2>6. CASE same = {}
    BY <2>2, <2>5, <2>6
  <2>7. CASE same # {}
    <3>1. last \in same /\ \A j \in same : j <= last
      <4>1. k \in Nat
        BY <1>2, <2>2
      <4> QED
        BY <2>7, <4>1, LastEarlier
    <3>2. last \in 1..(k - 1) /\ batch[last].id = batch[k].id
      BY <3>1 DEF Earlier
    <3>3. Past(last) /\ r[last] \in Nat /\ r[k] \in Nat
      BY <1>1, <2>2, <3>2
    <3>4. r[k] > Latest(batch[k].id)
      <4>1. r[last] > Latest(batch[k].id) /\ r[k] > r[last]
        BY <2>5, <2>7, <3>2, <3>3
      <4> QED
        <5> DEFINE x == Latest(batch[k].id)  y == r[last]  z == r[k]
        <5>1. x \in Nat /\ y \in Nat /\ z \in Nat /\ x < y /\ y < z
          BY <2>4, <3>3, <4>1
        <5> HIDE DEF x, y, z
        <5>2. x < z
          BY <5>1
        <5> QED
          BY <5>2 DEF x, z
    <3>5. ASSUME NEW j \in same PROVE r[j] < r[k]
      <4>1. j \in 1..(k - 1) /\ batch[j].id = batch[k].id /\ j <= last /\ r[j] \in Nat
        BY <2>2, <3>1, <3>5 DEF Earlier
      <4>2. CASE j = last
        BY <2>5, <2>7, <4>2
      <4>3. CASE j # last
        <5>1. j \in Earlier(batch, last)
          BY <3>2, <4>1, <4>3 DEF Earlier
        <5>2. r[j] < r[last]
          BY <3>3, <5>1
        <5> QED
          <6>1. r[k] > r[last]
            BY <2>5, <2>7
          <6> QED
            <7> DEFINE x == r[j]  y == r[last]  z == r[k]
            <7>1. x \in Nat /\ y \in Nat /\ z \in Nat /\ x < y /\ y < z
              BY <3>3, <4>1, <5>2, <6>1
            <7> HIDE DEF x, y, z
            <7>2. x < z
              BY <7>1
            <7> QED
              BY <7>2 DEF x, z
      <4> QED
        BY <4>2, <4>3
    <3> QED
      BY <2>2, <3>4, <3>5
  <2> QED
    BY <2>6, <2>7
<1> QED
  BY <1>1, <1>3 DEF r

\* The current view is the revision of each event that no other one passes.
IsLatest(r, set) == \A o \in set : o.id = r.id => o.revision <= r.revision

EventInv ==
    /\ EventTypeOK /\ IsFiniteSet(rows)
    /\ RevisionsAdvance /\ EvidenceHoldsIndex /\ HistoryHasNoGaps
    /\ \A r \in rows : r.sequence < nextSequence
    /\ page.seen \in Seq(rows) /\ page.cursor < nextSequence
    /\ materialized = {r \in rows : IsLatest(r, rows)}
    /\ {r.id : r \in rows} = {r.id : r \in materialized}

LEMMA RowsAreRecords ==
  ASSUME NEW r \in Records
  PROVE  /\ r.id \in Ids /\ r.revision \in Nat /\ r.onset \in Nat /\ r.sequence \in Nat
         /\ r.lifecycle \in {"provisional", "committed", "retracted"}
BY DEF Records

LEMMA LatestIs ==
  ASSUME EventInv, NEW r \in materialized
  PROVE  Latest(r.id) = r.revision
<1> DEFINE known == {o.revision : o \in {o \in rows : o.id = r.id}}
<1>1. r \in rows /\ r \in Records /\ \A o \in rows : o \in Records
  BY DEF EventInv, EventTypeOK
<1>2. r.revision \in known
  BY <1>1
<1>3. \A k \in known : k \in Nat /\ k <= r.revision
  <2> SUFFICES ASSUME NEW o \in rows, o.id = r.id PROVE o.revision \in Nat /\ o.revision <= r.revision
    OBVIOUS
  <2> QED
    BY <1>1, RowsAreRecords DEF EventInv, IsLatest
<1>4. Latest(r.id) = IF known = {} THEN 0 ELSE CHOOSE n \in known : \A k \in known : k <= n
  BY DEF Latest
<1> HIDE DEF known
<1>5. \A n \in known : (\A k \in known : k <= n) => n = r.revision
  BY <1>2, <1>3
<1>6. \E n \in known : \A k \in known : k <= n
  BY <1>2, <1>3
<1> QED
  BY <1>2, <1>4, <1>5, <1>6

LEMMA NothingIsLatest ==
  ASSUME NEW id, \A r \in rows : r.id # id
  PROVE  Latest(id) = 0
<1>1. {r \in rows : r.id = id} = {}
  OBVIOUS
<1> QED
  BY <1>1 DEF Latest

LEMMA LatestIsKnown == ASSUME EventInv PROVE LatestKnown
<1> SUFFICES ASSUME NEW id \in Ids
             PROVE  Latest(id) \in Nat /\ \A r \in rows : r.id = id => r.revision <= Latest(id)
  BY DEF LatestKnown
<1>1. CASE \A r \in rows : r.id # id
  BY <1>1, NothingIsLatest
<1>2. CASE \E r \in rows : r.id = id
  <2>1. PICK m \in materialized : m.id = id
    BY <1>2 DEF EventInv
  <2>2. Latest(id) = m.revision
    BY <2>1, LatestIs
  <2>3. m \in rows /\ m \in Records /\ IsLatest(m, rows)
    BY DEF EventInv, EventTypeOK
  <2> QED
    BY <2>1, <2>2, <2>3, RowsAreRecords DEF IsLatest
<1> QED
  BY <1>1, <1>2

LEMMA NumberedFrom == ASSUME NEW x \in Nat, NEW y \in Nat, y >= 1 PROVE x + y - 1 \in Nat
OBVIOUS

\* What the lane's events become: the numbers follow those in use, and every
\* revision is past those the event had, in the table and in the batch.
RowsOf(batch) == ToSet(Assigned(batch))

LEMMA AssignedAre ==
  ASSUME EventInv, EventsAssumption, NEW batch \in Seq(Events)
  PROVE  /\ Assigned(batch) \in Seq(Records) /\ Len(Assigned(batch)) = Len(batch)
         /\ RowsOf(batch) = {Assigned(batch)[i] : i \in 1..Len(batch)}
         /\ \A i \in 1..Len(batch) :
               LET r == Assigned(batch)[i]
               IN  /\ r \in Records
                   /\ r.id = batch[i].id /\ r.onset = batch[i].onset /\ r.lifecycle = batch[i].lifecycle
                   /\ r.sequence = nextSequence + i - 1
                   /\ r.revision > Latest(r.id)
                   /\ \A j \in 1..(i - 1) :
                         batch[j].id = r.id => Assigned(batch)[j].revision < r.revision
<1> DEFINE a == Assigned(batch)
           v == Revisions(batch)
           n == Len(batch)
<1>1. n \in Nat /\ nextSequence \in Nat /\ nextSequence >= 1
  BY DEF EventInv, EventTypeOK
<1>2. a = [i \in 1..n |-> [id |-> batch[i].id, revision |-> v[i], lifecycle |-> batch[i].lifecycle,
                           onset |-> batch[i].onset, sequence |-> nextSequence + i - 1]]
  BY DEF Assigned
<1>3. \A i \in 1..n : v[i] \in Nat /\ v[i] > Latest(batch[i].id) /\ \A j \in Earlier(batch, i) : v[j] < v[i]
  BY LatestIsKnown, RevisionsPass
<1> HIDE DEF v
<1>4. ASSUME NEW i \in 1..n
      PROVE  /\ a[i] \in Records
             /\ a[i].id = batch[i].id /\ a[i].onset = batch[i].onset /\ a[i].lifecycle = batch[i].lifecycle
             /\ a[i].sequence = nextSequence + i - 1 /\ a[i].revision = v[i]
  <2>1. a[i] = [id |-> batch[i].id, revision |-> v[i], lifecycle |-> batch[i].lifecycle,
                onset |-> batch[i].onset, sequence |-> nextSequence + i - 1]
    BY <1>2
  <2>2. batch[i] \in Events /\ nextSequence + i - 1 \in Nat
    <3>1. i \in 1..Len(batch)
      OBVIOUS
    <3>2. batch[i] \in Events
      BY <3>1
    <3>3. i \in Nat /\ i >= 1
      BY <1>1, <3>1
    <3>4. nextSequence + i - 1 \in Nat
      <4>1. nextSequence \in Nat
        BY <1>1
      <4> QED
        BY <3>3, <4>1, NumberedFrom
    <3> QED
      BY <3>2, <3>4
  <2>3. /\ batch[i].id \in Ids /\ batch[i].onset \in Nat
        /\ batch[i].lifecycle \in {"provisional", "committed", "retracted"}
    BY <2>2 DEF EventsAssumption, Ids
  <2> QED
    BY <1>3, <2>1, <2>2, <2>3 DEF Records
<1>5. DOMAIN a = 1..n
  BY <1>2
<1> HIDE DEF a
<1>6. a \in Seq(Records) /\ Len(a) = n
  <2>1. a = [i \in 1..n |-> a[i]]
    BY <1>2, <1>5
  <2> QED
    BY <1>1, <1>4, <1>5, <2>1
<1>7. ToSet(a) = {a[i] : i \in 1..n}
  BY <1>5 DEF ToSet
<1>8. ASSUME NEW i \in 1..n
      PROVE  /\ a[i].revision > Latest(a[i].id)
             /\ \A j \in 1..(i - 1) : batch[j].id = a[i].id => a[j].revision < a[i].revision
  <2>1. a[i].revision > Latest(a[i].id)
    BY <1>3, <1>4
  <2>2. ASSUME NEW j \in 1..(i - 1), batch[j].id = a[i].id PROVE a[j].revision < a[i].revision
    <3>1. j \in 1..n /\ j \in Earlier(batch, i)
      BY <1>1, <1>4, <2>2 DEF Earlier
    <3> QED
      BY <1>3, <1>4, <3>1
  <2> QED
    BY <2>1, <2>2
<1> QED
  BY <1>4, <1>6, <1>7, <1>8 DEF a, RowsOf

\* One row of the batch beside another one, and beside the table.
LEMMA NewRows ==
  ASSUME EventInv, EventsAssumption, NEW batch \in Seq(Events)
  PROVE  /\ RowsOf(batch) \subseteq Records /\ IsFiniteSet(RowsOf(batch))
         /\ \A r \in RowsOf(batch) :
               /\ nextSequence <= r.sequence /\ r.sequence < nextSequence + Len(batch)
               /\ \A o \in rows : o.sequence < r.sequence /\ (o.id = r.id => o.revision < r.revision)
         /\ \A r, s \in RowsOf(batch) :
               r # s => /\ r.sequence # s.sequence
                        /\ r.id = s.id /\ r.sequence < s.sequence => r.revision < s.revision
         /\ \A e \in ToSet(batch) : \E r \in RowsOf(batch) :
               r.id = e.id /\ r.onset = e.onset /\ r.lifecycle = e.lifecycle
<1> DEFINE a == Assigned(batch)
           n == Len(batch)
<1>1. n \in Nat /\ nextSequence \in Nat
  BY DEF EventInv, EventTypeOK
<1>2. /\ a \in Seq(Records) /\ Len(a) = n /\ RowsOf(batch) = {a[i] : i \in 1..n}
      /\ \A i \in 1..n :
            /\ a[i] \in Records /\ a[i].id = batch[i].id /\ a[i].onset = batch[i].onset
            /\ a[i].lifecycle = batch[i].lifecycle /\ a[i].sequence = nextSequence + i - 1
            /\ a[i].revision > Latest(a[i].id)
            /\ \A j \in 1..(i - 1) : batch[j].id = a[i].id => a[j].revision < a[i].revision
  BY AssignedAre
<1> HIDE DEF a, n
<1>3. RowsOf(batch) \subseteq Records
  BY <1>2
<1>4. IsFiniteSet(RowsOf(batch))
  <2>1. a \in Surjection(1..n, RowsOf(batch))
    BY <1>2 DEF Surjection
  <2>2. IsFiniteSet(1..n)
    <3>1. 1 \in Int /\ n \in Int
      BY <1>1
    <3> QED
      BY <3>1, FS_Interval
  <2> QED
    BY <2>1, <2>2, FS_Surjection
<1>5. ASSUME NEW i \in 1..n
      PROVE  /\ nextSequence <= a[i].sequence /\ a[i].sequence < nextSequence + n
             /\ \A o \in rows : o.sequence < a[i].sequence /\ (o.id = a[i].id => o.revision < a[i].revision)
  <2>1. nextSequence <= a[i].sequence /\ a[i].sequence < nextSequence + n
    BY <1>1, <1>2
  <2>2. ASSUME NEW o \in rows
        PROVE  o.sequence < a[i].sequence /\ (o.id = a[i].id => o.revision < a[i].revision)
    <3>1. o \in Records /\ o.sequence < nextSequence /\ a[i] \in Records
      BY <1>2 DEF EventInv, EventTypeOK
    <3>2. o.sequence \in Nat /\ o.revision \in Nat /\ o.id \in Ids /\ a[i].sequence \in Nat /\ a[i].revision \in Nat
      BY <3>1, RowsAreRecords
    <3>3. o.sequence < a[i].sequence
      <4> DEFINE x == o.sequence  y == a[i].sequence
      <4>1. x \in Nat /\ y \in Nat /\ x < nextSequence /\ nextSequence <= y
        BY <2>1, <3>1, <3>2
      <4> HIDE DEF x, y
      <4>2. x < y
        BY <1>1, <4>1
      <4> QED
        BY <4>2 DEF x, y
    <3>4. ASSUME o.id = a[i].id PROVE o.revision < a[i].revision
      <4>1. Latest(o.id) \in Nat /\ o.revision <= Latest(o.id)
        BY <3>2, LatestIsKnown DEF LatestKnown
      <4>2. Latest(o.id) < a[i].revision
        BY <1>2, <3>4, <4>1
      <4> QED
        BY <3>2, <4>1, <4>2
    <3> QED
      BY <3>3, <3>4
  <2> QED
    BY <2>1, <2>2
<1>6. ASSUME NEW i \in 1..n, NEW j \in 1..n, a[i] # a[j]
      PROVE  /\ a[i].sequence # a[j].sequence
             /\ a[i].id = a[j].id /\ a[i].sequence < a[j].sequence => a[i].revision < a[j].revision
  <2>1. i # j /\ i \in Nat /\ j \in Nat
    BY <1>1, <1>6
  <2>2. a[i].sequence # a[j].sequence /\ (a[i].sequence < a[j].sequence => i < j)
    BY <1>1, <1>2, <2>1
  <2>3. ASSUME a[i].id = a[j].id, i < j PROVE a[i].revision < a[j].revision
    <3>1. i \in 1..(j - 1) /\ batch[i].id = a[j].id
      BY <1>2, <2>1, <2>3
    <3> QED
      BY <1>2, <3>1
  <2> QED
    BY <2>2, <2>3
<1>7. ASSUME NEW e \in ToSet(batch)
      PROVE  \E r \in RowsOf(batch) : r.id = e.id /\ r.onset = e.onset /\ r.lifecycle = e.lifecycle
  <2>1. PICK i \in 1..n : batch[i] = e
    <3>1. DOMAIN batch = 1..Len(batch)
      OBVIOUS
    <3> QED
      BY <3>1 DEF ToSet, n
  <2> QED
    BY <1>2, <2>1
<1>8. ASSUME NEW r \in RowsOf(batch)
      PROVE  /\ nextSequence <= r.sequence /\ r.sequence < nextSequence + n
             /\ \A o \in rows : o.sequence < r.sequence /\ (o.id = r.id => o.revision < r.revision)
  <2>1. PICK i \in 1..n : a[i] = r
    BY <1>2
  <2> QED
    BY <1>5, <2>1
<1>9. ASSUME NEW r \in RowsOf(batch), NEW s \in RowsOf(batch), r # s
      PROVE  /\ r.sequence # s.sequence
             /\ r.id = s.id /\ r.sequence < s.sequence => r.revision < s.revision
  <2>1. PICK i \in 1..n : a[i] = r
    BY <1>2
  <2>2. PICK j \in 1..n : a[j] = s
    BY <1>2
  <2> QED
    BY <1>6, <1>9, <2>1, <2>2
<1> QED
  BY <1>3, <1>4, <1>7, <1>8, <1>9 DEF n

\* A latest row of the batch: it passes all others of its event.
LEMMA NewLatest ==
  ASSUME EventInv, EventsAssumption, NEW batch \in Seq(Events), NEW q \in RowsOf(batch)
  PROVE  \E r \in RowsOf(batch) : r.id = q.id /\ IsLatest(r, rows \cup RowsOf(batch))
<1> DEFINE a == Assigned(batch)
           n == Len(batch)
           mine == {i \in 1..n : a[i].id = q.id}
<1>1. n \in Nat
  OBVIOUS
<1>2. RowsOf(batch) = {a[i] : i \in 1..n}
  BY AssignedAre
<1>3. \A i \in 1..n : a[i] \in Records /\ a[i].sequence = nextSequence + i - 1
  BY AssignedAre
<1> HIDE DEF a, n
<1>4. mine \subseteq 0..n /\ mine # {}
  BY <1>1, <1>2
<1>5. PICK i \in mine : \A j \in mine : j <= i
  <2> HIDE DEF mine
  <2> QED
    BY <1>1, <1>4, LargestNumber
<1>6. i \in 1..n /\ a[i].id = q.id /\ a[i] \in RowsOf(batch)
  BY <1>2, <1>5
<1>7. ASSUME NEW o \in rows \cup RowsOf(batch), o.id = a[i].id PROVE o.revision <= a[i].revision
  <2>1. a[i].revision \in Nat /\ o.revision \in Nat
    <3>1. o \in Records
      BY <1>2, <1>3, <1>7 DEF EventInv, EventTypeOK
    <3> QED
      BY <1>3, <1>6, <3>1, RowsAreRecords
  <2>2. CASE o \in rows
    <3>1. o.revision < a[i].revision
      BY <1>6, <1>7, <2>2, NewRows
    <3> QED
      BY <2>1, <3>1
  <2>3. CASE o \in RowsOf(batch)
    <3>1. PICK j \in 1..n : a[j] = o
      BY <1>2, <2>3
    <3>2. j \in mine /\ j <= i
      BY <1>5, <1>6, <1>7, <3>1
    <3>3. CASE a[j] = a[i]
      BY <2>1, <3>1, <3>3
    <3>4. CASE a[j] # a[i]
      <4>1. a[j].sequence # a[i].sequence /\ (a[j].sequence < a[i].sequence => a[j].revision < a[i].revision)
        BY <1>6, <1>7, <2>3, <3>1, <3>4, NewRows
      <4>2. a[j].sequence = nextSequence + j - 1 /\ a[i].sequence = nextSequence + i - 1
        BY <1>3, <1>6
      <4>3. nextSequence \in Nat /\ j \in Nat /\ i \in Nat
        BY <1>1, <1>6 DEF EventInv, EventTypeOK
      <4>4. a[j].sequence < a[i].sequence
        BY <3>2, <4>1, <4>2, <4>3
      <4> QED
        BY <2>1, <3>1, <4>1, <4>4
    <3> QED
      BY <3>3, <3>4
  <2> QED
    BY <1>7, <2>2, <2>3
<1> QED
  BY <1>6, <1>7 DEF IsLatest

\* The upsert leaves the revision of each event that no other one passes.
LEMMA UpsertIs ==
  ASSUME EventInv, EventsAssumption, NEW batch \in Seq(Events)
  PROVE  LET all == rows \cup RowsOf(batch)
             latest == {r \in all : IsLatest(r, all)}
         IN  /\ Upsert(Assigned(batch)) = latest
             /\ {r.id : r \in all} = {r.id : r \in latest}
<1> DEFINE new == RowsOf(batch)
           all == rows \cup new
           known == materialized \cup new
           latest == {r \in all : IsLatest(r, all)}
<1>1. new \subseteq Records /\ rows \subseteq Records /\ materialized \subseteq rows
  BY NewRows DEF EventInv, EventTypeOK
<1>2. \A r \in all : r.id \in Ids /\ r.revision \in Nat
  BY <1>1, RowsAreRecords
<1>3. \A m \in materialized : \A o \in rows : o.id = m.id => o.revision <= m.revision
  BY DEF EventInv, IsLatest
<1>4. \A o \in rows : \E m \in materialized : m.id = o.id
  BY DEF EventInv
<1>5. \A r : r \in Upsert(Assigned(batch)) <=>
             r \in known /\ \A o \in known : o.id = r.id => o.revision <= r.revision
  <2> DEFINE sub(id) == {r \in known : r.id = id}
             top(id) == {r \in sub(id) : \A o \in sub(id) : o.revision <= r.revision}
  <2>1. Upsert(Assigned(batch)) = UNION {top(id) : id \in Ids}
    BY DEF Upsert, RowsOf
  <2>2. \A r : r \in Upsert(Assigned(batch)) <=> \E id \in Ids : r \in top(id)
    BY <2>1
  <2>3. \A r, id : r \in top(id) <=> r \in known /\ r.id = id
                                     /\ \A o \in known : o.id = id => o.revision <= r.revision
    OBVIOUS
  <2>4. \A r \in known : r.id \in Ids
    BY <1>1, <1>2
  <2> HIDE DEF sub, top, known
  <2> QED
    BY <2>2, <2>3, <2>4
<1>6. ASSUME NEW r \in latest PROVE r \in Upsert(Assigned(batch))
  <2>1. r \in all /\ \A o \in all : o.id = r.id => o.revision <= r.revision
    BY DEF IsLatest
  <2>2. r \in known
    BY <2>1 DEF EventInv, IsLatest
  <2> QED
    BY <1>1, <1>5, <2>1, <2>2
<1>7. ASSUME NEW r, r \in Upsert(Assigned(batch)) PROVE r \in latest
  <2>1. r \in known /\ \A o \in known : o.id = r.id => o.revision <= r.revision
    BY <1>5, <1>7
  <2>2. r \in all
    BY <1>1, <2>1
  <2>3. ASSUME NEW o \in all, o.id = r.id PROVE o.revision <= r.revision
    <3>1. CASE o \in new
      BY <2>1, <2>3, <3>1
    <3>2. CASE o \in rows
      <4>1. PICK m \in materialized : m.id = o.id
        BY <1>4, <3>2
      <4>2. o.revision <= m.revision /\ m.revision <= r.revision
        BY <1>3, <2>1, <2>3, <3>2, <4>1
      <4>3. o.revision \in Nat /\ m.revision \in Nat /\ r.revision \in Nat
        BY <1>1, <1>2, <2>2, <3>2
      <4> HIDE DEF all, known, new
      <4> QED
        BY <4>2, <4>3
    <3> QED
      BY <2>3, <3>1, <3>2
  <2> QED
    BY <2>2, <2>3 DEF IsLatest
<1>8. Upsert(Assigned(batch)) = latest
  <2> HIDE DEF latest
  <2> QED
    BY <1>6, <1>7
<1>9. ASSUME NEW o \in all PROVE \E r \in latest : r.id = o.id
  <2>1. CASE \E q \in new : q.id = o.id
    <3>1. PICK q \in new : q.id = o.id
      BY <2>1
    <3>2. PICK r \in new : r.id = q.id /\ IsLatest(r, all)
      BY NewLatest
    <3> QED
      BY <3>1, <3>2
  <2>2. CASE ~ \E q \in new : q.id = o.id
    <3>1. PICK m \in materialized : m.id = o.id
      BY <1>4, <1>9, <2>2
    <3>2. IsLatest(m, all)
      BY <1>3, <2>2, <3>1 DEF IsLatest
    <3> QED
      BY <1>1, <3>1, <3>2
  <2> QED
    BY <2>1, <2>2
<1> QED
  BY <1>8, <1>9

LEMMA AppendKeepsEvents ==
  ASSUME EventInv, EventsAssumption, NEW batch \in Seq(Events), AppendEvents(batch)
  PROVE  EventInv'
<1> DEFINE new == RowsOf(batch)
<1>1. /\ evidence' = evidence \cup new /\ rows' = rows \cup new
      /\ materialized' = Upsert(Assigned(batch))
      /\ nextSequence' = nextSequence + Len(batch) /\ page' = page
  BY DEF AppendEvents, RowsOf
<1>2. /\ new \subseteq Records /\ IsFiniteSet(new)
      /\ \A r \in new :
            /\ nextSequence <= r.sequence /\ r.sequence < nextSequence + Len(batch)
            /\ \A o \in rows : o.sequence < r.sequence /\ (o.id = r.id => o.revision < r.revision)
      /\ \A r, s \in new :
            r # s => /\ r.sequence # s.sequence
                     /\ r.id = s.id /\ r.sequence < s.sequence => r.revision < s.revision
  BY NewRows
<1>3. /\ materialized' = {r \in rows' : IsLatest(r, rows')}
      /\ {r.id : r \in rows'} = {r.id : r \in materialized'}
  BY <1>1, UpsertIs
<1> HIDE DEF new
<1>4. /\ evidence \subseteq Records /\ rows \subseteq Records /\ nextSequence \in Nat \ {0}
      /\ page.cursor \in Nat /\ page.cursor < nextSequence /\ ToSet(page.seen) \subseteq rows
      /\ page.seen \in Seq(rows) /\ rows \subseteq evidence
      /\ \A r \in rows : r.sequence < nextSequence
  BY DEF EventInv, EventTypeOK, EvidenceHoldsIndex
<1>5. Len(batch) \in Nat
  OBVIOUS
<1>6. \A r \in rows \cup new : r.sequence \in Nat /\ r.revision \in Nat
  BY <1>2, <1>4, RowsAreRecords
<1>7. IsFiniteSet(rows')
  BY <1>1, <1>2, FS_Union DEF EventInv
<1>8. EventTypeOK'
  <2>1. nextSequence' \in Nat \ {0}
    BY <1>1, <1>4, <1>5
  <2> QED
    BY <1>1, <1>2, <1>3, <1>4, <2>1 DEF EventTypeOK
<1>9. RevisionsAdvance'
  <2> SUFFICES ASSUME NEW r \in rows', NEW s \in rows', r # s
               PROVE  /\ r.sequence # s.sequence
                      /\ r.id = s.id /\ r.sequence < s.sequence => r.revision < s.revision
    BY DEF RevisionsAdvance
  <2>1. CASE r \in rows /\ s \in rows
    BY <2>1 DEF EventInv, RevisionsAdvance
  <2>2. CASE r \in new /\ s \in new
    BY <1>2, <2>2
  <2>3. CASE r \in rows /\ s \in new
    <3>1. r.sequence < s.sequence /\ (r.id = s.id => r.revision < s.revision)
      BY <1>2, <2>3
    <3> QED
      BY <1>6, <2>3, <3>1
  <2>4. CASE r \in new /\ s \in rows
    <3>1. s.sequence < r.sequence
      BY <1>2, <2>4
    <3>2. s.sequence \in Nat /\ r.sequence \in Nat
      BY <1>6, <2>4
    <3> QED
      BY <3>1, <3>2
  <2> QED
    BY <1>1, <2>1, <2>2, <2>3, <2>4
<1>10. EvidenceHoldsIndex'
  BY <1>1, <1>4 DEF EvidenceHoldsIndex
<1>11. \A r \in rows' : r.sequence < nextSequence'
  <2> SUFFICES ASSUME NEW r \in rows' PROVE r.sequence < nextSequence + Len(batch)
    BY <1>1
  <2>1. CASE r \in new
    BY <1>2, <2>1
  <2>2. CASE r \in rows
    <3>1. r.sequence \in Nat /\ r.sequence < nextSequence
      BY <1>4, <1>6, <2>2
    <3> QED
      BY <1>4, <1>5, <3>1
  <2> QED
    BY <1>1, <2>1, <2>2
<1>12. page'.cursor < nextSequence' /\ page'.seen \in Seq(rows')
  <2>1. page.cursor < nextSequence + Len(batch)
    BY <1>4, <1>5
  <2>2. page.seen \in Seq(rows \cup new)
    BY <1>4
  <2> QED
    BY <1>1, <2>1, <2>2
<1>13. HistoryHasNoGaps'
  <2>1. ToSet(page.seen) = {r \in rows : r.sequence <= page.cursor} /\ InSequence(page.seen)
    BY DEF EventInv, HistoryHasNoGaps
  <2>2. \A r \in new : ~ (r.sequence <= page.cursor)
    BY <1>2, <1>4, <1>6
  <2> QED
    BY <1>1, <2>1, <2>2 DEF HistoryHasNoGaps
<1> QED
  BY <1>3, <1>7, <1>8, <1>9, <1>10, <1>11, <1>12, <1>13 DEF EventInv

LEMMA FailedAppendKeepsEvents ==
  ASSUME EventInv, EventsAssumption, NEW batch \in Seq(Events),
         AppendLosesEvidence(batch) \/ AppendLosesIndex(batch)
  PROVE  EventInv' /\ rows' = rows
<1>1. /\ UNCHANGED <<rows, materialized, page>>
      /\ nextSequence' = nextSequence + Len(batch) \/ nextSequence' = nextSequence
      /\ evidence \subseteq evidence' /\ evidence' \subseteq evidence \cup RowsOf(batch)
  <2>1. CASE AppendLosesIndex(batch)
    BY <2>1 DEF AppendLosesIndex, RowsOf
  <2>2. CASE AppendLosesEvidence(batch)
    <3>1. PICK k \in 1..Len(batch) :
             evidence' = evidence \cup {Assigned(batch)[i] : i \in {j \in 1..Len(batch) : WrittenBefore(batch, j, k)}}
      BY <2>2 DEF AppendLosesEvidence
    <3>2. RowsOf(batch) = {Assigned(batch)[i] : i \in 1..Len(batch)}
      BY AssignedAre
    <3> QED
      BY <2>2, <3>1, <3>2 DEF AppendLosesEvidence
  <2> QED
    BY <2>1, <2>2
<1>2. /\ evidence \subseteq Records /\ rows \subseteq Records /\ nextSequence \in Nat \ {0}
      /\ page.cursor \in Nat /\ page.cursor < nextSequence /\ rows \subseteq evidence
      /\ \A r \in rows : r.sequence < nextSequence
  BY DEF EventInv, EventTypeOK, EvidenceHoldsIndex
<1>3. RowsOf(batch) \subseteq Records
  BY NewRows
<1>4. Len(batch) \in Nat
  OBVIOUS
<1>5. nextSequence' \in Nat \ {0} /\ nextSequence <= nextSequence'
  BY <1>1, <1>2, <1>4
<1>6. \A r \in rows : r.sequence < nextSequence'
  <2> TAKE r \in rows
  <2>1. r.sequence \in Nat /\ r.sequence < nextSequence
    BY <1>2, RowsAreRecords
  <2> QED
    BY <1>2, <1>5, <2>1
<1>7. page.cursor < nextSequence'
  BY <1>2, <1>5
<1>8. EventTypeOK' /\ EvidenceHoldsIndex'
  BY <1>1, <1>2, <1>3, <1>5 DEF EventInv, EventTypeOK, EvidenceHoldsIndex
<1>9. RevisionsAdvance' /\ HistoryHasNoGaps'
  BY <1>1 DEF EventInv, RevisionsAdvance, HistoryHasNoGaps
<1> QED
  BY <1>1, <1>6, <1>7, <1>8, <1>9 DEF EventInv

\* An answer of the history: the next rows, all of them up to its last.
LEMMA NextRowsFollow ==
  ASSUME EventInv, EventsAssumption, NEW next \in SetToSeqs(NextRows), next # << >>, InSequence(next)
  PROVE  /\ next \in Seq(rows) /\ Len(next) \in Nat /\ Last(next) \in rows
         /\ page.cursor < Last(next).sequence
         /\ ToSet(next) = {r \in rows : page.cursor < r.sequence /\ r.sequence <= Last(next).sequence}
<1> DEFINE n == Cardinality(NextRows)
           upto(r) == {o \in rows : page.cursor < o.sequence /\ o.sequence <= r.sequence}
           last == Last(next)
<1>1. IsFiniteSet(NextRows) /\ NextRows \subseteq rows
  <2>1. NextRows \subseteq rows
    BY DEF NextRows
  <2> QED
    BY <2>1, FS_Subset DEF EventInv
<1>2. n \in Nat
  BY <1>1, FS_CardinalityType
<1>3. next \in [1..n -> NextRows] /\ \A i, j \in 1..n : i # j => next[i] # next[j]
  BY DEF SetToSeqs
<1>4. Cardinality(1..n) = n
  BY <1>2, FS_Interval
<1> HIDE DEF n
<1>5. next \in Injection(1..n, NextRows)
  BY <1>3 DEF Injection, IsInjective
<1>6. next \in Surjection(1..n, NextRows)
  BY <1>1, <1>4, <1>5, FS_Injection DEF n
<1>7. /\ next \in Seq(rows) /\ Len(next) = n /\ DOMAIN next = 1..n
      /\ \A i \in 1..n : next[i] \in NextRows
  BY <1>1, <1>2, <1>3
<1>8. ToSet(next) = NextRows
  BY <1>6, <1>7 DEF Surjection, ToSet
<1>9. n \in 1..n
  BY <1>2, <1>7
<1>10. last = next[n] /\ last \in NextRows
  BY <1>7, <1>9 DEF Last
<1>11. \A r \in rows : r.sequence \in Nat
  BY RowsAreRecords DEF EventInv, EventTypeOK
<1>12. last \in rows /\ page.cursor < last.sequence /\ Cardinality(upto(last)) <= PageLimit
  BY <1>10 DEF NextRows
<1>13. ASSUME NEW r \in NextRows
       PROVE  r \in rows /\ page.cursor < r.sequence /\ r.sequence <= last.sequence
  <2>1. PICK i \in 1..n : next[i] = r
    BY <1>7, <1>8 DEF ToSet
  <2>2. CASE i = n
    BY <1>10, <1>11, <1>12, <2>1, <2>2
  <2>3. CASE i # n
    <3>1. i < n
      BY <1>2, <2>3
    <3>2. r.sequence < last.sequence
      BY <1>7, <1>9, <1>10, <2>1, <3>1 DEF InSequence
    <3>3. r \in rows /\ page.cursor < r.sequence
      BY DEF NextRows
    <3> QED
      BY <1>11, <1>12, <3>2, <3>3
  <2> QED
    BY <2>2, <2>3
<1>14. ASSUME NEW r \in rows, page.cursor < r.sequence, r.sequence <= last.sequence
       PROVE  r \in NextRows
  <2>1. upto(r) \subseteq upto(last)
    <3> SUFFICES ASSUME NEW o \in rows, o.sequence <= r.sequence PROVE o.sequence <= last.sequence
      OBVIOUS
    <3>1. o.sequence \in Nat /\ r.sequence \in Nat /\ last.sequence \in Nat
      BY <1>11, <1>12
    <3> HIDE DEF last
    <3> QED
      BY <1>14, <3>1
  <2>2. IsFiniteSet(upto(last))
    <3>1. upto(last) \subseteq rows
      OBVIOUS
    <3> QED
      BY <3>1, FS_Subset DEF EventInv
  <2>3. /\ Cardinality(upto(r)) <= Cardinality(upto(last))
        /\ Cardinality(upto(r)) \in Nat /\ Cardinality(upto(last)) \in Nat
    <3> HIDE DEF upto
    <3>1. IsFiniteSet(upto(r)) /\ Cardinality(upto(r)) <= Cardinality(upto(last))
      BY <2>1, <2>2, FS_Subset
    <3> QED
      BY <2>2, <3>1, FS_CardinalityType
  <2>4. Cardinality(upto(r)) <= PageLimit
    <3> HIDE DEF upto, last
    <3> QED
      BY <1>12, <2>3 DEF EventsAssumption
  <2> QED
    BY <1>14, <2>4 DEF NextRows
<1> QED
  <2>1. NextRows = {r \in rows : page.cursor < r.sequence /\ r.sequence <= last.sequence}
    <3> HIDE DEF last
    <3> QED
      BY <1>13, <1>14
  <2> QED
    BY <1>2, <1>7, <1>8, <1>12, <2>1

LEMMA ReadKeepsEvents ==
  ASSUME EventInv, EventsAssumption, ReadHistory
  PROVE  EventInv'
<1>1. PICK next \in SetToSeqs(NextRows) :
         /\ next # << >> /\ InSequence(next)
         /\ page' = [cursor |-> Last(next).sequence, seen |-> page.seen \o next]
         /\ UNCHANGED <<evidence, rows, materialized, nextSequence>>
  BY DEF ReadHistory
<1> DEFINE last == Last(next).sequence
           seen == page.seen
           all == seen \o next
<1>2. /\ next \in Seq(rows) /\ Len(next) \in Nat /\ Last(next) \in rows /\ page.cursor < last
      /\ ToSet(next) = {r \in rows : page.cursor < r.sequence /\ r.sequence <= last}
  BY <1>1, NextRowsFollow
<1>3. /\ seen \in Seq(rows) /\ page.cursor \in Nat /\ nextSequence \in Nat
      /\ ToSet(seen) = {r \in rows : r.sequence <= page.cursor} /\ InSequence(seen)
  BY DEF EventInv, EventTypeOK, HistoryHasNoGaps
<1>4. \A r \in rows : r.sequence \in Nat /\ r.sequence < nextSequence
  BY RowsAreRecords DEF EventInv, EventTypeOK
<1>5. page'.cursor = last /\ page'.seen = all /\ last \in Nat /\ last < nextSequence
  BY <1>1, <1>2, <1>4
<1> HIDE DEF last, seen, all
<1>6. /\ all \in Seq(rows) /\ Len(seen) \in Nat /\ Len(all) = Len(seen) + Len(next)
      /\ \A i \in 1..(Len(seen) + Len(next)) :
            all[i] = IF i <= Len(seen) THEN seen[i] ELSE next[i - Len(seen)]
  BY <1>2, <1>3, ConcatProperties DEF all
<1>7. /\ \A i \in 1..Len(seen) : seen[i] \in ToSet(seen)
      /\ \A i \in 1..Len(next) : next[i] \in ToSet(next)
      /\ \A i \in 1..Len(all) : all[i] \in ToSet(all)
      /\ ToSet(seen) \subseteq ToSet(all) /\ ToSet(next) \subseteq ToSet(all)
      /\ ToSet(all) \subseteq ToSet(seen) \cup ToSet(next)
  <2>1. DOMAIN seen = 1..Len(seen) /\ DOMAIN next = 1..Len(next) /\ DOMAIN all = 1..Len(all)
    BY <1>2, <1>3, <1>6
  <2>2. \A i \in 1..Len(seen) : i \in 1..Len(all) /\ all[i] = seen[i]
    BY <1>2, <1>6
  <2>3. \A i \in 1..Len(next) : Len(seen) + i \in 1..Len(all) /\ all[Len(seen) + i] = next[i]
    <3> TAKE i \in 1..Len(next)
    <3>1. Len(seen) + i \in 1..(Len(seen) + Len(next)) /\ ~ (Len(seen) + i <= Len(seen))
          /\ (Len(seen) + i) - Len(seen) = i
      BY <1>2, <1>6
    <3> QED
      BY <1>6, <3>1
  <2>4. \A i \in 1..Len(all) : \/ i \in 1..Len(seen) /\ all[i] = seen[i]
                               \/ i - Len(seen) \in 1..Len(next) /\ all[i] = next[i - Len(seen)]
    BY <1>2, <1>6
  <2> QED
    BY <2>1, <2>2, <2>3, <2>4 DEF ToSet
<1>8. ToSet(all) = {r \in rows : r.sequence <= last}
  <2>1. \A r \in rows : r.sequence <= last <=> r.sequence <= page.cursor
                                               \/ (page.cursor < r.sequence /\ r.sequence <= last)
    BY <1>2, <1>3, <1>4, <1>5
  <2> QED
    BY <1>2, <1>3, <1>7, <2>1
<1>9. InSequence(all)
  <2> SUFFICES ASSUME NEW i \in 1..Len(all), NEW j \in 1..Len(all), i < j
               PROVE  all[i].sequence < all[j].sequence
    BY DEF InSequence
  <2>1. CASE j <= Len(seen)
    <3>1. i \in 1..Len(seen) /\ j \in 1..Len(seen) /\ all[i] = seen[i] /\ all[j] = seen[j]
      BY <1>2, <1>6, <2>1
    <3> QED
      BY <1>3, <3>1 DEF InSequence
  <2>2. CASE ~ (i <= Len(seen))
    <3>1. /\ i - Len(seen) \in 1..Len(next) /\ j - Len(seen) \in 1..Len(next)
          /\ i - Len(seen) < j - Len(seen)
          /\ all[i] = next[i - Len(seen)] /\ all[j] = next[j - Len(seen)]
      BY <1>2, <1>6, <2>2
    <3> QED
      BY <1>1, <3>1 DEF InSequence
  <2>3. CASE i <= Len(seen) /\ ~ (j <= Len(seen))
    <3>1. /\ i \in 1..Len(seen) /\ j - Len(seen) \in 1..Len(next)
          /\ all[i] = seen[i] /\ all[j] = next[j - Len(seen)]
      BY <1>2, <1>6, <2>3
    <3>2. all[i] \in rows /\ all[i].sequence <= page.cursor /\ all[j] \in rows /\ page.cursor < all[j].sequence
      BY <1>2, <1>3, <1>7, <3>1
    <3> QED
      BY <1>3, <1>4, <3>2
  <2> QED
    BY <2>1, <2>2, <2>3
<1>10. HistoryHasNoGaps'
  BY <1>1, <1>5, <1>8, <1>9 DEF HistoryHasNoGaps
<1>11. EventTypeOK'
  BY <1>1, <1>5, <1>8 DEF EventInv, EventTypeOK
<1>12. page'.seen \in Seq(rows') /\ page'.cursor < nextSequence'
  BY <1>1, <1>5, <1>6
<1>13. RevisionsAdvance' /\ EvidenceHoldsIndex'
  BY <1>1 DEF EventInv, RevisionsAdvance, EvidenceHoldsIndex
<1> QED
  BY <1>1, <1>10, <1>11, <1>12, <1>13 DEF EventInv

LEMMA EventsAgreeHolds == ASSUME EventInv PROVE EventsAgree
<1>1. \A r \in rows : r \in Records /\ r.id \in Ids /\ r.revision \in Nat
  BY RowsAreRecords DEF EventInv, EventTypeOK
<1>2. materialized = {r \in rows : IsLatest(r, rows)}
  BY DEF EventInv
<1>3. ASSUME NEW r \in rows PROVE r.revision = Latest(r.id) <=> r \in materialized
  <2>1. PICK m \in materialized : m.id = r.id
    BY DEF EventInv
  <2>2. Latest(r.id) = m.revision
    BY <2>1, LatestIs
  <2>3. CASE r \in materialized
    BY <2>3, LatestIs
  <2>4. CASE r.revision = m.revision
    <3>1. \A o \in rows : o.id = r.id => o.revision <= r.revision
      BY <1>2, <2>1, <2>4 DEF IsLatest
    <3> QED
      BY <1>2, <1>3, <2>2, <2>4, <3>1 DEF IsLatest
  <2> QED
    BY <2>2, <2>3, <2>4
<1>4. LatestCommitted = {r \in materialized : r.lifecycle = "committed"}
  BY <1>2, <1>3 DEF LatestCommitted
<1>5. ASSUME NEW r \in materialized, NEW s \in materialized, r.id = s.id PROVE r = s
  <2> SUFFICES ASSUME r # s PROVE FALSE
    OBVIOUS
  <2>1. r \in rows /\ s \in rows /\ r.revision \in Nat /\ s.revision \in Nat
        /\ r.revision <= s.revision /\ s.revision <= r.revision
    BY <1>1, <1>2, <1>5 DEF IsLatest
  <2>2. r.sequence \in Nat /\ s.sequence \in Nat
    BY <1>1, <2>1, RowsAreRecords
  <2>3. r.sequence < s.sequence \/ s.sequence < r.sequence
    BY <2>1, <2>2 DEF EventInv, RevisionsAdvance
  <2>4. r.revision < s.revision \/ s.revision < r.revision
    BY <1>5, <2>1, <2>3 DEF EventInv, RevisionsAdvance
  <2> QED
    BY <2>1, <2>4
<1> QED
  BY <1>4, <1>5 DEF EventInv, EventsAgree, ViewAndExportAgree

LaneStates == [pc : {"idle", "reading", "decoded", "dead"}, done : Nat, end : Nat, batch : Seq(Events)]

IsStored(e) == \E r \in rows : r.id = e.id /\ r.onset = e.onset /\ r.lifecycle = e.lifecycle

\* What a lane found ends where it has read to; what is not stored of it is in
\* the lane's hands, behind its horizon.
LaneKnown(l) ==
    /\ horizon[l] <= lane[l].done
    /\ \A e \in emitted[l] : e.onset < horizon[l] => IsStored(e)
    /\ lane[l].pc \in {"idle", "reading"} =>
          horizon[l] = lane[l].done /\ \A e \in emitted[l] : e.onset < horizon[l]
    /\ lane[l].pc = "reading" => lane[l].done < lane[l].end
    /\ lane[l].pc = "decoded" =>
          \A e \in emitted[l] : /\ e.onset < lane[l].done
                                /\ horizon[l] <= e.onset => e \in ToSet(lane[l].batch)

LaneTypes ==
    /\ lane \in [Lanes -> LaneStates] /\ horizon \in [Lanes -> Nat]
    /\ emitted \in [Lanes -> SUBSET Events] /\ closed \in BOOLEAN

SessionInv == AudioInv /\ EventInv /\ LaneTypes /\ \A l \in Lanes : LaneKnown(l)

LEMMA EventInvInit == EventsAssumption /\ EventInit => EventInv
<1> SUFFICES ASSUME EventsAssumption, EventInit PROVE EventInv
  OBVIOUS
<1>1. IsFiniteSet(rows)
  BY FS_EmptySet DEF EventInit
<1>2. ToSet(page.seen) = {} /\ page.seen \in Seq(rows) /\ InSequence(page.seen)
  <2>1. page.seen = << >> /\ DOMAIN << >> = {} /\ Len(<< >>) = 0
    BY DEF EventInit
  <2>2. 1..0 = {}
    OBVIOUS
  <2> QED
    BY <2>1, <2>2 DEF ToSet, InSequence
<1> QED
  BY <1>1, <1>2
     DEF EventInit, EventInv, EventTypeOK, RevisionsAdvance, EvidenceHoldsIndex, HistoryHasNoGaps

LEMMA SessionInvInit == StoreInit => SessionInv
<1> SUFFICES ASSUME StoreInit PROVE SessionInv
  OBVIOUS
<1>1. AudioInv /\ EventInv
  BY AudioInvInit, EventInvInit, EventsAssumption DEF StoreInit
<1>2. Idle \in LaneStates /\ Idle.pc = "idle" /\ Idle.done = 0
  BY DEF Idle, LaneStates
<1>3. LaneTypes
  BY <1>2 DEF StoreInit, LaneTypes
<1>4. \A l \in Lanes : LaneKnown(l)
  BY <1>2 DEF StoreInit, LaneKnown
<1> QED
  BY <1>1, <1>3, <1>4 DEF SessionInv

LEMMA EventsRest == ASSUME EventInv, UNCHANGED eventVars PROVE EventInv' /\ rows' = rows
<1>1. UNCHANGED <<evidence, rows, materialized, nextSequence, page>>
  BY DEF eventVars
<1> QED
  BY <1>1 DEF EventInv, EventTypeOK, RevisionsAdvance, EvidenceHoldsIndex, HistoryHasNoGaps

LEMMA LanesRest ==
  ASSUME SessionInv, UNCHANGED <<lane, horizon, emitted>>, closed' \in BOOLEAN, rows \subseteq rows'
  PROVE  LaneTypes' /\ \A l \in Lanes : LaneKnown(l)'
<1>1. LaneTypes'
  BY DEF SessionInv, LaneTypes
<1>2. ASSUME NEW l \in Lanes PROVE LaneKnown(l)'
  <2>1. \A e : IsStored(e) => IsStored(e)'
    BY DEF IsStored
  <2>2. LaneKnown(l)
    BY DEF SessionInv
  <2> QED
    BY <2>1, <2>2 DEF LaneKnown
<1> QED
  BY <1>1, <1>2

\* The other lanes: rows are only added.
LEMMA OthersRest ==
  ASSUME SessionInv, NEW l \in Lanes, NEW o \in Lanes, o # l, rows \subseteq rows',
         lane'[o] = lane[o], horizon'[o] = horizon[o], emitted'[o] = emitted[o]
  PROVE  LaneKnown(o)'
<1>1. \A e : IsStored(e) => IsStored(e)'
  BY DEF IsStored
<1>2. LaneKnown(o)
  BY DEF SessionInv
<1> QED
  BY <1>1, <1>2 DEF LaneKnown

LEMMA AudioRests == ASSUME AudioInv, UNCHANGED audioVars PROVE AudioInv'
BY AudioInvStep

LEMMA LaneReadsStep == ASSUME SessionInv, NEW l \in Lanes, LaneReads(l) PROVE SessionInv'
<1>1. PICK end \in (lane[l].done + 1)..head :
         /\ ReadRing(lane[l].done, end) \/ ReadFiles(lane[l].done, end)
         /\ lane' = [lane EXCEPT ![l].pc = IF reader'.pc = "idle" THEN "dead" ELSE "reading",
                                 ![l].end = end]
  BY DEF LaneReads
<1>2. /\ lane[l].pc = "idle" /\ UNCHANGED <<eventVars, horizon, emitted, closed>>
      /\ lane \in [Lanes -> LaneStates] /\ lane[l] \in LaneStates /\ lane[l].done \in Nat /\ head \in Nat
  BY DEF LaneReads, SessionInv, LaneTypes, LaneStates, AudioInv, AudioTypeOK
<1>3. end \in Nat /\ lane[l].done < end
  BY <1>2
<1>4. AudioInv'
  BY <1>1, <1>2, <1>3, ReadRingStep, ReadFilesStep DEF SessionInv
<1>5. EventInv' /\ rows' = rows
  BY <1>2, EventsRest DEF SessionInv
<1>6. /\ lane'[l].pc \in {"dead", "reading"} /\ lane'[l].done = lane[l].done /\ lane'[l].end = end
      /\ lane'[l] \in LaneStates
  BY <1>1, <1>2, <1>3 DEF LaneStates
<1>7. \A o \in Lanes : o # l => lane'[o] = lane[o]
  BY <1>1, <1>2
<1>8. LaneTypes'
  <2>1. lane' \in [Lanes -> LaneStates]
    BY <1>1, <1>2, <1>6, <1>7
  <2> QED
    BY <1>2, <2>1 DEF SessionInv, LaneTypes
<1>9. LaneKnown(l)'
  <2>1. LaneKnown(l)
    BY DEF SessionInv
  <2>2. \A e : IsStored(e)' <=> IsStored(e)
    BY <1>5 DEF IsStored
  <2> QED
    BY <1>2, <1>3, <1>6, <2>1, <2>2 DEF LaneKnown
<1>10. ASSUME NEW o \in Lanes PROVE LaneKnown(o)'
  BY <1>2, <1>5, <1>7, <1>9, OthersRest
<1> QED
  BY <1>4, <1>5, <1>8, <1>10 DEF SessionInv

LEMMA BatchesAre ==
  ASSUME NEW l \in Lanes, NEW batch \in Batches(l)
  PROVE  batch \in Seq(Events) /\ \A e \in ToSet(batch) : e \in Events /\ Within(l, e)
<1>1. PICK m \in 0..MaxBatch : batch \in [1..m -> Found(l)]
  BY DEF Batches, BoundedSeq, SeqOf
<1>2. m \in Nat
  BY BatchAssumption
<1>3. Found(l) \subseteq Events /\ \A e \in Found(l) : Within(l, e)
  BY DEF Found
<1>4. batch \in Seq(Events)
  BY <1>1, <1>2, <1>3
<1> QED
  BY <1>1, <1>3, <1>4 DEF ToSet

LEMMA LaneDecodesStep == ASSUME SessionInv, NEW l \in Lanes, LaneDecodes(l) PROVE SessionInv'
<1>1. PICK batch \in Batches(l) :
         /\ lane' = [lane EXCEPT ![l] = [pc |-> "decoded", done |-> @.end, end |-> @.end, batch |-> batch]]
         /\ emitted' = [emitted EXCEPT ![l] = @ \cup ToSet(batch)]
  BY DEF LaneDecodes
<1>2. /\ lane[l].pc = "reading" /\ TakeAudio /\ UNCHANGED <<eventVars, horizon, closed>>
      /\ lane \in [Lanes -> LaneStates] /\ lane[l] \in LaneStates
      /\ lane[l].done \in Nat /\ lane[l].end \in Nat /\ horizon[l] \in Nat
      /\ emitted \in [Lanes -> SUBSET Events]
  BY DEF LaneDecodes, SessionInv, LaneTypes, LaneStates
<1>3. AudioInv'
  BY <1>2, TakeAudioStep DEF SessionInv
<1>4. EventInv' /\ rows' = rows
  BY <1>2, EventsRest DEF SessionInv
<1>5. batch \in Seq(Events) /\ \A e \in ToSet(batch) : e \in Events /\ Within(l, e)
  BY BatchesAre
<1>6. /\ lane'[l] = [pc |-> "decoded", done |-> lane[l].end, end |-> lane[l].end, batch |-> batch]
      /\ emitted'[l] = emitted[l] \cup ToSet(batch)
      /\ \A o \in Lanes : o # l => lane'[o] = lane[o] /\ emitted'[o] = emitted[o]
  BY <1>1, <1>2
<1>7. lane'[l] \in LaneStates
  BY <1>2, <1>5, <1>6 DEF LaneStates
<1>8. LaneTypes'
  <2>1. lane' \in [Lanes -> LaneStates]
    BY <1>1, <1>2, <1>6, <1>7
  <2>2. emitted' \in [Lanes -> SUBSET Events]
    BY <1>1, <1>2, <1>5
  <2> QED
    BY <1>2, <2>1, <2>2 DEF SessionInv, LaneTypes
<1>9. LaneKnown(l)'
  <2>1. LaneKnown(l)
    BY DEF SessionInv
  <2>2. \A e : IsStored(e)' <=> IsStored(e)
    BY <1>4 DEF IsStored
  <2>3. horizon[l] = lane[l].done /\ lane[l].done < lane[l].end /\ \A e \in emitted[l] : e.onset < horizon[l]
    BY <1>2, <2>1 DEF LaneKnown
  <2>4. \A e \in emitted[l] \cup ToSet(batch) : e.onset \in Nat
    BY <1>2, <1>5, EventsAssumption
  <2>5. \A e \in ToSet(batch) : horizon[l] <= e.onset /\ e.onset < lane[l].end
    BY <1>5, <2>3 DEF Within
  <2>6. ASSUME NEW e \in emitted'[l]
        PROVE  /\ e.onset < lane[l].end
               /\ e.onset < horizon[l] => IsStored(e)
               /\ horizon[l] <= e.onset => e \in ToSet(batch)
    <3>1. CASE e \in ToSet(batch)
      BY <1>2, <2>4, <2>5, <3>1
    <3>2. CASE e \in emitted[l]
      <4>1. e.onset < horizon[l] /\ e.onset \in Nat
        BY <2>3, <2>4, <3>2
      <4>2. IsStored(e)
        BY <2>1, <3>2, <4>1 DEF LaneKnown
      <4> QED
        BY <1>2, <2>3, <4>1, <4>2
    <3> QED
      BY <1>6, <2>6, <3>1, <3>2
  <2>7. horizon' = horizon /\ lane'[l].pc = "decoded" /\ lane'[l].done = lane[l].end /\ lane'[l].batch = batch
    BY <1>2, <1>6
  <2>8. horizon[l] <= lane[l].end
    BY <1>2, <2>3
  <2> QED
    BY <2>2, <2>6, <2>7, <2>8 DEF LaneKnown
<1>10. ASSUME NEW o \in Lanes PROVE LaneKnown(o)'
  BY <1>2, <1>4, <1>6, <1>9, OthersRest
<1> QED
  BY <1>3, <1>4, <1>8, <1>10 DEF SessionInv

LEMMA ApplyUpdateStep == ASSUME SessionInv, NEW l \in Lanes, ApplyUpdate(l) PROVE SessionInv'
<1> DEFINE batch == lane[l].batch
<1>1. /\ lane[l].pc = "decoded" /\ UNCHANGED <<audioVars, emitted, closed>>
      /\ lane \in [Lanes -> LaneStates] /\ lane[l] \in LaneStates /\ batch \in Seq(Events)
      /\ lane[l].done \in Nat /\ horizon \in [Lanes -> Nat] /\ horizon[l] \in Nat
      /\ emitted \in [Lanes -> SUBSET Events]
  BY DEF ApplyUpdate, SessionInv, LaneTypes, LaneStates
<1>2. AudioInv'
  BY <1>1, AudioRests DEF SessionInv
<1>3. LaneKnown(l)
  BY DEF SessionInv
<1>4. CASE AppendEvents(batch) /\ horizon' = [horizon EXCEPT ![l] = lane[l].done]
           /\ lane' = [lane EXCEPT ![l].pc = "idle"]
  <2>1. EventInv'
    BY <1>1, <1>4, EventsAssumption, AppendKeepsEvents DEF SessionInv
  <2>2. rows' = rows \cup RowsOf(batch)
    BY <1>4 DEF AppendEvents, RowsOf
  <2>3. /\ lane'[l].pc = "idle" /\ lane'[l].done = lane[l].done /\ lane'[l] \in LaneStates
        /\ horizon'[l] = lane[l].done
        /\ \A o \in Lanes : o # l => lane'[o] = lane[o] /\ horizon'[o] = horizon[o]
    BY <1>1, <1>4 DEF LaneStates
  <2>4. LaneTypes'
    <3>1. lane' \in [Lanes -> LaneStates] /\ horizon' \in [Lanes -> Nat]
      BY <1>1, <1>4, <2>3
    <3> QED
      BY <1>1, <3>1 DEF SessionInv, LaneTypes
  <2>5. ASSUME NEW e \in emitted[l] PROVE e.onset < lane[l].done /\ IsStored(e)'
    <3>1. e.onset < lane[l].done /\ e.onset \in Nat
      BY <1>1, <1>3, EventsAssumption DEF LaneKnown
    <3>2. CASE e.onset < horizon[l]
      <4>1. IsStored(e)
        BY <1>3, <3>2 DEF LaneKnown
      <4> QED
        BY <2>2, <3>1, <4>1 DEF IsStored
    <3>3. CASE ~ (e.onset < horizon[l])
      <4>1. e \in ToSet(batch)
        BY <1>1, <1>3, <3>1, <3>3 DEF LaneKnown
      <4>2. \E r \in RowsOf(batch) : r.id = e.id /\ r.onset = e.onset /\ r.lifecycle = e.lifecycle
        BY <1>1, <4>1, EventsAssumption, NewRows DEF SessionInv
      <4> QED
        BY <2>2, <3>1, <4>2 DEF IsStored
    <3> QED
      BY <3>2, <3>3
  <2>6. LaneKnown(l)'
    BY <1>1, <2>3, <2>5 DEF LaneKnown
  <2>7. ASSUME NEW o \in Lanes PROVE LaneKnown(o)'
    BY <1>1, <2>2, <2>3, <2>6, OthersRest
  <2> QED
    BY <1>2, <2>1, <2>4, <2>7 DEF SessionInv
<1>5. CASE (AppendLosesEvidence(batch) \/ AppendLosesIndex(batch))
           /\ lane' = [lane EXCEPT ![l].pc = "dead"] /\ UNCHANGED horizon
  <2>1. EventInv' /\ rows' = rows
    BY <1>1, <1>5, EventsAssumption, FailedAppendKeepsEvents DEF SessionInv
  <2>2. /\ lane'[l].pc = "dead" /\ lane'[l].done = lane[l].done /\ lane'[l] \in LaneStates
        /\ \A o \in Lanes : o # l => lane'[o] = lane[o]
    BY <1>1, <1>5 DEF LaneStates
  <2>3. LaneTypes'
    <3>1. lane' \in [Lanes -> LaneStates]
      BY <1>1, <1>5, <2>2
    <3> QED
      BY <1>1, <1>5, <3>1 DEF SessionInv, LaneTypes
  <2>4. \A e : IsStored(e)' <=> IsStored(e)
    BY <2>1 DEF IsStored
  <2>5. LaneKnown(l)'
    BY <1>1, <1>3, <1>5, <2>2, <2>4 DEF LaneKnown
  <2>6. ASSUME NEW o \in Lanes PROVE LaneKnown(o)'
    BY <1>1, <1>5, <2>1, <2>2, <2>5, OthersRest
  <2> QED
    BY <1>2, <2>1, <2>3, <2>6 DEF SessionInv
<1> QED
  BY <1>4, <1>5 DEF ApplyUpdate

LEMMA RefuseUpdateStep == ASSUME SessionInv, NEW l \in Lanes, RefuseUpdate(l) PROVE SessionInv'
<1>1. /\ lane' = [lane EXCEPT ![l].pc = "dead"] /\ UNCHANGED <<audioVars, eventVars, horizon, emitted, closed>>
      /\ lane \in [Lanes -> LaneStates] /\ lane[l] \in LaneStates
  BY DEF RefuseUpdate, SessionInv, LaneTypes
<1>2. AudioInv' /\ EventInv' /\ rows' = rows
  BY <1>1, AudioRests, EventsRest DEF SessionInv
<1>3. /\ lane'[l].pc = "dead" /\ lane'[l].done = lane[l].done /\ lane'[l] \in LaneStates
      /\ \A o \in Lanes : o # l => lane'[o] = lane[o]
  BY <1>1 DEF LaneStates
<1>4. LaneTypes'
  <2>1. lane' \in [Lanes -> LaneStates]
    BY <1>1, <1>3
  <2> QED
    BY <1>1, <2>1 DEF SessionInv, LaneTypes
<1>5. LaneKnown(l)'
  <2>1. LaneKnown(l) /\ \A e : IsStored(e)' <=> IsStored(e)
    BY <1>2 DEF SessionInv, IsStored
  <2> QED
    BY <1>1, <1>3, <2>1 DEF LaneKnown
<1>6. ASSUME NEW o \in Lanes PROVE LaneKnown(o)'
  BY <1>1, <1>2, <1>3, <1>5, OthersRest
<1> QED
  BY <1>2, <1>4, <1>6 DEF SessionInv

LEMMA SessionInvStep == SessionInv /\ [StoreNext]_storeVars => SessionInv'
<1> SUFFICES ASSUME SessionInv, [StoreNext]_storeVars PROVE SessionInv'
  OBVIOUS
<1>1. CASE Source \/ FileStep \/ Settle
  <2>1. AudioNext /\ UNCHANGED <<eventVars, laneVars>>
    BY <1>1 DEF Source, FileStep, Settle, AudioNext, ReaderStep
  <2>2. AudioInv' /\ EventInv' /\ rows' = rows
    BY <2>1, AudioInvStep, EventsRest DEF SessionInv
  <2>3. closed' \in BOOLEAN /\ UNCHANGED <<lane, horizon, emitted>>
    BY <2>1 DEF laneVars, SessionInv, LaneTypes
  <2> QED
    BY <2>2, <2>3, LanesRest DEF SessionInv
<1>2. CASE AbortSession
  <2>1. AudioNext /\ UNCHANGED <<eventVars, lane, horizon, emitted>> /\ (closed' = closed \/ closed' = TRUE)
    BY <1>2 DEF AbortSession, AudioNext
  <2>2. AudioInv' /\ EventInv' /\ rows' = rows
    BY <2>1, AudioInvStep, EventsRest DEF SessionInv
  <2>3. closed' \in BOOLEAN
    BY <2>1 DEF SessionInv, LaneTypes
  <2> QED
    BY <2>1, <2>2, <2>3, LanesRest DEF SessionInv
<1>3. CASE CompleteSettlement
  <2>1. UNCHANGED <<audioVars, eventVars, lane, horizon, emitted>> /\ closed' = TRUE
    BY <1>3 DEF CompleteSettlement
  <2>2. AudioInv' /\ EventInv' /\ rows' = rows
    BY <2>1, AudioRests, EventsRest DEF SessionInv
  <2> QED
    BY <2>1, <2>2, LanesRest DEF SessionInv
<1>4. CASE Browse
  <2>1. ReadHistory /\ UNCHANGED <<audioVars, laneVars>> /\ rows' = rows
    BY <1>4 DEF Browse, ReadHistory
  <2>2. AudioInv' /\ EventInv'
    BY <2>1, AudioRests, EventsAssumption, ReadKeepsEvents DEF SessionInv
  <2>3. closed' \in BOOLEAN /\ UNCHANGED <<lane, horizon, emitted>>
    BY <2>1 DEF laneVars, SessionInv, LaneTypes
  <2> QED
    BY <2>1, <2>2, <2>3, LanesRest DEF SessionInv
<1>5. CASE UNCHANGED storeVars
  <2>1. UNCHANGED <<audioVars, eventVars, laneVars>>
    BY <1>5 DEF storeVars
  <2>2. AudioInv' /\ EventInv' /\ rows' = rows
    BY <2>1, AudioRests, EventsRest DEF SessionInv
  <2>3. closed' \in BOOLEAN /\ UNCHANGED <<lane, horizon, emitted>>
    BY <2>1 DEF laneVars, SessionInv, LaneTypes
  <2> QED
    BY <2>2, <2>3, LanesRest DEF SessionInv
<1>6. CASE \E l \in Lanes : LaneReads(l) \/ LaneDecodes(l) \/ ApplyUpdate(l) \/ RefuseUpdate(l)
  BY <1>6, LaneReadsStep, LaneDecodesStep, ApplyUpdateStep, RefuseUpdateStep
<1> QED
  BY <1>1, <1>2, <1>3, <1>4, <1>5, <1>6 DEF StoreNext

LEMMA SessionHolds == StoreSpec => []SessionInv
BY SessionInvInit, SessionInvStep, PTL DEF StoreSpec

(* The JSONL files, the history, the materialized table, the export and a  *)
(* reader of the history tell the same of every event, and every event that *)
(* a lane found before its horizon is stored (SegmentedEventStore.append,   *)
(* _apply_lane_update), for any events, lanes, batches, pages and faults.   *)
THEOREM StoredEventsAgree == StoreSpec => []StoreAgrees
<1>1. SessionInv => StoreAgrees
  <2> SUFFICES ASSUME SessionInv PROVE StoreAgrees
    OBVIOUS
  <2>1. AudioTypeOK /\ EventTypeOK /\ EventsAgree
    BY EventsAgreeHolds DEF SessionInv, AudioInv, EventInv
  <2>2. StoreTypeOK
    BY <2>1 DEF SessionInv, LaneTypes, LaneStates, StoreTypeOK
  <2>3. HorizonIsStored
    BY DEF SessionInv, LaneKnown, IsStored, HorizonIsStored
  <2> QED
    BY <2>1, <2>2, <2>3 DEF StoreAgrees
<1> QED
  BY <1>1, SessionHolds, PTL

(* The lanes that read it leave the audio kept, and read what was accepted. *)
THEOREM SessionKeepsAudio == StoreSpec => []AudioIsKept
<1>1. SessionInv => AudioIsKept
  BY DEF SessionInv, AudioInv, ReaderOnTrack, FileFollows, RingEndsAtHead, SourceAtEnd,
         AudioIsKept, AcceptedAudioIsRead, FilesHoldAccepted, IndexEnd
<1> QED
  BY <1>1, SessionHolds, PTL

-------------------------------------------------------------------------------
(* The Workspace: each behaviour of it is one of each part.                *)

LEMMA WorkspaceIsItsParts ==
  WorkspaceSpec => StoreSpec /\ Spec /\ CatalogSpec /\ DebugSpec /\ FamilySpec
<1>1. WorkspaceInit => StoreInit /\ Init /\ CatalogInit /\ DebugInit /\ FamilyInit
  BY DEF WorkspaceInit
<1>2. [WorkspaceNext]_<<part, storeVars, vars, catalogVars, debugVars, familyVars>>
        => /\ [StoreNext]_storeVars /\ [Next]_vars /\ [CatalogNext]_catalogVars
           /\ [DebugNext]_debugVars /\ [FamilyNext]_familyVars
  BY DEF WorkspaceNext
<1> QED
  BY <1>1, <1>2, PTL DEF WorkspaceSpec, StoreSpec, Spec, CatalogSpec, DebugSpec, FamilySpec

\* The workspace as a whole keeps what its parts promise: of the audio and the events
\* of a session, of the recording, of the sessions and their listings, of the debug data and of the family.
THEOREM WorkspaceKeepsPromises ==
  WorkspaceSpec => /\ [](/\ AudioIsKept /\ StoreAgrees /\ ManifestTellsTruth /\ NamesSurvive /\ ListingsAreWhole
                         /\ DebugIsBounded /\ FamilyIsWhole)
                   /\ AccessSurvives
BY WorkspaceIsItsParts, SessionKeepsAudio, StoredEventsAgree, ManifestIsTruthful, ToldNamesSurvive, PagedListingsAreWhole,
   SweepBoundsDebug, FamiliesAreWhole, RolesSurviveUpgrades, PTL

===============================================================================
