---------------------------- MODULE SessionArtifacts ----------------------------
(***************************************************************************)
(* What the files of a recording are served as: the state and the kinds    *)
(* its entry in the catalog shows, the pages that list its artifacts, an   *)
(* artifact that is fetched by the digest of its bytes, and whether its    *)
(* score is up to date (adapters/local_sessions.py, _session to            *)
(* get_artifact_with_path; _score_snapshot_provenance).                    *)
(*                                                                         *)
(* A directory is a record: the files it has, its score pointer, the       *)
(* snapshot retained from before a regeneration, files that hold the same  *)
(* bytes, and the status of its session.json.                              *)
(***************************************************************************)
EXTENDS Integers, SequencesExt

\* The files that may be listed, in the order of the list: by their kind, then
\* by their name. The variant is of the same snapshot as the baseline.
Shelf ==
  << [file |-> "playback", kind |-> "audio"],
     [file |-> "segment 1", kind |-> "audio"],
     [file |-> "segment 2", kind |-> "audio"],
     [file |-> "history", kind |-> "event-history"],
     [file |-> "pointer", kind |-> "manifest"],
     [file |-> "export", kind |-> "midi"],
     [file |-> "score midi", kind |-> "midi"],
     [file |-> "score", kind |-> "musicxml"],
     [file |-> "variant", kind |-> "musicxml"],
     [file |-> "alignment", kind |-> "score-alignment"] >>

Loose == {"playback", "segment 1", "segment 2", "history", "export"}

Retained == << [file |-> "old score", kind |-> "musicxml"],
               [file |-> "old alignment", kind |-> "score-alignment"] >>

Wavs == {"segment 1", "segment 2"}

Plausible(d) == d.pointer \in {"baseline", "variants"}

\* The files the pointer names; it is torn or its score is not plausible
\* otherwise, and then nothing of the score is listed.
OfScore(d) ==
  IF ~ Plausible(d) THEN {}
  ELSE {"pointer", "score midi", "score", "alignment"}
         \cup (IF d.pointer = "variants" THEN {"variant"} ELSE {})

\* Files with the same bytes have the same digest, here the name of one of them.
Digest(d, file) == IF file \in d.twins THEN CHOOSE twin \in d.twins : TRUE ELSE file

Candidates(d) ==
  SelectSeq(Shelf, LAMBDA entry : entry.file \in d.files /\ entry.file \in Loose \cup OfScore(d))

\* A snapshot whose manifest cannot be read is passed over, and so is a file of
\* it that is not what the manifest says it is.
RetainedArtifacts(d) ==
  IF d.manifest # "whole" THEN << >>
  ELSE SelectSeq(Retained, LAMBDA entry : entry.file \in d.files /\ entry.file \notin d.damaged)

\* Mutant: the page begins with the artifact the last one ended with.
PageFromCursor(d, cursor, limit) ==
  LET all    == Candidates(d)
      places == {i \in DOMAIN all : Digest(d, all[i].file) \in cursor}
      start  == IF cursor = {} THEN 0 ELSE (CHOOSE i \in places : \A j \in places : i <= j) - 1
  IN  SubSeq(all, start + 1, Min({start + limit, Len(all)}))

\* The page after a cursor, which is the digest of the last artifact of the page
\* before it; there is none before the first page.
Page(d, cursor, limit) ==
  LET all    == Candidates(d)
      places == {i \in DOMAIN all : Digest(d, all[i].file) \in cursor}
      start  == IF cursor = {} THEN 0 ELSE CHOOSE i \in places : \A j \in places : i <= j
  IN  SubSeq(all, start + 1, Min({start + limit, Len(all)}))

NextCursor(d, page) ==
  IF Candidates(d) = << >> \/ Last(page) = Last(Candidates(d)) THEN {} ELSE {Digest(d, Last(page).file)}

\* The first file with the digest that is asked for, of the score that is kept
\* only if the recording has none.
Fetched(d, digest) ==
  SelectSeq(Candidates(d) \o RetainedArtifacts(d), LAMBDA entry : Digest(d, entry.file) = digest)

\* The kinds a session's entry says it has.
AvailableKinds(d) ==
  (IF d.files \cap (Wavs \cup {"playback"}) # {} THEN {"audio"} ELSE {})
    \cup (IF "history" \in d.files THEN {"event-history"} ELSE {})
    \cup (IF "export" \in d.files THEN {"midi"} ELSE {})
    \cup (IF Plausible(d) THEN {"musicxml"} ELSE {})
    \cup (IF Plausible(d) /\ "alignment" \in d.files THEN {"score-alignment"} ELSE {})

\* What the entry shows: a recording is active while the server captures it; one
\* whose file says so after that was broken off.
Shown(d) ==
  LET recording == d.live /\ d.status = "active"
  IN  [status  |-> IF recording THEN "active" ELSE IF d.status = "active" THEN "failed" ELSE d.status,
       capture |-> recording,
       kinds   |-> AvailableKinds(d)]

Statuses == {"active", "complete", "failed"}

Directories ==
  LET score == {"pointer", "score midi", "score", "variant"}
  IN  {[files |-> loose \cup score \cup aligned \cup {"old score", "old alignment"}, pointer |-> pointer,
        manifest |-> manifest, damaged |-> damaged, twins |-> twins, status |-> status, live |-> live] :
         loose \in SUBSET Loose, aligned \in {{}, {"alignment"}},
         pointer \in {"torn", "baseline", "variants"}, manifest \in {"torn", "whole"},
         damaged \in {{}, {"old score"}}, twins \in {{}, Wavs, {"alignment", "old alignment"}},
         status \in Statuses, live \in BOOLEAN}

-----------------------------------------------------------------------------
(* Whether a score is what would be made of the recording now.             *)

CurrentRevision == 2

\* The pointer of a score: the schema of its alignment, and what is known of the
\* program that made it, nothing before that was written down.
Producers ==
  {[known |-> "missing", revision |-> 0, alignment |-> "none"],
   [known |-> "unsupported", revision |-> 0, alignment |-> "none"]}
    \cup {[known |-> "yes", revision |-> revision, alignment |-> alignment] :
            revision \in 1..3, alignment \in {"supported", "other"}}

Pointers == {[alignment |-> alignment, producer |-> producer] :
               alignment \in {"supported", "other"}, producer \in Producers}

\* Mutant: the revision of the program is looked at first.
FreshnessByRevision(p) ==
  IF p.producer.known = "yes" /\ p.producer.revision = CurrentRevision
  THEN [status |-> "current", refresh |-> FALSE]
  ELSE [status |-> "older", refresh |-> TRUE]

Freshness(p) ==
  LET answer(status, refresh) == [status |-> status, refresh |-> refresh]
  IN  CASE p.alignment # "supported"               -> answer("incompatible", TRUE)
        [] p.producer.known = "missing"            -> answer("unknown", TRUE)
        [] p.producer.known = "unsupported"        -> answer("incompatible", TRUE)
        [] p.producer.alignment # p.alignment      -> answer("incompatible", TRUE)
        [] p.producer.revision < CurrentRevision   -> answer("older", TRUE)
        [] p.producer.revision > CurrentRevision   -> answer("incompatible", FALSE)
        [] OTHER                                   -> answer("current", FALSE)

-----------------------------------------------------------------------------
(* What a reader of the lists expects.                                     *)

\* Following the cursors from the first page, with pages of a size.
Paged(d, limit) ==
  LET next(pages, n) ==
        LET cursor == NextCursor(d, Last(pages))
        IN  IF cursor = {} THEN pages ELSE Append(pages, Page(d, cursor, limit))
  IN  FlattenSeq(FoldLeft(next, <<Page(d, {}, limit)>>, Candidates(d)))

DifferInBytes(d, artifacts) ==
  \A i, j \in DOMAIN artifacts :
    i # j => Digest(d, artifacts[i].file) # Digest(d, artifacts[j].file)

\* Pages of any size list each artifact once, unless two hold the same bytes; an
\* artifact that is listed, or that a score before this one is made of, is fetched
\* with its bytes; and an entry of the catalog names a kind if and only if the
\* list has one of it, but for the MIDI of a score. Nothing is shown as being
\* recorded that the server does not record.
ListingIsExact(d) ==
  LET all    == Candidates(d)
      kinds  == {all[i].kind : i \in DOMAIN all}
      kept   == all \o RetainedArtifacts(d)
      served(i) == Fetched(d, Digest(d, kept[i].file))
  IN  /\ DifferInBytes(d, all) => \A limit \in 1..(Len(all) + 1) : Paged(d, limit) = all
      /\ \A i \in DOMAIN kept : /\ served(i) # << >>
                                /\ Head(served(i)).kind = kept[i].kind
                                /\ Head(served(i)).file \notin d.damaged
      /\ Shown(d).kinds \ {"midi"} = kinds \ {"midi", "manifest"}
      /\ "midi" \in Shown(d).kinds => "midi" \in kinds
      /\ ~ d.live => Shown(d).status # "active"

\* A score is called current where making it again would write the same schema
\* and revision, and its reader is told to make it again wherever that would bring
\* it up to date, not where a later program made it.
FreshnessIsTrue(p) ==
  LET now == [known |-> "yes", revision |-> CurrentRevision, alignment |-> "supported"]
  IN  /\ Freshness(p).status = "current" <=> p = [alignment |-> "supported", producer |-> now]
      /\ Freshness(p).status = "current" => ~ Freshness(p).refresh
      /\ p.alignment = "supported" /\ p.producer.alignment # "other"
           => (Freshness(p).refresh <=> p.producer.revision < CurrentRevision)
================================================================================
