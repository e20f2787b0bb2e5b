------------------------------- MODULE ScoreJobs -------------------------------
(***************************************************************************)
(* Scores of one session: ScoreApplicationService with its single job      *)
(* slot, the files generate_score_snapshot and generate_score_variant      *)
(* publish, and a request that moves the session to the trash.             *)
(*                                                                         *)
(* A snapshot job runs in a thread of its own, one at a time.  A variant   *)
(* is made by the thread of its request, which looks at the slot once and  *)
(* then works without it: it reads score/current.json, and writes it back  *)
(* with its variant when the adapter is done, minutes later.               *)
(*                                                                         *)
(* A score is addressed by its bytes: the identity of a variant contains   *)
(* the digest of the baseline it derives from, so its directory is named   *)
(* by commit sample, baseline and option.  What the network makes of the   *)
(* same notes may differ from run to run (Outputs).                        *)
(***************************************************************************)
EXTENDS Naturals, FiniteSets

CONSTANTS
    Requests,   \* threads of score and variant requests
    Outputs,    \* what the network may make of the notes
    Nothing,    \* no document, no file
    MaxCommit,  \* bound: commit samples
    MaxJobs,    \* bound: snapshot jobs started
    MaxAsked,   \* bound: variants asked for
    Faults      \* "adapter" fails, "crash" of the program, "delete" requests

Commits == 1..MaxCommit
Options == {"baseline", "automatic", "enharmonic"}

\* The document both snapshot and pointer hold.
Documents == [commit : Commits, baseline : Outputs,
              variants : SUBSET Options, selected : Options]
Document(c, o, variants, selected) ==
    [commit |-> c, baseline |-> o, variants |-> variants, selected |-> selected]

ASSUME ScoreConstants ==
    /\ {MaxCommit, MaxJobs, MaxAsked} \subseteq Nat
    /\ Faults \subseteq {"adapter", "crash", "delete"}
    /\ {Nothing, "torn"} \cap Outputs = {} /\ Nothing \notin Documents
    /\ "delete" \notin Requests

VARIABLES
    commitSample, \* the session's commit horizon
    slot,         \* _status, _commit_sample
    job,          \* where the job's thread is
    network,      \* what the adapter of the running job made
    baseline,     \* the baseline files of each snapshot
    directories,  \* variant directories: <<commit, baseline, option>>
    scores,       \* the ones with complete files
    manifests,    \* snapshots/<commit>/manifest.json
    current,      \* score/current.json
    pc,           \* where each request is
    asked,        \* what it asks for: [commit, option]
    copy,         \* current.json as it read it
    place,        \* where the session's directory is
    deletion,     \* where the delete request is
    started, made,  \* jobs started, variants asked for
    newest,       \* history: the last snapshot a job published
    since         \* history: actors that a job overtook after they looked, and
                  \* requests that read what one of those wrote back

files == <<baseline, directories, scores, manifests, current>>
requests == <<pc, asked, copy>>
trash == <<place, deletion>>
service == <<slot, job, network, started, newest>>
vars == <<commitSample, service, files, requests, trash, made, since>>

Init ==
    /\ commitSample = 0
    /\ slot = [status |-> "idle", commit |-> 0] /\ job = "none" /\ network = Nothing
    /\ baseline = [c \in Commits |-> Nothing]
    /\ directories = {} /\ scores = {}
    /\ manifests = [c \in Commits |-> Nothing] /\ current = Nothing
    /\ pc = [r \in Requests |-> "idle"]
    /\ asked = [r \in Requests |-> Nothing] /\ copy = [r \in Requests |-> Nothing]
    /\ place = "workspace" /\ deletion = "idle"
    /\ started = 0 /\ made = 0 /\ newest = Nothing /\ since = {}

At(r, point) == pc[r] = point
Goto(r, point) == pc' = [pc EXCEPT ![r] = point]
\* The request is over.
End(r) ==
    /\ Goto(r, "idle")
    /\ asked' = [asked EXCEPT ![r] = Nothing]
    /\ copy' = [copy EXCEPT ![r] = Nothing]

Underway == {r \in Requests : ~At(r, "idle")}

Present == place = "workspace"
Running == slot.status = "running"

\* The commit lane moves on while the session records.
AdvanceHorizon ==
    /\ commitSample < MaxCommit
    /\ commitSample' = commitSample + 1
    /\ UNCHANGED <<service, files, requests, trash, made, since>>

-----------------------------------------------------------------------------
(* A score request: start.                                                 *)

\* The horizon is compared with the one the client saw; the slot comes later.
ReadTarget(r) ==
    /\ At(r, "idle") /\ Present /\ commitSample > 0
    /\ started < MaxJobs
    /\ asked' = [asked EXCEPT ![r] = [commit |-> commitSample, option |-> "score"]]
    /\ Goto(r, "claim")
    /\ UNCHANGED <<commitSample, service, files, copy, trash, made, since>>

\* Mutant: the slot is claimed without looking at it.
ClaimUnchecked(r) ==
    /\ At(r, "claim") /\ started < MaxJobs
    /\ slot' = [status |-> "running", commit |-> asked[r].commit]
    /\ job' = "begin" /\ started' = started + 1
    /\ since' = (Underway \ {r}) \cup (IF deletion = "free" THEN {"delete"} ELSE {})
    /\ End(r)
    /\ UNCHANGED <<commitSample, network, newest, files, trash, made>>

Claim(r) ==
    /\ At(r, "claim") /\ ~Running /\ started < MaxJobs
    /\ slot' = [status |-> "running", commit |-> asked[r].commit]
    /\ job' = "begin" /\ started' = started + 1
    /\ since' = (Underway \ {r}) \cup (IF deletion = "free" THEN {"delete"} ELSE {})
    /\ End(r)
    /\ UNCHANGED <<commitSample, network, newest, files, trash, made>>

ClaimRefused(r) ==
    /\ At(r, "claim") /\ (Running \/ started = MaxJobs)
    /\ End(r)
    /\ UNCHANGED <<commitSample, service, files, trash, made, since>>

-----------------------------------------------------------------------------
(* The job: _run and generate_score_snapshot.                              *)

JobGoto(point) ==
    /\ job' = point
    /\ UNCHANGED <<commitSample, slot, started, requests, trash, made, since>>

\* Notes and MIDI are written, and the adapter starts writing the baseline
\* where the baseline of an earlier job for this commit sample is.
RunAdapter ==
    /\ job = "begin" /\ Present
    /\ baseline' = [baseline EXCEPT ![slot.commit] = "torn"]
    /\ JobGoto("adapter")
    /\ UNCHANGED <<newest, network, directories, scores, manifests, current>>

AdapterDone ==
    /\ job = "adapter" /\ Present
    /\ \E o \in Outputs :
          /\ network' = o
          /\ baseline' = [baseline EXCEPT ![slot.commit] = o]
    /\ JobGoto("place")
    /\ UNCHANGED <<newest, directories, scores, manifests, current>>

\* It fails, is late, or what it made is not a score: at any point.
JobFails ==
    /\ "adapter" \in Faults /\ job \in {"begin", "adapter", "place"} /\ Present
    /\ JobGoto("failed")
    /\ UNCHANGED <<network, newest, files>>

\* The automatic variant is moved from its staging names into its directory.
PlaceAutomatic ==
    LET variant == <<slot.commit, network, "automatic">> IN
    /\ job = "place" /\ Present
    /\ directories' = directories \cup {variant}
    /\ scores' = scores \cup {variant}
    /\ JobGoto("manifest")
    /\ UNCHANGED <<newest, network, baseline, manifests, current>>

Snapshot == Document(slot.commit, network, {"automatic"}, "automatic")

WriteManifest ==
    /\ job = "manifest" /\ Present
    /\ manifests' = [manifests EXCEPT ![slot.commit] = Snapshot]
    /\ JobGoto("publish")
    /\ UNCHANGED <<newest, network, baseline, directories, scores, current>>

Publish ==
    /\ job = "publish" /\ Present
    /\ current' = Snapshot
    /\ newest' = <<slot.commit, network>>
    /\ JobGoto("done")
    /\ UNCHANGED <<network, baseline, directories, scores, manifests>>

\* Without its directory the job fails at the first file it misses; what it
\* writes before or after that goes to a directory nobody can resolve.
JobLosesDirectory ==
    /\ job \in {"begin", "adapter", "place", "manifest", "publish"} /\ ~Present
    /\ \E end \in {"failed", "done"} : JobGoto(end)
    /\ UNCHANGED <<network, newest, files>>

\* Mutant: an exception of the adapter is not caught.
FinishCompletedOnly ==
    /\ job = "done"
    /\ slot' = [slot EXCEPT !.status = "complete"]
    /\ job' = "none" /\ network' = Nothing
    /\ UNCHANGED <<commitSample, started, newest, files, requests, trash, made, since>>

Finish ==
    /\ job \in {"failed", "done"}
    /\ slot' = [slot EXCEPT !.status = IF job = "done" THEN "complete" ELSE "failed"]
    /\ job' = "none" /\ network' = Nothing
    /\ UNCHANGED <<commitSample, started, newest, files, requests, trash, made, since>>

-----------------------------------------------------------------------------
(* A variant request: create_variant and generate_score_variant.           *)

\* Mutant: a variant does not wait for the job.
CheckSlotAlways(r) ==
    /\ At(r, "idle") /\ Present /\ made < MaxAsked
    /\ current # Nothing
    /\ \E o \in Options :
          asked' = [asked EXCEPT ![r] = [commit |-> current.commit, option |-> o]]
    /\ made' = made + 1
    /\ since' = since \ {r}
    /\ Goto(r, "read")
    /\ UNCHANGED <<commitSample, service, files, copy, trash>>

\* The client names the baseline of the score it sees.
CheckSlot(r) ==
    /\ At(r, "idle") /\ Present /\ made < MaxAsked
    /\ ~Running
    /\ current # Nothing
    /\ \E o \in Options :
          asked' = [asked EXCEPT ![r] = [commit |-> current.commit, option |-> o]]
    /\ made' = made + 1
    /\ since' = since \ {r}
    /\ Goto(r, "read")
    /\ UNCHANGED <<commitSample, service, files, copy, trash>>

\* The baseline asked for is the one current.json names, and its file is the
\* one recorded there.
NamesCurrentBaseline(r) ==
    /\ current # Nothing
    /\ asked[r].commit = current.commit
    /\ baseline[current.commit] = current.baseline

Key(r) == <<copy[r].commit, copy[r].baseline, asked[r].option>>

ShowsNewest(d) == d # Nothing /\ <<d.commit, d.baseline>> = newest

\* current.json is read; everything below works with this copy of it.
ReadPointer(r) ==
    /\ At(r, "read") /\ Present /\ NamesCurrentBaseline(r)
    /\ copy' = [copy EXCEPT ![r] = current]
    /\ since' = IF ShowsNewest(current) THEN since ELSE since \cup {r}
    /\ Goto(r, "choose")
    /\ UNCHANGED <<commitSample, service, files, asked, trash, made>>

RefuseBaseline(r) ==
    /\ At(r, "read") /\ Present /\ ~NamesCurrentBaseline(r)
    /\ End(r)
    /\ UNCHANGED <<commitSample, service, files, trash, made, since>>

Published(r) == asked[r].option \in copy[r].variants \cup {"baseline"}

\* A published variant is selected without being made again.
SelectPublished(r) ==
    /\ At(r, "choose") /\ Present /\ Published(r)
    /\ current' = [copy[r] EXCEPT !.selected = asked[r].option]
    /\ Goto(r, "answer")
    /\ UNCHANGED <<commitSample, service, baseline, directories, scores, manifests,
                   asked, copy, trash, made, since>>

\* Mutant: a directory that is there is taken for a finished variant.
MakeDirectoryOrReuse(r) ==
    /\ At(r, "choose") /\ Present /\ ~Published(r)
    /\ directories' = directories \cup {Key(r)}
    /\ Goto(r, IF Key(r) \in directories THEN "manifest" ELSE "make")
    /\ UNCHANGED <<commitSample, service, baseline, scores, manifests, current,
                   asked, copy, trash, made, since>>

MakeDirectory(r) ==
    /\ At(r, "choose") /\ Present /\ ~Published(r)
    /\ Key(r) \notin directories
    /\ directories' = directories \cup {Key(r)}
    /\ Goto(r, "make")
    /\ UNCHANGED <<commitSample, service, baseline, scores, manifests, current,
                   asked, copy, trash, made, since>>

\* "unpublished score variant directory already exists"
RefuseDirectory(r) ==
    /\ At(r, "choose") /\ Present /\ ~Published(r)
    /\ Key(r) \in directories
    /\ Goto(r, "refused")
    /\ UNCHANGED <<commitSample, service, files, asked, copy, trash, made, since>>

\* The adapter parses the baseline; it refuses one that is being rewritten.
MakeVariant(r) ==
    /\ At(r, "make") /\ Present
    /\ baseline[copy[r].commit] # "torn"
    /\ scores' = scores \cup {Key(r)}
    /\ Goto(r, "manifest")
    /\ UNCHANGED <<commitSample, service, baseline, directories, manifests, current,
                   asked, copy, trash, made, since>>

VariantFails(r) ==
    /\ At(r, "make") /\ Present
    /\ "adapter" \in Faults \/ baseline[copy[r].commit] = "torn"
    /\ End(r)
    /\ UNCHANGED <<commitSample, service, files, trash, made, since>>

\* The list of its copy and itself replace the list in the manifest.
AddToManifest(r) ==
    LET c == copy[r].commit IN
    /\ At(r, "manifest") /\ Present
    /\ manifests' = [manifests EXCEPT ![c].baseline = copy[r].baseline,
                                     ![c].variants = copy[r].variants \cup {asked[r].option}]
    /\ Goto(r, "publish")
    /\ UNCHANGED <<commitSample, service, baseline, directories, scores, current,
                   asked, copy, trash, made, since>>

PublishVariant(r) ==
    /\ At(r, "publish") /\ Present
    /\ current' = [copy[r] EXCEPT !.variants = @ \cup {asked[r].option},
                                 !.selected = asked[r].option]
    /\ Goto(r, "answer")
    /\ UNCHANGED <<commitSample, service, baseline, directories, scores, manifests,
                   asked, copy, trash, made, since>>

\* The answer is looked up in current.json; another thread may have replaced
\* it, and then there is none.
Answer(r) ==
    /\ At(r, "answer") /\ Present
    /\ IF asked[r].option \in current.variants \cup {"baseline"} THEN End(r)
       ELSE Goto(r, "unanswered") /\ UNCHANGED <<asked, copy>>
    /\ UNCHANGED <<commitSample, service, files, trash, made, since>>

\* A request in a directory that is gone fails.
RequestLosesDirectory(r) ==
    /\ pc[r] \in {"claim", "read", "choose", "make", "manifest", "publish", "answer"}
    /\ ~Present
    /\ End(r)
    /\ UNCHANGED <<commitSample, service, files, trash, made, since>>

AskAgain(r) ==
    /\ pc[r] \in {"refused", "unanswered"}
    /\ End(r)
    /\ UNCHANGED <<commitSample, service, files, trash, made, since>>

-----------------------------------------------------------------------------
(* Deletion and the end of the program.                                    *)

\* running_session_id, before the repository is called with its answer.
ReadSlot ==
    /\ "delete" \in Faults /\ deletion = "idle" /\ Present
    /\ deletion' = IF Running THEN "idle" ELSE "free"
    /\ since' = since \ {"delete"}
    /\ UNCHANGED <<commitSample, service, files, requests, place, made>>

TrashSession ==
    /\ deletion = "free"
    /\ place' = "trash" /\ deletion' = "done"
    /\ UNCHANGED <<commitSample, service, files, requests, made, since>>

\* The slot is memory, the files stay as they are.
Crash ==
    /\ "crash" \in Faults
    /\ job # "none" \/ \E r \in Requests : ~At(r, "idle")
    /\ slot' = [status |-> "idle", commit |-> 0] /\ job' = "none" /\ network' = Nothing
    /\ pc' = [r \in Requests |-> "idle"]
    /\ asked' = [r \in Requests |-> Nothing] /\ copy' = [r \in Requests |-> Nothing]
    /\ deletion' = IF deletion = "free" THEN "idle" ELSE deletion
    /\ since' = {}
    /\ UNCHANGED <<commitSample, started, newest, files, place, made>>

-----------------------------------------------------------------------------
JobStep ==
    \/ RunAdapter \/ AdapterDone \/ JobFails \/ PlaceAutomatic
    \/ WriteManifest \/ Publish \/ JobLosesDirectory \/ Finish

RequestStep(r) ==
    \/ Claim(r) \/ ClaimRefused(r)
    \/ ReadPointer(r) \/ RefuseBaseline(r)
    \/ SelectPublished(r) \/ MakeDirectory(r) \/ RefuseDirectory(r)
    \/ MakeVariant(r) \/ VariantFails(r)
    \/ AddToManifest(r) \/ PublishVariant(r)
    \/ Answer(r) \/ RequestLosesDirectory(r) \/ AskAgain(r)

Next ==
    \/ AdvanceHorizon \/ JobStep
    \/ \E r \in Requests : ReadTarget(r) \/ CheckSlot(r) \/ RequestStep(r)
    \/ ReadSlot \/ TrashSession \/ Crash

Spec == Init /\ [][Next]_vars

\* The adapters run under a timeout, so a job and a request always go on.
FairSpec ==
    /\ Spec
    /\ WF_vars(JobStep)
    /\ \A r \in Requests : WF_vars(RequestStep(r))

-----------------------------------------------------------------------------
(* Properties.                                                             *)

TypeOK ==
    /\ commitSample \in 0..MaxCommit
    /\ slot \in [status : {"idle", "running", "complete", "failed"}, commit : 0..MaxCommit]
    /\ job \in {"none", "begin", "adapter", "place", "manifest", "publish", "failed", "done"}
    /\ network \in Outputs \cup {Nothing}
    /\ baseline \in [Commits -> Outputs \cup {"torn", Nothing}]
    /\ directories \subseteq Commits \X Outputs \X Options
    /\ scores \subseteq directories
    /\ manifests \in [Commits -> Documents \cup {Nothing}]
    /\ current \in Documents \cup {Nothing}
    /\ pc \in [Requests -> {"idle", "claim", "read", "choose", "make", "manifest",
                            "publish", "answer", "refused", "unanswered"}]
    /\ asked \in [Requests -> {Nothing} \cup
                    [commit : Commits, option : Options \cup {"score"}]]
    /\ copy \in [Requests -> Documents \cup {Nothing}]
    /\ place \in {"workspace", "trash"} /\ deletion \in {"idle", "free", "done"}
    /\ started \in 0..MaxJobs /\ made \in 0..MaxAsked
    /\ since \subseteq Requests \cup {"delete"}

Complete(d) ==
    d # Nothing =>
        /\ d.selected \in d.variants \cup {"baseline"}
        /\ \A o \in d.variants \ {"baseline"} : <<d.commit, d.baseline, o>> \in scores

\* The slot and the thread agree: a job in flight is the one the slot reports
\* running, a job reported complete has published its snapshot, and one that
\* works on the files of another's snapshot does not exist.
SlotTellsTruth ==
    /\ Running <=> job # "none"
    /\ slot.status = "complete" /\ Present => manifests[slot.commit] # Nothing
    /\ job \in {"place", "manifest", "publish"} /\ Present =>
           baseline[slot.commit] = network

\* Whatever fails or dies in the middle, every derived score that current.json
\* or a snapshot's manifest lists has its files, and the slot tells of the job
\* what is so.
PublishedScoresExist ==
    /\ TypeOK
    /\ SlotTellsTruth
    /\ Complete(current)
    /\ \A c \in Commits : Complete(manifests[c])

\* A request that publishes with its copy of current.json hides the newest
\* snapshot only if a job was started after the request was admitted, or if it
\* read a current.json in which such a request had hidden that snapshot already.
AdmittedVariantsKeepSnapshots ==
    \A r \in Requests :
        (PublishVariant(r) \/ SelectPublished(r)) /\ ShowsNewest(current) =>
            r \in since \/ ShowsNewest(current')

\* The session is not taken away from a job that ran when its deletion was
\* decided: only one that started after that can lose its directory.
TrashSparesEarlierJobs ==
    TrashSession /\ job # "none" => "delete" \in since

\* Scores that were listed for a commit sample stay listed for readers that
\* keep their address, unless a job makes that sample's score again.
ListedScoresStay ==
    \A c \in Commits :
        manifests[c] # Nothing /\ manifests'[c] # Nothing
        /\ ~(manifests[c].variants \subseteq manifests'[c].variants) =>
            WriteManifest /\ slot.commit = c

\* What a job or a request published, or a job is working on, is lost only to a
\* request that it overtook, or to a job for the same sample.
WorkIsRespected ==
    [][AdmittedVariantsKeepSnapshots /\ TrashSparesEarlierJobs /\ ListedScoresStay]_vars

\* A started job always ends, and the slot is free again.
JobsEnd == Running ~> ~Running

=============================================================================
