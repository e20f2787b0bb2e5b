---------------------------- MODULE CapturesProofs ----------------------------
(* Proofs about Captures: the one capture lease (CaptureService), for any     *)
(* clients, faults, restarts and deletions, and imports (RecordingImport).    *)
EXTENDS Captures, FiniteSetTheorems, TLAPS

-----------------------------------------------------------------------------
(* The lease with any sources and any faults.                              *)

\* The types of the parts of the state.
ServiceTypeOK ==
  /\ current \in Sessions \cup {NoSession} /\ active \in Sessions \cup {NoSession}
  /\ status \in Busy \cup {"idle", "complete", "failed"}
  /\ claims \in 0..MaxSessions

ModelsTypeOK ==
  loaded \in BOOLEAN /\ timer \in BOOLEAN /\ dispatched \subseteq {"current", "stale"}

SessionsTypeOK ==
  /\ pipe \in [Sessions -> {"none", "recording", "settling", "complete", "failed",
                            "aborted"}]
  /\ callback \in [Sessions -> {"none", "settled", "failed", "complete_session",
                                "fail_session", "sent"}]
  /\ manifest \in [Sessions -> Open \cup {"none", "complete", "failed"}]
  /\ recency \in Seq(Sessions)
  /\ audio \in [Sessions -> Seq(Clients)]

ClientsTypeOK ==
  /\ pc \in [Clients -> Points]
  /\ session \in [Clients -> Sessions \cup {NoSession}]
  /\ target \in [Clients -> Sessions \cup {NoSession}]
  /\ sent \in [Clients -> 0..MaxBlocks]

OthersTypeOK ==
  /\ deleting \in [session : Sessions \cup {NoSession}, trashed : BOOLEAN]
  /\ restarts \in 0..MaxRestarts

\* No session number is in use before it is handed out.
Numbered ==
  /\ active \in 0..claims /\ deleting.session \in 0..claims
  /\ \A c \in Clients : target[c] \in 0..claims /\ session[c] \in 0..claims
  /\ \A s \in Sessions : s > claims =>
       pipe[s] = "none" /\ manifest[s] = "none" /\ audio[s] = <<>>

\* The order lists sessions that have a session.json, each once.
Indexed ==
  /\ \A n \in DOMAIN recency : manifest[recency[n]] # "none"
  /\ \A m, n \in DOMAIN recency : recency[m] = recency[n] => m = n

Starting(c) == pc[c] \in {"claimed", "loaded", "created"}

\* A capture that starts has a session nobody else has come across.
StartersAreFresh ==
  \A c \in Clients : Starting(c) =>
    /\ target[c] # NoSession /\ target[c] # active /\ target[c] # deleting.session
    /\ audio[target[c]] = <<>>
    /\ \A d \in Clients : session[d] # target[c] /\ (d # c => target[d] # target[c])
    /\ IF At(c, "created") THEN pipe[target[c]] = "recording"
       ELSE pipe[target[c]] = "none" /\ manifest[target[c]] = "none"

\* What is fed, stopped or was aborted is a session.
TargetsAreSessions ==
  \A c \in Clients :
    /\ pc[c] \in {"block", "stop", "stopPipeline", "deliver", "deliverAgain"} =>
         target[c] # NoSession
    /\ At(c, "block") => sent[c] < MaxBlocks

\* What is being deleted is neither active nor able to take audio.
DeletedIsOver ==
  /\ deleting.trashed => deleting.session # NoSession
  /\ deleting.session # NoSession => deleting.session # active /\ ~Live(deleting.session)

TypesOK == ServiceTypeOK /\ ModelsTypeOK /\ SessionsTypeOK /\ ClientsTypeOK /\ OthersTypeOK

LeaseInv ==
  /\ TypesOK /\ Numbered /\ Indexed /\ StartersAreFresh /\ TargetsAreSessions
  /\ DeletedIsOver /\ ActiveIsCurrent

-----------------------------------------------------------------------------
(* The lease between replays and uploads.                                  *)

\* Nobody uses a microphone, and no document fails to be written.
Unattended ==
  /\ \A c \in Clients : Source[c] # "microphone"
  /\ "document" \notin Faults

Running == {"provenance", "running", "block", "stop", "stopPipeline"}
Aborting == {"error", "abort"}

\* The client whose lease it is, until its session settles or is aborted.
Holds(c) ==
  \/ Starting(c) \/ pc[c] \in Running \cup Aborting \cup {"startFailed"}
  \/ (At(c, "waiting") /\ Live(session[c]))

\* There is one, and the service is busy with it.
OneHolder ==
  /\ \A c, d \in Clients : Holds(c) /\ Holds(d) => c = d
  /\ \A c \in Clients : Holds(c) => status \in Busy

\* Before its session is active, and when that did not come about.
StarterHasNone ==
  \A c \in Clients :
    Starting(c) \/ At(c, "startFailed") \/ (pc[c] \in Aborting /\ session[c] = NoSession) =>
      /\ active = NoSession /\ session[c] = NoSession
      /\ Starting(c) => current = target[c]
      /\ At(c, "abort") => target[c] = NoSession

\* While its session is active.
RunnerIsActive ==
  \A c \in Clients :
    /\ At(c, "idle") => session[c] = NoSession
    /\ pc[c] \in Running \cup {"waiting"} => session[c] # NoSession
    /\ pc[c] \in Running \/ (pc[c] \in Aborting /\ session[c] # NoSession) =>
         /\ active = session[c] /\ pipe[session[c]] = "recording"
         /\ pc[c] \in {"block", "stop", "stopPipeline", "abort"} => target[c] = session[c]
    /\ At(c, "waiting") /\ Live(session[c]) => active = session[c]
    /\ pc[c] \notin {"errorAgain", "abortAgain", "deliverAgain"}

\* The session a client feeds is its own.
SessionsApart ==
  \A c \in Clients : session[c] # NoSession =>
    /\ \A d \in Clients \ {c} : session[d] # session[c]
    /\ \A i \in 1..Len(audio[session[c]]) : audio[session[c]][i] = c

\* A session that records or settles is its holder's.
LiveIsHeld ==
  \A s \in Sessions : Live(s) =>
    \E c \in Clients :
      Holds(c) /\ (session[c] = s \/ (At(c, "created") /\ target[c] = s))

\* The lease waits for the callback that releases it.
PendingIsActive ==
  \A s \in Sessions :
    /\ callback[s] # "none" => pipe[s] \in {"complete", "failed", "aborted"}
    /\ callback[s] \notin {"none", "sent"} => active = s

\* Only the session written last can be open, and its pipeline says the same.
OpenIsLast ==
  \A s \in Sessions :
    /\ manifest[s] \in Open <=> Live(s)
    /\ manifest[s] \in Open => recency # <<>> /\ recency[Len(recency)] = s

\* What is being deleted is not what the service is busy with.
DeletedIsIdle ==
  deleting.session # NoSession /\ current = deleting.session => status \notin Busy

HolderInv ==
  /\ OneHolder /\ StarterHasNone /\ RunnerIsActive /\ SessionsApart /\ LiveIsHeld
  /\ PendingIsActive /\ OpenIsLast /\ DeletedIsIdle

-----------------------------------------------------------------------------
(* Lemmas about the operators.                                             *)

\* No session has the number that stands for none.
LEMMA Numbers ==
  /\ MaxSessions \in Nat /\ MaxBlocks \in Nat /\ MaxRestarts \in Nat
  /\ NoSession = 0 /\ NoSession \notin Sessions
  /\ \A n : n \in Sessions <=> n \in Nat /\ 1 <= n /\ n <= MaxSessions
  BY BoundsOK DEF Sessions, NoSession

\* What is left of an order, which lists nothing twice, without s.
LEMMA WithoutKeepsOrder ==
  ASSUME NEW order \in Seq(Sessions), NEW s,
         \A m, n \in DOMAIN order : order[m] = order[n] => m = n
  PROVE  /\ Without(order, s) \in Seq(Sessions)
         /\ \A n \in DOMAIN Without(order, s) :
              Without(order, s)[n] # s /\ \E m \in DOMAIN order : Without(order, s)[n] = order[m]
         /\ \A m, n \in DOMAIN Without(order, s) :
              Without(order, s)[m] = Without(order, s)[n] => m = n
         /\ order # <<>> /\ order[Len(order)] # s =>
              /\ Without(order, s) # <<>>
              /\ Without(order, s)[Len(Without(order, s))] = order[Len(order)]
<1> DEFINE rest == Without(order, s)
<1>1. CASE \A n \in DOMAIN order : order[n] # s
  <2>1. rest = order
    BY <1>1 DEF Without
  <2> QED
    BY <1>1, <2>1
<1>2. CASE \E n \in DOMAIN order : order[n] = s
  <2> DEFINE k == CHOOSE n \in DOMAIN order : order[n] = s
             before == SubSeq(order, 1, k - 1)
             after == SubSeq(order, k + 1, Len(order))
  <2>1. k \in DOMAIN order /\ order[k] = s
    BY <1>2
  <2>2. rest = before \o after
    BY <1>2 DEF Without, RemoveAt
  <2> HIDE DEF k
  <2>3. k \in 1..Len(order)
    BY <2>1
  <2>4. /\ before \in Seq(Sessions) /\ Len(before) = k - 1
        /\ \A n \in 1..(k - 1) : before[n] = order[n]
    BY <2>3
  <2>5. /\ after \in Seq(Sessions) /\ Len(after) = Len(order) - k
        /\ \A n \in 1..(Len(order) - k) : after[n] = order[n + k]
    BY <2>3
  <2> HIDE DEF before, after
  <2>6. /\ rest \in Seq(Sessions) /\ Len(rest) = Len(order) - 1
        /\ DOMAIN rest = 1..(Len(order) - 1)
    BY <2>2, <2>3, <2>4, <2>5
  <2>7. \A n \in 1..(Len(order) - 1) : rest[n] = IF n < k THEN order[n] ELSE order[n + 1]
    BY <2>2, <2>3, <2>4, <2>5
  <2> HIDE DEF rest
  <2>8. \A n \in DOMAIN rest : rest[n] # s /\ \E m \in DOMAIN order : rest[n] = order[m]
    BY <2>1, <2>3, <2>6, <2>7
  <2>9. \A m, n \in DOMAIN rest : rest[m] = rest[n] => m = n
    <3> SUFFICES ASSUME NEW m \in DOMAIN rest, NEW n \in DOMAIN rest, rest[m] = rest[n]
                 PROVE  m = n
      OBVIOUS
    <3> DEFINE old(i) == IF i < k THEN i ELSE i + 1
    <3>1. rest[m] = order[old(m)] /\ rest[n] = order[old(n)]
      BY <2>6, <2>7
    <3>2. old(m) \in DOMAIN order /\ old(n) \in DOMAIN order
      BY <2>3, <2>6
    <3>3. old(m) = old(n)
      BY <3>1, <3>2
    <3> QED
      BY <3>3, <2>3, <2>6
  <2>10. order[Len(order)] # s => rest # <<>> /\ rest[Len(rest)] = order[Len(order)]
    BY <2>1, <2>3, <2>6, <2>7
  <2> QED
    BY <2>6, <2>8, <2>9, <2>10 DEF rest
<1> QED
  BY <1>1, <1>2

\* A session.json that is written is listed once, and last.
LEMMA WrittenIsLast ==
  ASSUME TypesOK, Indexed, NEW s \in Sessions, NEW state, state # "none",
         WriteManifest(s, state)
  PROVE  /\ recency' \in Seq(Sessions) /\ Indexed'
         /\ recency' # <<>> /\ recency'[Len(recency')] = s
<1> DEFINE rest == Without(recency, s)
<1>1. /\ rest \in Seq(Sessions)
      /\ \A n \in DOMAIN rest : rest[n] # s /\ \E m \in DOMAIN recency : rest[n] = recency[m]
      /\ \A m, n \in DOMAIN rest : rest[m] = rest[n] => m = n
  BY WithoutKeepsOrder DEF TypesOK, SessionsTypeOK, Indexed
<1>2. recency' = Append(rest, s) /\ manifest' = [manifest EXCEPT ![s] = state]
  BY DEF WriteManifest
<1> HIDE DEF rest
<1>3. /\ recency' \in Seq(Sessions) /\ Len(recency') = Len(rest) + 1
      /\ recency'[Len(rest) + 1] = s /\ \A n \in 1..Len(rest) : recency'[n] = rest[n]
  BY <1>1, <1>2
<1>4. manifest'[s] = state /\ \A t \in Sessions \ {s} : manifest'[t] = manifest[t]
  BY <1>2 DEF TypesOK, SessionsTypeOK
<1>5. Indexed'
  <2>1. \A n \in DOMAIN recency' : manifest'[recency'[n]] # "none"
    <3> SUFFICES ASSUME NEW n \in DOMAIN recency'
                 PROVE  manifest'[recency'[n]] # "none"
      OBVIOUS
    <3>1. CASE n = Len(rest) + 1
      BY <3>1, <1>3, <1>4
    <3>2. CASE n \in 1..Len(rest)
      <4>1. PICK m \in DOMAIN recency : rest[n] = recency[m]
        BY <3>2, <1>1
      <4>2. recency[m] \in Sessions /\ recency[m] # s /\ manifest[recency[m]] # "none"
        BY <4>1, <3>2, <1>1 DEF Indexed, TypesOK, SessionsTypeOK
      <4> QED
        BY <3>2, <4>1, <4>2, <1>3, <1>4
    <3> QED
      BY <3>1, <3>2, <1>1, <1>3
  <2>2. \A m, n \in DOMAIN recency' : recency'[m] = recency'[n] => m = n
    BY <1>1, <1>3
  <2> QED
    BY <2>1, <2>2 DEF Indexed
<1> QED
  BY <1>3, <1>5

\* The order stays one when a session.json is written, or none.
LEMMA OrderIsKept ==
  ASSUME TypesOK, Indexed,
         \/ \E s \in Sessions, state \in Open \cup {"complete", "failed"} : WriteManifest(s, state)
         \/ UNCHANGED <<manifest, recency>>
  PROVE  recency' \in Seq(Sessions) /\ Indexed'
<1>1. CASE UNCHANGED <<manifest, recency>>
  BY <1>1 DEF TypesOK, SessionsTypeOK, Indexed
<1>2. ASSUME NEW s \in Sessions, NEW state \in Open \cup {"complete", "failed"},
             WriteManifest(s, state)
      PROVE  recency' \in Seq(Sessions) /\ Indexed'
  BY <1>2, WrittenIsLast DEF Open
<1> QED
  BY <1>1, <1>2

\* Reading the session written last closes it, and changes no other.
LEMMA LatestIsClosed ==
  ASSUME TypesOK, Indexed, LoadLatest(manifest, recency)
  PROVE  /\ current' \in Sessions \cup {NoSession}
         /\ status' \in {"idle", "complete", "failed"}
         /\ manifest' \in [Sessions -> Open \cup {"none", "complete", "failed"}]
         /\ \A s \in Sessions : manifest'[s] =
              IF recency # <<>> /\ s = recency[Len(recency)] /\ manifest[s] \in Open
              THEN "failed" ELSE manifest[s]
<1>1. CASE recency = <<>>
  BY <1>1 DEF LoadLatest, TypesOK, SessionsTypeOK
<1>2. CASE recency # <<>>
  <2> DEFINE latest == recency[Len(recency)]
  <2>1. latest \in Sessions /\ manifest[latest] \in Open \cup {"complete", "failed"}
    BY <1>2 DEF TypesOK, SessionsTypeOK, Indexed, Open
  <2> QED
    BY <1>2, <2>1 DEF LoadLatest, TypesOK, SessionsTypeOK
<1> QED
  BY <1>1, <1>2

\* Releasing the lease leaves values of their kinds.
LEMMA ReleaseKeepsTypes ==
  ASSUME TypesOK, NEW outcome \in {"complete", "failed"}, Release(outcome)
  PROVE  ServiceTypeOK' /\ ModelsTypeOK'
<1>1. ServiceTypeOK'
  BY DEF Release, TypesOK, ServiceTypeOK
<1>2. loaded' = loaded /\ timer' = loaded
  BY Zenon DEF Release, ScheduleEviction
<1>3. dispatched' \subseteq {"current", "stale"}
  BY SMT DEF Release, ScheduleEviction, TypesOK, ModelsTypeOK
<1> QED
  BY <1>1, <1>2, <1>3, Zenon DEF ModelsTypeOK, TypesOK

-----------------------------------------------------------------------------
(* Each step keeps the invariant of the lease.                             *)

\* A claim keeps the invariant.
LEMMA ClaimKeeps ==
  ASSUME LeaseInv, NEW c \in Clients, Claim(c)
  PROVE  LeaseInv'
<1>1. ServiceTypeOK'
  BY Numbers DEF LeaseInv, Claim, ClaimRefused, CancelEviction, ServiceTypeOK, TypesOK,
      At, Goto, sessionVars, NoSession, Busy
<1>2. ModelsTypeOK'
  <2>1. loaded' = loaded /\ timer' \in {timer, FALSE}
    BY DEF Claim, CancelEviction
  <2>2. dispatched' \in {dispatched, {}, {"stale"}}
    BY Zenon DEF Claim, CancelEviction
  <2>3. dispatched' \subseteq {"current", "stale"}
    BY <2>2 DEF LeaseInv, TypesOK, ModelsTypeOK
  <2> QED
    BY <2>1, <2>3, Zenon DEF LeaseInv, TypesOK, ModelsTypeOK
<1>3. SessionsTypeOK'
  BY Numbers DEF LeaseInv, Claim, ClaimRefused, CancelEviction, SessionsTypeOK, TypesOK,
      At, Goto, sessionVars, NoSession, Busy, Open
<1>4. ClientsTypeOK'
  <2>1. claims < MaxSessions => claims + 1 \in Sessions
    BY Numbers DEF LeaseInv, TypesOK, ServiceTypeOK
  <2>2. pc' \in [Clients -> Points]
    BY DEF Claim, Goto, LeaseInv, TypesOK, ClientsTypeOK, Points
  <2>3. target' \in [Clients -> Sessions \cup {NoSession}]
    BY <2>1 DEF Claim, Goto, LeaseInv, TypesOK, ClientsTypeOK
  <2> QED
    BY <2>2, <2>3 DEF Claim, LeaseInv, TypesOK, ClientsTypeOK
<1>5. OthersTypeOK'
  BY Numbers DEF LeaseInv, Claim, ClaimRefused, CancelEviction, OthersTypeOK, TypesOK,
      At, Goto, sessionVars, NoSession, Busy
<1>6. TypesOK'
  BY <1>1, <1>2, <1>3, <1>4, <1>5 DEF TypesOK
<1>7. Numbered'
  <2>1. claims \in Nat /\ claims' \in {claims, claims + 1}
    BY Numbers DEF Claim, LeaseInv, TypesOK, ServiceTypeOK
  <2>2. \A d \in Clients : target'[d] = target[d] \/ (target'[d] = claims + 1 /\ claims' = claims + 1)
    BY DEF Claim, LeaseInv, TypesOK, ClientsTypeOK
  <2> QED
    BY <2>1, <2>2 DEF Claim, sessionVars, LeaseInv, Numbered, Sessions
<1>8. Indexed'
  BY Numbers DEF LeaseInv, Claim, ClaimRefused, CancelEviction, Indexed, TypesOK,
      Numbered, At, Goto, sessionVars, NoSession, Busy, ServiceTypeOK, SessionsTypeOK,
      ClientsTypeOK, OthersTypeOK, Open, Points
<1>9. StartersAreFresh'
  <2>1. ASSUME claims < MaxSessions, target' = [target EXCEPT ![c] = claims + 1],
               pc' = [pc EXCEPT ![c] = "claimed"]
        PROVE  StartersAreFresh'
    <3>1. claims + 1 \in Sessions /\ claims \in Nat /\ claims + 1 > claims
      BY <2>1, Numbers DEF LeaseInv, TypesOK, ServiceTypeOK
    <3>2. /\ target'[c] = claims + 1 /\ pc'[c] = "claimed"
          /\ \A d \in Clients \ {c} : target'[d] = target[d] /\ pc'[d] = pc[d]
      BY <2>1 DEF LeaseInv, TypesOK, ClientsTypeOK
    <3>3. /\ active # claims + 1 /\ deleting.session # claims + 1
          /\ \A d \in Clients : target[d] # claims + 1 /\ session[d] # claims + 1
      BY <3>1 DEF LeaseInv, Numbered
    <3>4. pipe[claims + 1] = "none" /\ manifest[claims + 1] = "none" /\ audio[claims + 1] = <<>>
      BY <3>1 DEF LeaseInv, Numbered
    <3> SUFFICES ASSUME NEW e \in Clients, Starting(e)'
                 PROVE  /\ target'[e] # NoSession /\ target'[e] # active
                        /\ target'[e] # deleting.session /\ audio[target'[e]] = <<>>
                        /\ \A d \in Clients : session[d] # target'[e] /\ (d # e => target'[d] # target'[e])
                        /\ IF pc'[e] = "created" THEN pipe[target'[e]] = "recording"
                           ELSE pipe[target'[e]] = "none" /\ manifest[target'[e]] = "none"
      BY DEF Claim, sessionVars, StartersAreFresh, At
    <3>5. CASE e = c
      BY <3>1, <3>2, <3>3, <3>4, <3>5, Numbers
    <3>6. CASE e # c
      BY <3>2, <3>3, <3>6 DEF LeaseInv, StartersAreFresh, Starting, At
    <3> QED
      BY <3>5, <3>6
  <2>2. CASE pc' = [pc EXCEPT ![c] = "error"] /\ target' = target
    BY <2>2
       DEF Claim, sessionVars, StartersAreFresh, At, Starting, LeaseInv, TypesOK,
           ClientsTypeOK
  <2> QED
    BY <2>1, <2>2 DEF Claim, Goto
<1>10. TargetsAreSessions'
  BY Numbers DEF LeaseInv, Claim, ClaimRefused, CancelEviction, TargetsAreSessions,
      TypesOK, At, Goto, sessionVars, NoSession, Busy, ServiceTypeOK, SessionsTypeOK,
      ClientsTypeOK, OthersTypeOK, Open, Points
<1>11. DeletedIsOver' /\ ActiveIsCurrent'
  BY Numbers DEF LeaseInv, Claim, ClaimRefused, CancelEviction, DeletedIsOver,
      ActiveIsCurrent, TypesOK, At, Goto, sessionVars, NoSession, Busy, Live,
      ServiceTypeOK, ModelsTypeOK, SessionsTypeOK, ClientsTypeOK, OthersTypeOK, Open,
      Points
<1> QED
  BY <1>6, <1>7, <1>8, <1>9, <1>10, <1>11 DEF LeaseInv

\* Loading the models keeps the invariant.
LEMMA LoadModelsKeeps ==
  ASSUME LeaseInv, NEW c \in Clients, LoadModels(c)
  PROVE  LeaseInv'
<1>1. ServiceTypeOK'
  BY Numbers DEF LeaseInv, LoadModels, ServiceTypeOK, TypesOK, At, Goto, sessionVars,
      NoSession, Busy
<1>2. ModelsTypeOK'
  BY Zenon DEF LoadModels, LeaseInv, TypesOK, ModelsTypeOK
<1>3. SessionsTypeOK'
  BY Numbers DEF LeaseInv, LoadModels, SessionsTypeOK, TypesOK, At, Goto, sessionVars,
      Open
<1>4. ClientsTypeOK'
  BY Numbers DEF LeaseInv, LoadModels, ClientsTypeOK, TypesOK, At, Goto, sessionVars,
      Points, NoSession
<1>5. OthersTypeOK'
  BY Numbers DEF LeaseInv, LoadModels, OthersTypeOK, TypesOK, At, Goto, sessionVars,
      NoSession
<1>6. TypesOK'
  BY <1>1, <1>2, <1>3, <1>4, <1>5 DEF TypesOK
<1>7. Numbered'
  BY Numbers DEF LeaseInv, LoadModels, Numbered, TypesOK, At, Goto, sessionVars,
      ServiceTypeOK, SessionsTypeOK, ClientsTypeOK, OthersTypeOK, NoSession, Busy, Open,
      Points
<1>8. Indexed'
  BY Numbers DEF LeaseInv, LoadModels, Indexed, TypesOK, Numbered, At, Goto,
      sessionVars, ServiceTypeOK, SessionsTypeOK, ClientsTypeOK, OthersTypeOK,
      NoSession, Busy, Open, Points
<1>9. StartersAreFresh'
  <2>1. /\ At(c, "claimed")
        /\ pc'[c] \in {"loaded", "startFailed"}
        /\ \A e \in Clients \ {c} : pc'[e] = pc[e]
    BY DEF LoadModels, Goto, At, LeaseInv, TypesOK, ClientsTypeOK
  <2>2. UNCHANGED <<target, session, pipe, manifest, audio, deleting, active>>
    BY DEF LoadModels, sessionVars
  <2> QED
    BY <2>1, <2>2 DEF LeaseInv, StartersAreFresh, Starting, At
<1>10. TargetsAreSessions'
  BY Numbers DEF LeaseInv, LoadModels, TargetsAreSessions, TypesOK, At, Goto,
      sessionVars, NoSession, ServiceTypeOK, SessionsTypeOK, ClientsTypeOK,
      OthersTypeOK, Busy, Open, Points
<1>11. DeletedIsOver' /\ ActiveIsCurrent'
  BY Numbers DEF LeaseInv, LoadModels, DeletedIsOver, ActiveIsCurrent, TypesOK, At,
      Goto, sessionVars, NoSession, Live, Busy, ServiceTypeOK, ModelsTypeOK,
      SessionsTypeOK, ClientsTypeOK, OthersTypeOK, Open, Points
<1> QED
  BY <1>6, <1>7, <1>8, <1>9, <1>10, <1>11 DEF LeaseInv

\* Creating the session keeps the invariant.
LEMMA CreateSessionKeeps ==
  ASSUME LeaseInv, NEW c \in Clients, CreateSession(c)
  PROVE  LeaseInv'
<1>1. recency' \in Seq(Sessions) /\ Indexed'
  <2>1. target[c] \in Sessions
    BY DEF CreateSession, LeaseInv, StartersAreFresh, Starting, At, TypesOK, ClientsTypeOK
  <2> QED
    BY <2>1, OrderIsKept DEF CreateSession, LeaseInv, Open
<1>2. ServiceTypeOK'
  BY <1>1, Numbers DEF LeaseInv, CreateSession, WriteManifest, ServiceTypeOK, TypesOK,
      At, Goto, serviceVars, NoSession, Busy
<1>3. ModelsTypeOK'
  BY <1>1, Numbers DEF LeaseInv, CreateSession, WriteManifest, ModelsTypeOK, TypesOK,
      At, Goto, serviceVars
<1>4. SessionsTypeOK'
  <2>1. target[c] \in Sessions
    BY DEF CreateSession, LeaseInv, StartersAreFresh, Starting, At, TypesOK, ClientsTypeOK
  <2>2. manifest' \in [Sessions -> Open \cup {"none", "complete", "failed"}]
    BY <2>1 DEF CreateSession, WriteManifest, LeaseInv, TypesOK, SessionsTypeOK, Open
  <2>3. pipe' \in [Sessions -> {"none", "recording", "settling", "complete", "failed", "aborted"}]
    BY <2>1 DEF CreateSession, LeaseInv, TypesOK, SessionsTypeOK
  <2> QED
    BY <1>1, <2>2, <2>3 DEF CreateSession, LeaseInv, TypesOK, SessionsTypeOK
<1>5. ClientsTypeOK'
  BY <1>1, Numbers DEF LeaseInv, CreateSession, WriteManifest, ClientsTypeOK, TypesOK,
      At, Goto, serviceVars, Points, NoSession
<1>6. OthersTypeOK'
  BY <1>1, Numbers DEF LeaseInv, CreateSession, WriteManifest, OthersTypeOK, TypesOK,
      At, Goto, serviceVars, NoSession
<1>7. TypesOK'
  BY <1>2, <1>3, <1>4, <1>5, <1>6 DEF TypesOK
<1>8. Numbered'
  <2>1. target[c] \in Sessions /\ target[c] \in 0..claims
    BY DEF CreateSession, LeaseInv, Numbered, StartersAreFresh, Starting, At, TypesOK,
           ClientsTypeOK
  <2>2. \A s \in Sessions \ {target[c]} : pipe'[s] = pipe[s] /\ manifest'[s] = manifest[s]
    BY DEF CreateSession, WriteManifest, LeaseInv, TypesOK, SessionsTypeOK
  <2>3. UNCHANGED <<active, claims, audio, session, target, deleting>>
    BY DEF CreateSession, serviceVars
  <2> QED
    BY <2>1, <2>2, <2>3, Numbers DEF LeaseInv, Numbered, TypesOK, ServiceTypeOK
<1>9. StartersAreFresh'
  <2>1. At(c, "loaded") /\ Starting(c) /\ target[c] \in Sessions
    BY DEF CreateSession, LeaseInv, StartersAreFresh, Starting, At, TypesOK, ClientsTypeOK
  <2>2. UNCHANGED <<active, audio, session, target, deleting>>
    BY DEF CreateSession, serviceVars
  <2>3. \A t \in Sessions \ {target[c]} : pipe'[t] = pipe[t] /\ manifest'[t] = manifest[t]
    BY DEF CreateSession, WriteManifest, LeaseInv, TypesOK, SessionsTypeOK
  <2>4. Starting(c)' => pc'[c] = "created" /\ pipe'[target[c]] = "recording"
    BY <2>1 DEF CreateSession, Goto, Starting, LeaseInv, TypesOK, ClientsTypeOK, SessionsTypeOK
  <2>5. \A e \in Clients \ {c} : pc'[e] = pc[e] /\ (Starting(e) => target[e] \in Sessions \ {target[c]})
    BY <2>1 DEF CreateSession, Goto, LeaseInv, StartersAreFresh, TypesOK, ClientsTypeOK
  <2> QED
    BY <2>1, <2>2, <2>3, <2>4, <2>5 DEF LeaseInv, StartersAreFresh, Starting, At
<1>10. TargetsAreSessions'
  BY <1>1, Numbers DEF LeaseInv, CreateSession, WriteManifest, TargetsAreSessions,
      TypesOK, At, Goto, serviceVars, NoSession, ServiceTypeOK, SessionsTypeOK,
      ClientsTypeOK, OthersTypeOK, Busy, Open, Points
<1>11. DeletedIsOver' /\ ActiveIsCurrent'
  BY <1>1, Numbers DEF LeaseInv, CreateSession, WriteManifest, DeletedIsOver,
      ActiveIsCurrent, TypesOK, Numbered, Indexed, StartersAreFresh, TargetsAreSessions,
      At, Goto, serviceVars, NoSession, Live, Busy, ServiceTypeOK, ModelsTypeOK,
      SessionsTypeOK, ClientsTypeOK, OthersTypeOK, Starting, Open, Points
<1> QED
  BY <1>1, <1>7, <1>8, <1>9, <1>10, <1>11 DEF LeaseInv

\* Making it active keeps the invariant.
LEMMA SetActiveKeeps ==
  ASSUME LeaseInv, NEW c \in Clients, SetActive(c)
  PROVE  LeaseInv'
<1>1. ServiceTypeOK'
  BY Numbers DEF LeaseInv, SetActive, ServiceTypeOK, TypesOK, At, Goto, sessionVars,
      NoSession, Busy
<1>2. ModelsTypeOK'
  BY Numbers DEF LeaseInv, SetActive, ModelsTypeOK, TypesOK, At, Goto, sessionVars
<1>3. SessionsTypeOK'
  BY Numbers DEF LeaseInv, SetActive, SessionsTypeOK, TypesOK, At, Goto, sessionVars,
      Open
<1>4. ClientsTypeOK'
  BY Numbers DEF LeaseInv, SetActive, ClientsTypeOK, TypesOK, At, Goto, sessionVars,
      Points, NoSession
<1>5. OthersTypeOK'
  BY Numbers DEF LeaseInv, SetActive, OthersTypeOK, TypesOK, At, Goto, sessionVars,
      NoSession
<1>6. TypesOK'
  BY <1>1, <1>2, <1>3, <1>4, <1>5 DEF TypesOK
<1>7. Numbered'
  BY Numbers DEF LeaseInv, SetActive, Numbered, TypesOK, At, Goto, sessionVars,
      ServiceTypeOK, SessionsTypeOK, ClientsTypeOK, OthersTypeOK, NoSession, Busy, Open,
      Points
<1>8. Indexed'
  BY Numbers DEF LeaseInv, SetActive, Indexed, TypesOK, Numbered, At, Goto, sessionVars,
      ServiceTypeOK, SessionsTypeOK, ClientsTypeOK, OthersTypeOK, NoSession, Busy, Open,
      Points
<1>9. StartersAreFresh'
  <2>1. At(c, "created") /\ Starting(c) /\ ~Starting(c)'
    BY DEF SetActive, Goto, Starting, At, LeaseInv, TypesOK, ClientsTypeOK
  <2>2. /\ active' \in {active, target[c]}
        /\ \A d \in Clients : session'[d] \in {session[d], target[c]}
    BY DEF SetActive, LeaseInv, TypesOK, ClientsTypeOK
  <2>3. UNCHANGED <<target, pipe, manifest, audio, deleting>>
    BY DEF SetActive, sessionVars
  <2>4. \A e \in Clients \ {c} : pc'[e] = pc[e]
    BY DEF SetActive, Goto, LeaseInv, TypesOK, ClientsTypeOK
  <2> QED
    BY <2>1, <2>2, <2>3, <2>4 DEF LeaseInv, StartersAreFresh, Starting, At
<1>10. TargetsAreSessions'
  BY Numbers DEF LeaseInv, SetActive, TargetsAreSessions, TypesOK, Numbered,
      StartersAreFresh, DeletedIsOver, ActiveIsCurrent, At, Goto, sessionVars,
      NoSession, ServiceTypeOK, SessionsTypeOK, ClientsTypeOK, OthersTypeOK, Starting,
      Live, Busy, Open, Points
<1>11. DeletedIsOver' /\ ActiveIsCurrent'
  BY Numbers DEF LeaseInv, SetActive, DeletedIsOver, ActiveIsCurrent, TypesOK, Numbered,
      Indexed, StartersAreFresh, TargetsAreSessions, At, Goto, sessionVars, NoSession,
      Live, Busy, ServiceTypeOK, ModelsTypeOK, SessionsTypeOK, ClientsTypeOK,
      OthersTypeOK, Starting, Open, Points
<1> QED
  BY <1>6, <1>7, <1>8, <1>9, <1>10, <1>11 DEF LeaseInv

\* Writing upload.json keeps the invariant.
LEMMA WriteProvenanceKeeps ==
  ASSUME LeaseInv, NEW c \in Clients, WriteProvenance(c)
  PROVE  LeaseInv'
<1>1. ServiceTypeOK'
  BY Numbers DEF LeaseInv, WriteProvenance, ServiceTypeOK, TypesOK, At, Goto,
      serviceVars, sessionVars, NoSession, Busy
<1>2. ModelsTypeOK'
  BY Numbers DEF LeaseInv, WriteProvenance, ModelsTypeOK, TypesOK, At, Goto,
      serviceVars, sessionVars
<1>3. SessionsTypeOK'
  BY Numbers DEF LeaseInv, WriteProvenance, SessionsTypeOK, TypesOK, At, Goto,
      serviceVars, sessionVars, Open
<1>4. ClientsTypeOK'
  BY Numbers DEF LeaseInv, WriteProvenance, ClientsTypeOK, TypesOK, At, Goto,
      serviceVars, sessionVars, Points, NoSession
<1>5. OthersTypeOK'
  BY Numbers DEF LeaseInv, WriteProvenance, OthersTypeOK, TypesOK, At, Goto,
      serviceVars, sessionVars, NoSession
<1>6. TypesOK'
  BY <1>1, <1>2, <1>3, <1>4, <1>5 DEF TypesOK
<1>7. Numbered'
  BY Numbers DEF LeaseInv, WriteProvenance, Numbered, TypesOK, At, Goto, serviceVars,
      sessionVars, ServiceTypeOK, SessionsTypeOK, ClientsTypeOK, OthersTypeOK,
      NoSession, Busy, Open, Points
<1>8. Indexed'
  BY Numbers DEF LeaseInv, WriteProvenance, Indexed, TypesOK, Numbered, At, Goto,
      serviceVars, sessionVars, ServiceTypeOK, SessionsTypeOK, ClientsTypeOK,
      OthersTypeOK, NoSession, Busy, Open, Points
<1>9. StartersAreFresh'
  <2>1. \A e \in Clients : pc'[e] = pc[e] \/ pc'[e] \in {"running", "startFailed"}
    BY DEF WriteProvenance, Goto, LeaseInv, TypesOK, ClientsTypeOK
  <2>2. /\ UNCHANGED <<target, session, pipe, manifest, audio, deleting>>
        /\ active' \in {active, NoSession}
    BY DEF WriteProvenance, serviceVars, sessionVars
  <2> QED
    BY <2>1, <2>2 DEF LeaseInv, StartersAreFresh, Starting, At
<1>10. TargetsAreSessions'
  BY Numbers DEF LeaseInv, WriteProvenance, TargetsAreSessions, TypesOK, At, Goto,
      serviceVars, sessionVars, NoSession, ServiceTypeOK, SessionsTypeOK, ClientsTypeOK,
      OthersTypeOK, Busy, Open, Points
<1>11. DeletedIsOver' /\ ActiveIsCurrent'
  BY Numbers DEF LeaseInv, WriteProvenance, DeletedIsOver, ActiveIsCurrent, TypesOK, At,
      Goto, serviceVars, sessionVars, NoSession, Live, Busy, ServiceTypeOK,
      ModelsTypeOK, SessionsTypeOK, ClientsTypeOK, OthersTypeOK, Open, Points
<1> QED
  BY <1>6, <1>7, <1>8, <1>9, <1>10, <1>11 DEF LeaseInv

\* A failed start keeps the invariant.
LEMMA StartFailedKeeps ==
  ASSUME LeaseInv, NEW c \in Clients, StartFailed(c)
  PROVE  LeaseInv'
<1>1. ServiceTypeOK'
  BY Numbers DEF LeaseInv, StartFailed, Release, ScheduleEviction, ServiceTypeOK,
      TypesOK, At, Goto, serviceVars, sessionVars, NoSession, Busy
<1>2. ModelsTypeOK'
  <2>1. CASE Release("failed")
    BY <2>1, ReleaseKeepsTypes DEF LeaseInv
  <2>2. CASE UNCHANGED serviceVars
    BY <2>2, Zenon DEF serviceVars, LeaseInv, TypesOK, ModelsTypeOK
  <2> QED
    BY <2>1, <2>2 DEF StartFailed
<1>3. SessionsTypeOK'
  BY Numbers DEF LeaseInv, StartFailed, Release, ScheduleEviction, SessionsTypeOK,
      TypesOK, At, Goto, serviceVars, sessionVars, NoSession, Open
<1>4. ClientsTypeOK'
  BY Numbers DEF LeaseInv, StartFailed, Release, ScheduleEviction, ClientsTypeOK,
      TypesOK, At, Goto, serviceVars, sessionVars, NoSession, Points
<1>5. OthersTypeOK'
  BY Numbers DEF LeaseInv, StartFailed, Release, ScheduleEviction, OthersTypeOK,
      TypesOK, At, Goto, serviceVars, sessionVars, NoSession
<1>6. TypesOK'
  BY <1>1, <1>2, <1>3, <1>4, <1>5 DEF TypesOK
<1>7. Numbered'
  BY Numbers DEF LeaseInv, StartFailed, Release, ScheduleEviction, Numbered, TypesOK,
      At, Goto, serviceVars, sessionVars, NoSession, ServiceTypeOK, SessionsTypeOK,
      ClientsTypeOK, OthersTypeOK, Busy, Open, Points
<1>8. Indexed'
  BY Numbers DEF LeaseInv, StartFailed, Release, ScheduleEviction, Indexed, TypesOK,
      Numbered, At, Goto, serviceVars, sessionVars, NoSession, ServiceTypeOK,
      SessionsTypeOK, ClientsTypeOK, OthersTypeOK, Busy, Open, Points
<1>9. StartersAreFresh'
  <2>1. \A e \in Clients : pc'[e] = pc[e] \/ pc'[e] \in {"finally", "error"}
    BY DEF StartFailed, Goto, LeaseInv, TypesOK, ClientsTypeOK
  <2>2. /\ UNCHANGED <<target, session, pipe, manifest, audio, deleting>>
        /\ active' \in {active, NoSession}
    BY DEF StartFailed, Release, serviceVars, sessionVars
  <2> QED
    BY <2>1, <2>2 DEF LeaseInv, StartersAreFresh, Starting, At
<1>10. TargetsAreSessions'
  BY Numbers DEF LeaseInv, StartFailed, Release, ScheduleEviction, TargetsAreSessions,
      TypesOK, At, Goto, serviceVars, sessionVars, NoSession, ServiceTypeOK,
      SessionsTypeOK, ClientsTypeOK, OthersTypeOK, Busy, Open, Points
<1>11. DeletedIsOver' /\ ActiveIsCurrent'
  BY Numbers DEF LeaseInv, StartFailed, Release, ScheduleEviction, DeletedIsOver,
      ActiveIsCurrent, TypesOK, At, Goto, serviceVars, sessionVars, NoSession, Live,
      Busy, ServiceTypeOK, ModelsTypeOK, SessionsTypeOK, ClientsTypeOK, OthersTypeOK,
      Open, Points
<1> QED
  BY <1>6, <1>7, <1>8, <1>9, <1>10, <1>11 DEF LeaseInv

\* Reading the active session keeps the invariant.
LEMMA ReadActiveKeeps ==
  ASSUME LeaseInv, NEW c \in Clients, ReadActive(c)
  PROVE  LeaseInv'
<1>1. TypesOK'
  BY Numbers DEF LeaseInv, ReadActive, TypesOK, At, Goto, NoSession, serviceVars,
      sessionVars, ServiceTypeOK, ModelsTypeOK, SessionsTypeOK, ClientsTypeOK,
      OthersTypeOK, Busy, Open, Points
<1>2. Numbered' /\ Indexed' /\ StartersAreFresh' /\ TargetsAreSessions'
  BY Numbers DEF LeaseInv, ReadActive, Numbered, Indexed, StartersAreFresh,
      TargetsAreSessions, TypesOK, At, Goto, NoSession, serviceVars, sessionVars,
      Starting, ServiceTypeOK, ModelsTypeOK, SessionsTypeOK, ClientsTypeOK,
      OthersTypeOK, Busy, Open, Points
<1>3. DeletedIsOver' /\ ActiveIsCurrent'
  BY Numbers DEF LeaseInv, ReadActive, DeletedIsOver, ActiveIsCurrent, TypesOK, At,
      Goto, NoSession, serviceVars, sessionVars, Live, Busy, ServiceTypeOK,
      ModelsTypeOK, SessionsTypeOK, ClientsTypeOK, OthersTypeOK, Open, Points
<1> QED
  BY <1>1, <1>2, <1>3 DEF LeaseInv

\* A block keeps the invariant.
LEMMA AcceptBlockKeeps ==
  ASSUME LeaseInv, NEW c \in Clients, AcceptBlock(c)
  PROVE  LeaseInv'
<1>1. ServiceTypeOK'
  BY Numbers DEF LeaseInv, AcceptBlock, InSequence, ServiceTypeOK, TypesOK, At, Goto,
      serviceVars, NoSession, Busy
<1>2. ModelsTypeOK'
  BY Numbers DEF LeaseInv, AcceptBlock, InSequence, ModelsTypeOK, TypesOK, At, Goto,
      serviceVars
<1>3. SessionsTypeOK'
  <2>1. audio' = [audio EXCEPT ![target[c]] = Append(audio[target[c]], c)] \/ audio' = audio
    BY DEF AcceptBlock
  <2>2. target[c] \in Sessions
    BY DEF AcceptBlock, LeaseInv, TargetsAreSessions, At, TypesOK, ClientsTypeOK
  <2>3. Append(audio[target[c]], c) \in Seq(Clients)
    BY <2>2 DEF LeaseInv, TypesOK, SessionsTypeOK
  <2>4. audio' \in [Sessions -> Seq(Clients)]
    BY <2>1, <2>3 DEF LeaseInv, TypesOK, SessionsTypeOK
  <2> QED
    BY <2>4 DEF AcceptBlock, LeaseInv, TypesOK, SessionsTypeOK
<1>4. ClientsTypeOK'
  <2>1. pc' = [pc EXCEPT ![c] = "running"] \/ pc' = [pc EXCEPT ![c] = "error"]
    BY Zenon DEF AcceptBlock, Goto
  <2>2. pc' \in [Clients -> Points]
    BY <2>1 DEF LeaseInv, TypesOK, ClientsTypeOK, Points
  <2>3. sent[c] + 1 \in 0..MaxBlocks
    BY Numbers DEF AcceptBlock, LeaseInv, TypesOK, ClientsTypeOK, TargetsAreSessions, At
  <2>4. sent' \in [Clients -> 0..MaxBlocks]
    BY <2>3 DEF AcceptBlock, LeaseInv, TypesOK, ClientsTypeOK
  <2>5. session' \in [Clients -> Sessions \cup {NoSession}]
    BY DEF AcceptBlock, LeaseInv, TypesOK, ClientsTypeOK
  <2> QED
    BY <2>2, <2>4, <2>5 DEF AcceptBlock, LeaseInv, TypesOK, ClientsTypeOK
<1>5. OthersTypeOK'
  BY Numbers DEF LeaseInv, AcceptBlock, InSequence, OthersTypeOK, TypesOK, At, Goto,
      serviceVars, NoSession
<1>6. TypesOK'
  BY <1>1, <1>2, <1>3, <1>4, <1>5 DEF TypesOK
<1>7. Numbered'
  <2>1. target[c] \in Sessions /\ target[c] \in 0..claims
    BY DEF AcceptBlock, LeaseInv, Numbered, TargetsAreSessions, At, TypesOK, ClientsTypeOK
  <2>2. \A s \in Sessions \ {target[c]} : audio'[s] = audio[s]
    BY DEF AcceptBlock, LeaseInv, TypesOK, SessionsTypeOK
  <2>3. \A d \in Clients : session'[d] \in {session[d], target[c]}
    BY DEF AcceptBlock, LeaseInv, TypesOK, ClientsTypeOK
  <2>4. UNCHANGED <<active, claims, pipe, manifest, target, deleting>>
    BY DEF AcceptBlock, serviceVars
  <2> QED
    BY <2>1, <2>2, <2>3, <2>4, Numbers DEF LeaseInv, Numbered, TypesOK, ServiceTypeOK
<1>8. Indexed'
  BY Numbers DEF LeaseInv, AcceptBlock, InSequence, Indexed, TypesOK, Numbered, At,
      Goto, serviceVars, ServiceTypeOK, SessionsTypeOK, ClientsTypeOK, OthersTypeOK,
      NoSession, Busy, Open, Points
<1>9. StartersAreFresh'
  <2>1. At(c, "block") /\ target[c] \in Sessions
    BY DEF AcceptBlock, LeaseInv, TargetsAreSessions, At, TypesOK, ClientsTypeOK
  <2>2. \A s \in Sessions \ {target[c]} : audio'[s] = audio[s]
    BY DEF AcceptBlock, LeaseInv, TypesOK, SessionsTypeOK
  <2>3. \A d \in Clients : session'[d] \in {session[d], target[c]}
    BY DEF AcceptBlock, LeaseInv, TypesOK, ClientsTypeOK
  <2>4. UNCHANGED <<active, pipe, manifest, target, deleting>>
    BY DEF AcceptBlock, serviceVars
  <2>5. \A e \in Clients : pc'[e] = pc[e] \/ pc'[e] \in {"running", "error"}
    BY DEF AcceptBlock, Goto, LeaseInv, TypesOK, ClientsTypeOK
  <2>6. \A e \in Clients : Starting(e) => target[e] \in Sessions \ {target[c]}
    BY <2>1 DEF LeaseInv, StartersAreFresh, Starting, At, TypesOK, ClientsTypeOK
  <2> QED
    BY <2>1, <2>2, <2>3, <2>4, <2>5, <2>6 DEF LeaseInv, StartersAreFresh, Starting, At
<1>10. TargetsAreSessions'
  BY Numbers DEF LeaseInv, AcceptBlock, InSequence, TargetsAreSessions, TypesOK, At,
      Goto, serviceVars, NoSession, ServiceTypeOK, SessionsTypeOK, ClientsTypeOK,
      OthersTypeOK, Busy, Open, Points
<1>11. DeletedIsOver' /\ ActiveIsCurrent'
  BY Numbers DEF LeaseInv, AcceptBlock, InSequence, DeletedIsOver, ActiveIsCurrent,
      TypesOK, At, Goto, serviceVars, NoSession, Live, Busy, ServiceTypeOK,
      ModelsTypeOK, SessionsTypeOK, ClientsTypeOK, OthersTypeOK, Open, Points
<1> QED
  BY <1>6, <1>7, <1>8, <1>9, <1>10, <1>11 DEF LeaseInv

\* Reading the session to stop keeps the invariant.
LEMMA ReadStopKeeps ==
  ASSUME LeaseInv, NEW c \in Clients, ReadStop(c)
  PROVE  LeaseInv'
<1>1. TypesOK'
  BY Numbers DEF LeaseInv, ReadStop, TypesOK, At, Goto, NoSession, serviceVars,
      sessionVars, ServiceTypeOK, ModelsTypeOK, SessionsTypeOK, ClientsTypeOK,
      OthersTypeOK, Busy, Open, Points
<1>2. Numbered' /\ Indexed' /\ StartersAreFresh' /\ TargetsAreSessions'
  BY Numbers DEF LeaseInv, ReadStop, Numbered, Indexed, StartersAreFresh,
      TargetsAreSessions, TypesOK, At, Goto, NoSession, serviceVars, sessionVars,
      Starting, ServiceTypeOK, ModelsTypeOK, SessionsTypeOK, ClientsTypeOK,
      OthersTypeOK, Busy, Open, Points
<1>3. DeletedIsOver' /\ ActiveIsCurrent'
  BY Numbers DEF LeaseInv, ReadStop, DeletedIsOver, ActiveIsCurrent, TypesOK, At, Goto,
      NoSession, serviceVars, sessionVars, Live, Busy, ServiceTypeOK, ModelsTypeOK,
      SessionsTypeOK, ClientsTypeOK, OthersTypeOK, Open, Points
<1> QED
  BY <1>1, <1>2, <1>3 DEF LeaseInv

\* Stopping keeps the invariant.
LEMMA BeginStopKeeps ==
  ASSUME LeaseInv, NEW c \in Clients, BeginStop(c)
  PROVE  LeaseInv'
<1>1. TypesOK'
  BY Numbers DEF LeaseInv, BeginStop, TypesOK, At, Goto, sessionVars, ServiceTypeOK,
      ModelsTypeOK, SessionsTypeOK, ClientsTypeOK, OthersTypeOK, NoSession, Busy, Open,
      Points
<1>2. Numbered' /\ Indexed' /\ StartersAreFresh' /\ TargetsAreSessions'
  BY Numbers DEF LeaseInv, BeginStop, Numbered, Indexed, StartersAreFresh,
      TargetsAreSessions, TypesOK, At, Goto, sessionVars, Starting, NoSession,
      ServiceTypeOK, ModelsTypeOK, SessionsTypeOK, ClientsTypeOK, OthersTypeOK, Busy,
      Open, Points
<1>3. DeletedIsOver' /\ ActiveIsCurrent'
  BY Numbers DEF LeaseInv, BeginStop, DeletedIsOver, ActiveIsCurrent, TypesOK, At, Goto,
      sessionVars, NoSession, Live, Busy, ServiceTypeOK, ModelsTypeOK, SessionsTypeOK,
      ClientsTypeOK, OthersTypeOK, Open, Points
<1> QED
  BY <1>1, <1>2, <1>3 DEF LeaseInv

\* Stopping the pipeline keeps the invariant.
LEMMA StopPipelineKeeps ==
  ASSUME LeaseInv, NEW c \in Clients, StopPipeline(c)
  PROVE  LeaseInv'
<1>1. recency' \in Seq(Sessions) /\ Indexed'
  <2>1. target[c] \in Sessions
    BY DEF StopPipeline, LeaseInv, TargetsAreSessions, At, TypesOK, ClientsTypeOK
  <2> QED
    BY <2>1, OrderIsKept DEF StopPipeline, LeaseInv, Open
<1>2. ServiceTypeOK'
  BY <1>1, Numbers DEF LeaseInv, StopPipeline, WriteManifest, ServiceTypeOK, TypesOK,
      At, Goto, serviceVars, NoSession, Busy
<1>3. ModelsTypeOK'
  BY <1>1, Numbers DEF LeaseInv, StopPipeline, WriteManifest, ModelsTypeOK, TypesOK, At,
      Goto, serviceVars
<1>4. SessionsTypeOK'
  <2>1. CASE pipe[target[c]] = "recording"
    BY <1>1, <2>1 DEF StopPipeline, WriteManifest, LeaseInv, TypesOK, SessionsTypeOK, Open
  <2>2. CASE pipe[target[c]] # "recording"
    BY <1>1, <2>2 DEF StopPipeline, LeaseInv, TypesOK, SessionsTypeOK
  <2> QED
    BY <2>1, <2>2
<1>5. ClientsTypeOK'
  BY DEF StopPipeline, Goto, LeaseInv, TypesOK, ClientsTypeOK, Points
<1>6. OthersTypeOK'
  BY <1>1, Numbers DEF LeaseInv, StopPipeline, WriteManifest, OthersTypeOK, TypesOK, At,
      Goto, serviceVars, NoSession
<1>7. TypesOK'
  BY <1>2, <1>3, <1>4, <1>5, <1>6 DEF TypesOK
<1>8. Numbered'
  <2>1. target[c] \in Sessions /\ target[c] \in 0..claims
    BY DEF StopPipeline, LeaseInv, Numbered, TargetsAreSessions, At, TypesOK, ClientsTypeOK
  <2>2. \A s \in Sessions \ {target[c]} : pipe'[s] = pipe[s] /\ manifest'[s] = manifest[s]
    BY DEF StopPipeline, WriteManifest, LeaseInv, TypesOK, SessionsTypeOK
  <2>3. UNCHANGED <<active, claims, audio, session, target, deleting>>
    BY DEF StopPipeline, serviceVars
  <2> QED
    BY <2>1, <2>2, <2>3, Numbers DEF LeaseInv, Numbered, TypesOK, ServiceTypeOK
<1>9. StartersAreFresh'
  <2> SUFFICES ASSUME NEW e \in Clients, Starting(e)'
               PROVE  /\ target[e] # NoSession /\ target[e] # active
                      /\ target[e] # deleting.session /\ audio[target[e]] = <<>>
                      /\ \A d \in Clients : session[d] # target[e] /\ (d # e => target[d] # target[e])
                      /\ IF pc'[e] = "created" THEN pipe'[target[e]] = "recording"
                         ELSE pipe'[target[e]] = "none" /\ manifest'[target[e]] = "none"
    BY DEF StopPipeline, serviceVars, StartersAreFresh, At
  <2>1. e # c /\ pc'[e] = pc[e]
    BY DEF StopPipeline, Starting, At, Goto, LeaseInv, TypesOK, ClientsTypeOK
  <2>2. Starting(e) /\ target[e] # target[c]
    BY <2>1 DEF LeaseInv, StartersAreFresh, Starting
  <2>3. pipe'[target[e]] = pipe[target[e]] /\ manifest'[target[e]] = manifest[target[e]]
    BY <2>1, <2>2
       DEF StopPipeline, WriteManifest, LeaseInv, TypesOK, ClientsTypeOK, SessionsTypeOK,
           StartersAreFresh
  <2> QED
    BY <2>1, <2>2, <2>3 DEF LeaseInv, StartersAreFresh, At
<1>10. TargetsAreSessions'
  <2>1. \A e \in Clients : pc'[e] = pc[e] \/ pc'[e] \in {"done", "waiting", "error"}
    BY DEF StopPipeline, Goto, LeaseInv, TypesOK, ClientsTypeOK
  <2> QED
    BY <2>1 DEF StopPipeline, LeaseInv, TargetsAreSessions, At
<1>11. DeletedIsOver' /\ ActiveIsCurrent'
  BY <1>1, Numbers DEF LeaseInv, StopPipeline, WriteManifest, DeletedIsOver,
      ActiveIsCurrent, TypesOK, At, Goto, serviceVars, NoSession, Live, Busy,
      ServiceTypeOK, ModelsTypeOK, SessionsTypeOK, ClientsTypeOK, OthersTypeOK, Open,
      Points
<1> QED
  BY <1>1, <1>7, <1>8, <1>9, <1>10, <1>11 DEF LeaseInv

\* The end of a wait keeps the invariant.
LEMMA SettledKeeps ==
  ASSUME LeaseInv, NEW c \in Clients, Settled(c)
  PROVE  LeaseInv'
<1>1. TypesOK'
  BY Numbers DEF LeaseInv, Settled, TypesOK, At, Goto, serviceVars, sessionVars,
      ServiceTypeOK, ModelsTypeOK, SessionsTypeOK, ClientsTypeOK, OthersTypeOK,
      NoSession, Busy, Open, Points
<1>2. Numbered' /\ Indexed' /\ StartersAreFresh' /\ TargetsAreSessions'
  BY Numbers DEF LeaseInv, Settled, Numbered, Indexed, StartersAreFresh,
      TargetsAreSessions, TypesOK, At, Goto, serviceVars, sessionVars, Starting,
      NoSession, ServiceTypeOK, ModelsTypeOK, SessionsTypeOK, ClientsTypeOK,
      OthersTypeOK, Busy, Open, Points
<1>3. DeletedIsOver' /\ ActiveIsCurrent'
  BY Numbers DEF LeaseInv, Settled, DeletedIsOver, ActiveIsCurrent, TypesOK, At, Live,
      Goto, serviceVars, sessionVars, NoSession, Busy, ServiceTypeOK, ModelsTypeOK,
      SessionsTypeOK, ClientsTypeOK, OthersTypeOK, Open, Points
<1> QED
  BY <1>1, <1>2, <1>3 DEF LeaseInv

\* A source that fails keeps the invariant.
LEMMA SourceFailsKeeps ==
  ASSUME LeaseInv, NEW c \in Clients, SourceFails(c)
  PROVE  LeaseInv'
<1>1. TypesOK'
  BY Numbers DEF LeaseInv, SourceFails, TypesOK, At, Goto, serviceVars, sessionVars,
      ServiceTypeOK, ModelsTypeOK, SessionsTypeOK, ClientsTypeOK, OthersTypeOK,
      NoSession, Busy, Open, Points
<1>2. Numbered' /\ Indexed' /\ StartersAreFresh' /\ TargetsAreSessions'
  BY Numbers DEF LeaseInv, SourceFails, Numbered, Indexed, StartersAreFresh,
      TargetsAreSessions, TypesOK, At, Goto, serviceVars, sessionVars, Starting,
      NoSession, ServiceTypeOK, ModelsTypeOK, SessionsTypeOK, ClientsTypeOK,
      OthersTypeOK, Busy, Open, Points
<1>3. DeletedIsOver' /\ ActiveIsCurrent'
  BY Numbers DEF LeaseInv, SourceFails, DeletedIsOver, ActiveIsCurrent, TypesOK, At,
      Goto, serviceVars, sessionVars, NoSession, Live, Busy, ServiceTypeOK,
      ModelsTypeOK, SessionsTypeOK, ClientsTypeOK, OthersTypeOK, Open, Points
<1> QED
  BY <1>1, <1>2, <1>3 DEF LeaseInv

\* Reading the session to abort keeps the invariant.
LEMMA ReadAbortKeeps ==
  ASSUME LeaseInv, NEW c \in Clients, ReadAbort(c)
  PROVE  LeaseInv'
<1>1. ServiceTypeOK'
  BY Numbers DEF LeaseInv, ReadAbort, ServiceTypeOK, TypesOK, Goto, At, serviceVars,
      sessionVars, NoSession, Busy
<1>2. ModelsTypeOK'
  BY Numbers DEF LeaseInv, ReadAbort, ModelsTypeOK, TypesOK, Goto, At, serviceVars,
      sessionVars
<1>3. SessionsTypeOK'
  BY Numbers DEF LeaseInv, ReadAbort, SessionsTypeOK, TypesOK, Goto, At, serviceVars,
      sessionVars, Open
<1>4. ClientsTypeOK'
  BY Numbers DEF LeaseInv, ReadAbort, ClientsTypeOK, TypesOK, Numbered,
      StartersAreFresh, DeletedIsOver, ActiveIsCurrent, Goto, At, serviceVars,
      sessionVars, Points, NoSession, ServiceTypeOK, SessionsTypeOK, OthersTypeOK,
      Starting, Live, Busy, Open
<1>5. OthersTypeOK'
  BY Numbers DEF LeaseInv, ReadAbort, OthersTypeOK, TypesOK, Goto, At, serviceVars,
      sessionVars, NoSession
<1>6. TypesOK'
  BY <1>1, <1>2, <1>3, <1>4, <1>5 DEF TypesOK
<1>7. Numbered'
  BY Numbers DEF LeaseInv, ReadAbort, Numbered, TypesOK, Goto, At, serviceVars,
      sessionVars, ServiceTypeOK, SessionsTypeOK, ClientsTypeOK, OthersTypeOK,
      NoSession, Busy, Open, Points
<1>8. Indexed'
  BY Numbers DEF LeaseInv, ReadAbort, Indexed, TypesOK, Numbered, Goto, At, serviceVars,
      sessionVars, ServiceTypeOK, SessionsTypeOK, ClientsTypeOK, OthersTypeOK,
      NoSession, Busy, Open, Points
<1>9. StartersAreFresh'
  BY Numbers DEF LeaseInv, ReadAbort, StartersAreFresh, TypesOK, Numbered, Goto, At,
      serviceVars, sessionVars, Starting, NoSession, ServiceTypeOK, SessionsTypeOK,
      ClientsTypeOK, OthersTypeOK, Busy, Open, Points
<1>10. TargetsAreSessions'
  BY Numbers DEF LeaseInv, ReadAbort, TargetsAreSessions, TypesOK, Goto, At,
      serviceVars, sessionVars, NoSession, ServiceTypeOK, SessionsTypeOK, ClientsTypeOK,
      OthersTypeOK, Busy, Open, Points
<1>11. DeletedIsOver' /\ ActiveIsCurrent'
  BY Numbers DEF LeaseInv, ReadAbort, DeletedIsOver, ActiveIsCurrent, TypesOK, Goto, At,
      serviceVars, sessionVars, NoSession, Live, Busy, ServiceTypeOK, ModelsTypeOK,
      SessionsTypeOK, ClientsTypeOK, OthersTypeOK, Open, Points
<1> QED
  BY <1>6, <1>7, <1>8, <1>9, <1>10, <1>11 DEF LeaseInv

\* An abort without a session keeps the invariant.
LEMMA AbortNothingKeeps ==
  ASSUME LeaseInv, NEW c \in Clients, AbortNothing(c)
  PROVE  LeaseInv'
<1>1. TypesOK'
  BY Numbers DEF LeaseInv, AbortNothing, Release, ScheduleEviction, AfterAbort, TypesOK,
      NoSession, Goto, sessionVars, ServiceTypeOK, ModelsTypeOK, SessionsTypeOK,
      ClientsTypeOK, OthersTypeOK, Busy, Open, Points
<1>2. Numbered' /\ Indexed' /\ StartersAreFresh' /\ TargetsAreSessions'
  BY Numbers DEF LeaseInv, AbortNothing, Release, ScheduleEviction, AfterAbort,
      Numbered, Indexed, StartersAreFresh, TargetsAreSessions, TypesOK, NoSession, Goto,
      sessionVars, Starting, At, ServiceTypeOK, ModelsTypeOK, SessionsTypeOK,
      ClientsTypeOK, OthersTypeOK, Busy, Open, Points
<1>3. DeletedIsOver' /\ ActiveIsCurrent'
  BY Numbers DEF LeaseInv, AbortNothing, Release, ScheduleEviction, AfterAbort,
      DeletedIsOver, ActiveIsCurrent, TypesOK, NoSession, Goto, sessionVars, Live, Busy,
      ServiceTypeOK, ModelsTypeOK, SessionsTypeOK, ClientsTypeOK, OthersTypeOK, Open,
      Points
<1> QED
  BY <1>1, <1>2, <1>3 DEF LeaseInv

\* An abort keeps the invariant.
LEMMA AbortPipelineKeeps ==
  ASSUME LeaseInv, NEW c \in Clients, AbortPipeline(c)
  PROVE  LeaseInv'
<1>1. recency' \in Seq(Sessions) /\ Indexed'
  <2>1. target[c] \in Sessions
    BY DEF AbortPipeline, LeaseInv, TypesOK, ClientsTypeOK
  <2> QED
    BY <2>1, OrderIsKept DEF AbortPipeline, LeaseInv
<1>2. ServiceTypeOK'
  BY <1>1, Numbers DEF LeaseInv, AbortPipeline, WriteManifest, AfterAbort,
      ServiceTypeOK, TypesOK, NoSession, Goto, At, serviceVars, Busy
<1>3. ModelsTypeOK'
  BY <1>1, Numbers DEF LeaseInv, AbortPipeline, WriteManifest, AfterAbort, ModelsTypeOK,
      TypesOK, NoSession, Goto, At, serviceVars
<1>4. SessionsTypeOK'
  <2>1. CASE Live(target[c])
    BY <1>1, <2>1 DEF AbortPipeline, WriteManifest, LeaseInv, TypesOK, SessionsTypeOK, Open
  <2>2. CASE UNCHANGED <<pipe, manifest, recency, callback>>
    BY <2>2 DEF AbortPipeline, LeaseInv, TypesOK, SessionsTypeOK
  <2> QED
    BY <2>1, <2>2 DEF AbortPipeline
<1>5. ClientsTypeOK'
  BY <1>1, Numbers DEF LeaseInv, AbortPipeline, WriteManifest, AfterAbort,
      ClientsTypeOK, TypesOK, NoSession, Goto, At, serviceVars, Points
<1>6. OthersTypeOK'
  BY <1>1, Numbers DEF LeaseInv, AbortPipeline, WriteManifest, AfterAbort, OthersTypeOK,
      TypesOK, NoSession, Goto, At, serviceVars
<1>7. TypesOK'
  BY <1>2, <1>3, <1>4, <1>5, <1>6 DEF TypesOK
<1>8. Numbered'
  <2>1. target[c] \in Sessions /\ target[c] \in 0..claims
    BY DEF AbortPipeline, LeaseInv, Numbered, TypesOK, ClientsTypeOK
  <2>2. \A s \in Sessions \ {target[c]} : pipe'[s] = pipe[s] /\ manifest'[s] = manifest[s]
    BY DEF AbortPipeline, WriteManifest, LeaseInv, TypesOK, SessionsTypeOK
  <2>3. UNCHANGED <<active, claims, audio, session, target, deleting>>
    BY DEF AbortPipeline, serviceVars
  <2> QED
    BY <2>1, <2>2, <2>3, Numbers DEF LeaseInv, Numbered, TypesOK, ServiceTypeOK
<1>9. StartersAreFresh'
  <2> SUFFICES ASSUME NEW e \in Clients, Starting(e)'
               PROVE  /\ target[e] # NoSession /\ target[e] # active
                      /\ target[e] # deleting.session /\ audio[target[e]] = <<>>
                      /\ \A d \in Clients : session[d] # target[e] /\ (d # e => target[d] # target[e])
                      /\ IF pc'[e] = "created" THEN pipe'[target[e]] = "recording"
                         ELSE pipe'[target[e]] = "none" /\ manifest'[target[e]] = "none"
    BY DEF AbortPipeline, serviceVars, StartersAreFresh, At
  <2>1. e # c /\ pc'[e] = pc[e]
    BY DEF AbortPipeline, AfterAbort, Starting, At, Goto, LeaseInv, TypesOK, ClientsTypeOK
  <2>2. Starting(e) /\ target[e] # target[c]
    BY <2>1 DEF LeaseInv, StartersAreFresh, Starting
  <2>3. pipe'[target[e]] = pipe[target[e]] /\ manifest'[target[e]] = manifest[target[e]]
    BY <2>1, <2>2
       DEF AbortPipeline, WriteManifest, LeaseInv, TypesOK, ClientsTypeOK, SessionsTypeOK,
           StartersAreFresh
  <2> QED
    BY <2>1, <2>2, <2>3 DEF LeaseInv, StartersAreFresh, At
<1>10. TargetsAreSessions'
  <2>1. \A e \in Clients : pc'[e] = pc[e] \/ pc'[e] \in {"finally", "done"} \/ e = c
    BY DEF AbortPipeline, Goto, LeaseInv, TypesOK, ClientsTypeOK
  <2>2. pc'[c] # "block" /\ target[c] # NoSession
    BY DEF AbortPipeline, Goto, At, AfterAbort, LeaseInv, TypesOK, ClientsTypeOK
  <2> QED
    BY <2>1, <2>2 DEF AbortPipeline, LeaseInv, TargetsAreSessions, At
<1>11. DeletedIsOver' /\ ActiveIsCurrent'
  BY <1>1, Numbers DEF LeaseInv, AbortPipeline, WriteManifest, AfterAbort,
      DeletedIsOver, ActiveIsCurrent, TypesOK, NoSession, Live, Goto, At, serviceVars,
      Busy, ServiceTypeOK, ModelsTypeOK, SessionsTypeOK, ClientsTypeOK, OthersTypeOK,
      Open, Points
<1> QED
  BY <1>1, <1>7, <1>8, <1>9, <1>10, <1>11 DEF LeaseInv

\* The end of an abort keeps the invariant.
LEMMA DeliveredKeeps ==
  ASSUME LeaseInv, NEW c \in Clients, Delivered(c)
  PROVE  LeaseInv'
<1>1. TypesOK'
  BY Numbers DEF LeaseInv, Delivered, AfterAbort, TypesOK, Goto, serviceVars,
      sessionVars, ServiceTypeOK, ModelsTypeOK, SessionsTypeOK, ClientsTypeOK,
      OthersTypeOK, NoSession, Busy, Open, Points
<1>2. Numbered' /\ Indexed' /\ StartersAreFresh' /\ TargetsAreSessions'
  BY Numbers DEF LeaseInv, Delivered, AfterAbort, Numbered, Indexed, StartersAreFresh,
      TargetsAreSessions, TypesOK, Goto, serviceVars, sessionVars, Starting, NoSession,
      At, ServiceTypeOK, ModelsTypeOK, SessionsTypeOK, ClientsTypeOK, OthersTypeOK,
      Busy, Open, Points
<1>3. DeletedIsOver' /\ ActiveIsCurrent'
  BY Numbers DEF LeaseInv, Delivered, AfterAbort, DeletedIsOver, ActiveIsCurrent,
      TypesOK, Goto, serviceVars, sessionVars, NoSession, Live, Busy, ServiceTypeOK,
      ModelsTypeOK, SessionsTypeOK, ClientsTypeOK, OthersTypeOK, Open, Points
<1> QED
  BY <1>1, <1>2, <1>3 DEF LeaseInv

\* The finally clause keeps the invariant.
LEMMA FinallyKeeps ==
  ASSUME LeaseInv, NEW c \in Clients, Finally(c)
  PROVE  LeaseInv'
<1>1. TypesOK'
  BY Numbers DEF LeaseInv, Finally, TypesOK, At, Goto, NoSession, serviceVars,
      sessionVars, ServiceTypeOK, ModelsTypeOK, SessionsTypeOK, ClientsTypeOK,
      OthersTypeOK, Busy, Open, Points
<1>2. Numbered' /\ Indexed' /\ StartersAreFresh' /\ TargetsAreSessions'
  BY Numbers DEF LeaseInv, Finally, Numbered, Indexed, StartersAreFresh,
      TargetsAreSessions, TypesOK, At, Goto, NoSession, serviceVars, sessionVars,
      Starting, ServiceTypeOK, ModelsTypeOK, SessionsTypeOK, ClientsTypeOK,
      OthersTypeOK, Busy, Open, Points
<1>3. DeletedIsOver' /\ ActiveIsCurrent'
  BY Numbers DEF LeaseInv, Finally, DeletedIsOver, ActiveIsCurrent, TypesOK, At, Goto,
      NoSession, Live, serviceVars, sessionVars, Busy, ServiceTypeOK, ModelsTypeOK,
      SessionsTypeOK, ClientsTypeOK, OthersTypeOK, Open, Points
<1> QED
  BY <1>1, <1>2, <1>3 DEF LeaseInv

\* The end of a thread keeps the invariant.
LEMMA DoneKeeps ==
  ASSUME LeaseInv, NEW c \in Clients, Done(c)
  PROVE  LeaseInv'
<1>1. TypesOK'
  BY Numbers DEF LeaseInv, Done, TypesOK, At, Goto, NoSession, serviceVars, sessionVars,
      ServiceTypeOK, ModelsTypeOK, SessionsTypeOK, ClientsTypeOK, OthersTypeOK, Busy,
      Open, Points
<1>2. Numbered' /\ Indexed' /\ StartersAreFresh' /\ TargetsAreSessions'
  BY Numbers DEF LeaseInv, Done, Numbered, Indexed, StartersAreFresh,
      TargetsAreSessions, TypesOK, At, Goto, NoSession, serviceVars, sessionVars,
      Starting, ServiceTypeOK, ModelsTypeOK, SessionsTypeOK, ClientsTypeOK,
      OthersTypeOK, Busy, Open, Points
<1>3. DeletedIsOver' /\ ActiveIsCurrent'
  BY Numbers DEF LeaseInv, Done, DeletedIsOver, ActiveIsCurrent, TypesOK, At, Goto,
      NoSession, serviceVars, sessionVars, Live, Busy, ServiceTypeOK, ModelsTypeOK,
      SessionsTypeOK, ClientsTypeOK, OthersTypeOK, Open, Points
<1> QED
  BY <1>1, <1>2, <1>3 DEF LeaseInv

\* Settlement keeps the invariant.
LEMMA SettleKeeps ==
  ASSUME LeaseInv, NEW s \in Sessions, Settle(s)
  PROVE  LeaseInv'
<1>1. recency' \in Seq(Sessions) /\ Indexed'
  BY OrderIsKept DEF Settle, LeaseInv
<1>2. ServiceTypeOK'
  BY <1>1, Numbers DEF LeaseInv, Settle, WriteManifest, ServiceTypeOK, TypesOK,
      serviceVars, clientVars, NoSession, Busy
<1>3. ModelsTypeOK'
  BY <1>1, Numbers DEF LeaseInv, Settle, WriteManifest, ModelsTypeOK, TypesOK,
      serviceVars, clientVars
<1>4. SessionsTypeOK'
  <2>1. manifest' \in [Sessions -> Open \cup {"none", "complete", "failed"}]
    BY DEF Settle, WriteManifest, LeaseInv, TypesOK, SessionsTypeOK
  <2>2. pipe' \in [Sessions -> {"none", "recording", "settling", "complete", "failed", "aborted"}]
    BY DEF Settle, LeaseInv, TypesOK, SessionsTypeOK
  <2>3. callback' \in [Sessions -> {"none", "settled", "failed", "complete_session",
                                    "fail_session", "sent"}]
    BY DEF Settle, LeaseInv, TypesOK, SessionsTypeOK
  <2> QED
    BY <1>1, <2>1, <2>2, <2>3 DEF Settle, LeaseInv, TypesOK, SessionsTypeOK
<1>5. ClientsTypeOK'
  BY <1>1, Numbers DEF LeaseInv, Settle, WriteManifest, ClientsTypeOK, TypesOK,
      serviceVars, clientVars, Points, NoSession
<1>6. OthersTypeOK'
  BY <1>1, Numbers DEF LeaseInv, Settle, WriteManifest, OthersTypeOK, TypesOK,
      serviceVars, clientVars, NoSession
<1>7. TypesOK'
  BY <1>2, <1>3, <1>4, <1>5, <1>6 DEF TypesOK
<1>8. Numbered'
  <2>1. s \in 0..claims
    BY Numbers DEF Settle, LeaseInv, Numbered, TypesOK, ServiceTypeOK
  <2>2. \A t \in Sessions \ {s} : pipe'[t] = pipe[t] /\ manifest'[t] = manifest[t]
    BY DEF Settle, WriteManifest, LeaseInv, TypesOK, SessionsTypeOK
  <2>3. UNCHANGED <<active, claims, audio, session, target, deleting>>
    BY DEF Settle, serviceVars, clientVars
  <2> QED
    BY <2>1, <2>2, <2>3, Numbers DEF LeaseInv, Numbered, TypesOK, ServiceTypeOK
<1>9. StartersAreFresh'
  <2>1. \A t \in Sessions \ {s} : pipe'[t] = pipe[t] /\ manifest'[t] = manifest[t]
    BY DEF Settle, WriteManifest, LeaseInv, TypesOK, SessionsTypeOK
  <2>2. UNCHANGED <<pc, active, audio, session, target, deleting>>
    BY DEF Settle, serviceVars, clientVars
  <2>3. pipe[s] = "settling"
    BY DEF Settle
  <2>4. \A e \in Clients : target[e] \in Sessions \cup {NoSession}
    BY DEF LeaseInv, TypesOK, ClientsTypeOK
  <2> QED
    BY <2>1, <2>2, <2>3, <2>4 DEF LeaseInv, StartersAreFresh, Starting, At
<1>10. TargetsAreSessions'
  BY DEF Settle, clientVars, LeaseInv, TargetsAreSessions, At
<1>11. DeletedIsOver' /\ ActiveIsCurrent'
  BY <1>1, Numbers DEF LeaseInv, Settle, WriteManifest, DeletedIsOver, ActiveIsCurrent,
      TypesOK, serviceVars, clientVars, NoSession, Live, Busy, ServiceTypeOK,
      ModelsTypeOK, SessionsTypeOK, ClientsTypeOK, OthersTypeOK, Open, Points
<1> QED
  BY <1>1, <1>7, <1>8, <1>9, <1>10, <1>11 DEF LeaseInv

\* A callback keeps the invariant.
LEMMA CheckActiveKeeps ==
  ASSUME LeaseInv, NEW s \in Sessions, CheckActive(s)
  PROVE  LeaseInv'
<1>1. TypesOK'
  BY Numbers DEF LeaseInv, CheckActive, TypesOK, serviceVars, clientVars, ServiceTypeOK,
      ModelsTypeOK, SessionsTypeOK, ClientsTypeOK, OthersTypeOK, NoSession, Busy, Open,
      Points
<1>2. Numbered' /\ Indexed' /\ StartersAreFresh' /\ TargetsAreSessions'
  BY Numbers DEF LeaseInv, CheckActive, Numbered, Indexed, StartersAreFresh,
      TargetsAreSessions, TypesOK, serviceVars, clientVars, Starting, NoSession, At,
      ServiceTypeOK, ModelsTypeOK, SessionsTypeOK, ClientsTypeOK, OthersTypeOK, Busy,
      Open, Points
<1>3. DeletedIsOver' /\ ActiveIsCurrent'
  BY Numbers DEF LeaseInv, CheckActive, DeletedIsOver, ActiveIsCurrent, TypesOK,
      serviceVars, clientVars, NoSession, Live, Busy, ServiceTypeOK, ModelsTypeOK,
      SessionsTypeOK, ClientsTypeOK, OthersTypeOK, Open, Points
<1> QED
  BY <1>1, <1>2, <1>3 DEF LeaseInv

\* Releasing the lease keeps the invariant.
LEMMA ReleaseLeaseKeeps ==
  ASSUME LeaseInv, NEW s \in Sessions, ReleaseLease(s)
  PROVE  LeaseInv'
<1>1. TypesOK'
  BY Numbers DEF LeaseInv, ReleaseLease, Release, ScheduleEviction, TypesOK, clientVars,
      NoSession, ServiceTypeOK, ModelsTypeOK, SessionsTypeOK, ClientsTypeOK,
      OthersTypeOK, Busy, Open, Points
<1>2. Numbered' /\ Indexed' /\ StartersAreFresh' /\ TargetsAreSessions'
  BY Numbers DEF LeaseInv, ReleaseLease, Release, ScheduleEviction, Numbered, Indexed,
      StartersAreFresh, TargetsAreSessions, TypesOK, clientVars, NoSession, Starting,
      At, ServiceTypeOK, ModelsTypeOK, SessionsTypeOK, ClientsTypeOK, OthersTypeOK,
      Busy, Open, Points
<1>3. DeletedIsOver' /\ ActiveIsCurrent'
  BY Numbers DEF LeaseInv, ReleaseLease, Release, ScheduleEviction, DeletedIsOver,
      ActiveIsCurrent, TypesOK, clientVars, NoSession, Live, Busy, ServiceTypeOK,
      ModelsTypeOK, SessionsTypeOK, ClientsTypeOK, OthersTypeOK, Open, Points
<1> QED
  BY <1>1, <1>2, <1>3 DEF LeaseInv

\* The timer keeps the invariant.
LEMMA TimerFiresKeeps ==
  ASSUME LeaseInv, TimerFires
  PROVE  LeaseInv'
<1>1. ServiceTypeOK'
  BY Numbers DEF LeaseInv, TimerFires, ServiceTypeOK, TypesOK, sessionVars, clientVars,
      NoSession, Busy
<1>2. ModelsTypeOK'
  <2>1. loaded' = loaded /\ timer' = FALSE
    BY Zenon DEF TimerFires
  <2>2. dispatched' \subseteq {"current", "stale"}
    BY SMT DEF TimerFires, LeaseInv, TypesOK, ModelsTypeOK
  <2> QED
    BY <2>1, <2>2, Zenon DEF LeaseInv, TypesOK, ModelsTypeOK
<1>3. SessionsTypeOK'
  BY Numbers DEF LeaseInv, TimerFires, SessionsTypeOK, TypesOK, sessionVars, clientVars,
      Open
<1>4. ClientsTypeOK'
  BY Numbers DEF LeaseInv, TimerFires, ClientsTypeOK, TypesOK, sessionVars, clientVars,
      Points, NoSession
<1>5. OthersTypeOK'
  BY Numbers DEF LeaseInv, TimerFires, OthersTypeOK, TypesOK, sessionVars, clientVars,
      NoSession
<1>6. TypesOK'
  BY <1>1, <1>2, <1>3, <1>4, <1>5 DEF TypesOK
<1>7. Numbered' /\ Indexed' /\ StartersAreFresh' /\ TargetsAreSessions'
  BY Numbers DEF LeaseInv, TimerFires, Numbered, Indexed, StartersAreFresh,
      TargetsAreSessions, TypesOK, sessionVars, clientVars, Starting, NoSession, At,
      ServiceTypeOK, ModelsTypeOK, SessionsTypeOK, ClientsTypeOK, OthersTypeOK, Busy,
      Open, Points
<1>8. DeletedIsOver' /\ ActiveIsCurrent'
  BY Numbers DEF LeaseInv, TimerFires, DeletedIsOver, ActiveIsCurrent, TypesOK,
      Numbered, Indexed, StartersAreFresh, TargetsAreSessions, sessionVars, clientVars,
      NoSession, Live, Busy, ServiceTypeOK, ModelsTypeOK, SessionsTypeOK, ClientsTypeOK,
      OthersTypeOK, Starting, At, Open, Points
<1> QED
  BY <1>6, <1>7, <1>8 DEF LeaseInv

\* Unloading idle models keeps the invariant.
LEMMA UnloadIdleKeeps ==
  ASSUME LeaseInv, NEW g \in {"current", "stale"}, UnloadIdle(g)
  PROVE  LeaseInv'
<1>1. TypesOK'
  BY Numbers DEF LeaseInv, UnloadIdle, TypesOK, NoSession, Busy, sessionVars,
      clientVars, ServiceTypeOK, ModelsTypeOK, SessionsTypeOK, ClientsTypeOK,
      OthersTypeOK, Open, Points
<1>2. Numbered' /\ Indexed' /\ StartersAreFresh' /\ TargetsAreSessions'
  BY Numbers DEF LeaseInv, UnloadIdle, Numbered, Indexed, StartersAreFresh,
      TargetsAreSessions, TypesOK, NoSession, Busy, sessionVars, clientVars, Starting,
      At, ServiceTypeOK, ModelsTypeOK, SessionsTypeOK, ClientsTypeOK, OthersTypeOK,
      Open, Points
<1>3. DeletedIsOver' /\ ActiveIsCurrent'
  BY Numbers DEF LeaseInv, UnloadIdle, DeletedIsOver, ActiveIsCurrent, TypesOK,
      NoSession, Busy, sessionVars, clientVars, Live, ServiceTypeOK, ModelsTypeOK,
      SessionsTypeOK, ClientsTypeOK, OthersTypeOK, Open, Points
<1> QED
  BY <1>1, <1>2, <1>3 DEF LeaseInv

\* The check of a deletion keeps the invariant.
LEMMA DeleteCheckKeeps ==
  ASSUME LeaseInv, NEW s \in Sessions, DeleteCheck(s)
  PROVE  LeaseInv'
<1>1. TypesOK'
  BY Numbers DEF LeaseInv, DeleteCheck, ActiveSessionId, TypesOK, NoSession,
      serviceVars, sessionVars, clientVars, Busy, ServiceTypeOK, ModelsTypeOK,
      SessionsTypeOK, ClientsTypeOK, OthersTypeOK, Open, Points
<1>2. Numbered'
  BY Numbers DEF LeaseInv, DeleteCheck, ActiveSessionId, Numbered, TypesOK, NoSession,
      serviceVars, sessionVars, clientVars, Busy, ServiceTypeOK, SessionsTypeOK,
      ClientsTypeOK, OthersTypeOK, Open, Points
<1>3. Indexed'
  BY Numbers DEF LeaseInv, DeleteCheck, ActiveSessionId, Indexed, TypesOK, Numbered,
      NoSession, serviceVars, sessionVars, clientVars, Busy, ServiceTypeOK,
      SessionsTypeOK, ClientsTypeOK, OthersTypeOK, Open, Points
<1>4. StartersAreFresh'
  BY Numbers DEF LeaseInv, DeleteCheck, ActiveSessionId, StartersAreFresh, TypesOK,
      Numbered, DeletedIsOver, ActiveIsCurrent, NoSession, Live, serviceVars,
      sessionVars, clientVars, Busy, Starting, At, ServiceTypeOK, SessionsTypeOK,
      ClientsTypeOK, OthersTypeOK, Open, Points
<1>5. TargetsAreSessions'
  BY Numbers DEF LeaseInv, DeleteCheck, ActiveSessionId, TargetsAreSessions, TypesOK,
      Numbered, StartersAreFresh, DeletedIsOver, ActiveIsCurrent, NoSession, Live,
      serviceVars, sessionVars, clientVars, Busy, At, ServiceTypeOK, SessionsTypeOK,
      ClientsTypeOK, OthersTypeOK, Starting, Open, Points
<1>6. DeletedIsOver' /\ ActiveIsCurrent'
  BY Numbers DEF LeaseInv, DeleteCheck, ActiveSessionId, DeletedIsOver, ActiveIsCurrent,
      TypesOK, NoSession, Live, serviceVars, sessionVars, clientVars, Busy,
      ServiceTypeOK, ModelsTypeOK, SessionsTypeOK, ClientsTypeOK, OthersTypeOK, Open,
      Points
<1> QED
  BY <1>1, <1>2, <1>3, <1>4, <1>5, <1>6 DEF LeaseInv

\* The move to the trash keeps the invariant.
LEMMA DeleteTrashKeeps ==
  ASSUME LeaseInv, DeleteTrash
  PROVE  LeaseInv'
<1>1. recency' \in Seq(Sessions) /\ Indexed'
  <2> DEFINE rest == Without(recency, deleting.session)
  <2>1. /\ rest \in Seq(Sessions)
        /\ \A n \in DOMAIN rest :
             rest[n] # deleting.session /\ \E m \in DOMAIN recency : rest[n] = recency[m]
        /\ \A m, n \in DOMAIN rest : rest[m] = rest[n] => m = n
    BY WithoutKeepsOrder DEF LeaseInv, Indexed, TypesOK, SessionsTypeOK
  <2>2. recency' = rest
    BY DEF DeleteTrash
  <2> HIDE DEF rest
  <2>3. \A n \in DOMAIN rest : manifest'[rest[n]] # "none"
    <3> SUFFICES ASSUME NEW n \in DOMAIN rest
                 PROVE  manifest'[rest[n]] # "none"
      OBVIOUS
    <3>1. PICK m \in DOMAIN recency : rest[n] = recency[m]
      BY <2>1
    <3>2. rest[n] \in Sessions /\ rest[n] # deleting.session /\ manifest[rest[n]] # "none"
      BY <2>1, <3>1 DEF LeaseInv, Indexed, TypesOK, SessionsTypeOK
    <3> QED
      BY <3>2 DEF DeleteTrash, LeaseInv, TypesOK, SessionsTypeOK
  <2> QED
    BY <2>1, <2>2, <2>3 DEF Indexed
<1>2. ServiceTypeOK'
  BY <1>1, Numbers DEF LeaseInv, DeleteTrash, ServiceTypeOK, TypesOK, NoSession,
      serviceVars, clientVars, Busy
<1>3. ModelsTypeOK'
  BY <1>1, Numbers DEF LeaseInv, DeleteTrash, ModelsTypeOK, TypesOK, NoSession,
      serviceVars, clientVars
<1>4. SessionsTypeOK'
  BY <1>1, Numbers DEF LeaseInv, DeleteTrash, SessionsTypeOK, TypesOK, Numbered,
      StartersAreFresh, DeletedIsOver, ActiveIsCurrent, NoSession, serviceVars,
      clientVars, Open, ServiceTypeOK, ClientsTypeOK, OthersTypeOK, Starting, At, Live,
      Busy, Points
<1>5. ClientsTypeOK'
  BY <1>1, Numbers DEF LeaseInv, DeleteTrash, ClientsTypeOK, TypesOK, NoSession,
      serviceVars, clientVars, Points
<1>6. OthersTypeOK'
  BY DEF DeleteTrash, LeaseInv, TypesOK, OthersTypeOK
<1>7. TypesOK'
  BY <1>2, <1>3, <1>4, <1>5, <1>6 DEF TypesOK
<1>8. Numbered' /\ Indexed' /\ StartersAreFresh' /\ TargetsAreSessions'
  BY <1>1, Numbers DEF LeaseInv, DeleteTrash, Numbered, Indexed, StartersAreFresh,
      TargetsAreSessions, TypesOK, NoSession, serviceVars, clientVars, Starting, At,
      ServiceTypeOK, ModelsTypeOK, SessionsTypeOK, ClientsTypeOK, OthersTypeOK, Busy,
      Open, Points
<1>9. DeletedIsOver' /\ ActiveIsCurrent'
  BY <1>1, Numbers DEF LeaseInv, DeleteTrash, DeletedIsOver, ActiveIsCurrent, TypesOK,
      NoSession, serviceVars, clientVars, Live, Busy, ServiceTypeOK, ModelsTypeOK,
      SessionsTypeOK, ClientsTypeOK, OthersTypeOK, Open, Points
<1> QED
  BY <1>7, <1>8, <1>9 DEF LeaseInv

\* The end of a deletion keeps the invariant.
LEMMA SessionDeletedKeeps ==
  ASSUME LeaseInv, SessionDeleted
  PROVE  LeaseInv'
<1>1. /\ current' \in Sessions \cup {NoSession}
      /\ status' \in Busy \cup {"idle", "complete", "failed"}
      /\ manifest' \in [Sessions -> Open \cup {"none", "complete", "failed"}]
      /\ \A s \in Sessions : manifest'[s] \in {manifest[s], "failed"}
      /\ \A s \in Sessions : manifest'[s] # manifest[s] => manifest[s] \in Open
  <2>1. CASE LoadLatest(manifest, recency)
    BY <2>1, LatestIsClosed DEF LeaseInv
  <2>2. CASE UNCHANGED <<current, status, manifest>>
    BY <2>2 DEF LeaseInv, TypesOK, ServiceTypeOK, SessionsTypeOK
  <2> QED
    BY <2>1, <2>2 DEF SessionDeleted
<1>2. TypesOK'
  BY <1>1, Numbers DEF LeaseInv, SessionDeleted, TypesOK, NoSession, clientVars,
      ServiceTypeOK, ModelsTypeOK, SessionsTypeOK, ClientsTypeOK, OthersTypeOK, Busy,
      Open, Points
<1>3. Numbered'
  <2>1. \A s \in Sessions : manifest[s] = "none" => manifest'[s] = "none"
    BY <1>1 DEF Open
  <2>2. deleting'.session = 0
    BY Numbers DEF SessionDeleted
  <2> QED
    BY <2>1, <2>2 DEF SessionDeleted, LeaseInv, Numbered, clientVars, TypesOK, ServiceTypeOK
<1>4. Indexed'
  BY <1>1, Numbers DEF LeaseInv, SessionDeleted, Indexed, TypesOK, Numbered, NoSession,
      clientVars, ServiceTypeOK, SessionsTypeOK, ClientsTypeOK, OthersTypeOK, Busy,
      Open, Points
<1>5. StartersAreFresh'
  <2>1. \A s \in Sessions : manifest[s] = "none" => manifest'[s] = "none"
    BY <1>1 DEF Open
  <2>2. deleting'.session = NoSession
    BY DEF SessionDeleted
  <2>3. \A c \in Clients : target[c] \in Sessions \cup {NoSession}
    BY DEF LeaseInv, TypesOK, ClientsTypeOK
  <2> QED
    BY <2>1, <2>2, <2>3
       DEF SessionDeleted, LeaseInv, StartersAreFresh, Starting, At, clientVars
<1>6. TargetsAreSessions'
  BY <1>1, Numbers DEF LeaseInv, SessionDeleted, TargetsAreSessions, TypesOK, NoSession,
      clientVars, At, ServiceTypeOK, SessionsTypeOK, ClientsTypeOK, OthersTypeOK, Busy,
      Open, Points
<1>7. DeletedIsOver' /\ ActiveIsCurrent'
  BY <1>1, Numbers DEF LeaseInv, SessionDeleted, DeletedIsOver, ActiveIsCurrent,
      TypesOK, NoSession, clientVars, Live, Busy, ServiceTypeOK, ModelsTypeOK,
      SessionsTypeOK, ClientsTypeOK, OthersTypeOK, Open, Points
<1> QED
  BY <1>2, <1>3, <1>4, <1>5, <1>6, <1>7 DEF LeaseInv

\* A restart keeps the invariant.
LEMMA RestartKeeps ==
  ASSUME LeaseInv, Restart
  PROVE  LeaseInv'
<1>1. /\ current' \in Sessions \cup {NoSession}
      /\ status' \in {"idle", "complete", "failed"}
      /\ manifest' \in [Sessions -> Open \cup {"none", "complete", "failed"}]
      /\ \A s \in Sessions : manifest'[s] \in {manifest[s], "failed"}
      /\ \A s \in Sessions : manifest'[s] # manifest[s] => manifest[s] \in Open
  BY LatestIsClosed DEF Restart, LeaseInv
<1>2. ServiceTypeOK'
  BY <1>1, Numbers DEF LeaseInv, Restart, ServiceTypeOK, TypesOK, NoSession, Busy
<1>3. ModelsTypeOK'
  BY Zenon DEF Restart, ModelsTypeOK
<1>4. SessionsTypeOK'
  BY <1>1, Numbers DEF LeaseInv, Restart, SessionsTypeOK, TypesOK, NoSession, Open
<1>5. ClientsTypeOK'
  BY <1>1, Numbers DEF LeaseInv, Restart, ClientsTypeOK, TypesOK, NoSession, Points
<1>6. OthersTypeOK'
  BY <1>1, Numbers DEF LeaseInv, Restart, OthersTypeOK, TypesOK, NoSession
<1>7. TypesOK'
  BY <1>2, <1>3, <1>4, <1>5, <1>6 DEF TypesOK
<1>8. Numbered'
  <2>1. \A s \in Sessions : manifest[s] = "none" => manifest'[s] = "none"
    BY <1>1 DEF Open
  <2>2. active' = 0 /\ deleting'.session = 0 /\ \A c \in Clients : target'[c] = 0 /\ session'[c] = 0
    BY Numbers DEF Restart
  <2>3. \A s \in Sessions : pipe'[s] = "none"
    BY DEF Restart
  <2>4. claims' = claims /\ audio' = audio /\ claims \in Nat
    BY Numbers DEF Restart, LeaseInv, TypesOK, ServiceTypeOK
  <2> QED
    BY <2>1, <2>2, <2>3, <2>4 DEF LeaseInv, Numbered
<1>9. Indexed'
  BY <1>1, Numbers DEF LeaseInv, Restart, Indexed, TypesOK, Numbered, NoSession,
      ServiceTypeOK, SessionsTypeOK, ClientsTypeOK, OthersTypeOK, Busy, Open, Points
<1>10. StartersAreFresh'
  BY <1>1, Numbers DEF LeaseInv, Restart, StartersAreFresh, TypesOK, Numbered,
      NoSession, Starting, At, ServiceTypeOK, SessionsTypeOK, ClientsTypeOK,
      OthersTypeOK, Busy, Open, Points
<1>11. TargetsAreSessions'
  BY <1>1, Numbers DEF LeaseInv, Restart, TargetsAreSessions, TypesOK, NoSession, At,
      ServiceTypeOK, SessionsTypeOK, ClientsTypeOK, OthersTypeOK, Busy, Open, Points
<1>12. DeletedIsOver' /\ ActiveIsCurrent'
  BY <1>1, Numbers DEF LeaseInv, Restart, DeletedIsOver, ActiveIsCurrent, TypesOK,
      NoSession, Live, Busy, ServiceTypeOK, ModelsTypeOK, SessionsTypeOK, ClientsTypeOK,
      OthersTypeOK, Open, Points
<1> QED
  BY <1>7, <1>8, <1>9, <1>10, <1>11, <1>12 DEF LeaseInv


-----------------------------------------------------------------------------
(* Each step of replays and uploads keeps the invariant of the holder.      *)

\* Nobody holds the lease of a service that is not busy.
LEMMA NoneHoldsIdle ==
  ASSUME HolderInv, status \notin Busy
  PROVE  (\A c \in Clients : ~Holds(c)) /\ \A s \in Sessions : ~Live(s)
  BY DEF HolderInv, OneHolder, LiveIsHeld

\* While a callback is to release the lease, nobody holds it any more.
LEMMA NoneHoldsPending ==
  ASSUME LeaseInv, HolderInv, NEW s \in Sessions, callback[s] \notin {"none", "sent"}
  PROVE  active = s /\ (\A c \in Clients : ~Holds(c)) /\ \A t \in Sessions : ~Live(t)
<1>1. active = s /\ s # NoSession /\ ~Live(s) /\ pipe[s] # "recording"
  BY Numbers DEF HolderInv, PendingIsActive, Live
<1>2. \A c \in Clients : ~Holds(c)
  BY <1>1 DEF HolderInv, StarterHasNone, RunnerIsActive, Holds, At
<1> QED
  BY <1>1, <1>2 DEF HolderInv, LiveIsHeld

\* A session that records or settles is the current one, and the service is busy.
LEMMA LiveIsCurrent ==
  ASSUME LeaseInv, HolderInv, NEW s \in Sessions, Live(s)
  PROVE  current = s /\ status \in Busy /\ (pipe[s] = "settling" => active = s)
<1>1. PICK c \in Clients : Holds(c) /\ (session[c] = s \/ (At(c, "created") /\ target[c] = s))
  BY DEF HolderInv, LiveIsHeld
<1>2. status \in Busy
  BY <1>1 DEF HolderInv, OneHolder
<1>3. CASE At(c, "created") /\ target[c] = s
  BY <1>2, <1>3 DEF LeaseInv, HolderInv, StarterHasNone, StartersAreFresh, Starting, At
<1>4. CASE session[c] = s
  <2>1. s # NoSession /\ active = s
    BY <1>1, <1>4, Numbers DEF HolderInv, StarterHasNone, RunnerIsActive, Holds, Starting, At
  <2> QED
    BY <1>2, <2>1 DEF LeaseInv, ActiveIsCurrent
<1> QED
  BY <1>1, <1>3, <1>4


\* A session stays held when its holder goes on holding it.
LEMMA HeldStays ==
  ASSUME LeaseInv, HolderInv, NEW c \in Clients, pipe' = pipe,
         \A d \in Clients \ {c} : pc'[d] = pc[d] /\ session'[d] = session[d] /\ target'[d] = target[d],
         \A s \in Sessions :
           Live(s) /\ Holds(c) /\ (session[c] = s \/ (At(c, "created") /\ target[c] = s)) =>
             Holds(c)' /\ (session'[c] = s \/ (pc'[c] = "created" /\ target'[c] = s))
  PROVE  LiveIsHeld'
<1> SUFFICES ASSUME NEW s \in Sessions, Live(s)
             PROVE  \E d \in Clients :
                      Holds(d)' /\ (session'[d] = s \/ (pc'[d] = "created" /\ target'[d] = s))
  BY DEF LiveIsHeld, Live, At
<1>1. PICK d \in Clients : Holds(d) /\ (session[d] = s \/ (At(d, "created") /\ target[d] = s))
  BY DEF HolderInv, LiveIsHeld
<1>2. CASE d = c
  BY <1>1, <1>2
<1>3. CASE d # c
  BY <1>1, <1>3 DEF Holds, Starting, At, Live
<1> QED
  BY <1>2, <1>3

\* Who aborts a session that is active aborts its own.
LEMMA AbortIsOwn ==
  ASSUME LeaseInv, HolderInv, Unattended, NEW c \in Clients, AbortPipeline(c)
  PROVE  /\ At(c, "abort") /\ target[c] \in Sessions /\ session[c] = target[c]
         /\ active = target[c] /\ pipe[target[c]] = "recording"
         /\ pc' = [pc EXCEPT ![c] = "deliver"] /\ pipe' = [pipe EXCEPT ![target[c]] = "aborted"]
         /\ callback' = [callback EXCEPT ![target[c]] = "failed"]
         /\ WriteManifest(target[c], "failed")
<1>1. /\ At(c, "abort")
      /\ session[c] = target[c]
      /\ target[c] \in Sessions
      /\ active = target[c]
      /\ pipe[target[c]] = "recording"
  BY DEF AbortPipeline, LeaseInv, HolderInv, StarterHasNone, RunnerIsActive, Aborting, At,
         TypesOK, ClientsTypeOK
<1>2. callback[target[c]] = "none"
  BY <1>1 DEF HolderInv, PendingIsActive
<1> QED
  BY <1>1, <1>2 DEF AbortPipeline, Goto, At

\* Who failed before its session was active has the lease, but no session.
LEMMA FailureIsAlone ==
  ASSUME LeaseInv, HolderInv, NEW c \in Clients,
         At(c, "startFailed") \/ (At(c, "abort") /\ target[c] = NoSession)
  PROVE  /\ active = NoSession /\ \A s \in Sessions : ~Live(s)
         /\ \A d \in Clients \ {c} : ~Holds(d)
<1>1. Holds(c) /\ session[c] = NoSession /\ active = NoSession
  BY DEF HolderInv, StarterHasNone, RunnerIsActive, Holds, Aborting, At
<1>2. \A d \in Clients \ {c} : ~Holds(d)
  BY <1>1 DEF HolderInv, OneHolder
<1>3. \A s \in Sessions : ~Live(s)
  BY <1>1, <1>2, Numbers DEF HolderInv, LiveIsHeld, Starting, At
<1> QED
  BY <1>1, <1>2, <1>3

\* A claim keeps the invariant of the holder.
LEMMA ClaimKeepsHolder ==
  ASSUME LeaseInv, HolderInv, Unattended, NEW c \in Clients, Claim(c)
  PROVE  HolderInv'
<1>1. StarterHasNone'
  <2>1. ~ClaimRefused /\ claims < MaxSessions
    BY DEF Claim, Unattended
  <2>2. active = NoSession /\ \A d \in Clients : ~Holds(d)
    BY <2>1, NoneHoldsIdle DEF ClaimRefused
  <2>3. session[c] = NoSession
    BY DEF Claim, HolderInv, RunnerIsActive
  <2>4. /\ target'[c] = claims + 1 /\ pc'[c] = "claimed" /\ current' = claims + 1
        /\ \A d \in Clients \ {c} : pc'[d] = pc[d]
    BY <2>1 DEF Claim, ClaimRefused, Goto, LeaseInv, TypesOK, ClientsTypeOK
  <2> QED
    BY <2>2, <2>3, <2>4 DEF Claim, sessionVars, StarterHasNone, Holds, Starting, At
<1>2. DeletedIsIdle'
  <2>1. claims \in Nat /\ deleting.session \in 0..claims
    BY Numbers DEF LeaseInv, Numbered, TypesOK, ServiceTypeOK
  <2> QED
    BY <2>1 DEF Claim, Unattended, DeletedIsIdle
<1>3. OneHolder' /\ RunnerIsActive' /\ SessionsApart' /\ PendingIsActive' /\ OpenIsLast'
  BY Numbers DEF LeaseInv, HolderInv, Unattended, Claim, ClaimRefused, CancelEviction,
      OneHolder, RunnerIsActive, SessionsApart, PendingIsActive, OpenIsLast, TypesOK,
      At, Goto, sessionVars, Busy, Holds, Running, Aborting, Live, Open, SessionsTypeOK,
      ClientsTypeOK, Starting
<1>4. LiveIsHeld'
  BY Numbers DEF LeaseInv, HolderInv, Unattended, Claim, ClaimRefused, CancelEviction,
      LiveIsHeld, OneHolder, RunnerIsActive, StarterHasNone, StartersAreFresh, Starting,
      TypesOK, At, Goto, sessionVars, Busy, Live, Holds, Running, Aborting,
      SessionsTypeOK, ClientsTypeOK, Open
<1> QED
  BY <1>1, <1>2, <1>3, <1>4 DEF HolderInv

\* Loading the models keeps the invariant of the holder.
LEMMA LoadModelsKeepsHolder ==
  ASSUME LeaseInv, HolderInv, Unattended, NEW c \in Clients, LoadModels(c)
  PROVE  HolderInv'
<1>1. OneHolder'
  <2>1. Holds(c) /\ \A d \in Clients : Holds(d)' => Holds(d)
    BY DEF LoadModels, Goto, Holds, Starting, At, Live, sessionVars, LeaseInv, TypesOK,
           ClientsTypeOK
  <2> QED
    BY <2>1 DEF LoadModels, HolderInv, OneHolder
<1>2. LiveIsHeld'
  <2>1. pipe' = pipe /\ \A d \in Clients \ {c} :
          pc'[d] = pc[d] /\ session'[d] = session[d] /\ target'[d] = target[d]
    BY DEF LoadModels, Goto, sessionVars, LeaseInv, TypesOK, ClientsTypeOK
  <2>2. ASSUME NEW s \in Sessions, Live(s), Holds(c),
               session[c] = s \/ (At(c, "created") /\ target[c] = s)
        PROVE  Holds(c)' /\ (session'[c] = s \/ (pc'[c] = "created" /\ target'[c] = s))
    BY <2>1, <2>2, Numbers DEF LoadModels, HolderInv, StarterHasNone, Starting, At
  <2> QED
    BY <2>1, <2>2, HeldStays
<1>3. StarterHasNone'
  <2>1. At(c, "claimed") /\ pc'[c] \in {"loaded", "startFailed"}
    BY DEF LoadModels, Goto, At, LeaseInv, TypesOK, ClientsTypeOK
  <2>2. \A d \in Clients \ {c} : pc'[d] = pc[d]
    BY DEF LoadModels, Goto, LeaseInv, TypesOK, ClientsTypeOK
  <2> QED
    BY <2>1, <2>2 DEF LoadModels, HolderInv, StarterHasNone, Starting, Aborting, At
<1>4. RunnerIsActive' /\ SessionsApart' /\ PendingIsActive' /\ OpenIsLast' /\ DeletedIsIdle'
  BY Numbers DEF LeaseInv, HolderInv, Unattended, LoadModels, RunnerIsActive,
      SessionsApart, PendingIsActive, OpenIsLast, DeletedIsIdle, TypesOK, At, Goto,
      sessionVars, Running, Aborting, Live, Open, Busy, SessionsTypeOK, ClientsTypeOK
<1> QED
  BY <1>1, <1>2, <1>3, <1>4 DEF HolderInv

\* Creating the session keeps the invariant of the holder.
LEMMA CreateSessionKeepsHolder ==
  ASSUME LeaseInv, HolderInv, Unattended, NEW c \in Clients, CreateSession(c)
  PROVE  HolderInv'
<1>1. LiveIsHeld'
  <2>1. session[c] = NoSession /\ ~At(c, "created")
    BY DEF CreateSession, HolderInv, StarterHasNone, Starting, At
  <2>2. \A d \in Clients \ {c} : pc'[d] = pc[d]
    BY DEF CreateSession, Goto, LeaseInv, TypesOK, ClientsTypeOK
  <2>3. \A s \in Sessions : Live(s)' => Live(s) \/ (s = target[c] /\ pc'[c] = "created")
    BY DEF CreateSession, Goto, Live, LeaseInv, TypesOK, ClientsTypeOK, SessionsTypeOK
  <2>4. \A s \in Sessions : Live(s) => Live(s)'
    BY DEF CreateSession, Goto, Live, LeaseInv, TypesOK, ClientsTypeOK, SessionsTypeOK
  <2>5. UNCHANGED <<session, target>>
    BY DEF CreateSession
  <2> SUFFICES ASSUME NEW s \in Sessions, Live(s)'
               PROVE  \E d \in Clients : Holds(d)' /\ (session[d] = s \/ (pc'[d] = "created" /\ target[d] = s))
    BY <2>5 DEF LiveIsHeld, At
  <2>6. CASE s = target[c] /\ pc'[c] = "created"
    BY <2>6 DEF Holds, Starting
  <2>7. CASE Live(s)
    <3>1. PICK d \in Clients : Holds(d) /\ (session[d] = s \/ (At(d, "created") /\ target[d] = s))
      BY <2>7 DEF HolderInv, LiveIsHeld
    <3>2. d # c
      BY <3>1, <2>1, Numbers
    <3>3. Holds(d)'
      BY <3>1, <3>2, <2>2, <2>4, <2>5, Numbers
         DEF Holds, Starting, At, HolderInv, RunnerIsActive, LeaseInv, TypesOK, ClientsTypeOK
    <3> QED
      BY <3>1, <3>2, <3>3, <2>2 DEF At
  <2> QED
    BY <2>3, <2>6, <2>7
<1>2. OpenIsLast'
  <2>1. session[c] = NoSession /\ At(c, "loaded") /\ current = target[c] /\ pipe[target[c]] = "none"
    BY DEF CreateSession, LeaseInv, HolderInv, StarterHasNone, StartersAreFresh, Starting, At
  <2>2. \A s \in Sessions : ~Live(s)
    BY <2>1, LiveIsCurrent DEF Live
  <2>3. target[c] \in Sessions
    BY DEF CreateSession, LeaseInv, StartersAreFresh, Starting, At, TypesOK, ClientsTypeOK
  <2>4. CASE UNCHANGED <<manifest, recency, pipe>>
    BY <2>4 DEF HolderInv, OpenIsLast, Live
  <2>5. CASE WriteManifest(target[c], "active") /\ pipe' = [pipe EXCEPT ![target[c]] = "recording"]
    <3>1. /\ manifest'[target[c]] = "active" /\ pipe'[target[c]] = "recording"
          /\ \A s \in Sessions \ {target[c]} : manifest'[s] = manifest[s] /\ pipe'[s] = pipe[s]
      BY <2>3, <2>5 DEF WriteManifest, LeaseInv, TypesOK, SessionsTypeOK
    <3>2. recency' # <<>> /\ recency'[Len(recency')] = target[c]
      BY <2>3, <2>5, WrittenIsLast DEF LeaseInv
    <3> QED
      BY <2>2, <3>1, <3>2 DEF HolderInv, OpenIsLast, Live, Open
  <2> QED
    BY <2>4, <2>5 DEF CreateSession
<1>3. PendingIsActive'
  <2>1. target[c] \in Sessions /\ pipe[target[c]] = "none" /\ active = NoSession
    BY DEF CreateSession, LeaseInv, HolderInv, StarterHasNone, StartersAreFresh, Starting,
           At, TypesOK, ClientsTypeOK
  <2>2. \A s \in Sessions : callback[s] # "none" => s # target[c]
    BY <2>1 DEF HolderInv, PendingIsActive
  <2>3. \A s \in Sessions \ {target[c]} : pipe'[s] = pipe[s]
    BY DEF CreateSession, LeaseInv, TypesOK, SessionsTypeOK
  <2> QED
    BY <2>2, <2>3 DEF CreateSession, serviceVars, HolderInv, PendingIsActive
<1>4. OneHolder' /\ StarterHasNone'
  <2>1. At(c, "loaded") /\ pc'[c] \in {"created", "startFailed"}
    BY DEF CreateSession, Unattended, Goto, At, LeaseInv, TypesOK, ClientsTypeOK
  <2>2. \A d \in Clients \ {c} : pc'[d] = pc[d] /\ ~Holds(d)
    BY <2>1
       DEF CreateSession, Goto, HolderInv, OneHolder, Holds, Starting, At, LeaseInv, TypesOK,
           ClientsTypeOK
  <2>3. UNCHANGED <<active, current, status, session, target>>
    BY DEF CreateSession, serviceVars
  <2>4. \A s \in Sessions : Live(s)' => Live(s) \/ s = target[c]
    BY DEF CreateSession, Live, LeaseInv, TypesOK, SessionsTypeOK
  <2>5. \A d \in Clients \ {c} : ~Holds(d)'
    <3> SUFFICES ASSUME NEW d \in Clients \ {c} PROVE ~Holds(d)'
      OBVIOUS
    <3>1. At(d, "waiting") => session[d] \in Sessions /\ session[d] # target[c]
      BY <2>1
         DEF HolderInv, RunnerIsActive, LeaseInv, StartersAreFresh, Starting, At, TypesOK,
             ClientsTypeOK
    <3> QED
      BY <2>2, <2>3, <2>4, <3>1 DEF Holds, Starting, At
  <2>6. OneHolder'
    BY <2>1, <2>3, <2>5 DEF HolderInv, OneHolder, Holds, Starting, At
  <2>7. StarterHasNone'
    BY <2>1, <2>2, <2>3 DEF HolderInv, StarterHasNone, Holds, Starting, Aborting, At
  <2> QED
    BY <2>6, <2>7
<1>5. RunnerIsActive'
  BY Numbers DEF LeaseInv, HolderInv, Unattended, CreateSession, WriteManifest,
      RunnerIsActive, OneHolder, StarterHasNone, StartersAreFresh, Starting, TypesOK,
      At, Goto, serviceVars, Running, Aborting, Live, Holds, Busy, SessionsTypeOK,
      ClientsTypeOK, Open
<1>6. SessionsApart'
  BY Numbers DEF LeaseInv, HolderInv, Unattended, CreateSession, WriteManifest,
      SessionsApart, TypesOK, At, Goto, serviceVars, SessionsTypeOK, ClientsTypeOK, Open
<1>7. DeletedIsIdle'
  BY Numbers DEF LeaseInv, HolderInv, Unattended, CreateSession, WriteManifest,
      DeletedIsIdle, TypesOK, At, Goto, serviceVars, Busy, SessionsTypeOK,
      ClientsTypeOK, Open
<1> QED
  BY <1>1, <1>2, <1>3, <1>4, <1>5, <1>6, <1>7 DEF HolderInv

\* Making it active keeps the invariant of the holder.
LEMMA SetActiveKeepsHolder ==
  ASSUME LeaseInv, HolderInv, Unattended, NEW c \in Clients, SetActive(c)
  PROVE  HolderInv'
<1>1. OneHolder'
  <2>1. Holds(c) /\ \A d \in Clients : Holds(d)' => Holds(d)
    BY DEF SetActive, Goto, Holds, Starting, At, Live, sessionVars, LeaseInv, TypesOK,
           ClientsTypeOK
  <2>2. status' \in Busy
    BY <2>1 DEF SetActive, HolderInv, OneHolder, Busy
  <2> QED
    BY <2>1, <2>2 DEF HolderInv, OneHolder
<1>2. StarterHasNone'
  <2>1. Holds(c) /\ current = target[c]
    BY DEF SetActive, HolderInv, StarterHasNone, Holds, Starting, At
  <2>2. pc'[c] \in Running /\ \A d \in Clients \ {c} : pc'[d] = pc[d] /\ ~Holds(d)
    BY <2>1
       DEF SetActive, Unattended, Goto, Running, HolderInv, OneHolder, LeaseInv, TypesOK,
           ClientsTypeOK
  <2> QED
    BY <2>2 DEF StarterHasNone, Holds, Starting, Running, Aborting, At
<1>3. SessionsApart'
  <2>1. audio' = audio /\ session' = [session EXCEPT ![c] = target[c]]
    BY DEF SetActive, sessionVars, Unattended, HolderInv, StarterHasNone, Starting, At
  <2>2. /\ target[c] # NoSession
        /\ audio[target[c]] = <<>>
        /\ \A d \in Clients : session[d] # target[c]
    BY DEF SetActive, LeaseInv, StartersAreFresh, Starting, At
  <2>3. session'[c] = target[c] /\ \A d \in Clients \ {c} : session'[d] = session[d]
    BY <2>1 DEF LeaseInv, TypesOK, ClientsTypeOK
  <2> QED
    BY <2>1, <2>2, <2>3 DEF HolderInv, SessionsApart
<1>4. LiveIsHeld'
  <2>1. pipe' = pipe /\ \A d \in Clients \ {c} :
          pc'[d] = pc[d] /\ session'[d] = session[d] /\ target'[d] = target[d]
    BY DEF SetActive, Goto, sessionVars, LeaseInv, TypesOK, ClientsTypeOK
  <2>2. ASSUME NEW s \in Sessions, Live(s), Holds(c),
               session[c] = s \/ (At(c, "created") /\ target[c] = s)
        PROVE  Holds(c)' /\ (session'[c] = s \/ (pc'[c] = "created" /\ target'[c] = s))
    BY <2>1, <2>2, Numbers
       DEF SetActive, Unattended, Goto, HolderInv, StarterHasNone, Starting, Holds, Running,
           Aborting, At, Live, LeaseInv, TypesOK, ClientsTypeOK
  <2> QED
    BY <2>1, <2>2, HeldStays
<1>5. DeletedIsIdle'
  <2>1. current = target[c] /\ target[c] # deleting.session
    BY DEF SetActive, LeaseInv, HolderInv, StarterHasNone, StartersAreFresh, Starting, At
  <2> QED
    BY <2>1 DEF SetActive, DeletedIsIdle
<1>6. OpenIsLast'
  BY Numbers DEF LeaseInv, HolderInv, Unattended, SetActive, OpenIsLast, TypesOK, At,
      Goto, sessionVars, Open, Live, SessionsTypeOK, ClientsTypeOK
<1>7. RunnerIsActive'
  BY Numbers DEF LeaseInv, HolderInv, Unattended, SetActive, RunnerIsActive, OneHolder,
      StarterHasNone, StartersAreFresh, Starting, TypesOK, At, Goto, sessionVars,
      Running, Aborting, Live, Holds, Busy, SessionsTypeOK, ClientsTypeOK, Open
<1>8. PendingIsActive'
  BY Numbers DEF LeaseInv, HolderInv, Unattended, SetActive, PendingIsActive,
      LiveIsHeld, RunnerIsActive, OneHolder, StartersAreFresh, StarterHasNone, Starting,
      TypesOK, At, Goto, sessionVars, Live, Holds, Running, Aborting, Busy,
      SessionsTypeOK, ClientsTypeOK, Open
<1> QED
  BY <1>1, <1>2, <1>3, <1>4, <1>5, <1>6, <1>7, <1>8 DEF HolderInv

\* Writing upload.json keeps the invariant of the holder.
LEMMA WriteProvenanceKeepsHolder ==
  ASSUME LeaseInv, HolderInv, Unattended, NEW c \in Clients, WriteProvenance(c)
  PROVE  HolderInv'
<1>1. OneHolder'
  <2>1. \A d \in Clients : Holds(d)' => Holds(d)
    BY DEF WriteProvenance, Goto, Unattended, Holds, Starting, Running, At, Live,
           sessionVars, LeaseInv, TypesOK, ClientsTypeOK
  <2> QED
    BY <2>1 DEF WriteProvenance, serviceVars, HolderInv, OneHolder
<1>2. LiveIsHeld'
  <2>1. pipe' = pipe /\ \A d \in Clients \ {c} :
          pc'[d] = pc[d] /\ session'[d] = session[d] /\ target'[d] = target[d]
    BY DEF WriteProvenance, Goto, sessionVars, LeaseInv, TypesOK, ClientsTypeOK
  <2>2. ASSUME NEW s \in Sessions, Live(s), Holds(c),
               session[c] = s \/ (At(c, "created") /\ target[c] = s)
        PROVE  Holds(c)' /\ (session'[c] = s \/ (pc'[c] = "created" /\ target'[c] = s))
    BY <2>1, <2>2, Numbers
       DEF WriteProvenance, Unattended, Goto, Holds, Running, At, Live, LeaseInv, TypesOK,
           ClientsTypeOK
  <2> QED
    BY <2>1, <2>2, HeldStays
<1>3. StarterHasNone' /\ RunnerIsActive' /\ SessionsApart' /\ PendingIsActive' /\ OpenIsLast'
  BY Numbers DEF LeaseInv, HolderInv, Unattended, WriteProvenance, StarterHasNone,
      RunnerIsActive, SessionsApart, PendingIsActive, OpenIsLast, TypesOK, At, Goto,
      serviceVars, sessionVars, Starting, Aborting, Running, Live, Open, SessionsTypeOK,
      ClientsTypeOK
<1>4. DeletedIsIdle'
  BY Numbers DEF LeaseInv, HolderInv, Unattended, WriteProvenance, DeletedIsIdle,
      LiveIsHeld, ActiveIsCurrent, DeletedIsOver, Numbered, Starting, TypesOK, At, Goto,
      serviceVars, sessionVars, Busy, Live, Holds, SessionsTypeOK, ClientsTypeOK,
      Running, Aborting, Open
<1> QED
  BY <1>1, <1>2, <1>3, <1>4 DEF HolderInv

\* A failed start keeps the invariant of the holder.
LEMMA StartFailedKeepsHolder ==
  ASSUME LeaseInv, HolderInv, Unattended, NEW c \in Clients, StartFailed(c)
  PROVE  HolderInv'
<1>1. OneHolder' /\ StarterHasNone' /\ LiveIsHeld' /\ PendingIsActive'
  <2>1. active = NoSession /\ (\A s \in Sessions : ~Live(s)) /\ \A d \in Clients \ {c} : ~Holds(d)
    BY FailureIsAlone DEF StartFailed
  <2>2. /\ pc'[c] \in {"finally", "error"} /\ \A d \in Clients \ {c} : pc'[d] = pc[d]
        /\ UNCHANGED <<session, target, pipe, callback, current>> /\ active' = NoSession
        /\ pc'[c] = "error" => status' = status
    BY <2>1
       DEF StartFailed, Release, Goto, At, serviceVars, sessionVars, LeaseInv, TypesOK,
           ClientsTypeOK
  <2>3. /\ \A d \in Clients \ {c} : ~Holds(d)'
        /\ Holds(c)' => pc'[c] = "error"
    BY <2>1, <2>2 DEF Holds, Starting, Running, Aborting, At, Live
  <2>4. Holds(c) /\ session[c] = NoSession
    BY DEF StartFailed, Holds, HolderInv, StarterHasNone, At
  <2>5. OneHolder'
    BY <2>2, <2>3, <2>4 DEF HolderInv, OneHolder
  <2>6. StarterHasNone'
    BY <2>2, <2>3, <2>4 DEF StarterHasNone, Holds, Starting, Aborting, At
  <2>7. LiveIsHeld'
    BY <2>1, <2>2 DEF LiveIsHeld, Live
  <2>8. PendingIsActive'
    BY <2>1, <2>2, Numbers DEF HolderInv, PendingIsActive
  <2> QED
    BY <2>5, <2>6, <2>7, <2>8
<1>2. SessionsApart' /\ OpenIsLast' /\ DeletedIsIdle'
  BY Numbers DEF LeaseInv, HolderInv, Unattended, StartFailed, Release,
      ScheduleEviction, SessionsApart, OpenIsLast, DeletedIsIdle, TypesOK, At, Goto,
      serviceVars, sessionVars, Open, Live, Busy, SessionsTypeOK, ClientsTypeOK
<1>3. RunnerIsActive'
  BY Numbers DEF LeaseInv, HolderInv, Unattended, StartFailed, Release,
      ScheduleEviction, RunnerIsActive, OneHolder, StarterHasNone, StartersAreFresh,
      Starting, TypesOK, At, Goto, serviceVars, sessionVars, Running, Aborting, Live,
      Holds, Busy, SessionsTypeOK, ClientsTypeOK, Open
<1> QED
  BY <1>1, <1>2, <1>3 DEF HolderInv

\* Reading the active session keeps the invariant of the holder.
LEMMA ReadActiveKeepsHolder ==
  ASSUME LeaseInv, HolderInv, Unattended, NEW c \in Clients, ReadActive(c)
  PROVE  HolderInv'
<1>1. OneHolder' /\ StarterHasNone' /\ RunnerIsActive' /\ SessionsApart'
  BY Numbers DEF LeaseInv, HolderInv, Unattended, ReadActive, OneHolder, StarterHasNone,
      RunnerIsActive, SessionsApart, TypesOK, At, Goto, serviceVars, sessionVars, Holds,
      Busy, Starting, Aborting, Running, Live, SessionsTypeOK, ClientsTypeOK, Open
<1>2. LiveIsHeld' /\ PendingIsActive' /\ OpenIsLast' /\ DeletedIsIdle'
  BY Numbers DEF LeaseInv, HolderInv, Unattended, ReadActive, LiveIsHeld,
      PendingIsActive, OpenIsLast, DeletedIsIdle, OneHolder, StarterHasNone,
      RunnerIsActive, SessionsApart, TypesOK, At, Goto, serviceVars, sessionVars, Live,
      Holds, Open, Busy, Starting, Aborting, Running, SessionsTypeOK, ClientsTypeOK
<1> QED
  BY <1>1, <1>2 DEF HolderInv

\* A block keeps the invariant of the holder.
LEMMA AcceptBlockKeepsHolder ==
  ASSUME LeaseInv, HolderInv, Unattended, NEW c \in Clients, AcceptBlock(c)
  PROVE  HolderInv'
<1>1. SessionsApart'
  <2>1. target[c] = session[c] /\ session[c] # NoSession /\ session[c] \in Sessions
    BY DEF AcceptBlock, LeaseInv, HolderInv, RunnerIsActive, Running, At, TypesOK, ClientsTypeOK
  <2>2. session' = session
    BY <2>1 DEF AcceptBlock, LeaseInv, TypesOK, ClientsTypeOK
  <2>3. audio' = audio \/ audio' = [audio EXCEPT ![session[c]] = Append(audio[session[c]], c)]
    BY <2>1 DEF AcceptBlock
  <2>4. audio[session[c]] \in Seq(Clients)
    BY <2>1 DEF LeaseInv, TypesOK, SessionsTypeOK
  <2>5. \A i \in 1..Len(Append(audio[session[c]], c)) : Append(audio[session[c]], c)[i] = c
    BY <2>1, <2>4 DEF HolderInv, SessionsApart
  <2> QED
    BY <2>1, <2>2, <2>3, <2>5
       DEF HolderInv, SessionsApart, LeaseInv, TypesOK, SessionsTypeOK, ClientsTypeOK
<1>2. LiveIsHeld'
  <2>1. pipe' = pipe /\ \A d \in Clients \ {c} :
          pc'[d] = pc[d] /\ session'[d] = session[d] /\ target'[d] = target[d]
    BY DEF AcceptBlock, Goto, sessionVars, LeaseInv, TypesOK, ClientsTypeOK
  <2>2. ASSUME NEW s \in Sessions, Live(s), Holds(c),
               session[c] = s \/ (At(c, "created") /\ target[c] = s)
        PROVE  Holds(c)' /\ (session'[c] = s \/ (pc'[c] = "created" /\ target'[c] = s))
    BY <2>1, <2>2, Numbers
       DEF AcceptBlock, Goto, HolderInv, RunnerIsActive, Holds, Running, Aborting, At, Live,
           LeaseInv, TypesOK, ClientsTypeOK
  <2> QED
    BY <2>1, <2>2, HeldStays
<1>3. RunnerIsActive' /\ PendingIsActive' /\ OpenIsLast' /\ DeletedIsIdle'
  BY Numbers DEF LeaseInv, HolderInv, Unattended, AcceptBlock, InSequence,
      RunnerIsActive, PendingIsActive, OpenIsLast, DeletedIsIdle, TypesOK, At, Goto,
      serviceVars, Running, Aborting, Live, Open, Busy, SessionsTypeOK, ClientsTypeOK
<1>4. OneHolder'
  BY Numbers DEF LeaseInv, HolderInv, Unattended, AcceptBlock, InSequence, OneHolder,
      RunnerIsActive, StartersAreFresh, StarterHasNone, Starting, TypesOK, At, Goto,
      serviceVars, Holds, Busy, Running, Aborting, Live, SessionsTypeOK, ClientsTypeOK,
      Open
<1>5. StarterHasNone'
  BY Numbers DEF LeaseInv, HolderInv, Unattended, AcceptBlock, InSequence,
      StarterHasNone, OneHolder, RunnerIsActive, Starting, TypesOK, At, Goto,
      serviceVars, Aborting, Holds, Busy, Running, Live, SessionsTypeOK, ClientsTypeOK,
      Open
<1> QED
  BY <1>1, <1>2, <1>3, <1>4, <1>5 DEF HolderInv

\* Reading the session to stop keeps the invariant of the holder.
LEMMA ReadStopKeepsHolder ==
  ASSUME LeaseInv, HolderInv, Unattended, NEW c \in Clients, ReadStop(c)
  PROVE  HolderInv'
<1>1. OneHolder' /\ StarterHasNone' /\ RunnerIsActive' /\ SessionsApart'
  BY Numbers DEF LeaseInv, HolderInv, Unattended, ReadStop, OneHolder, StarterHasNone,
      RunnerIsActive, SessionsApart, TypesOK, At, Goto, serviceVars, sessionVars, Holds,
      Busy, Starting, Aborting, Running, Live, SessionsTypeOK, ClientsTypeOK, Open
<1>2. LiveIsHeld' /\ PendingIsActive' /\ OpenIsLast' /\ DeletedIsIdle'
  BY Numbers DEF LeaseInv, HolderInv, Unattended, ReadStop, LiveIsHeld, PendingIsActive,
      OpenIsLast, DeletedIsIdle, OneHolder, StarterHasNone, RunnerIsActive,
      SessionsApart, TypesOK, At, Goto, serviceVars, sessionVars, Live, Holds, Open,
      Busy, Starting, Aborting, Running, SessionsTypeOK, ClientsTypeOK
<1> QED
  BY <1>1, <1>2 DEF HolderInv

\* Stopping keeps the invariant of the holder.
LEMMA BeginStopKeepsHolder ==
  ASSUME LeaseInv, HolderInv, Unattended, NEW c \in Clients, BeginStop(c)
  PROVE  HolderInv'
<1>1. DeletedIsIdle'
  <2>1. status \in Busy
    BY DEF BeginStop, HolderInv, OneHolder, Holds, Running, At
  <2> QED
    BY <2>1 DEF BeginStop, HolderInv, DeletedIsIdle
<1>2. OneHolder' /\ StarterHasNone' /\ RunnerIsActive' /\ SessionsApart'
  BY Numbers DEF LeaseInv, HolderInv, Unattended, BeginStop, OneHolder, StarterHasNone,
      RunnerIsActive, SessionsApart, TypesOK, At, Goto, sessionVars, Holds, Busy,
      Starting, Aborting, Running, Live, SessionsTypeOK, ClientsTypeOK, Open
<1>3. PendingIsActive' /\ OpenIsLast'
  BY Numbers DEF LeaseInv, HolderInv, Unattended, BeginStop, PendingIsActive,
      OpenIsLast, TypesOK, At, Goto, sessionVars, Open, Live, SessionsTypeOK,
      ClientsTypeOK
<1>4. LiveIsHeld'
  BY Numbers DEF LeaseInv, HolderInv, Unattended, BeginStop, LiveIsHeld, OneHolder,
      RunnerIsActive, StarterHasNone, StartersAreFresh, Starting, TypesOK, At, Goto,
      sessionVars, Live, Holds, Busy, Running, Aborting, SessionsTypeOK, ClientsTypeOK,
      Open
<1> QED
  BY <1>1, <1>2, <1>3, <1>4 DEF HolderInv

\* Stopping the pipeline keeps the invariant of the holder.
LEMMA StopPipelineKeepsHolder ==
  ASSUME LeaseInv, HolderInv, Unattended, NEW c \in Clients, StopPipeline(c)
  PROVE  HolderInv'
<1>1. OneHolder' /\ LiveIsHeld'
  <2>1. /\ Holds(c)
        /\ target[c] = session[c]
        /\ session[c] \in Sessions
        /\ pipe[session[c]] = "recording"
    BY DEF StopPipeline, LeaseInv, HolderInv, RunnerIsActive, Holds, Running, At, TypesOK,
           ClientsTypeOK
  <2>2. pc'[c] = "waiting" /\ \A d \in Clients \ {c} : pc'[d] = pc[d]
    BY <2>1 DEF StopPipeline, Goto, Unattended, LeaseInv, TypesOK, ClientsTypeOK
  <2>3. \A s \in Sessions : Live(s)' <=> Live(s)
    BY <2>1 DEF StopPipeline, Live, LeaseInv, TypesOK, SessionsTypeOK
  <2>4. UNCHANGED <<session, target, status>>
    BY DEF StopPipeline, serviceVars
  <2>5. \A d \in Clients : session[d] \in Sessions \/ session[d] = NoSession
    BY DEF LeaseInv, TypesOK, ClientsTypeOK
  <2>6. \A d \in Clients : Holds(d)' <=> Holds(d)
    <3>1. Holds(c)'
      BY <2>1, <2>2, <2>3, <2>4 DEF Holds, At, Live
    <3>2. ASSUME NEW d \in Clients \ {c} PROVE Holds(d)' <=> Holds(d)
      <4>1. At(d, "waiting") => session[d] \in Sessions
        BY <2>5 DEF HolderInv, RunnerIsActive, At
      <4>2. At(d, "waiting") => (Live(session[d])' <=> Live(session[d]))
        BY <2>3, <2>4, <4>1 DEF Live
      <4> QED
        BY <2>2, <4>2 DEF Holds, Starting, At
    <3> QED
      BY <2>1, <3>1, <3>2
  <2>7. OneHolder'
    BY <2>4, <2>6 DEF HolderInv, OneHolder
  <2>8. LiveIsHeld'
    <3> SUFFICES ASSUME NEW s \in Sessions, Live(s)
                 PROVE  \E d \in Clients : Holds(d)' /\ (session[d] = s \/ (pc'[d] = "created" /\ target[d] = s))
      BY <2>3, <2>4 DEF LiveIsHeld, At
    <3>1. PICK d \in Clients : Holds(d) /\ (session[d] = s \/ (At(d, "created") /\ target[d] = s))
      BY DEF HolderInv, LiveIsHeld
    <3>2. d = c
      BY <2>1, <3>1 DEF HolderInv, OneHolder
    <3> QED
      BY <2>6, <3>1, <3>2 DEF StopPipeline, At
  <2> QED
    BY <2>3, <2>7, <2>8
<1>2. OpenIsLast'
  <2>1. target[c] \in Sessions /\ pipe[target[c]] = "recording"
    BY DEF StopPipeline, LeaseInv, HolderInv, RunnerIsActive, Running, At, TypesOK, ClientsTypeOK
  <2>2. \A s \in Sessions \ {target[c]} : ~Live(s)
    BY <2>1, LiveIsCurrent DEF Live
  <2>3. /\ manifest'[target[c]] = "stopping" /\ pipe'[target[c]] = "settling"
        /\ \A s \in Sessions \ {target[c]} : manifest'[s] = manifest[s] /\ pipe'[s] = pipe[s]
    BY <2>1 DEF StopPipeline, WriteManifest, LeaseInv, TypesOK, SessionsTypeOK
  <2>4. recency' # <<>> /\ recency'[Len(recency')] = target[c]
    BY <2>1, WrittenIsLast DEF StopPipeline, LeaseInv
  <2> QED
    BY <2>2, <2>3, <2>4 DEF HolderInv, OpenIsLast, Live, Open
<1>3. SessionsApart' /\ PendingIsActive' /\ DeletedIsIdle'
  BY Numbers DEF LeaseInv, HolderInv, Unattended, StopPipeline, WriteManifest,
      SessionsApart, PendingIsActive, DeletedIsIdle, TypesOK, At, Goto, serviceVars,
      Busy, SessionsTypeOK, ClientsTypeOK, Open
<1>4. StarterHasNone'
  BY Numbers DEF LeaseInv, HolderInv, Unattended, StopPipeline, WriteManifest,
      StarterHasNone, OneHolder, RunnerIsActive, Starting, TypesOK, At, Goto,
      serviceVars, Aborting, Holds, Busy, Running, Live, SessionsTypeOK, ClientsTypeOK,
      Open
<1>5. RunnerIsActive'
  BY Numbers DEF LeaseInv, HolderInv, Unattended, StopPipeline, WriteManifest,
      RunnerIsActive, OneHolder, StarterHasNone, StartersAreFresh, Starting, TypesOK,
      At, Goto, serviceVars, Running, Aborting, Live, Holds, Busy, SessionsTypeOK,
      ClientsTypeOK, Open
<1> QED
  BY <1>1, <1>2, <1>3, <1>4, <1>5 DEF HolderInv

\* The end of a wait keeps the invariant of the holder.
LEMMA SettledKeepsHolder ==
  ASSUME LeaseInv, HolderInv, Unattended, NEW c \in Clients, Settled(c)
  PROVE  HolderInv'
<1>1. LiveIsHeld'
  <2>1. pipe' = pipe /\ \A d \in Clients \ {c} :
          pc'[d] = pc[d] /\ session'[d] = session[d] /\ target'[d] = target[d]
    BY DEF Settled, Goto, sessionVars, LeaseInv, TypesOK, ClientsTypeOK
  <2>2. ASSUME NEW s \in Sessions, Live(s), Holds(c),
               session[c] = s \/ (At(c, "created") /\ target[c] = s)
        PROVE  Holds(c)' /\ (session'[c] = s \/ (pc'[c] = "created" /\ target'[c] = s))
    BY <2>1, <2>2, Numbers DEF Settled, Holds, Starting, Running, Aborting, At
  <2> QED
    BY <2>1, <2>2, HeldStays
<1>2. OneHolder'
  BY Numbers DEF LeaseInv, HolderInv, Unattended, Settled, OneHolder, TypesOK, At, Live,
      Goto, serviceVars, sessionVars, Holds, Busy, SessionsTypeOK, ClientsTypeOK,
      Starting, Running, Aborting, Open
<1>3. StarterHasNone'
  BY Numbers DEF LeaseInv, HolderInv, Unattended, Settled, StarterHasNone, TypesOK, At,
      Live, Goto, serviceVars, sessionVars, Starting, Aborting, SessionsTypeOK,
      ClientsTypeOK, Open
<1>4. RunnerIsActive'
  BY Numbers DEF LeaseInv, HolderInv, Unattended, Settled, RunnerIsActive, TypesOK, At,
      Live, Goto, serviceVars, sessionVars, Running, Aborting, SessionsTypeOK,
      ClientsTypeOK, Open
<1>5. SessionsApart'
  BY Numbers DEF LeaseInv, HolderInv, Unattended, Settled, SessionsApart, TypesOK, At,
      Live, Goto, serviceVars, sessionVars, SessionsTypeOK, ClientsTypeOK, Open
<1>6. PendingIsActive'
  BY Numbers DEF LeaseInv, HolderInv, Unattended, Settled, PendingIsActive, TypesOK, At,
      Live, Goto, serviceVars, sessionVars, SessionsTypeOK, ClientsTypeOK, Open
<1>7. OpenIsLast'
  BY Numbers DEF LeaseInv, HolderInv, Unattended, Settled, OpenIsLast, TypesOK, At,
      Live, Goto, serviceVars, sessionVars, Open, SessionsTypeOK, ClientsTypeOK
<1>8. DeletedIsIdle'
  BY Numbers DEF LeaseInv, HolderInv, Unattended, Settled, DeletedIsIdle, TypesOK, At,
      Live, Goto, serviceVars, sessionVars, Busy, SessionsTypeOK, ClientsTypeOK, Open
<1> QED
  BY <1>1, <1>2, <1>3, <1>4, <1>5, <1>6, <1>7, <1>8 DEF HolderInv

\* A source that fails keeps the invariant of the holder.
LEMMA SourceFailsKeepsHolder ==
  ASSUME LeaseInv, HolderInv, Unattended, NEW c \in Clients, SourceFails(c)
  PROVE  HolderInv'
<1>1. OneHolder' /\ StarterHasNone' /\ RunnerIsActive' /\ SessionsApart'
  BY Numbers DEF LeaseInv, HolderInv, Unattended, SourceFails, OneHolder,
      StarterHasNone, RunnerIsActive, SessionsApart, TypesOK, At, Goto, serviceVars,
      sessionVars, Holds, Busy, Starting, Aborting, Running, Live, SessionsTypeOK,
      ClientsTypeOK, Open
<1>2. LiveIsHeld' /\ PendingIsActive' /\ OpenIsLast' /\ DeletedIsIdle'
  BY Numbers DEF LeaseInv, HolderInv, Unattended, SourceFails, LiveIsHeld,
      PendingIsActive, OpenIsLast, DeletedIsIdle, OneHolder, StarterHasNone,
      RunnerIsActive, SessionsApart, TypesOK, At, Goto, serviceVars, sessionVars, Live,
      Holds, Open, Busy, Starting, Aborting, Running, SessionsTypeOK, ClientsTypeOK
<1> QED
  BY <1>1, <1>2 DEF HolderInv

\* Reading the session to abort keeps the invariant of the holder.
LEMMA ReadAbortKeepsHolder ==
  ASSUME LeaseInv, HolderInv, Unattended, NEW c \in Clients, ReadAbort(c)
  PROVE  HolderInv'
<1>1. OneHolder' /\ StarterHasNone' /\ RunnerIsActive' /\ SessionsApart'
  BY Numbers DEF LeaseInv, HolderInv, Unattended, ReadAbort, OneHolder, StarterHasNone,
      RunnerIsActive, SessionsApart, TypesOK, Goto, At, serviceVars, sessionVars, Holds,
      Busy, Starting, Aborting, Running, Live, SessionsTypeOK, ClientsTypeOK, Open
<1>2. PendingIsActive' /\ OpenIsLast' /\ DeletedIsIdle'
  BY Numbers DEF LeaseInv, HolderInv, Unattended, ReadAbort, PendingIsActive,
      OpenIsLast, DeletedIsIdle, TypesOK, Goto, At, serviceVars, sessionVars, Open,
      Live, Busy, SessionsTypeOK, ClientsTypeOK
<1>3. LiveIsHeld'
  BY Numbers DEF LeaseInv, HolderInv, Unattended, ReadAbort, LiveIsHeld, OneHolder,
      RunnerIsActive, StarterHasNone, StartersAreFresh, Starting, TypesOK, Goto, At,
      serviceVars, sessionVars, Live, Holds, Busy, Running, Aborting, SessionsTypeOK,
      ClientsTypeOK, Open
<1> QED
  BY <1>1, <1>2, <1>3 DEF HolderInv

\* An abort without a session keeps the invariant of the holder.
LEMMA AbortNothingKeepsHolder ==
  ASSUME LeaseInv, HolderInv, Unattended, NEW c \in Clients, AbortNothing(c)
  PROVE  HolderInv'
<1>1. LiveIsHeld' /\ PendingIsActive'
  <2>1. active = NoSession /\ \A s \in Sessions : ~Live(s)
    BY FailureIsAlone DEF AbortNothing, HolderInv, RunnerIsActive, At
  <2>2. UNCHANGED <<pipe, callback>>
    BY DEF AbortNothing, sessionVars
  <2> QED
    BY <2>1, <2>2, Numbers DEF LiveIsHeld, Live, HolderInv, PendingIsActive
<1>2. OneHolder' /\ StarterHasNone' /\ RunnerIsActive' /\ SessionsApart'
  BY Numbers DEF LeaseInv, HolderInv, Unattended, AbortNothing, Release,
      ScheduleEviction, AfterAbort, OneHolder, StarterHasNone, RunnerIsActive,
      SessionsApart, TypesOK, Goto, sessionVars, Holds, Busy, Starting, At, Aborting,
      Running, Live, SessionsTypeOK, ClientsTypeOK, Open
<1>3. OpenIsLast' /\ DeletedIsIdle'
  BY Numbers DEF LeaseInv, HolderInv, Unattended, AbortNothing, Release,
      ScheduleEviction, AfterAbort, OpenIsLast, DeletedIsIdle, TypesOK, Goto,
      sessionVars, Open, Live, Busy, SessionsTypeOK, ClientsTypeOK
<1> QED
  BY <1>1, <1>2, <1>3 DEF HolderInv

\* An abort keeps the invariant of the holder.
LEMMA AbortPipelineKeepsHolder ==
  ASSUME LeaseInv, HolderInv, Unattended, NEW c \in Clients, AbortPipeline(c)
  PROVE  HolderInv'
<1>1. LiveIsHeld' /\ RunnerIsActive'
  <2>1. /\ At(c, "abort")
        /\ target[c] \in Sessions
        /\ session[c] = target[c]
        /\ active = target[c]
        /\ pipe[target[c]] = "recording"
    /\ pc' = [pc EXCEPT ![c] = "deliver"] /\ pipe' = [pipe EXCEPT ![target[c]] = "aborted"]
    BY AbortIsOwn
  <2>2. \A s \in Sessions : ~Live(s)'
    BY <2>1, LiveIsCurrent DEF Live, LeaseInv, TypesOK, SessionsTypeOK
  <2>3. LiveIsHeld'
    BY <2>2 DEF LiveIsHeld
  <2>4. \A d \in Clients \ {c} : pc'[d] = pc[d] /\ ~Holds(d)
    BY <2>1 DEF Holds, At, Aborting, HolderInv, OneHolder, LeaseInv, TypesOK, ClientsTypeOK
  <2>5. pc'[c] = "deliver"
    BY <2>1 DEF LeaseInv, TypesOK, ClientsTypeOK
  <2>6. RunnerIsActive'
    <3> SUFFICES ASSUME NEW d \in Clients PROVE
      /\ pc'[d] = "idle" => session[d] = NoSession
      /\ pc'[d] \in Running \cup {"waiting"} => session[d] # NoSession
      /\ ~(pc'[d] \in Running \/ (pc'[d] \in Aborting /\ session[d] # NoSession))
      /\ ~(pc'[d] = "waiting" /\ Live(session[d])')
      /\ pc'[d] \notin {"errorAgain", "abortAgain", "deliverAgain"}
      BY DEF AbortPipeline, RunnerIsActive, At, serviceVars
    <3>1. CASE d = c
      BY <2>5, <3>1 DEF Running, Aborting
    <3>2. CASE d # c
      <4>1. pc'[d] = pc[d] /\ ~Holds(d)
        BY <2>4, <3>2
      <4>2. pc[d] = "waiting" => session[d] \in Sessions
        BY DEF HolderInv, RunnerIsActive, LeaseInv, TypesOK, ClientsTypeOK
      <4> QED
        BY <2>2, <4>1, <4>2 DEF Holds, HolderInv, RunnerIsActive, At, AbortPipeline, Live
    <3> QED
      BY <3>1, <3>2
  <2> QED
    BY <2>3, <2>6
<1>2. OpenIsLast'
  <2>1. /\ target[c] \in Sessions /\ pipe[target[c]] = "recording"
        /\ pipe' = [pipe EXCEPT ![target[c]] = "aborted"] /\ WriteManifest(target[c], "failed")
    BY AbortIsOwn
  <2>2. \A s \in Sessions : ~Live(s)'
    BY <2>1, LiveIsCurrent DEF Live, LeaseInv, TypesOK, SessionsTypeOK
  <2>3. \A s \in Sessions \ {target[c]} : manifest'[s] = manifest[s] /\ ~Live(s)
    BY <2>1, LiveIsCurrent DEF WriteManifest, Live, LeaseInv, TypesOK, SessionsTypeOK
  <2>4. manifest'[target[c]] = "failed"
    BY <2>1 DEF WriteManifest, LeaseInv, TypesOK, SessionsTypeOK
  <2> QED
    BY <2>2, <2>3, <2>4 DEF HolderInv, OpenIsLast, Open
<1>3. SessionsApart' /\ DeletedIsIdle'
  BY Numbers DEF LeaseInv, HolderInv, Unattended, AbortPipeline, WriteManifest,
      AfterAbort, SessionsApart, DeletedIsIdle, TypesOK, Live, Goto, At, serviceVars,
      Busy, SessionsTypeOK, ClientsTypeOK, Open
<1>4. OneHolder'
  BY Numbers DEF LeaseInv, HolderInv, Unattended, AbortPipeline, WriteManifest,
      AfterAbort, OneHolder, RunnerIsActive, StartersAreFresh, StarterHasNone, Starting,
      TypesOK, Live, Goto, At, serviceVars, Holds, Busy, Running, Aborting,
      SessionsTypeOK, ClientsTypeOK, Open
<1>5. StarterHasNone'
  BY Numbers DEF LeaseInv, HolderInv, Unattended, AbortPipeline, WriteManifest,
      AfterAbort, StarterHasNone, OneHolder, RunnerIsActive, Starting, TypesOK, Live,
      Goto, At, serviceVars, Aborting, Holds, Busy, Running, SessionsTypeOK,
      ClientsTypeOK, Open
<1>6. PendingIsActive'
  BY Numbers DEF LeaseInv, HolderInv, Unattended, AbortPipeline, WriteManifest,
      AfterAbort, PendingIsActive, LiveIsHeld, RunnerIsActive, OneHolder,
      StartersAreFresh, StarterHasNone, Starting, TypesOK, Live, Goto, At, serviceVars,
      Holds, Running, Aborting, Busy, SessionsTypeOK, ClientsTypeOK, Open
<1> QED
  BY <1>1, <1>2, <1>3, <1>4, <1>5, <1>6 DEF HolderInv

\* The end of an abort keeps the invariant of the holder.
LEMMA DeliveredKeepsHolder ==
  ASSUME LeaseInv, HolderInv, Unattended, NEW c \in Clients, Delivered(c)
  PROVE  HolderInv'
<1>1. OneHolder' /\ StarterHasNone' /\ RunnerIsActive' /\ SessionsApart'
  BY Numbers DEF LeaseInv, HolderInv, Unattended, Delivered, AfterAbort, OneHolder,
      StarterHasNone, RunnerIsActive, SessionsApart, TypesOK, Goto, serviceVars,
      sessionVars, Holds, Busy, Starting, At, Aborting, Running, Live, SessionsTypeOK,
      ClientsTypeOK, Open
<1>2. LiveIsHeld' /\ PendingIsActive' /\ OpenIsLast' /\ DeletedIsIdle'
  BY Numbers DEF LeaseInv, HolderInv, Unattended, Delivered, AfterAbort, LiveIsHeld,
      PendingIsActive, OpenIsLast, DeletedIsIdle, OneHolder, StarterHasNone,
      RunnerIsActive, SessionsApart, TypesOK, Goto, serviceVars, sessionVars, Live,
      Holds, At, Open, Busy, Starting, Aborting, Running, SessionsTypeOK, ClientsTypeOK
<1> QED
  BY <1>1, <1>2 DEF HolderInv

\* The finally clause keeps the invariant of the holder.
LEMMA FinallyKeepsHolder ==
  ASSUME LeaseInv, HolderInv, Unattended, NEW c \in Clients, Finally(c)
  PROVE  HolderInv'
<1>1. LiveIsHeld'
  <2>1. pipe' = pipe /\ \A d \in Clients \ {c} :
          pc'[d] = pc[d] /\ session'[d] = session[d] /\ target'[d] = target[d]
    BY DEF Finally, Goto, sessionVars, LeaseInv, TypesOK, ClientsTypeOK
  <2>2. ASSUME NEW s \in Sessions, Live(s), Holds(c),
               session[c] = s \/ (At(c, "created") /\ target[c] = s)
        PROVE  Holds(c)' /\ (session'[c] = s \/ (pc'[c] = "created" /\ target'[c] = s))
    BY <2>1, <2>2, Numbers DEF Finally, Holds, Starting, Running, Aborting, At
  <2> QED
    BY <2>1, <2>2, HeldStays
<1>2. OneHolder'
  BY Numbers DEF LeaseInv, HolderInv, Unattended, Finally, OneHolder, TypesOK, At, Goto,
      Live, serviceVars, sessionVars, Holds, Busy, SessionsTypeOK, ClientsTypeOK,
      Starting, Running, Aborting, Open
<1>3. StarterHasNone'
  BY Numbers DEF LeaseInv, HolderInv, Unattended, Finally, StarterHasNone, TypesOK, At,
      Goto, Live, serviceVars, sessionVars, Starting, Aborting, SessionsTypeOK,
      ClientsTypeOK, Open
<1>4. RunnerIsActive'
  BY Numbers DEF LeaseInv, HolderInv, Unattended, Finally, RunnerIsActive, TypesOK, At,
      Goto, Live, serviceVars, sessionVars, Running, Aborting, SessionsTypeOK,
      ClientsTypeOK, Open
<1>5. SessionsApart'
  BY Numbers DEF LeaseInv, HolderInv, Unattended, Finally, SessionsApart, TypesOK, At,
      Goto, Live, serviceVars, sessionVars, SessionsTypeOK, ClientsTypeOK, Open
<1>6. PendingIsActive'
  BY Numbers DEF LeaseInv, HolderInv, Unattended, Finally, PendingIsActive, TypesOK, At,
      Goto, Live, serviceVars, sessionVars, SessionsTypeOK, ClientsTypeOK, Open
<1>7. OpenIsLast'
  BY Numbers DEF LeaseInv, HolderInv, Unattended, Finally, OpenIsLast, TypesOK, At,
      Goto, Live, serviceVars, sessionVars, Open, SessionsTypeOK, ClientsTypeOK
<1>8. DeletedIsIdle'
  BY Numbers DEF LeaseInv, HolderInv, Unattended, Finally, DeletedIsIdle, TypesOK, At,
      Goto, Live, serviceVars, sessionVars, Busy, SessionsTypeOK, ClientsTypeOK, Open
<1> QED
  BY <1>1, <1>2, <1>3, <1>4, <1>5, <1>6, <1>7, <1>8 DEF HolderInv

\* The end of a thread keeps the invariant of the holder.
LEMMA DoneKeepsHolder ==
  ASSUME LeaseInv, HolderInv, Unattended, NEW c \in Clients, Done(c)
  PROVE  HolderInv'
<1>1. LiveIsHeld'
  <2>1. pipe' = pipe /\ \A d \in Clients \ {c} :
          pc'[d] = pc[d] /\ session'[d] = session[d] /\ target'[d] = target[d]
    BY DEF Done, Goto, sessionVars, LeaseInv, TypesOK, ClientsTypeOK
  <2>2. ASSUME NEW s \in Sessions, Live(s), Holds(c),
               session[c] = s \/ (At(c, "created") /\ target[c] = s)
        PROVE  Holds(c)' /\ (session'[c] = s \/ (pc'[c] = "created" /\ target'[c] = s))
    BY <2>1, <2>2, Numbers DEF Done, Holds, Starting, Running, Aborting, At
  <2> QED
    BY <2>1, <2>2, HeldStays
<1>2. OneHolder' /\ StarterHasNone' /\ RunnerIsActive' /\ SessionsApart'
  BY Numbers DEF LeaseInv, HolderInv, Unattended, Done, OneHolder, StarterHasNone,
      RunnerIsActive, SessionsApart, TypesOK, At, Goto, serviceVars, sessionVars, Holds,
      Busy, Starting, Aborting, Running, Live, SessionsTypeOK, ClientsTypeOK, Open
<1>3. PendingIsActive' /\ OpenIsLast' /\ DeletedIsIdle'
  BY Numbers DEF LeaseInv, HolderInv, Unattended, Done, PendingIsActive, OpenIsLast,
      DeletedIsIdle, TypesOK, At, Goto, serviceVars, sessionVars, Open, Live, Busy,
      SessionsTypeOK, ClientsTypeOK
<1> QED
  BY <1>1, <1>2, <1>3 DEF HolderInv

\* Settlement keeps the invariant of the holder.
LEMMA SettleKeepsHolder ==
  ASSUME LeaseInv, HolderInv, Unattended, NEW s \in Sessions, Settle(s)
  PROVE  HolderInv'
<1>1. LiveIsHeld' /\ PendingIsActive' /\ OpenIsLast'
  <2>1. Live(s) /\ active = s
    BY LiveIsCurrent DEF Settle, Live
  <2>2. /\ pipe'[s] \in {"complete", "failed"} /\ manifest'[s] \in {"complete", "failed"}
        /\ \A t \in Sessions \ {s} : pipe'[t] = pipe[t] /\ manifest'[t] = manifest[t] /\ callback'[t] = callback[t]
    BY DEF Settle, WriteManifest, LeaseInv, TypesOK, SessionsTypeOK
  <2>3. \A t \in Sessions : ~Live(t)'
    BY <2>1, <2>2, LiveIsCurrent DEF Live
  <2>4. LiveIsHeld'
    BY <2>3 DEF LiveIsHeld
  <2>5. PendingIsActive'
    BY <2>1, <2>2 DEF Settle, serviceVars, HolderInv, PendingIsActive
  <2>6. OpenIsLast'
    BY <2>1, <2>2, <2>3, LiveIsCurrent DEF HolderInv, OpenIsLast, Live, Open
  <2> QED
    BY <2>4, <2>5, <2>6
<1>2. OneHolder' /\ StarterHasNone' /\ RunnerIsActive' /\ SessionsApart'
  BY Numbers DEF LeaseInv, HolderInv, Unattended, Settle, WriteManifest, OneHolder,
      StarterHasNone, RunnerIsActive, SessionsApart, TypesOK, serviceVars, clientVars,
      Holds, Busy, Starting, At, Aborting, Running, Live, SessionsTypeOK, ClientsTypeOK,
      Open
<1>3. DeletedIsIdle'
  BY Numbers DEF LeaseInv, HolderInv, Unattended, Settle, WriteManifest, DeletedIsIdle,
      LiveIsHeld, ActiveIsCurrent, DeletedIsOver, Numbered, Starting, TypesOK,
      serviceVars, clientVars, Busy, Live, Holds, At, SessionsTypeOK, ClientsTypeOK,
      Running, Aborting, Open
<1> QED
  BY <1>1, <1>2, <1>3 DEF HolderInv

\* A callback keeps the invariant of the holder.
LEMMA CheckActiveKeepsHolder ==
  ASSUME LeaseInv, HolderInv, Unattended, NEW s \in Sessions, CheckActive(s)
  PROVE  HolderInv'
<1>1. OneHolder'
  BY Numbers DEF LeaseInv, HolderInv, Unattended, CheckActive, OneHolder, TypesOK,
      serviceVars, clientVars, Holds, Busy, SessionsTypeOK, ClientsTypeOK, Starting,
      Running, Aborting, At, Live, Open
<1>2. StarterHasNone'
  BY Numbers DEF LeaseInv, HolderInv, Unattended, CheckActive, StarterHasNone, TypesOK,
      serviceVars, clientVars, Starting, At, Aborting, SessionsTypeOK, ClientsTypeOK,
      Open
<1>3. RunnerIsActive'
  BY Numbers DEF LeaseInv, HolderInv, Unattended, CheckActive, RunnerIsActive, TypesOK,
      serviceVars, clientVars, At, Running, Aborting, Live, SessionsTypeOK,
      ClientsTypeOK, Open
<1>4. SessionsApart'
  BY Numbers DEF LeaseInv, HolderInv, Unattended, CheckActive, SessionsApart, TypesOK,
      serviceVars, clientVars, SessionsTypeOK, ClientsTypeOK, Open
<1>5. LiveIsHeld'
  BY Numbers DEF LeaseInv, HolderInv, Unattended, CheckActive, LiveIsHeld, TypesOK,
      serviceVars, clientVars, Live, Holds, At, SessionsTypeOK, ClientsTypeOK, Starting,
      Running, Aborting, Open
<1>6. PendingIsActive'
  BY Numbers DEF LeaseInv, HolderInv, Unattended, CheckActive, PendingIsActive, TypesOK,
      serviceVars, clientVars, SessionsTypeOK, ClientsTypeOK, Open
<1>7. OpenIsLast'
  BY Numbers DEF LeaseInv, HolderInv, Unattended, CheckActive, OpenIsLast, TypesOK,
      serviceVars, clientVars, Open, Live, SessionsTypeOK, ClientsTypeOK
<1>8. DeletedIsIdle'
  BY Numbers DEF LeaseInv, HolderInv, Unattended, CheckActive, DeletedIsIdle, TypesOK,
      serviceVars, clientVars, Busy, SessionsTypeOK, ClientsTypeOK, Open
<1> QED
  BY <1>1, <1>2, <1>3, <1>4, <1>5, <1>6, <1>7, <1>8 DEF HolderInv

\* Releasing the lease keeps the invariant of the holder.
LEMMA ReleaseLeaseKeepsHolder ==
  ASSUME LeaseInv, HolderInv, Unattended, NEW s \in Sessions, ReleaseLease(s)
  PROVE  HolderInv'
<1>1. OneHolder' /\ StarterHasNone' /\ RunnerIsActive' /\ LiveIsHeld' /\ PendingIsActive'
  <2>1. active = s /\ (\A c \in Clients : ~Holds(c)) /\ \A t \in Sessions : ~Live(t)
    BY NoneHoldsPending DEF ReleaseLease
  <2>2. UNCHANGED <<pc, session, target, sent, pipe, manifest, recency, audio>>
    BY DEF ReleaseLease, clientVars
  <2>3. (\A c \in Clients : ~Holds(c)') /\ \A t \in Sessions : ~Live(t)'
    BY <2>1, <2>2 DEF Holds, Starting, At, Live
  <2>4. OneHolder' /\ LiveIsHeld'
    BY <2>3 DEF OneHolder, LiveIsHeld
  <2>5. StarterHasNone'
    BY <2>3 DEF StarterHasNone, Holds, At
  <2>6. RunnerIsActive'
    BY <2>1, <2>2 DEF HolderInv, RunnerIsActive, Holds, At, Live
  <2>7. PendingIsActive'
    BY <2>1 DEF ReleaseLease, HolderInv, PendingIsActive, LeaseInv, TypesOK, SessionsTypeOK
  <2> QED
    BY <2>4, <2>5, <2>6, <2>7
<1>2. SessionsApart' /\ OpenIsLast' /\ DeletedIsIdle'
  BY Numbers DEF LeaseInv, HolderInv, Unattended, ReleaseLease, Release,
      ScheduleEviction, SessionsApart, OpenIsLast, DeletedIsIdle, TypesOK, clientVars,
      Open, Live, Busy, SessionsTypeOK, ClientsTypeOK
<1> QED
  BY <1>1, <1>2 DEF HolderInv

\* The timer keeps the invariant of the holder.
LEMMA TimerFiresKeepsHolder ==
  ASSUME LeaseInv, HolderInv, Unattended, TimerFires
  PROVE  HolderInv'
<1>1. OneHolder' /\ StarterHasNone' /\ RunnerIsActive' /\ SessionsApart'
  BY Numbers DEF LeaseInv, HolderInv, Unattended, TimerFires, OneHolder, StarterHasNone,
      RunnerIsActive, SessionsApart, TypesOK, sessionVars, clientVars, Holds, Busy,
      Starting, At, Aborting, Running, Live, SessionsTypeOK, ClientsTypeOK, Open
<1>2. LiveIsHeld' /\ PendingIsActive' /\ OpenIsLast' /\ DeletedIsIdle'
  BY Numbers DEF LeaseInv, HolderInv, Unattended, TimerFires, LiveIsHeld,
      PendingIsActive, OpenIsLast, DeletedIsIdle, TypesOK, sessionVars, clientVars,
      Live, Holds, At, Open, Busy, SessionsTypeOK, ClientsTypeOK, Starting, Running,
      Aborting
<1> QED
  BY <1>1, <1>2 DEF HolderInv

\* Unloading idle models keeps the invariant of the holder.
LEMMA UnloadIdleKeepsHolder ==
  ASSUME LeaseInv, HolderInv, Unattended, NEW g \in {"current", "stale"}, UnloadIdle(g)
  PROVE  HolderInv'
<1>1. OneHolder' /\ StarterHasNone' /\ RunnerIsActive' /\ SessionsApart'
  BY Numbers DEF LeaseInv, HolderInv, Unattended, UnloadIdle, OneHolder, StarterHasNone,
      RunnerIsActive, SessionsApart, TypesOK, Busy, sessionVars, clientVars, Holds,
      Starting, At, Aborting, Running, Live, SessionsTypeOK, ClientsTypeOK, Open
<1>2. LiveIsHeld' /\ PendingIsActive' /\ OpenIsLast' /\ DeletedIsIdle'
  BY Numbers DEF LeaseInv, HolderInv, Unattended, UnloadIdle, LiveIsHeld,
      PendingIsActive, OpenIsLast, DeletedIsIdle, TypesOK, Busy, sessionVars,
      clientVars, Live, Holds, At, Open, SessionsTypeOK, ClientsTypeOK, Starting,
      Running, Aborting
<1> QED
  BY <1>1, <1>2 DEF HolderInv

\* The check of a deletion keeps the invariant of the holder.
LEMMA DeleteCheckKeepsHolder ==
  ASSUME LeaseInv, HolderInv, Unattended, NEW s \in Sessions, DeleteCheck(s)
  PROVE  HolderInv'
<1>1. OneHolder' /\ StarterHasNone' /\ RunnerIsActive' /\ SessionsApart'
  BY Numbers DEF LeaseInv, HolderInv, Unattended, DeleteCheck, ActiveSessionId,
      OneHolder, StarterHasNone, RunnerIsActive, SessionsApart, TypesOK, Live,
      serviceVars, sessionVars, clientVars, Busy, Holds, Starting, At, Aborting,
      Running, SessionsTypeOK, ClientsTypeOK, Open
<1>2. LiveIsHeld' /\ PendingIsActive' /\ OpenIsLast'
  BY Numbers DEF LeaseInv, HolderInv, Unattended, DeleteCheck, ActiveSessionId,
      LiveIsHeld, PendingIsActive, OpenIsLast, TypesOK, Live, serviceVars, sessionVars,
      clientVars, Busy, Holds, At, Open, SessionsTypeOK, ClientsTypeOK, Starting,
      Running, Aborting
<1>3. DeletedIsIdle'
  BY Numbers DEF LeaseInv, HolderInv, Unattended, DeleteCheck, ActiveSessionId,
      DeletedIsIdle, LiveIsHeld, ActiveIsCurrent, DeletedIsOver, Numbered, Starting,
      TypesOK, Live, serviceVars, sessionVars, clientVars, Busy, Holds, At,
      SessionsTypeOK, ClientsTypeOK, Running, Aborting, Open
<1> QED
  BY <1>1, <1>2, <1>3 DEF HolderInv

\* The move to the trash keeps the invariant of the holder.
LEMMA DeleteTrashKeepsHolder ==
  ASSUME LeaseInv, HolderInv, Unattended, DeleteTrash
  PROVE  HolderInv'
<1>1. OpenIsLast'
  <2>1. /\ deleting.session # NoSession /\ ~Live(deleting.session)
        /\ recency' = Without(recency, deleting.session)
    BY DEF DeleteTrash, LeaseInv, DeletedIsOver
  <2>2. recency # <<>> /\ recency[Len(recency)] # deleting.session =>
          recency' # <<>> /\ recency'[Len(recency')] = recency[Len(recency)]
    BY <2>1, WithoutKeepsOrder DEF LeaseInv, Indexed, TypesOK, SessionsTypeOK
  <2>3. /\ manifest'[deleting.session] = "none"
        /\ \A s \in Sessions \ {deleting.session} : manifest'[s] = manifest[s]
    BY <2>1 DEF DeleteTrash, LeaseInv, TypesOK, SessionsTypeOK, OthersTypeOK
  <2> QED
    BY <2>1, <2>2, <2>3 DEF DeleteTrash, HolderInv, OpenIsLast, Open, Live
<1>2. OneHolder' /\ StarterHasNone' /\ RunnerIsActive' /\ SessionsApart'
  BY Numbers DEF LeaseInv, HolderInv, Unattended, DeleteTrash, OneHolder,
      StarterHasNone, RunnerIsActive, SessionsApart, TypesOK, serviceVars, clientVars,
      Holds, Busy, Starting, At, Aborting, Running, Live, SessionsTypeOK, ClientsTypeOK,
      Open
<1>3. LiveIsHeld' /\ PendingIsActive' /\ DeletedIsIdle'
  BY Numbers DEF LeaseInv, HolderInv, Unattended, DeleteTrash, LiveIsHeld,
      PendingIsActive, DeletedIsIdle, TypesOK, serviceVars, clientVars, Live, Holds, At,
      Busy, SessionsTypeOK, ClientsTypeOK, Starting, Running, Aborting, Open
<1> QED
  BY <1>1, <1>2, <1>3 DEF HolderInv

\* The end of a deletion keeps the invariant of the holder.
LEMMA SessionDeletedKeepsHolder ==
  ASSUME LeaseInv, HolderInv, Unattended, SessionDeleted
  PROVE  HolderInv'
<1>1. OneHolder' /\ StarterHasNone' /\ OpenIsLast'
  <2>1. CASE UNCHANGED <<current, status, manifest>>
    BY <2>1
       DEF SessionDeleted, clientVars, HolderInv, OneHolder, StarterHasNone, OpenIsLast,
           Holds, Starting, At, Live
  <2>2. CASE current = deleting.session /\ LoadLatest(manifest, recency)
    <3>1. deleting.session # NoSession /\ status \notin Busy
      BY <2>2 DEF SessionDeleted, LeaseInv, DeletedIsOver, HolderInv, DeletedIsIdle
    <3>2. (\A c \in Clients : ~Holds(c)) /\ \A s \in Sessions : ~Live(s)
      BY <3>1, NoneHoldsIdle
    <3>3. (\A c \in Clients : ~Holds(c)') /\ \A s \in Sessions : ~Live(s)'
      BY <3>2 DEF SessionDeleted, clientVars, Holds, Starting, At, Live
    <3>4. \A s \in Sessions : manifest'[s] = manifest[s]
      BY <2>2, <3>2, LatestIsClosed DEF LeaseInv, HolderInv, OpenIsLast
    <3>5. \A s \in Sessions : manifest'[s] \notin Open
      BY <3>2, <3>4 DEF HolderInv, OpenIsLast
    <3> QED
      BY <3>3, <3>5 DEF OneHolder, StarterHasNone, OpenIsLast, Holds, At
  <2> QED
    BY <2>1, <2>2 DEF SessionDeleted
<1>2. RunnerIsActive' /\ SessionsApart' /\ LiveIsHeld' /\ PendingIsActive' /\ DeletedIsIdle'
  BY Numbers DEF LeaseInv, HolderInv, Unattended, SessionDeleted, RunnerIsActive,
      SessionsApart, LiveIsHeld, PendingIsActive, DeletedIsIdle, TypesOK, clientVars,
      At, Running, Aborting, Live, Holds, Busy, SessionsTypeOK, ClientsTypeOK, Starting,
      Open
<1> QED
  BY <1>1, <1>2 DEF HolderInv

\* A restart keeps the invariant of the holder.
LEMMA RestartKeepsHolder ==
  ASSUME LeaseInv, HolderInv, Unattended, Restart
  PROVE  HolderInv'
<1>1. OpenIsLast'
  <2>1. \A s \in Sessions : manifest'[s] \notin Open
    BY LatestIsClosed DEF Restart, LeaseInv, HolderInv, OpenIsLast, Open
  <2>2. \A s \in Sessions : ~Live(s)'
    BY DEF Restart, Live
  <2> QED
    BY <2>1, <2>2 DEF OpenIsLast
<1>2. OneHolder' /\ StarterHasNone' /\ RunnerIsActive' /\ SessionsApart'
  BY Numbers DEF LeaseInv, HolderInv, Unattended, Restart, OneHolder, StarterHasNone,
      RunnerIsActive, SessionsApart, TypesOK, Holds, Busy, Starting, At, Aborting,
      Running, Live, SessionsTypeOK, ClientsTypeOK, Open
<1>3. LiveIsHeld' /\ PendingIsActive' /\ DeletedIsIdle'
  BY Numbers DEF LeaseInv, HolderInv, Unattended, Restart, LiveIsHeld, PendingIsActive,
      DeletedIsIdle, TypesOK, Live, Holds, At, Busy, SessionsTypeOK, ClientsTypeOK,
      Starting, Running, Aborting, Open
<1> QED
  BY <1>1, <1>2, <1>3 DEF HolderInv

-----------------------------------------------------------------------------
(* What holds of the lease with any sources and faults.                    *)

\* Every step keeps the invariant of the lease.
LEMMA NextKeepsLease ==
  ASSUME LeaseInv, [Next]_vars
  PROVE  LeaseInv'
<1>1. ASSUME NEW c \in Clients, Claim(c) \/ SourceFails(c) \/ ClientStep(c) \/ SourceStep(c)
      PROVE  LeaseInv'
  BY <1>1, ClaimKeeps, LoadModelsKeeps, CreateSessionKeeps, SetActiveKeeps,
      WriteProvenanceKeeps, StartFailedKeeps, ReadActiveKeeps, AcceptBlockKeeps,
      ReadStopKeeps, BeginStopKeeps, StopPipelineKeeps, SettledKeeps, SourceFailsKeeps,
      ReadAbortKeeps, AbortNothingKeeps, AbortPipelineKeeps, DeliveredKeeps,
      FinallyKeeps, DoneKeeps
     DEF ClientStep, SourceStep
<1>2. ASSUME NEW s \in Sessions, PipelineStep(s) \/ DeleteCheck(s)
      PROVE  LeaseInv'
  BY <1>2, SettleKeeps, CheckActiveKeeps, ReleaseLeaseKeeps, DeleteCheckKeeps DEF PipelineStep
<1>3. ASSUME NEW g \in {"current", "stale"}, UnloadIdle(g)
      PROVE  LeaseInv'
  BY <1>3, UnloadIdleKeeps
<1>4. CASE TimerFires \/ DeleteTrash \/ SessionDeleted \/ Restart
  BY <1>4, TimerFiresKeeps, DeleteTrashKeeps, SessionDeletedKeeps, RestartKeeps
<1>5. CASE UNCHANGED vars
  <2> USE DEF vars, serviceVars, sessionVars, clientVars
  <2>1. TypesOK'
    <3>1. ModelsTypeOK'
      BY <1>5, Zenon DEF LeaseInv, TypesOK, ModelsTypeOK
    <3>2. ServiceTypeOK' /\ SessionsTypeOK' /\ ClientsTypeOK' /\ OthersTypeOK'
      BY <1>5
         DEF LeaseInv, TypesOK, ServiceTypeOK, SessionsTypeOK, ClientsTypeOK, OthersTypeOK
    <3> QED
      BY <3>1, <3>2 DEF TypesOK
  <2>2. Numbered' /\ Indexed' /\ StartersAreFresh' /\ TargetsAreSessions'
    BY <1>5 DEF LeaseInv, Numbered, Indexed, StartersAreFresh, Starting, TargetsAreSessions, At
  <2>3. DeletedIsOver' /\ ActiveIsCurrent'
    BY <1>5 DEF LeaseInv, DeletedIsOver, Live, ActiveIsCurrent
  <2> QED
    BY <2>1, <2>2, <2>3 DEF LeaseInv
<1> QED
  BY <1>1, <1>2, <1>3, <1>4, <1>5 DEF Next

\* The first state of a process has it.
LEMMA InitHasLease == Init => LeaseInv
<1> SUFFICES ASSUME Init PROVE LeaseInv
  OBVIOUS
<1>1. /\ current = 0 /\ active = 0 /\ claims = 0 /\ deleting.session = 0 /\ ~deleting.trashed
      /\ \A c \in Clients : pc[c] = "idle" /\ target[c] = 0 /\ session[c] = 0
      /\ \A s \in Sessions : pipe[s] = "none" /\ manifest[s] = "none" /\ audio[s] = <<>>
  BY Numbers DEF Init
<1>2. ModelsTypeOK
  BY DEF Init, ModelsTypeOK
<1>3. ServiceTypeOK /\ OthersTypeOK
  BY Numbers DEF Init, ServiceTypeOK, OthersTypeOK
<1>4. SessionsTypeOK
  BY DEF Init, SessionsTypeOK
<1>5. ClientsTypeOK
  BY Numbers DEF Init, ClientsTypeOK, Points
<1>6. Numbered /\ Indexed
  BY <1>1 DEF Init, Numbered, Indexed
<1>7. StartersAreFresh /\ TargetsAreSessions /\ DeletedIsOver /\ ActiveIsCurrent
  BY <1>1, Numbers
     DEF StartersAreFresh, Starting, TargetsAreSessions, At, DeletedIsOver, ActiveIsCurrent
<1> QED
  BY <1>2, <1>3, <1>4, <1>5, <1>6, <1>7 DEF LeaseInv, TypesOK

\* Whatever the handlers, threads, callbacks, deletions and restarts of a
\* process do to each other, its active session is the current one.
THEOREM ActiveStaysCurrent == CapturesSpec => []ActiveIsCurrent
<1>1. CapturesInit => LeaseInv
  BY InitHasLease DEF CapturesInit
<1>2. LeaseInv /\ [CapturesNext]_<<view, vars, importVars>> => LeaseInv'
  <2> SUFFICES ASSUME LeaseInv, [CapturesNext]_<<view, vars, importVars>> PROVE LeaseInv'
    OBVIOUS
  <2>1. [Next]_vars
    BY DEF CapturesNext
  <2> QED
    BY <2>1, NextKeepsLease
<1>3. LeaseInv => ActiveIsCurrent
  BY DEF LeaseInv
<1> QED
  BY <1>1, <1>2, <1>3, PTL DEF CapturesSpec

-----------------------------------------------------------------------------
(* What holds of the lease between replays and uploads.                    *)

\* Every step keeps the invariant of the holder.
LEMMA NextKeepsHolder ==
  ASSUME LeaseInv, HolderInv, Unattended, [Next]_vars
  PROVE  HolderInv'
<1>1. ASSUME NEW c \in Clients, Claim(c) \/ SourceFails(c) \/ ClientStep(c) \/ SourceStep(c)
      PROVE  HolderInv'
  BY <1>1, ClaimKeepsHolder, LoadModelsKeepsHolder, CreateSessionKeepsHolder,
      SetActiveKeepsHolder, WriteProvenanceKeepsHolder, StartFailedKeepsHolder,
      ReadActiveKeepsHolder, AcceptBlockKeepsHolder, ReadStopKeepsHolder,
      BeginStopKeepsHolder, StopPipelineKeepsHolder, SettledKeepsHolder,
      SourceFailsKeepsHolder, ReadAbortKeepsHolder, AbortNothingKeepsHolder,
      AbortPipelineKeepsHolder, DeliveredKeepsHolder, FinallyKeepsHolder,
      DoneKeepsHolder
     DEF ClientStep, SourceStep
<1>2. ASSUME NEW s \in Sessions, PipelineStep(s) \/ DeleteCheck(s)
      PROVE  HolderInv'
  BY <1>2, SettleKeepsHolder, CheckActiveKeepsHolder, ReleaseLeaseKeepsHolder,
      DeleteCheckKeepsHolder DEF PipelineStep
<1>3. ASSUME NEW g \in {"current", "stale"}, UnloadIdle(g)
      PROVE  HolderInv'
  BY <1>3, UnloadIdleKeepsHolder
<1>4. CASE TimerFires \/ DeleteTrash \/ SessionDeleted \/ Restart
  BY <1>4, TimerFiresKeepsHolder, DeleteTrashKeepsHolder, SessionDeletedKeepsHolder,
      RestartKeepsHolder
<1>5. CASE UNCHANGED vars
  <2> USE DEF vars, serviceVars, sessionVars, clientVars
  <2>1. \A c \in Clients : Holds(c)' <=> Holds(c)
    BY <1>5 DEF Holds, Starting, At, Live
  <2>2. OneHolder' /\ LiveIsHeld'
    BY <1>5, <2>1 DEF HolderInv, OneHolder, LiveIsHeld, At, Live
  <2>3. StarterHasNone' /\ RunnerIsActive' /\ SessionsApart'
    BY <1>5 DEF HolderInv, StarterHasNone, RunnerIsActive, SessionsApart, Starting, At, Live
  <2>4. PendingIsActive' /\ OpenIsLast' /\ DeletedIsIdle'
    BY <1>5 DEF HolderInv, PendingIsActive, OpenIsLast, DeletedIsIdle, Live
  <2> QED
    BY <2>2, <2>3, <2>4 DEF HolderInv
<1> QED
  BY <1>1, <1>2, <1>3, <1>4, <1>5 DEF Next

\* In the first state nobody holds the lease.
LEMMA InitHasNoHolder == Init => HolderInv
<1> SUFFICES ASSUME Init PROVE HolderInv
  OBVIOUS
<1>1. /\ status = "idle" /\ deleting.session = NoSession
      /\ \A c \in Clients : pc[c] = "idle" /\ session[c] = NoSession
      /\ \A s \in Sessions : pipe[s] = "none" /\ callback[s] = "none" /\ manifest[s] = "none"
  BY DEF Init
<1> QED
  BY <1>1
     DEF HolderInv, OneHolder, StarterHasNone, RunnerIsActive, SessionsApart, LiveIsHeld,
         PendingIsActive, OpenIsLast, DeletedIsIdle, Holds, Starting, Running, Aborting,
         At, Live, Open

\* The two invariants hold together.
LEMMA HolderInvariant == ASSUME Unattended PROVE Spec => [](LeaseInv /\ HolderInv)
<1>1. Init => LeaseInv /\ HolderInv
  BY InitHasLease, InitHasNoHolder
<1>2. LeaseInv /\ HolderInv /\ [Next]_vars => (LeaseInv /\ HolderInv)'
  BY NextKeepsLease, NextKeepsHolder
<1> QED
  BY <1>1, <1>2, PTL DEF Spec

\* Between replays and uploads, whatever fails but the writing of a document,
\* a capture that records or settles holds the one lease, there are never two,
\* and what a client sends goes into its own recording.
THEOREM LiveCapturesHoldTheLease ==
  ASSUME Unattended PROVE Spec => []LiveCaptureHoldsLease
<1>1. ASSUME LeaseInv, HolderInv PROVE LiveCaptureHoldsLease
  <2>1. TypeOK
    BY <1>1
       DEF LeaseInv, TypesOK, ServiceTypeOK, ModelsTypeOK, SessionsTypeOK, ClientsTypeOK,
           OthersTypeOK, TypeOK
  <2>2. \A s \in Sessions : Live(s) => current = s /\ status \in Busy
    BY <1>1, LiveIsCurrent
  <2> QED
    BY <1>1, <2>1, <2>2 DEF HolderInv, SessionsApart, LiveCaptureHoldsLease
<1> QED
  BY <1>1, HolderInvariant, PTL

\* Models go only when no capture starts, records or settles.
LEMMA OnlyIdleIsUnloaded ==
  ASSUME LeaseInv, HolderInv, [Next]_vars, loaded, ~loaded', restarts' = restarts
  PROVE  status \notin Busy
<1>1. ASSUME NEW g \in {"current", "stale"}, UnloadIdle(g)
      PROVE  status \notin Busy
  BY <1>1 DEF UnloadIdle
<1>2. ASSUME NEW c \in Clients, Claim(c) \/ SourceFails(c) \/ ClientStep(c) \/ SourceStep(c)
      PROVE  loaded' = loaded \/ loaded' = TRUE
  BY <1>2, Zenon
     DEF Claim, SourceFails, ClientStep, SourceStep, LoadModels, CreateSession, SetActive,
         WriteProvenance, StartFailed, AcceptBlock, BeginStop, StopPipeline, Settled,
         ReadAbort, AbortNothing, AbortPipeline, Delivered, Finally, Done, ReadActive,
         ReadStop, Release, serviceVars
<1>3. ASSUME NEW s \in Sessions, PipelineStep(s) \/ DeleteCheck(s)
      PROVE  loaded' = loaded
  BY <1>3, Zenon
     DEF PipelineStep, Settle, CheckActive, ReleaseLease, DeleteCheck, Release, serviceVars
<1>4. ASSUME TimerFires \/ DeleteTrash \/ SessionDeleted \/ UNCHANGED vars
      PROVE  loaded' = loaded
  BY <1>4, Zenon DEF TimerFires, DeleteTrash, SessionDeleted, vars, serviceVars
<1>5. ~Restart
  BY DEF Restart, LeaseInv, TypesOK, OthersTypeOK
<1> QED
  BY <1>1, <1>2, <1>3, <1>4, <1>5 DEF Next

\* The timer never unloads the models under a replay or an upload.
THEOREM UnloadingSparesCaptures ==
  ASSUME Unattended PROVE Spec => UnloadSparesCaptures
<1>1. LeaseInv /\ HolderInv /\ [Next]_vars =>
        [loaded /\ ~loaded' /\ restarts' = restarts =>
           /\ \A s \in Sessions : ~Live(s)
           /\ \A c \in Clients : pc[c] \notin {"loaded", "created"}]_vars
  <2> SUFFICES ASSUME LeaseInv, HolderInv, [Next]_vars, loaded, ~loaded', restarts' = restarts
               PROVE  /\ \A s \in Sessions : ~Live(s)
                      /\ \A c \in Clients : pc[c] \notin {"loaded", "created"}
    OBVIOUS
  <2>1. (\A c \in Clients : ~Holds(c)) /\ \A s \in Sessions : ~Live(s)
    BY OnlyIdleIsUnloaded, NoneHoldsIdle
  <2> QED
    BY <2>1 DEF Holds, Starting
<1> QED
  BY <1>1, HolderInvariant, PTL DEF Spec, UnloadSparesCaptures

\* A session.json is reopened or given another outcome by no step.
LEMMA OutcomesStay ==
  ASSUME LeaseInv, HolderInv, Unattended, [Next]_vars
  PROVE  \A s \in Sessions : Final(s) /\ (restarts' # restarts => manifest'[s] \notin Open)
<1>1. ASSUME NEW c \in Clients, Claim(c) \/ SourceFails(c) \/ ClientStep(c) \/ SourceStep(c)
      PROVE  restarts' = restarts /\ \A s \in Sessions : Final(s)
  <2>1. restarts' = restarts
    BY <1>1
       DEF Claim, SourceFails, ClientStep, SourceStep, LoadModels, CreateSession, SetActive,
           WriteProvenance, StartFailed, AcceptBlock, BeginStop, StopPipeline, Settled,
           ReadAbort, AbortNothing, AbortPipeline, Delivered, Finally, Done, ReadActive,
           ReadStop
  <2>2. CASE CreateSession(c)
    <3>1. manifest[target[c]] = "none"
      BY <2>2 DEF CreateSession, LeaseInv, StartersAreFresh, Starting, At
    <3> QED
      BY <2>2, <3>1 DEF CreateSession, WriteManifest, Final, LeaseInv, TypesOK, SessionsTypeOK
  <2>3. CASE StopPipeline(c) \/ AbortPipeline(c)
    <3>1. manifest[target[c]] \in Open \/ UNCHANGED manifest
      <4>1. (target[c] \in Sessions /\ Live(target[c])) \/ UNCHANGED manifest
        BY <2>3
           DEF StopPipeline, AbortPipeline, LeaseInv, TargetsAreSessions, At, Live, TypesOK,
               ClientsTypeOK
      <4> QED
        BY <4>1 DEF HolderInv, OpenIsLast
    <3> QED
      BY <2>3, <3>1
         DEF StopPipeline, AbortPipeline, WriteManifest, Final, Open, LeaseInv, TypesOK,
             SessionsTypeOK
  <2>4. CASE UNCHANGED manifest
    BY <2>1, <2>4 DEF Final
  <2> QED
    BY <1>1, <2>1, <2>2, <2>3, <2>4
       DEF Claim, SourceFails, ClientStep, SourceStep, LoadModels, SetActive,
           WriteProvenance, StartFailed, AcceptBlock, BeginStop, Settled, ReadAbort,
           AbortNothing, Delivered, Finally, Done, ReadActive, ReadStop, sessionVars
<1>2. ASSUME NEW t \in Sessions, PipelineStep(t) \/ DeleteCheck(t)
      PROVE  restarts' = restarts /\ \A s \in Sessions : Final(s)
  <2>1. CASE Settle(t)
    <3>1. manifest[t] \in Open
      BY <2>1 DEF Settle, Live, HolderInv, OpenIsLast
    <3> QED
      BY <2>1, <3>1 DEF Settle, WriteManifest, Final, Open, LeaseInv, TypesOK, SessionsTypeOK
  <2>2. CASE CheckActive(t) \/ ReleaseLease(t) \/ DeleteCheck(t)
    BY <2>2 DEF CheckActive, ReleaseLease, DeleteCheck, sessionVars, Final
  <2> QED
    BY <1>2, <2>1, <2>2 DEF PipelineStep
<1>3. CASE DeleteTrash
  BY <1>3 DEF DeleteTrash, Final, LeaseInv, TypesOK, SessionsTypeOK
<1>4. CASE SessionDeleted
  <2>1. restarts' = restarts
    BY <1>4 DEF SessionDeleted
  <2>2. CASE LoadLatest(manifest, recency)
    BY <2>1, <2>2, LatestIsClosed DEF Final, LeaseInv, Open
  <2>3. CASE UNCHANGED manifest
    BY <2>1, <2>3 DEF Final
  <2> QED
    BY <1>4, <2>2, <2>3 DEF SessionDeleted
<1>5. CASE Restart
  BY <1>5, LatestIsClosed DEF Restart, Final, LeaseInv, HolderInv, OpenIsLast, Open
<1>6. ASSUME TimerFires \/ UNCHANGED vars \/ \E g \in {"current", "stale"} : UnloadIdle(g)
      PROVE  UNCHANGED <<manifest, restarts>>
  BY <1>6 DEF TimerFires, UnloadIdle, vars, sessionVars
<1> QED
  BY <1>1, <1>2, <1>3, <1>4, <1>5, <1>6 DEF Next, Final

\* Every recording of a replay or an upload gets one outcome, and a restart
\* leaves no session.json open, although it repairs only the one written last.
THEOREM OutcomesStayFinal ==
  ASSUME Unattended PROVE Spec => OutcomesAreFinal
<1>1. LeaseInv /\ HolderInv /\ [Next]_vars =>
        [\A s \in Sessions :
           Final(s) /\ (restarts' # restarts => manifest'[s] \notin Open)]_vars
  BY OutcomesStay
<1> QED
  BY <1>1, HolderInvariant, PTL DEF Spec, OutcomesAreFinal

-----------------------------------------------------------------------------
(* Imports: what is recorded, and what remains of the files.               *)

ImportPoints == {"none", "validated", "body", "received", "prepared", "claimed",
                 "decoding", "ended", "stop", "waiting", "failing", "done", "killed"}

Block == [from : Imports, first : Nat, frames : Nat]

Request ==
  [pc : ImportPoints, declared : Nat, received : Nat, pending : Nat, pcm : Nat,
   head : Nat, blocks : Nat, sound : BOOLEAN]

Lease == [current : Imports \cup {0}, active : Imports \cup {0}, busy : BOOLEAN]

ImportTypeOK ==
  /\ import \in [Imports -> Request]
  /\ spool \in [Imports -> {"none", "new", "old"}]
  /\ upload \in [Imports -> {"none", "decoding", "accepted", "failed"}]
  /\ recording \in [Imports -> {"none", "recording", "stopping", "complete", "failed"}]
  /\ taken \in [Imports -> Seq(Block)]
  /\ lease \in Lease
  /\ kills \in Nat /\ strayed \in BOOLEAN

\* Nothing is recorded before the whole body was received.
RecordedIsReceived ==
  \A i \in Imports :
    /\ import[i].pc \in {"received", "prepared", "claimed"} =>
         import[i].received = import[i].declared
    /\ recording[i] # "none" =>
         /\ import[i].received = import[i].declared
         /\ import[i].pc \notin {"none", "validated", "body", "received", "prepared", "claimed"}

\* The blocks of a session follow each other, and are its own import's.
Chained(i) ==
  \A n \in DOMAIN taken[i] :
    /\ taken[i][n].from = i
    /\ taken[i][n].first = IF n = 1 THEN 0 ELSE taken[i][n - 1].first + taken[i][n - 1].frames

\* The thread's counters are those of its session, and no byte is lost.
Counted(i) ==
  /\ import[i].blocks = Len(taken[i]) /\ import[i].head = Frames(i)
  /\ 2 * import[i].head + import[i].pending = import[i].pcm

DecodedToTheEnd(i) == upload[i] = "accepted" /\ import[i].sound /\ import[i].pending = 0

StoppedIsDecoded(i) ==
  /\ Where(i, "stop") => DecodedToTheEnd(i)
  /\ recording[i] \in {"stopping", "complete"} =>
       DecodedToTheEnd(i) /\ import[i].pc \in {"waiting", "done", "killed"}

BodiesHaveFiles == \A i \in Imports : Where(i, "body") => spool[i] # "none"

ImportInv ==
  /\ ImportTypeOK /\ SpoolsHaveOwners /\ BodiesHaveFiles /\ RecordedIsReceived
  /\ ~strayed => \A i \in Imports : Chained(i) /\ Counted(i) /\ StoppedIsDecoded(i)

\* A request's number is not the 0 of a lease that nobody holds.
LEMMA RequestsAreNumbers == Imports \subseteq Nat /\ 0 \notin Imports
  BY ImportAssumption, FS_CardinalityType

\* Whole frames are two halves.
LEMMA EvenHalves ==
  ASSUME NEW n \in Nat, n % 2 = 0 PROVE n \div 2 \in Nat /\ 2 * (n \div 2) = n
  OBVIOUS

\* What of the other fields of an import a step keeps.
SameCounts(j) ==
  /\ import'[j].blocks = import[j].blocks /\ import'[j].head = import[j].head
  /\ import'[j].pending = import[j].pending /\ import'[j].pcm = import[j].pcm

SameBody(j) ==
  /\ import'[j].declared = import[j].declared /\ import'[j].received = import[j].received

\* To changes where one import is, and nothing else.
LEMMA Moves ==
  ASSUME ImportTypeOK, NEW i \in Imports, NEW p \in ImportPoints, To(i, p)
  PROVE  /\ import' \in [Imports -> Request]
         /\ \A j \in Imports :
              /\ import'[j].pc = IF j = i THEN p ELSE import[j].pc
              /\ SameCounts(j) /\ SameBody(j) /\ import'[j].sound = import[j].sound
<1>1. import \in [Imports -> Request] /\ import' = [import EXCEPT ![i].pc = p]
  BY DEF ImportTypeOK, To
<1>2. [import[i] EXCEPT !.pc = p] \in Request
  BY <1>1 DEF Request
<1>3. import' \in [Imports -> Request]
  BY <1>1, <1>2
<1>4. ASSUME NEW j \in Imports
      PROVE  /\ import'[j].pc = IF j = i THEN p ELSE import[j].pc
             /\ SameCounts(j) /\ SameBody(j) /\ import'[j].sound = import[j].sound
  <2>1. CASE j = i
    BY <1>1, <2>1 DEF Request, SameCounts, SameBody
  <2>2. CASE j # i
    BY <1>1, <2>2 DEF SameCounts, SameBody
  <2> QED
    BY <2>1, <2>2
<1> QED
  BY <1>3, <1>4

\* While no block is accepted, the chains and the counters stay.
LEMMA CountsStay ==
  ASSUME UNCHANGED taken, NEW j \in Imports, Chained(j), Counted(j), SameCounts(j)
  PROVE  Chained(j)' /\ Counted(j)'
  BY DEF Chained, Counted, Frames, SameCounts

\* Where an import may be, with its file as it is then.
OwnsItsFile(p, v) ==
  /\ v # "none" => p \notin {"none", "validated", "done"}
  /\ p \in {"body", "received", "prepared", "claimed", "decoding", "ended", "stop"} =>
       v # "none"

AfterTheBody(i, p) ==
  /\ p \in {"received", "prepared", "claimed"} => import[i].received = import[i].declared
  /\ recording[i] # "none" =>
       p \notin {"none", "validated", "body", "received", "prepared", "claimed"}

AfterTheEnd(i, p) ==
  /\ p = "stop" => DecodedToTheEnd(i)
  /\ recording[i] \in {"stopping", "complete"} => p \in {"waiting", "done", "killed"}

\* A step that moves an import, and records nothing.
LEMMA StepsTo ==
  ASSUME ImportInv, NEW i \in Imports, NEW p \in ImportPoints,
         NEW v \in {"none", "new", "old"}, To(i, p), spool' = [spool EXCEPT ![i] = v],
         UNCHANGED <<upload, recording, taken, kills, strayed>>, lease' \in Lease,
         OwnsItsFile(p, v), AfterTheBody(i, p), ~strayed => AfterTheEnd(i, p)
  PROVE  ImportInv'
<1>0. ImportTypeOK
  BY DEF ImportInv
<1>1. /\ import' \in [Imports -> Request]
      /\ \A j \in Imports :
              /\ import'[j].pc = IF j = i THEN p ELSE import[j].pc
              /\ SameCounts(j) /\ SameBody(j) /\ import'[j].sound = import[j].sound
  BY <1>0, Moves
<1>2. ImportTypeOK'
  BY <1>0, <1>1 DEF ImportTypeOK, Request, Lease, Block, ImportPoints
<1>3. SpoolsHaveOwners' /\ BodiesHaveFiles'
  BY <1>0, <1>1
     DEF ImportInv, ImportTypeOK, SpoolsHaveOwners, BodiesHaveFiles, OwnsItsFile, Where
<1>4. RecordedIsReceived'
  BY <1>1 DEF ImportInv, RecordedIsReceived, AfterTheBody, SameBody
<1>5. ASSUME ~strayed', NEW j \in Imports PROVE Chained(j)' /\ Counted(j)' /\ StoppedIsDecoded(j)'
  <2>1. Chained(j) /\ Counted(j) /\ StoppedIsDecoded(j)
    BY <1>5 DEF ImportInv
  <2>2. StoppedIsDecoded(j)'
    BY <1>1, <1>5, <2>1 DEF StoppedIsDecoded, DecodedToTheEnd, AfterTheEnd, SameCounts, Where
  <2> QED
    BY <1>1, <2>1, <2>2, CountsStay
<1> QED
  BY <1>2, <1>3, <1>4, <1>5 DEF ImportInv

\* A request is refused, or its length is noted.
LEMMA AskKeeps ==
  ASSUME ImportInv, NEW i \in Imports, AskImport(i) PROVE ImportInv'
<1>0. ImportTypeOK /\ import[i] \in Request /\ spool[i] = "none" /\ recording[i] = "none"
  BY DEF ImportInv, ImportTypeOK, SpoolsHaveOwners, RecordedIsReceived, AskImport, Where
<1>1. CASE To(i, "done")
  <2>1. /\ spool' = [spool EXCEPT ![i] = "none"] /\ lease' \in Lease
        /\ UNCHANGED <<upload, recording, taken, kills, strayed>>
    BY <1>0 DEF AskImport, ImportTypeOK
  <2> QED
    BY <1>0, <1>1, <2>1, StepsTo
       DEF OwnsItsFile, AfterTheBody, AfterTheEnd, ImportPoints
<1>2. CASE \E n \in 1..MaxBody :
             import' = [import EXCEPT ![i].pc = "validated", ![i].declared = n]
  <2>1. PICK n \in 1..MaxBody :
          import' = [import EXCEPT ![i] = [import[i] EXCEPT !.pc = "validated", !.declared = n]]
    BY <1>0, <1>2 DEF ImportTypeOK
  <2>2. [import[i] EXCEPT !.pc = "validated", !.declared = n] \in Request
    <3>1. n \in Nat
      BY ImportAssumption
    <3> QED
      BY <1>0, <3>1 DEF Request, ImportPoints
  <2>3. /\ import' \in [Imports -> Request] /\ import'[i].pc = "validated"
        /\ SameCounts(i) /\ \A j \in Imports \ {i} : import'[j] = import[j]
    BY <1>0, <2>1, <2>2 DEF ImportTypeOK, Request, SameCounts
  <2>4. UNCHANGED <<spool, upload, recording, taken, lease, kills, strayed>>
    BY DEF AskImport
  <2>5. ImportTypeOK'
    BY <1>0, <2>3, <2>4 DEF ImportTypeOK, Lease, Block, Request
  <2>6. SpoolsHaveOwners' /\ BodiesHaveFiles' /\ RecordedIsReceived'
    BY <1>0, <2>3, <2>4
       DEF ImportInv, SpoolsHaveOwners, BodiesHaveFiles, RecordedIsReceived, Where
  <2>7. ASSUME ~strayed', NEW j \in Imports
        PROVE  Chained(j)' /\ Counted(j)' /\ StoppedIsDecoded(j)'
    BY <1>0, <2>3, <2>4, <2>7, CountsStay
       DEF ImportInv, StoppedIsDecoded, DecodedToTheEnd, Where, SameCounts
  <2> QED
    BY <2>5, <2>6, <2>7 DEF ImportInv
<1> QED
  BY <1>1, <1>2 DEF AskImport

LEMMA OpenKeeps ==
  ASSUME ImportInv, NEW i \in Imports, OpenSpool(i) PROVE ImportInv'
<1>1. /\ recording[i] = "none" /\ lease' \in Lease /\ To(i, "body")
      /\ spool' = [spool EXCEPT ![i] = "new"]
      /\ UNCHANGED <<upload, recording, taken, kills, strayed>>
  BY DEF ImportInv, ImportTypeOK, RecordedIsReceived, OpenSpool, Where
<1> QED
  BY <1>1, StepsTo DEF OwnsItsFile, AfterTheBody, AfterTheEnd, ImportPoints

\* A chunk is written, or cannot be.
LEMMA WriteKeeps ==
  ASSUME ImportInv, NEW i \in Imports, WriteSpool(i) PROVE ImportInv'
<1>0. /\ ImportTypeOK /\ import[i] \in Request /\ recording[i] = "none" /\ lease' \in Lease
      /\ UNCHANGED <<upload, recording, taken, lease, kills, strayed>> /\ import[i].pc = "body"
  BY DEF ImportInv, ImportTypeOK, RecordedIsReceived, WriteSpool, Where
<1>1. CASE To(i, "done") /\ Unlink(i)
  BY <1>0, <1>1, StepsTo DEF OwnsItsFile, AfterTheBody, AfterTheEnd, ImportPoints, Unlink
<1>2. CASE /\ import' = [import EXCEPT ![i].received = @ + 1]
           /\ spool' = [spool EXCEPT ![i] = "new"]
  <2>1. import' = [import EXCEPT ![i] = [import[i] EXCEPT !.received = @ + 1]]
    BY <1>0, <1>2 DEF ImportTypeOK
  <2>2. [import[i] EXCEPT !.received = @ + 1] \in Request
    BY <1>0 DEF Request
  <2>3. /\ import' \in [Imports -> Request] /\ import'[i].pc = "body"
        /\ SameCounts(i) /\ \A j \in Imports \ {i} : import'[j] = import[j]
    BY <1>0, <2>1, <2>2 DEF ImportTypeOK, Request, SameCounts
  <2>5. ImportTypeOK'
    BY <1>0, <1>2, <2>3 DEF ImportTypeOK, Lease, Block, Request
  <2>6. SpoolsHaveOwners' /\ BodiesHaveFiles' /\ RecordedIsReceived'
    BY <1>0, <1>2, <2>3
       DEF ImportInv, ImportTypeOK, SpoolsHaveOwners, BodiesHaveFiles, RecordedIsReceived, Where
  <2>7. ASSUME ~strayed', NEW j \in Imports
        PROVE  Chained(j)' /\ Counted(j)' /\ StoppedIsDecoded(j)'
    BY <1>0, <2>3, <2>7, CountsStay
       DEF ImportInv, StoppedIsDecoded, DecodedToTheEnd, Where, SameCounts
  <2> QED
    BY <2>5, <2>6, <2>7 DEF ImportInv
<1> QED
  BY <1>1, <1>2 DEF WriteSpool

\* The body ends.
LEMMA EndKeeps ==
  ASSUME ImportInv, NEW i \in Imports, EndSpool(i) PROVE ImportInv'
<1>1. /\ recording[i] = "none" /\ lease' \in Lease /\ spool[i] \in {"none", "new", "old"}
      /\ UNCHANGED <<upload, recording, taken, kills, strayed>>
  BY DEF ImportInv, ImportTypeOK, RecordedIsReceived, EndSpool, Where
<1>2. CASE To(i, "done") /\ Unlink(i)
  BY <1>1, <1>2, StepsTo DEF OwnsItsFile, AfterTheBody, AfterTheEnd, ImportPoints, Unlink
<1>3. CASE import[i].received = import[i].declared /\ To(i, "received") /\ UNCHANGED spool
  <2>1. spool[i] # "none" /\ spool' = [spool EXCEPT ![i] = spool[i]]
    BY <1>3 DEF ImportInv, ImportTypeOK, BodiesHaveFiles, EndSpool, Where
  <2> QED
    BY <1>1, <1>3, <2>1, StepsTo DEF OwnsItsFile, AfterTheBody, AfterTheEnd, ImportPoints
<1> QED
  BY <1>2, <1>3 DEF EndSpool

\* The file is probed.
LEMMA PrepareKeeps ==
  ASSUME ImportInv, NEW i \in Imports, Prepare(i) PROVE ImportInv'
<1>1. /\ recording[i] = "none" /\ lease' \in Lease /\ spool[i] \in {"new", "old"}
      /\ import[i].received = import[i].declared
      /\ UNCHANGED <<upload, recording, taken, kills, strayed>>
  BY DEF ImportInv, ImportTypeOK, SpoolsHaveOwners, RecordedIsReceived, Prepare, Where
<1>2. CASE To(i, "done") /\ Unlink(i)
  BY <1>1, <1>2, StepsTo DEF OwnsItsFile, AfterTheBody, AfterTheEnd, ImportPoints, Unlink
<1>3. CASE To(i, "prepared") /\ UNCHANGED spool
  <2>1. spool' = [spool EXCEPT ![i] = spool[i]]
    BY <1>3 DEF ImportInv, ImportTypeOK
  <2> QED
    BY <1>1, <1>3, <2>1, StepsTo DEF OwnsItsFile, AfterTheBody, AfterTheEnd, ImportPoints
<1> QED
  BY <1>2, <1>3 DEF Prepare

\* The lease is claimed or refused.
LEMMA ClaimKeepsImports ==
  ASSUME ImportInv, NEW i \in Imports, ClaimImport(i) PROVE ImportInv'
<1>1. /\ recording[i] = "none" /\ lease' \in Lease /\ spool[i] \in {"new", "old"}
      /\ import[i].received = import[i].declared
      /\ UNCHANGED <<upload, recording, taken, kills, strayed>>
  BY DEF ImportInv, ImportTypeOK, SpoolsHaveOwners, RecordedIsReceived, ClaimImport, Where, Lease
<1>2. CASE To(i, "done") /\ Unlink(i)
  BY <1>1, <1>2, StepsTo DEF OwnsItsFile, AfterTheBody, AfterTheEnd, ImportPoints, Unlink
<1>3. CASE To(i, "claimed") /\ UNCHANGED spool
  <2>1. spool' = [spool EXCEPT ![i] = spool[i]]
    BY <1>3 DEF ImportInv, ImportTypeOK
  <2> QED
    BY <1>1, <1>3, <2>1, StepsTo DEF OwnsItsFile, AfterTheBody, AfterTheEnd, ImportPoints
<1> QED
  BY <1>2, <1>3 DEF ClaimImport

\* The wait ends.
LEMMA WaitedKeeps ==
  ASSUME ImportInv, NEW i \in Imports, Waited(i) PROVE ImportInv'
<1>1. /\ lease' \in Lease /\ To(i, "done") /\ spool' = [spool EXCEPT ![i] = "none"]
      /\ UNCHANGED <<upload, recording, taken, kills, strayed>>
  BY DEF ImportInv, ImportTypeOK, Waited, Unlink
<1> QED
  BY <1>1, StepsTo DEF OwnsItsFile, AfterTheBody, AfterTheEnd, ImportPoints

\* The session starts, or fails to.
LEMMA StartKeeps ==
  ASSUME ImportInv, NEW i \in Imports, StartImport(i) PROVE ImportInv'
<1>0. /\ ImportTypeOK /\ recording[i] = "none" /\ UNCHANGED <<taken, kills, strayed>>
      /\ import[i].pc = "claimed" /\ import[i].received = import[i].declared /\ spool[i] # "none"
      /\ lease' \in Lease
  BY DEF ImportInv, ImportTypeOK, SpoolsHaveOwners, RecordedIsReceived, StartImport, Where,
         Released, Lease
<1> DEFINE Starts(p) ==
        /\ To(i, p)
        /\ recording' = recording \/ recording' = [recording EXCEPT ![i] = "recording"]
        /\ upload' = upload \/ upload' = [upload EXCEPT ![i] = "decoding"]
        /\ spool' = [spool EXCEPT ![i] = IF p = "done" THEN "none" ELSE @]
<1>1. PICK p \in {"decoding", "done"} : Starts(p)
  <2>1. UNCHANGED spool => spool' = [spool EXCEPT ![i] = spool[i]]
    BY <1>0 DEF ImportTypeOK
  <2>2. Starts("decoding") \/ Starts("done")
    BY <2>1 DEF StartImport, Unlink
  <2> QED
    BY <2>2
<1>2. /\ import' \in [Imports -> Request]
      /\ \A j \in Imports :
              /\ import'[j].pc = IF j = i THEN p ELSE import[j].pc
              /\ SameCounts(j) /\ SameBody(j) /\ import'[j].sound = import[j].sound
  BY <1>0, <1>1, Moves DEF ImportPoints
<1>3. ImportTypeOK'
  BY <1>0, <1>1, <1>2 DEF ImportTypeOK, Block, Request, ImportPoints
<1>4. SpoolsHaveOwners' /\ BodiesHaveFiles'
  <2>1. /\ spool \in [Imports -> {"none", "new", "old"}]
        /\ spool' = [spool EXCEPT ![i] = IF p = "done" THEN "none" ELSE @]
    BY <1>0, <1>1 DEF ImportTypeOK
  <2>2. ASSUME NEW j \in Imports
        PROVE  /\ spool'[j] = IF j = i /\ p = "done" THEN "none" ELSE spool[j]
               /\ import'[j].pc = IF j = i THEN p ELSE import[j].pc
    BY <1>2, <2>1
  <2> QED
    BY <1>0, <2>2 DEF ImportInv, SpoolsHaveOwners, BodiesHaveFiles, Where
<1>5. RecordedIsReceived'
  <2>1. \A j \in Imports \ {i} : recording'[j] = recording[j] /\ import'[j].pc = import[j].pc
    BY <1>0, <1>1, <1>2 DEF ImportTypeOK
  <2>2. import'[i].pc = p
    BY <1>2
  <2>3. \A j \in Imports : SameBody(j)
    BY <1>2
  <2> HIDE DEF Starts
  <2> QED
    BY <1>0, <2>1, <2>2, <2>3 DEF ImportInv, RecordedIsReceived, SameBody
<1>6. ASSUME ~strayed', NEW j \in Imports PROVE Chained(j)' /\ Counted(j)' /\ StoppedIsDecoded(j)'
  <2>1. Chained(j) /\ Counted(j) /\ StoppedIsDecoded(j)
    BY <1>0, <1>6 DEF ImportInv
  <2>2. StoppedIsDecoded(j)'
    BY <1>0, <1>1, <1>2, <2>1
       DEF StoppedIsDecoded, DecodedToTheEnd, SameCounts, Where, ImportTypeOK
  <2> QED
    BY <1>0, <1>2, <2>1, <2>2, CountsStay
<1> QED
  BY <1>3, <1>4, <1>5, <1>6 DEF ImportInv

\* While its thread reads, a session is neither stopped nor complete.
LEMMA ReadersRecord ==
  ASSUME ImportInv, NEW i \in Imports, ~strayed, Where(i, "decoding") \/ Where(i, "ended")
  PROVE  recording[i] \notin {"stopping", "complete"}
  BY DEF ImportInv, StoppedIsDecoded, Where

\* Bytes are read, or the decoder ends: one import counts, and nothing else.
LEMMA ReaderKeeps ==
  ASSUME ImportInv, NEW i \in Imports, Where(i, "decoding") \/ Where(i, "ended"),
         NEW r \in Request, import' = [import EXCEPT ![i] = r],
         r.pc \in {"decoding", "ended"}, r.received = import[i].received,
         r.declared = import[i].declared,
         UNCHANGED <<spool, upload, recording, lease, kills>>,
         strayed \in BOOLEAN, strayed' \in BOOLEAN, taken' \in [Imports -> Seq(Block)],
         strayed => strayed',
         ~strayed' => /\ \A j \in Imports \ {i} : taken'[j] = taken[j]
                      /\ Chained(i)' /\ Counted(i)'
  PROVE  ImportInv'
<1>0. /\ ImportTypeOK /\ import'[i] = r /\ \A j \in Imports \ {i} : import'[j] = import[j]
      /\ import' \in [Imports -> Request]
  BY DEF ImportInv, ImportTypeOK
<1>1. ImportTypeOK'
  BY <1>0 DEF ImportTypeOK
<1>2. SpoolsHaveOwners' /\ BodiesHaveFiles'
  BY <1>0 DEF ImportInv, SpoolsHaveOwners, BodiesHaveFiles, Where
<1>3. RecordedIsReceived'
  BY <1>0 DEF ImportInv, RecordedIsReceived, Where
<1>4. ASSUME ~strayed', NEW j \in Imports PROVE Chained(j)' /\ Counted(j)' /\ StoppedIsDecoded(j)'
  <2>1. Chained(j) /\ Counted(j) /\ StoppedIsDecoded(j)
    BY <1>4 DEF ImportInv
  <2>2. CASE j = i
    BY <1>0, <1>4, <2>2, ReadersRecord DEF StoppedIsDecoded, Where
  <2>3. CASE j # i
    BY <1>0, <1>4, <2>1, <2>3
       DEF StoppedIsDecoded, DecodedToTheEnd, Chained, Counted, Frames, Where
  <2> QED
    BY <2>2, <2>3
<1> QED
  BY <1>1, <1>2, <1>3, <1>4 DEF ImportInv

LEMMA ReadKeeps ==
  ASSUME ImportInv, NEW i \in Imports, ReadPcm(i) PROVE ImportInv'
<1>0. ImportTypeOK /\ import[i] \in Request /\ import[i].pc = "decoding"
  BY DEF ImportInv, ImportTypeOK, ReadPcm, Where
<1>1. PICK n \in 1..(BlockBytes - import[i].pending) :
        import' = [import EXCEPT ![i].pending = @ + n, ![i].pcm = @ + n]
  BY DEF ReadPcm
<1>2. n \in Nat
  BY <1>0, ImportAssumption DEF Request
<1> DEFINE r == [import[i] EXCEPT !.pending = @ + n, !.pcm = @ + n]
<1>3. import' = [import EXCEPT ![i] = r]
  BY <1>0, <1>1 DEF ImportTypeOK
<1>4. /\ r \in Request /\ r.pc = "decoding" /\ r.received = import[i].received
      /\ r.declared = import[i].declared
  <2>1. import[i].pending + n \in Nat /\ import[i].pcm + n \in Nat
    BY <1>0, <1>2 DEF Request
  <2> QED
    BY <1>0, <2>1 DEF Request
<1>5. UNCHANGED <<spool, upload, recording, taken, lease, kills, strayed>>
  BY DEF ReadPcm
<1>6. ASSUME ~strayed' PROVE Chained(i)' /\ Counted(i)'
  <2>1. Chained(i) /\ Counted(i) /\ import'[i] = r
    BY <1>0, <1>3, <1>5, <1>6 DEF ImportInv, ImportTypeOK
  <2>2. Chained(i)'
    BY <1>5, <2>1 DEF Chained
  <2>3. Counted(i)'
    BY <1>0, <1>2, <1>5, <2>1 DEF Counted, Frames, Request
  <2> QED
    BY <2>2, <2>3
<1> HIDE DEF r
<1> QED
  BY <1>0, <1>3, <1>4, <1>5, <1>6, ReaderKeeps DEF ImportTypeOK, Where

\* The decoder ends.
LEMMA DecoderKeeps ==
  ASSUME ImportInv, NEW i \in Imports, DecoderEnds(i) PROVE ImportInv'
<1>0. ImportTypeOK /\ import[i] \in Request /\ import[i].pc = "decoding"
  BY DEF ImportInv, ImportTypeOK, DecoderEnds, Where
<1>1. PICK good \in BOOLEAN : import' = [import EXCEPT ![i].pc = "ended", ![i].sound = good]
  BY DEF DecoderEnds
<1> DEFINE r == [import[i] EXCEPT !.pc = "ended", !.sound = good]
<1>3. import' = [import EXCEPT ![i] = r]
  BY <1>0, <1>1 DEF ImportTypeOK
<1>4. /\ r \in Request /\ r.pc = "ended" /\ r.received = import[i].received
      /\ r.declared = import[i].declared
  BY <1>0 DEF Request, ImportPoints
<1>5. UNCHANGED <<spool, upload, recording, taken, lease, kills, strayed>>
  BY DEF DecoderEnds
<1>6. ASSUME ~strayed' PROVE Chained(i)' /\ Counted(i)'
  <2>1. Chained(i) /\ Counted(i) /\ import'[i] = r
    BY <1>0, <1>3, <1>5, <1>6 DEF ImportInv, ImportTypeOK
  <2>2. SameCounts(i)
    BY <1>0, <2>1 DEF SameCounts, Request
  <2> QED
    BY <1>5, <2>1, <2>2, CountsStay
<1> HIDE DEF r
<1> QED
  BY <1>0, <1>3, <1>4, <1>5, <1>6, ReaderKeeps DEF ImportTypeOK, Where

\* A block is accepted by the active session, or by none.
LEMMA AcceptKeeps ==
  ASSUME ImportInv, NEW i \in Imports, AcceptPcm(i) PROVE ImportInv'
<1>0. /\ ImportTypeOK /\ import[i] \in Request /\ import[i].pc \in {"decoding", "ended"}
      /\ UNCHANGED <<spool, upload, recording, lease, kills>> /\ lease' \in Lease
  BY DEF ImportInv, ImportTypeOK, AcceptPcm, BlockIsReady, Where
<1>1. CASE To(i, "failing") /\ UNCHANGED <<taken, strayed>>
  <2>1. spool' = [spool EXCEPT ![i] = spool[i]] /\ spool[i] \in {"new", "old"}
    BY <1>0 DEF ImportInv, ImportTypeOK, SpoolsHaveOwners
  <2>2. ~strayed => recording[i] \notin {"stopping", "complete"}
    BY <1>0, ReadersRecord DEF Where
  <2> QED
    BY <1>0, <1>1, <2>1, <2>2, StepsTo DEF OwnsItsFile, AfterTheBody, AfterTheEnd, ImportPoints
<1>2. CASE ~(To(i, "failing") /\ UNCHANGED <<taken, strayed>>)
  <2> DEFINE frames == import[i].pending \div 2
             s == lease.active
             block == [from |-> i, first |-> import[i].head, frames |-> frames]
             r == [import[i] EXCEPT !.pending = 0, !.head = @ + frames, !.blocks = @ + 1]
  <2>1. /\ Fits(i) /\ taken' = [taken EXCEPT ![s] = Append(taken[s], block)]
        /\ strayed' = (strayed \/ s # i)
        /\ import' = [import EXCEPT ![i].pending = 0, ![i].head = @ + frames, ![i].blocks = @ + 1]
    BY <1>0, <1>2 DEF AcceptPcm, ImportTypeOK
  <2>2. /\ s \in Imports
        /\ frames \in Nat
        /\ (import[i].pending % 2 = 0 => 2 * frames = import[i].pending)
    <3>1. import[i].pending \in Nat /\ s \in Imports
      BY <1>0, <2>1 DEF Fits, ImportTypeOK, Lease, Request
    <3>2. frames \in Nat
      BY <3>1
    <3> QED
      BY <3>1, <3>2, EvenHalves
  <2>3. import[i].pending % 2 = 0
    BY <1>0, ImportAssumption DEF AcceptPcm, BlockIsReady
  <2>4. import[i].head + frames \in Nat /\ import[i].blocks + 1 \in Nat
    BY <1>0, <2>2 DEF Request
  <2>5. /\ r \in Request /\ r.pc = import[i].pc /\ r.received = import[i].received
        /\ r.declared = import[i].declared
    BY <1>0, <2>4 DEF Request
  <2>6. import' = [import EXCEPT ![i] = r]
    BY <1>0, <2>1 DEF ImportTypeOK
  <2>7. block \in Block
    BY <1>0, <2>2 DEF Block, Request
  <2>8. taken' \in [Imports -> Seq(Block)]
    BY <1>0, <2>1, <2>2, <2>7 DEF ImportTypeOK
  <2>9. ASSUME ~strayed'
        PROVE  /\ \A j \in Imports \ {i} : taken'[j] = taken[j]
               /\ Chained(i)' /\ Counted(i)'
    <3>1. s = i /\ ~strayed /\ Chained(i) /\ Counted(i)
      BY <2>1, <2>9 DEF ImportInv
    <3>2. /\ taken'[i] = Append(taken[i], block) /\ taken[i] \in Seq(Block)
          /\ \A j \in Imports \ {i} : taken'[j] = taken[j]
      BY <1>0, <2>1, <3>1 DEF ImportTypeOK
    <3>3. Len(taken[i]) \in Nat /\ Len(taken'[i]) = Len(taken[i]) + 1
      BY <2>7, <3>2
    <3>4. \A n \in 1..Len(taken[i]) : taken'[i][n] = taken[i][n]
      BY <2>7, <3>2
    <3>5. taken'[i][Len(taken[i]) + 1] = block
      BY <2>7, <3>2
    <3>6. import[i].head = IF taken[i] = << >> THEN 0
                           ELSE taken[i][Len(taken[i])].first + taken[i][Len(taken[i])].frames
      BY <3>1 DEF Counted, Frames, Last
    <3>7. Chained(i)'
      <4> SUFFICES ASSUME NEW n \in 1..(Len(taken[i]) + 1)
                   PROVE  /\ taken'[i][n].from = i
                          /\ taken'[i][n].first = IF n = 1 THEN 0
                               ELSE taken'[i][n - 1].first + taken'[i][n - 1].frames
        BY <2>7, <3>2, <3>3 DEF Chained
      <4>1. CASE n \in 1..Len(taken[i])
        <5>1. taken[i][n].from = i /\ taken[i][n].first =
                IF n = 1 THEN 0 ELSE taken[i][n - 1].first + taken[i][n - 1].frames
          BY <3>1, <3>2, <4>1 DEF Chained
        <5>2. n # 1 => n - 1 \in 1..Len(taken[i])
          BY <3>3, <4>1
        <5> QED
          BY <3>4, <4>1, <5>1, <5>2
      <4>2. CASE n = Len(taken[i]) + 1
        <5>1. n # 1 => n - 1 \in 1..Len(taken[i]) /\ n - 1 = Len(taken[i]) /\ taken[i] # << >>
          BY <3>2, <3>3, <4>2
        <5>2. n = 1 => taken[i] = << >>
          BY <3>2, <3>3, <4>2
        <5>3. block.from = i /\ block.first = import[i].head
          OBVIOUS
        <5> QED
          BY <3>4, <3>5, <3>6, <4>2, <5>1, <5>2, <5>3
      <4> QED
        BY <3>3, <4>1, <4>2
    <3>8. Counted(i)'
      <4>1. /\ import'[i] = r /\ r.blocks = import[i].blocks + 1
            /\ r.head = import[i].head + frames /\ r.pending = 0 /\ r.pcm = import[i].pcm
        BY <1>0, <2>6 DEF ImportTypeOK, Request
      <4>2. Frames(i)' = import[i].head + frames
        <5>1. taken'[i] # << >> /\ Last(taken'[i]) = block
          BY <2>7, <3>2, <3>3, <3>5 DEF Last
        <5> QED
          BY <5>1 DEF Frames
      <4>3. 2 * (import[i].head + frames) = import[i].pcm
        BY <1>0, <2>2, <2>3, <3>1 DEF Counted, Request
      <4> HIDE DEF r, frames
      <4> QED
        BY <3>1, <3>3, <4>1, <4>2, <4>3, <1>0, <2>2 DEF Counted, Request
    <3> QED
      BY <3>2, <3>7, <3>8
  <2>10. /\ strayed \in BOOLEAN /\ strayed' \in BOOLEAN /\ (strayed => strayed')
    BY <1>0, <2>1 DEF ImportTypeOK
  <2> HIDE DEF r, frames, s, block
  <2> QED
    BY <1>0, <2>5, <2>6, <2>8, <2>9, <2>10, ReaderKeeps DEF Where
<1> QED
  BY <1>1, <1>2

\* The decoding is judged.
LEMMA FinishKeeps ==
  ASSUME ImportInv, NEW i \in Imports, FinishDecoding(i) PROVE ImportInv'
<1>0. /\ ImportTypeOK /\ import[i] \in Request /\ import[i].pc = "ended"
      /\ UNCHANGED <<spool, recording, taken, lease, kills, strayed>> /\ lease' \in Lease
      /\ spool[i] \in {"new", "old"}
  BY DEF ImportInv, ImportTypeOK, FinishDecoding, SpoolsHaveOwners, RecordedIsReceived, Where
<1>1. ~strayed => recording[i] \notin {"stopping", "complete"}
  BY <1>0, ReadersRecord DEF Where
<1>2. CASE To(i, "failing") /\ UNCHANGED upload
  <2>1. spool' = [spool EXCEPT ![i] = spool[i]]
    BY <1>0 DEF ImportTypeOK
  <2> QED
    BY <1>0, <1>1, <1>2, <2>1, StepsTo DEF OwnsItsFile, AfterTheBody, AfterTheEnd, ImportPoints
<1>3. CASE DecodedWell(i) /\ upload' = [upload EXCEPT ![i] = "accepted"] /\ To(i, "stop")
  <2>1. /\ import' \in [Imports -> Request]
        /\ \A j \in Imports :
              /\ import'[j].pc = IF j = i THEN "stop" ELSE import[j].pc
              /\ SameCounts(j) /\ SameBody(j) /\ import'[j].sound = import[j].sound
    BY <1>0, <1>3, Moves DEF ImportPoints
  <2>2. import[i].pending = 0 /\ import[i].sound
    BY <1>0, <1>3 DEF FinishDecoding, BlockIsReady, DecodedWell, Where, Request
  <2>3. ImportTypeOK'
    BY <1>0, <1>3, <2>1 DEF ImportTypeOK
  <2>4. SpoolsHaveOwners' /\ BodiesHaveFiles'
    BY <1>0, <2>1 DEF ImportInv, SpoolsHaveOwners, BodiesHaveFiles, Where
  <2>5. RecordedIsReceived'
    BY <1>0, <2>1 DEF ImportInv, RecordedIsReceived, SameBody
  <2>6. ASSUME ~strayed', NEW j \in Imports PROVE Chained(j)' /\ Counted(j)' /\ StoppedIsDecoded(j)'
    <3>1. Chained(j) /\ Counted(j) /\ StoppedIsDecoded(j)
      BY <1>0, <2>6 DEF ImportInv
    <3>2. StoppedIsDecoded(j)'
      BY <1>0, <1>1, <1>3, <2>1, <2>2, <2>6, <3>1
         DEF StoppedIsDecoded, DecodedToTheEnd, SameCounts, Where, ImportTypeOK
    <3> QED
      BY <1>0, <2>1, <3>1, <3>2, CountsStay
  <2> QED
    BY <2>3, <2>4, <2>5, <2>6 DEF ImportInv
<1> QED
  BY <1>2, <1>3 DEF FinishDecoding

\* The session is stopped, if it is the one that is fed.
LEMMA StopKeeps ==
  ASSUME ImportInv, NEW i \in Imports, StopImport(i) PROVE ImportInv'
<1>0. /\ ImportTypeOK /\ import[i] \in Request /\ import[i].pc = "stop"
      /\ UNCHANGED <<spool, upload, taken, kills>> /\ lease' \in Lease
      /\ spool[i] \in {"new", "old"}
  BY DEF ImportInv, ImportTypeOK, StopImport, SpoolsHaveOwners, Where, Lease
<1>1. ~strayed => DecodedToTheEnd(i) /\ recording[i] \notin {"stopping", "complete"}
  BY <1>0 DEF ImportInv, StoppedIsDecoded, Where
<1>2. CASE To(i, "failing") /\ UNCHANGED <<recording, lease, strayed>>
  <2>1. spool' = [spool EXCEPT ![i] = spool[i]]
    BY <1>0 DEF ImportTypeOK
  <2> QED
    BY <1>0, <1>1, <1>2, <2>1, StepsTo DEF OwnsItsFile, AfterTheBody, AfterTheEnd, ImportPoints
<1>3. CASE Fits(i) /\ To(i, "waiting")
  <2>1. /\ import' \in [Imports -> Request]
        /\ \A j \in Imports :
              /\ import'[j].pc = IF j = i THEN "waiting" ELSE import[j].pc
              /\ SameCounts(j) /\ SameBody(j) /\ import'[j].sound = import[j].sound
    BY <1>0, <1>3, Moves DEF ImportPoints
  <2> DEFINE s == lease.active
  <2>2. /\ s \in Imports /\ recording[s] = "recording"
        /\ recording' = [recording EXCEPT ![s] = "stopping"]
        /\ strayed' = (strayed \/ s # i)
    BY <1>0, <1>3 DEF StopImport, Fits, ImportTypeOK, Lease
  <2> HIDE DEF s
  <2>3. ImportTypeOK'
    BY <1>0, <2>1, <2>2 DEF ImportTypeOK
  <2>4. SpoolsHaveOwners' /\ BodiesHaveFiles'
    BY <1>0, <2>1 DEF ImportInv, SpoolsHaveOwners, BodiesHaveFiles, Where
  <2>5. RecordedIsReceived'
    BY <1>0, <2>1, <2>2 DEF ImportInv, ImportTypeOK, RecordedIsReceived, SameBody
  <2>6. ASSUME ~strayed', NEW j \in Imports PROVE Chained(j)' /\ Counted(j)' /\ StoppedIsDecoded(j)'
    <3>1. Chained(j) /\ Counted(j) /\ StoppedIsDecoded(j) /\ s = i /\ ~strayed
      BY <1>0, <2>2, <2>6 DEF ImportInv
    <3>2. StoppedIsDecoded(j)'
      BY <1>0, <1>1, <2>1, <2>2, <3>1
         DEF StoppedIsDecoded, DecodedToTheEnd, SameCounts, Where, ImportTypeOK
    <3> QED
      BY <1>0, <2>1, <3>1, <3>2, CountsStay
  <2> QED
    BY <2>3, <2>4, <2>5, <2>6 DEF ImportInv
<1> QED
  BY <1>2, <1>3 DEF StopImport

\* An import fails, and aborts the session that is active.
LEMMA FailKeeps ==
  ASSUME ImportInv, NEW i \in Imports, FailImport(i) PROVE ImportInv'
<1>0. /\ ImportTypeOK /\ import[i] \in Request /\ import[i].pc = "failing" /\ To(i, "done")
      /\ UNCHANGED <<taken, kills>> /\ lease' \in Lease
      /\ spool' = [spool EXCEPT ![i] = "none"]
  BY DEF ImportInv, ImportTypeOK, FailImport, Where, Lease, Released, Unlink
<1>1. /\ import' \in [Imports -> Request]
      /\ \A j \in Imports :
              /\ import'[j].pc = IF j = i THEN "done" ELSE import[j].pc
              /\ SameCounts(j) /\ SameBody(j) /\ import'[j].sound = import[j].sound
  BY <1>0, Moves DEF ImportPoints
<1> DEFINE s == lease.active
<1>2. /\ s \in Imports \cup {0} /\ strayed' = (strayed \/ s \notin {0, i})
      /\ recording' = IF s # 0 /\ Unfinished(s) THEN [recording EXCEPT ![s] = "failed"] ELSE recording
      /\ upload' \in {upload, [upload EXCEPT ![i] = "failed"]}
  BY <1>0 DEF FailImport, ImportTypeOK, Lease
<1>3. \A j \in Imports : \/ recording'[j] = recording[j]
                         \/ recording'[j] = "failed" /\ recording[j] # "none"
  BY <1>0, <1>2 DEF ImportTypeOK, Unfinished
<1> HIDE DEF s
<1>4. ImportTypeOK'
  BY <1>0, <1>1, <1>2 DEF ImportTypeOK
<1>5. SpoolsHaveOwners' /\ BodiesHaveFiles'
  BY <1>0, <1>1 DEF ImportInv, ImportTypeOK, SpoolsHaveOwners, BodiesHaveFiles, Where
<1>6. RecordedIsReceived'
  BY <1>0, <1>1, <1>3 DEF ImportInv, RecordedIsReceived, SameBody
<1>7. ASSUME ~strayed', NEW j \in Imports PROVE Chained(j)' /\ Counted(j)' /\ StoppedIsDecoded(j)'
  <2>1. Chained(j) /\ Counted(j) /\ StoppedIsDecoded(j) /\ StoppedIsDecoded(i) /\ ~strayed
    BY <1>2, <1>7 DEF ImportInv, ImportTypeOK
  <2>2. recording[i] \notin {"stopping", "complete"}
    BY <1>0, <2>1 DEF StoppedIsDecoded
  <2>3. j # i => upload'[j] = upload[j]
    BY <1>0, <1>2 DEF ImportTypeOK
  <2>4. StoppedIsDecoded(j)'
    BY <1>0, <1>1, <1>3, <2>1, <2>2, <2>3
       DEF StoppedIsDecoded, DecodedToTheEnd, SameCounts, Where
  <2> QED
    BY <1>0, <1>1, <2>1, <2>4, CountsStay
<1> QED
  BY <1>4, <1>5, <1>6, <1>7 DEF ImportInv

\* A session settles, fails or is aborted.
LEMMA EndingKeeps ==
  ASSUME ImportInv, NEW i \in Imports, EndRecording(i) PROVE ImportInv'
<1>0. /\ ImportTypeOK /\ UNCHANGED <<import, spool, upload, taken, kills, strayed>>
      /\ lease' \in Lease
      /\ recording' \in [Imports -> {"none", "recording", "stopping", "complete", "failed"}]
      /\ recording[i] \in {"recording", "stopping"}
      /\ \A j \in Imports : \/ recording'[j] = recording[j]
                            \/ recording'[j] = "failed" /\ recording[j] # "none"
                            \/ recording'[j] = "complete" /\ recording[j] = "stopping"
  BY DEF ImportInv, ImportTypeOK, EndRecording, Lease, Released, Unfinished
<1>1. ImportTypeOK'
  BY <1>0 DEF ImportTypeOK
<1>2. SpoolsHaveOwners' /\ BodiesHaveFiles'
  BY <1>0 DEF ImportInv, SpoolsHaveOwners, BodiesHaveFiles, Where
<1>3. RecordedIsReceived'
  BY <1>0 DEF ImportInv, RecordedIsReceived
<1>4. ASSUME ~strayed', NEW j \in Imports PROVE Chained(j)' /\ Counted(j)' /\ StoppedIsDecoded(j)'
  <2>1. Chained(j) /\ Counted(j) /\ StoppedIsDecoded(j) /\ SameCounts(j)
    BY <1>0, <1>4 DEF ImportInv, SameCounts
  <2>2. StoppedIsDecoded(j)'
    BY <1>0, <2>1 DEF StoppedIsDecoded, DecodedToTheEnd, Where
  <2> QED
    BY <1>0, <2>1, <2>2, CountsStay
<1> QED
  BY <1>1, <1>2, <1>3, <1>4 DEF ImportInv

\* A day passes.
LEMMA DayKeeps == ASSUME ImportInv, DayPasses PROVE ImportInv'
<1>0. /\ ImportTypeOK /\ UNCHANGED <<import, upload, recording, taken, lease, kills, strayed>>
      /\ spool' \in [Imports -> {"none", "new", "old"}]
      /\ \A j \in Imports : spool'[j] = "none" <=> spool[j] = "none"
  BY DEF ImportInv, ImportTypeOK, DayPasses
<1>1. ImportTypeOK' /\ SpoolsHaveOwners' /\ BodiesHaveFiles' /\ RecordedIsReceived'
  BY <1>0
     DEF ImportInv, ImportTypeOK, SpoolsHaveOwners, BodiesHaveFiles, RecordedIsReceived, Where
<1>2. ASSUME ~strayed', NEW j \in Imports PROVE Chained(j)' /\ Counted(j)' /\ StoppedIsDecoded(j)'
  BY <1>0, <1>2, CountsStay
     DEF ImportInv, SameCounts, StoppedIsDecoded, DecodedToTheEnd, Where
<1> QED
  BY <1>1, <1>2 DEF ImportInv

\* The process is killed, and the next one removes the old files.
LEMMA KillKeeps == ASSUME ImportInv, KillImports PROVE ImportInv'
<1>0. /\ ImportTypeOK /\ UNCHANGED <<upload, taken, strayed>> /\ lease' \in Lease /\ kills' \in Nat
      /\ \A j \in Imports : import[j] \in Request
  <2>1. ImportTypeOK
    BY DEF ImportInv
  <2>2. UNCHANGED <<upload, taken, strayed>> /\ kills' = kills + 1 /\ lease' = Released(lease)
    BY DEF KillImports
  <2>3. lease' \in Lease
    BY <2>1, <2>2 DEF ImportTypeOK, Released, Lease
  <2> QED
    BY <2>1, <2>2, <2>3 DEF ImportTypeOK
<1>1. \A j \in Imports :
        /\ import'[j] = IF import[j].pc \in {"none", "done", "killed"} THEN import[j]
                        ELSE [import[j] EXCEPT !.pc = "killed"]
        /\ spool'[j] = IF spool[j] = "old" THEN "none" ELSE spool[j]
        /\ recording'[j] = IF Unfinished(j) THEN "failed" ELSE recording[j]
  BY DEF KillImports
<1>2. \A j \in Imports : [import[j] EXCEPT !.pc = "killed"] \in Request
  BY <1>0 DEF Request, ImportPoints
<1>3. \A j \in Imports :
        /\ import'[j] \in Request /\ SameCounts(j) /\ SameBody(j)
        /\ import'[j].pc = IF import[j].pc \in {"none", "done"} THEN import[j].pc ELSE "killed"
        /\ import'[j].sound = import[j].sound
  BY <1>0, <1>1, <1>2 DEF Request, SameCounts, SameBody
<1>4. import' \in [Imports -> Request]
  BY <1>3 DEF KillImports
<1>5. ImportTypeOK'
  BY <1>0, <1>4 DEF ImportTypeOK, KillImports
<1>6. SpoolsHaveOwners' /\ BodiesHaveFiles'
  BY <1>1, <1>3 DEF ImportInv, SpoolsHaveOwners, BodiesHaveFiles, Where
<1>7. RecordedIsReceived'
  BY <1>1, <1>3 DEF ImportInv, RecordedIsReceived, SameBody, Unfinished
<1>8. ASSUME ~strayed', NEW j \in Imports PROVE Chained(j)' /\ Counted(j)' /\ StoppedIsDecoded(j)'
  <2>1. Chained(j) /\ Counted(j) /\ StoppedIsDecoded(j)
    BY <1>0, <1>8 DEF ImportInv
  <2>2. StoppedIsDecoded(j)'
    BY <1>0, <1>1, <1>3, <2>1
       DEF StoppedIsDecoded, DecodedToTheEnd, Where, SameCounts, Unfinished
  <2> QED
    BY <1>0, <1>3, <2>1, <2>2, CountsStay
<1> QED
  BY <1>5, <1>6, <1>7, <1>8 DEF ImportInv

\* Every step of the imports keeps the invariant.
LEMMA NextKeepsImports == ImportInv /\ [ImportNext]_importVars => ImportInv'
<1>1. ASSUME ImportInv, NEW i \in Imports, ImportStep(i) PROVE ImportInv'
  BY <1>1, AskKeeps, OpenKeeps, WriteKeeps, EndKeeps, PrepareKeeps, ClaimKeepsImports, StartKeeps,
     ReadKeeps, DecoderKeeps, AcceptKeeps, FinishKeeps, StopKeeps, WaitedKeeps, FailKeeps
     DEF ImportStep
<1>2. ASSUME ImportInv, UNCHANGED importVars PROVE ImportInv'
  BY <1>2
     DEF importVars, ImportInv, ImportTypeOK, SpoolsHaveOwners, BodiesHaveFiles,
         RecordedIsReceived, Chained, Counted, Frames, StoppedIsDecoded, DecodedToTheEnd, Where
<1> QED
  BY <1>1, <1>2, EndingKeeps, DayKeeps, KillKeeps DEF ImportNext

LEMMA InitHasImports == ImportInit => ImportInv
<1> SUFFICES ASSUME ImportInit PROVE ImportInv
  OBVIOUS
<1>1. Unasked \in Request
  BY DEF Unasked, Request, ImportPoints
<1>2. ImportTypeOK
  <2>1. import \in [Imports -> Request] /\ lease \in Lease
    BY <1>1 DEF ImportInit, Lease
  <2>2. << >> \in Seq(Block)
    OBVIOUS
  <2>3. taken \in [Imports -> Seq(Block)]
    BY <2>2 DEF ImportInit
  <2> QED
    BY <2>1, <2>3 DEF ImportInit, ImportTypeOK
<1>3. SpoolsHaveOwners /\ BodiesHaveFiles /\ RecordedIsReceived
  BY DEF ImportInit, SpoolsHaveOwners, BodiesHaveFiles, RecordedIsReceived, Unasked, Where
<1>4. ASSUME NEW i \in Imports PROVE Chained(i) /\ Counted(i) /\ StoppedIsDecoded(i)
  BY DEF ImportInit, Chained, Counted, Frames, StoppedIsDecoded, Unasked, Where
<1> QED
  BY <1>2, <1>3, <1>4 DEF ImportInv

LEMMA ImportInvariant == CapturesSpec => []ImportInv
<1>1. CapturesInit => ImportInv
  BY InitHasImports DEF CapturesInit
<1>2. ImportInv /\ [CapturesNext]_<<view, vars, importVars>> => ImportInv'
  BY NextKeepsImports DEF CapturesNext
<1> QED
  BY <1>1, <1>2, PTL DEF CapturesSpec

\* Whatever is refused or fails, and whenever the process is killed, an upload
\* has its spool file as long as somebody reads it, and no file outlives its
\* request (local_upload.py, the finally clauses of the imports handler and of
\* _run_upload).
THEOREM SpoolsKeepOwners == CapturesSpec => []SpoolsHaveOwners
<1>1. ImportInv => SpoolsHaveOwners
  BY DEF ImportInv
<1> QED
  BY <1>1, ImportInvariant, PTL

\* A recording that is complete holds every frame of its file, for bodies and
\* decoders of any length and any number of imports and kills (_run_upload,
\* accept_block, stop_microphone).
THEOREM ImportsStayWhole == CapturesSpec => []ImportsAreWhole
<1>1. ImportInv => ImportsAreWhole
  <2> SUFFICES ASSUME ImportInv, NEW i \in Imports, recording[i] = "complete", ~strayed
               PROVE  /\ upload[i] = "accepted" /\ import[i].sound
                      /\ import[i].received = import[i].declared
                      /\ Chained(i) /\ 2 * Frames(i) = import[i].pcm
    BY DEF ImportsAreWhole, Chained
  <2>1. Chained(i) /\ Counted(i) /\ DecodedToTheEnd(i) /\ import[i] \in Request
    BY DEF ImportInv, ImportTypeOK, StoppedIsDecoded
  <2>2. import[i].received = import[i].declared
    BY DEF ImportInv, RecordedIsReceived
  <2> QED
    BY <2>1, <2>2 DEF Counted, DecodedToTheEnd, Request
<1> QED
  BY <1>1, ImportInvariant, PTL

================================================================================
