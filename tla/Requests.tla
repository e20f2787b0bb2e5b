------------------------------- MODULE Requests -------------------------------
(***************************************************************************)
(* How the two servers answer a request: the local server, which the       *)
(* person at the machine or the desktop application uses                   *)
(* (corrected_workbench.py), and the family server, which asks who is      *)
(* there (family_server.py).  A request is a record:                       *)
(*   route      what is asked                                              *)
(*   server     how the local server is set up: "plain", "public" behind a *)
(*              proxy with an address of its own, or "desktop"             *)
(*   host, origin   the address and the page that the headers name         *)
(*   token      the desktop application's secret is right                  *)
(*   role       the person's in the workspace, manages: and in its group   *)
(*   space      the workspace that the path names                          *)
(*   body       what is sent: "good", "misdirected" (it names another      *)
(*              session than the path), "ill-formed", "unreadable", "long" *)
(*   performer  who is said to have played                                 *)
(*   kind       of the artifact that is read or listed                     *)
(*   scores     the family server publishes scores                         *)
(*   upgrade    what a socket asks for                                     *)
(*   outcome    what the application does if it is asked: it is "done",    *)
(*              something is "missing", a job is "gone", a session is in   *)
(*              "conflict", the server is "busy" (RuntimeError), an input  *)
(*              is "invalid" (ValueError), or the "disk" or the "database" *)
(*              fails                                                      *)
(***************************************************************************)
EXTENDS Integers, Sequences

Shared   == {"capabilities", "workspaces", "groups"}
Reads    == {"sessions", "session", "horizon", "events", "artifacts", "variants", "access", "content"}
Jobs     == {"score", "variant"}
Changes  == {"rename", "performer", "delete"}
Legacy   == {"config", "state", "score_state", "legacy_events", "export", "score_asset"}
Writes   == {"import", "replay"} \cup Jobs \cup Changes
Routes   == Shared \cup Reads \cup Writes \cup Legacy
              \cup {"profiles", "job", "profile", "legacy_score", "handshake", "page", "unknown", "live"}

Method(route) ==
  CASE route \in Jobs \cup {"import", "replay", "profile", "legacy_score"} -> "POST"
    [] route \in {"rename", "performer"} -> "PATCH"
    [] route = "delete" -> "DELETE"
    [] OTHER -> "GET"

\* The answer is the first reason to refuse that applies, or else what was
\* asked for. Dropped: the handler ends with an exception and sends nothing.
Dropped == 0

Reply(refusals, status) ==
  LET met == {n \in DOMAIN refusals : refusals[n][1]}
  IN  IF met = {} THEN [status |-> status, done |-> TRUE]
      ELSE [status |-> refusals[CHOOSE n \in met : \A k \in met : n <= k][2], done |-> FALSE]

\* What the services make of it: another workspace does not exist.
Served(r) == IF r.space # "local" THEN "gone" ELSE r.outcome

-----------------------------------------------------------------------------
(* The local server.                                                       *)

TrustedHost(r) == r.host = "loopback" \/ (r.host = "public" /\ r.server = "public")

TrustedOrigin(r) ==
  r.origin = "loopback" \/ (r.origin \in {"public", "desktop"} /\ r.origin = r.server)

\* The socket shows the secret in a header of its own.
Authorized(r) == r.server # "desktop" \/ r.route = "live" \/ r.token

LocalBoundary(r) == <<<<~ TrustedHost(r), 403>>, <<~ Authorized(r), 401>>>>

LocalActions(r) == LocalBoundary(r) \o <<<<~ TrustedOrigin(r), 403>>>>

\* A body is read, checked by the contract and compared with the path before
\* the application is asked: what the handler meets first.
Raised(r) ==
  IF r.body = "ill-formed" THEN "ill-formed"
  ELSE IF r.body # "good" \/ r.space # "local" THEN "invalid"
  ELSE r.outcome

LocalCatalog(r) ==
  Reply(LocalBoundary(r) \o <<<<r.route = "profiles" /\ r.space # "local", 400>>>>, 200)

\* The errors that a read may meet.
LocalFailures(outcome) ==
  <<<<outcome \in {"missing", "gone"}, 404>>, <<outcome \in {"invalid", "disk", "database"}, 400>>>>

LocalReads(r) == Reply(LocalBoundary(r) \o LocalFailures(Served(r)), 200)

\* The routes of the first releases speak of the current session.
LocalLegacy(r) ==
  LET failure == IF r.route = "legacy_events"
                 THEN <<<<r.outcome = "missing", 404>>, <<r.outcome = "disk", Dropped>>, <<r.outcome # "done", 400>>>>
                 ELSE <<<<r.outcome # "done", 404>>>>
  IN  Reply(LocalBoundary(r) \o failure, 200)

LocalSocket(r) ==
  Reply(<<<<~ TrustedHost(r), 403>>, <<~ TrustedOrigin(r), 403>>,
           <<r.server = "desktop" /\ ~ r.token, 401>>,
           <<r.upgrade = "none", 426>>, <<r.upgrade = "without key", 400>>>>, 101)

LocalGet(r) ==
  CASE r.route \in Shared \cup {"profiles"} -> LocalCatalog(r)
    [] r.route \in Reads \cup {"job"}       -> LocalReads(r)
    [] r.route \in Legacy                   -> LocalLegacy(r)
    [] r.route = "live"                     -> LocalSocket(r)
    [] r.route = "page"                     -> Reply(LocalBoundary(r), 200)
    [] r.route = "handshake" -> Reply(LocalBoundary(r) \o <<<<r.server # "desktop", 404>>>>, 200)
    [] OTHER                                -> Reply(LocalBoundary(r) \o <<<<TRUE, 404>>>>, 200)

\* HEAD knows the files and the versioned routes.
LocalHead(r) ==
  IF r.route \in {"live", "handshake", "config", "state", "score_state", "legacy_events"}
  THEN Reply(LocalBoundary(r) \o <<<<TRUE, 404>>>>, 200)
  ELSE LocalGet(r)

LocalImport(r) ==
  Reply(LocalActions(r)
         \o <<<<r.body = "long", 413>>, <<r.body \in {"ill-formed", "unreadable"}, 400>>,
              <<r.space # "local", 400>>, <<r.outcome \in {"invalid", "disk"}, 400>>,
              <<r.outcome = "busy", 409>>>>, 202)

LocalScore(r) ==
  Reply(LocalActions(r)
         \o <<<<Raised(r) = "ill-formed", 400>>, <<Raised(r) = "missing", 404>>,
              <<Raised(r) \in {"invalid", "busy", "disk"}, 409>>>>, 202)

LocalVariant(r) ==
  Reply(LocalActions(r)
         \o <<<<Raised(r) = "ill-formed", 400>>, <<Raised(r) = "missing", 404>>,
              <<Raised(r) \in {"invalid", "busy", "disk"}, 409>>>>, 201)

\* Nothing of the body is read.
LocalStart(r) == Reply(LocalActions(r) \o <<<<r.outcome # "done", 409>>>>, 202)

LocalPost(r) ==
  CASE r.route = "import"  -> LocalImport(r)
    [] r.route = "score"   -> LocalScore(r)
    [] r.route = "variant" -> LocalVariant(r)
    [] r.route \in {"replay", "legacy_score"} -> LocalStart(r)
    [] OTHER -> Reply(LocalActions(r) \o <<<<TRUE, 404>>>>, 200)

\* Mutant: only POST asks where the page came from.
LocalPatchFromAnywhere(r) ==
  Reply(LocalBoundary(r)
         \o <<<<Raised(r) = "missing", 404>>,
              <<Raised(r) \in {"ill-formed", "invalid", "disk"}, 400>>,
              <<Raised(r) # "done", Dropped>>>>, 200)

LocalPatch(r) ==
  Reply(LocalActions(r)
         \o <<<<Raised(r) = "missing", 404>>,
              <<Raised(r) \in {"ill-formed", "invalid", "disk"}, 400>>,
              <<Raised(r) # "done", Dropped>>>>, 200)

LocalDelete(r) ==
  Reply(LocalActions(r)
         \o <<<<Raised(r) = "missing", 404>>, <<Raised(r) = "conflict", 409>>,
              <<Raised(r) \in {"ill-formed", "invalid", "disk"}, 400>>>>, 200)

LocalAnswer(r) ==
  CASE Method(r.route) = "GET"   -> LocalGet(r)
    [] Method(r.route) = "POST"  -> LocalPost(r)
    [] Method(r.route) = "PATCH" -> LocalPatch(r)
    [] OTHER                     -> LocalDelete(r)

-----------------------------------------------------------------------------
(* The desktop page is another origin: its browser asks before each request *)
(* whether the method and the headers are allowed.                          *)

\* The bearer token goes with every request; an import says in headers what the
\* others say in a body.
PageHeaders(route) ==
  {"authorization"}
    \cup (IF Method(route) = "GET" THEN {} ELSE {"content-type"})
    \cup (IF route = "import"
          THEN {"x-atpiano-filename", "x-atpiano-request-id", "x-atpiano-performer-profile"}
          ELSE {})

\* Mutant: the performer's header came later than the others.
PreflightWithoutPerformer(r, method, headers) ==
  Reply(<<<<~ TrustedHost(r), 403>>,
           <<r.server # "desktop" \/ r.origin # "desktop", 403>>,
           <<method \notin {"GET", "HEAD", "POST", "PATCH", "DELETE"}, 403>>,
           <<~ (headers \subseteq {"authorization", "content-type", "range",
                                   "x-atpiano-filename", "x-atpiano-request-id"}), 403>>>>, 204)

Preflight(r, method, headers) ==
  Reply(<<<<~ TrustedHost(r), 403>>,
           <<r.server # "desktop" \/ r.origin # "desktop", 403>>,
           <<method \notin {"GET", "HEAD", "POST", "PATCH", "DELETE"}, 403>>,
           <<~ (headers \subseteq {"authorization", "content-type", "range", "x-atpiano-filename",
                                   "x-atpiano-performer-profile", "x-atpiano-request-id"}), 403>>>>, 204)

-----------------------------------------------------------------------------
(* The family server.                                                      *)

\* Where a change comes from and how long it is, before the host is looked at.
FamilyBoundary(r) ==
  LET changes == Method(r.route) # "GET"
  IN  <<<<changes /\ r.origin # "public", 403>>, <<changes /\ r.body = "long", 413>>,
        <<r.host = "foreign", 400>>>>

\* The framework checks the body before the handler asks who sends it.
FamilyBody(r) == <<<<r.body \in {"ill-formed", "unreadable"}, 400>>>>

SignedIn(r) == <<<<r.role = "nobody", 401>>>>

\* All memberships are of the local workspace.
Member(r) == SignedIn(r) \o <<<<r.space # "local", 403>>>>

MemberWrites(r) == Member(r) \o <<<<r.role = "viewer", 403>>>>

ManagesGroup(r) == <<<<~ r.manages, 403>>>>

Available(r) == r.performer # "unknown"

\* A RuntimeError and an OSError have no handler.
FamilyFailures(outcome) ==
  <<<<outcome \in {"missing", "gone"}, 404>>, <<outcome = "conflict", 409>>,
    <<outcome \in {"invalid", "database"}, 400>>, <<outcome \in {"busy", "disk"}, 500>>>>

FamilyCatalogAnswer(r) ==
  Reply(FamilyBoundary(r) \o (IF r.route = "profiles" THEN Member(r) ELSE SignedIn(r)), 200)

FamilyProfile(r) ==
  Reply(FamilyBoundary(r) \o FamilyBody(r) \o SignedIn(r) \o <<<<r.body = "misdirected", 400>>>>
         \o ManagesGroup(r) \o FamilyFailures(r.outcome), 201)

\* Scores are left out of what is listed, and are not found.
PublicItem(r) == r.scores \/ r.kind # "score"

FamilySessions(r) == Reply(FamilyBoundary(r) \o Member(r) \o FamilyFailures(Served(r)), 200)

\* The range of events that is asked for is part of the query.
FamilyTimeline(r) ==
  Reply(FamilyBoundary(r) \o FamilyBody(r) \o Member(r) \o FamilyFailures(Served(r)), 200)

FamilyArtifact(r) ==
  Reply(FamilyBoundary(r) \o Member(r) \o FamilyFailures(Served(r)) \o <<<<~ PublicItem(r), 404>>>>, 200)

\* Without scores the list is empty before the session is looked up.
FamilyVariants(r) ==
  Reply(FamilyBoundary(r) \o Member(r) \o (IF r.scores THEN FamilyFailures(Served(r)) ELSE << >>), 200)

\* A profile that is not available is refused with a PermissionError, which is
\* an OSError, and those of an import are input errors.
FamilyImport(r) ==
  Reply(FamilyBoundary(r) \o MemberWrites(r) \o FamilyBody(r)
         \o <<<<~ Available(r), 400>>, <<r.outcome \in {"invalid", "disk"}, 400>>,
              <<r.outcome = "busy", 409>>>>, 202)

\* Mutant: renaming asks for a membership as reading does.
FamilyRenameByViewers(r) ==
  Reply(FamilyBoundary(r) \o FamilyBody(r) \o Member(r) \o <<<<r.body = "misdirected", 400>>>>
         \o FamilyFailures(Served(r)), 200)

FamilyRename(r) ==
  Reply(FamilyBoundary(r) \o FamilyBody(r) \o MemberWrites(r) \o <<<<r.body = "misdirected", 400>>>>
         \o FamilyFailures(Served(r)), 200)

FamilyPerformer(r) ==
  Reply(FamilyBoundary(r) \o FamilyBody(r) \o MemberWrites(r) \o <<<<r.body = "misdirected", 400>>>>
         \o <<<<~ Available(r), 403>>>> \o FamilyFailures(Served(r)), 200)

FamilyScore(r) ==
  Reply(FamilyBoundary(r) \o FamilyBody(r) \o MemberWrites(r) \o <<<<~ r.scores, 404>>>>
         \o <<<<r.body = "misdirected", 400>>>> \o FamilyFailures(Served(r)), 202)

FamilyVariant(r) ==
  Reply(FamilyBoundary(r) \o FamilyBody(r) \o MemberWrites(r) \o <<<<~ r.scores, 404>>>>
         \o <<<<r.body = "misdirected", 400>>>> \o FamilyFailures(Served(r)), 201)

\* Whose job it is is asked of the job.
FamilyJob(r) == Reply(FamilyBoundary(r) \o FamilyFailures(r.outcome) \o SignedIn(r), 200)

FamilyDelete(r) ==
  Reply(FamilyBoundary(r) \o FamilyBody(r) \o MemberWrites(r) \o <<<<r.body = "misdirected", 400>>>>
         \o FamilyFailures(Served(r)), 200)

FamilyReplay(r) ==
  Reply(FamilyBoundary(r) \o FamilyBody(r) \o MemberWrites(r) \o FamilyFailures(r.outcome), 202)

FamilySocket(r) ==
  Reply(<<<<r.upgrade = "without key", 400>>, <<r.host = "foreign", 400>>, <<r.upgrade = "none", 404>>,
           <<r.origin # "public", 4403>>, <<r.role = "nobody", 4401>>, <<r.role = "viewer", 4403>>>>, 101)

\* A path without a name for a file is the page's own.
FamilyRest(r) ==
  CASE r.route \in {"page", "handshake"} -> Reply(FamilyBoundary(r), 200)
    [] r.route = "legacy_score" -> Reply(FamilyBoundary(r) \o <<<<TRUE, 405>>>>, 200)
    [] OTHER -> Reply(FamilyBoundary(r) \o <<<<TRUE, 404>>>>, 200)

FamilyAnswer(r) ==
  CASE r.route \in Shared \cup {"profiles"}   -> FamilyCatalogAnswer(r)
    [] r.route = "profile"                    -> FamilyProfile(r)
    [] r.route \in {"sessions", "session"}     -> FamilySessions(r)
    [] r.route \in {"horizon", "events", "artifacts"} -> FamilyTimeline(r)
    [] r.route \in {"access", "content"}      -> FamilyArtifact(r)
    [] r.route = "variants"                   -> FamilyVariants(r)
    [] r.route = "import"                     -> FamilyImport(r)
    [] r.route = "rename"                     -> FamilyRename(r)
    [] r.route = "performer"                  -> FamilyPerformer(r)
    [] r.route = "score"                      -> FamilyScore(r)
    [] r.route = "variant"                    -> FamilyVariant(r)
    [] r.route = "job"                        -> FamilyJob(r)
    [] r.route = "delete"                     -> FamilyDelete(r)
    [] r.route = "replay"                     -> FamilyReplay(r)
    [] r.route = "live"                       -> FamilySocket(r)
    [] OTHER                                  -> FamilyRest(r)

-----------------------------------------------------------------------------
(* Requests.                                                               *)

\* What the application may do with each of them.
Outcomes(route) ==
  CASE route \in Reads  -> {"done", "missing", "invalid", "disk", "database"}
    [] route \in Jobs   -> {"done", "missing", "invalid", "busy", "disk"}
    [] route \in {"rename", "performer"} -> {"done", "missing", "invalid", "disk"}
    [] route = "delete" -> {"done", "missing", "conflict", "invalid", "disk"}
    [] route \in {"import", "replay", "legacy_score"} -> {"done", "invalid", "busy", "disk"}
    [] route = "profile" -> {"done", "conflict", "invalid"}
    [] route = "job"    -> {"done", "gone"}
    [] route \in {"export", "score_asset"} -> {"done", "missing"}
    [] route = "legacy_events" -> {"done", "missing", "invalid", "disk", "database"}
    [] OTHER            -> {"done"}

Addressed(route) == route \in Reads \cup Jobs \cup Changes \cup {"profiles", "import"}

\* A request whose other parts are as they should be.
Plainly(route) ==
  [route |-> route, server |-> "plain", host |-> "loopback", origin |-> "loopback", token |-> TRUE,
   role |-> "owner", manages |-> TRUE, space |-> "local", body |-> "good", performer |-> "none",
   kind |-> "other", scores |-> TRUE, upgrade |-> "good", outcome |-> "done"]

Bodies(route) ==
  CASE route \in Jobs \cup Changes \cup {"profile"} ->
         {"good", "misdirected", "ill-formed", "unreadable", "long"}
    [] route = "events" -> {"good", "ill-formed"}
    [] route \in {"import", "replay"} -> {"good", "ill-formed", "unreadable", "long"}
    [] OTHER -> {"good"}

Contents(route) ==
  {[Plainly(route) EXCEPT !.space = space, !.body = body, !.performer = performer, !.kind = kind,
                          !.scores = scores, !.upgrade = upgrade, !.outcome = outcome] :
     space \in IF Addressed(route) THEN {"local", "other"} ELSE {"local"},
     body \in Bodies(route),
     performer \in IF route \in {"import", "performer"} THEN {"none", "available", "unknown"} ELSE {"none"},
     kind \in IF route = "variants" THEN {"score"}
              ELSE IF route \in Reads \ {"horizon", "events"} THEN {"score", "other"} ELSE {"other"},
     scores \in IF route \in Reads \cup Jobs THEN BOOLEAN ELSE {TRUE},
     upgrade \in IF route = "live" THEN {"good", "none", "without key"} ELSE {"good"},
     outcome \in Outcomes(route)}

\* A person who manages the group is an owner of the workspace.
Senders(content) ==
  {[content EXCEPT !.server = server, !.host = host, !.origin = origin, !.token = token,
                   !.role = person[1], !.manages = person[2]] :
     server \in {"plain", "public", "desktop"}, host \in {"loopback", "public", "foreign"},
     origin \in {"loopback", "public", "desktop", "foreign"}, token \in BOOLEAN,
     person \in {<<"nobody", FALSE>>, <<"viewer", FALSE>>, <<"editor", FALSE>>, <<"owner", TRUE>>}}

-----------------------------------------------------------------------------
(* Properties.                                                             *)

Sent(r) == r.body = "good" /\ r.space = "local" /\ r.outcome = "done"

\* Nothing is changed, or captured, at the local server but from its own page or
\* the desktop application's.
LocalChange(r) ==
  LocalAnswer(r).done <=>
    /\ TrustedHost(r) /\ TrustedOrigin(r) /\ (r.server = "desktop" => r.token)
    /\ Sent(r) \/ (r.route = "replay" /\ r.outcome = "done")
    /\ r.upgrade = "good"

\* And at the family server but by those who may write, for somebody the
\* workspace knows; to everybody else it shows no recording.
FamilyChange(r) ==
  FamilyAnswer(r).done <=>
    /\ r.host # "foreign" /\ r.origin = "public" /\ r.role \in {"editor", "owner"}
    /\ Sent(r) /\ r.performer # "unknown" /\ r.upgrade = "good"
    /\ r.route \in Jobs => r.scores

\* What an answer of the family server shows of an artifact.
Shows(r) == FamilyAnswer(r).done /\ PublicItem(r)

FamilyPrivacy(r) ==
  /\ FamilyAnswer(r).done => r.role # "nobody" /\ r.space = "local"
  /\ r.kind = "score" /\ Shows(r) => r.scores

\* An editor gets from the family server what the local page gets, with the same
\* answer, and the desktop page from the local one.
SameAnswer(r) ==
  r.origin = "public" /\ r.host # "foreign" /\ r.role \in {"editor", "owner"} /\ r.scores
    /\ r.performer # "unknown" /\ r.body = "good" =>
      LET local   == LocalAnswer([r EXCEPT !.server = "plain", !.host = "loopback", !.origin = "loopback"])
          family  == FamilyAnswer(r)
          desktop == LocalAnswer([r EXCEPT !.server = "desktop", !.host = "loopback", !.origin = "desktop",
                                           !.token = TRUE])
      IN  /\ local = desktop
          /\ local.done = family.done
          /\ local.done \/ (r.outcome \in {"missing", "gone"} /\ r.space = "local")
               => local.status = family.status

\* The browser lets the desktop page send what it sends.
MaySend(r) ==
  Preflight([r EXCEPT !.server = "desktop", !.host = "loopback", !.origin = "desktop"],
            Method(r.route), PageHeaders(r.route)).done

AnswersAgree(r) ==
  LET common == Shared \cup Reads \cup Writes \cup {"profiles", "job", "live"}
  IN  /\ r.route \in Writes \cup {"live"} => LocalChange(r) /\ FamilyChange(r)
      /\ r.route = "profile" /\ FamilyAnswer(r).done =>
           r.origin = "public" /\ r.manages /\ r.body = "good"
      /\ r.route \in Reads \cup {"job", "profiles"} => FamilyPrivacy(r)
      /\ r.route \in common => SameAnswer(r) /\ MaySend(r)
      /\ Method(r.route) = "GET" /\ LocalHead(r).done => LocalGet(r) = LocalHead(r)
================================================================================
