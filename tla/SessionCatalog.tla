----------------------------- MODULE SessionCatalog -----------------------------
(***************************************************************************)
(* The sessions of a workspace as clients see them: LocalSessionStore      *)
(* (adapters/local_sessions.py) lists them page by page, names them, says  *)
(* who played, and moves them to the trash, while captures start.  Three   *)
(* writers share application.json of a session: the start of its capture,  *)
(* which writes it and then adds who recorded, and the two annotations,    *)
(* which alone hold _annotation_lock.                                      *)
(***************************************************************************)
EXTENDS Naturals, FiniteSets, Sequences, SequencesExt, FiniteSetsExt

CONSTANTS
    Clients,       \* requests that annotate or delete
    Values,        \* names and performers a client gives
    PageSize,      \* limit of a listing
    Recorded,       \* sessions recorded before this process
    MaxSessions,   \* bound: those and the captures started
    MaxRequests    \* bound: annotations and deletions asked

None == "none"

ASSUME CatalogAssumption ==
    /\ PageSize \in Nat \ {0} /\ MaxSessions \in Nat /\ MaxRequests \in Nat
    /\ Recorded \in 0..MaxSessions
    /\ None \notin Values

VARIABLES
    created,       \* sessions so far; a session is its number, later ones start later
    directories,   \* sessions whose directory is in the workspace
    manifests,     \* those with a session.json
    document,      \* application.json of each, Blank where there is none
    active,        \* active_session_id, 0 if none
    start,         \* the thread that starts a capture
    client,        \* the threads that answer annotations and deletions
    asked,         \* requests so far
    listing,       \* a client that pages through the sessions
    expected,      \* history: what the answers said is in each application.json
    early          \* history: sessions annotated before their start had ended

startVars == <<created, active, start>>
catalogVars == <<startVars, directories, manifests, document, client, asked, listing, expected, early>>

SessionIds == 1..MaxSessions

\* A document with nothing in it, which is also what a missing one is read as.
Blank == [storage |-> FALSE, creator |-> FALSE, name |-> None, performer |-> None]

Resting == [pc |-> "idle", op |-> "none", session |-> 0, value |-> None, read |-> Blank]

CatalogInit ==
    /\ created = Recorded /\ directories = 1..Recorded /\ manifests = 1..Recorded
    /\ document = [s \in SessionIds |->
           IF s <= Recorded THEN [Blank EXCEPT !.storage = TRUE, !.creator = TRUE] ELSE Blank]
    /\ active = 0 /\ start = [pc |-> "idle", read |-> Blank]
    /\ client = [c \in Clients |-> Resting] /\ asked = 0
    /\ listing = [pc |-> "idle", cursor |-> 0, items |-> << >>, first |-> {}]
    /\ expected = document /\ early = {}

-----------------------------------------------------------------------------
(* The start of a capture.                                                 *)

StartGoes(pc) == start' = [start EXCEPT !.pc = pc]

\* claim_session: the session is the active one from here to its end.
Claim ==
    /\ start.pc = "idle" /\ active = 0 /\ created < MaxSessions
    /\ created' = created + 1 /\ active' = created + 1
    /\ StartGoes("create")
    /\ UNCHANGED <<directories, manifests, document, client, asked, listing, expected, early>>

\* CorrectedSession writes session.json: from now on the session is listed.
CreateSession ==
    /\ start.pc = "create"
    /\ directories' = directories \cup {active} /\ manifests' = manifests \cup {active}
    /\ StartGoes("storage")
    /\ UNCHANGED <<created, active, document, client, asked, listing, expected, early>>

\* initialize_session writes a new document, whatever is there; a desktop, where
\* nobody logs in, has nothing to add to it.
InitializeStorage ==
    /\ start.pc = "storage"
    /\ document' = [document EXCEPT ![active] = [Blank EXCEPT !.storage = TRUE]]
    /\ expected' = [expected EXCEPT ![active].storage = TRUE]
    /\ StartGoes("read") \/ StartGoes("running")
    /\ UNCHANGED <<created, active, directories, manifests, client, asked, listing, early>>

ReadProvenance ==
    /\ start.pc = "read"
    /\ start' = [pc |-> "write", read |-> document[active]]
    /\ UNCHANGED <<created, active, directories, manifests, document, client, asked, listing, expected, early>>

\* Who recorded, and perhaps who plays, are added to what was read.
WriteProvenance ==
    /\ start.pc = "write"
    /\ \E performer \in Values \cup {None} :
         LET Named(doc) == [doc EXCEPT !.creator = TRUE,
                                       !.performer = IF performer = None THEN @ ELSE performer]
         IN  /\ document' = [document EXCEPT ![active] = Named(start.read)]
             /\ expected' = [expected EXCEPT ![active] = Named(@)]
    /\ StartGoes("running")
    /\ UNCHANGED <<created, active, directories, manifests, client, asked, listing, early>>

\* The capture ends, or its start raises.
EndCapture ==
    /\ active # 0
    /\ active' = 0 /\ start' = [pc |-> "idle", read |-> Blank]
    /\ UNCHANGED <<created, directories, manifests, document, client, asked, listing, expected, early>>

Starting(s) == s = active /\ start.pc # "running"

-----------------------------------------------------------------------------
(* Annotations and deletions.                                              *)

\* resolve finds the session; a deletion also looks at the active session.
Ask(c) ==
    /\ client[c].pc = "idle" /\ asked < MaxRequests
    /\ \E s \in manifests :
         /\ \/ \E op \in {"name", "performer"}, value \in Values \cup {None} :
                 /\ op = "name" => value # None
                 /\ client' = [client EXCEPT ![c] = [pc |-> "resolved", op |-> op, session |-> s,
                                                     value |-> value, read |-> Blank]]
                 /\ early' = IF Starting(s) THEN early \cup {s} ELSE early
            \/ /\ s # active
               /\ client' = [client EXCEPT ![c] = [Resting EXCEPT !.pc = "trashing", !.op = "delete",
                                                                  !.session = s]]
               /\ UNCHANGED early
    /\ asked' = asked + 1
    /\ UNCHANGED <<startVars, directories, manifests, document, listing, expected>>

\* Mutant: the annotations do not exclude each other.
LockFreeAlways == TRUE

\* _annotation_lock: one annotation at a time is between its read and its write.
LockFree == \A c \in Clients : client[c].pc # "locked"

ReadDocument(c) ==
    /\ client[c].pc = "resolved" /\ LockFree
    /\ client' = [client EXCEPT ![c].pc = "locked", ![c].read = document[client[c].session]]
    /\ UNCHANGED <<startVars, directories, manifests, document, asked, listing, expected, early>>

Annotated(doc, op, value) ==
    IF op = "name" THEN [doc EXCEPT !.name = value] ELSE [doc EXCEPT !.performer = value]

\* write_json makes the directory where a deletion took it away.
WriteDocument(c) ==
    LET s == client[c].session
        Changed(doc) == Annotated(doc, client[c].op, client[c].value)
    IN  /\ client[c].pc = "locked"
        /\ \/ /\ document' = [document EXCEPT ![s] = Changed(client[c].read)]
              /\ expected' = [expected EXCEPT ![s] = Changed(@)]
              /\ directories' = directories \cup {s}
           \/ UNCHANGED <<document, expected, directories>>      \* the write raises
        /\ client' = [client EXCEPT ![c] = Resting]
        /\ UNCHANGED <<startVars, manifests, asked, listing, early>>

\* directory.replace(target): what is in the directory goes with it.
TrashSession(c) ==
    LET s == client[c].session
    IN  /\ client[c].pc = "trashing"
        /\ directories' = directories \ {s} /\ manifests' = manifests \ {s}
        /\ document' = [document EXCEPT ![s] = Blank]
        /\ expected' = [expected EXCEPT ![s] = Blank] /\ early' = early \ {s}
        /\ client' = [client EXCEPT ![c] = Resting]
        /\ UNCHANGED <<startVars, asked, listing>>

-----------------------------------------------------------------------------
(* Listing.                                                                *)

\* Mutant: the cursor is a number of sessions, not a session.
RestByCount(rows, cursor) == SubSeq(rows, Len(listing.items) + 1, Len(rows))

\* What comes after the session that ended the page before.
Rest(rows, cursor) ==
    IF cursor = 0 THEN rows
    ELSE SubSeq(rows, (CHOOSE i \in DOMAIN rows : rows[i] = cursor) + 1, Len(rows))

LatestFirst(rows) == \A i, j \in DOMAIN rows : i < j => rows[i] > rows[j]

\* list_sessions.  A cursor that is gone is refused.
ListPage ==
    \E rows \in SetToSeqs(manifests) :
    LET rest == Rest(rows, listing.cursor)
        page == SubSeq(rest, 1, IF Len(rest) < PageSize THEN Len(rest) ELSE PageSize)
    IN  /\ listing.pc \in {"idle", "paging"}
        /\ LatestFirst(rows)
        /\ IF listing.cursor # 0 /\ listing.cursor \notin manifests
           THEN listing' = [listing EXCEPT !.pc = "refused"]
           ELSE listing' =
                  [pc     |-> IF Len(page) < Len(rest) THEN "paging" ELSE "ended",
                   cursor |-> IF page = << >> THEN 0 ELSE Last(page),
                   items  |-> listing.items \o page,
                   first  |-> IF listing.pc = "idle" THEN manifests ELSE listing.first]
        /\ UNCHANGED <<startVars, directories, manifests, document, client, asked, expected, early>>

CatalogNext ==
    \/ Claim \/ CreateSession \/ InitializeStorage \/ ReadProvenance \/ WriteProvenance \/ EndCapture
    \/ ListPage
    \/ \E c \in Clients : Ask(c) \/ ReadDocument(c) \/ WriteDocument(c) \/ TrashSession(c)

CatalogSpec == CatalogInit /\ [][CatalogNext]_catalogVars

-----------------------------------------------------------------------------
(* Properties.                                                             *)

\* What clients were told is stored of a session stays stored: its storage
\* policy, who recorded it, its name and who played, whatever annotations, starts
\* and deletions overlap.  It is only promised of sessions that nobody annotated
\* before their start had ended: the start takes no lock, and what it read may be
\* older than such an annotation, or the annotation older than what it wrote
\* (local_sessions.py:512 and :552, application/capture.py:481-514).
NamesSurvive ==
    \A s \in manifests \ early : document[s] = expected[s]

\* A client that pages to the end has every session that was there when it began
\* and still is, once and in order, although captures start and sessions are
\* deleted between its pages (local_sessions.py:595-605).
ListingsAreWhole ==
    listing.pc = "ended" =>
        /\ listing.first \cap manifests \subseteq ToSet(listing.items)
        /\ LatestFirst(listing.items)

================================================================================
