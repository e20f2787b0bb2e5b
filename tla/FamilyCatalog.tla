----------------------------- MODULE FamilyCatalog -----------------------------
(***************************************************************************)
(* The family's catalog in SQLite: how a process that starts opens it,     *)
(* creates or migrates its tables and ensures the local workspace, and how *)
(* accounts and profiles are added to it (persistence/,                    *)
(* adapters/sqlite_identity.py).  The server and an operator's commands    *)
(* are processes of their own, and each opens the catalog when it starts.  *)
(*                                                                         *)
(* The Python driver opens a transaction at the first INSERT, UPDATE or    *)
(* DELETE.  A CREATE TABLE before it is committed at once, whatever        *)
(* "with engine.begin()" says, so each of them is a step; what follows the *)
(* first INSERT is one.  Indexes, names and times are left out, and rows   *)
(* of memberships are kept in the order of their created_at.               *)
(***************************************************************************)
EXTENDS Naturals, Sequences, FiniteSets, SequencesExt, FiniteSetsExt

CONSTANTS
    Family,        \* people who may have an account
    Processes,     \* the server and the operator's commands
    MaxProfiles,   \* bound: profiles of people without an account
    MaxCrashes     \* bound: processes that are killed

\* NULL, or no row.
Null == "null"

ASSUME FamilyAssumption ==
    IsFiniteSet(Family) /\ Null \notin Family /\ MaxProfiles \in Nat /\ MaxCrashes \in Nat

VARIABLES
    revision,      \* the row of alembic_version: Null, "0001" or "0002"
    tables,        \* the tables there are
    joined,        \* memberships of the local workspace: [user, role] each
    disabled,      \* users.disabled
    groupRole,     \* group_memberships of the home group
    controls,      \* profile_controllers: <<user, profile>>
    affiliated,    \* profiles, each with its row in group_profiles
    group,         \* groups.created_by_user_id, Null without the row
    space,         \* the local row of workspaces: [there, home, creator]
    opener,        \* each process: [pc, todo, kept]
    crashes

familyRows == <<joined, disabled, groupRole, controls, affiliated, group, space>>
familyVars == <<revision, tables, familyRows, opener, crashes>>

Roles == {"owner", "editor", "viewer"}
Members(memberships) == {row.user : row \in ToSet(memberships)}
RoleOf(u, memberships) ==
    LET own == {row \in ToSet(memberships) : row.user = u}
    IN  IF own = {} THEN Null ELSE (CHOOSE row \in own : TRUE).role

\* The profile of an account, and those of people without one.
SelfProfile(u) == <<"self", u>>
Managed(n) == <<"managed", n>>

\* What the two migrations create before their first row is written.
CatalogTables == <<"users", "workspaces", "memberships", "web_sessions">>
FamilyTables == <<"groups", "group_memberships", "profiles", "profile_controllers", "group_profiles",
                  "_alembic_tmp_workspaces">>

Down == [pc |-> "down", todo |-> << >>, kept |-> << >>]
GoesOn(p, with) == opener' = [opener EXCEPT ![p] = with]

\* A new catalog, or one that a release before the family profiles has left:
\* its accounts, of which any may be disabled, all joined the local workspace.
FamilyInit ==
    /\ groupRole = [u \in Family |-> Null] /\ controls = {} /\ affiliated = {} /\ group = Null
    /\ opener = [p \in Processes |-> Down] /\ crashes = 0
    /\ \/ /\ revision = Null /\ tables = {} /\ joined = << >> /\ disabled = {}
          /\ space = [there |-> FALSE, home |-> Null, creator |-> Null]
       \/ /\ revision = "0001" /\ tables = ToSet(CatalogTables)
          /\ \E people \in SUBSET Family : \E order \in SetToSeqs(people), has \in [people -> Roles] :
                 joined = [i \in DOMAIN order |-> [user |-> order[i], role |-> has[order[i]]]]
          /\ disabled \in SUBSET Members(joined)
          /\ space = [there |-> TRUE, home |-> Null, creator |-> Null]

-----------------------------------------------------------------------------
(* A process opens the catalog.                                            *)

\* upgrade_catalog reads the revision, and the second migration the
\* memberships, before anything is written.
OpenCatalog(p) ==
    /\ opener[p].pc = "down"
    /\ GoesOn(p, [pc |-> CASE revision = Null -> "create" [] revision = "0001" -> "extend"
                           [] revision = "0002" -> "workspace",
                  todo |-> CASE revision = Null -> CatalogTables [] revision = "0001" -> FamilyTables
                             [] revision = "0002" -> << >>,
                  kept |-> joined])
    /\ UNCHANGED <<revision, tables, familyRows, crashes>>

\* CREATE TABLE fails if the table exists, and with it the process's start.
CreateTable(p) ==
    LET me == opener[p] IN
    /\ me.pc \in {"create", "extend"} /\ me.todo # << >>
    /\ \/ /\ Head(me.todo) \notin tables
          /\ tables' = tables \cup {Head(me.todo)}
          /\ GoesOn(p, [me EXCEPT !.todo = Tail(@)])
       \/ /\ Head(me.todo) \in tables
          /\ GoesOn(p, [me EXCEPT !.pc = "refused"])
          /\ UNCHANGED tables
    /\ UNCHANGED <<revision, familyRows, crashes>>

\* Mutant: nothing puts back the memberships that were dropped with their workspace.
RestoredNothing(kept) == << >>

\* workspaces is replaced by a table with more columns.  Its rows are copied,
\* but dropping the old table deletes the memberships of its rows, and those
\* that had been read are inserted again.
Restored(kept) == kept

FirstOwner(memberships, among) ==
    LET owners == {i \in DOMAIN memberships :
                     memberships[i].role = "owner" /\ memberships[i].user \in among}
    IN  IF owners = {} THEN Null ELSE memberships[Min(owners)].user

\* Every account with a membership gets its place in the group and its
\* profile: the group's creator is an enabled owner, the workspace's creator
\* and home may be a disabled one.
SeedFamily(memberships) ==
    LET people == Members(memberships)
        first == FirstOwner(memberships, Family)
    IN  /\ group' = FirstOwner(memberships, Family \ disabled)
        /\ groupRole' = [u \in Family |->
               IF u \notin people THEN Null
               ELSE IF RoleOf(u, memberships) = "owner" THEN "owner" ELSE "member"]
        /\ affiliated' = {SelfProfile(u) : u \in people}
        /\ controls' = {<<u, SelfProfile(u)>> : u \in people}
        /\ space' = IF ~ space.there THEN space
                    ELSE [space EXCEPT !.creator = first,
                                       !.home = IF first = Null THEN Null ELSE SelfProfile(first)]

\* The rest of the migration, from its first INSERT to the commit; on a new
\* catalog that is all of the second one.
CommitUpgrade(p) ==
    LET me == opener[p]
        memberships == Restored(IF me.pc = "create" THEN << >> ELSE me.kept)
    IN  /\ me.pc \in {"create", "extend"} /\ me.todo = << >>
        /\ revision' = "0002"
        /\ tables' = (tables \cup ToSet(FamilyTables) \cup {"workspace_group_grants"})
                     \ {"_alembic_tmp_workspaces"}
        /\ joined' = memberships
        /\ SeedFamily(memberships)
        /\ GoesOn(p, [me EXCEPT !.pc = "workspace", !.kept = << >>])
        /\ UNCHANGED <<disabled, crashes>>

\* _ensure_local_workspace reads its row, and inserts one if there was none:
\* of two processes that saw none, the second is refused by the primary key.
ReadWorkspace(p) ==
    /\ opener[p].pc = "workspace"
    /\ GoesOn(p, [opener[p] EXCEPT !.pc = IF space.there THEN "running" ELSE "insert", !.kept = << >>])
    /\ UNCHANGED <<revision, tables, familyRows, crashes>>

InsertWorkspace(p) ==
    /\ opener[p].pc = "insert"
    /\ space' = [space EXCEPT !.there = TRUE]
    /\ GoesOn(p, [opener[p] EXCEPT !.pc = IF space.there THEN "refused" ELSE "running"])
    /\ UNCHANGED <<revision, tables, joined, disabled, groupRole, controls, affiliated, group, crashes>>

\* A refused process ends, a running one may be stopped; any may be killed.
CloseCatalog(p) ==
    /\ opener[p].pc \in {"refused", "running"}
    /\ GoesOn(p, Down)
    /\ UNCHANGED <<revision, tables, familyRows, crashes>>

KillOpener(p) ==
    /\ opener[p].pc \in {"create", "extend", "workspace", "insert"} /\ crashes < MaxCrashes
    /\ crashes' = crashes + 1
    /\ GoesOn(p, Down)
    /\ UNCHANGED <<revision, tables, familyRows>>

-----------------------------------------------------------------------------
(* Accounts and profiles, each added by one transaction.                   *)

\* Mutant: whoever joins gets the home, as the group gets its creator.
HomeForAnybody(u, r) ==
    IF space.home = Null THEN [space EXCEPT !.home = SelfProfile(u)] ELSE space

\* The first owner's profile becomes the workspace's home.
HomeFor(u, r) ==
    IF space.home = Null /\ r = "owner" THEN [space EXCEPT !.home = SelfProfile(u)] ELSE space

\* create_user.  The name is the user's own: a second row is refused.
CreateUser(p, u, r) ==
    /\ opener[p].pc = "running" /\ u \notin Members(joined)
    /\ joined' = Append(joined, [user |-> u, role |-> r])
    /\ groupRole' = [groupRole EXCEPT ![u] = IF r = "owner" THEN "owner" ELSE "member"]
    /\ affiliated' = affiliated \cup {SelfProfile(u)}
    /\ controls' = controls \cup {<<u, SelfProfile(u)>>}
    /\ group' = IF group = Null THEN u ELSE group
    /\ space' = HomeFor(u, r)
    /\ UNCHANGED <<revision, tables, disabled, opener, crashes>>

\* create_managed_profile: whoever manages the group adds a child or a guest.
CreateManagedProfile(p, u) ==
    /\ opener[p].pc = "running" /\ groupRole[u] = "owner"
    /\ \E n \in 1..MaxProfiles :
        /\ n = Cardinality(affiliated \ {SelfProfile(v) : v \in Family}) + 1
        /\ affiliated' = affiliated \cup {Managed(n)}
        /\ controls' = controls \cup {<<u, Managed(n)>>}
    /\ UNCHANGED <<revision, tables, joined, disabled, groupRole, group, space, opener, crashes>>

FamilyNext ==
    \/ \E p \in Processes :
        \/ OpenCatalog(p) \/ CreateTable(p) \/ CommitUpgrade(p) \/ ReadWorkspace(p) \/ InsertWorkspace(p)
        \/ CloseCatalog(p) \/ KillOpener(p)
        \/ \E u \in Family : CreateManagedProfile(p, u) \/ \E r \in Roles : CreateUser(p, u, r)

FamilySpec == FamilyInit /\ [][FamilyNext]_familyVars

-----------------------------------------------------------------------------
(* Properties.                                                             *)

\* A migration, at whatever step it is killed or meets another process, keeps
\* everybody's role in the workspace (0002, upgrade), and nothing else changes
\* a role that was given.
AccessSurvives ==
    [][\A u \in Members(joined) : RoleOf(u, joined') = RoleOf(u, joined)]_familyVars

\* However the catalog came to its revision, by migration or account by
\* account, the family is whole: whoever has access to the workspace has a
\* place in the group that fits the role and a profile of their own, which
\* they alone control; the workspace's home is an owner's profile, and it has
\* one as soon as there is an owner.
FamilyIsWhole ==
    revision = "0002" =>
        /\ \A u \in Family :
            /\ groupRole[u] = CASE RoleOf(u, joined) = Null -> Null
                                [] RoleOf(u, joined) = "owner" -> "owner"
                                [] OTHER -> "member"
            /\ {v \in Family : <<v, SelfProfile(u)>> \in controls} = {u} \cap Members(joined)
            /\ SelfProfile(u) \in affiliated <=> u \in Members(joined)
        /\ LET owners == {u \in Family : RoleOf(u, joined) = "owner"}
           IN  IF owners = {} THEN space.home = Null ELSE \E u \in owners : space.home = SelfProfile(u)
        /\ \A profile \in affiliated : \E u \in Members(joined) : <<u, profile>> \in controls
        /\ Len(joined) = Cardinality(Members(joined))

\* "Make repeated catalog initialization and migration safe": a process that
\* starts while no other one does is not refused.
StartsSucceed ==
    \A p \in Processes :
        opener[p].pc = "refused" => \E q \in Processes \ {p} : opener[q].pc # "down"

================================================================================
