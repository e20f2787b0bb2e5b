------------------------------ MODULE FamilyAccess ------------------------------
(***************************************************************************)
(* The family server: accounts and login sessions in SQLite, requests that *)
(* log in and authenticate, microphone WebSockets that authenticate again  *)
(* while they stream, and an operator's commands in another process.       *)
(*                                                                         *)
(* The Python driver opens a transaction at the first statement that       *)
(* writes, so a SELECT is a step of its own: what a transaction read may   *)
(* be old when it writes.  A write with its commit is one step.            *)
(*                                                                         *)
(* The clock counts units longer than any database call (a call ends in    *)
(* the unit it began in): a session is touched after TouchInterval, and a  *)
(* WebSocket authenticates again after Reauthenticate units.               *)
(***************************************************************************)
EXTENDS LoginLimiter

CONSTANTS
    Users,          \* a subset of Keys: the others name no account
    Requests,       \* server threads that answer HTTP requests
    Connections,    \* microphone WebSockets
    Operators,      \* processes that run an operator's command
    Role,           \* the role each account is created with
    Hashes,         \* whether a password's hash may be outdated
    Nobody, Nothing,
    MaxTokens,      \* bound: login sessions issued
    IdleLifetime, AbsoluteLifetime, TouchInterval, OperatorLifetime,
    Reauthenticate,
    MaxTime,        \* bound: the clock
    MaxPasswords    \* bound: passwords of an account

Tokens == 1..MaxTokens
Threads == Requests \cup Connections \cup Operators

ASSUME FamilyConstants ==
    /\ Users \subseteq Keys /\ Nobody \notin Keys
    /\ IsFiniteSet(Requests) /\ IsFiniteSet(Connections) /\ Hashes \subseteq BOOLEAN
    /\ Role \in [Users -> {"owner", "editor", "viewer"}]
    /\ {TouchInterval, IdleLifetime, AbsoluteLifetime, OperatorLifetime} \subseteq Nat
    /\ {MaxTokens, MaxTime, MaxPasswords} \subseteq Nat /\ Reauthenticate \in Nat \ {0}
    /\ 0 < TouchInterval /\ TouchInterval < IdleLifetime
    /\ IdleLifetime <= AbsoluteLifetime
    /\ Requests \cap Connections = {} /\ Operators \cap (Requests \cup Connections) = {}

VARIABLES
    server,     \* "up" or "down"
    accounts,   \* rows of users; Nothing before they are created
    web,        \* rows of web_sessions by token; Nothing if there is none
    issued,     \* how many tokens were given out
    pc,         \* where each thread is
    call,       \* its parameters and what it read: [user, typed, token, row]
    link,       \* state of each WebSocket
    confirmed,  \* last_authenticated of it
    held,       \* capture_session of it, 0 before Start
    capture,    \* the capture that is active: [id, phase]
    lastUse,    \* history: when a token was last accepted
    ended,      \* history: when its row was deleted
    sounding,   \* WebSockets a block was accepted from
    disabledAt  \* history: when each account was last disabled

catalog == <<accounts, web, issued, ended, disabledAt>>
sockets == <<link, confirmed, held, capture, sounding>>
threads == <<pc, call>>
vars == <<now, attempts, server, catalog, threads, sockets, lastUse>>

NoCall == [user |-> Nobody, typed |-> 0, token |-> Nothing, row |-> Nothing]
NoCapture == [id |-> 0, phase |-> "none"]

Init ==
    /\ now = 0 /\ attempts = [k \in {} |-> Nothing]
    /\ server = "down"
    /\ accounts = [u \in Users |-> Nothing]
    /\ web = [t \in Tokens |-> Nothing] /\ issued = 0
    /\ pc = [t \in Threads |-> "idle"] /\ call = [t \in Threads |-> NoCall]
    /\ link = [c \in Connections |-> "closed"]
    /\ confirmed = [c \in Connections |-> 0] /\ held = [c \in Connections |-> 0]
    /\ capture = NoCapture
    /\ lastUse = [t \in Tokens |-> 0] /\ ended = [t \in Tokens |-> MaxTime]
    /\ sounding = {}
    /\ disabledAt = [u \in Users |-> 0]

\* Accounts and sessions as rows.
Exists(u) == u \in Users /\ accounts[u] # Nothing
Enabled(u) == Exists(u) /\ ~accounts[u].disabled
EnabledOwners == {u \in Users : Enabled(u) /\ Role[u] = "owner"}
MayWrite(u) == Role[u] # "viewer"
Expired(row) == row.idle <= now \/ row.absolute <= now
Earlier(a, b) == IF a < b THEN a ELSE b

DeleteRows(T) ==
    /\ web' = [t \in Tokens |-> IF t \in T THEN Nothing ELSE web[t]]
    /\ ended' = [t \in Tokens |-> IF t \in T /\ web[t] # Nothing THEN now ELSE ended[t]]

SessionsOf(u) == {t \in Tokens : web[t] # Nothing /\ web[t].user = u}

\* replace_password
ReplacePassword(u, password) ==
    /\ accounts' = [accounts EXCEPT ![u].password = password, ![u].outdated = FALSE]
    /\ DeleteRows(SessionsOf(u))
    /\ UNCHANGED <<issued, disabledAt>>

Goto(t, place, with) ==
    /\ pc' = [pc EXCEPT ![t] = place]
    /\ call' = [call EXCEPT ![t] = with]

Return(t) == Goto(t, "idle", NoCall)
--------------------------------------------------------------------------------
\* The server process.  The operating system may end it at any time.
StartServer ==
    /\ server = "down" /\ EnabledOwners # {}
    /\ server' = "up"
    /\ DeleteRows({t \in Tokens : web[t] # Nothing /\ Expired(web[t])})
    /\ UNCHANGED <<now, attempts, accounts, issued, disabledAt, threads, sockets, lastUse>>

StopServer ==
    /\ server = "up" /\ server' = "down"
    /\ attempts' = [k \in {} |-> Nothing]
    /\ pc' = [t \in Threads |-> IF t \in Operators THEN pc[t] ELSE "idle"]
    /\ call' = [t \in Threads |-> IF t \in Operators THEN call[t] ELSE NoCall]
    /\ link' = [c \in Connections |-> "closed"] /\ held' = [c \in Connections |-> 0]
    /\ sounding' = {} /\ capture' = NoCapture
    /\ confirmed' = [c \in Connections |-> 0]
    /\ UNCHANGED <<now, catalog, lastUse>>

Tick ==
    /\ now < MaxTime /\ \A t \in Threads : pc[t] = "idle"
    /\ now' = now + 1
    /\ UNCHANGED <<attempts, server, catalog, threads, sockets, lastUse>>
--------------------------------------------------------------------------------
\* login
Login(t, name, typed) ==
    /\ server = "up" /\ pc[t] = "idle" /\ t \in Requests
    /\ \E allowed \in BOOLEAN :
        /\ CheckAttempt(name, allowed)
        /\ IF allowed
           THEN Goto(t, "credentials", [NoCall EXCEPT !.user = name, !.typed = typed])
           ELSE Return(t)
    /\ UNCHANGED <<now, server, catalog, sockets, lastUse>>

\* identity.login up to the password that verify_and_update accepts: it asks
\* for a new hash when the stored one was made with other parameters.
ReadCredentials(t) ==
    /\ pc[t] = "credentials"
    /\ LET u == call[t].user IN
        Goto(t, IF ~Enabled(u) \/ call[t].typed # accounts[u].password THEN "failed"
                ELSE IF accounts[u].outdated THEN "rehash" ELSE "issue", call[t])
    /\ UNCHANGED <<now, attempts, server, catalog, sockets, lastUse>>

Rehash(t) ==
    /\ pc[t] = "rehash"
    /\ ReplacePassword(call[t].user, call[t].typed)
    /\ Goto(t, "issue", call[t])
    /\ UNCHANGED <<now, attempts, server, sockets, lastUse>>

\* create_web_session: the account, then the row.
ReadAccount(t) ==
    /\ pc[t] = "issue"
    /\ Goto(t, IF Enabled(call[t].user) THEN "insert"
               ELSE IF t \in Operators THEN "idle" ELSE "failed",
            IF t \in Operators /\ ~Enabled(call[t].user) THEN NoCall ELSE call[t])
    /\ UNCHANGED <<now, attempts, server, catalog, sockets, lastUse>>

InsertSession(t) ==
    /\ pc[t] = "insert" /\ issued < MaxTokens
    /\ LET token == issued + 1
       IN
        /\ issued' = token
        /\ web' = [web EXCEPT ![token] =
            [user |-> call[t].user, seen |-> now,
             idle |-> now + (IF t \in Operators THEN OperatorLifetime ELSE IdleLifetime),
             absolute |-> now + (IF t \in Operators THEN OperatorLifetime ELSE AbsoluteLifetime)]]
        /\ lastUse' = [lastUse EXCEPT ![token] = now]
    /\ IF t \in Operators THEN Return(t) ELSE Goto(t, "succeeded", call[t])
    /\ UNCHANGED <<now, attempts, server, accounts, ended, disabledAt, sockets>>

LoginSucceeded(t) ==
    /\ pc[t] = "succeeded"
    /\ ForgetFailures(call[t].user)
    /\ Return(t)
    /\ UNCHANGED <<now, server, catalog, sockets, lastUse>>

LoginFailed(t) ==
    /\ pc[t] = "failed"
    /\ CountFailure(call[t].user)
    /\ Return(t)
    /\ UNCHANGED <<now, server, catalog, sockets, lastUse>>
--------------------------------------------------------------------------------
\* resolve_web_session: the row, then the account and what becomes of the row.
\* An UPDATE of a row that another thread deleted raises; a DELETE does not.
Authenticate(t, token) ==
    IF web[token] = Nothing THEN Goto(t, "refused", call[t])
    ELSE Goto(t, "account", [call[t] EXCEPT !.token = token, !.row = web[token],
                                            !.user = web[token].user])

\* Mutant: touches one unit too late.
ReadUserLate(t) ==
    /\ pc[t] = "account"
    /\ LET row == call[t].row IN
        Goto(t, IF ~Enabled(row.user) \/ Expired(row) THEN "expire"
                ELSE IF now - row.seen > TouchInterval THEN "touch" ELSE "granted", call[t])
    /\ UNCHANGED <<now, attempts, server, catalog, sockets, lastUse>>

\* Mutant: relies on set_disabled having deleted the sessions.
ReadUserAnyAccount(t) ==
    /\ pc[t] = "account"
    /\ LET row == call[t].row IN
        Goto(t, IF Expired(row) THEN "expire"
                ELSE IF now - row.seen >= TouchInterval THEN "touch" ELSE "granted", call[t])
    /\ UNCHANGED <<now, attempts, server, catalog, sockets, lastUse>>

ReadUser(t) ==
    /\ pc[t] = "account"
    /\ LET row == call[t].row IN
        Goto(t, IF ~Enabled(row.user) \/ Expired(row) THEN "expire"
                ELSE IF now - row.seen >= TouchInterval THEN "touch" ELSE "granted", call[t])
    /\ UNCHANGED <<now, attempts, server, catalog, sockets, lastUse>>

ExpireSession(t) ==
    /\ pc[t] = "expire"
    /\ DeleteRows({call[t].token})
    /\ Goto(t, "refused", call[t])
    /\ UNCHANGED <<now, attempts, server, accounts, issued, disabledAt, sockets, lastUse>>

TouchSession(t) ==
    /\ pc[t] = "touch"
    /\ LET token == call[t].token IN
        \/ /\ web[token] = Nothing
           /\ Goto(t, "raised", call[t])
           /\ UNCHANGED web
        \/ /\ web[token] # Nothing
           /\ web' = [web EXCEPT
                ![token].seen = now,
                ![token].idle = Earlier(now + IdleLifetime, call[t].row.absolute)]
           /\ Goto(t, "granted", call[t])
    /\ UNCHANGED <<now, attempts, server, accounts, issued, ended, disabledAt, sockets, lastUse>>

\* An HTTP request authenticates and answers.
Request(t, token) ==
    /\ server = "up" /\ t \in Requests /\ pc[t] = "idle" /\ token <= issued
    /\ Authenticate(t, token)
    /\ UNCHANGED <<now, attempts, server, catalog, sockets, lastUse>>

AnswerRequest(t) ==
    /\ t \in Requests /\ pc[t] \in {"granted", "refused", "raised"}
    /\ lastUse' = [token \in Tokens |->
            IF pc[t] = "granted" /\ token = call[t].token THEN now ELSE lastUse[token]]
    /\ Return(t)
    /\ UNCHANGED <<now, attempts, server, catalog, sockets>>

Logout(t, token) ==
    /\ \/ server = "up" /\ t \in Requests
       \/ t \in Operators
    /\ pc[t] = "idle" /\ token <= issued
    /\ DeleteRows({token})
    /\ UNCHANGED <<now, attempts, server, accounts, issued, disabledAt, threads, sockets, lastUse>>
--------------------------------------------------------------------------------
\* /api/live.  The handler's calls block the event loop, so nothing another
\* WebSocket does comes between the steps of a message.
OtherSocketsWait(c) == \A d \in Connections \ {c} : pc[d] = "idle"

Connect(c, token) ==
    /\ server = "up" /\ link[c] = "closed" /\ pc[c] = "idle" /\ token <= issued
    /\ OtherSocketsWait(c)
    /\ Authenticate(c, token)
    /\ UNCHANGED <<now, attempts, server, catalog, sockets, lastUse>>

\* Mutant: authenticates again one unit too late.
ReceiveLate(c) ==
    /\ link[c] # "closed" /\ pc[c] = "idle" /\ OtherSocketsWait(c)
    /\ IF now - confirmed[c] > Reauthenticate
       THEN Authenticate(c, call[c].token)
       ELSE Goto(c, "message", call[c])
    /\ UNCHANGED <<now, attempts, server, catalog, sockets, lastUse>>

Receive(c) ==
    /\ link[c] # "closed" /\ pc[c] = "idle" /\ OtherSocketsWait(c)
    /\ IF now - confirmed[c] >= Reauthenticate
       THEN Authenticate(c, call[c].token)
       ELSE Goto(c, "message", call[c])
    /\ UNCHANGED <<now, attempts, server, catalog, sockets, lastUse>>

\* Authentication succeeded: require_write, and the message that was received.
Confirm(c) ==
    /\ c \in Connections /\ pc[c] = "granted"
    /\ lastUse' = [lastUse EXCEPT ![call[c].token] = now]
    /\ IF MayWrite(call[c].user)
       THEN /\ confirmed' = [confirmed EXCEPT ![c] = now]
            /\ link' = [link EXCEPT ![c] = "open"]
            /\ Goto(c, IF link[c] = "closed" THEN "idle" ELSE "message",
                    [NoCall EXCEPT !.user = call[c].user, !.token = call[c].token])
       ELSE /\ Return(c) /\ UNCHANGED <<link, confirmed>>
    /\ UNCHANGED <<now, attempts, server, catalog, held, capture, sounding>>

Close(c) ==
    /\ link' = [link EXCEPT ![c] = "closed"] /\ held' = [held EXCEPT ![c] = 0]
    /\ confirmed' = [confirmed EXCEPT ![c] = 0] /\ sounding' = sounding \ {c}
    /\ Return(c)

IsHeld(c) == held[c] # 0 /\ held[c] = capture.id /\ capture.phase # "settling"

\* The handler's except clause aborts the active capture, whoever started it;
\* finally aborts the one the handler holds.  An error that except does not
\* name (raised) reaches only finally.
Except(c) ==
    /\ Close(c) /\ capture' = NoCapture
    /\ UNCHANGED <<now, attempts, server, catalog, lastUse>>

\* Mutant: the handler ends without aborting its capture.
FinallyLeavesCapture(c) ==
    /\ Close(c)
    /\ UNCHANGED capture
    /\ UNCHANGED <<now, attempts, server, catalog, lastUse>>

Finally(c) ==
    /\ Close(c)
    /\ capture' = IF IsHeld(c) THEN NoCapture ELSE capture
    /\ UNCHANGED <<now, attempts, server, catalog, lastUse>>

Refused(c) ==
    /\ c \in Connections
    /\ \/ pc[c] = "refused" /\ link[c] = "closed" /\ Finally(c)
       \/ pc[c] = "refused" /\ link[c] = "open" /\ Except(c)
       \/ pc[c] = "raised" /\ Finally(c)

Disconnect(c) == link[c] = "open" /\ pc[c] = "idle" /\ OtherSocketsWait(c) /\ Finally(c)

Start(c) ==
    /\ c \in Connections /\ pc[c] = "message"
    /\ \/ /\ held[c] = 0 /\ capture = NoCapture
          /\ \E id \in 1..Cardinality(Connections) + 1 :
                /\ \A other \in 1..id - 1 : \E d \in Connections : held[d] = other
                /\ \A d \in Connections : held[d] # id
                /\ held' = [held EXCEPT ![c] = id]
                /\ capture' = [id |-> id, phase |-> "empty"]
          /\ Goto(c, "idle", call[c])
          /\ UNCHANGED <<now, attempts, server, catalog, link, confirmed, sounding, lastUse>>
       \/ (held[c] # 0 \/ capture # NoCapture) /\ Except(c)

\* accept_block goes to the active session; its sequence number must be the
\* next one there, so a first block also fits a capture that has none yet.
AcceptBlock(c) ==
    /\ c \in Connections /\ pc[c] = "message"
    /\ LET fits == /\ held[c] # 0
                   /\ \/ IsHeld(c)
                      \/ capture.phase = "empty" /\ c \notin sounding
       IN
        \/ /\ fits
           /\ held' = [held EXCEPT ![c] = capture.id]
           /\ capture' = [capture EXCEPT !.phase = "sounding"]
           /\ sounding' = sounding \cup {c}
           /\ Goto(c, "idle", call[c])
           /\ UNCHANGED <<now, attempts, server, catalog, link, confirmed, lastUse>>
        \/ ~fits /\ Except(c)

Stop(c) ==
    /\ c \in Connections /\ pc[c] = "message"
    /\ \/ /\ IsHeld(c)
          /\ capture' = [capture EXCEPT !.phase = "settling"]
          /\ Close(c)
          /\ UNCHANGED <<now, attempts, server, catalog, lastUse>>
       \/ Except(c)

Settle ==
    /\ capture.phase = "settling" /\ capture' = NoCapture
    /\ UNCHANGED <<now, attempts, server, catalog, threads, link, confirmed, held, sounding, lastUse>>
--------------------------------------------------------------------------------
\* An operator's commands.
CreateUser(o, u, outdated) ==
    /\ pc[o] = "idle" /\ ~Exists(u)
    /\ accounts' = [accounts EXCEPT ![u] =
            [disabled |-> FALSE, password |-> 0, outdated |-> outdated]]
    /\ UNCHANGED <<now, attempts, server, web, issued, ended, disabledAt, threads, sockets, lastUse>>

SetPassword(o, u) ==
    /\ pc[o] = "idle" /\ Exists(u) /\ accounts[u].password < MaxPasswords
    /\ ReplacePassword(u, accounts[u].password + 1)
    /\ UNCHANGED <<now, attempts, server, threads, sockets, lastUse>>

\* Mutant: disables any account.
DisableUserUncounted(o, u) ==
    /\ pc[o] = "idle" /\ Exists(u)
    /\ Goto(o, "disable", [NoCall EXCEPT !.user = u, !.row = EnabledOwners])
    /\ UNCHANGED <<now, attempts, server, catalog, sockets, lastUse>>

\* set_disabled reads the account and counts the enabled owners first.
DisableUser(o, u) ==
    /\ pc[o] = "idle" /\ Exists(u)
    /\ accounts[u].disabled \/ Role[u] # "owner" \/ Cardinality(EnabledOwners) # 1
    /\ Goto(o, "disable", [NoCall EXCEPT !.user = u, !.row = EnabledOwners])
    /\ UNCHANGED <<now, attempts, server, catalog, sockets, lastUse>>

WriteDisabled(o) ==
    /\ pc[o] = "disable"
    /\ accounts' = [accounts EXCEPT ![call[o].user].disabled = TRUE]
    /\ disabledAt' = [disabledAt EXCEPT ![call[o].user] = now]
    /\ DeleteRows(SessionsOf(call[o].user))
    /\ Return(o)
    /\ UNCHANGED <<now, attempts, server, issued, sockets, lastUse>>

EnableUser(o, u) ==
    /\ pc[o] = "idle" /\ Exists(u) /\ accounts[u].disabled
    /\ accounts' = [accounts EXCEPT ![u].disabled = FALSE]
    /\ disabledAt' = [disabledAt EXCEPT ![u] = 0]
    /\ UNCHANGED <<now, attempts, server, web, issued, ended, threads, sockets, lastUse>>

\* issue_local_operator_session lists the accounts, then creates the session.
OperatorSession(o, u) ==
    /\ pc[o] = "idle" /\ Enabled(u)
    /\ Goto(o, "issue", [NoCall EXCEPT !.user = u])
    /\ UNCHANGED <<now, attempts, server, catalog, sockets, lastUse>>
--------------------------------------------------------------------------------
Next ==
    \/ StartServer \/ StopServer \/ Tick \/ Settle
    \/ \E t \in Requests :
        \/ \E name \in Keys, typed \in 0..MaxPasswords : Login(t, name, typed)
        \/ \E token \in Tokens : Request(t, token)
        \/ ReadCredentials(t) \/ Rehash(t) \/ LoginSucceeded(t) \/ LoginFailed(t)
        \/ AnswerRequest(t)
    \/ \E c \in Connections :
        \/ \E token \in Tokens : Connect(c, token)
        \/ Receive(c) \/ Confirm(c) \/ Refused(c) \/ Disconnect(c)
        \/ Start(c) \/ AcceptBlock(c) \/ Stop(c)
    \/ \E t \in Requests \cup Operators :
        \/ ReadAccount(t) \/ InsertSession(t)
        \/ \E token \in Tokens : Logout(t, token)
    \/ \E t \in Requests \cup Connections :
        ReadUser(t) \/ ExpireSession(t) \/ TouchSession(t)
    \/ \E o \in Operators :
        \/ WriteDisabled(o)
        \/ \E u \in Users :
            \/ \E outdated \in Hashes : CreateUser(o, u, outdated)
            \/ SetPassword(o, u) \/ DisableUser(o, u) \/ EnableUser(o, u)
            \/ OperatorSession(o, u)

Spec == Init /\ [][Next]_vars
--------------------------------------------------------------------------------
Times == 0..MaxTime
Row == [user : Users, seen : Times, idle : Nat, absolute : Nat]
Account == [disabled : BOOLEAN, password : 0..MaxPasswords, outdated : BOOLEAN]

ASSUME NothingIsNoRow == Nothing \notin Row /\ Nothing \notin Account

\* The kinds of every variable.  A session's row never expires later than its
\* absolute end, and a WebSocket has a token exactly while it is open.
TypeOK ==
    /\ now \in Times /\ server \in {"up", "down"}
    /\ DOMAIN attempts \subseteq Keys
    /\ \A k \in DOMAIN attempts : attempts[k] \in Bucket
    /\ \A u \in Users : accounts[u] = Nothing \/ accounts[u] \in Account
    /\ \A t \in Tokens : web[t] = Nothing \/
        /\ web[t] \in Row /\ web[t].idle <= web[t].absolute /\ t <= issued
    /\ pc \in [Threads -> {"idle", "credentials", "rehash", "issue", "insert", "succeeded",
        "failed", "account", "expire", "touch", "granted", "refused", "raised", "message",
        "disable"}]
    /\ \A c \in Connections : link[c] = "open" => call[c].token \in Tokens
    /\ capture.phase \in {"none", "empty", "sounding", "settling"}
    /\ disabledAt \in [Users -> Times]

\* The limiter's table never exceeds its size, and no name has more failures
\* in one window than requests can have passed the check together.
AttemptsBounded ==
    /\ TypeOK
    /\ Cardinality(DOMAIN attempts) <= MaxBuckets
    /\ \A k \in DOMAIN attempts : attempts[k].count < Limit + Cardinality(Requests)

UsedSessionsStay ==
    \A t \in Tokens : web[t] # Nothing =>
        web[t].idle >= Earlier(lastUse[t] + IdleLifetime - TouchInterval + 1, web[t].absolute)

\* A live capture always has an open WebSocket that holds it, so that somebody
\* can stop it.
CaptureHasListener ==
    capture.phase \in {"empty", "sounding"} => \E c \in Connections : link[c] = "open" /\ IsHeld(c)

EndedSessionStaysEnded(t) ==
    /\ web[t] = Nothing => web'[t] = Nothing
    /\ lastUse'[t] # lastUse[t] /\ web[t] = Nothing => ended[t] = now

DisabledAccountIsRefused(t) ==
    lastUse'[t] # lastUse[t] =>
        \E u \in Users : (Enabled(u) \/ disabledAt[u] = now)
                      /\ \E c \in Threads : call[c].token = t /\ call[c].user = u

\* A session that is used stays: though it is touched only now and then, it
\* does not expire before IdleLifetime less TouchInterval after its last use.
\* One that was ended (logout, a new password, a disabled account, expiry)
\* never comes back, and neither it nor a disabled account is served
\* afterwards, except by a call that had read it before; not even a session
\* that was being made when its account was disabled.
AccessEnds ==
    /\ []UsedSessionsStay
    /\ [][\A t \in 1..issued : EndedSessionStaysEnded(t) /\ DisabledAccountIsRefused(t)]_vars

\* A WebSocket streams at most Reauthenticate units on a session that ended
\* or an account that was disabled.
AudioFollowsAccess ==
    [][\A c \in Connections :
        pc[c] = "message" /\ pc'[c] = "idle" /\ c \in sounding' =>
            /\ web[call[c].token] # Nothing \/ now - ended[call[c].token] < Reauthenticate
            /\ Enabled(call[c].user) \/ now - disabledAt[call[c].user] < Reauthenticate]_vars

\* The workspace loses its last enabled owner only to a command whose count
\* of them was overtaken by another.
LastOwnerStays ==
    [][EnabledOwners # {} /\ EnabledOwners' = {} =>
        \E o \in Operators : pc[o] = "disable" /\ call[o].row # EnabledOwners]_vars
================================================================================
