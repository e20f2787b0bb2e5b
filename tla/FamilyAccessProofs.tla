--------------------------- MODULE FamilyAccessProofs ---------------------------
(* Proofs about FamilyAccess, for any accounts, threads, lifetimes and clock:  *)
(* the limiter's bound, the last owner, who is served, and who is heard.       *)
EXTENDS FamilyAccess, FiniteSetTheorems, TLAPS

-----------------------------------------------------------------------------
(* The invariant.                                                          *)

LoginPlaces == {"credentials", "rehash", "issue", "insert", "succeeded", "failed"}
AccessPlaces == {"account", "expire", "touch", "granted", "refused", "raised"}
Places == {"idle", "message", "disable"} \cup LoginPlaces \cup AccessPlaces

Calls == [user : Keys \cup {Nobody}, typed : 0..MaxPasswords, token : Tokens \cup {Nothing},
          row : {Nothing} \cup Row \cup SUBSET Users]

CatalogOK ==
  /\ now \in Times /\ issued \in 0..MaxTokens /\ server \in {"up", "down"}
  /\ accounts \in [Users -> Account \cup {Nothing}]
  /\ disabledAt \in [Users -> Times] /\ \A u \in Users : disabledAt[u] <= now
  /\ web \in [Tokens -> Row \cup {Nothing}]
  /\ ended \in [Tokens -> Times]
  /\ lastUse \in [Tokens -> Times] /\ \A k \in Tokens : lastUse[k] <= now

ThreadsOK == pc \in [Threads -> Places] /\ call \in [Threads -> Calls]

SocketsOK ==
  /\ link \in [Connections -> {"open", "closed"}]
  /\ confirmed \in [Connections -> Times] /\ \A c \in Connections : confirmed[c] <= now
  /\ held \in [Connections -> Nat]
  /\ capture \in [id : Nat, phase : {"none", "empty", "sounding", "settling"}]
  /\ sounding \subseteq Connections

LimiterOK ==
  DOMAIN attempts \subseteq Keys /\ \A k \in DOMAIN attempts : attempts[k] \in Bucket

\* A row is issued, and expires no earlier than its last touch allows.
RowOK(k) ==
  web[k] # Nothing =>
    /\ k <= issued /\ web[k].seen <= now /\ web[k].idle <= web[k].absolute
    /\ web[k].idle >= Earlier(web[k].seen + IdleLifetime, web[k].absolute)

RowsOK == \A k \in Tokens : RowOK(k)

\* A thread at place p with parameters w: what it may do there.
PlaceOK(t, p, w) ==
  /\ t \in Requests => p \in {"idle"} \cup LoginPlaces \cup AccessPlaces
  /\ t \in Connections => p \in {"idle", "message"} \cup AccessPlaces
  /\ t \in Operators => p \in {"idle", "issue", "insert", "disable"}
  /\ p \in LoginPlaces => w.user \in Keys
  /\ p \in {"rehash", "insert", "disable"} => Exists(w.user)

\* What it read is true, or was until this very unit: the row it read is there,
\* touched since perhaps, or was deleted in this unit.
Served(k) == web[k] # Nothing \/ ended[k] = now
Allowed(u) == Enabled(u) \/ disabledAt[u] = now

ReaderOK(p, w) ==
  /\ p \in {"account", "expire", "touch", "granted"} =>
       /\ w.token \in 1..issued /\ w.row \in Row /\ w.user = w.row.user /\ w.row.seen <= now
       /\ Served(w.token)
       /\ web[w.token] # Nothing =>
            /\ web[w.token].user = w.user /\ web[w.token].absolute = w.row.absolute
            /\ web[w.token].seen >= w.row.seen
  /\ p \in {"touch", "granted"} => Allowed(w.user)
  /\ p = "granted" /\ web[w.token] # Nothing => now - web[w.token].seen < TouchInterval

\* A WebSocket's account may write, and while nobody asks again, its session and
\* its account were good when it last authenticated.
GoodSince(w, time) ==
  /\ web[w.token] # Nothing \/ ended[w.token] >= time
  /\ Enabled(w.user) \/ disabledAt[w.user] >= time

StreamOK(c, p, w) ==
  /\ link[c] = "open" =>
       /\ w.user \in Users /\ MayWrite(w.user) /\ w.token \in 1..issued
       /\ web[w.token] # Nothing => web[w.token].user = w.user
       /\ p \in {"idle", "message"} => GoodSince(w, confirmed[c])
  /\ p = "message" => link[c] = "open" /\ now - confirmed[c] < Reauthenticate

AccessInv ==
  /\ CatalogOK /\ ThreadsOK /\ SocketsOK /\ LimiterOK /\ RowsOK /\ UsedSessionsStay
  /\ \A t \in Threads : PlaceOK(t, pc[t], call[t]) /\ ReaderOK(pc[t], call[t])
  /\ \A c \in Connections : StreamOK(c, pc[c], call[c])

\* How the catalog may change within a unit: rows are deleted or touched, new
\* ones are issued, no account vanishes, and one is disabled only now.
Evolves ==
  /\ now' = now /\ issued' \in issued..MaxTokens
  /\ \A k \in 1..issued :
       \/ web'[k] = Nothing /\ ended'[k] = IF web[k] = Nothing THEN ended[k] ELSE now
       \/ /\ web[k] # Nothing /\ web'[k] # Nothing /\ ended'[k] = ended[k]
          /\ web'[k].user = web[k].user /\ web'[k].absolute = web[k].absolute
          /\ web'[k].seen \in web[k].seen..now
  /\ \A u \in Users :
       /\ Exists(u) => Exists(u)'
       /\ Enabled(u) => Enabled(u)' \/ disabledAt'[u] = now
       /\ Enabled(u)' \/ disabledAt'[u] \in disabledAt[u]..now

-----------------------------------------------------------------------------
(* Lemmas about the operators.                                             *)

\* What the assumptions say of each constant.
LEMMA Constants ==
  /\ TouchInterval \in Nat \ {0} /\ IdleLifetime \in Nat /\ AbsoluteLifetime \in Nat
  /\ OperatorLifetime \in Nat /\ MaxTokens \in Nat /\ MaxTime \in Nat /\ MaxPasswords \in Nat
  /\ Reauthenticate \in Nat \ {0} /\ TouchInterval < IdleLifetime
  /\ IdleLifetime <= AbsoluteLifetime /\ Users \subseteq Keys /\ Nobody \notin Users
  /\ Limit \in Nat \ {0} /\ MaxBuckets \in Nat \ {0} /\ Window \in Nat \ {0}
  BY FamilyConstants, LimiterConstants

\* Requests, WebSockets and operators are different threads.
LEMMA Kinds ==
  /\ \A t \in Requests : t \in Threads /\ t \notin Connections /\ t \notin Operators
  /\ \A t \in Connections : t \in Threads /\ t \notin Requests /\ t \notin Operators
  /\ \A t \in Operators : t \in Threads /\ t \notin Connections /\ t \notin Requests
  BY FamilyConstants DEF Threads

\* Goto moves one thread.
LEMMA Moved ==
  ASSUME ThreadsOK, NEW t \in Threads, NEW p \in Places, NEW w \in Calls, Goto(t, p, w)
  PROVE  /\ ThreadsOK' /\ pc'[t] = p /\ call'[t] = w
         /\ \A s \in Threads \ {t} : pc'[s] = pc[s] /\ call'[s] = call[s]
  BY DEF ThreadsOK, Goto

\* The idle call, and a call begun with a user and a token or a row.
LEMMA NoCallIsOne == NoCall \in Calls
  BY Constants DEF NoCall, Calls

\* A call begun with a user, and a token or a set of users.
LEMMA Filled ==
  ASSUME NEW u \in Keys, NEW k \in Tokens \cup {Nothing}, NEW owners \in SUBSET Users
  PROVE  /\ [NoCall EXCEPT !.user = u, !.token = k] \in Calls
         /\ [NoCall EXCEPT !.user = u, !.token = k].user = u
         /\ [NoCall EXCEPT !.user = u, !.token = k].token = k
         /\ [NoCall EXCEPT !.user = u, !.row = owners] \in Calls
         /\ [NoCall EXCEPT !.user = u, !.row = owners].user = u
<1>1. ASSUME NEW A, NEW B, NEW C, NEW D, NEW w \in [user : A, typed : B, token : C, row : D],
             NEW a \in A, NEW c \in C, NEW d \in D
      PROVE  /\ [w EXCEPT !.user = a, !.token = c] \in [user : A, typed : B, token : C, row : D]
             /\ [w EXCEPT !.user = a, !.token = c].user = a
             /\ [w EXCEPT !.user = a, !.token = c].token = c
             /\ [w EXCEPT !.user = a, !.row = d] \in [user : A, typed : B, token : C, row : D]
             /\ [w EXCEPT !.user = a, !.row = d].user = a
  OBVIOUS
<1> QED
  BY <1>1, NoCallIsOne DEF Calls

\* What a thread knows stays true while the catalog evolves.
LEMMA KnowledgeStays ==
  ASSUME CatalogOK, Evolves, NEW p, NEW w
  PROVE  /\ \A t \in Threads : PlaceOK(t, p, w) => PlaceOK(t, p, w)'
         /\ ReaderOK(p, w) => ReaderOK(p, w)'
         /\ \A c \in Connections :
              SocketsOK /\ StreamOK(c, p, w) /\ link'[c] = link[c] /\ confirmed'[c] = confirmed[c]
              => StreamOK(c, p, w)'
<1>1. \A u \in Users : Exists(u) => Exists(u)'
  BY DEF Evolves
<1>2. \A u : Exists(u) => u \in Users
  BY DEF Exists
<1>3. \A t \in Threads : PlaceOK(t, p, w) => PlaceOK(t, p, w)'
  BY <1>1, <1>2 DEF PlaceOK
<1>4. ReaderOK(p, w) => ReaderOK(p, w)'
  <2> SUFFICES ASSUME ReaderOK(p, w) PROVE ReaderOK(p, w)'
    OBVIOUS
  <2>1. CASE p \notin {"account", "expire", "touch", "granted"}
    BY <2>1 DEF ReaderOK
  <2>2. CASE p \in {"account", "expire", "touch", "granted"}
    <3>1. /\ w.token \in 1..issued /\ w.row \in Row /\ w.user = w.row.user /\ w.user \in Users
          /\ w.row.seen <= now /\ Served(w.token)
      BY <2>2 DEF ReaderOK, Row
    <3>2. w.token \in 1..issued' /\ now' = now
      BY <3>1 DEF Evolves, CatalogOK
    <3>3. Served(w.token)'
      BY <3>1 DEF Served, Evolves
    <3>4. web'[w.token] # Nothing =>
            /\ web[w.token] # Nothing
            /\ web'[w.token].user = web[w.token].user
            /\ web'[w.token].absolute = web[w.token].absolute
            /\ web'[w.token].seen \in web[w.token].seen..now
      BY <3>1 DEF Evolves
    <3>5. Allowed(w.user) => Allowed(w.user)'
      <4>1. disabledAt[w.user] \in Nat /\ now \in Nat
        BY <3>1 DEF CatalogOK, Times
      <4> QED
        BY <3>1, <4>1 DEF Allowed, Evolves
    <3>6. w.token \in Tokens /\ web[w.token] \in Row \cup {Nothing}
      BY <3>1, Constants DEF CatalogOK, Tokens
    <3>7. /\ now \in Nat /\ w.row.seen \in Nat
          /\ web[w.token] # Nothing => web[w.token].seen \in Nat
      BY <3>1, <3>6 DEF CatalogOK, Times, Row
    <3>8. web'[w.token] # Nothing =>
            /\ web'[w.token].user = w.user /\ web'[w.token].absolute = w.row.absolute
            /\ web'[w.token].seen >= w.row.seen
      BY <2>2, <3>4, <3>7 DEF ReaderOK
    <3>9. p = "granted" /\ web'[w.token] # Nothing => now - web'[w.token].seen < TouchInterval
      BY <3>4, <3>7, Constants DEF ReaderOK
    <3> QED
      BY <2>2, <3>1, <3>2, <3>3, <3>5, <3>8, <3>9 DEF ReaderOK
  <2> QED
    BY <2>1, <2>2
<1>5. ASSUME NEW c \in Connections, SocketsOK, StreamOK(c, p, w), link'[c] = link[c],
             confirmed'[c] = confirmed[c]
      PROVE  StreamOK(c, p, w)'
  <2>1. /\ link'[c] = link[c] /\ confirmed'[c] = confirmed[c] /\ now' = now
        /\ confirmed[c] \in Nat /\ now \in Nat /\ confirmed[c] <= now
    BY <1>5 DEF SocketsOK, CatalogOK, Times, Evolves
  <2>2. CASE link[c] # "open"
    BY <1>5, <2>1, <2>2 DEF StreamOK
  <2>3. CASE link[c] = "open"
    <3>1. w.user \in Users /\ w.token \in 1..issued /\ MayWrite(w.user)
      BY <1>5, <2>3 DEF StreamOK
    <3>2. w.token \in 1..issued' /\ MayWrite(w.user)'
      BY <3>1 DEF Evolves, CatalogOK, MayWrite
    <3>3. web'[w.token] # Nothing =>
            web[w.token] # Nothing /\ web'[w.token].user = web[w.token].user
      BY <3>1 DEF Evolves
    <3>4. GoodSince(w, confirmed[c]) =>
            (web'[w.token] # Nothing \/ ended'[w.token] >= confirmed[c])
      BY <2>1, <3>1 DEF GoodSince, Evolves
    <3>5. GoodSince(w, confirmed[c]) =>
            (Enabled(w.user)' \/ disabledAt'[w.user] >= confirmed[c])
      <4>1. disabledAt[w.user] \in Nat
        BY <3>1 DEF CatalogOK, Times
      <4> QED
        BY <2>1, <3>1, <4>1 DEF GoodSince, Evolves
    <3>6. GoodSince(w, confirmed[c]) => GoodSince(w, confirmed[c])'
      BY <2>1, <3>4, <3>5 DEF GoodSince
    <3> QED
      BY <1>5, <2>1, <2>3, <3>1, <3>2, <3>3, <3>6 DEF StreamOK
  <2> QED
    BY <2>2, <2>3
<1> QED
  BY <1>3, <1>4, <1>5

\* A catalog that does not change evolves.
LEMMA StillEvolves ==
  ASSUME CatalogOK, RowsOK, UNCHANGED <<now, catalog>> PROVE Evolves
<1>1. ASSUME NEW k \in 1..issued
      PROVE  k \in Tokens /\ (web[k] # Nothing => web[k].seen \in web[k].seen..now)
  <2>1. k \in Tokens
    BY Constants DEF CatalogOK, Tokens
  <2>2. web[k] # Nothing => web[k].seen \in Nat /\ web[k].seen <= now
    BY <2>1 DEF CatalogOK, RowsOK, RowOK, Row, Times
  <2> QED
    BY <2>1, <2>2 DEF CatalogOK, Times
<1>2. \A k \in 1..issued :
       \/ web'[k] = Nothing /\ ended'[k] = IF web[k] = Nothing THEN ended[k] ELSE now
       \/ /\ web[k] # Nothing /\ web'[k] # Nothing /\ ended'[k] = ended[k]
          /\ web'[k].user = web[k].user /\ web'[k].absolute = web[k].absolute
          /\ web'[k].seen \in web[k].seen..now
  BY <1>1 DEF catalog
<1>3. \A u \in Users : disabledAt[u] \in disabledAt[u]..now
  BY DEF CatalogOK, Times
<1>4. issued' \in issued..MaxTokens
  BY Constants DEF CatalogOK, catalog
<1> QED
  BY <1>2, <1>3, <1>4 DEF Evolves, catalog, Exists, Enabled

\* Sessions are kept or deleted, and nobody used one.
LEMMA RowsStay ==
  ASSUME RowsOK, UsedSessionsStay, UNCHANGED <<now, issued, lastUse>>,
         \A k \in Tokens : web'[k] \in {web[k], Nothing}
  PROVE  RowsOK' /\ UsedSessionsStay'
  BY DEF RowsOK, RowOK, UsedSessionsStay, Earlier

\* DeleteRows ends sessions in this unit.
LEMMA Deleted ==
  ASSUME CatalogOK, NEW T, DeleteRows(T)
  PROVE  /\ web' \in [Tokens -> Row \cup {Nothing}] /\ ended' \in [Tokens -> Times]
         /\ \A k \in Tokens :
              IF k \in T /\ web[k] # Nothing
              THEN web'[k] = Nothing /\ ended'[k] = now
              ELSE web'[k] = web[k] /\ ended'[k] = ended[k]
  BY DEF CatalogOK, DeleteRows

\* Deleting sessions and changing accounts is how a catalog evolves.
LEMMA DeletionEvolves ==
  ASSUME CatalogOK, RowsOK, NEW T, DeleteRows(T), UNCHANGED <<now, issued>>,
         \A u \in Users :
           /\ Exists(u) => Exists(u)'
           /\ Enabled(u) => Enabled(u)' \/ disabledAt'[u] = now
           /\ Enabled(u)' \/ disabledAt'[u] \in disabledAt[u]..now
  PROVE  Evolves
<1>1. ASSUME NEW k \in 1..issued
      PROVE  k \in Tokens /\ (web[k] # Nothing => web[k].seen \in web[k].seen..now)
  <2>1. k \in Tokens
    BY Constants DEF CatalogOK, Tokens
  <2>2. web[k] # Nothing => web[k].seen \in Nat /\ web[k].seen <= now
    BY <2>1 DEF CatalogOK, RowsOK, RowOK, Row, Times
  <2> QED
    BY <2>1, <2>2 DEF CatalogOK, Times
<1>2. \A k \in 1..issued :
       \/ web'[k] = Nothing /\ ended'[k] = IF web[k] = Nothing THEN ended[k] ELSE now
       \/ /\ web[k] # Nothing /\ web'[k] # Nothing /\ ended'[k] = ended[k]
          /\ web'[k].user = web[k].user /\ web'[k].absolute = web[k].absolute
          /\ web'[k].seen \in web[k].seen..now
  BY <1>1, Deleted
<1>4. issued' \in issued..MaxTokens
  BY Constants DEF CatalogOK
<1> QED
  BY <1>2, <1>4 DEF Evolves

\* A step of one thread, while the catalog evolves.
LEMMA StepKeeps ==
  ASSUME AccessInv, NEW t \in Threads, NEW p \in Places, NEW w \in Calls, Goto(t, p, w),
         Evolves, CatalogOK', SocketsOK', LimiterOK', RowsOK', UsedSessionsStay',
         \A d \in Connections \ {t} : link'[d] = link[d] /\ confirmed'[d] = confirmed[d],
         PlaceOK(t, p, w)', ReaderOK(p, w)', t \in Connections => StreamOK(t, p, w)'
  PROVE  AccessInv'
<1>1. CatalogOK /\ ThreadsOK /\ SocketsOK
  BY DEF AccessInv
<1>2. /\ ThreadsOK' /\ pc'[t] = p /\ call'[t] = w
      /\ \A s \in Threads \ {t} : pc'[s] = pc[s] /\ call'[s] = call[s]
  BY <1>1, Moved
<1>3. ASSUME NEW s \in Threads
      PROVE  PlaceOK(s, pc[s], call[s])' /\ ReaderOK(pc[s], call[s])'
  <2>1. CASE s = t
    BY <1>2, <2>1
  <2>2. CASE s # t
    <3>1. PlaceOK(s, pc[s], call[s]) /\ ReaderOK(pc[s], call[s])
      BY DEF AccessInv
    <3>2. \A q, v : /\ PlaceOK(s, q, v) => PlaceOK(s, q, v)'
                    /\ ReaderOK(q, v) => ReaderOK(q, v)'
      BY <1>1, KnowledgeStays
    <3> QED
      BY <1>2, <2>2, <3>1, <3>2
  <2> QED
    BY <2>1, <2>2
<1>4. ASSUME NEW c \in Connections PROVE StreamOK(c, pc[c], call[c])'
  <2>1. CASE c = t
    BY <1>2, <2>1
  <2>2. CASE c # t
    <3>1. StreamOK(c, pc[c], call[c])
      BY DEF AccessInv
    <3>2. \A q, v : StreamOK(c, q, v) => StreamOK(c, q, v)'
      BY <1>1, <2>2, KnowledgeStays
    <3> QED
      BY <1>2, <2>2, <3>1, <3>2, Kinds
  <2> QED
    BY <2>1, <2>2
<1> QED
  BY <1>2, <1>3, <1>4 DEF AccessInv

\* A step of one thread that leaves the catalog and the WebSockets.
LEMMA ThreadKeeps ==
  ASSUME AccessInv, NEW t \in Threads, NEW p \in Places, NEW w \in Calls, Goto(t, p, w),
         UNCHANGED <<now, server, catalog, sockets, lastUse>>, LimiterOK',
         PlaceOK(t, p, w), ReaderOK(p, w), t \in Connections => StreamOK(t, p, w)
  PROVE  AccessInv'
<1>1. CatalogOK /\ RowsOK /\ SocketsOK /\ UsedSessionsStay
  BY DEF AccessInv
<1>2. Evolves
  BY <1>1, StillEvolves
<1>3. CatalogOK' /\ SocketsOK'
  BY <1>1 DEF CatalogOK, SocketsOK, catalog, sockets
<1>4. RowsOK' /\ UsedSessionsStay'
  BY <1>1 DEF RowsOK, RowOK, UsedSessionsStay, catalog
<1>5. UNCHANGED <<link, confirmed>>
  BY DEF sockets
<1>6. /\ PlaceOK(t, p, w)' /\ ReaderOK(p, w)'
      /\ t \in Connections => StreamOK(t, p, w)'
  <2>1. /\ \A q, v : PlaceOK(t, q, v) => PlaceOK(t, q, v)'
        /\ \A q, v : ReaderOK(q, v) => ReaderOK(q, v)'
    BY <1>1, <1>2, KnowledgeStays
  <2>2. t \in Connections => \A q, v : StreamOK(t, q, v) => StreamOK(t, q, v)'
    BY <1>1, <1>2, <1>5, KnowledgeStays
  <2> QED
    BY <2>1, <2>2
<1> QED
  BY <1>2, <1>3, <1>4, <1>5, <1>6, StepKeeps

\* A step that no thread takes, or that leaves its place.
LEMMA CatalogKeeps ==
  ASSUME AccessInv, UNCHANGED <<threads, link, confirmed>>,
         Evolves, CatalogOK', SocketsOK', LimiterOK', RowsOK', UsedSessionsStay'
  PROVE  AccessInv'
<1>1. CatalogOK /\ ThreadsOK /\ SocketsOK
  BY DEF AccessInv
<1>2. ThreadsOK' /\ UNCHANGED <<pc, call>>
  BY <1>1 DEF ThreadsOK, threads
<1>3. ASSUME NEW s \in Threads
      PROVE  PlaceOK(s, pc[s], call[s])' /\ ReaderOK(pc[s], call[s])'
  <2>1. PlaceOK(s, pc[s], call[s]) /\ ReaderOK(pc[s], call[s])
    BY DEF AccessInv
  <2>2. \A q, v : /\ PlaceOK(s, q, v) => PlaceOK(s, q, v)'
                  /\ ReaderOK(q, v) => ReaderOK(q, v)'
    BY <1>1, KnowledgeStays
  <2> QED
    BY <1>2, <2>1, <2>2
<1>4. ASSUME NEW c \in Connections PROVE StreamOK(c, pc[c], call[c])'
  <2>1. StreamOK(c, pc[c], call[c])
    BY DEF AccessInv
  <2>2. \A q, v : StreamOK(c, q, v) => StreamOK(c, q, v)'
    BY <1>1, KnowledgeStays
  <2> QED
    BY <1>2, <2>1, <2>2
<1> QED
  BY <1>2, <1>3, <1>4 DEF AccessInv

\* The limiter keeps buckets of its own, and adds one for a name that failed.
LEMMA KeptAreBuckets ==
  ASSUME LimiterOK, NEW kept \in Kept
  PROVE  kept \subseteq DOMAIN attempts /\ kept \subseteq Keys
  BY DEF LimiterOK, Kept, Live

\* check, failure and success leave a table of buckets.
LEMMA LimiterTypes ==
  ASSUME LimiterOK, now \in Nat, NEW k \in Keys,
         \/ \E allowed \in BOOLEAN : CheckAttempt(k, allowed)
         \/ CountFailure(k)
         \/ ForgetFailures(k)
  PROVE  LimiterOK'
<1>1. CASE \E allowed \in BOOLEAN : CheckAttempt(k, allowed)
  BY <1>1, KeptAreBuckets DEF CheckAttempt, LimiterOK
<1>2. CASE CountFailure(k)
  <2>1. PICK kept \in Kept :
          attempts' = [x \in kept \cup {k} |->
            IF x # k THEN attempts[x]
            ELSE IF k \in kept THEN [attempts[k] EXCEPT !.count = @ + 1]
            ELSE [count |-> 1, first |-> now]]
    BY <1>2 DEF CountFailure
  <2>2. \A x \in kept : attempts[x] \in Bucket
    BY KeptAreBuckets DEF LimiterOK
  <2>3. k \in kept => [attempts[k] EXCEPT !.count = @ + 1] \in Bucket
    BY <2>2 DEF Bucket
  <2>4. [count |-> 1, first |-> now] \in Bucket
    BY DEF Bucket
  <2> QED
    BY <2>1, <2>2, <2>3, <2>4, KeptAreBuckets DEF LimiterOK
<1>3. CASE ForgetFailures(k)
  BY <1>3 DEF ForgetFailures, LimiterOK
<1> QED
  BY <1>1, <1>2, <1>3

-----------------------------------------------------------------------------
(* Every step keeps the invariant.                                         *)

\* login passes the limiter or returns.
LEMMA LoginKeeps ==
  ASSUME AccessInv, NEW t \in Requests, NEW name \in Keys, NEW typed \in 0..MaxPasswords,
         Login(t, name, typed)
  PROVE  AccessInv'
<1>1. PICK allowed \in BOOLEAN :
        /\ CheckAttempt(name, allowed)
        /\ IF allowed
           THEN Goto(t, "credentials", [NoCall EXCEPT !.user = name, !.typed = typed])
           ELSE Return(t)
  BY DEF Login
<1>2. LimiterOK' /\ UNCHANGED <<now, server, catalog, sockets, lastUse>> /\ t \in Threads
  <2>1. LimiterOK /\ now \in Nat
    BY DEF AccessInv, CatalogOK, Times
  <2> QED
    BY <1>1, <2>1, LimiterTypes, Kinds DEF Login
<1>3. CASE allowed
  <2> DEFINE w == [NoCall EXCEPT !.user = name, !.typed = typed]
  <2>1. w \in Calls /\ w.user = name
    BY Constants DEF Calls, NoCall
  <2>2. PlaceOK(t, "credentials", w) /\ ReaderOK("credentials", w)
    BY <2>1, Kinds DEF PlaceOK, ReaderOK, LoginPlaces
  <2> HIDE DEF w
  <2>3. Goto(t, "credentials", w)
    BY <1>1, <1>3 DEF w
  <2> QED
    BY <1>2, <2>1, <2>2, <2>3, Kinds, ThreadKeeps DEF Places, LoginPlaces
<1>4. CASE ~allowed
  <2>1. PlaceOK(t, "idle", NoCall) /\ ReaderOK("idle", NoCall)
    BY Kinds DEF PlaceOK, ReaderOK, LoginPlaces
  <2> QED
    BY <1>1, <1>2, <1>4, <2>1, Kinds, NoCallIsOne, ThreadKeeps DEF Places, Return
<1> QED
  BY <1>3, <1>4

\* Where a thread is, and what it has to go on.
LEMMA AtPlace ==
  ASSUME AccessInv, NEW t \in Threads
  PROVE  /\ call[t] \in Calls /\ PlaceOK(t, pc[t], call[t]) /\ ReaderOK(pc[t], call[t])
         /\ t \in Connections => StreamOK(t, pc[t], call[t])
         /\ LimiterOK
  BY DEF AccessInv, ThreadsOK

\* The credentials are read: an enabled account, or a failure.
LEMMA ReadCredentialsKeeps ==
  ASSUME AccessInv, NEW t \in Requests, ReadCredentials(t) PROVE AccessInv'
<1>1. PICK p \in {"failed", "rehash", "issue"} :
        Goto(t, p, call[t]) /\ (p = "rehash" => Enabled(call[t].user))
  BY DEF ReadCredentials
<1>2. /\ call[t] \in Calls /\ PlaceOK(t, "credentials", call[t]) /\ t \in Threads /\ LimiterOK'
      /\ UNCHANGED <<now, server, catalog, sockets, lastUse>>
  BY AtPlace, Kinds DEF ReadCredentials, LimiterOK
<1>3. PlaceOK(t, p, call[t]) /\ ReaderOK(p, call[t])
  BY <1>1, <1>2, Kinds DEF PlaceOK, ReaderOK, LoginPlaces, Enabled
<1> QED
  BY <1>1, <1>2, <1>3, Kinds, ThreadKeeps DEF Places, LoginPlaces

\* create_web_session reads the account.
LEMMA ReadAccountKeeps ==
  ASSUME AccessInv, NEW t \in Requests \cup Operators, ReadAccount(t) PROVE AccessInv'
<1>1. \/ Goto(t, "insert", call[t]) /\ Enabled(call[t].user)
      \/ Goto(t, "failed", call[t]) /\ t \notin Operators
      \/ Goto(t, "idle", NoCall)
  BY DEF ReadAccount
<1>2. /\ call[t] \in Calls /\ PlaceOK(t, "issue", call[t]) /\ t \in Threads /\ LimiterOK'
      /\ UNCHANGED <<now, server, catalog, sockets, lastUse>> /\ t \notin Connections
  BY AtPlace, Kinds DEF ReadAccount, LimiterOK
<1>3. CASE Goto(t, "insert", call[t]) /\ Enabled(call[t].user)
  <2>1. PlaceOK(t, "insert", call[t]) /\ ReaderOK("insert", call[t])
    BY <1>2, <1>3, Kinds DEF PlaceOK, ReaderOK, LoginPlaces, Enabled
  <2> QED
    BY <1>2, <1>3, <2>1, ThreadKeeps DEF Places, LoginPlaces
<1>4. CASE Goto(t, "failed", call[t]) /\ t \notin Operators
  <2>1. PlaceOK(t, "failed", call[t]) /\ ReaderOK("failed", call[t])
    BY <1>2, <1>4, Kinds DEF PlaceOK, ReaderOK, LoginPlaces
  <2> QED
    BY <1>2, <1>4, <2>1, ThreadKeeps DEF Places, LoginPlaces
<1>5. CASE Goto(t, "idle", NoCall)
  <2>1. PlaceOK(t, "idle", NoCall) /\ ReaderOK("idle", NoCall)
    BY <1>2 DEF PlaceOK, ReaderOK, LoginPlaces
  <2> QED
    BY <1>2, <1>5, <2>1, NoCallIsOne, ThreadKeeps DEF Places
<1> QED
  BY <1>1, <1>3, <1>4, <1>5

\* A login is counted or forgotten, and returns.
LEMMA AnsweredKeeps ==
  ASSUME AccessInv, NEW t \in Requests, LoginSucceeded(t) \/ LoginFailed(t) PROVE AccessInv'
<1>1. /\ PlaceOK(t, pc[t], call[t]) /\ t \in Threads /\ LimiterOK /\ now \in Nat
      /\ pc[t] \in LoginPlaces /\ t \notin Connections
  BY AtPlace, Kinds DEF LoginSucceeded, LoginFailed, LoginPlaces, AccessInv, CatalogOK, Times
<1>2. call[t].user \in Keys
  BY <1>1 DEF PlaceOK
<1>3. CountFailure(call[t].user) \/ ForgetFailures(call[t].user)
  BY DEF LoginSucceeded, LoginFailed
<1>4. LimiterOK'
  BY <1>1, <1>2, <1>3, LimiterTypes
<1>5. UNCHANGED <<now, server, catalog, sockets, lastUse>> /\ Goto(t, "idle", NoCall)
  BY DEF LoginSucceeded, LoginFailed, Return
<1>6. PlaceOK(t, "idle", NoCall) /\ ReaderOK("idle", NoCall)
  BY <1>1, Kinds DEF PlaceOK, ReaderOK, LoginPlaces
<1> QED
  BY <1>1, <1>4, <1>5, <1>6, NoCallIsOne, ThreadKeeps DEF Places

\* A token that was issued has a place in the catalog.
LEMMA IssuedRows ==
  ASSUME CatalogOK, NEW k \in 1..issued
  PROVE  k \in Tokens /\ web[k] \in Row \cup {Nothing} /\ ended[k] \in Nat
  BY Constants DEF CatalogOK, Tokens, Times

\* Authentication reads a row of the session.
LEMMA Authenticated ==
  ASSUME AccessInv, NEW t \in Requests \cup Connections, NEW k \in 1..issued,
         Authenticate(t, k), UNCHANGED <<now, server, attempts, catalog, sockets, lastUse>>,
         t \in Connections => link[t] = "closed" \/ k = call[t].token
  PROVE  AccessInv'
<1>1. /\ call[t] \in Calls /\ t \in Threads /\ t \notin Operators /\ LimiterOK' /\ k \in Tokens
      /\ t \in Connections => StreamOK(t, pc[t], call[t])
      /\ web[k] \in Row \cup {Nothing}
  <2>1. CatalogOK
    BY DEF AccessInv
  <2> QED
    BY <2>1, AtPlace, Kinds, IssuedRows DEF LimiterOK
<1>2. CASE web[k] = Nothing
  <2>1. PlaceOK(t, "refused", call[t]) /\ ReaderOK("refused", call[t])
    BY <1>1, Kinds DEF PlaceOK, ReaderOK, LoginPlaces, AccessPlaces
  <2>2. t \in Connections => StreamOK(t, "refused", call[t])
    BY <1>1 DEF StreamOK
  <2> QED
    BY <1>1, <1>2, <2>1, <2>2, ThreadKeeps DEF Authenticate, Places, AccessPlaces
<1>3. CASE web[k] # Nothing
  <2> DEFINE w == [call[t] EXCEPT !.token = k, !.row = web[k], !.user = web[k].user]
  <2>1. web[k] \in Row /\ web[k].user \in Users
    BY <1>1, <1>3 DEF Row
  <2>2. w \in Calls /\ w.token = k /\ w.row = web[k] /\ w.user = web[k].user
    BY <1>1, <2>1, Constants DEF Calls
  <2>3. Goto(t, "account", w)
    BY <1>3 DEF Authenticate
  <2> HIDE DEF w
  <2>4. PlaceOK(t, "account", w)
    BY <1>1 DEF PlaceOK, LoginPlaces, AccessPlaces
  <2>5. ReaderOK("account", w)
    <3>1. web[k].seen <= now /\ web[k].seen \in Nat
      BY <1>1, <1>3, <2>1 DEF AccessInv, RowsOK, RowOK, Row, Times
    <3> QED
      BY <1>3, <2>1, <2>2, <3>1 DEF ReaderOK, Served
  <2>6. t \in Connections => StreamOK(t, "account", w)
    BY <1>1, <1>3, <2>1, <2>2 DEF StreamOK
  <2> QED
    BY <1>1, <2>2, <2>3, <2>4, <2>5, <2>6, ThreadKeeps DEF Places, AccessPlaces
<1> QED
  BY <1>2, <1>3

\* A request begins to authenticate with an issued token.
LEMMA RequestKeeps ==
  ASSUME AccessInv, NEW t \in Requests, NEW k \in Tokens, Request(t, k) PROVE AccessInv'
<1>1. k \in 1..issued
  BY DEF Request, AccessInv, CatalogOK, Tokens
<1> QED
  BY <1>1, Kinds, Authenticated DEF Request

\* So does a WebSocket that connects.
LEMMA ConnectKeeps ==
  ASSUME AccessInv, NEW c \in Connections, NEW k \in Tokens, Connect(c, k) PROVE AccessInv'
<1>1. k \in 1..issued
  BY DEF Connect, AccessInv, CatalogOK, Tokens
<1> QED
  BY <1>1, Kinds, Authenticated DEF Connect

\* A message is handled, or authentication is due first.
LEMMA ReceiveKeeps ==
  ASSUME AccessInv, NEW c \in Connections, Receive(c) PROVE AccessInv'
<1>1. /\ link[c] = "open" /\ call[c] \in Calls /\ StreamOK(c, "idle", call[c]) /\ c \in Threads
      /\ UNCHANGED <<now, server, attempts, catalog, sockets, lastUse>> /\ LimiterOK'
      /\ confirmed[c] \in Nat /\ now \in Nat
  BY AtPlace, Kinds DEF Receive, AccessInv, SocketsOK, LimiterOK, CatalogOK, Times
<1>2. CASE Authenticate(c, call[c].token)
  <2>1. call[c].token \in 1..issued
    BY <1>1 DEF StreamOK
  <2> QED
    BY <1>1, <1>2, <2>1, Authenticated
<1>3. CASE Goto(c, "message", call[c]) /\ ~(now - confirmed[c] >= Reauthenticate)
  <2>1. PlaceOK(c, "message", call[c]) /\ ReaderOK("message", call[c])
    BY Kinds DEF PlaceOK, ReaderOK, LoginPlaces
  <2>2. StreamOK(c, "message", call[c])
    BY <1>1, <1>3, Constants DEF StreamOK
  <2> QED
    BY <1>1, <1>3, <2>1, <2>2, ThreadKeeps DEF Places
<1> QED
  BY <1>2, <1>3 DEF Receive

\* The account decides: expire, touch or grant.
LEMMA ReadUserKeeps ==
  ASSUME AccessInv, NEW t \in Requests \cup Connections, ReadUser(t) PROVE AccessInv'
<1>1. /\ call[t] \in Calls /\ ReaderOK("account", call[t]) /\ t \in Threads
      /\ UNCHANGED <<now, server, attempts, catalog, sockets, lastUse>> /\ LimiterOK'
      /\ t \in Connections => StreamOK(t, "account", call[t])
      /\ t \notin Operators /\ now \in Nat
  BY AtPlace, Kinds DEF ReadUser, LimiterOK, AccessInv, CatalogOK, Times
<1>2. PICK p \in {"expire", "touch", "granted"} :
        /\ Goto(t, p, call[t])
        /\ p # "expire" => Enabled(call[t].row.user)
        /\ p = "granted" => ~(now - call[t].row.seen >= TouchInterval)
  BY DEF ReadUser
<1>3. /\ call[t].token \in Tokens /\ web[call[t].token] \in Row \cup {Nothing}
      /\ call[t].row.seen \in Nat /\ call[t].user = call[t].row.user
  <2>1. CatalogOK
    BY DEF AccessInv
  <2>2. call[t].token \in 1..issued /\ call[t].row \in Row /\ call[t].user = call[t].row.user
    BY <1>1 DEF ReaderOK
  <2> QED
    BY <2>1, <2>2, IssuedRows DEF Row, Times
<1>4. p = "granted" /\ web[call[t].token] # Nothing =>
        now - web[call[t].token].seen < TouchInterval
  BY <1>1, <1>2, <1>3, Constants DEF ReaderOK, Row, Times
<1>5. ReaderOK(p, call[t])
  BY <1>1, <1>2, <1>3, <1>4 DEF ReaderOK, Allowed
<1>6. PlaceOK(t, p, call[t])
  BY <1>1, <1>2, Kinds DEF PlaceOK, LoginPlaces, AccessPlaces
<1>7. t \in Connections => StreamOK(t, p, call[t])
  BY <1>1, <1>2 DEF StreamOK
<1> QED
  BY <1>1, <1>2, <1>5, <1>6, <1>7, ThreadKeeps DEF Places, AccessPlaces

\* A session that a thread found good expires late enough.
LEMMA UseIsAllowed ==
  ASSUME AccessInv, NEW t \in Threads, pc[t] = "granted"
  PROVE  /\ call[t].token \in Tokens
         /\ web[call[t].token] # Nothing =>
              web[call[t].token].idle >=
                Earlier(now + IdleLifetime - TouchInterval + 1, web[call[t].token].absolute)
<1> DEFINE k == call[t].token
<1>1. /\ k \in 1..issued
      /\ web[k] # Nothing => now - web[k].seen < TouchInterval
      /\ CatalogOK /\ RowsOK
  BY AtPlace DEF ReaderOK, AccessInv
<1>2. k \in Tokens /\ web[k] \in Row \cup {Nothing} /\ now \in Nat
  BY <1>1, IssuedRows DEF CatalogOK, Times
<1>3. ASSUME web[k] # Nothing
      PROVE  web[k].idle >= Earlier(now + IdleLifetime - TouchInterval + 1, web[k].absolute)
  <2>1. /\ web[k].seen \in Nat /\ web[k].idle \in Nat /\ web[k].absolute \in Nat
    BY <1>2, <1>3 DEF Row, Times
  <2>2. web[k].idle >= Earlier(web[k].seen + IdleLifetime, web[k].absolute)
    BY <1>1, <1>2, <1>3 DEF RowsOK, RowOK
  <2>3. now + IdleLifetime - TouchInterval + 1 <= web[k].seen + IdleLifetime
    BY <1>1, <1>2, <1>3, <2>1, Constants
  <2> HIDE DEF k
  <2> QED
    BY <1>2, <2>1, <2>2, <2>3, Constants DEF Earlier
<1> QED
  BY <1>2, <1>3

\* An answered request used its session if it was granted.
LEMMA AnswerKeeps ==
  ASSUME AccessInv, NEW t \in Requests, AnswerRequest(t) PROVE AccessInv'
<1>0. CatalogOK /\ SocketsOK /\ RowsOK /\ UsedSessionsStay /\ LimiterOK
  BY DEF AccessInv
<1>1. /\ ReaderOK(pc[t], call[t]) /\ t \in Threads /\ t \notin Connections
      /\ UNCHANGED <<now, server, attempts, catalog, sockets>> /\ Goto(t, "idle", NoCall)
      /\ lastUse' = [k \in Tokens |->
            IF pc[t] = "granted" /\ k = call[t].token THEN now ELSE lastUse[k]]
  BY AtPlace, Kinds DEF AnswerRequest, Return
<1>2. UsedSessionsStay'
  BY <1>0, <1>1, UseIsAllowed DEF UsedSessionsStay, catalog
<1>3. CatalogOK' /\ SocketsOK' /\ RowsOK' /\ LimiterOK'
  BY <1>0, <1>1
     DEF CatalogOK, SocketsOK, RowsOK, RowOK, LimiterOK, catalog, sockets, Times
<1>4. Evolves /\ UNCHANGED <<link, confirmed>>
  BY <1>0, <1>1, StillEvolves DEF sockets
<1>5. PlaceOK(t, "idle", NoCall)' /\ ReaderOK("idle", NoCall)'
  BY <1>1, Kinds DEF PlaceOK, ReaderOK, LoginPlaces
<1> QED
  BY <1>1, <1>2, <1>3, <1>4, <1>5, NoCallIsOne, StepKeeps DEF Places

\* The accounts are as before, the sessions of T end.
LEMMA DeletionKeeps ==
  ASSUME AccessInv, NEW T, DeleteRows(T),
         UNCHANGED <<now, server, accounts, issued, disabledAt, sockets, lastUse>>
  PROVE  /\ Evolves /\ CatalogOK' /\ RowsOK' /\ UsedSessionsStay' /\ SocketsOK'
         /\ UNCHANGED <<link, confirmed>>
<1>0. CatalogOK /\ SocketsOK /\ RowsOK /\ UsedSessionsStay
  BY DEF AccessInv
<1>1. /\ web' \in [Tokens -> Row \cup {Nothing}] /\ ended' \in [Tokens -> Times]
      /\ \A k \in Tokens : web'[k] \in {web[k], Nothing}
  BY <1>0, Deleted
<1>2. \A u \in Users : disabledAt[u] \in disabledAt[u]..now
  BY <1>0 DEF CatalogOK, Times
<1>3. Evolves
  BY <1>0, <1>2, DeletionEvolves DEF Exists, Enabled
<1>4. CatalogOK'
  BY <1>0, <1>1 DEF CatalogOK
<1>5. RowsOK' /\ UsedSessionsStay'
  BY <1>0, <1>1, RowsStay
<1>6. SocketsOK' /\ UNCHANGED <<link, confirmed>>
  BY <1>0 DEF SocketsOK, sockets
<1> QED
  BY <1>3, <1>4, <1>5, <1>6

\* An expired session is deleted in this unit.
LEMMA ExpireKeeps ==
  ASSUME AccessInv, NEW t \in Requests \cup Connections, ExpireSession(t) PROVE AccessInv'
<1>1. /\ Evolves /\ CatalogOK' /\ RowsOK' /\ UsedSessionsStay' /\ SocketsOK'
      /\ UNCHANGED <<link, confirmed>> /\ LimiterOK'
  BY DeletionKeeps DEF ExpireSession, AccessInv, LimiterOK
<1>2. /\ call[t] \in Calls /\ t \in Threads /\ t \notin Operators /\ Goto(t, "refused", call[t])
      /\ t \in Connections => StreamOK(t, "expire", call[t])
      /\ CatalogOK /\ SocketsOK
  BY AtPlace, Kinds DEF ExpireSession, AccessInv
<1>3. PlaceOK(t, "refused", call[t]) /\ ReaderOK("refused", call[t])
  BY <1>2, Kinds DEF PlaceOK, ReaderOK, LoginPlaces, AccessPlaces
<1>4. t \in Connections => StreamOK(t, "refused", call[t])
  BY <1>2 DEF StreamOK
<1>5. \A w : /\ PlaceOK(t, "refused", w) => PlaceOK(t, "refused", w)'
             /\ ReaderOK("refused", w) => ReaderOK("refused", w)'
             /\ t \in Connections /\ StreamOK(t, "refused", w) => StreamOK(t, "refused", w)'
  BY <1>1, <1>2, KnowledgeStays
<1>6. PICK w \in Calls : w = call[t]
  BY <1>2
<1>7. PlaceOK(t, "refused", w)' /\ ReaderOK("refused", w)'
  BY <1>3, <1>5, <1>6
<1>8. t \in Connections => StreamOK(t, "refused", w)'
  BY <1>4, <1>5, <1>6
<1> QED
  BY <1>1, <1>2, <1>6, <1>7, <1>8, StepKeeps DEF Places, AccessPlaces

\* So is one that logs out.
LEMMA LogoutKeeps ==
  ASSUME AccessInv, NEW t \in Requests \cup Operators, NEW k \in Tokens, Logout(t, k)
  PROVE  AccessInv'
<1>1. /\ Evolves /\ CatalogOK' /\ RowsOK' /\ UsedSessionsStay' /\ SocketsOK'
      /\ UNCHANGED <<link, confirmed>> /\ LimiterOK'
  BY DeletionKeeps DEF Logout, AccessInv, LimiterOK
<1> QED
  BY <1>1, CatalogKeeps DEF Logout

\* The server deletes what expired when it starts.
LEMMA StartServerKeeps ==
  ASSUME AccessInv, StartServer PROVE AccessInv'
<1>0. CatalogOK /\ SocketsOK /\ RowsOK /\ UsedSessionsStay /\ LimiterOK
  BY DEF AccessInv
<1> DEFINE T == {k \in Tokens : web[k] # Nothing /\ Expired(web[k])}
<1>1. DeleteRows(T) /\ server' = "up"
      /\ UNCHANGED <<now, attempts, accounts, issued, disabledAt, threads, sockets, lastUse>>
  BY DEF StartServer
<1> HIDE DEF T
<1>2. /\ web' \in [Tokens -> Row \cup {Nothing}] /\ ended' \in [Tokens -> Times]
      /\ \A k \in Tokens : web'[k] \in {web[k], Nothing}
  BY <1>0, <1>1, Deleted
<1>3. \A u \in Users : disabledAt[u] \in disabledAt[u]..now
  BY <1>0 DEF CatalogOK, Times
<1>4. Evolves
  BY <1>0, <1>1, <1>3, DeletionEvolves DEF Exists, Enabled
<1>5. CatalogOK' /\ SocketsOK' /\ LimiterOK' /\ UNCHANGED <<link, confirmed>>
  BY <1>0, <1>1, <1>2 DEF CatalogOK, SocketsOK, LimiterOK, sockets
<1>6. RowsOK' /\ UsedSessionsStay'
  BY <1>0, <1>1, <1>2, RowsStay
<1> QED
  BY <1>1, <1>4, <1>5, <1>6, CatalogKeeps

\* A new row for an account that exists.
LEMMA InsertKeeps ==
  ASSUME AccessInv, NEW t \in Requests \cup Operators, InsertSession(t) PROVE AccessInv'
<1>0. /\ CatalogOK /\ SocketsOK /\ RowsOK /\ UsedSessionsStay /\ LimiterOK
      /\ call[t] \in Calls /\ PlaceOK(t, "insert", call[t]) /\ t \in Threads /\ t \notin Connections
  BY AtPlace, Kinds DEF AccessInv, InsertSession
<1> DEFINE k == issued + 1
           life == IF t \in Operators THEN OperatorLifetime ELSE IdleLifetime
           rest == IF t \in Operators THEN OperatorLifetime ELSE AbsoluteLifetime
           row == [user |-> call[t].user, seen |-> now, idle |-> now + life,
                   absolute |-> now + rest]
<1>1. /\ issued < MaxTokens /\ issued' = k /\ web' = [web EXCEPT ![k] = row]
      /\ lastUse' = [lastUse EXCEPT ![k] = now]
      /\ UNCHANGED <<now, attempts, server, accounts, ended, disabledAt, sockets>>
  BY DEF InsertSession
<1>2. life \in Nat /\ rest \in Nat /\ life <= rest /\ (life = rest \/ life = IdleLifetime)
  BY Constants
<1>3. call[t].user \in Users /\ now \in Nat /\ now \in Times /\ issued \in Nat
  BY <1>0 DEF PlaceOK, Exists, CatalogOK, Times
<1>4. row \in Row /\ row.seen = now /\ row.idle = now + life /\ row.absolute = now + rest
  BY <1>2, <1>3 DEF Row
<1>5. k \in Tokens /\ k > issued /\ k \in Nat
  BY <1>1, <1>3, Constants DEF Tokens
<1> HIDE DEF row, life, rest
<1>6. CatalogOK' /\ SocketsOK' /\ LimiterOK' /\ UNCHANGED <<link, confirmed>>
  <2>1. issued' \in 0..MaxTokens
    BY <1>1, <1>3, Constants
  <2>2. web' \in [Tokens -> Row \cup {Nothing}] /\ lastUse' \in [Tokens -> Times]
    BY <1>0, <1>1, <1>3, <1>4 DEF CatalogOK
  <2>3. \A j \in Tokens : lastUse'[j] <= now
    BY <1>0, <1>1, <1>3 DEF CatalogOK
  <2> QED
    BY <1>0, <1>1, <2>1, <2>2, <2>3 DEF CatalogOK, SocketsOK, LimiterOK, sockets
<1>7. web'[k] = row /\ lastUse'[k] = now
      /\ \A j \in Tokens \ {k} : web'[j] = web[j] /\ lastUse'[j] = lastUse[j]
  BY <1>0, <1>1, <1>5 DEF CatalogOK
<1>8. RowsOK'
  <2>1. row.idle >= Earlier(row.seen + IdleLifetime, row.absolute) /\ row.idle <= row.absolute
    BY <1>2, <1>3, <1>4, Constants DEF Earlier
  <2>2. ASSUME NEW j \in Tokens PROVE RowOK(j)'
    <3>1. CASE j = k
      BY <1>1, <1>3, <1>4, <1>7, <2>1, <3>1 DEF RowOK
    <3>2. CASE j # k
      <4>1. RowOK(j) /\ j \in Nat
        BY <1>0 DEF RowsOK, Tokens
      <4> QED
        BY <1>1, <1>3, <1>7, <3>2, <4>1 DEF RowOK
    <3> QED
      BY <3>1, <3>2
  <2> QED
    BY <2>2 DEF RowsOK
<1>9. UsedSessionsStay'
  <2>1. row.idle >= Earlier(now + IdleLifetime - TouchInterval + 1, row.absolute)
    BY <1>2, <1>3, <1>4, Constants DEF Earlier
  <2>2. ASSUME NEW j \in Tokens, web'[j] # Nothing
        PROVE  web'[j].idle >=
                 Earlier(lastUse'[j] + IdleLifetime - TouchInterval + 1, web'[j].absolute)
    BY <1>0, <1>7, <2>1, <2>2 DEF UsedSessionsStay
  <2> QED
    BY <2>2 DEF UsedSessionsStay, Earlier
<1>10. Evolves
  <2>1. \A j \in 1..issued : j \in Tokens /\ j # k /\ web[j] \in Row \cup {Nothing}
                             /\ (web[j] # Nothing => web[j].seen <= now)
    BY <1>0, <1>3, IssuedRows DEF RowsOK, RowOK
  <2>2. \A j \in 1..issued :
       \/ web'[j] = Nothing /\ ended'[j] = IF web[j] = Nothing THEN ended[j] ELSE now
       \/ /\ web[j] # Nothing /\ web'[j] # Nothing /\ ended'[j] = ended[j]
          /\ web'[j].user = web[j].user /\ web'[j].absolute = web[j].absolute
          /\ web'[j].seen \in web[j].seen..now
    BY <1>1, <1>3, <1>7, <2>1 DEF Row, Times
  <2>3. \A u \in Users : disabledAt[u] \in disabledAt[u]..now
    BY <1>0 DEF CatalogOK, Times
  <2>4. issued' \in issued..MaxTokens
    BY <1>1, <1>3, Constants
  <2> QED
    BY <1>1, <2>2, <2>3, <2>4 DEF Evolves, Exists, Enabled
<1>11. CASE Return(t)
  <2>1. PlaceOK(t, "idle", NoCall)' /\ ReaderOK("idle", NoCall)'
    BY <1>0, Kinds DEF PlaceOK, ReaderOK, LoginPlaces
  <2> QED
    BY <1>0, <1>6, <1>8, <1>9, <1>10, <1>11, <2>1, NoCallIsOne, StepKeeps DEF Places, Return
<1>12. CASE Goto(t, "succeeded", call[t]) /\ t \notin Operators
  <2> DEFINE w == call[t]
  <2>1. w \in Calls /\ w.user \in Keys /\ Goto(t, "succeeded", w)
    BY <1>0, <1>3, <1>12, Constants
  <2>2. \A v \in Calls : v.user \in Keys => PlaceOK(t, "succeeded", v)' /\ ReaderOK("succeeded", v)'
    BY <1>0, <1>12 DEF PlaceOK, ReaderOK, LoginPlaces
  <2> QED
    BY <1>0, <1>6, <1>8, <1>9, <1>10, <2>1, <2>2, StepKeeps DEF Places, LoginPlaces
<1> QED
  BY <1>11, <1>12 DEF InsertSession

\* A row is touched, or is gone.
LEMMA TouchKeeps ==
  ASSUME AccessInv, NEW t \in Requests \cup Connections, TouchSession(t) PROVE AccessInv'
<1>0. /\ CatalogOK /\ SocketsOK /\ RowsOK /\ UsedSessionsStay /\ LimiterOK
      /\ call[t] \in Calls /\ ReaderOK("touch", call[t]) /\ t \in Threads /\ t \notin Operators
      /\ t \in Connections => StreamOK(t, "touch", call[t])
  BY AtPlace, Kinds DEF AccessInv, TouchSession
<1>1. PICK w \in Calls : w = call[t]
  BY <1>0
<1>2. /\ w.token \in 1..issued /\ w.token \in Tokens /\ w.row \in Row
      /\ web[w.token] \in Row \cup {Nothing} /\ now \in Nat /\ now \in Times
  BY <1>0, <1>1, IssuedRows DEF ReaderOK, CatalogOK, Times
<1>3. UNCHANGED <<now, attempts, server, accounts, issued, ended, disabledAt, sockets, lastUse>>
  BY DEF TouchSession
<1>4. CASE web[w.token] = Nothing /\ Goto(t, "raised", w) /\ UNCHANGED web
  <2>1. PlaceOK(t, "raised", w) /\ ReaderOK("raised", w)
    BY <1>0, Kinds DEF PlaceOK, ReaderOK, LoginPlaces, AccessPlaces
  <2>2. t \in Connections => StreamOK(t, "raised", w)
    BY <1>0, <1>1 DEF StreamOK
  <2>3. LimiterOK' /\ UNCHANGED catalog
    BY <1>0, <1>3, <1>4 DEF LimiterOK, catalog
  <2> QED
    BY <1>0, <1>3, <1>4, <2>1, <2>2, <2>3, ThreadKeeps DEF Places, AccessPlaces
<1>5. CASE /\ web[w.token] # Nothing /\ Goto(t, "granted", w)
           /\ web' = [web EXCEPT
                ![w.token].seen = now,
                ![w.token].idle = Earlier(now + IdleLifetime, w.row.absolute)]
  <2> DEFINE k == w.token
             idle == Earlier(now + IdleLifetime, w.row.absolute)
             row == [web[k] EXCEPT !.seen = now, !.idle = idle]
  <2>1. web[k] \in Row /\ web[k].absolute = w.row.absolute
    BY <1>0, <1>1, <1>2, <1>5 DEF ReaderOK
  <2>2. idle \in Nat /\ idle <= w.row.absolute
    BY <1>2, Constants DEF Earlier, Row
  <2>3. web' = [web EXCEPT ![k] = row]
    BY <1>0, <1>2, <1>5 DEF CatalogOK
  <2>4. /\ row \in Row /\ row.seen = now /\ row.idle = idle /\ row.absolute = web[k].absolute
        /\ row.user = web[k].user
    BY <1>2, <2>1, <2>2 DEF Row
  <2> HIDE DEF row
  <2>5. web'[k] = row /\ \A j \in Tokens \ {k} : web'[j] = web[j]
    BY <1>0, <1>2, <2>3 DEF CatalogOK
  <2>6. CatalogOK' /\ SocketsOK' /\ LimiterOK' /\ UNCHANGED <<link, confirmed>>
    <3>1. web' \in [Tokens -> Row \cup {Nothing}]
      BY <1>0, <2>3, <2>4 DEF CatalogOK
    <3> QED
      BY <1>0, <1>3, <3>1 DEF CatalogOK, SocketsOK, LimiterOK, sockets
  <2>7. RowsOK'
    <3>1. RowOK(k)'
      <4>1. k <= issued
        BY <1>0, <1>2 DEF CatalogOK
      <4> QED
        BY <1>2, <1>3, <2>1, <2>2, <2>4, <2>5, <4>1 DEF RowOK
    <3>2. ASSUME NEW j \in Tokens \ {k} PROVE RowOK(j)'
      BY <1>0, <1>3, <2>5 DEF RowsOK, RowOK
    <3> QED
      BY <3>1, <3>2 DEF RowsOK
  <2>8. UsedSessionsStay'
    <3>1. row.idle >= Earlier(lastUse[k] + IdleLifetime - TouchInterval + 1, row.absolute)
      <4>1. lastUse[k] \in Nat /\ lastUse[k] <= now /\ w.row.absolute \in Nat
        BY <1>0, <1>2 DEF CatalogOK, Times, Row
      <4> QED
        BY <1>2, <2>1, <2>4, <4>1, Constants DEF Earlier
    <3>2. ASSUME NEW j \in Tokens, web'[j] # Nothing
          PROVE  web'[j].idle >=
                   Earlier(lastUse'[j] + IdleLifetime - TouchInterval + 1, web'[j].absolute)
      BY <1>0, <1>3, <2>5, <3>1, <3>2 DEF UsedSessionsStay
    <3> QED
      BY <3>2 DEF UsedSessionsStay, Earlier
  <2>9. Evolves
    <3>1. \A j \in 1..issued : j \in Tokens /\ web[j] \in Row \cup {Nothing}
                               /\ (web[j] # Nothing => web[j].seen <= now)
      BY <1>0, IssuedRows DEF RowsOK, RowOK
    <3>2. ASSUME NEW j \in 1..issued
          PROVE
             \/ web'[j] = Nothing /\ ended'[j] = IF web[j] = Nothing THEN ended[j] ELSE now
             \/ /\ web[j] # Nothing /\ web'[j] # Nothing /\ ended'[j] = ended[j]
                /\ web'[j].user = web[j].user /\ web'[j].absolute = web[j].absolute
                /\ web'[j].seen \in web[j].seen..now
      <4>1. CASE j = k
        <5>1. row # Nothing
          BY <2>4, NothingIsNoRow
        <5>2. web[k].seen \in Nat /\ web[k].seen <= now
          BY <1>2, <1>5, <2>1, <3>1 DEF Row, Times
        <5> QED
          BY <1>2, <1>3, <1>5, <2>4, <2>5, <4>1, <5>1, <5>2
      <4>2. CASE j # k
        BY <1>2, <1>3, <2>5, <3>1, <4>2 DEF Row, Times
      <4> QED
        BY <4>1, <4>2
    <3>3. \A u \in Users : disabledAt[u] \in disabledAt[u]..now
      BY <1>0 DEF CatalogOK, Times
    <3>4. issued' \in issued..MaxTokens
      BY <1>0, <1>3, Constants DEF CatalogOK
    <3> QED
      BY <1>3, <3>2, <3>3, <3>4 DEF Evolves, Exists, Enabled
  <2>10. /\ PlaceOK(t, "touch", w)' /\ ReaderOK("touch", w)'
         /\ t \in Connections => StreamOK(t, "touch", w)'
    <3>1. PlaceOK(t, "touch", w) /\ ReaderOK("touch", w)
          /\ (t \in Connections => StreamOK(t, "touch", w))
      BY <1>0, <1>1, Kinds DEF PlaceOK, LoginPlaces, AccessPlaces
    <3>2. \A v : /\ PlaceOK(t, "touch", v) => PlaceOK(t, "touch", v)'
                 /\ ReaderOK("touch", v) => ReaderOK("touch", v)'
                 /\ t \in Connections /\ StreamOK(t, "touch", v) => StreamOK(t, "touch", v)'
      BY <1>0, <2>6, <2>9, KnowledgeStays
    <3> QED
      BY <3>1, <3>2
  <2>11. PlaceOK(t, "granted", w)'
    BY <1>0, Kinds DEF PlaceOK, LoginPlaces, AccessPlaces
  <2>12. ReaderOK("granted", w)'
    <3>1. web'[w.token].seen = now /\ now' = now
      BY <1>3, <2>4, <2>5
    <3> QED
      BY <1>2, <2>10, <3>1, Constants DEF ReaderOK
  <2>13. t \in Connections => StreamOK(t, "granted", w)'
    BY <2>10 DEF StreamOK
  <2> QED
    BY <1>0, <1>5, <2>6, <2>7, <2>8, <2>9, <2>11, <2>12, <2>13, StepKeeps
       DEF Places, AccessPlaces
<1> QED
  BY <1>1, <1>4, <1>5 DEF TouchSession

\* An account changes; its sessions may end with it.
LEMMA AccountChanges ==
  ASSUME AccessInv, NEW u \in Users, NEW account \in Account, NEW T,
         NEW when \in {now, 0, disabledAt[u]},
         accounts' = [accounts EXCEPT ![u] = account], DeleteRows(T),
         disabledAt' = [disabledAt EXCEPT ![u] = when],
         ~account.disabled \/ when = now \/ (~Enabled(u) /\ when = disabledAt[u]),
         UNCHANGED <<now, server, issued, sockets, lastUse>>
  PROVE  /\ Evolves /\ CatalogOK' /\ RowsOK' /\ UsedSessionsStay' /\ SocketsOK'
         /\ UNCHANGED <<link, confirmed>> /\ Exists(u)'
<1>0. CatalogOK /\ SocketsOK /\ RowsOK /\ UsedSessionsStay
  BY DEF AccessInv
<1>1. /\ web' \in [Tokens -> Row \cup {Nothing}] /\ ended' \in [Tokens -> Times]
      /\ \A k \in Tokens : web'[k] \in {web[k], Nothing}
  BY <1>0, Deleted
<1>2. accounts'[u] = account /\ \A v \in Users \ {u} : accounts'[v] = accounts[v]
  BY <1>0 DEF CatalogOK
<1>3. disabledAt'[u] = when /\ \A v \in Users \ {u} : disabledAt'[v] = disabledAt[v]
  BY <1>0 DEF CatalogOK
<1>4. account # Nothing
  BY NothingIsNoRow
<1>5. now \in Nat /\ \A v \in Users : disabledAt[v] \in Nat /\ disabledAt[v] <= now
  BY <1>0 DEF CatalogOK, Times
<1>6. ASSUME NEW v \in Users
      PROVE  /\ Exists(v) => Exists(v)'
             /\ Enabled(v) => Enabled(v)' \/ disabledAt'[v] = now
             /\ Enabled(v)' \/ disabledAt'[v] \in disabledAt[v]..now
  <2>1. CASE v = u
    BY <1>2, <1>3, <1>4, <1>5, <2>1 DEF Exists, Enabled
  <2>2. CASE v # u
    BY <1>2, <1>3, <1>5, <2>2 DEF Exists, Enabled
  <2> QED
    BY <2>1, <2>2
<1>7. Evolves
  BY <1>0, <1>6, DeletionEvolves
<1>8. CatalogOK'
  <2>1. when \in Times /\ when <= now
    <3>1. now \in Times /\ disabledAt[u] \in Times /\ 0 \in Times
      BY <1>0, Constants DEF CatalogOK, Times
    <3> QED
      BY <1>5, <3>1
  <2>2. disabledAt' \in [Users -> Times] /\ \A v \in Users : disabledAt'[v] <= now
    BY <1>0, <1>3, <1>5, <2>1 DEF CatalogOK
  <2>3. accounts' \in [Users -> Account \cup {Nothing}]
    BY <1>0 DEF CatalogOK
  <2> QED
    BY <1>0, <1>1, <2>2, <2>3 DEF CatalogOK
<1>9. RowsOK' /\ UsedSessionsStay'
  BY <1>0, <1>1, RowsStay
<1>10. SocketsOK' /\ UNCHANGED <<link, confirmed>>
  BY <1>0 DEF SocketsOK, sockets
<1>11. Exists(u)'
  BY <1>2, <1>4 DEF Exists
<1> QED
  BY <1>7, <1>8, <1>9, <1>10, <1>11

\* replace_password is such a change.
LEMMA PasswordReplaced ==
  ASSUME AccessInv, NEW u, Exists(u), NEW password \in 0..MaxPasswords,
         ReplacePassword(u, password),
         UNCHANGED <<now, server, sockets, lastUse>>
  PROVE  /\ Evolves /\ CatalogOK' /\ RowsOK' /\ UsedSessionsStay' /\ SocketsOK'
         /\ UNCHANGED <<link, confirmed>>
<1>0. CatalogOK /\ u \in Users /\ accounts[u] \in Account
  BY DEF AccessInv, CatalogOK, Exists
<1> DEFINE account == [accounts[u] EXCEPT !.password = password, !.outdated = FALSE]
<1>1. account \in Account /\ account.disabled = accounts[u].disabled
  BY <1>0 DEF Account
<1>2. accounts' = [accounts EXCEPT ![u] = account] /\ DeleteRows(SessionsOf(u))
  BY <1>0 DEF ReplacePassword, CatalogOK
<1>3. /\ disabledAt' = [disabledAt EXCEPT ![u] = disabledAt[u]]
      /\ UNCHANGED <<now, server, issued, sockets, lastUse>>
  BY <1>0 DEF ReplacePassword, CatalogOK
<1>4. ~account.disabled \/ (~Enabled(u) /\ disabledAt[u] = disabledAt[u])
  BY <1>1 DEF Enabled
<1> HIDE DEF account
<1> QED
  BY <1>0, <1>1, <1>2, <1>3, <1>4, AccountChanges

\* A rehash replaces the password of the account that logs in.
LEMMA RehashKeeps ==
  ASSUME AccessInv, NEW t \in Requests, Rehash(t) PROVE AccessInv'
<1>0. /\ call[t] \in Calls /\ PlaceOK(t, "rehash", call[t]) /\ t \in Threads /\ t \notin Connections
      /\ LimiterOK /\ CatalogOK
  BY AtPlace, Kinds DEF Rehash, AccessInv
<1>1. PICK w \in Calls : w = call[t]
  BY <1>0
<1>2. Exists(w.user) /\ w.typed \in 0..MaxPasswords /\ ReplacePassword(w.user, w.typed)
  BY <1>0, <1>1 DEF PlaceOK, Calls, Rehash
<1>3. /\ Evolves /\ CatalogOK' /\ RowsOK' /\ UsedSessionsStay' /\ SocketsOK'
      /\ UNCHANGED <<link, confirmed>> /\ LimiterOK'
  BY <1>0, <1>2, PasswordReplaced DEF Rehash, LimiterOK
<1>4. Goto(t, "issue", w)
  BY <1>1 DEF Rehash
<1>5. PlaceOK(t, "issue", w)' /\ ReaderOK("issue", w)'
  BY <1>0, <1>1, Kinds DEF PlaceOK, ReaderOK, LoginPlaces
<1> QED
  BY <1>0, <1>1, <1>3, <1>4, <1>5, StepKeeps DEF Places, LoginPlaces

\* An operator replaces a password.
LEMMA SetPasswordKeeps ==
  ASSUME AccessInv, NEW o \in Operators, NEW u \in Users, SetPassword(o, u) PROVE AccessInv'
<1>1. Exists(u) /\ accounts[u].password + 1 \in 0..MaxPasswords
  BY Constants DEF SetPassword, AccessInv, CatalogOK, Exists, Account
<1>2. /\ Evolves /\ CatalogOK' /\ RowsOK' /\ UsedSessionsStay' /\ SocketsOK'
      /\ UNCHANGED <<link, confirmed>> /\ LimiterOK'
  BY <1>1, PasswordReplaced DEF SetPassword, AccessInv, LimiterOK
<1> QED
  BY <1>2, CatalogKeeps DEF SetPassword

\* No session ends.
LEMMA NothingDeleted ==
  ASSUME CatalogOK, UNCHANGED <<web, ended>> PROVE DeleteRows({})
  BY DEF CatalogOK, DeleteRows

\* An account is created where there was none.
LEMMA CreateUserKeeps ==
  ASSUME AccessInv, NEW o \in Operators, NEW u \in Users, NEW outdated \in BOOLEAN,
         CreateUser(o, u, outdated)
  PROVE  AccessInv'
<1>0. CatalogOK /\ LimiterOK
  BY DEF AccessInv
<1> DEFINE account == [disabled |-> FALSE, password |-> 0, outdated |-> outdated]
<1>1. account \in Account /\ ~account.disabled
  BY Constants DEF Account
<1>2. accounts' = [accounts EXCEPT ![u] = account] /\ DeleteRows({})
  BY <1>0, NothingDeleted DEF CreateUser
<1>3. /\ disabledAt' = [disabledAt EXCEPT ![u] = disabledAt[u]]
      /\ UNCHANGED <<now, server, issued, sockets, lastUse, attempts>>
  BY <1>0 DEF CreateUser, CatalogOK
<1> HIDE DEF account
<1>4. /\ Evolves /\ CatalogOK' /\ RowsOK' /\ UsedSessionsStay' /\ SocketsOK'
      /\ UNCHANGED <<link, confirmed>> /\ LimiterOK'
  BY <1>0, <1>1, <1>2, <1>3, AccountChanges DEF LimiterOK
<1> QED
  BY <1>4, CatalogKeeps DEF CreateUser

\* An account is enabled again.
LEMMA EnableUserKeeps ==
  ASSUME AccessInv, NEW o \in Operators, NEW u \in Users, EnableUser(o, u) PROVE AccessInv'
<1>0. CatalogOK /\ LimiterOK /\ accounts[u] \in Account
  BY DEF AccessInv, CatalogOK, EnableUser, Exists
<1> DEFINE account == [accounts[u] EXCEPT !.disabled = FALSE]
<1>1. account \in Account /\ ~account.disabled
  BY <1>0 DEF Account
<1>2. accounts' = [accounts EXCEPT ![u] = account] /\ DeleteRows({})
  BY <1>0, NothingDeleted DEF EnableUser, CatalogOK
<1>3. /\ disabledAt' = [disabledAt EXCEPT ![u] = 0]
      /\ UNCHANGED <<now, server, issued, sockets, lastUse, attempts>>
  BY <1>0 DEF EnableUser
<1> HIDE DEF account
<1>4. /\ Evolves /\ CatalogOK' /\ RowsOK' /\ UsedSessionsStay' /\ SocketsOK'
      /\ UNCHANGED <<link, confirmed>> /\ LimiterOK'
  BY <1>0, <1>1, <1>2, <1>3, AccountChanges DEF LimiterOK
<1> QED
  BY <1>4, CatalogKeeps DEF EnableUser

\* An account is disabled, and its sessions end.
LEMMA WriteDisabledKeeps ==
  ASSUME AccessInv, NEW o \in Operators, WriteDisabled(o) PROVE AccessInv'
<1>0. /\ call[o] \in Calls /\ PlaceOK(o, "disable", call[o])
      /\ o \in Threads /\ o \notin Connections
      /\ LimiterOK /\ CatalogOK
  BY AtPlace, Kinds DEF WriteDisabled, AccessInv
<1>1. PICK u : u = call[o].user
  OBVIOUS
<1>2. Exists(u) /\ u \in Users /\ accounts[u] \in Account
  BY <1>0, <1>1 DEF PlaceOK, Exists, CatalogOK
<1> DEFINE account == [accounts[u] EXCEPT !.disabled = TRUE]
<1>3. account \in Account
  BY <1>2 DEF Account
<1>4. accounts' = [accounts EXCEPT ![u] = account] /\ DeleteRows(SessionsOf(u))
  BY <1>0, <1>1, <1>2 DEF WriteDisabled, CatalogOK
<1>5. /\ disabledAt' = [disabledAt EXCEPT ![u] = now] /\ Goto(o, "idle", NoCall)
      /\ UNCHANGED <<now, server, issued, sockets, lastUse, attempts>>
  BY <1>1 DEF WriteDisabled, Return
<1> HIDE DEF account
<1>6. /\ Evolves /\ CatalogOK' /\ RowsOK' /\ UsedSessionsStay' /\ SocketsOK'
      /\ UNCHANGED <<link, confirmed>> /\ LimiterOK'
  BY <1>0, <1>2, <1>3, <1>4, <1>5, AccountChanges DEF LimiterOK
<1>7. PlaceOK(o, "idle", NoCall)' /\ ReaderOK("idle", NoCall)'
  BY Kinds DEF PlaceOK, ReaderOK, LoginPlaces
<1> QED
  BY <1>0, <1>5, <1>6, <1>7, NoCallIsOne, StepKeeps DEF Places

\* An operator reads before it writes.
LEMMA OperatorReadsKeeps ==
  ASSUME AccessInv, NEW o \in Operators, NEW u \in Users,
         DisableUser(o, u) \/ OperatorSession(o, u)
  PROVE  AccessInv'
<1>0. /\ o \in Threads /\ o \notin Connections /\ LimiterOK' /\ Exists(u) /\ u \in Keys
      /\ UNCHANGED <<now, server, catalog, sockets, lastUse>>
  BY Kinds, Constants DEF DisableUser, OperatorSession, AccessInv, LimiterOK, Enabled
<1>1. CASE DisableUser(o, u)
  <2>0. PICK owners \in SUBSET Users : owners = EnabledOwners
    BY DEF EnabledOwners
  <2> DEFINE w == [NoCall EXCEPT !.user = u, !.row = owners]
  <2>1. w \in Calls /\ w.user = u
    BY <1>0, <2>0, Filled
  <2>2. PlaceOK(o, "disable", w) /\ ReaderOK("disable", w)
    BY <1>0, <2>1, Kinds DEF PlaceOK, ReaderOK, LoginPlaces
  <2>3. Goto(o, "disable", w)
    BY <1>1, <2>0 DEF DisableUser
  <2> QED
    BY <1>0, <2>1, <2>2, <2>3, ThreadKeeps DEF Places
<1>2. CASE OperatorSession(o, u)
  <2> DEFINE w == [NoCall EXCEPT !.user = u]
  <2>1. w \in Calls /\ w.user = u
    BY <1>0, Constants DEF Calls, NoCall
  <2>2. PlaceOK(o, "issue", w) /\ ReaderOK("issue", w)
    BY <1>0, <2>1, Kinds DEF PlaceOK, ReaderOK, LoginPlaces
  <2>3. Goto(o, "issue", w)
    BY <1>2 DEF OperatorSession
  <2> QED
    BY <1>0, <2>1, <2>2, <2>3, ThreadKeeps DEF Places, LoginPlaces
<1> QED
  BY <1>1, <1>2

\* The clock moves only while no call is under way.
LEMMA TickKeeps == ASSUME AccessInv, Tick PROVE AccessInv'
<1>0. CatalogOK /\ SocketsOK /\ RowsOK /\ UsedSessionsStay /\ ThreadsOK /\ LimiterOK
  BY DEF AccessInv
<1>1. /\ now \in Nat /\ now' = now + 1 /\ now' \in Times
      /\ \A t \in Threads : pc[t] = "idle"
      /\ UNCHANGED <<attempts, server, catalog, threads, sockets, lastUse>>
  BY <1>0, Constants DEF Tick, CatalogOK, Times
<1>2. CatalogOK'
  BY <1>0, <1>1 DEF CatalogOK, catalog, Times
<1>3. SocketsOK' /\ ThreadsOK' /\ LimiterOK'
  BY <1>0, <1>1 DEF SocketsOK, ThreadsOK, LimiterOK, sockets, threads, Times
<1>4. RowsOK' /\ UsedSessionsStay'
  <2>1. ASSUME NEW k \in Tokens PROVE RowOK(k)'
    <3>1. RowOK(k) /\ (web[k] # Nothing => web[k].seen \in Nat)
      BY <1>0 DEF RowsOK, CatalogOK, Row, Times
    <3> QED
      BY <1>1, <3>1 DEF RowOK, catalog
  <2>2. UsedSessionsStay'
    BY <1>0, <1>1 DEF UsedSessionsStay, catalog
  <2> QED
    BY <2>1, <2>2 DEF RowsOK
<1>5. ASSUME NEW t \in Threads
      PROVE  PlaceOK(t, pc[t], call[t])' /\ ReaderOK(pc[t], call[t])'
  BY <1>1 DEF PlaceOK, ReaderOK, LoginPlaces, threads
<1>6. ASSUME NEW c \in Connections PROVE StreamOK(c, pc[c], call[c])'
  <2>1. StreamOK(c, pc[c], call[c]) /\ pc[c] = "idle"
    BY <1>1, Kinds DEF AccessInv
  <2> QED
    BY <1>1, <2>1
       DEF StreamOK, GoodSince, Enabled, Exists, MayWrite, threads, catalog, sockets
<1> QED
  BY <1>2, <1>3, <1>4, <1>5, <1>6 DEF AccessInv

\* The server process ends; an operator's command goes on.
LEMMA StopServerKeeps == ASSUME AccessInv, StopServer PROVE AccessInv'
<1>0. CatalogOK /\ SocketsOK /\ RowsOK /\ UsedSessionsStay /\ ThreadsOK
  BY DEF AccessInv
<1>1. /\ UNCHANGED <<now, catalog, lastUse>> /\ server' = "down" /\ DOMAIN attempts' = {}
      /\ pc' = [t \in Threads |-> IF t \in Operators THEN pc[t] ELSE "idle"]
      /\ call' = [t \in Threads |-> IF t \in Operators THEN call[t] ELSE NoCall]
      /\ link' = [c \in Connections |-> "closed"] /\ held' = [c \in Connections |-> 0]
      /\ sounding' = {} /\ capture' = NoCapture /\ confirmed' = [c \in Connections |-> 0]
  BY DEF StopServer
<1>2. CatalogOK'
  BY <1>0, <1>1 DEF CatalogOK, catalog
<1>3. SocketsOK' /\ LimiterOK'
  <2>1. 0 \in Times /\ now \in Nat
    BY <1>0, Constants DEF CatalogOK, Times
  <2> QED
    BY <1>1, <2>1 DEF SocketsOK, LimiterOK, NoCapture
<1>4. ThreadsOK'
  BY <1>0, <1>1, NoCallIsOne DEF ThreadsOK, Places
<1>5. RowsOK' /\ UsedSessionsStay'
  BY <1>0, <1>1 DEF RowsOK, RowOK, UsedSessionsStay, catalog
<1>6. Evolves
  BY <1>0, <1>1, StillEvolves
<1>7. ASSUME NEW t \in Threads
      PROVE  PlaceOK(t, pc[t], call[t])' /\ ReaderOK(pc[t], call[t])'
  <2>1. CASE t \in Operators
    <3>1. \A q, v : /\ PlaceOK(t, q, v) => PlaceOK(t, q, v)'
                    /\ ReaderOK(q, v) => ReaderOK(q, v)'
      BY <1>0, <1>6, KnowledgeStays
    <3>2. pc'[t] = pc[t] /\ call'[t] = call[t]
      BY <1>1, <2>1
    <3> QED
      BY <3>1, <3>2 DEF AccessInv
  <2>2. CASE t \notin Operators
    <3>1. pc'[t] = "idle"
      BY <1>1, <2>2
    <3> QED
      BY <2>2, <3>1 DEF PlaceOK, ReaderOK, LoginPlaces
  <2> QED
    BY <2>1, <2>2
<1>8. ASSUME NEW c \in Connections PROVE StreamOK(c, pc[c], call[c])'
  <2>1. pc'[c] = "idle" /\ link'[c] = "closed"
    BY <1>1, Kinds
  <2> QED
    BY <2>1 DEF StreamOK
<1> QED
  BY <1>2, <1>3, <1>4, <1>5, <1>7, <1>8 DEF AccessInv

\* A step of a WebSocket's handler that leaves the catalog.
LEMMA SocketKeeps ==
  ASSUME AccessInv, NEW c \in Connections, NEW p \in Places, NEW w \in Calls, Goto(c, p, w),
         UNCHANGED <<now, server, attempts, catalog, lastUse>>, SocketsOK',
         \A d \in Connections \ {c} : link'[d] = link[d] /\ confirmed'[d] = confirmed[d],
         p \in {"idle", "message"}, StreamOK(c, p, w)'
  PROVE  AccessInv'
<1>1. CatalogOK /\ RowsOK /\ UsedSessionsStay /\ LimiterOK
  BY DEF AccessInv
<1>2. Evolves
  BY <1>1, StillEvolves
<1>3. CatalogOK' /\ LimiterOK'
  BY <1>1 DEF CatalogOK, LimiterOK, catalog
<1>4. RowsOK' /\ UsedSessionsStay'
  BY <1>1 DEF RowsOK, RowOK, UsedSessionsStay, catalog
<1>5. PlaceOK(c, p, w)' /\ ReaderOK(p, w)'
  BY Kinds DEF PlaceOK, ReaderOK, LoginPlaces
<1> QED
  BY <1>2, <1>3, <1>4, <1>5, Kinds, StepKeeps

\* Close ends a WebSocket.
LEMMA Closed ==
  ASSUME AccessInv, NEW c \in Connections, Close(c),
         capture' \in [id : Nat, phase : {"none", "empty", "sounding", "settling"}],
         UNCHANGED <<now, server, attempts, catalog, lastUse>>
  PROVE  AccessInv'
<1>0. SocketsOK /\ now \in Nat /\ 0 \in Times
  BY Constants DEF AccessInv, CatalogOK, Times
<1>1. /\ link' = [link EXCEPT ![c] = "closed"] /\ held' = [held EXCEPT ![c] = 0]
      /\ confirmed' = [confirmed EXCEPT ![c] = 0] /\ sounding' = sounding \ {c}
      /\ Goto(c, "idle", NoCall)
  BY DEF Close, Return
<1>2. SocketsOK' /\ link'[c] = "closed"
  BY <1>0, <1>1 DEF SocketsOK
<1>3. StreamOK(c, "idle", NoCall)'
  BY <1>2 DEF StreamOK
<1>4. \A d \in Connections \ {c} : link'[d] = link[d] /\ confirmed'[d] = confirmed[d]
  BY <1>0, <1>1 DEF SocketsOK
<1> QED
  BY <1>1, <1>2, <1>3, <1>4, NoCallIsOne, SocketKeeps DEF Places

\* Every way a handler ends closes its WebSocket.
LEMMA EndingsKeep ==
  ASSUME AccessInv, NEW c \in Connections, Except(c) \/ Finally(c) \/ Refused(c) \/ Disconnect(c)
  PROVE  AccessInv'
<1>1. /\ Close(c) /\ UNCHANGED <<now, server, attempts, catalog, lastUse>>
      /\ capture' \in {capture, NoCapture}
  BY DEF Except, Finally, Refused, Disconnect
<1>2. {capture, NoCapture} \subseteq [id : Nat, phase : {"none", "empty", "sounding", "settling"}]
  BY DEF AccessInv, SocketsOK, NoCapture
<1> QED
  BY <1>1, <1>2, Closed

\* The handler stays where it was, or goes on with the message.
LEMMA StaysOpen ==
  ASSUME AccessInv, NEW c \in Connections, pc[c] = "message", Goto(c, "idle", call[c]),
         SocketsOK',
         UNCHANGED <<now, server, attempts, catalog, link, confirmed, lastUse>>
  PROVE  AccessInv'
<1>1. call[c] \in Calls /\ StreamOK(c, "message", call[c]) /\ CatalogOK /\ SocketsOK /\ RowsOK
  BY AtPlace, Kinds DEF AccessInv
<1>2. PICK w \in Calls : w = call[c]
  BY <1>1
<1>3. StreamOK(c, "idle", w)
  BY <1>1, <1>2 DEF StreamOK
<1>4. Evolves
  BY <1>1, StillEvolves
<1>5. StreamOK(c, "idle", w)'
  BY <1>1, <1>3, <1>4, KnowledgeStays
<1> QED
  BY <1>2, <1>5, SocketKeeps DEF Places

\* A capture starts, or the handler ends.
LEMMA StartKeeps ==
  ASSUME AccessInv, NEW c \in Connections, Start(c) PROVE AccessInv'
<1>1. CASE Except(c)
  BY <1>1, EndingsKeep
<1>2. CASE ~Except(c)
  <2>1. PICK id \in 1..Cardinality(Connections) + 1 :
          /\ held' = [held EXCEPT ![c] = id]
          /\ capture' = [id |-> id, phase |-> "empty"]
          /\ Goto(c, "idle", call[c])
          /\ UNCHANGED <<now, attempts, server, catalog, link, confirmed, sounding, lastUse>>
    BY <1>2 DEF Start
  <2>2. id \in Nat
    BY FamilyConstants, FS_CardinalityType
  <2>3. SocketsOK'
    BY <2>1, <2>2 DEF AccessInv, SocketsOK
  <2> QED
    BY <2>1, <2>3, StaysOpen DEF Start
<1> QED
  BY <1>1, <1>2

\* A block is accepted, or the handler ends.
LEMMA AcceptKeeps ==
  ASSUME AccessInv, NEW c \in Connections, AcceptBlock(c) PROVE AccessInv'
<1>1. CASE Except(c)
  BY <1>1, EndingsKeep
<1>2. CASE ~Except(c)
  <2>1. /\ held' = [held EXCEPT ![c] = capture.id]
        /\ capture' = [capture EXCEPT !.phase = "sounding"]
        /\ sounding' = sounding \cup {c} /\ pc[c] = "message"
        /\ Goto(c, "idle", call[c])
        /\ UNCHANGED <<now, attempts, server, catalog, link, confirmed, lastUse>>
    BY <1>2 DEF AcceptBlock
  <2>2. SocketsOK'
    BY <2>1 DEF AccessInv, SocketsOK
  <2> QED
    BY <2>1, <2>2, StaysOpen
<1> QED
  BY <1>1, <1>2

\* A capture stops, or is aborted.
LEMMA StopKeeps ==
  ASSUME AccessInv, NEW c \in Connections, Stop(c) PROVE AccessInv'
<1>1. CASE Except(c)
  BY <1>1, EndingsKeep
<1>2. CASE ~Except(c)
  <2>1. /\ capture' = [capture EXCEPT !.phase = "settling"] /\ Close(c)
        /\ UNCHANGED <<now, attempts, server, catalog, lastUse>>
    BY <1>2 DEF Stop
  <2>2. capture' \in [id : Nat, phase : {"none", "empty", "sounding", "settling"}]
    BY <2>1 DEF AccessInv, SocketsOK
  <2> QED
    BY <2>1, <2>2, Closed
<1> QED
  BY <1>1, <1>2

\* A stopped capture settles.
LEMMA SettleKeeps == ASSUME AccessInv, Settle PROVE AccessInv'
<1>0. CatalogOK /\ SocketsOK /\ RowsOK /\ UsedSessionsStay /\ LimiterOK
  BY DEF AccessInv
<1>1. /\ capture' = NoCapture
      /\ UNCHANGED <<now, attempts, server, catalog, threads, link, confirmed, held, sounding,
                     lastUse>>
  BY DEF Settle
<1>2. SocketsOK' /\ CatalogOK' /\ LimiterOK'
  BY <1>0, <1>1 DEF SocketsOK, CatalogOK, LimiterOK, NoCapture, catalog
<1>3. RowsOK' /\ UsedSessionsStay'
  BY <1>0, <1>1 DEF RowsOK, RowOK, UsedSessionsStay, catalog
<1>4. Evolves
  BY <1>0, <1>1, StillEvolves
<1> QED
  BY <1>1, <1>2, <1>3, <1>4, CatalogKeeps

\* The account of a WebSocket is the one it connected with.
LEMMA ConfirmKeeps ==
  ASSUME AccessInv, NEW c \in Connections, Confirm(c) PROVE AccessInv'
<1>0. /\ CatalogOK /\ SocketsOK /\ RowsOK /\ UsedSessionsStay /\ LimiterOK
      /\ call[c] \in Calls /\ ReaderOK("granted", call[c]) /\ c \in Threads
      /\ StreamOK(c, "granted", call[c]) /\ now \in Nat /\ now \in Times
  BY AtPlace, Kinds DEF AccessInv, Confirm, CatalogOK, Times
<1>1. PICK v \in Calls : v = call[c]
  BY <1>0
<1>2. /\ lastUse' = [lastUse EXCEPT ![v.token] = now]
      /\ UNCHANGED <<now, attempts, server, catalog, held, capture, sounding>>
  BY <1>1 DEF Confirm
<1>3. /\ v.token \in 1..issued /\ v.token \in Tokens /\ v.user \in Users /\ Served(v.token)
      /\ Allowed(v.user) /\ (web[v.token] # Nothing => web[v.token].user = v.user)
  BY <1>0, <1>1, IssuedRows DEF ReaderOK, Row
<1>4. CatalogOK' /\ LimiterOK'
  <2>0. lastUse \in [Tokens -> Times] /\ \A k \in Tokens : lastUse[k] <= now
    BY <1>0 DEF CatalogOK
  <2>1. lastUse' \in [Tokens -> Times] /\ \A k \in Tokens : lastUse'[k] <= now
    BY <1>0, <1>2, <1>3, <2>0
  <2> QED
    BY <1>0, <1>2, <2>1 DEF CatalogOK, LimiterOK, catalog
<1>5. RowsOK'
  BY <1>0, <1>2 DEF RowsOK, RowOK, catalog
<1>6. UsedSessionsStay'
  <2>1. web[v.token] # Nothing =>
          web[v.token].idle >=
            Earlier(now + IdleLifetime - TouchInterval + 1, web[v.token].absolute)
    BY <1>0, <1>1, UseIsAllowed DEF Confirm
  <2>2. \A k \in Tokens : lastUse'[k] = IF k = v.token THEN now ELSE lastUse[k]
    BY <1>0, <1>2 DEF CatalogOK
  <2> QED
    BY <1>0, <1>2, <2>1, <2>2 DEF UsedSessionsStay, catalog
<1>7. Evolves
  BY <1>0, <1>2, StillEvolves
<1>8. CASE MayWrite(v.user)
  <2> DEFINE p == IF link[c] = "closed" THEN "idle" ELSE "message"
             w == [NoCall EXCEPT !.user = v.user, !.token = v.token]
  <2>1. w \in Calls /\ w.user = v.user /\ w.token = v.token
    BY <1>3, Constants, Filled
  <2>2. /\ confirmed' = [confirmed EXCEPT ![c] = now] /\ link' = [link EXCEPT ![c] = "open"]
        /\ Goto(c, p, w)
    BY <1>1, <1>8 DEF Confirm
  <2> HIDE DEF w
  <2>3. PICK q \in {"idle", "message"} : q = p
    OBVIOUS
  <2> HIDE DEF p
  <2>4. /\ SocketsOK' /\ link'[c] = "open" /\ confirmed'[c] = now /\ now' = now
        /\ \A d \in Connections \ {c} : link'[d] = link[d] /\ confirmed'[d] = confirmed[d]
    BY <1>0, <1>2, <2>2 DEF SocketsOK
  <2>5. w.user \in Users /\ w.token \in 1..issued' /\ MayWrite(w.user)'
        /\ (web'[w.token] # Nothing => web'[w.token].user = w.user)
    BY <1>2, <1>3, <1>8, <2>1 DEF catalog, MayWrite
  <2>6. web'[w.token] # Nothing \/ ended'[w.token] >= now
    BY <1>0, <1>2, <1>3, <2>1 DEF Served, catalog
  <2>7. Enabled(w.user)' \/ disabledAt'[w.user] >= now
    BY <1>0, <1>2, <1>3, <2>1 DEF Allowed, Enabled, Exists, catalog
  <2>8. PICK u \in Calls : u = w
    BY <2>1
  <2>9. StreamOK(c, q, u)'
    BY <1>0, <2>4, <2>5, <2>6, <2>7, <2>8, Constants DEF StreamOK, GoodSince
  <2>10. PlaceOK(c, q, u)' /\ ReaderOK(q, u)'
    BY Kinds DEF PlaceOK, ReaderOK, LoginPlaces
  <2>11. Goto(c, q, u)
    BY <2>2, <2>3, <2>8
  <2> QED
    BY <1>0, <1>4, <1>5, <1>6, <1>7, <2>4, <2>9, <2>10, <2>11, StepKeeps DEF Places
<1>9. CASE ~MayWrite(v.user)
  <2>1. Goto(c, "idle", NoCall) /\ UNCHANGED <<link, confirmed>>
    BY <1>1, <1>9 DEF Confirm, Return
  <2>2. link[c] # "open"
    BY <1>0, <1>1, <1>9 DEF StreamOK
  <2>3. SocketsOK'
    BY <1>0, <1>2, <2>1 DEF SocketsOK
  <2>4. PlaceOK(c, "idle", NoCall)' /\ ReaderOK("idle", NoCall)' /\ StreamOK(c, "idle", NoCall)'
    BY <2>1, <2>2, Kinds DEF PlaceOK, ReaderOK, StreamOK, LoginPlaces
  <2> QED
    BY <1>0, <1>4, <1>5, <1>6, <1>7, <2>1, <2>3, <2>4, NoCallIsOne, StepKeeps DEF Places
<1> QED
  BY <1>8, <1>9

\* The invariant holds at first.
LEMMA InitIsOK == Init => AccessInv
<1> SUFFICES ASSUME Init PROVE AccessInv
  OBVIOUS
<1>1. 0 \in Times /\ MaxTime \in Times /\ 0 \in 0..MaxTokens
  BY Constants DEF Times
<1>2. CatalogOK
  BY <1>1 DEF Init, CatalogOK, Times
<1>3. ThreadsOK
  BY NoCallIsOne DEF Init, ThreadsOK, Places
<1>4. SocketsOK /\ LimiterOK
  BY <1>1 DEF Init, SocketsOK, LimiterOK, NoCapture
<1>5. RowsOK /\ UsedSessionsStay
  BY DEF Init, RowsOK, RowOK, UsedSessionsStay
<1>6. ASSUME NEW t \in Threads PROVE PlaceOK(t, pc[t], call[t]) /\ ReaderOK(pc[t], call[t])
  BY DEF Init, PlaceOK, ReaderOK, LoginPlaces
<1>7. ASSUME NEW c \in Connections PROVE StreamOK(c, pc[c], call[c])
  BY Kinds DEF Init, StreamOK
<1> QED
  BY <1>2, <1>3, <1>4, <1>5, <1>6, <1>7 DEF AccessInv

\* A stutter keeps the invariant.
LEMMA StutterKeeps == ASSUME AccessInv, UNCHANGED vars PROVE AccessInv'
<1>1. CatalogOK /\ SocketsOK /\ RowsOK /\ UsedSessionsStay /\ LimiterOK
  BY DEF AccessInv
<1>2. UNCHANGED <<now, attempts, server, catalog, threads, sockets, lastUse>>
  BY DEF vars
<1>3. CatalogOK' /\ SocketsOK' /\ LimiterOK' /\ UNCHANGED <<link, confirmed>>
  BY <1>1, <1>2 DEF CatalogOK, SocketsOK, LimiterOK, catalog, sockets
<1>4. RowsOK' /\ UsedSessionsStay'
  BY <1>1, <1>2 DEF RowsOK, RowOK, UsedSessionsStay, catalog
<1>5. Evolves
  BY <1>1, <1>2, StillEvolves
<1> QED
  BY <1>2, <1>3, <1>4, <1>5, CatalogKeeps

\* Every step keeps the invariant.
LEMMA NextKeepsAccess == AccessInv /\ [Next]_vars => AccessInv'
<1> SUFFICES ASSUME AccessInv, Next PROVE AccessInv'
  BY StutterKeeps
<1>1. ASSUME NEW t \in Requests,
             \/ \E name \in Keys, typed \in 0..MaxPasswords : Login(t, name, typed)
             \/ \E token \in Tokens : Request(t, token)
             \/ ReadCredentials(t) \/ Rehash(t) \/ LoginSucceeded(t) \/ LoginFailed(t)
             \/ AnswerRequest(t)
      PROVE  AccessInv'
  BY <1>1, LoginKeeps, RequestKeeps, ReadCredentialsKeeps, RehashKeeps, AnsweredKeeps, AnswerKeeps
<1>2. ASSUME NEW c \in Connections,
             \/ \E token \in Tokens : Connect(c, token)
             \/ Receive(c) \/ Confirm(c) \/ Refused(c) \/ Disconnect(c)
             \/ Start(c) \/ AcceptBlock(c) \/ Stop(c)
      PROVE  AccessInv'
  BY <1>2, ConnectKeeps, ReceiveKeeps, ConfirmKeeps, EndingsKeep, StartKeeps, AcceptKeeps,
     StopKeeps
<1>3. ASSUME NEW t \in Requests \cup Operators,
             ReadAccount(t) \/ InsertSession(t) \/ \E token \in Tokens : Logout(t, token)
      PROVE  AccessInv'
  BY <1>3, ReadAccountKeeps, InsertKeeps, LogoutKeeps
<1>4. ASSUME NEW t \in Requests \cup Connections, ReadUser(t) \/ ExpireSession(t) \/ TouchSession(t)
      PROVE  AccessInv'
  BY <1>4, ReadUserKeeps, ExpireKeeps, TouchKeeps
<1>5. ASSUME NEW o \in Operators,
             \/ WriteDisabled(o)
             \/ \E u \in Users :
                  \/ \E outdated \in Hashes : CreateUser(o, u, outdated)
                  \/ SetPassword(o, u) \/ DisableUser(o, u) \/ EnableUser(o, u)
                  \/ OperatorSession(o, u)
      PROVE  AccessInv'
  BY <1>5, FamilyConstants, WriteDisabledKeeps, CreateUserKeeps, SetPasswordKeeps,
     OperatorReadsKeeps, EnableUserKeeps
<1> QED
  BY <1>1, <1>2, <1>3, <1>4, <1>5, StartServerKeeps, StopServerKeeps, TickKeeps, SettleKeeps
     DEF Next

\* The invariant holds throughout.
LEMMA AccessInvariant == Spec => []AccessInv
  BY InitIsOK, NextKeepsAccess, PTL DEF Spec

-----------------------------------------------------------------------------
(* Who is served.                                                          *)

\* A session is used by a thread that found it good, or it is new.
LEMMA UsedByAThread ==
  ASSUME AccessInv, Next, NEW k \in 1..issued, lastUse'[k] # lastUse[k]
  PROVE  \E t \in Threads : pc[t] = "granted" /\ call[t].token = k
<1>0. CatalogOK /\ k \in Tokens
  BY IssuedRows DEF AccessInv
<1>1. ASSUME NEW t \in Requests, AnswerRequest(t)
      PROVE  \E s \in Threads : pc[s] = "granted" /\ call[s].token = k
  BY <1>0, <1>1, Kinds DEF AnswerRequest
<1>2. ASSUME NEW c \in Connections, Confirm(c)
      PROVE  \E s \in Threads : pc[s] = "granted" /\ call[s].token = k
  <2>1. lastUse' = [lastUse EXCEPT ![call[c].token] = now] /\ pc[c] = "granted" /\ c \in Threads
    BY <1>2, Kinds DEF Confirm
  <2>2. lastUse \in [Tokens -> Times]
    BY <1>0 DEF CatalogOK
  <2>3. call[c].token = k
    BY <1>0, <2>1, <2>2
  <2> QED
    BY <2>1, <2>3
<1>3. ASSUME NEW t \in Requests \cup Operators, InsertSession(t) PROVE FALSE
  <2>1. lastUse' = [lastUse EXCEPT ![issued + 1] = now] /\ issued \in Nat
    BY <1>0, <1>3 DEF InsertSession, CatalogOK
  <2>2. issued + 1 # k
    BY <2>1
  <2>3. lastUse \in [Tokens -> Times]
    BY <1>0 DEF CatalogOK
  <2> QED
    BY <1>0, <2>1, <2>2, <2>3
<1>4. ASSUME NEW t \in Requests,
             \/ \E name \in Keys, typed \in 0..MaxPasswords : Login(t, name, typed)
             \/ \E token \in Tokens : Request(t, token)
             \/ ReadCredentials(t) \/ Rehash(t) \/ LoginSucceeded(t) \/ LoginFailed(t)
      PROVE  lastUse' = lastUse
  BY <1>4 DEF Login, Request, ReadCredentials, Rehash, LoginSucceeded, LoginFailed
<1>5. ASSUME NEW c \in Connections,
             \/ \E token \in Tokens : Connect(c, token)
             \/ Receive(c) \/ Refused(c) \/ Disconnect(c) \/ Start(c) \/ AcceptBlock(c) \/ Stop(c)
      PROVE  lastUse' = lastUse
  BY <1>5 DEF Connect, Receive, Refused, Disconnect, Start, AcceptBlock, Stop, Except, Finally
<1>6. ASSUME NEW t \in Requests \cup Connections \cup Operators,
             \/ ReadAccount(t) \/ \E token \in Tokens : Logout(t, token)
             \/ ReadUser(t) \/ ExpireSession(t) \/ TouchSession(t)
      PROVE  lastUse' = lastUse
  BY <1>6 DEF ReadAccount, Logout, ReadUser, ExpireSession, TouchSession
<1>7. ASSUME NEW o \in Operators,
             \/ WriteDisabled(o)
             \/ \E u \in Users :
                  \/ \E outdated \in Hashes : CreateUser(o, u, outdated)
                  \/ SetPassword(o, u) \/ DisableUser(o, u) \/ EnableUser(o, u)
                  \/ OperatorSession(o, u)
      PROVE  lastUse' = lastUse
  BY <1>7 DEF WriteDisabled, CreateUser, SetPassword, DisableUser, EnableUser, OperatorSession
<1>8. ASSUME StartServer \/ StopServer \/ Tick \/ Settle PROVE lastUse' = lastUse
  BY <1>8 DEF StartServer, StopServer, Tick, Settle
<1> QED
  BY <1>1, <1>2, <1>3, <1>4, <1>5, <1>6, <1>7, <1>8 DEF Next

\* Rows that were issued come back in no step.
LEMMA EndedStays ==
  ASSUME AccessInv, Next, NEW k \in 1..issued, web[k] = Nothing
  PROVE  web'[k] = Nothing
<1>0. CatalogOK /\ k \in Tokens /\ web \in [Tokens -> Row \cup {Nothing}]
  BY IssuedRows DEF AccessInv, CatalogOK
<1>1. ASSUME \E T : DeleteRows(T) PROVE web'[k] = Nothing
  BY <1>0, <1>1 DEF DeleteRows
<1>2. ASSUME NEW t \in Requests \cup Operators, InsertSession(t) PROVE web'[k] = Nothing
  <2>1. issued \in Nat /\ issued + 1 # k
    BY <1>0 DEF CatalogOK
  <2>2. \A j \in Tokens : j # issued + 1 => web'[j] = web[j]
    BY <1>0, <1>2 DEF InsertSession
  <2> QED
    BY <1>0, <2>1, <2>2
<1>3. ASSUME NEW t \in Requests \cup Connections, TouchSession(t) PROVE web'[k] = Nothing
  BY <1>0, <1>3 DEF TouchSession
<1>4. ASSUME NEW t \in Requests,
             \/ \E name \in Keys, typed \in 0..MaxPasswords : Login(t, name, typed)
             \/ \E token \in Tokens : Request(t, token)
             \/ ReadCredentials(t) \/ LoginSucceeded(t) \/ LoginFailed(t) \/ AnswerRequest(t)
      PROVE  web' = web
  BY <1>4 DEF Login, Request, ReadCredentials, LoginSucceeded, LoginFailed, AnswerRequest, catalog
<1>5. ASSUME NEW c \in Connections,
             \/ \E token \in Tokens : Connect(c, token)
             \/ Receive(c) \/ Confirm(c) \/ Refused(c) \/ Disconnect(c)
             \/ Start(c) \/ AcceptBlock(c) \/ Stop(c)
      PROVE  web' = web
  BY <1>5 DEF Connect, Receive, Confirm, Refused, Disconnect, Start, AcceptBlock, Stop, Except,
     Finally, catalog
<1>6. ASSUME NEW t \in Requests \cup Connections \cup Operators, ReadAccount(t) \/ ReadUser(t)
      PROVE  web' = web
  BY <1>6 DEF ReadAccount, ReadUser, catalog
<1>7. ASSUME NEW o \in Operators, NEW u \in Users,
             \/ \E outdated \in Hashes : CreateUser(o, u, outdated)
             \/ DisableUser(o, u) \/ EnableUser(o, u) \/ OperatorSession(o, u)
      PROVE  web' = web
  BY <1>7 DEF CreateUser, DisableUser, EnableUser, OperatorSession, catalog
<1>8. ASSUME \/ StartServer
             \/ \E t \in Requests : Rehash(t)
             \/ \E t \in Requests \cup Connections : ExpireSession(t)
             \/ \E t \in Requests \cup Operators, token \in Tokens : Logout(t, token)
             \/ \E o \in Operators : WriteDisabled(o) \/ \E u \in Users : SetPassword(o, u)
      PROVE  \E T : DeleteRows(T)
  BY <1>8
     DEF StartServer, Rehash, ExpireSession, Logout, WriteDisabled, SetPassword,
         ReplacePassword
<1>9. ASSUME StopServer \/ Tick \/ Settle PROVE web' = web
  BY <1>9 DEF StopServer, Tick, Settle, catalog
<1> QED
  BY <1>1, <1>2, <1>3, <1>4, <1>5, <1>6, <1>7, <1>8, <1>9 DEF Next

\* Sessions that are used stay; ended sessions and disabled accounts are not
\* served, except by a call that read before.
THEOREM EndedAccessStaysEnded == Spec => AccessEnds
<1>1. AccessInv /\ [Next]_vars =>
        [\A t \in 1..issued : EndedSessionStaysEnded(t) /\ DisabledAccountIsRefused(t)]_vars
  <2> SUFFICES ASSUME AccessInv, Next, NEW k \in 1..issued
               PROVE  EndedSessionStaysEnded(k) /\ DisabledAccountIsRefused(k)
    OBVIOUS
  <2>1. ASSUME lastUse'[k] # lastUse[k]
        PROVE  /\ web[k] = Nothing => ended[k] = now
               /\ \E u \in Users : (Enabled(u) \/ disabledAt[u] = now)
                                /\ \E c \in Threads : call[c].token = k /\ call[c].user = u
    <3>1. PICK t \in Threads : pc[t] = "granted" /\ call[t].token = k
      BY <2>1, UsedByAThread
    <3>2. Served(k) /\ Allowed(call[t].user) /\ call[t].user \in Users
      BY <3>1, AtPlace DEF ReaderOK, Row
    <3> QED
      BY <3>1, <3>2 DEF Served, Allowed
  <2> QED
    BY <2>1, EndedStays DEF EndedSessionStaysEnded, DisabledAccountIsRefused
<1>2. AccessInv => UsedSessionsStay
  BY DEF AccessInv
<1> QED
  BY <1>1, <1>2, AccessInvariant, PTL
     DEF Spec, AccessEnds, EndedSessionStaysEnded, DisabledAccountIsRefused

\* What a WebSocket streams, it streams at most Reauthenticate units after its
\* session ended or its account was disabled.
THEOREM StreamsFollowAccess == Spec => AudioFollowsAccess
<1>1. ASSUME AccessInv, NEW c \in Connections, pc[c] = "message"
      PROVE  /\ web[call[c].token] # Nothing \/ now - ended[call[c].token] < Reauthenticate
             /\ Enabled(call[c].user) \/ now - disabledAt[call[c].user] < Reauthenticate
  <2>1. /\ now - confirmed[c] < Reauthenticate /\ GoodSince(call[c], confirmed[c])
        /\ call[c].token \in 1..issued /\ call[c].user \in Users
    BY <1>1 DEF AccessInv, StreamOK
  <2>2. /\ CatalogOK /\ now \in Nat /\ confirmed[c] \in Nat
        /\ disabledAt[call[c].user] \in Nat
    BY <1>1, <2>1 DEF AccessInv, CatalogOK, SocketsOK, Times
  <2>3. ended[call[c].token] \in Nat
    BY <2>1, <2>2, IssuedRows
  <2> QED
    BY <2>1, <2>2, <2>3, Constants DEF GoodSince
<1>2. AccessInv /\ [Next]_vars =>
        [\A c \in Connections :
          pc[c] = "message" /\ pc'[c] = "idle" /\ c \in sounding' =>
            /\ web[call[c].token] # Nothing \/ now - ended[call[c].token] < Reauthenticate
            /\ Enabled(call[c].user) \/ now - disabledAt[call[c].user] < Reauthenticate]_vars
  BY <1>1
<1> QED
  BY <1>2, AccessInvariant, PTL DEF Spec, AudioFollowsAccess

-----------------------------------------------------------------------------
(* A live capture's listener.                                              *)

ListenerInv ==
  /\ \A c \in Connections : held[c] # 0 => link[c] = "open"
  /\ capture.phase = "none" => capture.id = 0
  /\ capture.phase \in {"empty", "sounding"} =>
       capture.id # 0 /\ \E c \in Connections : held[c] = capture.id

\* The invariant implies the property.
LEMMA ListenersAreOpen == ListenerInv => CaptureHasListener
  BY DEF ListenerInv, CaptureHasListener, IsHeld

\* A handler that ends takes its capture along.
LEMMA ClosedWithCapture ==
  ASSUME SocketsOK, ListenerInv, NEW c \in Connections, Close(c),
         \/ capture' = NoCapture
         \/ capture' = capture /\ ~IsHeld(c)
         \/ capture'.phase = "settling"
  PROVE  ListenerInv'
<1>1. \A d \in Connections :
        IF d = c THEN held'[d] = 0 ELSE held'[d] = held[d] /\ link'[d] = link[d]
  BY DEF Close, SocketsOK
<1>2. \A d \in Connections : held'[d] # 0 => link'[d] = "open"
  BY <1>1 DEF ListenerInv
<1>3. CASE capture' = NoCapture \/ capture'.phase = "settling"
  BY <1>2, <1>3 DEF ListenerInv, NoCapture
<1>4. CASE capture' = capture /\ ~IsHeld(c)
  BY <1>1, <1>2, <1>4 DEF ListenerInv, IsHeld
<1> QED
  BY <1>3, <1>4

\* Every step keeps the listener.
LEMMA StepKeepsListener == ASSUME AccessInv, ListenerInv, Next PROVE ListenerInv'
<1>0. SocketsOK
  BY DEF AccessInv
<1>1. ASSUME UNCHANGED <<link, held, capture>> PROVE ListenerInv'
  BY <1>1 DEF ListenerInv
<1>2. ASSUME NEW c \in Connections, Except(c) PROVE ListenerInv'
  BY <1>0, <1>2, ClosedWithCapture DEF Except
<1>3. ASSUME NEW c \in Connections, Finally(c) PROVE ListenerInv'
  BY <1>0, <1>3, ClosedWithCapture DEF Finally
<1>4. ASSUME NEW c \in Connections, Refused(c) \/ Disconnect(c) PROVE ListenerInv'
  BY <1>2, <1>3, <1>4 DEF Refused, Disconnect
<1>5. ASSUME NEW c \in Connections, Confirm(c) PROVE ListenerInv'
  <2>1. /\ UNCHANGED <<held, capture>>
        /\ link' = link \/ link' = [link EXCEPT ![c] = "open"]
    BY <1>5 DEF Confirm
  <2>2. \A d \in Connections : link[d] = "open" => link'[d] = "open"
    BY <1>0, <2>1 DEF SocketsOK
  <2> QED
    BY <2>1, <2>2 DEF ListenerInv
<1>6. ASSUME NEW c \in Connections, pc[c] = "message" PROVE link[c] = "open"
  BY <1>6 DEF AccessInv, StreamOK
<1>7. ASSUME NEW c \in Connections, Start(c) PROVE ListenerInv'
  <2>1. CASE Except(c)
    BY <1>2, <2>1
  <2>2. CASE ~Except(c)
    <3>1. PICK id \in 1..Cardinality(Connections) + 1 :
            /\ held' = [held EXCEPT ![c] = id] /\ link' = link
            /\ capture' = [id |-> id, phase |-> "empty"]
      BY <1>7, <2>2 DEF Start
    <3>2. id # 0 /\ link[c] = "open"
      BY <1>6, <1>7, FamilyConstants, FS_CardinalityType DEF Start
    <3> QED
      BY <1>0, <3>1, <3>2 DEF ListenerInv, SocketsOK
  <2> QED
    BY <2>1, <2>2
<1>8. ASSUME NEW c \in Connections, AcceptBlock(c) PROVE ListenerInv'
  <2>1. CASE Except(c)
    BY <1>2, <2>1
  <2>2. CASE ~Except(c)
    <3>1. /\ held' = [held EXCEPT ![c] = capture.id] /\ link' = link
          /\ capture' = [capture EXCEPT !.phase = "sounding"]
          /\ held[c] # 0 /\ (IsHeld(c) \/ capture.phase = "empty")
      BY <1>8, <2>2 DEF AcceptBlock
    <3>2. capture.id # 0 /\ link[c] = "open"
      BY <1>6, <1>8, <3>1 DEF ListenerInv, IsHeld, AcceptBlock
    <3>3. held'[c] = capture.id /\ \A d \in Connections \ {c} : held'[d] = held[d]
      BY <1>0, <3>1 DEF SocketsOK
    <3>4. capture'.phase = "sounding" /\ capture'.id = capture.id
      BY <1>0, <3>1 DEF SocketsOK
    <3> QED
      BY <3>1, <3>2, <3>3, <3>4 DEF ListenerInv
  <2> QED
    BY <2>1, <2>2
<1>9. ASSUME NEW c \in Connections, Stop(c) PROVE ListenerInv'
  <2>1. CASE Except(c)
    BY <1>2, <2>1
  <2>2. CASE ~Except(c)
    <3>1. capture' = [capture EXCEPT !.phase = "settling"] /\ Close(c)
      BY <1>9, <2>2 DEF Stop
    <3>2. capture'.phase = "settling"
      BY <1>0, <3>1 DEF SocketsOK
    <3> QED
      BY <1>0, <3>1, <3>2, ClosedWithCapture
  <2> QED
    BY <2>1, <2>2
<1>10. ASSUME StopServer \/ Settle PROVE ListenerInv'
  BY <1>10 DEF StopServer, Settle, ListenerInv, NoCapture
<1>11. ASSUME StartServer \/ Tick PROVE UNCHANGED <<link, held, capture>>
  BY <1>11 DEF StartServer, Tick, sockets
<1>12. ASSUME NEW t \in Requests,
             \/ \E name \in Keys, typed \in 0..MaxPasswords : Login(t, name, typed)
             \/ \E token \in Tokens : Request(t, token)
             \/ ReadCredentials(t) \/ Rehash(t) \/ LoginSucceeded(t) \/ LoginFailed(t)
             \/ AnswerRequest(t)
       PROVE  UNCHANGED <<link, held, capture>>
  BY <1>12 DEF Login, Request, ReadCredentials, Rehash, LoginSucceeded, LoginFailed,
     AnswerRequest, sockets
<1>13. ASSUME NEW c \in Connections, Receive(c) \/ \E token \in Tokens : Connect(c, token)
       PROVE  UNCHANGED <<link, held, capture>>
  BY <1>13 DEF Receive, Connect, sockets
<1>14. ASSUME NEW t \in Requests \cup Connections \cup Operators,
             \/ ReadAccount(t) \/ InsertSession(t) \/ \E token \in Tokens : Logout(t, token)
             \/ ReadUser(t) \/ ExpireSession(t) \/ TouchSession(t)
       PROVE  UNCHANGED <<link, held, capture>>
  BY <1>14 DEF ReadAccount, InsertSession, Logout, ReadUser, ExpireSession, TouchSession, sockets
<1>15. ASSUME NEW o \in Operators,
             \/ WriteDisabled(o)
             \/ \E u \in Users :
                  \/ \E outdated \in Hashes : CreateUser(o, u, outdated)
                  \/ SetPassword(o, u) \/ DisableUser(o, u) \/ EnableUser(o, u)
                  \/ OperatorSession(o, u)
       PROVE  UNCHANGED <<link, held, capture>>
  BY <1>15 DEF WriteDisabled, CreateUser, SetPassword, DisableUser, EnableUser, OperatorSession,
     sockets
<1> QED
  BY <1>1, <1>4, <1>5, <1>7, <1>8, <1>9, <1>10, <1>11, <1>12, <1>13, <1>14, <1>15 DEF Next

\* A live capture has an open WebSocket that holds it.
THEOREM CapturesHaveListeners == Spec => []CaptureHasListener
<1>1. Init => ListenerInv
  BY DEF Init, ListenerInv, NoCapture
<1>2. AccessInv /\ ListenerInv /\ [Next]_vars => ListenerInv'
  <2> SUFFICES ASSUME AccessInv, ListenerInv, UNCHANGED vars PROVE ListenerInv'
    BY StepKeepsListener
  <2> QED
    BY DEF vars, sockets, ListenerInv
<1> QED
  BY <1>1, <1>2, AccessInvariant, ListenersAreOpen, PTL DEF Spec

-----------------------------------------------------------------------------
(* The last owner.                                                         *)

\* Who is about to disable an account saw that it is not the only owner.
OwnerInv ==
  \A o \in Operators : pc[o] = "disable" =>
    call[o].user \notin call[o].row \/ Cardinality(call[o].row) # 1

\* A thread that another one's step does not move.
LEMMA OthersStay ==
  ASSUME ThreadsOK, NEW t, NEW p, NEW w, Goto(t, p, w), NEW o \in Operators, o # t
  PROVE  pc'[o] = pc[o] /\ call'[o] = call[o]
  BY Kinds DEF ThreadsOK, Goto

\* An operator comes to disable an account by reading it.
LEMMA DisablersRead ==
  ASSUME AccessInv, Next, NEW o \in Operators, pc'[o] = "disable"
  PROVE  \/ pc[o] = "disable" /\ call'[o] = call[o]
         \/ \E u \in Users : DisableUser(o, u)
<1>0. ThreadsOK /\ o \in Threads /\ o \notin Requests \cup Connections
  BY Kinds DEF AccessInv
<1> DEFINE Same == pc'[o] = pc[o] /\ call'[o] = call[o]
<1>1. ASSUME NEW t \in Requests,
             \/ \E name \in Keys, typed \in 0..MaxPasswords : Login(t, name, typed)
             \/ \E token \in Tokens : Request(t, token)
             \/ ReadCredentials(t) \/ Rehash(t) \/ LoginSucceeded(t) \/ LoginFailed(t)
             \/ AnswerRequest(t)
      PROVE  Same
  <2>1. \E p, w : Goto(t, p, w)
    BY <1>1
       DEF Login, Request, Authenticate, ReadCredentials, Rehash, LoginSucceeded,
           LoginFailed,
       AnswerRequest, Return
  <2> QED
    BY <1>0, <2>1, OthersStay
<1>2. ASSUME NEW c \in Connections,
             \/ \E token \in Tokens : Connect(c, token)
             \/ Receive(c) \/ Confirm(c) \/ Refused(c) \/ Disconnect(c)
             \/ Start(c) \/ AcceptBlock(c) \/ Stop(c)
      PROVE  Same
  <2>1. \E p, w : Goto(c, p, w)
    BY <1>2 DEF Connect, Authenticate, Receive, Confirm, Refused, Disconnect, Start, AcceptBlock,
       Stop, Except, Finally, Close, Return
  <2> QED
    BY <1>0, <2>1, OthersStay
<1>3. ASSUME NEW t \in Requests \cup Connections, ReadUser(t) \/ ExpireSession(t) \/ TouchSession(t)
      PROVE  Same
  <2>1. \E p, w : Goto(t, p, w)
    BY <1>3 DEF ReadUser, ExpireSession, TouchSession
  <2> QED
    BY <1>0, <2>1, OthersStay
<1>4. ASSUME NEW t \in Requests \cup Operators, ReadAccount(t) \/ InsertSession(t)
      PROVE  Same
  <2>1. PICK p, w : Goto(t, p, w) /\ p # "disable"
    BY <1>4 DEF ReadAccount, InsertSession, Return
  <2>2. o # t
    BY <1>0, <2>1 DEF Goto, ThreadsOK
  <2> QED
    BY <1>0, <2>1, <2>2, OthersStay
<1>5. ASSUME NEW e \in Operators, WriteDisabled(e)
      PROVE  Same
  <2>1. Goto(e, "idle", NoCall)
    BY <1>5 DEF WriteDisabled, Return
  <2>2. o # e
    BY <1>0, <2>1 DEF Goto, ThreadsOK
  <2> QED
    BY <1>0, <2>1, <2>2, OthersStay
<1>6. ASSUME NEW e \in Operators, NEW u \in Users, DisableUser(e, u)
      PROVE  Same \/ DisableUser(o, u)
  <2>1. \E p, w : Goto(e, p, w)
    BY <1>6 DEF DisableUser
  <2> QED
    BY <1>0, <1>6, <2>1, OthersStay
<1>7. ASSUME NEW e \in Operators, NEW u \in Users, OperatorSession(e, u)
      PROVE  Same
  <2>1. PICK w : Goto(e, "issue", w)
    BY <1>7 DEF OperatorSession
  <2>2. o # e
    BY <1>0, <2>1 DEF Goto, ThreadsOK
  <2> QED
    BY <1>0, <2>1, <2>2, OthersStay
<1>8. ASSUME \/ StartServer \/ Tick \/ Settle
             \/ \E t \in Requests \cup Operators, token \in Tokens : Logout(t, token)
             \/ \E e \in Operators, u \in Users :
                  \/ \E outdated \in Hashes : CreateUser(e, u, outdated)
                  \/ SetPassword(e, u) \/ EnableUser(e, u)
      PROVE  Same
  BY <1>8 DEF StartServer, Tick, Settle, Logout, CreateUser, SetPassword, EnableUser, threads
<1>9. ASSUME StopServer PROVE Same
  BY <1>0, <1>9 DEF StopServer
<1> QED
  BY <1>1, <1>2, <1>3, <1>4, <1>5, <1>6, <1>7, <1>8, <1>9 DEF Next

\* Every step keeps what a disabling operator saw.
LEMMA StepKeepsOwner == ASSUME AccessInv, OwnerInv, Next PROVE OwnerInv'
<1> SUFFICES ASSUME NEW o \in Operators, pc'[o] = "disable"
             PROVE  call'[o].user \notin call'[o].row \/ Cardinality(call'[o].row) # 1
  BY DEF OwnerInv
<1>1. CASE pc[o] = "disable" /\ call'[o] = call[o]
  BY <1>1 DEF OwnerInv
<1>2. ASSUME NEW u \in Users, DisableUser(o, u)
      PROVE  call'[o].user \notin call'[o].row \/ Cardinality(call'[o].row) # 1
  <2>1. PICK owners \in SUBSET Users : owners = EnabledOwners
    BY DEF EnabledOwners
  <2>2. call'[o] = [NoCall EXCEPT !.user = u, !.row = owners]
    BY <1>2, <2>1, Kinds DEF DisableUser, Goto, AccessInv, ThreadsOK
  <2>3. call'[o].user = u /\ call'[o].row = owners
    BY <2>2 DEF NoCall
  <2>4. u \notin EnabledOwners \/ Cardinality(EnabledOwners) # 1
    BY <1>2 DEF DisableUser, EnabledOwners, Enabled
  <2> QED
    BY <2>1, <2>3, <2>4
<1> QED
  BY <1>1, <1>2, DisablersRead

\* Only a command that disables an account takes an owner.
LEMMA OwnersStay ==
  ASSUME AccessInv, Next, \A o \in Operators : ~WriteDisabled(o)
  PROVE  EnabledOwners \subseteq EnabledOwners'
<1>0. CatalogOK /\ accounts \in [Users -> Account \cup {Nothing}] /\ Users \subseteq Keys
  BY Constants DEF AccessInv, CatalogOK
<1>1. ASSUME accounts' = accounts PROVE EnabledOwners' = EnabledOwners
  BY <1>1 DEF EnabledOwners, Enabled, Exists
<1>2. ASSUME NEW u, NEW password \in 0..MaxPasswords, ReplacePassword(u, password)
      PROVE  EnabledOwners \subseteq EnabledOwners'
  <2>1. ASSUME NEW v \in Users, Enabled(v) PROVE Enabled(v)'
    <3>1. accounts[v] \in Account /\ ~accounts[v].disabled
      BY <1>0, <2>1 DEF Enabled, Exists
    <3>2. accounts' = [accounts EXCEPT ![u].password = password, ![u].outdated = FALSE]
      BY <1>2 DEF ReplacePassword
    <3>3. accounts'[v] \in Account /\ ~accounts'[v].disabled
      BY <1>0, <3>1, <3>2 DEF Account
    <3> QED
      BY <3>3, NothingIsNoRow DEF Enabled, Exists
  <2> QED
    BY <2>1 DEF EnabledOwners
<1>3. ASSUME NEW t \in Requests, Rehash(t) PROVE EnabledOwners \subseteq EnabledOwners'
  <2>1. t \in Threads /\ call[t] \in Calls
    BY Kinds, AtPlace
  <2>2. call[t].typed \in 0..MaxPasswords
    BY <2>1 DEF Calls
  <2> QED
    BY <1>2, <1>3, <2>2 DEF Rehash
<1>4. ASSUME NEW o \in Operators, NEW u \in Users, SetPassword(o, u)
      PROVE  EnabledOwners \subseteq EnabledOwners'
  <2>1. accounts[u] \in Account /\ accounts[u].password < MaxPasswords
    BY <1>0, <1>4 DEF SetPassword, Exists
  <2>2. accounts[u].password + 1 \in 0..MaxPasswords
    BY <2>1, Constants DEF Account
  <2> QED
    BY <1>2, <1>4, <2>2 DEF SetPassword
<1>5. ASSUME NEW o \in Operators, NEW u \in Users,
             EnableUser(o, u) \/ \E outdated \in Hashes : CreateUser(o, u, outdated)
      PROVE  EnabledOwners \subseteq EnabledOwners'
  <2>1. ~Enabled(u) /\ \A v \in Users \ {u} : accounts'[v] = accounts[v]
    BY <1>0, <1>5 DEF EnableUser, CreateUser, Enabled
  <2> QED
    BY <2>1 DEF EnabledOwners, Enabled, Exists
<1>6. ASSUME NEW t \in Requests,
             \/ \E name \in Keys, typed \in 0..MaxPasswords : Login(t, name, typed)
             \/ \E token \in Tokens : Request(t, token)
             \/ ReadCredentials(t) \/ LoginSucceeded(t) \/ LoginFailed(t) \/ AnswerRequest(t)
      PROVE  accounts' = accounts
  BY <1>6 DEF Login, Request, ReadCredentials, LoginSucceeded, LoginFailed, AnswerRequest, catalog
<1>7. ASSUME NEW c \in Connections,
             \/ \E token \in Tokens : Connect(c, token)
             \/ Receive(c) \/ Confirm(c) \/ Refused(c) \/ Disconnect(c)
             \/ Start(c) \/ AcceptBlock(c) \/ Stop(c)
      PROVE  accounts' = accounts
  BY <1>7 DEF Connect, Receive, Confirm, Refused, Disconnect, Start, AcceptBlock, Stop, Except,
     Finally, catalog
<1>8. ASSUME NEW t \in Requests \cup Connections \cup Operators,
             \/ ReadAccount(t) \/ InsertSession(t) \/ \E token \in Tokens : Logout(t, token)
             \/ ReadUser(t) \/ ExpireSession(t) \/ TouchSession(t)
      PROVE  accounts' = accounts
  BY <1>8 DEF ReadAccount, InsertSession, Logout, ReadUser, ExpireSession, TouchSession, catalog
<1>9. ASSUME NEW o \in Operators, NEW u \in Users, DisableUser(o, u) \/ OperatorSession(o, u)
      PROVE  accounts' = accounts
  BY <1>9 DEF DisableUser, OperatorSession, catalog
<1>10. ASSUME StartServer \/ StopServer \/ Tick \/ Settle PROVE accounts' = accounts
  BY <1>10 DEF StartServer, StopServer, Tick, Settle, catalog
<1> QED
  BY <1>1, <1>3, <1>4, <1>5, <1>6, <1>7, <1>8, <1>9, <1>10 DEF Next

\* The last enabled owner is lost only to a count that was overtaken.
THEOREM LastOwnerIsKept == Spec => LastOwnerStays
<1>1. Init => OwnerInv
  BY Kinds DEF Init, OwnerInv
<1>2. AccessInv /\ OwnerInv /\ [Next]_vars => OwnerInv'
  <2> SUFFICES ASSUME OwnerInv, UNCHANGED vars PROVE OwnerInv'
    BY StepKeepsOwner
  <2> QED
    BY DEF vars, threads, OwnerInv
<1>3. AccessInv /\ OwnerInv /\ [Next]_vars =>
        [EnabledOwners # {} /\ EnabledOwners' = {} =>
          \E o \in Operators : pc[o] = "disable" /\ call[o].row # EnabledOwners]_vars
  <2> SUFFICES ASSUME AccessInv, OwnerInv, Next, EnabledOwners # {}, EnabledOwners' = {}
               PROVE  \E o \in Operators : pc[o] = "disable" /\ call[o].row # EnabledOwners
    OBVIOUS
  <2>1. PICK o \in Operators : WriteDisabled(o)
    BY OwnersStay
  <2>2. EnabledOwners \subseteq {call[o].user}
    <3>1. \A u \in Users \ {call[o].user} : accounts'[u] = accounts[u]
      BY <2>1 DEF WriteDisabled, AccessInv, CatalogOK
    <3> QED
      BY <3>1 DEF EnabledOwners, Enabled, Exists
  <2>3. EnabledOwners = {call[o].user}
    BY <2>2
  <2>4. pc[o] = "disable" /\ Cardinality({call[o].user}) = 1
    BY <2>1, FS_Singleton DEF WriteDisabled
  <2>5. call[o].row # EnabledOwners
    BY <2>3, <2>4 DEF OwnerInv
  <2> QED
    BY <2>4, <2>5
<1> QED
  BY <1>1, <1>2, <1>3, AccessInvariant, PTL DEF Spec, LastOwnerStays

-----------------------------------------------------------------------------
(* The limiter's bounds.                                                   *)

\* Requests that passed the check of a name and have not answered.
InFlight(k) == {t \in Requests : pc[t] \in LoginPlaces /\ call[t].user = k}

LimiterInv ==
  /\ Cardinality(DOMAIN attempts) <= MaxBuckets
  /\ \A k \in DOMAIN attempts :
       attempts[k].count + Cardinality(InFlight(k)) < Limit + Cardinality(Requests)

\* Sets of requests are finite.
LEMMA RequestsAreFinite ==
  ASSUME NEW S \in SUBSET Requests
  PROVE  /\ IsFiniteSet(S) /\ Cardinality(S) \in Nat /\ Cardinality(Requests) \in Nat
         /\ Cardinality(S) <= Cardinality(Requests)
  BY FamilyConstants, FS_Subset, FS_CardinalityType

\* Those in flight are finitely many requests.
LEMMA FlightIsFinite ==
  ASSUME NEW k
  PROVE  /\ InFlight(k) \in SUBSET Requests
         /\ Cardinality(InFlight(k)) \in Nat /\ Cardinality(Requests) \in Nat
         /\ Cardinality(InFlight(k)) <= Cardinality(Requests)
  BY RequestsAreFinite DEF InFlight

\* The table that check and failure keep has room for one more bucket.
LEMMA KeptHasRoom ==
  ASSUME LimiterOK, NEW kept \in Kept, NEW k
  PROVE  /\ kept \subseteq DOMAIN attempts
         /\ Cardinality(kept) <= MaxBuckets /\ Cardinality(kept \cup {k}) <= MaxBuckets
<1>1. kept \subseteq Keys /\ kept \subseteq DOMAIN attempts /\ Cardinality(kept) < MaxBuckets
  BY KeptAreBuckets DEF Kept
<1>2. IsFiniteSet(kept) /\ Cardinality(kept) \in Nat
  BY <1>1, LimiterConstants, FS_Subset, FS_CardinalityType
<1>3. Cardinality(kept \cup {k}) \in {Cardinality(kept), Cardinality(kept) + 1}
  BY <1>2, FS_AddElement
<1> QED
  BY <1>1, <1>2, <1>3, Constants

\* No name is short of room for those who are in flight, while none joins.
LEMMA NoneJoins ==
  ASSUME LimiterOK, LimiterInv, attempts' = attempts,
         \A t \in Requests : pc'[t] \in LoginPlaces =>
           pc[t] \in LoginPlaces /\ call'[t].user = call[t].user
  PROVE  LimiterInv'
<1>1. ASSUME NEW k \in DOMAIN attempts
      PROVE  attempts[k].count + Cardinality(InFlight(k)') < Limit + Cardinality(Requests)
  <2>1. InFlight(k)' \in SUBSET InFlight(k)
    BY DEF InFlight
  <2>2. /\ IsFiniteSet(InFlight(k)) /\ Cardinality(InFlight(k)) \in Nat
        /\ Cardinality(Requests) \in Nat
    BY RequestsAreFinite DEF InFlight
  <2>3. /\ Cardinality(InFlight(k)') <= Cardinality(InFlight(k))
        /\ IsFiniteSet(InFlight(k)')
    BY <2>1, <2>2, FS_Subset
  <2>4. Cardinality(InFlight(k)') \in Nat
    BY <2>3, FS_CardinalityType
  <2>5. attempts[k].count \in Nat
    BY DEF LimiterOK, Bucket
  <2>6. attempts[k].count + Cardinality(InFlight(k)) < Limit + Cardinality(Requests)
    BY DEF LimiterInv
  <2> QED
    BY <2>2, <2>3, <2>4, <2>5, <2>6, Constants
<1>2. ASSUME NEW k PROVE Cardinality(InFlight(k)') = Cardinality(InFlight(k))'
  OBVIOUS
<1> QED
  BY <1>1, <1>2 DEF LimiterInv

\* One request moves, from p to q: who else is in flight stays.
LEMMA FlightMoves ==
  ASSUME ThreadsOK, NEW t \in Requests, NEW p, NEW w, Goto(t, p, w), NEW k
  PROVE  /\ InFlight(k)' \subseteq InFlight(k) \cup {t}
         /\ p \notin LoginPlaces => InFlight(k)' = InFlight(k) \ {t}
         /\ w.user # k => InFlight(k)' = InFlight(k) \ {t}
<1>1. /\ t \in Threads /\ pc'[t] = p /\ call'[t] = w
      /\ \A s \in Requests \ {t} : pc'[s] = pc[s] /\ call'[s] = call[s]
  BY Kinds DEF ThreadsOK, Goto
<1> QED
  BY <1>1 DEF InFlight

\* A login that the check allows joins those in flight.
LEMMA LoginKeepsBound ==
  ASSUME AccessInv, LimiterInv, NEW t \in Requests, NEW name \in Keys,
         NEW typed \in 0..MaxPasswords, Login(t, name, typed)
  PROVE  LimiterInv'
<1>0. LimiterOK /\ ThreadsOK
  BY DEF AccessInv
<1>1. PICK allowed \in BOOLEAN :
        /\ CheckAttempt(name, allowed)
        /\ IF allowed
           THEN Goto(t, "credentials", [NoCall EXCEPT !.user = name, !.typed = typed])
           ELSE Return(t)
  BY DEF Login
<1>2. PICK kept \in Kept :
        /\ attempts' = [x \in kept |-> attempts[x]]
        /\ allowed <=> (name \notin kept \/ attempts[name].count < Limit)
  BY <1>1 DEF CheckAttempt
<1>3. kept \subseteq DOMAIN attempts /\ Cardinality(DOMAIN attempts') <= MaxBuckets
  BY <1>0, <1>2, KeptHasRoom
<1>4. ASSUME NEW k \in kept
      PROVE  attempts[k].count + Cardinality(InFlight(k))' < Limit + Cardinality(Requests)
  <2>1. attempts[k].count \in Nat
    BY <1>0, <1>3 DEF LimiterOK, Bucket
  <2>2. Cardinality(InFlight(k))' \in Nat /\ Cardinality(Requests) \in Nat
        /\ Cardinality(InFlight(k))' <= Cardinality(Requests)
    <3>1. InFlight(k)' \in SUBSET Requests
      BY DEF InFlight
    <3> QED
      BY <3>1, RequestsAreFinite
  <2>3. CASE allowed /\ k = name
    BY <1>2, <1>4, <2>1, <2>2, <2>3, Constants
  <2>4. CASE ~(allowed /\ k = name)
    <3>1. InFlight(k)' = InFlight(k) \ {t}
      <4>1. CASE allowed
        <5> DEFINE w == [NoCall EXCEPT !.user = name, !.typed = typed]
        <5>1. w.user # k
          BY <2>4, <4>1 DEF NoCall
        <5>2. Goto(t, "credentials", w)
          BY <1>1, <4>1
        <5> HIDE DEF w
        <5> QED
          BY <1>0, <5>1, <5>2, FlightMoves
      <4>2. CASE ~allowed
        BY <1>0, <1>1, <4>2, FlightMoves DEF Return, LoginPlaces
      <4> QED
        BY <4>1, <4>2
    <3>2. /\ InFlight(k) \in SUBSET Requests /\ IsFiniteSet(InFlight(k))
          /\ Cardinality(InFlight(k)) \in Nat
      BY RequestsAreFinite DEF InFlight
    <3>3. Cardinality(InFlight(k))' <= Cardinality(InFlight(k))
      <4>1. Cardinality(InFlight(k) \ {t}) =
              IF t \in InFlight(k) THEN Cardinality(InFlight(k)) - 1 ELSE Cardinality(InFlight(k))
        BY <3>2, FS_RemoveElement
      <4> QED
        BY <3>1, <3>2, <4>1
    <3>4. attempts[k].count + Cardinality(InFlight(k)) < Limit + Cardinality(Requests)
      BY <1>3 DEF LimiterInv
    <3> QED
      BY <2>1, <2>2, <3>2, <3>3, <3>4, Constants
  <2> QED
    BY <2>3, <2>4
<1> QED
  BY <1>2, <1>3, <1>4 DEF LimiterInv

\* A login that ends leaves them, and adds a failure at most.
LEMMA AnswerKeepsBound ==
  ASSUME AccessInv, LimiterInv, NEW t \in Requests, LoginSucceeded(t) \/ LoginFailed(t)
  PROVE  LimiterInv'
<1>0. LimiterOK /\ ThreadsOK /\ t \in Threads /\ call[t] \in Calls
  BY Kinds DEF AccessInv, ThreadsOK
<1>1. PICK name : name = call[t].user
  OBVIOUS
<1>2. /\ Goto(t, "idle", NoCall) /\ "idle" \notin LoginPlaces /\ t \in InFlight(name)
      /\ CountFailure(name) \/ ForgetFailures(name)
  BY <1>1 DEF LoginSucceeded, LoginFailed, Return, LoginPlaces, InFlight
<1>3. ASSUME NEW k
      PROVE  /\ Cardinality(InFlight(k))' \in Nat /\ Cardinality(InFlight(k)) \in Nat
             /\ Cardinality(InFlight(k))' <= Cardinality(InFlight(k))
             /\ k = name => Cardinality(InFlight(k))' = Cardinality(InFlight(k)) - 1
             /\ Cardinality(InFlight(k)) <= Cardinality(Requests) /\ Cardinality(Requests) \in Nat
  <2>1. InFlight(k)' = InFlight(k) \ {t}
    BY <1>0, <1>2, FlightMoves
  <2>2. /\ InFlight(k) \in SUBSET Requests /\ IsFiniteSet(InFlight(k))
        /\ Cardinality(InFlight(k)) \in Nat
        /\ Cardinality(InFlight(k)) <= Cardinality(Requests) /\ Cardinality(Requests) \in Nat
    BY RequestsAreFinite DEF InFlight
  <2>3. /\ IsFiniteSet(InFlight(k)')
        /\ Cardinality(InFlight(k))' =
             IF t \in InFlight(k) THEN Cardinality(InFlight(k)) - 1 ELSE Cardinality(InFlight(k))
    BY <2>1, <2>2, FS_RemoveElement
  <2>4. Cardinality(InFlight(k))' \in Nat
    BY <2>3, FS_CardinalityType
  <2> QED
    BY <1>2, <2>2, <2>3, <2>4
<1>4. ASSUME NEW k \in DOMAIN attempts
      PROVE  /\ attempts[k].count \in Nat
             /\ attempts[k].count + Cardinality(InFlight(k)) < Limit + Cardinality(Requests)
  BY <1>0 DEF LimiterOK, Bucket, LimiterInv
<1>5. CASE CountFailure(name)
  <2>1. PICK kept \in Kept :
          attempts' = [x \in kept \cup {name} |->
            IF x # name THEN attempts[x]
            ELSE IF name \in kept THEN [attempts[name] EXCEPT !.count = @ + 1]
            ELSE [count |-> 1, first |-> now]]
    BY <1>5 DEF CountFailure
  <2>2. kept \subseteq DOMAIN attempts /\ Cardinality(DOMAIN attempts') <= MaxBuckets
    BY <1>0, <2>1, KeptHasRoom
  <2>3. ASSUME NEW k \in kept \ {name}
        PROVE  attempts'[k].count + Cardinality(InFlight(k))' < Limit + Cardinality(Requests)
    <3>1. attempts'[k] = attempts[k] /\ k \in DOMAIN attempts
      BY <2>1, <2>2
    <3> QED
      BY <1>3, <1>4, <3>1, Constants
  <2>4. attempts'[name].count + Cardinality(InFlight(name))' < Limit + Cardinality(Requests)
    <3>1. CASE name \in kept
      <4>1. name \in DOMAIN attempts /\ attempts[name] \in Bucket
        BY <1>0, <2>2, <3>1 DEF LimiterOK
      <4>2. attempts'[name].count = attempts[name].count + 1
        BY <2>1, <3>1, <4>1 DEF Bucket
      <4> QED
        BY <1>3, <1>4, <4>1, <4>2, Constants
    <3>2. CASE name \notin kept
      <4>1. attempts'[name].count = 1
        BY <2>1, <3>2
      <4> QED
        BY <1>3, <4>1, Constants
    <3> QED
      BY <3>1, <3>2
  <2> QED
    BY <2>1, <2>2, <2>3, <2>4 DEF LimiterInv
<1>6. CASE ForgetFailures(name)
  <2>1. attempts' = [x \in DOMAIN attempts \ {name} |-> attempts[x]]
    BY <1>6 DEF ForgetFailures
  <2>2. Cardinality(DOMAIN attempts') <= MaxBuckets
    <3>1. IsFiniteSet(DOMAIN attempts)
      BY <1>0, LimiterConstants, FS_Subset DEF LimiterOK
    <3>2. /\ Cardinality(DOMAIN attempts) \in Nat /\ Cardinality(DOMAIN attempts') \in Nat
          /\ Cardinality(DOMAIN attempts') <= Cardinality(DOMAIN attempts)
      <4>1. DOMAIN attempts' \in SUBSET DOMAIN attempts
        BY <2>1
      <4> QED
        BY <3>1, <4>1, FS_Subset, FS_CardinalityType
    <3> QED
      BY <3>2, Constants DEF LimiterInv
  <2>3. ASSUME NEW k \in DOMAIN attempts'
        PROVE  attempts'[k].count + Cardinality(InFlight(k))' < Limit + Cardinality(Requests)
    <3>1. attempts'[k] = attempts[k] /\ k \in DOMAIN attempts
      BY <2>1
    <3> QED
      BY <1>3, <1>4, <3>1, Constants
  <2> QED
    BY <2>2, <2>3 DEF LimiterInv
<1> QED
  BY <1>2, <1>5, <1>6

\* No other step of a request joins those in flight.
LEMMA OthersDoNotJoin ==
  ASSUME AccessInv, Next,
         \A t \in Requests :
           /\ \A name \in Keys, typed \in 0..MaxPasswords : ~Login(t, name, typed)
           /\ ~LoginSucceeded(t) /\ ~LoginFailed(t),
         ~StopServer
  PROVE  /\ attempts' = attempts
         /\ \A t \in Requests : pc'[t] \in LoginPlaces =>
              pc[t] \in LoginPlaces /\ call'[t].user = call[t].user
<1> DEFINE Steady(t) == pc'[t] \in LoginPlaces => pc[t] \in LoginPlaces /\ call'[t] = call[t]
<1>0. ThreadsOK /\ \A t \in Requests : t \in Threads /\ t \notin Connections \cup Operators
  BY Kinds DEF AccessInv
<1>1. ASSUME NEW t, NEW p, NEW w, Goto(t, p, w), NEW s \in Requests \ {t} PROVE Steady(s)
  BY <1>0, <1>1 DEF ThreadsOK, Goto
<1>2. ASSUME NEW t \in Requests, NEW p, NEW w, Goto(t, p, w), NEW s \in Requests,
             p \in LoginPlaces => pc[t] \in LoginPlaces /\ w = call[t]
      PROVE  Steady(s)
  BY <1>0, <1>2 DEF ThreadsOK, Goto
<1>3. ASSUME NEW t \in Requests,
             \/ \E token \in Tokens : Request(t, token)
             \/ ReadCredentials(t) \/ Rehash(t) \/ AnswerRequest(t)
             \/ ReadAccount(t) \/ InsertSession(t)
             \/ ReadUser(t) \/ ExpireSession(t) \/ TouchSession(t)
      PROVE  attempts' = attempts /\ \A s \in Requests : Steady(s)
  <2>1. t \notin Operators
    BY <1>0
  <2> DEFINE Step == \E p, w :
                 Goto(t, p, w) /\ (p \in LoginPlaces => pc[t] \in LoginPlaces /\ w = call[t])
  <2>3. ASSUME \E token \in Tokens : Request(t, token) PROVE Step
    <3>1. \E p \in {"refused", "account"} : \E w : Goto(t, p, w)
      BY <2>3 DEF Request, Authenticate
    <3> QED
      BY <3>1 DEF LoginPlaces
  <2>4. ASSUME ReadCredentials(t) \/ Rehash(t) PROVE Step
    <3>1. pc[t] \in LoginPlaces /\ \E p : Goto(t, p, call[t])
      BY <2>4 DEF ReadCredentials, Rehash, LoginPlaces
    <3> QED
      BY <3>1
  <2>5. ASSUME ReadAccount(t) \/ InsertSession(t) PROVE Step
    <3>1. pc[t] \in LoginPlaces /\ \E p : Goto(t, p, call[t])
      BY <2>1, <2>5 DEF ReadAccount, InsertSession, LoginPlaces
    <3> QED
      BY <3>1
  <2>6. ASSUME AnswerRequest(t) \/ ReadUser(t) \/ ExpireSession(t) \/ TouchSession(t) PROVE Step
    <3>1. \E p \in Places \ LoginPlaces : \E w : Goto(t, p, w)
      BY <2>6 DEF AnswerRequest, ReadUser, ExpireSession, TouchSession, Return, Places,
         AccessPlaces, LoginPlaces
    <3> QED
      BY <3>1
  <2>7. attempts' = attempts
    BY <1>3 DEF Request, ReadCredentials, Rehash, AnswerRequest, ReadAccount, InsertSession,
       ReadUser, ExpireSession, TouchSession
  <2>2. attempts' = attempts /\ Step
    BY <1>3, <2>3, <2>4, <2>5, <2>6, <2>7
  <2> QED
    BY <1>2, <2>2
<1>4. ASSUME NEW t \in Connections \cup Operators,
             \/ \E token \in Tokens : Connect(t, token)
             \/ Receive(t) \/ Confirm(t) \/ Refused(t) \/ Disconnect(t)
             \/ Start(t) \/ AcceptBlock(t) \/ Stop(t)
             \/ ReadAccount(t) \/ InsertSession(t)
             \/ ReadUser(t) \/ ExpireSession(t) \/ TouchSession(t)
             \/ WriteDisabled(t)
             \/ \E u \in Users : DisableUser(t, u) \/ OperatorSession(t, u)
      PROVE  attempts' = attempts /\ \A s \in Requests : Steady(s)
  <2>1. attempts' = attempts /\ \E p, w : Goto(t, p, w)
    BY <1>4 DEF Connect, Authenticate, Receive, Confirm, Refused, Disconnect, Start, AcceptBlock,
       Stop, Except, Finally, Close, ReadAccount, InsertSession, ReadUser, ExpireSession,
       TouchSession, WriteDisabled, DisableUser, OperatorSession, Return
  <2> QED
    BY <1>0, <1>1, <2>1
<1>5. ASSUME \/ StartServer \/ Tick \/ Settle
             \/ \E t \in Requests \cup Operators, token \in Tokens : Logout(t, token)
             \/ \E o \in Operators, u \in Users :
                  \/ \E outdated \in Hashes : CreateUser(o, u, outdated)
                  \/ SetPassword(o, u) \/ EnableUser(o, u)
      PROVE  attempts' = attempts /\ \A s \in Requests : Steady(s)
  BY <1>5 DEF StartServer, Tick, Settle, Logout, CreateUser, SetPassword, EnableUser, threads
<1>6. attempts' = attempts /\ \A s \in Requests : Steady(s)
  BY <1>3, <1>4, <1>5 DEF Next
<1> QED
  BY <1>6

\* Every step keeps the bound.
LEMMA StepKeepsBound == ASSUME AccessInv, LimiterInv, Next PROVE LimiterInv'
<1>1. LimiterOK
  BY DEF AccessInv
<1>2. CASE StopServer
  <2>1. DOMAIN attempts' = {}
    BY <1>2 DEF StopServer
  <2> QED
    BY <2>1, FS_EmptySet, Constants DEF LimiterInv
<1>3. CASE \E t \in Requests, name \in Keys, typed \in 0..MaxPasswords : Login(t, name, typed)
  BY <1>3, LoginKeepsBound
<1>4. CASE \E t \in Requests : LoginSucceeded(t) \/ LoginFailed(t)
  BY <1>4, AnswerKeepsBound
<1> QED
  BY <1>1, <1>2, <1>3, <1>4, OthersDoNotJoin, NoneJoins

\* The invariant implies the type invariant.
LEMMA InvariantTypes == AccessInv => TypeOK
<1> SUFFICES ASSUME AccessInv PROVE TypeOK
  OBVIOUS
<1>1. CatalogOK /\ ThreadsOK /\ SocketsOK /\ LimiterOK /\ RowsOK
  BY DEF AccessInv
<1>2. ASSUME NEW c \in Connections, link[c] = "open" PROVE call[c].token \in Tokens
  BY <1>1, <1>2, IssuedRows DEF AccessInv, StreamOK
<1>3. \A k \in Tokens :
        web[k] = Nothing \/ (web[k] \in Row /\ web[k].idle <= web[k].absolute /\ k <= issued)
  BY <1>1 DEF CatalogOK, RowsOK, RowOK
<1>4. pc \in [Threads -> {"idle", "credentials", "rehash", "issue", "insert", "succeeded",
        "failed", "account", "expire", "touch", "granted", "refused", "raised", "message",
        "disable"}]
  BY <1>1 DEF ThreadsOK, Places, LoginPlaces, AccessPlaces
<1> QED
  BY <1>1, <1>2, <1>3, <1>4 DEF TypeOK, CatalogOK, SocketsOK, LimiterOK

\* The limiter's table is no larger than its size, and no name has more
\* failures than Limit and the requests that passed its check together.
THEOREM AttemptsAreBounded == Spec => []AttemptsBounded
<1>1. Init => LimiterInv
  BY FS_EmptySet, Constants DEF Init, LimiterInv
<1>2. AccessInv /\ LimiterInv /\ [Next]_vars => LimiterInv'
  <2> SUFFICES ASSUME AccessInv, LimiterInv, UNCHANGED vars PROVE LimiterInv'
    BY StepKeepsBound
  <2> QED
    BY DEF vars, threads, LimiterInv, InFlight
<1>3. AccessInv /\ LimiterInv => AttemptsBounded
  <2> SUFFICES ASSUME AccessInv, LimiterInv, NEW k \in DOMAIN attempts
               PROVE  attempts[k].count < Limit + Cardinality(Requests)
    BY InvariantTypes DEF AttemptsBounded, LimiterInv
  <2>1. attempts[k].count \in Nat
    BY DEF AccessInv, LimiterOK, Bucket
  <2> QED
    BY <2>1, FlightIsFinite, Constants DEF LimiterInv
<1> QED
  BY <1>1, <1>2, <1>3, AccessInvariant, PTL DEF Spec


=============================================================================
