------------------------------ MODULE LoginLimiter ------------------------------
(***************************************************************************)
(* LoginAttemptLimiter of the family server: a table of failed logins with *)
(* a bound on its size.  check and failure take its lock one after the     *)
(* other, with the verification of the password in between.                *)
(***************************************************************************)
EXTENDS Naturals, FiniteSets

CONSTANTS
    Keys,       \* digests of a client and a name
    Limit,      \* LOGIN_ATTEMPT_LIMIT
    Window,     \* LOGIN_ATTEMPT_WINDOW_SECONDS
    MaxBuckets  \* MAX_LOGIN_ATTEMPT_BUCKETS

ASSUME LimiterConstants ==
    /\ IsFiniteSet(Keys)
    /\ {Limit, Window, MaxBuckets} \subseteq Nat \ {0}

VARIABLES
    now,        \* the clock, in units longer than any database call
    attempts    \* a bucket [count, first] for each key that failed

Bucket == [count : Nat, first : Nat]

Live == {k \in DOMAIN attempts : now - attempts[k].first < Window}

\* What _prune may keep: everything live if the table has room for one more
\* bucket, else the newest MaxBuckets - 1 of it.
Kept == {kept \in SUBSET Live :
            /\ Cardinality(kept) < MaxBuckets
            /\ kept # Live => Cardinality(kept) = MaxBuckets - 1
            /\ \A old \in Live \ kept, new \in kept :
                    attempts[old].first <= attempts[new].first}

\* Mutant: allows one attempt more.
CheckAttemptLoose(k, allowed) ==
    \E kept \in Kept :
        /\ attempts' = [x \in kept |-> attempts[x]]
        /\ allowed <=> (k \notin kept \/ attempts[k].count <= Limit)

CheckAttempt(k, allowed) ==
    \E kept \in Kept :
        /\ attempts' = [x \in kept |-> attempts[x]]
        /\ allowed <=> (k \notin kept \/ attempts[k].count < Limit)

CountFailure(k) ==
    \E kept \in Kept :
        attempts' = [x \in kept \cup {k} |->
            IF x # k THEN attempts[x]
            ELSE IF k \in kept THEN [attempts[k] EXCEPT !.count = @ + 1]
            ELSE [count |-> 1, first |-> now]]

ForgetFailures(k) == attempts' = [x \in DOMAIN attempts \ {k} |-> attempts[x]]
================================================================================
