---------------------------- MODULE MCFamilyAccess ----------------------------
\* Model values and bounds for FamilyAccess.
EXTENDS FamilyAccess, TLC

CONSTANTS ann, ben, zoe, r1, r2, c1, c2

Roles == [u \in Users |-> IF u = ann THEN "owner" ELSE "editor"]
Owners == [u \in Users |-> "owner"]
\* Threads of a kind are alike.
Alike == Permutations({r1, r2}) \cup Permutations({c1, c2})
================================================================================
