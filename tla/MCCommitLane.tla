---------------------------- MODULE MCCommitLane ----------------------------
EXTENDS CommitLane

\* A note that crosses band boundaries and is heard early or late, and a note
\* that is not there.
LongNote == {[pitch |-> 1, onset |-> 0, offset |-> 2, jitter |-> 1]}
GhostNote == {[pitch |-> 2, onset |-> 2, offset |-> 3, jitter |-> 0]}
=============================================================================
