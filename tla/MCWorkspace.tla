------------------------------ MODULE MCWorkspace ------------------------------
(* Two lanes, of which the commit lane revises what the preview lane found; *)
(* three raw segments; two requests beside a listing; two sessions with     *)
(* debug data.                                                              *)
EXTENDS Workspace

CONSTANTS c1, c2

Event(id, number, lifecycle, onset) ==
    [id |-> id, revision |-> number, lifecycle |-> lifecycle, onset |-> onset]

MCEvents == {Event(1, 1, "provisional", 0), Event(1, 2, "committed", 0), Event(2, 1, "committed", 2)}

MCSegments == 1..3
AllFaults == FaultKinds

MCSymmetry == Permutations(Clients)

================================================================================
