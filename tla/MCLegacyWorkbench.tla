--------------------------- MODULE MCLegacyWorkbench ---------------------------
(* Two live connections and an upload over one death of the process.       *)
EXTENDS LegacyWorkbench, TLC

CONSTANTS c1, c2, u1

=============================================================================
