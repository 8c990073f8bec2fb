--------------------------- MODULE MCSessionReports ---------------------------
(* Instances of SessionReports.                                            *)
EXTENDS SessionReports, TLC

CONSTANTS u, v, a, b

Symmetry == Permutations(Sessions) \cup Permutations(Shortcodes)
=============================================================================
