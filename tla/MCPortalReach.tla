---------------------------- MODULE MCPortalReach ----------------------------
(* Instances of PortalReach.                                               *)
EXTENDS PortalReach, TLC

CONSTANTS u1, u2, s1, s2, j1

Symmetry == Permutations(Clients) \cup Permutations(Shortcodes)
=============================================================================
