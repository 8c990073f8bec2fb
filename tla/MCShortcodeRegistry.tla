------------------------ MODULE MCShortcodeRegistry ------------------------
(* ShortcodeRegistry on two clients, one viewer and two requests at a time. *)
EXTENDS ShortcodeRegistry, TLC

CONSTANTS s1, s2, c1, c2, a, b

\* Requests, clients and codes are interchangeable: nothing tells them apart.
Symmetry == Permutations(Slots) \cup Permutations(Clients) \cup Permutations(Codes)
=============================================================================
