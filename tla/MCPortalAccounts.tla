-------------------------- MODULE MCPortalAccounts --------------------------
(* PortalAccounts on three accounts and two browsers.                      *)
EXTENDS PortalAccounts, TLC

CONSTANTS u1, u2, u3, b1, b2

\* One browser is the first user's; the other is shared by the rest.
MCPeople(b) == IF b = b1 THEN {u1} ELSE {u2, u3}

\* Two super administrators, and a client or a row to fill; or a viewer, an
\* administrator and a client, who edits the viewer.
MCCasts ==
  {[u \in Users |-> IF u = u3 THEN role ELSE "super_admin"] : role \in {"none", "client"}}
    \cup {[u \in Users |-> CASE u = u1 -> "client_viewer" [] u = u2 -> "super_admin" [] OTHER -> "client"]}
=============================================================================
