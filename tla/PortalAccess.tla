---------------------------- MODULE PortalAccess ----------------------------
(***************************************************************************)
(* Who may do what in the dashboard: the permissions of the roles (seeded  *)
(* by db/001, 010, 011, 012, 024, 028 and 029), the route guard of         *)
(* middleware.ts with the table of lib/rbac.ts, the claims of an           *)
(* impersonated session (lib/auth.ts) and the links the layout offers.     *)
(* There is no state here: PortalAccounts and ShortcodeRegistry send every *)
(* request of theirs through these operators.                              *)
(***************************************************************************)

\* The permissions of client_viewer, client and auditor; super_admin has all.
ViewerPerms  == {"reports.view_own"}
ClientPerms  == {"reports.view_own", "viewers.manage_own", "shortcodes.manage_sandbox"}
AuditorPerms == {"reports.view_all", "shortcodes.view", "operators.view",
                 "portal_users.view", "audit.view", "portal_users.impersonate"}

Perms == ViewerPerms \cup ClientPerms \cup AuditorPerms
           \cup {"shortcodes.manage", "portal_users.manage", "archive.view"}

Roles == {"super_admin", "auditor", "client", "client_viewer"}

PermsOf == [r \in Roles |->
  CASE r = "super_admin"   -> Perms
    [] r = "auditor"       -> AuditorPerms
    [] r = "client"        -> ClientPerms
    [] r = "client_viewer" -> ViewerPerms]

-----------------------------------------------------------------------------
(* The route guard.  A path is represented by the prefix rbac.ts tests.    *)

Public == {"/login", "/api/auth/login", "/api/auth/logout", "/forgot-password",
           "/reset-password", "/api/auth/forgot-password", "/api/auth/reset-password",
           "/api/auth/impersonate/stop", "/integration"}

Reporting == {"reports.view_own", "reports.view_all"}

\* Mutant: /users is the administrators' alone.
MutRequiredPermsAdmins(route) ==
  CASE route = "/shortcodes" -> {"shortcodes.view", "shortcodes.manage"}
    [] route = "/operators"  -> {"operators.view", "shortcodes.manage"}
    [] route = "/users"      -> {"portal_users.view", "portal_users.manage"}
    [] route = "/audit"      -> {"audit.view"}
    [] route = "/archive"    -> {"archive.view"}
    [] route = "/api/auth/impersonate" -> {"portal_users.impersonate"}
    [] OTHER                 -> Reporting

\* Any one of these permissions opens the route.
RequiredPerms(route) ==
  CASE route = "/shortcodes" -> {"shortcodes.view", "shortcodes.manage"}
    [] route = "/operators"  -> {"operators.view", "shortcodes.manage"}
    [] route = "/users"      -> {"portal_users.view", "portal_users.manage", "viewers.manage_own"}
    [] route = "/audit"      -> {"audit.view"}
    [] route = "/archive"    -> {"archive.view"}
    [] route = "/api/auth/impersonate" -> {"portal_users.impersonate"}
    [] OTHER                 -> Reporting   \* reports, exports, simulator, account, the rest

\* Mutant: an impersonating session may write.
MutPassesAll(perms, impersonating, route, method) ==
  route \in Public \/ RequiredPerms(route) \cap perms # {}

\* The middleware reads the cookie only: no database, so no revocation.
Passes(perms, impersonating, route, method) ==
  \/ route \in Public
  \/ /\ RequiredPerms(route) \cap perms # {}
     /\ ~(impersonating /\ method = "POST")

-----------------------------------------------------------------------------
(* Impersonation: what the session of an actor viewing as a target may do. *)

Implied(p) ==
  CASE p = "reports.view_all"    -> {"reports.view_own"}
    [] p = "shortcodes.manage"   -> {"shortcodes.view", "shortcodes.manage_sandbox"}
    [] p = "portal_users.manage" -> {"portal_users.view"}
    [] OTHER                     -> {}

ExpandPerms(perms) == perms \cup UNION {Implied(p) : p \in perms}

ImpersonatedPerms(actorPerms, targetPerms) == targetPerms \cap ExpandPerms(actorPerms)

-----------------------------------------------------------------------------
(* The pages: what the layout links to, and which page sends its visitor   *)
(* back to the overview or to its list although the route guard let him in *)

Nav(role, perms) ==
  {"/", "/summary", "/sessions", "/reports", "/exports", "/integration", "/simulator", "/account"}
  \cup (IF perms \cap {"shortcodes.manage", "shortcodes.view"} # {} THEN {"/shortcodes"} ELSE {})
  \cup (IF perms \cap {"shortcodes.manage", "operators.view"} # {} THEN {"/operators"} ELSE {})
  \cup (IF perms \cap {"shortcodes.manage", "shortcodes.view"} = {} /\ role = "client"
        THEN {"/my-shortcodes"} ELSE {})
  \cup (IF perms \cap {"portal_users.manage", "portal_users.view", "viewers.manage_own"} # {}
        THEN {"/users"} ELSE {})
  \cup (IF "audit.view" \in perms THEN {"/audit"} ELSE {})
  \cup (IF "archive.view" \in perms THEN {"/archive"} ELSE {})

\* Which list /users shows.
UsersView(perms) ==
  CASE perms \cap {"portal_users.manage", "portal_users.view"} # {} -> "full list"
    [] "viewers.manage_own" \in perms -> "own viewers"
    [] OTHER -> "redirect"

\* The permission the page itself asks for.
Renders(perms, route) ==
  CASE route = "/audit"   -> "audit.view" \in perms
    [] route = "/archive" -> "archive.view" \in perms
    [] route = "/users"   -> UsersView(perms) # "redirect"
    [] OTHER              -> TRUE
=============================================================================
