--------------------------- MODULE PortalAccounts ---------------------------
(***************************************************************************)
(* The accounts of the dashboard and their sessions: signing in and out,   *)
(* changing and resetting a password, reset links, the administrator's     *)
(* edits, and impersonation (lib/auth.ts, lib/users.ts,                    *)
(* lib/passwordReset.ts, the actions of /users and /account and the routes *)
(* under /api/auth).                                                       *)
(*                                                                         *)
(* A browser has one cookie and one request in flight; a request is        *)
(* answered in steps, one per statement it sends to PostgreSQL, which runs *)
(* at READ COMMITTED: a statement sees what was committed when it starts   *)
(* and waits for the row locks it needs.  `locked` holds the locks of the  *)
(* transactions that last longer than a statement; what such a transaction *)
(* writes becomes visible in its last step, its COMMIT.                    *)
(***************************************************************************)
EXTENDS Integers, FiniteSets, PortalAccess

CONSTANTS Users,        \* rows portal_users may hold
          Casts,        \* bound: the roles they may have at the start, "none" for no row
          Browsers,     \* the browsers in use, one request at a time each
          Tokens,       \* the reset links that may be mailed
          GivenRoles,   \* the roles the forms give
          People(_),    \* who signs in with a browser
          MaxFailures,  \* MAX_FAILURES of account/actions.ts
          MaxRequests,  \* bound: requests made
          NoUser, NoToken, NoOne

ASSUME PortalAssumption ==
  /\ Casts \subseteq [Users -> Roles \cup {"none"}]
  /\ \A cast \in Casts : \E u \in Users : cast[u] = "super_admin"
  /\ IsFiniteSet(Browsers)
  /\ \A b \in Browsers : People(b) \subseteq Users
  /\ GivenRoles \subseteq Roles
  /\ MaxFailures \in Nat \ {0} /\ MaxRequests \in Nat \ {0}
  /\ NoUser \notin Users /\ NoToken \notin Tokens /\ NoOne \notin Browsers

VARIABLES
  users,     \* portal_users: role, active, password_hash, email, password_version
  tokens,    \* password_reset_tokens: the user, and "unsent", "live" or "dead"
  failures,  \* failed password changes the audit log has under the user's email
  cookie,    \* the session cookie of each browser
  at,        \* the request of each browser, and how far it is
  locked,    \* which request's transaction holds the lock of a row
  spent,     \* history: links that were live when a link of their user was used
  requests   \* requests made

vars == <<users, tokens, failures, cookie, at, locked, spent, requests>>

-----------------------------------------------------------------------------
(* Rows and sessions.                                                      *)

Absent == [role |-> "none", active |-> FALSE, pw |-> 0, email |-> 0, pwv |-> 0]

\* A row as createUser inserts it.
Row(role) == [Absent EXCEPT !.role = role, !.active = TRUE]

Exists(u) == users[u].role # "none"

\* The claims loadUserClaims reads in one statement.  `under` is not in the
\* cookie: it remembers the password and the address the session was minted
\* under, which pwv is to stand for.
Identity(u) == [sub |-> u, role |-> users[u].role, pwv |-> users[u].pwv,
                under |-> <<users[u].pw, users[u].email>>]
NoIdentity  == [sub |-> NoUser, role |-> "none", pwv |-> 0, under |-> <<0, 0>>]

Session(u)  == [own |-> Identity(u), imp |-> NoIdentity]
NoSession   == [own |-> NoIdentity, imp |-> NoIdentity]

\* The origin is copied from the actor's session, not read again.
ImpersonatedClaims(actor, u) == [own |-> Identity(u), imp |-> actor.own]

Impersonating(s) == s.imp # NoIdentity

PermsIn(s) ==
  IF Impersonating(s) THEN ImpersonatedPerms(PermsOf[s.imp.role], PermsOf[s.own.role])
                      ELSE PermsOf[s.own.role]

UserStillValid(id) == users[id.sub].active /\ users[id.sub].pwv = id.pwv

\* getSession.
Accepted(s) ==
  /\ s # NoSession
  /\ UserStillValid(s.own)
  /\ Impersonating(s) => UserStillValid(s.imp)

NoForm == [was |-> "none", role |-> "none", active |-> FALSE, mail |-> FALSE, guess |-> 0]
Idle   == [stage |-> "idle", user |-> NoUser, token |-> NoToken, form |-> NoForm]

\* A request that gets past the middleware and getSession.
Admitted(b, route) ==
  /\ Accepted(cookie[b])
  /\ Passes(PermsIn(cookie[b]), Impersonating(cookie[b]), route, "POST")

\* Bound: MaxRequests.  Time passes, and cookies go, only while it can matter
\* to a request still to come.
More == requests < MaxRequests

Begin(b, r) ==
  /\ More /\ at[b] = Idle
  /\ at' = [at EXCEPT ![b] = r]
  /\ requests' = requests + 1
  /\ UNCHANGED <<users, tokens, failures, cookie, locked, spent>>

-----------------------------------------------------------------------------
(* Row locks.                                                              *)

LiveTokens(u) == {t \in Tokens : tokens[t].st = "live" /\ tokens[t].user = u}

\* Mutant: FOR UPDATE OF the user's row alone.
MutRoleRowUnlocked(b) == {}

\* The role row updateUser's SELECT ... JOIN roles ... FOR UPDATE locks with
\* the user's row.
RoleRow(b) == {at[b].form.was}

\* The rows the next statement of a request has to lock, or to check as the
\* target of a foreign key.
Needs(b) ==
  LET r == at[b] IN
  CASE r.stage \in {"lock user", "lock self", "reset", "set password"} -> {r.user}
    [] r.stage = "lock role"   -> RoleRow(b)
    [] r.stage = "update"      -> IF r.form.role # r.form.was THEN {r.form.role} ELSE {}
    [] r.stage = "create"      -> {r.form.role}
    [] r.stage = "lock token"  -> {r.token}
    [] r.stage \in {"retire", "retire all"} -> LiveTokens(r.user)
    [] r.stage = "insert token" ->
         IF \E e \in Browsers : locked[r.user] = e /\ at[e].stage \in {"lock role", "count", "update", "change"}
         THEN {r.user} ELSE {}
    [] OTHER -> {}

Blockers(b) == {locked[x] : x \in Needs(b)} \ {NoOne, b}

MayRun(b, stage) == at[b].stage = stage /\ Blockers(b) = {}

Locking(b, rows) == [x \in DOMAIN locked |-> IF x \in rows THEN b ELSE locked[x]]
Released(b)      == [x \in DOMAIN locked |-> IF locked[x] = b THEN NoOne ELSE locked[x]]

Goto(b, stage)  == at' = [at EXCEPT ![b].stage = stage]
Finish(b)       == at' = [at EXCEPT ![b] = Idle]

\* Mutant: withTx returns without a ROLLBACK.
MutGiveUpKeepsLocks(b) ==
  /\ Finish(b)
  /\ UNCHANGED <<users, tokens, failures, cookie, locked, spent, requests>>

\* ROLLBACK, or COMMIT of a transaction that wrote nothing.
GiveUp(b) ==
  /\ Finish(b) /\ locked' = Released(b)
  /\ UNCHANGED <<users, tokens, failures, cookie, spent, requests>>

\* Two transactions wait for each other: PostgreSQL aborts one of them, and
\* withTx rolls back and rethrows.
DeadlockVictim(b) ==
  /\ \E e \in Blockers(b) : b \in Blockers(e)
  /\ GiveUp(b)

-----------------------------------------------------------------------------
(* Signing in and out.                                                     *)

\* POST /api/auth/login: the password was right when the row was read.
Login(b) == \E u \in People(b) :
  /\ users[u].active
  /\ Begin(b, [Idle EXCEPT !.stage = "claims", !.user = u])

\* loadUserClaims and the cookie: the end of a sign-in, and of a request that
\* keeps the browser signed in after changing its own user.
Mint(b) ==
  /\ at[b].stage = "claims"
  /\ cookie' = IF users[at[b].user].active THEN [cookie EXCEPT ![b] = Session(at[b].user)] ELSE cookie
  /\ Finish(b)
  /\ UNCHANGED <<users, tokens, failures, locked, spent, requests>>

\* POST /api/auth/logout, or the cookie's maxAge.
LeaveSession(b) ==
  /\ More /\ at[b] = Idle /\ cookie[b] # NoSession
  /\ cookie' = [cookie EXCEPT ![b] = NoSession]
  /\ UNCHANGED <<users, tokens, failures, at, locked, spent, requests>>

Impersonate(b) == \E u \in Users :
  /\ Admitted(b, "/api/auth/impersonate") /\ ~Impersonating(cookie[b])
  /\ "portal_users.impersonate" \in PermsIn(cookie[b])
  /\ u # cookie[b].own.sub
  /\ Begin(b, [Idle EXCEPT !.stage = "target", !.user = u])

MintImpersonated(b) ==
  LET s == ImpersonatedClaims(cookie[b], at[b].user) IN
  /\ at[b].stage = "target"
  /\ cookie' = IF users[at[b].user].active /\ PermsIn(s) # {} THEN [cookie EXCEPT ![b] = s] ELSE cookie
  /\ Finish(b)
  /\ UNCHANGED <<users, tokens, failures, locked, spent, requests>>

\* Ends in Mint, which leaves the cookie alone when the actor was deactivated.
StopImpersonating(b) ==
  /\ Accepted(cookie[b]) /\ Impersonating(cookie[b])
  /\ Begin(b, [Idle EXCEPT !.stage = "claims", !.user = cookie[b].imp.sub])

-----------------------------------------------------------------------------
(* The administrator's forms on /users.                                    *)

Manages(b) == Admitted(b, "/users") /\ "portal_users.manage" \in PermsIn(cookie[b])

StartCreate(b) == Manages(b) /\ \E u \in Users, r \in GivenRoles :
  /\ ~Exists(u)
  /\ Begin(b, [Idle EXCEPT !.stage = "create", !.user = u, !.form.role = r])

CreateUser(b) ==
  LET u == at[b].user IN
  /\ MayRun(b, "create")
  /\ users' = IF Exists(u) THEN users      \* EmailTakenError
              ELSE [users EXCEPT ![u] = Row(at[b].form.role)]
  /\ Finish(b)
  /\ UNCHANGED <<tokens, failures, cookie, locked, spent, requests>>

\* What the form sends, having changed one thing (bound: one change a form).
Edits(u) ==
  LET same == [NoForm EXCEPT !.was = users[u].role, !.role = users[u].role, !.active = users[u].active] IN
  {[same EXCEPT !.role = r] : r \in GivenRoles \ {users[u].role}}
    \cup {[same EXCEPT !.active = ~@], [same EXCEPT !.mail = TRUE]}

\* Its first statement reads the user's role and goes on to lock both rows.
StartUpdate(b) == Manages(b) /\ \E u \in Users : \E form \in Edits(u) :
  /\ Exists(u)
  /\ Begin(b, [Idle EXCEPT !.stage = "lock user", !.user = u, !.form = form])

\* The row that was waited for is read again: the join fails if its role moved.
LockUser(b) ==
  LET r == at[b] IN
  /\ MayRun(b, "lock user")
  /\ IF users[r.user].role # r.form.was THEN GiveUp(b)
     ELSE /\ Goto(b, "lock role") /\ locked' = Locking(b, {r.user})
          /\ UNCHANGED <<users, tokens, failures, cookie, spent, requests>>

LeavesSupers(f) == f.was = "super_admin" /\ (~f.active \/ f.role # "super_admin")

LockRole(b) ==
  LET r == at[b] IN
  /\ MayRun(b, "lock role")
  /\ IF \/ r.user = cookie[b].own.sub /\ (~r.form.active \/ LeavesSupers(r.form))
     THEN GiveUp(b)
     ELSE /\ Goto(b, IF LeavesSupers(r.form) /\ users[r.user].active THEN "count" ELSE "update")
          /\ locked' = Locking(b, RoleRow(b))
          /\ UNCHANGED <<users, tokens, failures, cookie, spent, requests>>

OtherSupers(u) == {v \in Users \ {u} : users[v].role = "super_admin" /\ users[v].active}

CountSupers(b) ==
  /\ at[b].stage = "count"
  /\ IF OtherSupers(at[b].user) = {} THEN GiveUp(b)
     ELSE /\ Goto(b, "update")
          /\ UNCHANGED <<users, tokens, failures, cookie, locked, spent, requests>>

\* The password and the address of a row, and the version that signs its
\* sessions out.
PasswordSet(row) == [row EXCEPT !.pw = @ + 1, !.pwv = @ + 1]

\* Mutant: a new address keeps the version.
MutEditedKeepsVersion(row, form) ==
  [row EXCEPT !.role = form.role, !.active = form.active, !.email = @ + (IF form.mail THEN 1 ELSE 0)]

Edited(row, form) ==
  LET mail == IF form.mail THEN 1 ELSE 0 IN
  [row EXCEPT !.role = form.role, !.active = form.active, !.email = @ + mail, !.pwv = @ + mail]

\* Administrators who edited themselves keep their session.
AnsweredTo(b) == IF at[b].user = cookie[b].own.sub THEN Goto(b, "claims") ELSE Finish(b)

UpdateUser(b) ==
  LET r == at[b] IN
  /\ MayRun(b, "update")
  /\ users' = [users EXCEPT ![r.user] = Edited(@, r.form)]
  /\ failures' = IF r.form.mail THEN [failures EXCEPT ![r.user] = 0] ELSE failures
  /\ locked' = Released(b) /\ AnsweredTo(b)
  /\ UNCHANGED <<tokens, cookie, spent, requests>>

StartReset(b) == Manages(b) /\ \E u \in Users :
  /\ Exists(u)
  /\ Begin(b, [Idle EXCEPT !.stage = "reset", !.user = u])

\* A client's requests about a viewer: actionAdminUpdateViewer, which goes the
\* way of StartUpdate and leaves the role alone, and actionAdminResetViewerPassword.
\* Which viewers, and whose address, ShortcodeRegistry says: here any but the
\* client, who may have become a viewer since signing in.
ManagesViewers(b) ==
  /\ Admitted(b, "/users") /\ "viewers.manage_own" \in PermsIn(cookie[b])
  /\ cookie[b].own.role = "client"

Viewers(b) == {u \in Users \ {cookie[b].own.sub} : users[u].role = "client_viewer"}

StartViewerUpdate(b) == ManagesViewers(b) /\ \E u \in Viewers(b) : \E form \in Edits(u) :
  /\ form.role = form.was
  /\ Begin(b, [Idle EXCEPT !.stage = "lock user", !.user = u, !.form = form])

StartViewerReset(b) == ManagesViewers(b) /\ \E u \in Viewers(b) :
  Begin(b, [Idle EXCEPT !.stage = "reset", !.user = u])

ResetPassword(b) ==
  /\ MayRun(b, "reset")
  /\ users' = [users EXCEPT ![at[b].user] = PasswordSet(@)]
  /\ AnsweredTo(b)
  /\ UNCHANGED <<tokens, failures, cookie, locked, spent, requests>>

-----------------------------------------------------------------------------
(* The user's own form on /account.                                        *)

\* Mutant: the failures are not counted first.
MutStartChangeUnthrottled(b) ==
  LET u == cookie[b].own.sub IN
  /\ Admitted(b, "/account")
  /\ \E g \in {-1, users[u].pw} :
       Begin(b, [Idle EXCEPT !.stage = "lock self", !.user = u, !.form.guess = g])

\* `guess` is the password typed as the current one; -1 is a wrong one.
StartChange(b) ==
  LET u == cookie[b].own.sub IN
  /\ Admitted(b, "/account")
  /\ failures[u] < MaxFailures
  /\ \E g \in {-1, users[u].pw} :
       Begin(b, [Idle EXCEPT !.stage = "lock self", !.user = u, !.form.guess = g])

\* Mutant: SELECT without FOR UPDATE.
MutLockSelfReads(b) ==
  LET r == at[b] IN
  /\ MayRun(b, "lock self")
  /\ Goto(b, IF users[r.user].active /\ r.form.guess = users[r.user].pw THEN "change" ELSE "audit failure")
  /\ UNCHANGED <<users, tokens, failures, cookie, locked, spent, requests>>

LockSelf(b) ==
  LET r == at[b] IN
  /\ MayRun(b, "lock self")
  /\ IF users[r.user].active /\ r.form.guess = users[r.user].pw
     THEN Goto(b, "change") /\ locked' = Locking(b, {r.user})
     ELSE Goto(b, "audit failure") /\ UNCHANGED locked
  /\ UNCHANGED <<users, tokens, failures, cookie, spent, requests>>

ChangeOwnPassword(b) ==
  /\ at[b].stage = "change"
  /\ users' = [users EXCEPT ![at[b].user] = PasswordSet(@)]
  /\ locked' = Released(b) /\ Goto(b, "claims")
  /\ UNCHANGED <<tokens, failures, cookie, spent, requests>>

\* Counted under the address the session carries.
AuditFailure(b) ==
  LET s == cookie[b].own IN
  /\ at[b].stage = "audit failure"
  /\ failures' = IF s.under[2] = users[s.sub].email THEN [failures EXCEPT ![s.sub] = @ + 1] ELSE failures
  /\ Finish(b)
  /\ UNCHANGED <<users, tokens, cookie, locked, spent, requests>>

\* The oldest failure leaves the window of 15 minutes.
WindowMoves(u) ==
  /\ More /\ failures[u] > 0
  /\ failures' = [failures EXCEPT ![u] = @ - 1]
  /\ UNCHANGED <<users, tokens, cookie, at, locked, spent, requests>>

-----------------------------------------------------------------------------
(* Reset links (lib/passwordReset.ts).                                     *)

\* POST /api/auth/forgot-password for the address of an active user.
StartForgot(b) == \E u \in Users :
  /\ users[u].active
  /\ Cardinality({e \in Browsers : at[e].stage \in {"retire", "insert token"}})
       < Cardinality({t \in Tokens : tokens[t].st = "unsent"})   \* bound: Tokens
  /\ Begin(b, [Idle EXCEPT !.stage = "retire", !.user = u])

\* issueResetToken retires the links it can see ...
RetireTokens(b) ==
  /\ MayRun(b, "retire")
  /\ tokens' = tokens /\ locked' = Locking(b, LiveTokens(at[b].user))
  /\ Goto(b, "insert token")
  /\ UNCHANGED <<users, failures, cookie, spent, requests>>

\* ... and inserts its own, whose foreign key needs the user's row.
IssueToken(b) == \E t \in Tokens :
  LET retired == {x \in Tokens \ {t} : locked[x] = b} IN
  /\ MayRun(b, "insert token")
  /\ tokens[t].st = "unsent"
  /\ tokens' = [x \in Tokens |->
                  CASE x = t          -> [user |-> at[b].user, st |-> "live"]
                    [] x \in retired  -> [tokens[x] EXCEPT !.st = "dead"]
                    [] OTHER          -> tokens[x]]
  /\ locked' = Released(b) /\ Finish(b)
  /\ UNCHANGED <<users, failures, cookie, spent, requests>>

\* POST /api/auth/reset-password: consumeResetToken's first statement finds the
\* link live and its user active, and goes on to lock the link.
StartLink(b) == \E t \in Tokens :
  LET u == tokens[t].user IN
  /\ tokens[t].st = "live" /\ users[u].active
  /\ Begin(b, [Idle EXCEPT !.stage = "lock token", !.user = u, !.token = t])

LockToken(b) ==
  /\ MayRun(b, "lock token")
  /\ IF tokens[at[b].token].st # "live" THEN GiveUp(b)
     ELSE /\ Goto(b, "set password") /\ locked' = Locking(b, {at[b].token})
          /\ UNCHANGED <<users, tokens, failures, cookie, spent, requests>>

SetPassword(b) ==
  /\ MayRun(b, "set password")
  /\ Goto(b, "retire all") /\ locked' = Locking(b, {at[b].user})
  /\ UNCHANGED <<users, tokens, failures, cookie, spent, requests>>

\* Mutant: only the link that was used.
MutRetiredOne(b) == {at[b].token}

\* The links a completed reset retires: every live one of the user.
Retired(b) == LiveTokens(at[b].user)

CompleteReset(b) ==
  LET u == at[b].user IN
  /\ MayRun(b, "retire all")
  /\ users' = [users EXCEPT ![u] = PasswordSet(@)]
  /\ tokens' = [t \in Tokens |-> IF t \in Retired(b) THEN [tokens[t] EXCEPT !.st = "dead"] ELSE tokens[t]]
  /\ spent' = spent \cup {at[b].token} \cup LiveTokens(u)
  /\ locked' = Released(b) /\ Finish(b)
  /\ UNCHANGED <<failures, cookie, requests>>

\* A link's 30 minutes end; a request keeps the now() its transaction began with.
TokenExpires(t) ==
  /\ More /\ tokens[t].st = "live" /\ \A b \in Browsers : at[b].token # t
  /\ tokens' = [tokens EXCEPT ![t].st = "dead"]
  /\ UNCHANGED <<users, failures, cookie, at, locked, spent, requests>>

-----------------------------------------------------------------------------
\* The users at work, no link mailed; or several links mailed to one of them
\* (requests for a link that overlapped) and nobody signed in.
Init ==
  /\ \E cast \in Casts :
       users = [u \in Users |-> IF cast[u] = "none" THEN Absent ELSE Row(cast[u])]
  /\ cookie \in [Browsers -> {NoSession} \cup {Session(u) : u \in {v \in Users : Exists(v)}}]
  /\ \A b \in Browsers : cookie[b].own.sub \in People(b) \cup {NoUser}
  /\ \/ requests = 0 /\ tokens = [t \in Tokens |-> [user |-> NoUser, st |-> "unsent"]]
     \/ /\ requests = 1 /\ \A b \in Browsers : cookie[b] = NoSession
        /\ \E u \in Users : Exists(u) /\ users[u].role # "super_admin"
             /\ tokens = [t \in Tokens |-> [user |-> u, st |-> "live"]]
  /\ failures = [u \in Users |-> 0]
  /\ at = [b \in Browsers |-> Idle]
  /\ locked = [x \in Users \cup Roles \cup Tokens |-> NoOne]
  /\ spent = {}

Start(b) ==
  \/ Login(b) \/ Impersonate(b) \/ StopImpersonating(b)
  \/ StartCreate(b) \/ StartUpdate(b) \/ StartReset(b) \/ StartViewerUpdate(b) \/ StartViewerReset(b)
  \/ StartChange(b) \/ StartForgot(b) \/ StartLink(b)

Proceed(b) ==
  \/ Mint(b) \/ MintImpersonated(b) \/ CreateUser(b)
  \/ LockUser(b) \/ LockRole(b) \/ CountSupers(b) \/ UpdateUser(b) \/ ResetPassword(b)
  \/ LockSelf(b) \/ ChangeOwnPassword(b) \/ AuditFailure(b)
  \/ RetireTokens(b) \/ IssueToken(b)
  \/ LockToken(b) \/ SetPassword(b) \/ CompleteReset(b)
  \/ DeadlockVictim(b)

Next ==
  \/ \E b \in Browsers : Start(b) \/ Proceed(b) \/ LeaveSession(b)
  \/ \E u \in Users : WindowMoves(u)
  \/ \E t \in Tokens : TokenExpires(t)

\* As long as some request can proceed, one does: the server and PostgreSQL
\* keep working.  Nobody has to make a request, and no link has to expire.
Fairness == WF_vars(\E b \in Browsers : Proceed(b))

Spec == Init /\ [][Next]_vars /\ Fairness

-----------------------------------------------------------------------------
(* Properties.                                                             *)

Stages == {"idle", "claims", "target", "create", "lock user", "lock role", "count", "update",
           "reset", "lock self", "change", "audit failure", "retire", "insert token",
           "lock token", "set password", "retire all"}
Versions == -1 .. MaxRequests
Identities ==
  {NoIdentity} \cup [sub : Users, role : Roles, pwv : Versions, under : Versions \X Versions]

\* Every variable holds what its row, cookie or request may hold.  The throttle
\* of /account counts before it tries and records after: concurrent requests get
\* past it, but not more of them than there are browsers.
TypeOK ==
  /\ users \in [Users -> [role : Roles \cup {"none"}, active : BOOLEAN,
                         pw : Versions, email : Versions, pwv : Versions]]
  /\ tokens \in [Tokens -> [user : Users \cup {NoUser}, st : {"unsent", "live", "dead"}]]
  /\ failures \in [Users -> 0 .. MaxFailures + Cardinality(Browsers) - 1]
  /\ cookie \in [Browsers -> [own : Identities, imp : Identities]]
  /\ at \in [Browsers -> [stage : Stages, user : Users \cup {NoUser}, token : Tokens \cup {NoToken},
                          form : [was : Roles \cup {"none"}, role : Roles \cup {"none"},
                                  active : BOOLEAN, mail : BOOLEAN, guess : Versions]]]
  /\ locked \in [Users \cup Roles \cup Tokens -> Browsers \cup {NoOne}]
  /\ spent \subseteq Tokens /\ requests \in 0 .. MaxRequests

\* However the administrators' edits interleave, somebody can still administer
\* the portal (updateUser, "a concurrent demote can't race past it"): the count
\* of the other super administrators is not locked, but the role's row is.
LastAdminKept == \E u \in Users : users[u].role = "super_admin" /\ users[u].active

\* A cookie that getSession accepts, and the actor's half of an impersonating
\* one, was minted under the password and the address its user has now: a new
\* password or address signs out every session minted before it (db/034).
SessionsFollowCredentials == \A b \in Browsers : Accepted(cookie[b]) =>
  \A id \in {cookie[b].own, cookie[b].imp} \ {NoIdentity} :
    id.under = <<users[id.sub].pw, users[id.sub].email>>

\* No request of an impersonating session gets as far as a statement that
\* writes: a write is never attributed to the user who is being viewed
\* (middleware.ts, the one choke point).  Signing in, signing out, reset links
\* and the way back are outside it.
WritesAreOwn == \A b \in Browsers :
  at[b].stage \in {"create", "lock user", "lock role", "count", "update", "reset", "lock self", "change"}
    => ~Impersonating(cookie[b])

\* The links the layout offers a session are opened by the route guard and
\* rendered by their pages: nobody is sent in circles, impersonating or not.
NavigationOpens == \A b \in Browsers : cookie[b] # NoSession =>
  LET perms == PermsIn(cookie[b]) IN
  \A route \in Nav(cookie[b].own.role, perms) :
    Passes(perms, Impersonating(cookie[b]), route, "GET") /\ Renders(perms, route)

\* A link that was live when a reset of its user completed never sets a
\* password again, its own second submission included (passwordReset.ts,
\* "two submits of the same link can't both succeed").
LinksDieTogether == \A b \in Browsers :
  at[b].stage \in {"set password", "retire all"} => at[b].token \notin spent

\* A user's own change replaces the password that was typed as the current
\* one, never a newer one (changeOwnPassword, "row-locked").
ChangeProvesCurrent == [][\A b \in Browsers :
  at[b].stage = "change" /\ at'[b].stage # "change"
    => at[b].form.guess = users[at[b].user].pw]_vars

\* Every request is answered, although the transactions lock rows in different
\* orders: two links of one user each lock their own and want the other's, and
\* a promotion and a demotion each hold the role row the other has to check.
RequestsEnd == \A b \in Browsers : at[b] # Idle ~> at[b] = Idle
=============================================================================
