-------------------------- MODULE ShortcodeRegistry --------------------------
(***************************************************************************)
(* The shortcodes of the dashboard: who owns a row and since when, its     *)
(* sandbox and production copies, the viewers a client has let in, and the *)
(* traffic each of them may read (lib/shortcodes.ts, lib/acl.ts, the       *)
(* viewers' half of lib/users.ts, loadUserClaims, the actions of           *)
(* /shortcodes, /my-shortcodes, /users and /operators).                    *)
(*                                                                         *)
(* A request is answered in steps, one per statement that reads or writes; *)
(* other requests run between them.  Forms are filled in from a page that  *)
(* was rendered when the request starts, and may be stale when posted.     *)
(* The clock has a finer grain than the whole seconds of a session's       *)
(* floors.                                                                 *)
(***************************************************************************)
EXTENDS Integers, FiniteSets, PortalAccess

CONSTANTS Rows,          \* ids: 1 .. n; bound: the shortcodes there may be
          Codes, Handlers,
          Operators,     \* ids of the mobile network operators
          Clients, Viewers, Admin,
          Slots,         \* bound: requests in flight at a time
          SandboxLimit,  \* SANDBOX_PER_OPERATOR_LIMIT
          MaxViewers,    \* ADMIN_MAX_VIEWERS
          Second,        \* ticks of the clock in a second
          MaxClock, MaxRequests,   \* bounds: the last tick, the requests made
          NoOne, NoRow

ASSUME RegistryAssumption ==
  /\ Rows \subseteq Nat \ {0} /\ Operators \subseteq Nat \ {0} /\ Operators # {}
  /\ IsFiniteSet(Rows) /\ IsFiniteSet(Operators) /\ IsFiniteSet(Slots)
  /\ Codes # {} /\ Handlers # {}
  /\ SandboxLimit \in Nat /\ MaxViewers \in Nat /\ Second \in Nat \ {0}
  /\ MaxClock \in Nat /\ Second <= MaxClock /\ MaxRequests \in Nat
  /\ NoOne \notin Clients \cup Viewers \cup {Admin} /\ NoRow \notin Rows

VARIABLES
  shortcodes,  \* the table: operator, code, environment, owner, owner_since, ...
  operators,   \* the operators that are active
  viewers,     \* portal_users of role client_viewer: their creator, active, password_version
  grants,      \* portal_user_shortcodes.granted_at, 0 without a grant
  req,         \* the request in each slot, and how far it is
  clock,
  lost,        \* history: the last tick a user was not entitled to a row's traffic
  requests     \* requests made

vars == <<shortcodes, operators, viewers, grants, req, clock, lost, requests>>

-----------------------------------------------------------------------------
Envs     == {"sandbox", "production"}
Statuses == {"active", "maintenance", "deactivated"}
Users    == Clients \cup Viewers

Role(u) == CASE u = Admin        -> "super_admin"
             [] u \in Clients    -> "client"
             [] OTHER            -> "client_viewer"

May(u, perm) == perm \in PermsOf[Role(u)]

Lowest(S) == CHOOSE x \in S : \A y \in S : x <= y

\* A row as the forms describe it; `from` is the sandbox row it is promoted from.
Shortcode(op, code, env, owner, url) ==
  [op |-> op, code |-> code, env |-> env, owner |-> owner, url |-> url, status |-> "active",
   since |-> 0, created |-> 0, from |-> NoRow]
NoShortcode == Shortcode(0, "none", "none", NoOne, "none")

Exists(r)  == shortcodes[r] # NoShortcode
Owned(u)   == {r \in Rows : shortcodes[r].owner = u}

\* Bound: rows start with one handler.
FirstUrl == CHOOSE h \in Handlers : TRUE

\* codeExists, and the index uq_shortcodes_op_code_env (db/024).
Taken(s, except) == \E r \in Rows \ {except} :
  /\ shortcodes[r].op = s.op /\ shortcodes[r].code = s.code /\ shortcodes[r].env = s.env

\* defaultSandboxOperatorId: where sandbox rows are filed.
Placeholder == Lowest(operators)

\* countUnpromotedSandbox counts these.
Unpromoted(u, op) == {r \in Owned(u) :
  /\ shortcodes[r].op = op /\ shortcodes[r].env = "sandbox"
  /\ ~Taken([shortcodes[r] EXCEPT !.env = "production"], NoRow)}

\* The viewers /users lists for a client: listViewersForAdmin, and the
\* condition of getViewerForAdmin and updateViewerAsAdmin.
InScope(v, u)  == \E r \in Owned(u) : grants[v][r] # 0
ViewersOf(u)   == {v \in Viewers : InScope(v, u)}

\* What a signed-in user may read, and from when: loadUserClaims, sessionAcl
\* and aclClause at "ts" grain.  The floor is stored in whole seconds.
Entitled(u, r) == shortcodes[r].owner = u \/ (u \in Viewers /\ grants[u][r] # 0)
Starts(u, r) ==
  (IF shortcodes[r].owner = u THEN {shortcodes[r].since} ELSE {})
    \cup (IF u \in Viewers /\ grants[u][r] # 0 THEN {grants[u][r]} ELSE {})
Reallocated(u, r) ==
  \/ shortcodes[r].owner = u /\ shortcodes[r].since > shortcodes[r].created
  \/ u \in Viewers /\ grants[u][r] # 0
WholeSeconds(t) == ((2 * t + Second) \div (2 * Second)) * Second
Floor(u, r) == IF Reallocated(u, r) THEN WholeSeconds(Lowest(Starts(u, r))) ELSE 0

-----------------------------------------------------------------------------
(* Requests.                                                               *)

Idle == [stage |-> "idle", who |-> NoOne, row |-> NoRow, form |-> NoShortcode,
         field |-> "none", viewer |-> NoOne, ids |-> {}, gone |-> {}]

Inserting(s) == req[s].stage \in {"cap", "exists", "insert"} /\ req[s].row = NoRow

\* Bounds: MaxRequests; a row id is left for every request that may insert one.
Begin(s, r) ==
  /\ req[s] = Idle /\ requests < MaxRequests
  /\ requests' = requests + 1
  /\ req' = [req EXCEPT ![s] = r]
  /\ UNCHANGED <<shortcodes, operators, viewers, grants, clock, lost>>
Room == Cardinality({s \in Slots : Inserting(s)}) < Cardinality({r \in Rows : ~Exists(r)})

Goto(s, stage) == req' = [req EXCEPT ![s].stage = stage]
Finish(s)      == req' = [req EXCEPT ![s] = Idle]

Unwritten == UNCHANGED <<shortcodes, operators, viewers, grants, clock, lost, requests>>

\* A check that ends the request, or lets it go on.
Check(s, stage, holds, next) ==
  /\ req[s].stage = stage
  /\ IF holds THEN Goto(s, next) ELSE Finish(s)
  /\ Unwritten

\* Mutant: the check does not lock.
MutShareLocksNone(s) == {}

\* The shortcodes a grant transaction has locked FOR SHARE until it commits.
ShareLocks(s) == IF req[s].stage \in {"count", "withdraw", "grant"} THEN req[s].ids ELSE {}

\* An UPDATE of a shortcode waits for them.
Updatable(r) == \A s \in Slots : r \notin ShareLocks(s)

Wrote(s) == Finish(s) /\ UNCHANGED <<operators, viewers, grants, clock, lost, requests>>

\* Mutant: the trigger is missing.
MutStampedNot(old, new) == new

\* trg_shortcodes_owner_since (db/025): a new owner's period starts now.
Stamped(old, new) == IF new.owner # old.owner THEN [new EXCEPT !.since = clock] ELSE new

-----------------------------------------------------------------------------
(* Creating and promoting.                                                 *)

\* What the administrator's form may hold: without an operator, which it asks for
\* only in production, a sandbox row is filed under the placeholder.
NewForms == {Shortcode(op, c, e, u, FirstUrl) : op \in operators, c \in Codes, e \in Envs, u \in Clients}

\* actionCreateShortcode.
StartCreate(s) == \E f \in NewForms :
  /\ May(Admin, "shortcodes.manage") /\ Room
  /\ Begin(s, [Idle EXCEPT !.stage = "exists", !.who = Admin, !.form = f])

\* actionCreateSandboxShortcode: for the client, by the client.
StartSandbox(s) == \E u \in Clients, c \in Codes :
  /\ May(u, "shortcodes.manage_sandbox") /\ Room /\ operators # {}
  /\ Begin(s, [Idle EXCEPT !.stage = "cap", !.who = u,
                           !.form = Shortcode(Placeholder, c, "sandbox", u, FirstUrl)])

CheckCap(s) ==
  Check(s, "cap", Cardinality(Unpromoted(req[s].who, req[s].form.op)) < SandboxLimit, "exists")

\* actionPromoteShortcode reads the sandbox row and its code.
StartPromote(s) == \E r \in Rows, op \in operators :
  /\ May(Admin, "shortcodes.manage") /\ Room
  /\ shortcodes[r].env = "sandbox"
  /\ Begin(s, [Idle EXCEPT !.stage = "exists", !.who = Admin,
                 !.form = [shortcodes[r] EXCEPT !.op = op, !.env = "production", !.from = r]])

CheckCode(s) ==
  Check(s, "exists", ~Taken(req[s].form, req[s].row), IF req[s].row = NoRow THEN "insert" ELSE "update")

\* promoteShortcode clones the sandbox row as it is now, not as it was read.
Inserted(f) ==
  LET src == IF f.from = NoRow THEN f ELSE shortcodes[f.from] IN
  [Shortcode(f.op, src.code, f.env, src.owner, src.url) EXCEPT
     !.from = f.from, !.since = clock, !.created = clock]

InsertShortcode(s) ==
  LET new == Inserted(req[s].form) IN
  /\ req[s].stage = "insert"
  /\ shortcodes' = IF Taken(new, NoRow) THEN shortcodes   \* the index refuses it: an error page
                   ELSE [shortcodes EXCEPT ![Lowest({r \in Rows : ~Exists(r)})] = new]
  /\ Wrote(s)

-----------------------------------------------------------------------------
(* Editing.                                                                *)

\* What the administrator's form holds: the row as it was rendered, one thing
\* changed (bound).
Edits(old) ==
  {[old EXCEPT !.owner = u] : u \in Clients} \cup {[old EXCEPT !.code = c] : c \in Codes}
    \cup {[old EXCEPT !.op = o] : o \in operators} \cup {[old EXCEPT !.status = t] : t \in Statuses}

StartUpdate(s) == \E r \in Rows : \E f \in Edits(shortcodes[r]) \ {shortcodes[r]} :
  /\ May(Admin, "shortcodes.manage") /\ Exists(r)
  /\ Begin(s, [Idle EXCEPT !.stage = "exists", !.who = Admin, !.row = r, !.form = f])

\* updateShortcode writes every field of the form, but not the environment.
UpdateShortcode(s) ==
  LET r == req[s].row  f == req[s].form
      new == [shortcodes[r] EXCEPT !.op = f.op, !.code = f.code, !.owner = f.owner,
                                   !.url = f.url, !.status = f.status] IN
  /\ req[s].stage = "update" /\ Updatable(r)
  /\ shortcodes' = IF Taken(new, r) THEN shortcodes
                   ELSE [shortcodes EXCEPT ![r] = Stamped(@, new)]
  /\ Wrote(s)

\* The rows a user finds on /shortcodes or, an owner, on /my-shortcodes ...
Listed(u) == {r \in Rows : Exists(r) /\ (May(u, "shortcodes.manage") \/ r \in Owned(u))}

\* ... and the statuses a request may ask for, whatever buttons the page has:
\* an owner may not deactivate a row, but bring back one that is.
Settable(u, old) ==
  (IF May(u, "shortcodes.manage") THEN Statuses ELSE Statuses \ {"deactivated"}) \ {old.status}

StartQuickEdit(s, field) == \E u \in Clients \cup {Admin} : \E r \in Listed(u) :
  LET old == shortcodes[r] IN
  \E f \in IF field = "url" THEN {[old EXCEPT !.url = h] : h \in Handlers \ {old.url}}
          ELSE {[old EXCEPT !.status = t] : t \in Settable(u, old)} :
    Begin(s, [Idle EXCEPT !.stage = IF May(u, "shortcodes.manage") THEN "set" ELSE "own",
                          !.who = u, !.row = r, !.form = f, !.field = field])

\* actionSetShortcodeStatus and actionSetShortcodeHandlerUrl look the owner up
\* first ...
CheckOwner(s) == Check(s, "own", shortcodes[req[s].row].owner = req[s].who, "set")

\* ... and then set the one field, whoever owns the row by now.
SetField(s) ==
  LET r == req[s].row  f == req[s].form IN
  /\ req[s].stage = "set" /\ Updatable(r)
  /\ shortcodes' = [shortcodes EXCEPT ![r] =
       IF req[s].field = "url" THEN [@ EXCEPT !.url = f.url] ELSE [@ EXCEPT !.status = f.status]]
  /\ Wrote(s)

\* actionUpdateOperator: one UPDATE.
SetOperator(o) ==
  /\ requests < MaxRequests /\ May(Admin, "shortcodes.manage")
  /\ operators' = IF o \in operators THEN operators \ {o} ELSE operators \cup {o}
  /\ requests' = requests + 1
  /\ UNCHANGED <<shortcodes, viewers, grants, req, clock, lost>>

-----------------------------------------------------------------------------
(* A client's viewers.                                                     *)

NoViewer == [by |-> NoOne, active |-> FALSE, pwv |-> 0]

\* Transactions that have locked the row of the role, with the viewer's, FOR
\* UPDATE; a viewer's INSERT has to check it.
RoleFree(s) == \A t \in Slots \ {s} :
  ~(req[t].stage \in {"withdraw", "grant", "edit"} /\ viewers[req[t].viewer] # NoViewer)

\* The forms of a client's /users: a new viewer, unless the limit is reached, and
\* the grants of each viewer, over the rows the client owns.
AtLimit(u) == Cardinality(ViewersOf(u)) >= MaxViewers
ViewerForms(u) ==
  IF AtLimit(u) THEN {}
  ELSE [viewer : {v \in Viewers : viewers[v] = NoViewer}, ids : SUBSET Owned(u) \ {{}}]
GrantForms(u) == [viewer : ViewersOf(u), ids : SUBSET Owned(u)]

\* actionAdminCreateViewer.
StartViewer(s) == \E u \in Clients : \E f \in ViewerForms(u) :
  /\ May(u, "viewers.manage_own")
  /\ \A t \in Slots : req[t].viewer # f.viewer   \* addresses differ
  /\ Begin(s, [Idle EXCEPT !.stage = "assert", !.who = u, !.viewer = f.viewer, !.ids = f.ids])

\* actionAdminSetGrants.
StartGrants(s) == \E u \in Clients : \E f \in GrantForms(u) :
  /\ May(u, "viewers.manage_own")
  /\ Begin(s, [Idle EXCEPT !.stage = "assert", !.who = u, !.viewer = f.viewer, !.ids = f.ids])

\* assertShortcodesOwnedBy, FOR SHARE.
AssertOwned(s) ==
  LET new == viewers[req[s].viewer] = NoViewer IN
  /\ req[s].stage = "assert" /\ (new \/ RoleFree(s))
  /\ Check(s, "assert", req[s].ids \subseteq Owned(req[s].who), IF new THEN "count" ELSE "withdraw")

CountViewers(s) ==
  Check(s, "count", ~AtLimit(req[s].who), "grant")

\* The DELETE takes back the grants on what the client owns by then; those asked
\* for come back.
Withdraw(s) ==
  LET r == req[s] IN
  /\ r.stage = "withdraw"
  /\ req' = [req EXCEPT ![s].stage = "grant",
                        ![s].gone = {x \in Owned(r.who) \ r.ids : grants[r.viewer][x] # 0}]
  /\ Unwritten

\* The grants asked for are inserted: COMMIT.
Grant(s) ==
  LET r == req[s] IN
  /\ r.stage = "grant" /\ RoleFree(s)
  /\ viewers' = IF viewers[r.viewer] = NoViewer
                THEN [viewers EXCEPT ![r.viewer] = [NoViewer EXCEPT !.by = r.who, !.active = TRUE]]
                ELSE viewers
  /\ grants' = [grants EXCEPT ![r.viewer] = [x \in Rows |->
                  CASE x \in r.ids          -> clock
                    [] x \in r.gone \ r.ids -> 0
                    [] OTHER                -> @[x]]]
  /\ Finish(s)
  /\ UNCHANGED <<shortcodes, operators, clock, lost, requests>>

\* updateViewerAsAdmin (one transaction; bound: one thing changed) and
\* actionAdminResetViewerPassword (two).
StartViewerEdit(s) == \E u \in Clients : \E v \in ViewersOf(u), field \in {"active", "email", "password"} :
  /\ May(u, "viewers.manage_own")
  /\ Begin(s, [Idle EXCEPT !.stage = IF field = "password" THEN "look" ELSE "scope",
                           !.who = u, !.viewer = v, !.field = field])

\* canChangeEmail: the address is for the user who created the account.
CheckScope(s) ==
  LET q == req[s] IN
  /\ RoleFree(s)
  /\ Check(s, "scope", InScope(q.viewer, q.who) /\ (q.field = "email" => viewers[q.viewer].by = q.who), "edit")
LookUpViewer(s) == Check(s, "look", InScope(req[s].viewer, req[s].who), "reset")

\* Mutant: a new password or address takes a version back.
MutEditedBack(viewer, field) ==
  IF field = "active" THEN [viewer EXCEPT !.active = ~@] ELSE [viewer EXCEPT !.pwv = @ - 1]

\* A viewer disabled or enabled, or given a new address or password, either of
\* which ends its sessions.
Edited(viewer, field) ==
  IF field = "active" THEN [viewer EXCEPT !.active = ~@] ELSE [viewer EXCEPT !.pwv = @ + 1]

EditViewer(s) ==
  /\ req[s].stage \in {"edit", "reset"}
  /\ req[s].stage = "reset" => \A t \in Slots :   \* the row may be locked
       ~(req[t].stage \in {"withdraw", "grant", "edit"} /\ req[t].viewer = req[s].viewer)
  /\ viewers' = [viewers EXCEPT ![req[s].viewer] = Edited(@, req[s].field)]
  /\ Finish(s)
  /\ UNCHANGED <<shortcodes, operators, grants, clock, lost, requests>>

-----------------------------------------------------------------------------
\* Traffic arrives in every tick and belongs to those entitled to it.
\* Bound: MaxClock; a transaction ends within the tick it began in.
Tick ==
  /\ clock < MaxClock /\ requests < MaxRequests
  /\ \A s \in Slots : req[s].stage \notin {"count", "withdraw", "grant", "edit"}
  /\ lost' = [u \in Users |-> [r \in Rows |->
                IF Exists(r) /\ ~Entitled(u, r) THEN clock ELSE lost[u][r]]]
  /\ clock' = clock + 1
  /\ UNCHANGED <<shortcodes, operators, viewers, grants, req, requests>>

\* One client has a shortcode.
Init ==
  /\ \E u \in Clients, op \in Operators, c \in Codes, e \in Envs :
       /\ e = "sandbox" => op = Lowest(Operators)
       /\ shortcodes = [r \in Rows |->
            IF r # Lowest(Rows) THEN NoShortcode
            ELSE [Shortcode(op, c, e, u, FirstUrl) EXCEPT !.since = Second, !.created = Second]]
  /\ operators = Operators
  /\ viewers = [v \in Viewers |-> NoViewer]
  /\ grants = [v \in Viewers |-> [r \in Rows |-> 0]]
  /\ req = [s \in Slots |-> Idle]
  /\ clock = Second /\ lost = [u \in Users |-> [r \in Rows |-> 0]]
  /\ requests = 0

Start(s) ==
  \/ StartCreate(s) \/ StartSandbox(s) \/ StartPromote(s) \/ StartUpdate(s)
  \/ (\E field \in {"status", "url"} : StartQuickEdit(s, field))
  \/ StartViewer(s) \/ StartGrants(s) \/ StartViewerEdit(s)

Proceed(s) ==
  \/ CheckCap(s) \/ CheckCode(s) \/ InsertShortcode(s) \/ UpdateShortcode(s)
  \/ CheckOwner(s) \/ SetField(s)
  \/ AssertOwned(s) \/ CountViewers(s) \/ Withdraw(s) \/ Grant(s)
  \/ CheckScope(s) \/ LookUpViewer(s) \/ EditViewer(s)

Next ==
  \/ \E s \in Slots : Start(s) \/ Proceed(s)
  \/ \E o \in Operators : SetOperator(o)
  \/ Tick

Spec == Init /\ [][Next]_vars

-----------------------------------------------------------------------------
(* Properties.                                                             *)

Times == 0 .. MaxClock
Shortcodes == {NoShortcode} \cup
  [op : Operators, code : Codes, env : Envs, owner : Clients, url : Handlers, status : Statuses,
   since : Times, created : Times, from : Rows \cup {NoRow}]

\* Every variable holds what its row or request may hold.
TypeOK ==
  /\ shortcodes \in [Rows -> Shortcodes] /\ operators \subseteq Operators
  /\ viewers \in [Viewers -> [by : Clients \cup {NoOne}, active : BOOLEAN, pwv : 0 .. MaxRequests]]
  /\ grants \in [Viewers -> [Rows -> Times]]
  /\ req \in [Slots -> [stage : {"idle", "cap", "exists", "insert", "update", "own", "set", "assert",
                                 "count", "withdraw", "grant", "scope", "look", "edit", "reset"},
                        who : Clients \cup {Admin, NoOne}, row : Rows \cup {NoRow},
                        form : Shortcodes, field : {"none", "status", "url", "active", "email", "password"},
                        viewer : Viewers \cup {NoOne}, ids : SUBSET Rows, gone : SUBSET Rows]]
  /\ clock \in Times /\ lost \in [Users -> [Rows -> Times]] /\ requests \in 0 .. MaxRequests

\* Whatever happens to owners and grants, a user who signs in now can read no
\* traffic from before the last time they were not entitled to it, give or take
\* the half second the whole-second floor loses (lib/acl.ts, db/025).
VisibleLegsWereEarned == \A u \in Users, r \in Rows :
  Entitled(u, r) /\ lost[u][r] # 0 => 2 * (lost[u][r] - Floor(u, r)) < Second

\* A client adds grants on shortcodes they own at that moment, however the check
\* and a hand-over interleave (createViewerAsAdmin, "so a concurrent shortcode
\* transfer can't race").  The DELETE locks no shortcode, so a grant taken away may
\* be on a row handed over before the COMMIT, but on no other row of another owner.
GrantsWithinOwnership == [][\A s \in Slots, v \in Viewers, r \in Rows :
  req[s].stage = "grant" /\ req'[s].stage = "idle" /\ grants'[v][r] # grants[v][r]
    => \/ shortcodes[r].owner = req[s].who
       \/ grants'[v][r] = 0 /\ shortcodes[r].since = clock]_vars

\* "Promoting one frees a slot" (countUnpromotedSandbox): a sandbox row that has
\* been promoted no longer counts against its owner's limit.
PromotionFreesSlot == \A u \in Clients, op \in Operators, p \in Rows :
  shortcodes[p].from \notin Unpromoted(u, op)
=============================================================================
