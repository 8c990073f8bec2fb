----------------------------- MODULE PortalReach -----------------------------
(***************************************************************************)
(* What a signed-in client reaches through a cookie that outlives the      *)
(* facts it was minted from.  loadUserClaims writes the client's           *)
(* shortcodes, and the instant each grant began, into the session          *)
(* (lib/auth.ts); until it expires the pages, the exports and the          *)
(* simulator go by the cookie, and an export carries its copy on to a      *)
(* worker that runs later (exports/actions.ts, exports_worker.mjs).        *)
(* Meanwhile shortcodes change hands.                                      *)
(*                                                                         *)
(* The traffic of a tick arrives at its end; whole ticks make the floors   *)
(* exact here, and ShortcodeRegistry has their rounding.                   *)
(***************************************************************************)
EXTENDS Integers, FiniteSets

CONSTANTS Clients, Shortcodes,
          Exports,       \* bound: the exports that may be asked for
          Ttl,           \* SESSION_TTL_SECONDS, in ticks
          MaxClock, MaxHandOvers,   \* bounds
          NoOne

ASSUME ReachAssumption ==
  /\ IsFiniteSet(Clients) /\ IsFiniteSet(Shortcodes) /\ IsFiniteSet(Exports)
  /\ Clients # {} /\ NoOne \notin Clients \cup Shortcodes
  /\ Ttl \in Nat \ {0} /\ MaxClock \in Nat \ {0} /\ MaxHandOvers \in Nat

VARIABLES
  owner,     \* shortcodes.owner_user_id
  since,     \* shortcodes.owner_since, 0 if it never changed hands
  cookie,    \* the session of each client: grants, when minted
  exports,   \* portal_exports: by whom, the grants stamped in, the rows written
  sim,       \* the shortcode each client's simulated leg is about to call
  called,    \* history: the handlers called this tick: by whom, of which shortcode
  held,      \* history: whose shortcode it was at the end of each tick
  left,      \* history: the last tick in which it was a client's no more
  clock, handOvers

vars == <<owner, since, cookie, exports, sim, called, held, left, clock, handOvers>>

-----------------------------------------------------------------------------
(* Sessions.                                                               *)

NoCookie == [grants |-> {}, minted |-> -Ttl]

\* verifySession: the token expires Ttl after it was signed.
Live(u) == clock < cookie[u].minted + Ttl

\* loadUserClaims: a floor only where the shortcode has changed hands.
Granted(u) == {[id |-> r, from |-> since[r]] : r \in {x \in Shortcodes : owner[x] = u}}

Ids(acl) == {g.id : g \in acl}

\* aclClause: the legs, by shortcode and tick, of the log that a set of grants
\* lets through.
Visible(acl) == {leg \in Shortcodes \X (0 .. clock - 1) :
                   \E g \in acl : g.id = leg[1] /\ leg[2] >= g.from}

\* A sign-in, and every answer that mints the cookie again.
SignIn(u) ==
  /\ cookie' = [cookie EXCEPT ![u] = [grants |-> Granted(u), minted |-> clock]]
  /\ cookie' # cookie
  /\ UNCHANGED <<owner, since, exports, sim, called, held, left, clock, handOvers>>

\* Signing out, a new password, a deactivation: getSession refuses the cookie.
SignOut(u) ==
  /\ Live(u)
  /\ cookie' = [cookie EXCEPT ![u] = NoCookie]
  /\ UNCHANGED <<owner, since, exports, sim, called, held, left, clock, handOvers>>

-----------------------------------------------------------------------------
(* Exports.                                                                *)

NoExport == [by |-> NoOne, acl |-> {}, minted |-> 0, st |-> "none", rows |-> {}]

\* Mutant: allowedShortcodeFrom is left out.
MutStampedUnfloored(acl) == {[id |-> r, from |-> 0] : r \in Ids(acl)}

\* allowedShortcodeIds and allowedShortcodeFrom, aligned by index.
Stamped(acl) == acl

\* actionCreateExport.
Ask(u, j) ==
  /\ Live(u) /\ exports[j] = NoExport
  /\ exports' = [exports EXCEPT ![j] =
       [by |-> u, acl |-> Stamped(cookie[u].grants), minted |-> cookie[u].minted,
        st |-> "queued", rows |-> {}]]
  /\ UNCHANGED <<owner, since, cookie, sim, called, held, left, clock, handOvers>>

\* The worker's buildWhere and queries, whenever it comes to the job.
Produce(j) ==
  /\ exports[j].st = "queued"
  /\ exports' = [exports EXCEPT ![j].st = "ready", ![j].rows = Visible(exports[j].acl)]
  /\ UNCHANGED <<owner, since, cookie, sim, called, held, left, clock, handOvers>>

\* getExportForUser: the requester's alone.
Requested(u) == {j \in Exports : exports[j].by = u}

\* GET /api/exports/:id/download.
Downloadable(u) == {j \in Requested(u) : Live(u) /\ exports[j].st = "ready"}

-----------------------------------------------------------------------------
(* The simulator.                                                          *)

\* actionSimulateLeg: the shortcode has to be among the session's ...
Simulate(u, r) ==
  /\ Live(u) /\ sim[u] = NoOne
  /\ r \in Ids(cookie[u].grants)
  /\ sim' = [sim EXCEPT ![u] = r]
  /\ UNCHANGED <<owner, since, cookie, exports, called, held, left, clock, handOvers>>

\* ... and runSimulatedLeg calls the handler its row has by now.
CallHandler(u) ==
  /\ sim[u] # NoOne
  /\ called' = called \cup {<<u, sim[u]>>}
  /\ sim' = [sim EXCEPT ![u] = NoOne]
  /\ UNCHANGED <<owner, since, cookie, exports, held, left, clock, handOvers>>

-----------------------------------------------------------------------------
\* Mutant: the floor is rounded up to the next tick.
MutHandOverLate(r, u) ==
  /\ handOvers < MaxHandOvers /\ owner[r] # u
  /\ owner' = [owner EXCEPT ![r] = u]
  /\ since' = [since EXCEPT ![r] = clock + 1]
  /\ left' = [left EXCEPT ![r][owner[r]] = clock]
  /\ handOvers' = handOvers + 1
  /\ UNCHANGED <<cookie, exports, sim, called, held, clock>>

\* updateShortcode with another owner: trg_shortcodes_owner_since.
HandOver(r, u) ==
  /\ handOvers < MaxHandOvers /\ owner[r] # u
  /\ owner' = [owner EXCEPT ![r] = u]
  /\ since' = [since EXCEPT ![r] = clock]
  /\ left' = [left EXCEPT ![r][owner[r]] = clock]
  /\ handOvers' = handOvers + 1
  /\ UNCHANGED <<cookie, exports, sim, called, held, clock>>

\* Bound: MaxClock.  A simulated leg, at most 15 s long, ends within the tick.
Tick ==
  /\ clock < MaxClock /\ \A u \in Clients : sim[u] = NoOne
  /\ held' = [r \in Shortcodes |-> [held[r] EXCEPT ![clock] = owner[r]]]
  /\ called' = {}
  /\ clock' = clock + 1
  /\ UNCHANGED <<owner, since, cookie, exports, sim, left, handOvers>>

Init ==
  /\ owner \in [Shortcodes -> Clients] /\ since = [r \in Shortcodes |-> 0]
  /\ cookie = [u \in Clients |-> NoCookie]
  /\ exports = [j \in Exports |-> NoExport]
  /\ sim = [u \in Clients |-> NoOne] /\ called = {}
  /\ held = [r \in Shortcodes |-> [t \in 0 .. MaxClock |-> IF t = 0 THEN owner[r] ELSE NoOne]]
  /\ left = [r \in Shortcodes |-> [u \in Clients |-> -Ttl]]
  /\ clock = 1 /\ handOvers = 0

Next ==
  \/ \E u \in Clients : SignIn(u) \/ SignOut(u) \/ CallHandler(u)
  \/ \E u \in Clients, j \in Exports : Ask(u, j)
  \/ \E j \in Exports : Produce(j)
  \/ \E u \in Clients, r \in Shortcodes : Simulate(u, r) \/ HandOver(r, u)
  \/ Tick

Spec == Init /\ [][Next]_vars

-----------------------------------------------------------------------------
Legs == Shortcodes \X (0 .. MaxClock)
Grants == SUBSET [id : Shortcodes, from : 0 .. clock]

\* Types; no floor, in the table, a cookie or an export, lies in the future.
TypeOK ==
  /\ owner \in [Shortcodes -> Clients] /\ since \in [Shortcodes -> 0 .. clock]
  /\ \A u \in Clients : /\ cookie[u].grants \in Grants
                        /\ cookie[u].minted \in {-Ttl} \cup (1 .. clock)
  /\ \A j \in Exports : /\ exports[j].by \in Clients \cup {NoOne}
                        /\ exports[j].acl \in Grants /\ exports[j].minted \in 0 .. clock
                        /\ exports[j].st \in {"none", "queued", "ready"}
                        /\ exports[j].rows \subseteq Legs
  /\ sim \in [Clients -> Shortcodes \cup {NoOne}] /\ called \subseteq Clients \X Shortcodes
  /\ held \in [Shortcodes -> [0 .. MaxClock -> Clients \cup {NoOne}]]
  /\ left \in [Shortcodes -> [Clients -> {-Ttl} \cup (1 .. clock)]]
  /\ clock \in 1 .. MaxClock /\ handOvers \in 0 .. MaxHandOvers

\* The traffic of another client among a set of legs.
Foreign(u, legs) == {leg \in legs : held[leg[1]][leg[2]] # u}

\* How far a stale cookie reaches.  Traffic that came to a shortcode before it
\* was the client's is never shown, by a page or by an export; traffic that came
\* after it was handed on is shown only as far as a cookie minted before the
\* hand-over lives, or an export stamped from one runs; and the handler of a
\* shortcode is called from the simulator by its client, or by one who had it
\* less than a session's life ago (exports/actions.ts "can never contain
\* shortcodes the requester doesn't own" is true of the moment of the sign-in).
ReachIsEarned ==
  /\ \A u \in Clients : Live(u) =>
       \A leg \in Foreign(u, Visible(cookie[u].grants)) :
         leg[2] >= cookie[u].minted
  /\ \A u \in Clients : \A j \in Downloadable(u) :
       \A leg \in Foreign(u, exports[j].rows) : leg[2] >= exports[j].minted
  /\ \A c \in called : owner[c[2]] = c[1] \/ clock < left[c[2]][c[1]] + Ttl
=============================================================================
