--------------------------- MODULE PortalReachProofs ---------------------------
(***************************************************************************)
(* Theorems about PortalReach, for any clients, shortcodes and exports and *)
(* any life of a session: its types, and how far a stale cookie reaches.   *)
(* The invariant they rest on follows a set of grants from the sign-in     *)
(* that mints it: while a cookie or an export carries it, every grant is   *)
(* backed by the traffic of its shortcode, from its floor to the mint.     *)
(***************************************************************************)
EXTENDS PortalReach, TLAPS

-----------------------------------------------------------------------------
(* The invariant.                                                          *)

CookieType == [grants : Grants, minted : {-Ttl} \cup (1 .. clock)]
ExportType == [by : Clients \cup {NoOne}, acl : Grants, minted : 0 .. clock,
               st : {"none", "queued", "ready"}, rows : SUBSET (Shortcodes \X (0 .. clock - 1))]

\* The types: TypeOK, with the records whole and the rows of an export past.
Types ==
  /\ clock \in 1 .. MaxClock /\ handOvers \in 0 .. MaxHandOvers
  /\ owner \in [Shortcodes -> Clients] /\ since \in [Shortcodes -> 0 .. clock]
  /\ cookie \in [Clients -> CookieType] /\ exports \in [Exports -> ExportType]
  /\ sim \in [Clients -> Shortcodes \cup {NoOne}] /\ called \in SUBSET (Clients \X Shortcodes)
  /\ held \in [Shortcodes -> [0 .. MaxClock -> Clients \cup {NoOne}]]
  /\ left \in [Shortcodes -> [Clients -> {-Ttl} \cup (1 .. clock)]]

\* A grant of acl was its client's from the floor to the mint.
Backed(u, acl, minted) ==
  \A g \in acl : \A t \in Int : g.from <= t /\ t < minted => held[g.id][t] = u

\* A client whose session is recent enough to still call the handler of r.
Earned(u, r) == owner[r] = u \/ clock < left[r][u] + Ttl

\* owner_since: the shortcode has been its owner's from there to now.
FloorsExact ==
  \A r \in Shortcodes : \A t \in Int : since[r] <= t /\ t < clock => held[r][t] = owner[r]

CookiesBacked == \A u \in Clients : Backed(u, cookie[u].grants, cookie[u].minted)

ExportsBacked ==
  \A j \in Exports : Backed(exports[j].by, exports[j].acl, exports[j].minted)

\* Every row of an export is let through by a grant stamped into it.
RowsGranted ==
  \A j \in Exports : \A leg \in exports[j].rows :
    \E g \in exports[j].acl : g.id = leg[1] /\ leg[2] >= g.from

\* A grant lost its shortcode, if it did, after the cookie was minted.
LossesFollow ==
  \A u \in Clients : \A g \in cookie[u].grants :
    owner[g.id] = u \/ left[g.id][u] >= cookie[u].minted

CallsEarned ==
  /\ \A u \in Clients : sim[u] # NoOne => Earned(u, sim[u])
  /\ \A c \in called : Earned(c[1], c[2])

Inv == /\ Types /\ FloorsExact /\ CookiesBacked /\ ExportsBacked
       /\ RowsGranted /\ LossesFollow /\ CallsEarned

-----------------------------------------------------------------------------
\* The bounds and the values of the constants, as the steps use them.
LEMMA Constants ==
  /\ Ttl \in Nat /\ Ttl >= 1 /\ MaxClock \in Nat /\ MaxClock >= 1 /\ MaxHandOvers \in Nat
  /\ NoOne \notin Clients /\ NoOne \notin Shortcodes
  BY ReachAssumption

\* The portal starts with no session, no export and every floor at 0.
LEMMA InitInv == Init => Inv
<1> SUFFICES ASSUME Init PROVE Inv
  OBVIOUS
<1>1. Types
  <2>1. clock \in 1 .. MaxClock /\ handOvers \in 0 .. MaxHandOvers
    BY Constants DEF Init
  <2>2. owner \in [Shortcodes -> Clients] /\ since \in [Shortcodes -> 0 .. clock]
    BY DEF Init
  <2>3. NoCookie \in CookieType
    BY DEF NoCookie, CookieType, Grants
  <2>4. NoExport \in ExportType
    BY DEF NoExport, ExportType, Grants, Init
  <2>5. cookie \in [Clients -> CookieType] /\ exports \in [Exports -> ExportType]
    BY <2>3, <2>4 DEF Init
  <2>6. sim \in [Clients -> Shortcodes \cup {NoOne}] /\ called \in SUBSET (Clients \X Shortcodes)
    BY DEF Init
  <2>7. held \in [Shortcodes -> [0 .. MaxClock -> Clients \cup {NoOne}]]
    BY <2>2 DEF Init
  <2>8. left \in [Shortcodes -> [Clients -> {-Ttl} \cup (1 .. clock)]]
    BY DEF Init
  <2> QED
    BY <2>1, <2>2, <2>5, <2>6, <2>7, <2>8 DEF Types
<1>2. FloorsExact
  BY Constants DEF Init, FloorsExact
<1>3. CookiesBacked /\ LossesFollow
  BY DEF Init, CookiesBacked, LossesFollow, Backed, NoCookie
<1>4. ExportsBacked /\ RowsGranted
  BY DEF Init, ExportsBacked, RowsGranted, Backed, NoExport
<1>5. CallsEarned
  BY DEF Init, CallsEarned
<1> QED
  BY <1>1, <1>2, <1>3, <1>4, <1>5 DEF Inv

\* What the table grants is well typed, backed and not lost.
LEMMA GrantedFacts ==
  ASSUME Inv, NEW u \in Clients
  PROVE  /\ Granted(u) \in Grants
         /\ Backed(u, Granted(u), clock)
         /\ \A g \in Granted(u) : owner[g.id] = u
  BY DEF Inv, Types, FloorsExact, Granted, Grants, Backed

\* Every step keeps the invariant: one case per action.
LEMMA StepInv == Inv /\ [Next]_vars => Inv'
<1> SUFFICES ASSUME Inv, [Next]_vars PROVE Inv'
  OBVIOUS
<1>t. Types /\ FloorsExact /\ CookiesBacked /\ ExportsBacked /\ RowsGranted /\ LossesFollow /\ CallsEarned
  BY DEF Inv
<1>0. CASE UNCHANGED vars
  BY <1>t, <1>0 DEF Inv, Types, CookieType, ExportType, Grants, FloorsExact, CookiesBacked,
     ExportsBacked, RowsGranted, LossesFollow, CallsEarned, Backed, Earned, vars
<1>1. ASSUME NEW u \in Clients, SignIn(u) PROVE Inv'
  <2> DEFINE minting == [grants |-> Granted(u), minted |-> clock]
  <2>1. minting \in CookieType /\ minting.grants = Granted(u) /\ minting.minted = clock
    BY <1>t, GrantedFacts DEF CookieType, Types
  <2>2. cookie' = [cookie EXCEPT ![u] = minting]
        /\ UNCHANGED <<owner, since, exports, sim, called, held, left, clock, handOvers>>
    BY <1>1 DEF SignIn
  <2> HIDE DEF minting
  <2>3. cookie'[u] = minting /\ \A v \in Clients \ {u} : cookie'[v] = cookie[v]
    BY <2>2, <1>t DEF Types
  <2>4. Types'
    BY <1>t, <2>1, <2>2 DEF Types, CookieType, ExportType, Grants
  <2>5. CookiesBacked'
    BY <1>t, <2>1, <2>2, <2>3, GrantedFacts DEF CookiesBacked, Backed
  <2>6. LossesFollow'
    BY <1>t, <2>1, <2>2, <2>3, GrantedFacts DEF LossesFollow
  <2>7. FloorsExact' /\ ExportsBacked' /\ RowsGranted' /\ CallsEarned'
    BY <1>t, <2>2 DEF FloorsExact, ExportsBacked, RowsGranted, CallsEarned, Backed, Earned
  <2> QED
    BY <2>4, <2>5, <2>6, <2>7 DEF Inv
<1>2. ASSUME NEW u \in Clients, SignOut(u) PROVE Inv'
  <2>1. cookie' = [cookie EXCEPT ![u] = NoCookie]
        /\ UNCHANGED <<owner, since, exports, sim, called, held, left, clock, handOvers>>
    BY <1>2 DEF SignOut
  <2>2. NoCookie \in CookieType /\ NoCookie.grants = {}
    BY DEF NoCookie, CookieType, Grants
  <2>3. cookie'[u] = NoCookie /\ \A v \in Clients \ {u} : cookie'[v] = cookie[v]
    BY <2>1, <1>t DEF Types
  <2>4. Types'
    BY <1>t, <2>1, <2>2 DEF Types, CookieType, ExportType, Grants
  <2>5. CookiesBacked' /\ LossesFollow'
    BY <1>t, <2>1, <2>2, <2>3 DEF CookiesBacked, LossesFollow, Backed
  <2>6. FloorsExact' /\ ExportsBacked' /\ RowsGranted' /\ CallsEarned'
    BY <1>t, <2>1 DEF FloorsExact, ExportsBacked, RowsGranted, CallsEarned, Backed, Earned
  <2> QED
    BY <2>4, <2>5, <2>6 DEF Inv
<1>3. ASSUME NEW u \in Clients, NEW j \in Exports, Ask(u, j) PROVE Inv'
  <2> DEFINE asked == [by |-> u, acl |-> Stamped(cookie[u].grants), minted |-> cookie[u].minted,
                       st |-> "queued", rows |-> {}]
  <2>1. exports' = [exports EXCEPT ![j] = asked] /\ Live(u)
        /\ UNCHANGED <<owner, since, cookie, sim, called, held, left, clock, handOvers>>
    BY <1>3 DEF Ask
  <2>2. cookie[u] \in CookieType /\ clock \in Nat /\ clock >= 1
    BY <1>t DEF Types
  <2>3. cookie[u].grants \in Grants /\ cookie[u].minted \in 1 .. clock
    BY <2>1, <2>2, Constants DEF Live, CookieType
  <2>4. asked.by = u /\ asked.acl = cookie[u].grants /\ asked.minted = cookie[u].minted
        /\ asked.rows = {} /\ asked \in ExportType
    BY <2>3, <2>2 DEF Stamped, ExportType
  <2> HIDE DEF asked
  <2>5. exports'[j] = asked /\ \A k \in Exports \ {j} : exports'[k] = exports[k]
    BY <2>1, <1>t DEF Types
  <2>6. Types'
    BY <1>t, <2>1, <2>4 DEF Types, CookieType, ExportType, Grants
  <2>7. ExportsBacked'
    BY <1>t, <2>1, <2>4, <2>5 DEF ExportsBacked, CookiesBacked, Backed
  <2>8. RowsGranted'
    BY <1>t, <2>4, <2>5 DEF RowsGranted
  <2>9. FloorsExact' /\ CookiesBacked' /\ LossesFollow' /\ CallsEarned'
    BY <1>t, <2>1 DEF FloorsExact, CookiesBacked, LossesFollow, CallsEarned, Backed, Earned
  <2> QED
    BY <2>6, <2>7, <2>8, <2>9 DEF Inv
<1>4. ASSUME NEW j \in Exports, Produce(j) PROVE Inv'
  <2> DEFINE read == Visible(exports[j].acl)
             done == [[exports[j] EXCEPT !.st = "ready"] EXCEPT !.rows = read]
  <2>1. exports[j] \in ExportType /\ clock \in Nat /\ clock >= 1
    BY <1>t DEF Types
  <2>2. read \in SUBSET (Shortcodes \X (0 .. clock - 1))
        /\ \A leg \in read : \E g \in exports[j].acl : g.id = leg[1] /\ leg[2] >= g.from
    BY DEF Visible
  <2>3. UNCHANGED <<owner, since, cookie, sim, called, held, left, clock, handOvers>>
    BY <1>4 DEF Produce
  <2>e. exports' = [exports EXCEPT ![j].st = "ready", ![j].rows = read]
    BY <1>4 DEF Produce
  <2> HIDE DEF read
  <2>4. exports' = [exports EXCEPT ![j] = done]
    BY <2>e, <1>t DEF Types
  <2>5. done.by = exports[j].by /\ done.acl = exports[j].acl /\ done.minted = exports[j].minted
        /\ done.rows = read /\ done \in ExportType
    BY <2>1, <2>2 DEF ExportType
  <2> HIDE DEF done
  <2>6. exports'[j] = done /\ \A k \in Exports \ {j} : exports'[k] = exports[k]
    BY <2>4, <1>t DEF Types
  <2>7. Types'
    BY <1>t, <2>3, <2>4, <2>5 DEF Types, CookieType, ExportType, Grants
  <2>8. ExportsBacked'
    BY <1>t, <2>3, <2>5, <2>6 DEF ExportsBacked, Backed
  <2>9. RowsGranted'
    BY <1>t, <2>2, <2>5, <2>6 DEF RowsGranted
  <2>10. FloorsExact' /\ CookiesBacked' /\ LossesFollow' /\ CallsEarned'
    BY <1>t, <2>3 DEF FloorsExact, CookiesBacked, LossesFollow, CallsEarned, Backed, Earned
  <2> QED
    BY <2>7, <2>8, <2>9, <2>10 DEF Inv
<1>5. ASSUME NEW u \in Clients, NEW r \in Shortcodes, Simulate(u, r) PROVE Inv'
  <2>1. sim' = [sim EXCEPT ![u] = r] /\ Live(u) /\ r \in Ids(cookie[u].grants)
        /\ UNCHANGED <<owner, since, cookie, exports, called, held, left, clock, handOvers>>
    BY <1>5 DEF Simulate
  <2>2. PICK g \in cookie[u].grants : g.id = r
    BY <2>1 DEF Ids
  <2>3. clock \in Nat /\ left[r][u] \in Int /\ cookie[u].minted \in Int
    BY <1>t, Constants DEF Types, CookieType
  <2>4. Earned(u, r)
    BY <1>t, <2>1, <2>2, <2>3, Constants DEF LossesFollow, Live, Earned
  <2>5. Types'
    BY <1>t, <2>1 DEF Types, CookieType, ExportType, Grants
  <2>6. sim'[u] = r /\ \A v \in Clients \ {u} : sim'[v] = sim[v]
    BY <2>1, <1>t DEF Types
  <2>7. CallsEarned'
    BY <1>t, <2>1, <2>4, <2>6 DEF CallsEarned, Earned
  <2>8. FloorsExact' /\ CookiesBacked' /\ ExportsBacked' /\ RowsGranted' /\ LossesFollow'
    BY <1>t, <2>1 DEF FloorsExact, CookiesBacked, ExportsBacked, RowsGranted, LossesFollow, Backed
  <2> QED
    BY <2>5, <2>7, <2>8 DEF Inv
<1>6. ASSUME NEW u \in Clients, CallHandler(u) PROVE Inv'
  <2>1. sim[u] # NoOne /\ sim[u] \in Shortcodes
    BY <1>6, <1>t DEF CallHandler, Types
  <2>2. called' = called \cup {<<u, sim[u]>>} /\ sim' = [sim EXCEPT ![u] = NoOne]
        /\ UNCHANGED <<owner, since, cookie, exports, held, left, clock, handOvers>>
    BY <1>6 DEF CallHandler
  <2>3. Types'
    BY <1>t, <2>1, <2>2 DEF Types, CookieType, ExportType, Grants
  <2>4. sim'[u] = NoOne /\ \A v \in Clients \ {u} : sim'[v] = sim[v]
    BY <2>2, <1>t DEF Types
  <2>5. CallsEarned'
    BY <1>t, <2>1, <2>2, <2>4 DEF CallsEarned, Earned
  <2>6. FloorsExact' /\ CookiesBacked' /\ ExportsBacked' /\ RowsGranted' /\ LossesFollow'
    BY <1>t, <2>2 DEF FloorsExact, CookiesBacked, ExportsBacked, RowsGranted, LossesFollow, Backed
  <2> QED
    BY <2>3, <2>5, <2>6 DEF Inv
<1>7. ASSUME NEW r \in Shortcodes, NEW u \in Clients, HandOver(r, u) PROVE Inv'
  <2>1. owner' = [owner EXCEPT ![r] = u] /\ since' = [since EXCEPT ![r] = clock]
        /\ left' = [left EXCEPT ![r][owner[r]] = clock] /\ handOvers' = handOvers + 1
        /\ handOvers < MaxHandOvers /\ owner[r] # u
        /\ UNCHANGED <<cookie, exports, sim, called, held, clock>>
    BY <1>7 DEF HandOver
  <2>2. clock \in Nat /\ clock >= 1 /\ owner[r] \in Clients
    BY <1>t DEF Types
  <2>3. Types'
    <3>1. owner' \in [Shortcodes -> Clients] /\ since' \in [Shortcodes -> 0 .. clock]
      BY <1>t, <2>1, <2>2 DEF Types
    <3>2. left' \in [Shortcodes -> [Clients -> {-Ttl} \cup (1 .. clock)]]
      BY <1>t, <2>1, <2>2 DEF Types
    <3>3. handOvers' \in 0 .. MaxHandOvers
      BY <1>t, <2>1, Constants DEF Types
    <3> QED
      BY <1>t, <2>1, <3>1, <3>2, <3>3 DEF Types, CookieType, ExportType, Grants
  <2>4. FloorsExact'
    BY <1>t, <2>1, <2>2 DEF FloorsExact, Types
  <2>5. \A x \in Shortcodes, v \in Clients :
          \/ owner'[x] = owner[x] /\ left'[x][v] = left[x][v]
          \/ owner[x] # v /\ left'[x][v] = left[x][v]
          \/ left'[x][v] = clock
    BY <1>t, <2>1, <2>2 DEF Types
  <2>6. \A x \in Shortcodes, v \in Clients : Earned(v, x) => Earned(v, x)'
    BY <2>1, <2>2, <2>5, Constants DEF Earned
  <2>7. CallsEarned'
    BY <1>t, <2>1, <2>6 DEF CallsEarned, Types
  <2>8. LossesFollow'
    <3> SUFFICES ASSUME NEW v \in Clients, NEW g \in cookie[v].grants
                 PROVE  owner'[g.id] = v \/ left'[g.id][v] >= cookie[v].minted
      BY <2>1 DEF LossesFollow
    <3>1. g.id \in Shortcodes /\ cookie[v].minted \in Int /\ cookie[v].minted <= clock
      BY <1>t, <2>2, Constants DEF Types, CookieType, Grants
    <3> QED
      BY <1>t, <2>2, <2>5, <3>1 DEF LossesFollow
  <2>9. CookiesBacked' /\ ExportsBacked' /\ RowsGranted'
    BY <1>t, <2>1 DEF CookiesBacked, ExportsBacked, RowsGranted, Backed
  <2> QED
    BY <2>3, <2>4, <2>7, <2>8, <2>9 DEF Inv
<1>8. CASE Tick
  <2>h. held' = [r \in Shortcodes |-> [held[r] EXCEPT ![clock] = owner[r]]]
    BY <1>8 DEF Tick
  <2>1. /\ called' = {} /\ clock' = clock + 1 /\ clock < MaxClock
        /\ \A u \in Clients : sim[u] = NoOne
        /\ UNCHANGED <<owner, since, cookie, exports, sim, left, handOvers>>
    BY <1>8 DEF Tick
  <2>2. clock \in Nat /\ clock >= 1 /\ clock \in 0 .. MaxClock
    BY <1>t, Constants DEF Types
  <2>3. Types'
    <3>1. clock' \in 1 .. MaxClock /\ 1 .. clock \subseteq 1 .. clock'
          /\ 0 .. clock \subseteq 0 .. clock' /\ 0 .. clock - 1 \subseteq 0 .. clock' - 1
      BY <2>1, <2>2, Constants
    <3>2. Grants \subseteq Grants'
      BY <3>1 DEF Grants
    <3>3. CookieType \subseteq CookieType'
      BY <3>1, <3>2 DEF CookieType
    <3>4. ExportType \subseteq ExportType'
      BY <3>1, <3>2 DEF ExportType
    <3>5. held' \in [Shortcodes -> [0 .. MaxClock -> Clients \cup {NoOne}]]
      BY <1>t, <2>h, <2>2 DEF Types
    <3>6. cookie \in [Clients -> CookieType] /\ exports \in [Exports -> ExportType]
      BY <1>t DEF Types
    <3>7. cookie' \in [Clients -> CookieType'] /\ exports' \in [Exports -> ExportType']
      BY <2>1, <3>3, <3>4, <3>6
    <3>8. since' \in [Shortcodes -> 0 .. clock']
      BY <1>t, <2>1, <2>2 DEF Types
    <3>9. left' \in [Shortcodes -> [Clients -> {-Ttl} \cup (1 .. clock')]]
      BY <1>t, <2>1, <3>1 DEF Types
    <3>10. /\ owner' \in [Shortcodes -> Clients] /\ handOvers' \in 0 .. MaxHandOvers
           /\ sim' \in [Clients -> Shortcodes \cup {NoOne}]
           /\ called' \in SUBSET (Clients \X Shortcodes)
      BY <1>t, <2>1 DEF Types
    <3> QED
      BY <3>1, <3>5, <3>7, <3>8, <3>9, <3>10 DEF Types
  <2>4. \A r \in Shortcodes : held'[r][clock] = owner[r]
    BY <1>t, <2>h, <2>2 DEF Types
  <2>5. \A r \in Shortcodes, t \in Int : t # clock => held'[r][t] = held[r][t]
    BY <1>t, <2>h, <2>2 DEF Types
  <2>6. FloorsExact'
    <3> SUFFICES ASSUME NEW r \in Shortcodes, NEW t \in Int, since[r] <= t, t < clock + 1
                 PROVE  held'[r][t] = owner[r]
      BY <2>1 DEF FloorsExact
    <3>1. t = clock \/ t < clock
      BY <2>2
    <3> QED
      BY <1>t, <2>2, <2>4, <2>5, <3>1 DEF FloorsExact
  <2>7. CookiesBacked'
    <3> SUFFICES ASSUME NEW u \in Clients, NEW g \in cookie[u].grants, NEW t \in Int,
                        g.from <= t, t < cookie[u].minted
                 PROVE  held'[g.id][t] = u
      BY <2>1 DEF CookiesBacked, Backed
    <3>t. cookie[u] \in CookieType
      BY <1>t DEF Types
    <3>1. g.id \in Shortcodes /\ cookie[u].minted \in Int /\ cookie[u].minted <= clock
      BY <3>t, <2>2, Constants DEF CookieType, Grants
    <3> QED
      BY <1>t, <2>2, <2>5, <3>1 DEF CookiesBacked, Backed
  <2>8. ExportsBacked'
    <3> SUFFICES ASSUME NEW j \in Exports, NEW g \in exports[j].acl, NEW t \in Int,
                        g.from <= t, t < exports[j].minted
                 PROVE  held'[g.id][t] = exports[j].by
      BY <2>1 DEF ExportsBacked, Backed
    <3>t. exports[j] \in ExportType
      BY <1>t DEF Types
    <3>1. g.id \in Shortcodes /\ exports[j].minted \in Int /\ exports[j].minted <= clock
      BY <3>t, <2>2 DEF ExportType, Grants
    <3> QED
      BY <1>t, <2>2, <2>5, <3>1 DEF ExportsBacked, Backed
  <2>9. RowsGranted' /\ LossesFollow' /\ CallsEarned'
    BY <1>t, <2>1 DEF RowsGranted, LossesFollow, CallsEarned
  <2> QED
    BY <2>3, <2>6, <2>7, <2>8, <2>9 DEF Inv
<1> QED
  BY <1>0, <1>1, <1>2, <1>3, <1>4, <1>5, <1>6, <1>7, <1>8 DEF Next

\* Nothing that signs in, asks, hands over or waits breaks the invariant.
THEOREM Invariance == Spec => []Inv
  BY InitInv, StepInv, PTL DEF Spec

-----------------------------------------------------------------------------
\* The types of the tables, cookies and exports; no floor lies in the future.
THEOREM Typing == Spec => []TypeOK
<1>1. Inv => TypeOK
  <2> SUFFICES ASSUME Types PROVE TypeOK
    BY DEF Inv
  <2>1. clock \in 1 .. MaxClock /\ MaxClock \in Nat
    BY Constants DEF Types
  <2>2. \A u \in Clients : /\ cookie[u].grants \in Grants
                           /\ cookie[u].minted \in {-Ttl} \cup (1 .. clock)
    BY DEF Types, CookieType
  <2>3. \A j \in Exports : exports[j] \in ExportType
    BY DEF Types
  <2>4. \A j \in Exports : exports[j].rows \subseteq Legs
    BY <2>1, <2>3 DEF ExportType, Legs
  <2>5. \A j \in Exports : /\ exports[j].by \in Clients \cup {NoOne}
                           /\ exports[j].acl \in Grants /\ exports[j].minted \in 0 .. clock
                           /\ exports[j].st \in {"none", "queued", "ready"}
    BY <2>3 DEF ExportType
  <2> QED
    BY <2>2, <2>4, <2>5 DEF Types, TypeOK
<1> QED
  BY <1>1, Invariance, PTL

\* How far the cookie of a client and the exports stamped from it reach, as
\* shortcodes change hands (aclClause, exports_worker.mjs, actionSimulateLeg).
THEOREM Reach == Spec => []ReachIsEarned
<1>1. Inv => ReachIsEarned
  <2> SUFFICES ASSUME Inv PROVE ReachIsEarned
    OBVIOUS
  <2>t. Types /\ CookiesBacked /\ ExportsBacked /\ RowsGranted /\ CallsEarned
    BY DEF Inv
  <2>1. ASSUME NEW u \in Clients, NEW leg \in Foreign(u, Visible(cookie[u].grants))
        PROVE  leg[2] >= cookie[u].minted
    <3>1. leg[2] \in Int /\ held[leg[1]][leg[2]] # u
          /\ \E g \in cookie[u].grants : g.id = leg[1] /\ leg[2] >= g.from
      BY <2>1 DEF Foreign, Visible
    <3>2. PICK g \in cookie[u].grants : g.id = leg[1] /\ leg[2] >= g.from
      BY <3>1
    <3>3. g.from \in Int /\ cookie[u].minted \in Int
      BY <2>t, Constants DEF Types, CookieType, Grants
    <3> QED
      BY <2>t, <3>1, <3>2, <3>3 DEF CookiesBacked, Backed
  <2>2. ASSUME NEW u \in Clients, NEW j \in Downloadable(u),
               NEW leg \in Foreign(u, exports[j].rows)
        PROVE  leg[2] >= exports[j].minted
    <3>1. j \in Exports /\ exports[j].by = u /\ leg \in exports[j].rows
          /\ held[leg[1]][leg[2]] # u
      BY <2>2 DEF Downloadable, Requested, Foreign
    <3>2. PICK g \in exports[j].acl : g.id = leg[1] /\ leg[2] >= g.from
      BY <2>t, <3>1 DEF RowsGranted
    <3>3. exports[j] \in ExportType
      BY <2>t, <3>1 DEF Types
    <3>4. g.from \in Int /\ exports[j].minted \in Int /\ leg[2] \in Int
      BY <3>1, <3>3 DEF ExportType, Grants
    <3> QED
      BY <2>t, <3>1, <3>2, <3>4 DEF ExportsBacked, Backed
  <2>3. \A c \in called : owner[c[2]] = c[1] \/ clock < left[c[2]][c[1]] + Ttl
    BY <2>t DEF CallsEarned, Earned
  <2> QED
    BY <2>1, <2>2, <2>3 DEF ReachIsEarned
<1> QED
  BY <1>1, Invariance, PTL
=============================================================================
