----------------------- MODULE ShortcodeRegistryProofs -----------------------
(***************************************************************************)
(* Theorems about ShortcodeRegistry, for any shortcodes, clients, viewers  *)
(* and requests in flight, any grain of the clock and any limits.  The     *)
(* invariant relates the stamps of the rows and of the grants to the last  *)
(* tick each user had no right to a row's traffic, and says what a request *)
(* may rely on between the statements it sends.                            *)
(***************************************************************************)
EXTENDS ShortcodeRegistry, FiniteSetTheorems, WellFoundedInduction, TLAPS

-----------------------------------------------------------------------------
(* The invariant.                                                          *)

\* A row that was inserted.
Real == [op : Operators, code : Codes, env : Envs, owner : Clients, url : Handlers,
         status : Statuses, since : Times, created : Times, from : Rows \cup {NoRow}]

Stages == {"idle", "cap", "exists", "insert", "update", "own", "set", "assert",
           "count", "withdraw", "grant", "scope", "look", "edit", "reset"}
Fields == {"none", "status", "url", "active", "email", "password"}
RequestType == [stage : Stages, who : Clients \cup {Admin, NoOne}, row : Rows \cup {NoRow},
                form : Shortcodes, field : Fields,
                viewer : Viewers \cup {NoOne}, ids : SUBSET Rows, gone : SUBSET Rows]
ViewerType == [by : Clients \cup {NoOne}, active : BOOLEAN, pwv : Nat]

\* TypeOK, but for the limit on the versions.
Types ==
  /\ shortcodes \in [Rows -> Shortcodes] /\ operators \in SUBSET Operators
  /\ viewers \in [Viewers -> ViewerType] /\ grants \in [Viewers -> [Rows -> Times]]
  /\ req \in [Slots -> RequestType]
  /\ clock \in Times /\ lost \in [Users -> [Rows -> Times]] /\ requests \in 0 .. MaxRequests

\* A row id is left for every request that may insert one.
Inserts(q) == q.stage \in {"cap", "exists", "insert"} /\ q.row = NoRow
Inserters  == {s \in Slots : Inserts(req[s])}
Free       == {r \in Rows : ~Exists(r)}
RoomLeft   == Cardinality(Inserters) <= Cardinality(Free)

\* Each new password or address of a viewer was asked for by one request.
Resets    == {"scope", "edit", "look", "reset"}
Resetters == {s \in Slots : req[s].stage \in Resets}
Tallies   == \A v \in Viewers : viewers[v].pwv + Cardinality(Resetters) <= requests

\* No row is stamped with a time to come.
RowsOK == \A r \in Rows : Exists(r) => shortcodes[r].since <= clock /\ shortcodes[r].created <= clock

\* Nobody's right to a row is stamped with a time at which they had none.
HistoryOK == \A u \in Users, r \in Rows :
  /\ lost[u][r] < clock
  /\ lost[u][r] # 0 => Exists(r) /\ shortcodes[r].created <= lost[u][r]
  /\ shortcodes[r].owner = u => lost[u][r] < shortcodes[r].since
  /\ u \in Viewers /\ grants[u][r] # 0 => lost[u][r] < grants[u][r]

\* What a request has found so far.  The rows it holds locked FOR SHARE are its
\* client's until it is done.
RowForms == {"cap", "exists", "insert", "update", "own", "set"}
Editing  == {"update", "own", "set"}
ViewerOf == {"assert", "count", "withdraw", "grant", "scope", "look", "edit", "reset"}
Sharing  == {"count", "withdraw", "grant"}

\* A row was the client's when the grants on it were taken back.
WasOwned(who, x) == x \in Rows /\ (shortcodes[x].owner = who \/ shortcodes[x].since = clock)

RequestFits(q) ==
  /\ q.stage \in RowForms => q.form \in Real
  /\ Inserts(q) /\ q.form.from # NoRow => Exists(q.form.from)
  /\ q.stage \in {"cap", "insert"} => q.row = NoRow
  /\ q.stage \in Editing \/ (q.stage = "exists" /\ q.row # NoRow) => q.row \in Rows /\ Exists(q.row)
  /\ q.stage \in ViewerOf => q.viewer \in Viewers /\ q.who \in Clients
  /\ q.stage \in Sharing => q.ids \subseteq Owned(q.who)
  /\ q.stage \in {"assert", "count"} => q.gone = {}
  /\ q.stage = "grant" => \A x \in q.gone : WasOwned(q.who, x)

Inv ==
  /\ Types /\ RoomLeft /\ Tallies /\ RowsOK /\ HistoryOK
  /\ \A s \in Slots : RequestFits(req[s])

-----------------------------------------------------------------------------
(* The constants, the least of a set, and the records.                     *)

LEMMA Constants ==
  /\ Rows \subseteq Nat \ {0} /\ Operators \subseteq Nat \ {0} /\ Operators # {}
  /\ IsFiniteSet(Rows) /\ IsFiniteSet(Slots)
  /\ Second \in Nat /\ Second >= 1 /\ MaxClock \in Nat /\ Second <= MaxClock /\ MaxRequests \in Nat
  /\ NoOne \notin Clients /\ NoOne \notin Users /\ NoOne # Admin /\ NoRow \notin Rows
  BY RegistryAssumption DEF Users

LEMMA Least ==
  ASSUME NEW S \in SUBSET Nat, S # {}
  PROVE  Lowest(S) \in S /\ \A y \in S : Lowest(S) <= y
<1>1. IsWellFoundedOn(OpToRel(<, Nat), Nat)
  BY NatLessThanWellFounded
<1>2. PICK x \in S : \A y \in S : ~(<<y, x>> \in OpToRel(<, Nat))
  BY <1>1, WFMin
<1>3. \A y \in S : ~(y < x)
  BY <1>2 DEF OpToRel
<1>4. \A y \in S : x <= y
  BY <1>3
<1> QED
  BY <1>4 DEF Lowest

LEMMA FirstUrlFacts == FirstUrl \in Handlers
  BY RegistryAssumption DEF FirstUrl

LEMMA NoShortcodeFacts ==
  /\ NoShortcode \in Shortcodes /\ NoShortcode \notin Real /\ Shortcodes = {NoShortcode} \cup Real
  /\ NoShortcode.owner = NoOne /\ NoShortcode.env = "none"
  BY Constants DEF NoShortcode, Shortcode, Shortcodes, Real

\* A row is there when it holds a record of a shortcode.
LEMMA RowFacts ==
  ASSUME Types, NEW r \in Rows
  PROVE  /\ Exists(r) <=> shortcodes[r] \in Real
         /\ shortcodes[r] \in Shortcodes
         /\ Exists(r) \/ shortcodes[r] = NoShortcode
  BY NoShortcodeFacts DEF Types, Exists

LEMMA FormFacts ==
  ASSUME NEW op \in Operators, NEW code \in Codes, NEW env \in Envs, NEW owner \in Clients,
         NEW url \in Handlers
  PROVE  LET s == Shortcode(op, code, env, owner, url) IN
         /\ s \in Real /\ s.op = op /\ s.code = code /\ s.env = env /\ s.owner = owner /\ s.url = url
         /\ s.from = NoRow
  BY Constants DEF Shortcode, Real, Statuses, Times

LEMMA IdleFacts ==
  /\ Idle \in RequestType /\ Idle.stage = "idle" /\ Idle.who = NoOne /\ Idle.row = NoRow
  /\ Idle.form = NoShortcode /\ Idle.field = "none" /\ Idle.viewer = NoOne /\ Idle.ids = {}
  /\ Idle.gone = {}
  /\ ~Inserts(Idle) /\ Idle.stage \notin Resets /\ RequestFits(Idle)
<1>1. /\ Idle \in RequestType /\ Idle.stage = "idle" /\ Idle.who = NoOne /\ Idle.row = NoRow
      /\ Idle.form = NoShortcode /\ Idle.field = "none" /\ Idle.viewer = NoOne /\ Idle.ids = {}
      /\ Idle.gone = {}
  BY NoShortcodeFacts DEF Idle, RequestType, Stages, Fields
<1>2. ~Inserts(Idle) /\ Idle.stage \notin Resets
  BY <1>1 DEF Inserts, Resets
<1> QED
  BY <1>1, <1>2 DEF RequestFits, RowForms, Editing, ViewerOf, Sharing

-----------------------------------------------------------------------------
(* Counting.                                                               *)

\* A set that gains or loses one element at most.
LEMMA CountAfter ==
  ASSUME NEW S, NEW T, NEW x, IsFiniteSet(S), T \subseteq S \cup {x}
  PROVE  /\ Cardinality(S) \in Nat /\ Cardinality(T) \in Nat
         /\ Cardinality(T) <= Cardinality(S) + 1
         /\ (x \in T => x \in S) => Cardinality(T) <= Cardinality(S)
         /\ x \in S /\ x \notin T => Cardinality(T) <= Cardinality(S) - 1
<1>1. Cardinality(S) \in Nat
  BY FS_CardinalityType
<1>2. IsFiniteSet(S \cup {x}) /\ Cardinality(S \cup {x}) <= Cardinality(S) + 1
  BY <1>1, FS_AddElement
<1>3. IsFiniteSet(T) /\ Cardinality(T) <= Cardinality(S \cup {x})
  BY <1>2, FS_Subset
<1>4. Cardinality(T) \in Nat /\ Cardinality(S \cup {x}) \in Nat
  BY <1>2, <1>3, FS_CardinalityType
<1>5. ASSUME x \in T => x \in S PROVE Cardinality(T) <= Cardinality(S)
  <2>1. T \subseteq S
    BY <1>5
  <2> QED
    BY <2>1, FS_Subset
<1>6. ASSUME x \in S, x \notin T PROVE Cardinality(T) <= Cardinality(S) - 1
  <2>1. IsFiniteSet(S \ {x}) /\ Cardinality(S \ {x}) = Cardinality(S) - 1
    BY <1>6, FS_RemoveElement
  <2>2. T \subseteq S \ {x}
    BY <1>6
  <2> QED
    BY <2>1, <2>2, FS_Subset
<1> QED
  BY <1>1, <1>2, <1>3, <1>4, <1>5, <1>6

LEMMA InsertersAfter ==
  ASSUME NEW s \in Slots, \A t \in Slots \ {s} : req'[t] = req[t]
  PROVE  /\ Cardinality(Inserters) \in Nat /\ Cardinality(Inserters') \in Nat
         /\ Cardinality(Inserters') <= Cardinality(Inserters) + 1
         /\ (Inserts(req'[s]) => Inserts(req[s])) => Cardinality(Inserters') <= Cardinality(Inserters)
         /\ Inserts(req[s]) /\ ~Inserts(req'[s]) => Cardinality(Inserters') <= Cardinality(Inserters) - 1
<1>1. IsFiniteSet(Inserters)
  BY Constants, FS_Subset DEF Inserters
<1>2. Inserters' \subseteq Inserters \cup {s}
  BY DEF Inserters
<1>3. (s \in Inserters <=> Inserts(req[s])) /\ (s \in Inserters' <=> Inserts(req'[s]))
  BY DEF Inserters
<1> HIDE DEF Inserters
<1> QED
  BY <1>1, <1>2, <1>3, CountAfter

LEMMA ResettersAfter ==
  ASSUME NEW s \in Slots, \A t \in Slots \ {s} : req'[t] = req[t]
  PROVE  /\ Cardinality(Resetters) \in Nat /\ Cardinality(Resetters') \in Nat
         /\ Cardinality(Resetters') <= Cardinality(Resetters) + 1
         /\ (req'[s].stage \in Resets => req[s].stage \in Resets)
              => Cardinality(Resetters') <= Cardinality(Resetters)
         /\ req[s].stage \in Resets /\ req'[s].stage \notin Resets
              => Cardinality(Resetters') <= Cardinality(Resetters) - 1
<1>1. IsFiniteSet(Resetters)
  BY Constants, FS_Subset DEF Resetters
<1>2. Resetters' \subseteq Resetters \cup {s}
  BY DEF Resetters
<1>3. (s \in Resetters <=> req[s].stage \in Resets) /\ (s \in Resetters' <=> req'[s].stage \in Resets)
  BY DEF Resetters
<1> HIDE DEF Resetters
<1> QED
  BY <1>1, <1>2, <1>3, CountAfter

\* The free rows: one fewer when a row is inserted, and none when it was there.
LEMMA FreeAfter ==
  ASSUME Types, NEW x \in Rows, NEW new \in Real, shortcodes' = [shortcodes EXCEPT ![x] = new]
  PROVE  /\ Cardinality(Free) \in Nat /\ Cardinality(Free') \in Nat
         /\ Exists(x) => Free' = Free
         /\ ~Exists(x) => Cardinality(Free') = Cardinality(Free) - 1
<1>1. IsFiniteSet(Free) /\ IsFiniteSet(Free')
  BY Constants, FS_Subset DEF Free
<1>2. Cardinality(Free) \in Nat /\ Cardinality(Free') \in Nat
  BY <1>1, FS_CardinalityType
<1>3. Free' = Free \ {x}
  BY NoShortcodeFacts DEF Free, Exists, Types
<1>4. Exists(x) => Free' = Free
  BY <1>3 DEF Free
<1>5. ASSUME ~Exists(x) PROVE Cardinality(Free') = Cardinality(Free) - 1
  <2>1. x \in Free
    BY <1>5 DEF Free
  <2> QED
    BY <1>1, <1>3, <2>1, FS_RemoveElement
<1> QED
  BY <1>2, <1>4, <1>5

-----------------------------------------------------------------------------
(* Steps that only move a request.                                         *)

LEMMA Moves ==
  ASSUME Types, NEW s \in Slots, NEW q, req' = [req EXCEPT ![s] = q]
  PROVE  req'[s] = q /\ \A t \in Slots \ {s} : req'[t] = req[t]
  BY DEF Types

LEMMA StillFits ==
  ASSUME NEW q, RequestFits(q), UNCHANGED shortcodes, q.stage # "grant" \/ UNCHANGED clock
  PROVE  RequestFits(q)'
<1>1. Owned(q.who)' = Owned(q.who) /\ Exists(q.row)' = Exists(q.row)
      /\ Exists(q.form.from)' = Exists(q.form.from)
  BY DEF Owned, Exists
<1> QED
  BY <1>1 DEF RequestFits, Inserts, WasOwned

LEMMA QuietStep ==
  ASSUME Inv, NEW s \in Slots, NEW q \in RequestType, req' = [req EXCEPT ![s] = q],
         UNCHANGED <<shortcodes, operators, viewers, grants, clock, lost>>,
         requests' \in 0 .. MaxRequests, requests' >= requests, RequestFits(q),
         Inserts(q) => Inserts(req[s]) \/ Room,
         q.stage \in Resets => req[s].stage \in Resets \/ requests' = requests + 1
  PROVE  Inv'
<1>1. Types /\ RoomLeft /\ Tallies
  BY DEF Inv
<1>2. req'[s] = q /\ \A t \in Slots \ {s} : req'[t] = req[t]
  BY <1>1, Moves
<1>3. Types'
  BY <1>1 DEF Types
<1>4. RoomLeft'
  <2>1. Free' = Free /\ IsFiniteSet(Free)
    BY Constants, FS_Subset DEF Free, Exists
  <2>2. Cardinality(Free) \in Nat
    BY <2>1, FS_CardinalityType
  <2>3. CASE Inserts(q) => Inserts(req[s])
    <3>1. /\ Cardinality(Inserters) \in Nat /\ Cardinality(Inserters') \in Nat
          /\ Cardinality(Inserters') <= Cardinality(Inserters)
      BY <1>2, <2>3, InsertersAfter
    <3> QED
      BY <1>1, <2>1, <2>2, <3>1 DEF RoomLeft
  <2>4. CASE Room
    <3>1. /\ Cardinality(Inserters) \in Nat /\ Cardinality(Inserters') \in Nat
          /\ Cardinality(Inserters') <= Cardinality(Inserters) + 1
      BY <1>2, InsertersAfter
    <3>2. Cardinality(Inserters) < Cardinality(Free)
      BY <2>4 DEF Room, Inserters, Free, Inserting, Inserts
    <3> QED
      BY <2>1, <2>2, <3>1, <3>2 DEF RoomLeft
  <2> QED
    BY <2>3, <2>4
<1>5. Tallies'
  <2>1. /\ Cardinality(Resetters) \in Nat /\ Cardinality(Resetters') \in Nat
        /\ Cardinality(Resetters') <= Cardinality(Resetters) + 1
        /\ (q.stage \in Resets => req[s].stage \in Resets)
             => Cardinality(Resetters') <= Cardinality(Resetters)
    BY <1>2, ResettersAfter
  <2>2. requests \in Int /\ requests' \in Int
    BY <1>1 DEF Types
  <2>3. Cardinality(Resetters') <= Cardinality(Resetters) + (requests' - requests)
    BY <2>1, <2>2
  <2> SUFFICES ASSUME NEW v \in Viewers
               PROVE  viewers[v].pwv + Cardinality(Resetters') <= requests'
    BY DEF Tallies
  <2>4. viewers[v].pwv \in Int
    BY <1>1 DEF Types, ViewerType
  <2> QED
    BY <1>1, <2>1, <2>2, <2>3, <2>4 DEF Tallies
<1>6. RowsOK' /\ HistoryOK'
  BY DEF Inv, RowsOK, HistoryOK, Exists
<1>7. ASSUME NEW t \in Slots PROVE RequestFits(req[t])'
  <2>1. PICK p : p = req'[t]
    OBVIOUS
  <2>2. RequestFits(p)
    BY <1>2, <2>1 DEF Inv
  <2>3. RequestFits(p)'
    BY <2>2, StillFits
  <2> QED
    BY <2>1, <2>3
<1> QED
  BY <1>3, <1>4, <1>5, <1>6, <1>7 DEF Inv

LEMMA BeginStep ==
  ASSUME Inv, NEW s \in Slots, NEW q \in RequestType, Begin(s, q), RequestFits(q),
         Inserts(q) => Room
  PROVE  Inv'
<1>1. requests' \in 0 .. MaxRequests /\ requests' >= requests /\ requests' = requests + 1
  BY Constants DEF Begin, Inv, Types
<1> QED
  BY <1>1, QuietStep DEF Begin

LEMMA FinishStep ==
  ASSUME Inv, NEW s \in Slots, Finish(s), Unwritten
  PROVE  Inv'
<1>1. requests' \in 0 .. MaxRequests /\ requests' >= requests
  BY DEF Inv, Types, Unwritten
<1> QED
  BY <1>1, IdleFacts, QuietStep DEF Finish, Unwritten

\* A request that goes on to another stage.
LEMMA GotoStep ==
  ASSUME Inv, NEW s \in Slots, NEW stage \in Stages, Goto(s, stage), Unwritten,
         \A q \in RequestType :
           /\ q.stage = stage /\ q.who = req[s].who /\ q.row = req[s].row /\ q.form = req[s].form
           /\ q.viewer = req[s].viewer /\ q.ids = req[s].ids /\ q.gone = req[s].gone
           => RequestFits(q) /\ (Inserts(q) => Inserts(req[s])),
         stage \in Resets => req[s].stage \in Resets
  PROVE  Inv'
<1>1. req[s] \in RequestType /\ req \in [Slots -> RequestType]
      /\ requests' \in 0 .. MaxRequests /\ requests' >= requests
  BY DEF Inv, Types, Unwritten
<1>2. PICK q : q = [req[s] EXCEPT !.stage = stage]
  OBVIOUS
<1>3. /\ q \in RequestType /\ q.stage = stage /\ q.who = req[s].who /\ q.row = req[s].row
      /\ q.form = req[s].form /\ q.viewer = req[s].viewer /\ q.ids = req[s].ids /\ q.gone = req[s].gone
  BY <1>1, <1>2 DEF RequestType
<1>4. req' = [req EXCEPT ![s] = q]
  BY <1>1, <1>2 DEF Goto
<1>5. RequestFits(q) /\ (Inserts(q) => Inserts(req[s]))
  BY <1>3
<1>6. UNCHANGED <<shortcodes, operators, viewers, grants, clock, lost>>
  BY DEF Unwritten
<1> QED
  BY <1>1, <1>3, <1>4, <1>5, <1>6, QuietStep

-----------------------------------------------------------------------------
(* Requests that begin.                                                    *)

LEMMA StartCreateStep ==
  ASSUME Inv, NEW s \in Slots, StartCreate(s)
  PROVE  Inv'
<1>1. PICK f \in NewForms : Room /\ Begin(s, [Idle EXCEPT !.stage = "exists", !.who = Admin, !.form = f])
  BY DEF StartCreate
<1>2. f \in Real /\ f \in Shortcodes /\ f.from = NoRow
  <2>1. PICK op \in operators, c \in Codes, e \in Envs, u \in Clients :
          f = Shortcode(op, c, e, u, FirstUrl)
    BY DEF NewForms
  <2>2. op \in Operators
    BY DEF Inv, Types
  <2> QED
    BY <2>1, <2>2, FormFacts, FirstUrlFacts, NoShortcodeFacts
<1>3. PICK q : q = [Idle EXCEPT !.stage = "exists", !.who = Admin, !.form = f]
  OBVIOUS
<1>4. q \in RequestType /\ q.stage = "exists" /\ q.row = NoRow /\ q.form = f
  BY <1>2, <1>3, IdleFacts DEF RequestType, Stages
<1>5. RequestFits(q)
  BY <1>2, <1>4 DEF RequestFits, RowForms, Editing, ViewerOf, Sharing, Inserts
<1>6. Begin(s, q) /\ Room
  BY <1>1, <1>3
<1> QED
  BY <1>4, <1>5, <1>6, BeginStep

LEMMA StartSandboxStep ==
  ASSUME Inv, NEW s \in Slots, StartSandbox(s)
  PROVE  Inv'
<1>1. PICK u \in Clients, c \in Codes :
        /\ Room /\ operators # {}
        /\ Begin(s, [Idle EXCEPT !.stage = "cap", !.who = u,
                                 !.form = Shortcode(Placeholder, c, "sandbox", u, FirstUrl)])
  BY DEF StartSandbox
<1>2. Placeholder \in Operators
  <2>1. operators \subseteq Operators /\ operators \in SUBSET Nat
    BY Constants DEF Inv, Types
  <2> QED
    BY <1>1, <2>1, Least DEF Placeholder
<1>3. PICK f : f = Shortcode(Placeholder, c, "sandbox", u, FirstUrl)
  OBVIOUS
<1>4. f \in Real /\ f \in Shortcodes /\ f.from = NoRow
  <2>1. "sandbox" \in Envs
    BY DEF Envs
  <2> QED
    BY <1>2, <1>3, <2>1, FormFacts, FirstUrlFacts, NoShortcodeFacts
<1>5. PICK q : q = [Idle EXCEPT !.stage = "cap", !.who = u, !.form = f]
  OBVIOUS
<1>6. q \in RequestType /\ q.stage = "cap" /\ q.row = NoRow /\ q.form = f
  BY <1>4, <1>5, IdleFacts DEF RequestType, Stages
<1>7. RequestFits(q)
  BY <1>4, <1>6 DEF RequestFits, RowForms, Editing, ViewerOf, Sharing, Inserts
<1>8. Begin(s, q) /\ Room
  BY <1>1, <1>3, <1>5
<1> QED
  BY <1>6, <1>7, <1>8, BeginStep

LEMMA StartPromoteStep ==
  ASSUME Inv, NEW s \in Slots, StartPromote(s)
  PROVE  Inv'
<1>1. PICK r \in Rows, op \in operators :
        /\ Room /\ shortcodes[r].env = "sandbox"
        /\ Begin(s, [Idle EXCEPT !.stage = "exists", !.who = Admin,
                       !.form = [shortcodes[r] EXCEPT !.op = op, !.env = "production", !.from = r]])
  BY DEF StartPromote
<1>2. Exists(r) /\ shortcodes[r] \in Real /\ op \in Operators
  BY <1>1, RowFacts, NoShortcodeFacts DEF Inv, Types
<1>3. PICK f : f = [shortcodes[r] EXCEPT !.op = op, !.env = "production", !.from = r]
  OBVIOUS
<1>4. f \in Real /\ f.from = r
  BY <1>2, <1>3 DEF Real, Envs
<1>5. f \in Shortcodes
  BY <1>4, NoShortcodeFacts
<1>6. PICK q : q = [Idle EXCEPT !.stage = "exists", !.who = Admin, !.form = f]
  OBVIOUS
<1>7. q \in RequestType /\ q.stage = "exists" /\ q.row = NoRow /\ q.form = f
  BY <1>5, <1>6, IdleFacts DEF RequestType, Stages
<1>8. RequestFits(q)
  BY <1>2, <1>4, <1>7 DEF RequestFits, RowForms, Editing, ViewerOf, Sharing, Inserts
<1>9. Begin(s, q) /\ Room
  BY <1>1, <1>3, <1>6
<1> QED
  BY <1>7, <1>8, <1>9, BeginStep

LEMMA StartUpdateStep ==
  ASSUME Inv, NEW s \in Slots, StartUpdate(s)
  PROVE  Inv'
<1>1. PICK r \in Rows : \E f \in Edits(shortcodes[r]) :
        /\ Exists(r)
        /\ Begin(s, [Idle EXCEPT !.stage = "exists", !.who = Admin, !.row = r, !.form = f])
  BY DEF StartUpdate
<1>2. PICK f \in Edits(shortcodes[r]) :
        /\ Exists(r)
        /\ Begin(s, [Idle EXCEPT !.stage = "exists", !.who = Admin, !.row = r, !.form = f])
  BY <1>1
<1>3. PICK old \in Real : old = shortcodes[r]
  BY <1>2, RowFacts DEF Inv
<1>4. f \in Real
  <2>1. operators \subseteq Operators
    BY DEF Inv, Types
  <2>2. \/ \E u \in Clients : f = [old EXCEPT !.owner = u]
        \/ \E c \in Codes : f = [old EXCEPT !.code = c]
        \/ \E o \in operators : f = [old EXCEPT !.op = o]
        \/ \E t \in Statuses : f = [old EXCEPT !.status = t]
    BY <1>3 DEF Edits
  <2> QED
    BY <2>1, <2>2 DEF Real
<1>5. f \in Shortcodes
  BY <1>4, NoShortcodeFacts
<1>6. PICK q : q = [Idle EXCEPT !.stage = "exists", !.who = Admin, !.row = r, !.form = f]
  OBVIOUS
<1>7. q \in RequestType /\ q.stage = "exists" /\ q.row = r /\ q.form = f
  BY <1>5, <1>6, IdleFacts DEF RequestType, Stages
<1>8. r # NoRow
  BY Constants
<1>9. RequestFits(q)
  BY <1>2, <1>4, <1>7, <1>8 DEF RequestFits, RowForms, Editing, ViewerOf, Sharing, Inserts
<1>10. Begin(s, q) /\ ~Inserts(q)
  BY <1>2, <1>6, <1>7, <1>8 DEF Inserts
<1> QED
  BY <1>7, <1>9, <1>10, BeginStep

LEMMA StartQuickEditStep ==
  ASSUME Inv, NEW s \in Slots, NEW field \in {"status", "url"}, StartQuickEdit(s, field)
  PROVE  Inv'
<1>1. PICK u \in Clients \cup {Admin} : \E r \in Listed(u) :
        \E f \in IF field = "url" THEN {[shortcodes[r] EXCEPT !.url = h] : h \in Handlers \ {shortcodes[r].url}}
                ELSE {[shortcodes[r] EXCEPT !.status = t] : t \in Settable(u, shortcodes[r])} :
          Begin(s, [Idle EXCEPT !.stage = IF May(u, "shortcodes.manage") THEN "set" ELSE "own",
                                !.who = u, !.row = r, !.form = f, !.field = field])
  BY DEF StartQuickEdit
<1>2. PICK r \in Listed(u) :
        \E f \in IF field = "url" THEN {[shortcodes[r] EXCEPT !.url = h] : h \in Handlers \ {shortcodes[r].url}}
                ELSE {[shortcodes[r] EXCEPT !.status = t] : t \in Settable(u, shortcodes[r])} :
          Begin(s, [Idle EXCEPT !.stage = IF May(u, "shortcodes.manage") THEN "set" ELSE "own",
                                !.who = u, !.row = r, !.form = f, !.field = field])
  BY <1>1
<1>3. PICK f \in IF field = "url" THEN {[shortcodes[r] EXCEPT !.url = h] : h \in Handlers \ {shortcodes[r].url}}
                ELSE {[shortcodes[r] EXCEPT !.status = t] : t \in Settable(u, shortcodes[r])} :
        Begin(s, [Idle EXCEPT !.stage = IF May(u, "shortcodes.manage") THEN "set" ELSE "own",
                              !.who = u, !.row = r, !.form = f, !.field = field])
  BY <1>2
<1>4. r \in Rows /\ Exists(r)
  BY DEF Listed
<1>5. PICK old \in Real : old = shortcodes[r]
  BY <1>4, RowFacts DEF Inv
<1>6. \/ \E h \in Handlers : f = [old EXCEPT !.url = h]
      \/ \E t \in Statuses : f = [old EXCEPT !.status = t]
  <2>1. Settable(u, old) \subseteq Statuses
    BY DEF Settable, Statuses
  <2> QED
    BY <1>3, <1>5, <2>1
<1>7. f \in Real
  BY <1>6 DEF Real
<1>8. f \in Shortcodes
  BY <1>7, NoShortcodeFacts
<1>9. PICK stage \in {"set", "own"} :
        Begin(s, [Idle EXCEPT !.stage = stage, !.who = u, !.row = r, !.form = f, !.field = field])
  BY <1>3
<1>10. PICK q : q = [Idle EXCEPT !.stage = stage, !.who = u, !.row = r, !.form = f, !.field = field]
  OBVIOUS
<1>11. q \in RequestType /\ q.stage = stage /\ q.row = r /\ q.form = f
  <2>1. stage \in Stages /\ field \in Fields
    BY DEF Stages, Fields
  <2> QED
    BY <1>4, <1>8, <1>10, <2>1, IdleFacts DEF RequestType
<1>12. r # NoRow
  BY <1>4, Constants
<1>13. RequestFits(q)
  BY <1>4, <1>7, <1>11, <1>12 DEF RequestFits, RowForms, Editing, ViewerOf, Sharing, Inserts
<1>14. Begin(s, q) /\ ~Inserts(q)
  BY <1>9, <1>10, <1>11, <1>12 DEF Inserts
<1> QED
  BY <1>11, <1>13, <1>14, BeginStep

\* A request about a viewer begins.
LEMMA ViewerStart ==
  ASSUME Inv, NEW s \in Slots, NEW stage \in {"assert", "scope", "look"}, NEW u \in Clients,
         NEW v \in Viewers, NEW ids \in SUBSET Rows,
         Begin(s, [Idle EXCEPT !.stage = stage, !.who = u, !.viewer = v, !.ids = ids])
  PROVE  Inv'
<1>1. PICK q : q = [Idle EXCEPT !.stage = stage, !.who = u, !.viewer = v, !.ids = ids]
  OBVIOUS
<1>2. q \in RequestType /\ q.stage = stage /\ q.who = u /\ q.row = NoRow /\ q.viewer = v /\ q.gone = {}
  <2>1. stage \in Stages
    BY DEF Stages
  <2> QED
    BY <1>1, <2>1, IdleFacts DEF RequestType
<1>3. RequestFits(q) /\ ~Inserts(q)
  BY <1>2 DEF RequestFits, RowForms, Editing, ViewerOf, Sharing, Inserts
<1> QED
  BY <1>1, <1>2, <1>3, BeginStep

LEMMA StartViewerStep ==
  ASSUME Inv, NEW s \in Slots, StartViewer(s)
  PROVE  Inv'
<1>1. PICK u \in Clients : \E f \in ViewerForms(u) :
        Begin(s, [Idle EXCEPT !.stage = "assert", !.who = u, !.viewer = f.viewer, !.ids = f.ids])
  BY DEF StartViewer
<1>2. PICK f \in ViewerForms(u) :
        Begin(s, [Idle EXCEPT !.stage = "assert", !.who = u, !.viewer = f.viewer, !.ids = f.ids])
  BY <1>1
<1>3. f.viewer \in Viewers /\ f.ids \in SUBSET Rows
  BY DEF ViewerForms, Owned
<1> QED
  BY <1>2, <1>3, ViewerStart

LEMMA StartGrantsStep ==
  ASSUME Inv, NEW s \in Slots, StartGrants(s)
  PROVE  Inv'
<1>1. PICK u \in Clients : \E f \in GrantForms(u) :
        Begin(s, [Idle EXCEPT !.stage = "assert", !.who = u, !.viewer = f.viewer, !.ids = f.ids])
  BY DEF StartGrants
<1>2. PICK f \in GrantForms(u) :
        Begin(s, [Idle EXCEPT !.stage = "assert", !.who = u, !.viewer = f.viewer, !.ids = f.ids])
  BY <1>1
<1>3. f.viewer \in Viewers /\ f.ids \in SUBSET Rows
  BY DEF GrantForms, Owned, ViewersOf
<1> QED
  BY <1>2, <1>3, ViewerStart

LEMMA StartViewerEditStep ==
  ASSUME Inv, NEW s \in Slots, StartViewerEdit(s)
  PROVE  Inv'
<1>1. PICK u \in Clients : \E v \in ViewersOf(u), field \in {"active", "email", "password"} :
        Begin(s, [Idle EXCEPT !.stage = IF field = "password" THEN "look" ELSE "scope",
                              !.who = u, !.viewer = v, !.field = field])
  BY DEF StartViewerEdit
<1>2. PICK v \in ViewersOf(u), stage \in {"look", "scope"}, field \in {"active", "email", "password"} :
        Begin(s, [Idle EXCEPT !.stage = stage, !.who = u, !.viewer = v, !.field = field])
  BY <1>1
<1>3. v \in Viewers
  BY DEF ViewersOf
<1>4. PICK q : q = [Idle EXCEPT !.stage = stage, !.who = u, !.viewer = v, !.field = field]
  OBVIOUS
<1>5. q \in RequestType /\ q.stage = stage /\ q.who = u /\ q.row = NoRow /\ q.viewer = v
  <2>1. stage \in Stages /\ field \in Fields
    BY DEF Stages, Fields
  <2> QED
    BY <1>3, <1>4, <2>1, IdleFacts DEF RequestType
<1>6. RequestFits(q) /\ ~Inserts(q)
  BY <1>3, <1>5 DEF RequestFits, RowForms, Editing, ViewerOf, Sharing, Inserts
<1> QED
  BY <1>2, <1>4, <1>5, <1>6, BeginStep

-----------------------------------------------------------------------------
(* Requests that look, and go on or end.                                   *)

LEMMA CheckCapStep ==
  ASSUME Inv, NEW s \in Slots, CheckCap(s)
  PROVE  Inv'
<1> DEFINE next == "exists"
<1>1. req[s].stage = "cap" /\ Unwritten
  BY DEF CheckCap, Check
<1>2. Finish(s) \/ Goto(s, next)
  BY DEF CheckCap, Check
<1>3. RequestFits(req[s])
  BY DEF Inv
<1>4. next \in Stages /\ next \notin Resets
  BY DEF Stages, Resets
<1>5. ASSUME NEW q \in RequestType, q.stage = next, q.who = req[s].who, q.row = req[s].row,
             q.form = req[s].form, q.viewer = req[s].viewer, q.ids = req[s].ids, q.gone = req[s].gone
      PROVE  RequestFits(q) /\ (Inserts(q) => Inserts(req[s]))
  BY <1>1, <1>3, <1>5 DEF RequestFits, RowForms, Editing, ViewerOf, Sharing, Inserts
<1> HIDE DEF next
<1>6. CASE Finish(s)
  BY <1>1, <1>6, FinishStep
<1>7. CASE Goto(s, next)
  BY <1>1, <1>4, <1>5, <1>7, GotoStep
<1> QED
  BY <1>2, <1>6, <1>7

LEMMA CheckCodeStep ==
  ASSUME Inv, NEW s \in Slots, CheckCode(s)
  PROVE  Inv'
<1> DEFINE next == IF req[s].row = NoRow THEN "insert" ELSE "update"
<1>1. req[s].stage = "exists" /\ Unwritten
  BY DEF CheckCode, Check
<1>2. Finish(s) \/ Goto(s, next)
  BY DEF CheckCode, Check
<1>3. RequestFits(req[s])
  BY DEF Inv
<1>4. next \in Stages /\ next \notin Resets
  BY DEF Stages, Resets
<1>5. ASSUME NEW q \in RequestType, q.stage = next, q.who = req[s].who, q.row = req[s].row,
             q.form = req[s].form, q.viewer = req[s].viewer, q.ids = req[s].ids, q.gone = req[s].gone
      PROVE  RequestFits(q) /\ (Inserts(q) => Inserts(req[s]))
  BY <1>1, <1>3, <1>5 DEF RequestFits, RowForms, Editing, ViewerOf, Sharing, Inserts
<1> HIDE DEF next
<1>6. CASE Finish(s)
  BY <1>1, <1>6, FinishStep
<1>7. CASE Goto(s, next)
  BY <1>1, <1>4, <1>5, <1>7, GotoStep
<1> QED
  BY <1>2, <1>6, <1>7

LEMMA CheckOwnerStep ==
  ASSUME Inv, NEW s \in Slots, CheckOwner(s)
  PROVE  Inv'
<1> DEFINE next == "set"
<1>1. req[s].stage = "own" /\ Unwritten
  BY DEF CheckOwner, Check
<1>2. Finish(s) \/ Goto(s, next)
  BY DEF CheckOwner, Check
<1>3. RequestFits(req[s])
  BY DEF Inv
<1>4. next \in Stages /\ next \notin Resets
  BY DEF Stages, Resets
<1>5. ASSUME NEW q \in RequestType, q.stage = next, q.who = req[s].who, q.row = req[s].row,
             q.form = req[s].form, q.viewer = req[s].viewer, q.ids = req[s].ids, q.gone = req[s].gone
      PROVE  RequestFits(q) /\ (Inserts(q) => Inserts(req[s]))
  BY <1>1, <1>3, <1>5 DEF RequestFits, RowForms, Editing, ViewerOf, Sharing, Inserts
<1> HIDE DEF next
<1>6. CASE Finish(s)
  BY <1>1, <1>6, FinishStep
<1>7. CASE Goto(s, next)
  BY <1>1, <1>4, <1>5, <1>7, GotoStep
<1> QED
  BY <1>2, <1>6, <1>7

\* The rows it asks for are the client's, and it has locked them.
LEMMA AssertOwnedStep ==
  ASSUME Inv, NEW s \in Slots, AssertOwned(s)
  PROVE  Inv'
<1> DEFINE next == IF viewers[req[s].viewer] = NoViewer THEN "count" ELSE "withdraw"
<1>1. req[s].stage = "assert" /\ Unwritten
  BY DEF AssertOwned, Check
<1>2. Finish(s) \/ (Goto(s, next) /\ req[s].ids \subseteq Owned(req[s].who))
  BY DEF AssertOwned, Check
<1>3. RequestFits(req[s])
  BY DEF Inv
<1>4. next \in Stages /\ next \notin Resets
  BY DEF Stages, Resets
<1>5. ASSUME req[s].ids \subseteq Owned(req[s].who),
             NEW q \in RequestType, q.stage = next, q.who = req[s].who, q.row = req[s].row,
             q.form = req[s].form, q.viewer = req[s].viewer, q.ids = req[s].ids, q.gone = req[s].gone
      PROVE  RequestFits(q) /\ (Inserts(q) => Inserts(req[s]))
  BY <1>1, <1>3, <1>5 DEF RequestFits, RowForms, Editing, ViewerOf, Sharing, Inserts
<1> HIDE DEF next
<1>6. CASE Finish(s)
  BY <1>1, <1>6, FinishStep
<1>7. CASE Goto(s, next) /\ req[s].ids \subseteq Owned(req[s].who)
  BY <1>1, <1>4, <1>5, <1>7, GotoStep
<1> QED
  BY <1>2, <1>6, <1>7

LEMMA CountViewersStep ==
  ASSUME Inv, NEW s \in Slots, CountViewers(s)
  PROVE  Inv'
<1> DEFINE next == "grant"
<1>1. req[s].stage = "count" /\ Unwritten
  BY DEF CountViewers, Check
<1>2. Finish(s) \/ Goto(s, next)
  BY DEF CountViewers, Check
<1>3. RequestFits(req[s])
  BY DEF Inv
<1>4. next \in Stages /\ next \notin Resets
  BY DEF Stages, Resets
<1>5. ASSUME NEW q \in RequestType, q.stage = next, q.who = req[s].who, q.row = req[s].row,
             q.form = req[s].form, q.viewer = req[s].viewer, q.ids = req[s].ids, q.gone = req[s].gone
      PROVE  RequestFits(q) /\ (Inserts(q) => Inserts(req[s]))
  BY <1>1, <1>3, <1>5 DEF RequestFits, RowForms, Editing, ViewerOf, Sharing, Inserts
<1> HIDE DEF next
<1>6. CASE Finish(s)
  BY <1>1, <1>6, FinishStep
<1>7. CASE Goto(s, next)
  BY <1>1, <1>4, <1>5, <1>7, GotoStep
<1> QED
  BY <1>2, <1>6, <1>7

LEMMA CheckScopeStep ==
  ASSUME Inv, NEW s \in Slots, CheckScope(s)
  PROVE  Inv'
<1> DEFINE next == "edit"
<1>1. req[s].stage = "scope" /\ req[s].stage \in Resets /\ Unwritten
  BY DEF CheckScope, Check, Resets
<1>2. Finish(s) \/ Goto(s, next)
  BY DEF CheckScope, Check
<1>3. RequestFits(req[s])
  BY DEF Inv
<1>4. next \in Stages
  BY DEF Stages
<1>5. ASSUME NEW q \in RequestType, q.stage = next, q.who = req[s].who, q.row = req[s].row,
             q.form = req[s].form, q.viewer = req[s].viewer, q.ids = req[s].ids, q.gone = req[s].gone
      PROVE  RequestFits(q) /\ (Inserts(q) => Inserts(req[s]))
  BY <1>1, <1>3, <1>5 DEF RequestFits, RowForms, Editing, ViewerOf, Sharing, Inserts
<1> HIDE DEF next
<1>6. CASE Finish(s)
  BY <1>1, <1>6, FinishStep
<1>7. CASE Goto(s, next)
  BY <1>1, <1>4, <1>5, <1>7, GotoStep
<1> QED
  BY <1>2, <1>6, <1>7

LEMMA LookUpViewerStep ==
  ASSUME Inv, NEW s \in Slots, LookUpViewer(s)
  PROVE  Inv'
<1> DEFINE next == "reset"
<1>1. req[s].stage = "look" /\ req[s].stage \in Resets /\ Unwritten
  BY DEF LookUpViewer, Check, Resets
<1>2. Finish(s) \/ Goto(s, next)
  BY DEF LookUpViewer, Check
<1>3. RequestFits(req[s])
  BY DEF Inv
<1>4. next \in Stages
  BY DEF Stages
<1>5. ASSUME NEW q \in RequestType, q.stage = next, q.who = req[s].who, q.row = req[s].row,
             q.form = req[s].form, q.viewer = req[s].viewer, q.ids = req[s].ids, q.gone = req[s].gone
      PROVE  RequestFits(q) /\ (Inserts(q) => Inserts(req[s]))
  BY <1>1, <1>3, <1>5 DEF RequestFits, RowForms, Editing, ViewerOf, Sharing, Inserts
<1> HIDE DEF next
<1>6. CASE Finish(s)
  BY <1>1, <1>6, FinishStep
<1>7. CASE Goto(s, next)
  BY <1>1, <1>4, <1>5, <1>7, GotoStep
<1> QED
  BY <1>2, <1>6, <1>7

-----------------------------------------------------------------------------
(* Requests that write a row of the shortcodes.                            *)

LEMMA RowStep ==
  ASSUME Inv, NEW s \in Slots, NEW x \in Rows, NEW new \in Real, Wrote(s),
         shortcodes' = [shortcodes EXCEPT ![x] = new], new.since <= clock,
         Exists(x) => /\ new.created = shortcodes[x].created
                      /\ \/ new.owner = shortcodes[x].owner /\ new.since = shortcodes[x].since
                         \/ new.since = clock /\ Updatable(x),
         ~Exists(x) => new.created = clock /\ new.since = clock /\ Inserts(req[s])
  PROVE  Inv'
<1>1. Types /\ RoomLeft /\ Tallies /\ RowsOK /\ HistoryOK
  BY DEF Inv
<1>2. req' = [req EXCEPT ![s] = Idle] /\ UNCHANGED <<operators, viewers, grants, clock, lost, requests>>
  BY DEF Wrote, Finish
<1>3. req'[s] = Idle /\ \A t \in Slots \ {s} : req'[t] = req[t]
  BY <1>1, <1>2, Moves
<1>4. shortcodes'[x] = new /\ \A r \in Rows \ {x} : shortcodes'[r] = shortcodes[r]
  BY <1>1 DEF Types
<1>5. \A r \in Rows : Exists(r)' <=> Exists(r) \/ r = x
  BY <1>4, NoShortcodeFacts DEF Exists
<1>6. Types'
  <2>1. shortcodes' \in [Rows -> Shortcodes]
    BY <1>1, NoShortcodeFacts DEF Types
  <2>2. req' \in [Slots -> RequestType]
    BY <1>1, <1>2, IdleFacts DEF Types
  <2> QED
    BY <1>1, <1>2, <2>1, <2>2 DEF Types
<1>7. RoomLeft'
  <2>1. /\ Cardinality(Inserters) \in Nat /\ Cardinality(Inserters') \in Nat
        /\ Cardinality(Inserters') <= Cardinality(Inserters)
        /\ Inserts(req[s]) => Cardinality(Inserters') <= Cardinality(Inserters) - 1
    BY <1>3, IdleFacts, InsertersAfter
  <2>2. /\ Cardinality(Free) \in Nat /\ Cardinality(Free') \in Nat
        /\ Exists(x) => Free' = Free
        /\ ~Exists(x) => Cardinality(Free') = Cardinality(Free) - 1
    BY <1>1, FreeAfter
  <2>3. CASE Exists(x)
    BY <1>1, <2>1, <2>2, <2>3 DEF RoomLeft
  <2>4. CASE ~Exists(x)
    BY <1>1, <2>1, <2>2, <2>4 DEF RoomLeft
  <2> QED
    BY <2>3, <2>4
<1>8. Tallies'
  <2>1. /\ Cardinality(Resetters) \in Nat /\ Cardinality(Resetters') \in Nat
        /\ Cardinality(Resetters') <= Cardinality(Resetters)
    BY <1>3, IdleFacts, ResettersAfter
  <2> SUFFICES ASSUME NEW v \in Viewers
               PROVE  viewers[v].pwv + Cardinality(Resetters') <= requests
    BY <1>2 DEF Tallies
  <2>2. viewers[v].pwv \in Int /\ requests \in Int
        /\ viewers[v].pwv + Cardinality(Resetters) <= requests
    BY <1>1 DEF Types, ViewerType, Tallies
  <2> QED
    BY <2>1, <2>2
<1>9. clock \in Nat /\ \A r \in Rows : shortcodes[r] \in Real =>
        shortcodes[r].since \in Nat /\ shortcodes[r].created \in Nat
  BY <1>1 DEF Types, Times, Real
<1>10. RowsOK'
  <2> SUFFICES ASSUME NEW r \in Rows, Exists(r)'
               PROVE  shortcodes'[r].since <= clock /\ shortcodes'[r].created <= clock
    BY <1>2 DEF RowsOK
  <2>1. CASE r # x
    BY <1>1, <1>4, <1>5, <2>1 DEF RowsOK
  <2>2. CASE r = x
    BY <1>1, <1>4, <1>9, <2>2 DEF RowsOK
  <2> QED
    BY <2>1, <2>2
<1>11. HistoryOK'
  <2> SUFFICES ASSUME NEW u \in Users, NEW r \in Rows
               PROVE  /\ lost[u][r] < clock
                      /\ lost[u][r] # 0 => Exists(r)' /\ shortcodes'[r].created <= lost[u][r]
                      /\ shortcodes'[r].owner = u => lost[u][r] < shortcodes'[r].since
                      /\ u \in Viewers /\ grants[u][r] # 0 => lost[u][r] < grants[u][r]
    BY <1>2 DEF HistoryOK
  <2>1. /\ lost[u][r] < clock
        /\ lost[u][r] # 0 => Exists(r) /\ shortcodes[r].created <= lost[u][r]
        /\ shortcodes[r].owner = u => lost[u][r] < shortcodes[r].since
        /\ u \in Viewers /\ grants[u][r] # 0 => lost[u][r] < grants[u][r]
    BY <1>1 DEF HistoryOK
  <2>2. CASE r # x
    BY <1>4, <1>5, <2>1, <2>2
  <2>3. CASE r = x
    BY <1>4, <1>5, <2>1, <2>3
  <2> QED
    BY <2>2, <2>3
<1>12. ASSUME NEW t \in Slots PROVE RequestFits(req[t])'
  <2>1. CASE t = s
    BY <1>3, <1>4, <2>1, IdleFacts DEF RequestFits, RowForms, Editing, ViewerOf, Sharing
  <2>2. CASE t # s
    <3>1. PICK q \in RequestType : q = req[t]
      BY <1>1 DEF Types
    <3>2. RequestFits(q) /\ req'[t] = q
      BY <1>3, <2>2, <3>1 DEF Inv
    <3>3. q.stage \in RowForms => q.form \in Real
      BY <3>2 DEF RequestFits
    <3>4. Inserts(q) /\ q.form.from # NoRow => Exists(q.form.from)'
      <4>1. SUFFICES ASSUME Inserts(q), q.form.from # NoRow PROVE Exists(q.form.from)'
        OBVIOUS
      <4>2. q.form \in Real /\ Exists(q.form.from)
        BY <3>2, <4>1 DEF RequestFits, Inserts, RowForms
      <4>3. q.form.from \in Rows
        BY <4>1, <4>2 DEF Real
      <4> QED
        BY <1>5, <4>2, <4>3
    <3>5. q.stage \in {"cap", "insert"} => q.row = NoRow
      BY <3>2 DEF RequestFits
    <3>6. q.stage \in Editing \/ (q.stage = "exists" /\ q.row # NoRow) => q.row \in Rows /\ Exists(q.row)'
      BY <1>5, <3>2 DEF RequestFits
    <3>7. q.stage \in ViewerOf => q.viewer \in Viewers /\ q.who \in Clients
      BY <3>2 DEF RequestFits
    <3>8. ASSUME q.stage \in Sharing PROVE q.ids \subseteq Owned(q.who)'
      <4>1. q.ids \subseteq Owned(q.who) /\ q.who \in Clients
        BY <3>2, <3>8 DEF RequestFits, ViewerOf, Sharing
      <4>2. ASSUME x \in q.ids PROVE new.owner = q.who
        <5>1. shortcodes[x].owner = q.who
          BY <4>1, <4>2 DEF Owned
        <5>2. Exists(x)
          BY <4>1, <5>1, Constants, NoShortcodeFacts DEF Exists
        <5>3. ~Updatable(x)
          BY <3>1, <3>8, <4>2 DEF Updatable, ShareLocks, Sharing
        <5> QED
          BY <5>1, <5>2, <5>3
      <4> QED
        BY <1>4, <4>1, <4>2 DEF Owned
    <3>9. q.stage \in {"assert", "count"} => q.gone = {}
      BY <3>2 DEF RequestFits
    <3>10. ASSUME q.stage = "grant", NEW y \in q.gone PROVE WasOwned(q.who, y)'
      <4>1. WasOwned(q.who, y)
        BY <3>2, <3>10 DEF RequestFits
      <4>2. CASE y = x
        BY <1>2, <1>4, <4>1, <4>2 DEF WasOwned
      <4>3. CASE y # x
        BY <1>2, <1>4, <4>1, <4>3 DEF WasOwned
      <4> QED
        BY <4>2, <4>3
    <3>11. RequestFits(q)'
      BY <3>3, <3>4, <3>5, <3>6, <3>7, <3>8, <3>9, <3>10 DEF RequestFits
    <3> QED
      BY <3>2, <3>11
  <2> QED
    BY <2>1, <2>2
<1> QED
  BY <1>6, <1>7, <1>8, <1>10, <1>11, <1>12 DEF Inv

LEMMA InsertedFacts ==
  ASSUME Types, NEW f \in Real, f.from # NoRow => Exists(f.from)
  PROVE  /\ Inserted(f) \in Real /\ Inserted(f).since = clock /\ Inserted(f).created = clock
<1> DEFINE src == IF f.from = NoRow THEN f ELSE shortcodes[f.from]
<1>1. f.from # NoRow => f.from \in Rows
  BY DEF Real
<1>2. src \in Real
  BY <1>1, RowFacts
<1>3. PICK s : s = Shortcode(f.op, src.code, f.env, src.owner, src.url)
  OBVIOUS
<1>4. /\ f.op \in Operators /\ src.code \in Codes /\ f.env \in Envs /\ src.owner \in Clients
      /\ src.url \in Handlers /\ f.from \in Rows \cup {NoRow}
  BY <1>2 DEF Real
<1>5. s \in Real
  BY <1>3, <1>4, FormFacts
<1>6. Inserted(f) = [s EXCEPT !.from = f.from, !.since = clock, !.created = clock]
  BY <1>3 DEF Inserted
<1>7. clock \in Times
  BY DEF Types
<1> QED
  BY <1>4, <1>5, <1>6, <1>7 DEF Real

LEMMA InsertShortcodeStep ==
  ASSUME Inv, NEW s \in Slots, InsertShortcode(s)
  PROVE  Inv'
<1>1. req[s].stage = "insert" /\ Wrote(s)
  BY DEF InsertShortcode
<1>2. RequestFits(req[s]) /\ Types /\ RoomLeft
  BY DEF Inv
<1>3. PICK f \in Real : f = req[s].form /\ (f.from # NoRow => Exists(f.from))
  BY <1>1, <1>2 DEF RequestFits, RowForms, Inserts
<1>4. Inserts(req[s])
  BY <1>1, <1>2 DEF RequestFits, Inserts
<1>5. PICK new \in Real : new = Inserted(f) /\ new.since = clock /\ new.created = clock
  BY <1>2, <1>3, InsertedFacts
<1>6. CASE shortcodes' = shortcodes
  BY <1>1, <1>6, FinishStep DEF Wrote, Unwritten
<1>7. CASE shortcodes' # shortcodes
  <2>1. shortcodes' = [shortcodes EXCEPT ![Lowest({r \in Rows : ~Exists(r)})] = new]
    BY <1>3, <1>5, <1>7 DEF InsertShortcode
  <2>2. Free # {}
    <3>1. s \in Inserters /\ IsFiniteSet(Inserters)
      BY <1>4, Constants, FS_Subset DEF Inserters
    <3>2. Cardinality(Inserters) \in Nat /\ Cardinality(Inserters) # 0
      BY <3>1, FS_CardinalityType, FS_EmptySet
    <3>3. Cardinality(Free) # 0
      BY <1>2, <3>2, Constants, FS_Subset, FS_CardinalityType DEF RoomLeft, Free
    <3> QED
      BY <3>3, FS_EmptySet
  <2>3. PICK x \in Rows : x = Lowest({r \in Rows : ~Exists(r)}) /\ ~Exists(x)
    <3>1. Free \in SUBSET Nat
      BY Constants DEF Free
    <3>2. Lowest(Free) \in Free
      BY <2>2, <3>1, Least
    <3> QED
      BY <3>2 DEF Free
  <2>4. clock \in Nat
    BY <1>2 DEF Types, Times
  <2>5. shortcodes' = [shortcodes EXCEPT ![x] = new]
    BY <2>1, <2>3
  <2>6. new.since <= clock
    BY <1>5, <2>4
  <2> QED
    BY <1>1, <1>4, <1>5, <2>3, <2>5, <2>6, RowStep
<1> QED
  BY <1>6, <1>7

LEMMA StampedFacts ==
  ASSUME NEW old \in Real, NEW new \in Real, clock \in Times, new.since = old.since
  PROVE  /\ Stamped(old, new) \in Real /\ Stamped(old, new).created = new.created
         /\ Stamped(old, new).owner = new.owner
         /\ \/ new.owner = old.owner /\ Stamped(old, new).since = old.since
            \/ Stamped(old, new).since = clock
  BY DEF Stamped, Real

LEMMA UpdateShortcodeStep ==
  ASSUME Inv, NEW s \in Slots, UpdateShortcode(s)
  PROVE  Inv'
<1>1. req[s].stage = "update" /\ Wrote(s)
  BY DEF UpdateShortcode
<1>2. RequestFits(req[s]) /\ Types /\ RowsOK
  BY DEF Inv
<1>3. PICK r \in Rows : r = req[s].row /\ Exists(r)
  BY <1>1, <1>2 DEF RequestFits, Editing
<1>4. PICK f \in Real : f = req[s].form
  BY <1>1, <1>2 DEF RequestFits, RowForms
<1>5. PICK old \in Real : old = shortcodes[r]
  BY <1>2, <1>3, RowFacts
<1>6. Updatable(r)
  BY <1>3 DEF UpdateShortcode
<1>7. PICK new : new = [old EXCEPT !.op = f.op, !.code = f.code, !.owner = f.owner,
                                   !.url = f.url, !.status = f.status]
  OBVIOUS
<1>8. new \in Real /\ new.since = old.since /\ new.created = old.created
  BY <1>7 DEF Real
<1>9. shortcodes' = shortcodes \/ shortcodes' = [shortcodes EXCEPT ![r] = Stamped(@, new)]
  BY <1>3, <1>4, <1>5, <1>7 DEF UpdateShortcode
<1>10. CASE shortcodes' = shortcodes
  BY <1>1, <1>10, FinishStep DEF Wrote, Unwritten
<1>11. CASE shortcodes' = [shortcodes EXCEPT ![r] = Stamped(@, new)]
  <2>1. PICK row : row = Stamped(old, new)
    OBVIOUS
  <2>2. shortcodes' = [shortcodes EXCEPT ![r] = row]
    BY <1>2, <1>5, <1>11, <2>1 DEF Types
  <2>3. clock \in Times
    BY <1>2 DEF Types
  <2>4. /\ row \in Real /\ row.created = old.created
        /\ \/ row.owner = old.owner /\ row.since = old.since
           \/ row.since = clock
    BY <1>8, <2>1, <2>3, StampedFacts
  <2>5. row.since <= clock
    BY <1>2, <1>3, <1>5, <2>3, <2>4 DEF RowsOK, Times
  <2> QED
    BY <1>1, <1>3, <1>5, <1>6, <2>2, <2>4, <2>5, RowStep
<1> QED
  BY <1>9, <1>10, <1>11

LEMMA SetFieldStep ==
  ASSUME Inv, NEW s \in Slots, SetField(s)
  PROVE  Inv'
<1>1. req[s].stage = "set" /\ Wrote(s)
  BY DEF SetField
<1>2. RequestFits(req[s]) /\ Types /\ RowsOK
  BY DEF Inv
<1>3. PICK r \in Rows : r = req[s].row /\ Exists(r)
  BY <1>1, <1>2 DEF RequestFits, Editing
<1>4. PICK f \in Real : f = req[s].form
  BY <1>1, <1>2 DEF RequestFits, RowForms
<1>5. PICK old \in Real : old = shortcodes[r]
  BY <1>2, <1>3, RowFacts
<1>6. PICK new : /\ new = [old EXCEPT !.url = f.url] \/ new = [old EXCEPT !.status = f.status]
                 /\ shortcodes' = [shortcodes EXCEPT ![r] = new]
  BY <1>3, <1>4, <1>5 DEF SetField
<1>7. new \in Real /\ new.since = old.since /\ new.created = old.created /\ new.owner = old.owner
  BY <1>6 DEF Real
<1>8. new.since <= clock
  BY <1>2, <1>3, <1>5, <1>7 DEF RowsOK
<1> QED
  BY <1>1, <1>3, <1>5, <1>6, <1>7, <1>8, RowStep

-----------------------------------------------------------------------------
(* Requests that write a viewer and its grants.                            *)

LEMMA ViewersWritten ==
  ASSUME Inv, NEW s \in Slots, Finish(s),
         UNCHANGED <<shortcodes, operators, clock, lost, requests>>,
         viewers' \in [Viewers -> ViewerType], grants' \in [Viewers -> [Rows -> Times]],
         \A v \in Viewers : \/ viewers'[v].pwv <= viewers[v].pwv
                            \/ viewers'[v].pwv = viewers[v].pwv + 1 /\ req[s].stage \in Resets,
         \A v \in Viewers, r \in Rows : grants'[v][r] \in {0, clock, grants[v][r]}
  PROVE  Inv'
<1>1. Types /\ RoomLeft /\ Tallies /\ RowsOK /\ HistoryOK
  BY DEF Inv
<1>2. req'[s] = Idle /\ \A t \in Slots \ {s} : req'[t] = req[t]
  BY <1>1, Moves DEF Finish
<1>3. Types'
  <2>1. req' \in [Slots -> RequestType]
    BY <1>1, IdleFacts DEF Types, Finish
  <2> QED
    BY <1>1, <2>1 DEF Types
<1>4. RoomLeft'
  <2>1. Free' = Free /\ Cardinality(Free) \in Nat
    BY Constants, FS_Subset, FS_CardinalityType DEF Free, Exists
  <2>2. /\ Cardinality(Inserters) \in Nat /\ Cardinality(Inserters') \in Nat
        /\ Cardinality(Inserters') <= Cardinality(Inserters)
    BY <1>2, IdleFacts, InsertersAfter
  <2> QED
    BY <1>1, <2>1, <2>2 DEF RoomLeft
<1>5. Tallies'
  <2>1. /\ Cardinality(Resetters) \in Nat /\ Cardinality(Resetters') \in Nat
        /\ Cardinality(Resetters') <= Cardinality(Resetters)
        /\ req[s].stage \in Resets => Cardinality(Resetters') <= Cardinality(Resetters) - 1
    BY <1>2, IdleFacts, ResettersAfter
  <2> SUFFICES ASSUME NEW v \in Viewers
               PROVE  viewers'[v].pwv + Cardinality(Resetters') <= requests
    BY DEF Tallies
  <2>2. /\ viewers[v].pwv \in Int /\ viewers'[v].pwv \in Int /\ requests \in Int
        /\ viewers[v].pwv + Cardinality(Resetters) <= requests
    BY <1>1 DEF Types, ViewerType, Tallies
  <2>3. CASE viewers'[v].pwv <= viewers[v].pwv
    BY <2>1, <2>2, <2>3
  <2>4. CASE viewers'[v].pwv = viewers[v].pwv + 1 /\ req[s].stage \in Resets
    BY <2>1, <2>2, <2>4
  <2> QED
    BY <2>3, <2>4
<1>6. RowsOK'
  BY <1>1 DEF RowsOK, Exists
<1>7. HistoryOK'
  <2> SUFFICES ASSUME NEW u \in Users, NEW r \in Rows
               PROVE  /\ lost[u][r] < clock
                      /\ lost[u][r] # 0 => Exists(r) /\ shortcodes[r].created <= lost[u][r]
                      /\ shortcodes[r].owner = u => lost[u][r] < shortcodes[r].since
                      /\ u \in Viewers /\ grants'[u][r] # 0 => lost[u][r] < grants'[u][r]
    BY DEF HistoryOK, Exists
  <2>1. /\ lost[u][r] < clock
        /\ lost[u][r] # 0 => Exists(r) /\ shortcodes[r].created <= lost[u][r]
        /\ shortcodes[r].owner = u => lost[u][r] < shortcodes[r].since
        /\ u \in Viewers /\ grants[u][r] # 0 => lost[u][r] < grants[u][r]
    BY <1>1 DEF HistoryOK
  <2>2. u \in Viewers => grants'[u][r] \in {0, clock, grants[u][r]}
    OBVIOUS
  <2> QED
    BY <2>1, <2>2
<1>8. ASSUME NEW t \in Slots PROVE RequestFits(req[t])'
  <2>1. PICK p : p = req'[t]
    OBVIOUS
  <2>2. RequestFits(p)
    BY <1>2, <2>1, IdleFacts DEF Inv
  <2>3. RequestFits(p)'
    BY <2>2, StillFits
  <2> QED
    BY <2>1, <2>3
<1> QED
  BY <1>3, <1>4, <1>5, <1>6, <1>7, <1>8 DEF Inv

LEMMA NoViewerFacts ==
  /\ NoViewer \in ViewerType /\ NoViewer.pwv = 0
  /\ \A u \in Clients : LET new == [NoViewer EXCEPT !.by = u, !.active = TRUE] IN
       new \in ViewerType /\ new.pwv = 0
  BY DEF NoViewer, ViewerType

\* What a grant leaves of a viewer's grants.
LEMMA GrantedFacts ==
  ASSUME Types, NEW v \in Viewers, NEW gone, NEW ids \in SUBSET Rows,
         grants' = [grants EXCEPT ![v] = [x \in Rows |->
                      CASE x \in ids        -> clock
                        [] x \in gone \ ids -> 0
                        [] OTHER            -> @[x]]]
  PROVE  /\ grants' \in [Viewers -> [Rows -> Times]]
         /\ \A w \in Viewers, r \in Rows : grants'[w][r] \in {0, clock, grants[w][r]}
         /\ \A w \in Viewers, r \in Rows :
              grants'[w][r] # grants[w][r] => w = v /\ (r \in ids \/ (r \in gone /\ grants'[w][r] = 0))
<1>1. clock \in Times /\ 0 \in Times /\ grants \in [Viewers -> [Rows -> Times]]
  BY Constants DEF Types, Times
<1>2. PICK row : row = [x \in Rows |->
                      CASE x \in ids        -> clock
                        [] x \in gone \ ids -> 0
                        [] OTHER            -> grants[v][x]]
  OBVIOUS
<1>3. \A x \in Rows : row[x] = CASE x \in ids        -> clock
                                 [] x \in gone \ ids -> 0
                                 [] OTHER            -> grants[v][x]
  BY <1>2
<1>4. \A x \in Rows : /\ row[x] \in {0, clock, grants[v][x]}
                      /\ row[x] # grants[v][x] => x \in ids \/ (x \in gone /\ row[x] = 0)
  BY <1>3
<1>5. \A x \in Rows : row[x] \in Times
  BY <1>1, <1>4
<1>6. row \in [Rows -> Times]
  BY <1>2, <1>5
<1>7. grants' = [grants EXCEPT ![v] = row]
  BY <1>1, <1>2
<1> QED
  BY <1>1, <1>4, <1>6, <1>7

LEMMA WithdrawStep ==
  ASSUME Inv, NEW s \in Slots, Withdraw(s)
  PROVE  Inv'
<1>1. Types /\ RequestFits(req[s]) /\ req[s].stage = "withdraw" /\ Unwritten
  BY DEF Inv, Withdraw
<1>2. PICK p \in RequestType : p = req[s] /\ RequestFits(p) /\ p.stage = "withdraw"
  BY <1>1 DEF Types
<1>3. PICK gone \in SUBSET Rows : /\ gone \subseteq Owned(p.who)
                                 /\ req' = [req EXCEPT ![s].stage = "grant", ![s].gone = gone]
  <2>1. PICK gone : gone = {x \in Owned(p.who) \ p.ids : grants[p.viewer][x] # 0}
    OBVIOUS
  <2>2. gone \subseteq Owned(p.who) /\ gone \in SUBSET Rows
    BY <2>1 DEF Owned
  <2>3. req' = [req EXCEPT ![s].stage = "grant", ![s].gone = gone]
    BY <1>2, <2>1 DEF Withdraw
  <2> QED
    BY <2>2, <2>3
<1>4. PICK q : q = [p EXCEPT !.stage = "grant", !.gone = gone]
  OBVIOUS
<1>5. /\ q \in RequestType /\ q.stage = "grant" /\ q.gone = gone /\ q.who = p.who
      /\ q.viewer = p.viewer /\ q.ids = p.ids
  BY <1>4 DEF RequestType, Stages
<1>6. req' = [req EXCEPT ![s] = q]
  BY <1>1, <1>2, <1>3, <1>4 DEF Types
<1>7. RequestFits(q) /\ ~Inserts(q) /\ q.stage \notin Resets
  <2>1. p.ids \subseteq Owned(p.who) /\ p.viewer \in Viewers /\ p.who \in Clients
    BY <1>2 DEF RequestFits, Sharing, ViewerOf
  <2>2. \A x \in gone : WasOwned(p.who, x)
    BY <1>3 DEF WasOwned, Owned
  <2>3. ~Inserts(q) /\ q.stage \notin Resets
    BY <1>5 DEF Inserts, Resets
  <2> QED
    BY <1>5, <2>1, <2>2, <2>3 DEF RequestFits, RowForms, Editing
<1>8. /\ UNCHANGED <<shortcodes, operators, viewers, grants, clock, lost>>
      /\ requests' \in 0 .. MaxRequests /\ requests' >= requests
  BY <1>1 DEF Unwritten, Types
<1> QED
  BY <1>5, <1>6, <1>7, <1>8, QuietStep

LEMMA GrantStep ==
  ASSUME Inv, NEW s \in Slots, Grant(s)
  PROVE  Inv'
<1>1. Types /\ RequestFits(req[s]) /\ req[s].stage = "grant"
  BY DEF Inv, Grant
<1>2. PICK v \in Viewers, u \in Clients : v = req[s].viewer /\ u = req[s].who
  BY <1>1 DEF RequestFits, ViewerOf
<1>3. PICK ids \in SUBSET Rows, gone \in SUBSET Rows : ids = req[s].ids /\ gone = req[s].gone
  BY <1>1 DEF Types, RequestType
<1>4. \/ viewers' = viewers
      \/ viewers' = [viewers EXCEPT ![v] = [NoViewer EXCEPT !.by = u, !.active = TRUE]]
  BY <1>2 DEF Grant
<1>5. PICK new \in ViewerType : new.pwv = 0 /\ (viewers' = viewers \/ viewers' = [viewers EXCEPT ![v] = new])
  BY <1>4, NoViewerFacts
<1>6. /\ viewers' \in [Viewers -> ViewerType]
      /\ \A w \in Viewers : viewers'[w].pwv <= viewers[w].pwv
  <2>1. viewers \in [Viewers -> ViewerType] /\ \A w \in Viewers : viewers[w].pwv \in Nat
    BY <1>1 DEF Types, ViewerType
  <2> QED
    BY <1>5, <2>1
<1>7. /\ grants' \in [Viewers -> [Rows -> Times]]
      /\ \A w \in Viewers, r \in Rows : grants'[w][r] \in {0, clock, grants[w][r]}
  <2>1. grants' = [grants EXCEPT ![v] = [x \in Rows |->
                      CASE x \in ids        -> clock
                        [] x \in gone \ ids -> 0
                        [] OTHER            -> @[x]]]
    BY <1>2, <1>3 DEF Grant
  <2> QED
    BY <1>1, <2>1, GrantedFacts
<1>8. Finish(s) /\ UNCHANGED <<shortcodes, operators, clock, lost, requests>>
  BY DEF Grant
<1> QED
  BY <1>6, <1>7, <1>8, ViewersWritten

LEMMA EditedFacts ==
  ASSUME NEW old \in ViewerType
  PROVE  \A field : /\ Edited(old, field) \in ViewerType
                    /\ Edited(old, field).pwv \in {old.pwv, old.pwv + 1}
<1>1. old.active \in BOOLEAN /\ old.pwv + 1 \in Nat
  BY DEF ViewerType
<1>2. PICK flip, up : flip = [old EXCEPT !.active = ~@] /\ up = [old EXCEPT !.pwv = @ + 1]
  OBVIOUS
<1>3. (~old.active) = TRUE \/ (~old.active) = FALSE
  BY <1>1, Zenon
<1>4. flip \in ViewerType /\ flip.pwv = old.pwv
  BY <1>2, <1>3 DEF ViewerType
<1>5. up \in ViewerType /\ up.pwv = old.pwv + 1
  BY <1>1, <1>2 DEF ViewerType
<1>6. \A field : Edited(old, field) = IF field = "active" THEN flip ELSE up
  BY <1>2 DEF Edited
<1> QED
  BY <1>4, <1>5, <1>6

LEMMA EditViewerStep ==
  ASSUME Inv, NEW s \in Slots, EditViewer(s)
  PROVE  Inv'
<1>1. Types /\ RequestFits(req[s])
  BY DEF Inv
<1>2. req[s].stage = "edit" \/ req[s].stage = "reset"
  BY DEF EditViewer
<1>3. PICK v \in Viewers : v = req[s].viewer
  BY <1>1, <1>2 DEF RequestFits, ViewerOf
<1>4. PICK old \in ViewerType : old = viewers[v]
  BY <1>1 DEF Types
<1>5. Finish(s) /\ UNCHANGED <<shortcodes, operators, grants, clock, lost, requests>>
  BY DEF EditViewer
<1>6. PICK new \in ViewerType : /\ viewers' = [viewers EXCEPT ![v] = new]
                                /\ \/ new.pwv = old.pwv
                                   \/ new.pwv = old.pwv + 1
  <2>1. PICK new : new = Edited(old, req[s].field)
    OBVIOUS
  <2>2. viewers' = [viewers EXCEPT ![v] = new]
    <3>1. viewers' = [viewers EXCEPT ![req[s].viewer] = Edited(@, req[s].field)]
      BY DEF EditViewer
    <3> QED
      BY <1>1, <1>3, <1>4, <2>1, <3>1 DEF Types
  <2> QED
    BY <2>1, <2>2, EditedFacts
<1>7. viewers' \in [Viewers -> ViewerType] /\ grants' \in [Viewers -> [Rows -> Times]]
  BY <1>1, <1>5, <1>6 DEF Types
<1>8. ASSUME NEW w \in Viewers
      PROVE  \/ viewers'[w].pwv <= viewers[w].pwv
             \/ viewers'[w].pwv = viewers[w].pwv + 1 /\ req[s].stage \in Resets
  <2>1. viewers \in [Viewers -> ViewerType] /\ viewers[w].pwv \in Nat
    BY <1>1 DEF Types, ViewerType
  <2>2. CASE w = v
    BY <1>2, <1>4, <1>6, <2>1, <2>2 DEF Resets
  <2>3. CASE w # v
    BY <1>6, <2>1, <2>3
  <2> QED
    BY <2>2, <2>3
<1>9. \A w \in Viewers, r \in Rows : grants'[w][r] \in {0, clock, grants[w][r]}
  BY <1>5
<1> QED
  BY <1>5, <1>7, <1>8, <1>9, ViewersWritten

-----------------------------------------------------------------------------
(* The other steps.                                                        *)

\* A user who is not entitled in this tick has no right that is older than it.
LEMMA TickStep ==
  ASSUME Inv, Tick
  PROVE  Inv'
<1>1. Types /\ RoomLeft /\ Tallies /\ RowsOK /\ HistoryOK
  BY DEF Inv
<1>2. UNCHANGED <<shortcodes, operators, viewers, grants, req, requests>> /\ clock' = clock + 1
  BY DEF Tick
<1>3. lost' = [u \in Users |-> [r \in Rows |->
                IF Exists(r) /\ ~Entitled(u, r) THEN clock ELSE lost[u][r]]]
  BY DEF Tick
<1>4. clock \in Nat /\ clock + 1 \in Times /\ clock \in Times
  BY <1>1, Constants DEF Types, Times, Tick
<1>5. \A u \in Users, r \in Rows :
        lost'[u][r] = IF Exists(r) /\ ~Entitled(u, r) THEN clock ELSE lost[u][r]
  BY <1>3
<1>6. Types'
  <2>1. lost' \in [Users -> [Rows -> Times]]
    BY <1>1, <1>3, <1>4 DEF Types
  <2> QED
    BY <1>1, <1>2, <1>4, <2>1 DEF Types
<1>7. RoomLeft' /\ Tallies'
  BY <1>1, <1>2 DEF RoomLeft, Tallies, Inserters, Free, Exists, Resetters
<1>8. \A r \in Rows : Exists(r) => shortcodes[r].since \in Nat /\ shortcodes[r].created \in Nat
  BY <1>1, RowFacts DEF Real, Times
<1>9. RowsOK'
  BY <1>1, <1>2, <1>4, <1>8 DEF RowsOK, Exists
<1>10. HistoryOK'
  <2> SUFFICES ASSUME NEW u \in Users, NEW r \in Rows
               PROVE  /\ lost'[u][r] < clock + 1
                      /\ lost'[u][r] # 0 => Exists(r) /\ shortcodes[r].created <= lost'[u][r]
                      /\ shortcodes[r].owner = u => lost'[u][r] < shortcodes[r].since
                      /\ u \in Viewers /\ grants[u][r] # 0 => lost'[u][r] < grants[u][r]
    BY <1>2 DEF HistoryOK, Exists
  <2>1. /\ lost[u][r] < clock
        /\ lost[u][r] # 0 => Exists(r) /\ shortcodes[r].created <= lost[u][r]
        /\ shortcodes[r].owner = u => lost[u][r] < shortcodes[r].since
        /\ u \in Viewers /\ grants[u][r] # 0 => lost[u][r] < grants[u][r]
    BY <1>1 DEF HistoryOK
  <2>2. lost[u][r] \in Nat
    BY <1>1 DEF Types, Times
  <2>3. CASE Exists(r) /\ ~Entitled(u, r)
    <3>1. lost'[u][r] = clock
      BY <1>5, <2>3
    <3>2. shortcodes[r].owner # u /\ ~(u \in Viewers /\ grants[u][r] # 0)
      BY <2>3 DEF Entitled
    <3>3. shortcodes[r].created <= clock
      BY <1>1, <2>3 DEF RowsOK
    <3> QED
      BY <1>4, <2>3, <3>1, <3>2, <3>3
  <2>4. CASE ~(Exists(r) /\ ~Entitled(u, r))
    <3>1. lost'[u][r] = lost[u][r]
      BY <1>5, <2>4
    <3> QED
      BY <1>4, <2>1, <2>2, <3>1
  <2> QED
    BY <2>3, <2>4
<1>11. ASSUME NEW t \in Slots PROVE RequestFits(req[t])'
  <2>1. PICK p : p = req[t] /\ RequestFits(p) /\ p.stage # "grant"
    BY DEF Inv, Tick
  <2>2. RequestFits(p)'
    BY <1>2, <2>1, StillFits
  <2> QED
    BY <1>2, <2>1, <2>2
<1> QED
  BY <1>6, <1>7, <1>9, <1>10, <1>11 DEF Inv

LEMMA SetOperatorStep ==
  ASSUME Inv, NEW o \in Operators, SetOperator(o)
  PROVE  Inv'
<1>1. Types /\ RoomLeft /\ Tallies /\ RowsOK /\ HistoryOK
  BY DEF Inv
<1>2. UNCHANGED <<shortcodes, viewers, grants, req, clock, lost>>
  BY DEF SetOperator
<1>3. requests' = requests + 1 /\ requests' \in 0 .. MaxRequests
  BY <1>1, Constants DEF SetOperator, Types
<1>4. operators' \in SUBSET Operators
  BY <1>1 DEF SetOperator, Types
<1>5. Types'
  BY <1>1, <1>2, <1>3, <1>4 DEF Types
<1>6. RoomLeft' /\ RowsOK' /\ HistoryOK'
  BY <1>1, <1>2 DEF RoomLeft, Inserters, Free, Exists, RowsOK, HistoryOK
<1>7. Tallies'
  <2>1. Resetters' = Resetters /\ Cardinality(Resetters) \in Nat
    BY <1>2, Constants, FS_Subset, FS_CardinalityType DEF Resetters
  <2> SUFFICES ASSUME NEW v \in Viewers
               PROVE  viewers[v].pwv + Cardinality(Resetters) <= requests + 1
    BY <1>2, <1>3, <2>1 DEF Tallies
  <2>2. viewers[v].pwv \in Int /\ requests \in Int
        /\ viewers[v].pwv + Cardinality(Resetters) <= requests
    BY <1>1 DEF Types, ViewerType, Tallies
  <2> QED
    BY <2>1, <2>2
<1>8. ASSUME NEW t \in Slots PROVE RequestFits(req[t])'
  <2>1. PICK p : p = req[t] /\ RequestFits(p)
    BY DEF Inv
  <2>2. RequestFits(p)'
    BY <1>2, <2>1, StillFits
  <2> QED
    BY <1>2, <2>1, <2>2
<1> QED
  BY <1>5, <1>6, <1>7, <1>8 DEF Inv

LEMMA InitInv == Init => Inv
<1> SUFFICES ASSUME Init PROVE Inv
  OBVIOUS
<1>1. PICK u \in Clients, op \in Operators, c \in Codes, e \in Envs :
        shortcodes = [r \in Rows |->
            IF r # Lowest(Rows) THEN NoShortcode
            ELSE [Shortcode(op, c, e, u, FirstUrl) EXCEPT !.since = Second, !.created = Second]]
  <2> DEFINE First(u, op, c, e) == [Shortcode(op, c, e, u, FirstUrl) EXCEPT !.since = Second, !.created = Second]
             Placed(e, op) == e = "sandbox" => op = Lowest(Operators)
  <2>1. \E u \in Clients, op \in Operators, c \in Codes, e \in Envs :
          Placed(e, op) /\ shortcodes = [r \in Rows |-> IF r # Lowest(Rows) THEN NoShortcode ELSE First(u, op, c, e)]
    BY DEF Init
  <2> HIDE DEF First, Placed
  <2>2. PICK u \in Clients, op \in Operators, c \in Codes, e \in Envs :
          shortcodes = [r \in Rows |-> IF r # Lowest(Rows) THEN NoShortcode ELSE First(u, op, c, e)]
    BY <2>1
  <2> QED
    BY <2>2 DEF First
<1>2. PICK first : first = [Shortcode(op, c, e, u, FirstUrl) EXCEPT !.since = Second, !.created = Second]
  OBVIOUS
<1>3. Second \in Times /\ 0 \in Times /\ Second \in Nat /\ Second >= 1
  BY Constants DEF Times
<1>4. first \in Real /\ first.since = Second /\ first.created = Second
  <2>1. PICK form : form = Shortcode(op, c, e, u, FirstUrl)
    OBVIOUS
  <2>2. form \in Real
    BY <2>1, FormFacts, FirstUrlFacts
  <2> QED
    BY <1>2, <1>3, <2>1, <2>2 DEF Real
<1>5. \A r \in Rows : shortcodes[r] = NoShortcode \/ shortcodes[r] = first
  BY <1>1, <1>2
<1>6. Types
  <2>1. shortcodes \in [Rows -> Shortcodes]
    BY <1>1, <1>4, <1>5, NoShortcodeFacts
  <2>2. viewers \in [Viewers -> ViewerType]
    BY NoViewerFacts DEF Init
  <2>3. grants \in [Viewers -> [Rows -> Times]] /\ lost \in [Users -> [Rows -> Times]]
    BY <1>3 DEF Init
  <2>4. req \in [Slots -> RequestType]
    BY IdleFacts DEF Init
  <2> QED
    BY <1>3, <2>1, <2>2, <2>3, <2>4, Constants DEF Init, Types
<1>7. \A s \in Slots : req[s] = Idle
  BY DEF Init
<1>8. RoomLeft
  <2>1. Inserters = {}
    BY <1>7, IdleFacts DEF Inserters
  <2>2. Cardinality(Inserters) = 0
    BY <2>1, FS_EmptySet
  <2>3. Cardinality(Free) \in Nat
    BY Constants, FS_Subset, FS_CardinalityType DEF Free
  <2> QED
    BY <2>2, <2>3 DEF RoomLeft
<1>9. Tallies
  <2>1. Resetters = {}
    BY <1>7, IdleFacts DEF Resetters
  <2>2. Cardinality(Resetters) = 0
    BY <2>1, FS_EmptySet
  <2>3. \A v \in Viewers : viewers[v].pwv = 0
    BY NoViewerFacts DEF Init
  <2> QED
    BY <2>2, <2>3 DEF Tallies, Init
<1>10. clock = Second /\ \A v \in Users, r \in Rows : lost[v][r] = 0
  BY DEF Init
<1>11. \A v \in Viewers, r \in Rows : grants[v][r] = 0
  BY DEF Init
<1>12. RowsOK
  BY <1>3, <1>4, <1>5, <1>10 DEF RowsOK, Exists
<1>13. HistoryOK
  <2> SUFFICES ASSUME NEW v \in Users, NEW r \in Rows
               PROVE  0 < clock /\ (shortcodes[r].owner = v => 0 < shortcodes[r].since)
    BY <1>10, <1>11 DEF HistoryOK
  <2>1. v # NoOne
    BY Constants
  <2> QED
    BY <1>3, <1>4, <1>5, <1>10, <2>1, NoShortcodeFacts
<1>14. \A s \in Slots : RequestFits(req[s])
  BY <1>7, IdleFacts
<1> QED
  BY <1>6, <1>8, <1>9, <1>12, <1>13, <1>14 DEF Inv

LEMMA StepInv == Inv /\ [Next]_vars => Inv'
<1> SUFFICES ASSUME Inv, [Next]_vars PROVE Inv'
  OBVIOUS
<1>1. ASSUME NEW s \in Slots, Start(s) PROVE Inv'
  BY <1>1, StartCreateStep, StartSandboxStep, StartPromoteStep, StartUpdateStep, StartQuickEditStep,
     StartViewerStep, StartGrantsStep, StartViewerEditStep DEF Start
<1>2. ASSUME NEW s \in Slots, Proceed(s) PROVE Inv'
  BY <1>2, CheckCapStep, CheckCodeStep, InsertShortcodeStep, UpdateShortcodeStep, CheckOwnerStep,
     SetFieldStep, AssertOwnedStep, CountViewersStep, WithdrawStep, GrantStep, CheckScopeStep,
     LookUpViewerStep, EditViewerStep DEF Proceed
<1>3. ASSUME UNCHANGED vars PROVE Inv'
  <2>1. ASSUME NEW t \in Slots PROVE RequestFits(req[t])'
    <3>1. PICK p : p = req[t] /\ RequestFits(p)
      BY DEF Inv
    <3>2. RequestFits(p)'
      BY <1>3, <3>1, StillFits DEF vars
    <3> QED
      BY <1>3, <3>1, <3>2 DEF vars
  <2> QED
    BY <1>3, <2>1 DEF vars, Inv, Types, RoomLeft, Inserters, Free, Exists, Tallies, Resetters, RowsOK, HistoryOK
<1> QED
  BY <1>1, <1>2, <1>3, TickStep, SetOperatorStep DEF Next

THEOREM RegistryInvariance == Spec => []Inv
  BY InitInv, StepInv, PTL DEF Spec

-----------------------------------------------------------------------------
(* What follows from the invariant.                                        *)

\* Every variable holds what its row or request may hold; the versions of the
\* passwords stay below the requests there were (lib/users.ts).
THEOREM RegistryTypes == Spec => []TypeOK
<1>1. Inv => TypeOK
  <2> SUFFICES ASSUME Inv PROVE TypeOK
    OBVIOUS
  <2>1. Types /\ Tallies
    BY DEF Inv
  <2>2. Cardinality(Resetters) \in Nat
    BY Constants, FS_Subset, FS_CardinalityType DEF Resetters
  <2>3. ASSUME NEW v \in Viewers
        PROVE  viewers[v] \in [by : Clients \cup {NoOne}, active : BOOLEAN, pwv : 0 .. MaxRequests]
    <3>1. viewers[v] \in ViewerType /\ requests \in 0 .. MaxRequests
          /\ viewers[v].pwv + Cardinality(Resetters) <= requests
      BY <2>1 DEF Types, Tallies
    <3>2. viewers[v].pwv \in 0 .. MaxRequests
      BY <2>2, <3>1, Constants DEF ViewerType
    <3> QED
      BY <3>1, <3>2 DEF ViewerType
  <2>4. viewers \in [Viewers -> [by : Clients \cup {NoOne}, active : BOOLEAN, pwv : 0 .. MaxRequests]]
    BY <2>1, <2>3 DEF Types
  <2> QED
    BY <2>1, <2>4 DEF Types, TypeOK, RequestType, Stages, Fields
<1> QED
  BY <1>1, RegistryInvariance, PTL

LEMMA Quotient ==
  ASSUME NEW m \in Nat, NEW k \in Nat, k >= 1
  PROVE  m \div k \in Nat /\ m < k * (m \div k) + k
  OBVIOUS

\* The whole second nearest to a time is at most half a second before it.
LEMMA Rounding ==
  ASSUME NEW t \in Nat
  PROVE  WholeSeconds(t) \in Nat /\ 2 * t < 2 * WholeSeconds(t) + Second
<1>1. PICK m \in Nat, k \in Nat : m = 2 * t + Second /\ k = 2 * Second /\ k >= 1
  BY Constants
<1>2. PICK w \in Nat : w = m \div k /\ m < k * w + k
  BY <1>1, Quotient
<1>3. WholeSeconds(t) = w * Second
  BY <1>1, <1>2 DEF WholeSeconds
<1>4. PICK z \in Nat : z = w * Second
  BY Constants
<1>5. k * w = 2 * z
  BY <1>1, <1>4, Constants
<1> QED
  BY <1>1, <1>2, <1>3, <1>4, <1>5, Constants

\* Whatever happens to owners and grants, a user who signs in now can read no
\* traffic from before the last time they were not entitled to it, give or take
\* the half second the whole-second floor loses (lib/acl.ts, db/025).
THEOREM TrafficWasEarned == Spec => []VisibleLegsWereEarned
<1>1. Inv => VisibleLegsWereEarned
  <2> SUFFICES ASSUME Inv, NEW u \in Users, NEW r \in Rows, Entitled(u, r), lost[u][r] # 0
               PROVE  2 * (lost[u][r] - Floor(u, r)) < Second
    BY DEF VisibleLegsWereEarned
  <2>1. /\ lost[u][r] < clock /\ Exists(r) /\ shortcodes[r].created <= lost[u][r]
        /\ shortcodes[r].owner = u => lost[u][r] < shortcodes[r].since
        /\ u \in Viewers /\ grants[u][r] # 0 => lost[u][r] < grants[u][r]
    BY DEF Inv, HistoryOK
  <2>2. lost[u][r] \in Nat /\ shortcodes[r].since \in Nat /\ shortcodes[r].created \in Nat
        /\ (u \in Viewers => grants[u][r] \in Nat)
    BY <2>1, RowFacts DEF Inv, Types, Real, Times
  <2>3. Starts(u, r) \in SUBSET Nat /\ Starts(u, r) # {} /\ \A x \in Starts(u, r) : lost[u][r] < x
    BY <2>1, <2>2 DEF Starts, Entitled
  <2>4. PICK from : from = Lowest(Starts(u, r))
    OBVIOUS
  <2>5. from \in Nat /\ lost[u][r] < from
    BY <2>3, <2>4, Least
  <2>6. Reallocated(u, r)
    BY <2>1, <2>2 DEF Reallocated, Entitled
  <2>7. Floor(u, r) = WholeSeconds(from)
    BY <2>4, <2>6 DEF Floor
  <2>8. WholeSeconds(from) \in Nat /\ 2 * from < 2 * WholeSeconds(from) + Second
    BY <2>5, Rounding
  <2> QED
    BY <2>2, <2>5, <2>7, <2>8, Constants
<1> QED
  BY <1>1, RegistryInvariance, PTL

\* A client adds grants on shortcodes they own at that moment, however the check
\* and a hand-over interleave: the rows the check found theirs stay locked until
\* the grants are written (createViewerAsAdmin).  What they take away was theirs
\* when the transaction's DELETE ran (setViewerGrantsAsAdmin).
THEOREM GrantsAreOwned == Spec => GrantsWithinOwnership
<1> DEFINE Within == \A s \in Slots, v \in Viewers, r \in Rows :
             req[s].stage = "grant" /\ req'[s].stage = "idle" /\ grants'[v][r] # grants[v][r]
               => \/ shortcodes[r].owner = req[s].who
                  \/ grants'[v][r] = 0 /\ shortcodes[r].since = clock
           Mine(s, v, r) == \/ shortcodes[r].owner = req[s].who
                            \/ grants'[v][r] = 0 /\ shortcodes[r].since = clock
<1>1. ASSUME Inv, NEW s \in Slots, NEW v \in Viewers, NEW r \in Rows, [Next]_vars,
             req[s].stage = "grant", req'[s].stage # "grant", grants'[v][r] # grants[v][r]
      PROVE  Mine(s, v, r)
  <2>1. grants' # grants
    BY <1>1
  <2>2. ASSUME NEW t \in Slots, Grant(t) PROVE Mine(s, v, r)
    <3>1. Types /\ RequestFits(req[t]) /\ req[t].stage = "grant"
      BY <1>1, <2>2 DEF Inv, Grant
    <3>2. PICK w \in Viewers, u \in Clients, ids \in SUBSET Rows, gone \in SUBSET Rows :
            /\ w = req[t].viewer /\ u = req[t].who /\ ids = req[t].ids /\ gone = req[t].gone
            /\ ids \subseteq Owned(u) /\ \A x \in gone : WasOwned(u, x)
      BY <3>1 DEF RequestFits, ViewerOf, Sharing, Types, RequestType
    <3>3. grants' = [grants EXCEPT ![w] = [x \in Rows |->
                        CASE x \in ids        -> clock
                          [] x \in gone \ ids -> 0
                          [] OTHER            -> @[x]]]
      BY <2>2, <3>2 DEF Grant
    <3>4. r \in ids \/ (r \in gone /\ grants'[v][r] = 0)
      BY <1>1, <3>1, <3>3, GrantedFacts
    <3>5. shortcodes[r].owner = u \/ (grants'[v][r] = 0 /\ shortcodes[r].since = clock)
      BY <3>2, <3>4 DEF Owned, WasOwned
    <3>6. s = t
      <4>1. \A x \in Slots \ {t} : req'[x] = req[x]
        BY <2>2, <3>1, Moves DEF Grant, Finish
      <4> QED
        BY <1>1, <4>1
    <3> QED
      BY <3>2, <3>5, <3>6
  <2>3. ASSUME NEW t \in Slots, Start(t) PROVE FALSE
    BY <2>1, <2>3 DEF Start, StartCreate, StartSandbox, StartPromote, StartUpdate, StartQuickEdit,
       StartViewer, StartGrants, StartViewerEdit, Begin
  <2>4. ASSUME NEW t \in Slots, Proceed(t), ~Grant(t) PROVE FALSE
    BY <2>1, <2>4 DEF Proceed, CheckCap, CheckCode, InsertShortcode, UpdateShortcode, CheckOwner,
       SetField, AssertOwned, CountViewers, Withdraw, CheckScope, LookUpViewer, EditViewer, Check, Wrote, Unwritten
  <2>6. CASE \E o \in Operators : SetOperator(o)
    BY <2>1, <2>6 DEF SetOperator
  <2>7. CASE Tick
    BY <2>1, <2>7 DEF Tick
  <2>8. CASE UNCHANGED vars
    BY <2>1, <2>8 DEF vars
  <2> QED
    BY <1>1, <2>2, <2>3, <2>4, <2>6, <2>7, <2>8 DEF Next
<1>2. Inv /\ [Next]_vars => Within
  <2> SUFFICES ASSUME Inv, [Next]_vars, NEW s \in Slots, NEW v \in Viewers, NEW r \in Rows,
                      req[s].stage = "grant", req'[s].stage = "idle", grants'[v][r] # grants[v][r]
               PROVE  Mine(s, v, r)
    OBVIOUS
  <2> QED
    BY <1>1
<1> QED
  BY <1>2, RegistryInvariance, PTL DEF Spec, GrantsWithinOwnership
=============================================================================
