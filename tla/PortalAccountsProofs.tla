------------------------ MODULE PortalAccountsProofs ------------------------
(***************************************************************************)
(* Theorems about PortalAccounts, for any users, browsers and links, any   *)
(* throttle and any number of requests: its safety properties, all from    *)
(* one invariant.  It says of each cookie what it was minted from, and of  *)
(* each request what it has found and which rows it holds locked, so that  *)
(* what it found is still so when it writes.                               *)
(***************************************************************************)
EXTENDS PortalAccounts, FiniteSetTheorems, TLAPS

-----------------------------------------------------------------------------
(* The invariant.                                                          *)

RowType     == [role : Roles \cup {"none"}, active : BOOLEAN,
                pw : Versions, email : Versions, pwv : Versions]
TokenType   == [user : Users \cup {NoUser}, st : {"unsent", "live", "dead"}]
SessionType == [own : Identities, imp : Identities]
FormType    == [was : Roles \cup {"none"}, role : Roles \cup {"none"},
                active : BOOLEAN, mail : BOOLEAN, guess : Versions]
RequestType == [stage : Stages, user : Users \cup {NoUser}, token : Tokens \cup {NoToken},
                form : FormType]

\* TypeOK, but for the limits on the versions and on the failures.
Types ==
  /\ users \in [Users -> RowType] /\ tokens \in [Tokens -> TokenType]
  /\ failures \in [Users -> Nat] /\ cookie \in [Browsers -> SessionType]
  /\ at \in [Browsers -> RequestType]
  /\ locked \in [Users \cup Roles \cup Tokens -> Browsers \cup {NoOne}]
  /\ spent \in SUBSET Tokens /\ requests \in 0 .. MaxRequests

\* A row that was never inserted is as it started.
RowsBlank == \A u \in Users : ~Exists(u) => users[u] = Absent

\* The requests that may still write a row of portal_users ...
Updating == {"lock user", "lock role", "count", "update"}
Writing  == Updating \cup {"create", "reset", "lock self", "change",
                           "lock token", "set password", "retire all"}
Writers  == {b \in Browsers : at[b].stage \in Writing}

\* ... and those that may still record a failure of u's.
Trying   == {"lock self", "audit failure"}
Triers(u) == {b \in Browsers : at[b].stage \in Trying /\ at[b].user = u}

\* Each write of a row was asked for by one request, and the throttle let at
\* most one request per browser past it.
Tallies == \A u \in Users :
  /\ users[u].pw >= 0 /\ users[u].email >= 0 /\ users[u].pwv >= 0
  /\ users[u].pw + Cardinality(Writers) <= requests
  /\ users[u].email + Cardinality(Writers) <= requests
  /\ users[u].pwv + Cardinality(Writers) <= requests
  /\ failures[u] + Cardinality(Triers(u)) <= MaxFailures + Cardinality(Browsers) - 1

\* What an identity says of its user: a later version, or this password and
\* this address.
Minted(id) ==
  /\ id.sub \in Users /\ id.role \in Roles
  /\ id.pwv <= users[id.sub].pwv
  /\ id.pwv = users[id.sub].pwv => id.under = <<users[id.sub].pw, users[id.sub].email>>

Impersonators == {"super_admin", "auditor"}

\* A cookie is nobody's, a user's, or an impersonator's viewing as a user.
CookieOK(b) == cookie[b] # NoSession =>
  /\ Minted(cookie[b].own)
  /\ Impersonating(cookie[b]) => /\ Minted(cookie[b].imp)
                                 /\ cookie[b].imp.role \in Impersonators

\* What a request has found so far, and what it holds locked for it to stay so.
HoldsUser  == {"lock role", "count", "update", "change", "retire all"}
HoldsToken == {"set password", "retire all"}
HasToken   == {"lock token", "set password", "retire all"}
OwnForm    == {"lock self", "change", "audit failure"}
Forms      == Updating \cup {"create", "reset", "lock self", "change"}

Admins == {u \in Users : users[u].role = "super_admin" /\ users[u].active}

RequestFits(b, r) ==
  /\ r.stage # "idle" => r.user \in Users
  /\ r.stage = "create" => r.form.role \in Roles
  /\ r.stage \in Updating => Exists(r.user) /\ r.form.was \in Roles /\ r.form.role \in Roles
  /\ r.stage \in {"reset", "retire", "insert token"} => Exists(r.user)
  /\ r.stage \in Forms => ~Impersonating(cookie[b])
  /\ r.stage \in OwnForm => cookie[b].own.sub = r.user
  /\ r.stage = "target" => /\ cookie[b] # NoSession /\ ~Impersonating(cookie[b])
                           /\ cookie[b].own.role \in Impersonators
  /\ r.stage \in HoldsUser => locked[r.user] = b /\ Exists(r.user)
  /\ r.stage \in {"lock role", "count", "update"} => users[r.user].role = r.form.was
  /\ r.stage \in {"count", "update"} => locked[r.form.was] = b
  /\ r.stage = "update" /\ LeavesSupers(r.form) /\ users[r.user].active => OtherSupers(r.user) # {}
  /\ r.stage = "change" => r.form.guess = users[r.user].pw
  /\ r.stage \in HasToken => /\ r.token \in Tokens /\ Exists(r.user)
                             /\ tokens[r.token].user = r.user /\ tokens[r.token].st # "unsent"
  /\ r.stage \in HoldsToken => locked[r.token] = b /\ tokens[r.token].st = "live"

\* A link that is spent, or whose user is not there, sets no password.
LinksOK ==
  /\ \A t \in spent : tokens[t].st = "dead"
  /\ \A t \in Tokens : tokens[t].st = "live" => tokens[t].user \in Users /\ Exists(tokens[t].user)

Inv ==
  /\ Types /\ RowsBlank /\ Tallies /\ LinksOK /\ Admins # {}
  /\ \A b \in Browsers : CookieOK(b) /\ RequestFits(b, at[b])

-----------------------------------------------------------------------------
(* The records the model is built from.                                    *)

LEMMA Constants ==
  /\ MaxFailures \in Nat /\ MaxFailures >= 1 /\ MaxRequests \in Nat /\ MaxRequests >= 1
  /\ IsFiniteSet(Browsers) /\ Cardinality(Browsers) \in Nat
  /\ NoOne \notin Browsers /\ NoUser \notin Users /\ NoToken \notin Tokens
  /\ GivenRoles \subseteq Roles /\ "none" \notin Roles
  /\ Casts \subseteq [Users -> Roles \cup {"none"}]
  /\ \A cast \in Casts : \E u \in Users : cast[u] = "super_admin"
  /\ \A b \in Browsers : People(b) \subseteq Users
  BY PortalAssumption, FS_CardinalityType DEF Roles

LEMMA AbsentFacts ==
  /\ Absent \in RowType /\ Absent.role = "none" /\ Absent.active = FALSE
  /\ Absent.pw = 0 /\ Absent.email = 0 /\ Absent.pwv = 0
  BY Constants DEF Absent, RowType, Versions

LEMMA RowFacts ==
  ASSUME NEW role \in Roles
  PROVE  /\ Row(role) \in RowType /\ Row(role).role = role /\ Row(role).active = TRUE
         /\ Row(role).pw = 0 /\ Row(role).email = 0 /\ Row(role).pwv = 0
  BY AbsentFacts DEF Row, RowType

LEMMA NoSessionFacts ==
  /\ NoIdentity \in Identities /\ NoSession \in SessionType
  /\ NoIdentity.sub = NoUser /\ NoIdentity.role = "none"
  /\ NoSession.own = NoIdentity /\ NoSession.imp = NoIdentity
  /\ ~Impersonating(NoSession)
  BY DEF NoIdentity, NoSession, Identities, SessionType, Impersonating

LEMMA IdleFacts ==
  /\ Idle \in RequestType /\ Idle.stage = "idle" /\ Idle.user = NoUser /\ Idle.token = NoToken
  /\ Idle.form = NoForm /\ NoForm \in FormType
  /\ NoForm.was = "none" /\ NoForm.role = "none" /\ NoForm.guess = 0
  BY Constants DEF Idle, NoForm, RequestType, FormType, Stages, Versions

LEMMA PasswordSetFacts ==
  ASSUME NEW row \in RowType, row.pw + 1 \in Versions, row.pwv + 1 \in Versions
  PROVE  /\ PasswordSet(row) \in RowType
         /\ PasswordSet(row).pw = row.pw + 1 /\ PasswordSet(row).pwv = row.pwv + 1
         /\ PasswordSet(row).email = row.email /\ PasswordSet(row).role = row.role
         /\ PasswordSet(row).active = row.active
<1> DEFINE pw == row.pw + 1
           pwv == row.pwv + 1
<1>1. PasswordSet(row) = [row EXCEPT !.pw = pw, !.pwv = pwv]
  BY DEF PasswordSet
<1>2. pw \in Versions /\ pwv \in Versions
  OBVIOUS
<1> HIDE DEF pw, pwv
<1>3. /\ PasswordSet(row) \in RowType
      /\ PasswordSet(row).pw = pw /\ PasswordSet(row).pwv = pwv
      /\ PasswordSet(row).email = row.email /\ PasswordSet(row).role = row.role
      /\ PasswordSet(row).active = row.active
  BY <1>1, <1>2 DEF RowType
<1> QED
  BY <1>3 DEF pw, pwv

LEMMA EditedFacts ==
  ASSUME NEW row \in RowType, NEW form \in FormType, form.role \in Roles,
         row.email + 1 \in Versions, row.pwv + 1 \in Versions
  PROVE  /\ Edited(row, form) \in RowType
         /\ Edited(row, form).role = form.role /\ Edited(row, form).active = form.active
         /\ Edited(row, form).pw = row.pw
         /\ \/ Edited(row, form).email = row.email /\ Edited(row, form).pwv = row.pwv
            \/ Edited(row, form).email = row.email + 1 /\ Edited(row, form).pwv = row.pwv + 1
<1> DEFINE mail == IF form.mail THEN 1 ELSE 0
           email == row.email + mail
           pwv == row.pwv + mail
<1>1. mail = 0 \/ mail = 1
  OBVIOUS
<1>2. row.email \in Versions /\ row.pwv \in Versions /\ row.email \in Int /\ row.pwv \in Int
  BY DEF RowType, Versions
<1>3. \/ email = row.email /\ pwv = row.pwv
      \/ email = row.email + 1 /\ pwv = row.pwv + 1
  BY <1>1, <1>2
<1>4. email \in Versions /\ pwv \in Versions
  BY <1>2, <1>3
<1>5. Edited(row, form) = [row EXCEPT !.role = form.role, !.active = form.active, !.email = email,
                                      !.pwv = pwv]
  BY DEF Edited
<1>6. form.active \in BOOLEAN
  BY DEF FormType
<1> HIDE DEF email, pwv, mail
<1>7. /\ Edited(row, form) \in RowType
      /\ Edited(row, form).role = form.role /\ Edited(row, form).active = form.active
      /\ Edited(row, form).pw = row.pw
      /\ Edited(row, form).email = email /\ Edited(row, form).pwv = pwv
  BY <1>4, <1>5, <1>6 DEF RowType
<1> QED
  BY <1>3, <1>7

\* A new request, as its action describes it.
LEMMA AskedFacts ==
  ASSUME NEW stage \in Stages, NEW u \in Users
  PROVE  /\ [Idle EXCEPT !.stage = stage, !.user = u] \in RequestType
         /\ [Idle EXCEPT !.stage = stage, !.user = u].stage = stage
         /\ [Idle EXCEPT !.stage = stage, !.user = u].user = u
  BY IdleFacts DEF RequestType

-----------------------------------------------------------------------------
(* Counting.                                                               *)

\* The requests that may still write, after a step of browser e.
LEMMA WritersAfter ==
  ASSUME Types, Types', NEW e, \A b \in Browsers \ {e} : at'[b] = at[b]
  PROVE  /\ Cardinality(Writers) \in Nat /\ Cardinality(Writers') \in Nat
         /\ Cardinality(Writers') <= Cardinality(Writers) + 1
         /\ (e \in Writers' => e \in Writers) => Cardinality(Writers') <= Cardinality(Writers)
         /\ e \in Writers /\ e \notin Writers' => Cardinality(Writers') <= Cardinality(Writers) - 1
<1>1. IsFiniteSet(Writers) /\ Writers \subseteq Browsers /\ Writers' \subseteq Browsers
  BY Constants, FS_Subset DEF Writers
<1>2. Writers' \subseteq Writers \cup {e}
  BY DEF Writers
<1>3. Cardinality(Writers) \in Nat
  BY <1>1, FS_CardinalityType
<1>4. IsFiniteSet(Writers \cup {e}) /\ Cardinality(Writers \cup {e}) <= Cardinality(Writers) + 1
  BY <1>1, <1>3, FS_AddElement
<1>5. IsFiniteSet(Writers') /\ Cardinality(Writers') <= Cardinality(Writers \cup {e})
  BY <1>2, <1>4, FS_Subset
<1>6. Cardinality(Writers') \in Nat /\ Cardinality(Writers \cup {e}) \in Nat
  BY <1>4, <1>5, FS_CardinalityType
<1>7. ASSUME e \in Writers' => e \in Writers PROVE Cardinality(Writers') <= Cardinality(Writers)
  <2>1. Writers' \subseteq Writers
    BY <1>2, <1>7
  <2> QED
    BY <1>1, <2>1, FS_Subset
<1>8. ASSUME e \in Writers, e \notin Writers' PROVE Cardinality(Writers') <= Cardinality(Writers) - 1
  <2>1. IsFiniteSet(Writers \ {e}) /\ Cardinality(Writers \ {e}) = Cardinality(Writers) - 1
    BY <1>1, <1>8, FS_RemoveElement
  <2>2. Writers' \subseteq Writers \ {e}
    BY <1>2, <1>8
  <2> QED
    BY <2>1, <2>2, FS_Subset
<1> QED
  BY <1>3, <1>4, <1>5, <1>6, <1>7, <1>8

\* The same, of the requests that may still record a failure of u's.
LEMMA TriersAfter ==
  ASSUME Types, Types', NEW u \in Users, NEW e, \A b \in Browsers \ {e} : at'[b] = at[b]
  PROVE  /\ Cardinality(Triers(u)) \in Nat /\ Cardinality(Triers(u)') \in Nat
         /\ Cardinality(Triers(u)') <= Cardinality(Browsers)
         /\ (e \in Triers(u)' => e \in Triers(u))
              => Cardinality(Triers(u)') <= Cardinality(Triers(u))
         /\ e \in Triers(u) /\ e \notin Triers(u)'
              => Cardinality(Triers(u)') <= Cardinality(Triers(u)) - 1
<1> DEFINE old == Triers(u)
           new == Triers(u)'
<1>1. IsFiniteSet(old) /\ old \subseteq Browsers /\ new \subseteq Browsers
  BY Constants, FS_Subset DEF Triers
<1>2. new \subseteq old \cup {e}
  BY DEF Triers
<1>3. IsFiniteSet(new) /\ Cardinality(new) <= Cardinality(Browsers)
  BY <1>1, Constants, FS_Subset
<1> HIDE DEF old, new
<1>4. Cardinality(old) \in Nat /\ Cardinality(new) \in Nat
  BY <1>1, <1>3, FS_CardinalityType
<1>5. ASSUME e \in new => e \in old PROVE Cardinality(new) <= Cardinality(old)
  <2>1. new \subseteq old
    BY <1>2, <1>5
  <2> QED
    BY <1>1, <2>1, FS_Subset
<1>6. ASSUME e \in old, e \notin new PROVE Cardinality(new) <= Cardinality(old) - 1
  <2>1. IsFiniteSet(old \ {e}) /\ Cardinality(old \ {e}) = Cardinality(old) - 1
    BY <1>1, <1>6, FS_RemoveElement
  <2>2. new \subseteq old \ {e}
    BY <1>2, <1>6
  <2> QED
    BY <2>1, <2>2, FS_Subset
<1> QED
  BY <1>3, <1>4, <1>5, <1>6 DEF old, new

-----------------------------------------------------------------------------
(* Steps.                                                                  *)

\* What a step of browser e's leaves as the other requests found it.
Frame(e) ==
  /\ \A b \in Browsers \ {e} : at'[b] = at[b] /\ cookie'[b] = cookie[b]
  /\ \A b \in Browsers \ {e} : \A x \in Users \cup Roles \cup Tokens :
       locked[x] = b => locked'[x] = b
  /\ \A u \in Users : /\ Exists(u) => users'[u].role # "none"
                      /\ users[u].pwv <= users'[u].pwv
                      /\ users[u].pwv = users'[u].pwv => /\ users[u].pw = users'[u].pw
                                                        /\ users[u].email = users'[u].email
  /\ \A u \in Users : \A b \in Browsers \ {e} :
       locked[u] = b /\ Exists(u) => users'[u] = users[u]
  /\ Admins \subseteq Admins' \/ locked["super_admin"] = e
  /\ \A t \in Tokens : tokens[t].st # "unsent" =>
       tokens'[t].st # "unsent" /\ tokens'[t].user = tokens[t].user
  /\ \A t \in Tokens : \A b \in Browsers \ {e} :
       locked[t] = b /\ at[b].token = t /\ tokens[t].st = "live" => tokens'[t].st = "live"

\* A step that leaves the rows alone has most of it.
LEMMA FrameQuiet ==
  ASSUME Inv, NEW e, UNCHANGED <<users, tokens>>,
         \A b \in Browsers \ {e} : at'[b] = at[b] /\ cookie'[b] = cookie[b],
         \A b \in Browsers \ {e} : \A x \in Users \cup Roles \cup Tokens :
           locked[x] = b => locked'[x] = b
  PROVE  Frame(e)
<1>1. \A u \in Users : users[u].pwv <= users[u].pwv
  BY DEF Inv, Types, RowType, Versions
<1> QED
  BY <1>1 DEF Frame, Exists, Admins

LEMMA MintedLater ==
  ASSUME NEW e, Frame(e), Types, Types', NEW id \in Identities, Minted(id)
  PROVE  Minted(id)'
<1>1. id.sub \in Users /\ id.role \in Roles /\ id.pwv \in Int
      /\ users[id.sub].pwv \in Int /\ users'[id.sub].pwv \in Int
  BY Constants DEF Minted, Types, RowType, Versions, Identities, NoIdentity
<1> QED
  BY <1>1 DEF Minted, Frame

LEMMA OtherCookies ==
  ASSUME Inv, Types', NEW e, Frame(e), NEW b \in Browsers \ {e}
  PROVE  CookieOK(b)'
<1>1. cookie'[b] = cookie[b] /\ CookieOK(b) /\ cookie[b] \in SessionType /\ Types
  BY DEF Inv, Types, Frame
<1>2. cookie[b].own \in Identities /\ cookie[b].imp \in Identities
  BY <1>1 DEF SessionType
<1> QED
  BY <1>1, <1>2, MintedLater DEF CookieOK

LEMMA OtherRequests ==
  ASSUME Inv, Types', NEW e, Frame(e), NEW b \in Browsers \ {e}
  PROVE  RequestFits(b, at[b])'
<1>0. at[b] \in RequestType /\ RequestFits(b, at[b])
  BY DEF Inv, Types
<1>r. PICK r \in RequestType : r = at[b]
  BY <1>0
<1>1. at'[b] = r /\ cookie'[b] = cookie[b] /\ RequestFits(b, r) /\ r \in RequestType
  BY <1>0, <1>r DEF Frame
<1>2. r.stage # "idle" => r.user \in Users
  BY <1>1 DEF RequestFits
<1>3. r.stage \in Updating => Exists(r.user)' /\ r.form.was \in Roles /\ r.form.role \in Roles
  BY <1>1, <1>2 DEF RequestFits, Updating, Frame, Exists
<1>4. r.stage \in {"reset", "retire", "insert token"} => Exists(r.user)'
  BY <1>1, <1>2 DEF RequestFits, Frame, Exists
<1>5. r.stage \in HoldsUser => locked'[r.user] = b /\ Exists(r.user)' /\ users'[r.user] = users[r.user]
  BY <1>1, <1>2 DEF RequestFits, HoldsUser, Frame, Exists
<1>6. r.stage \in {"lock role", "count", "update"} => users'[r.user].role = r.form.was
  BY <1>1, <1>5 DEF RequestFits, HoldsUser
<1>7. r.stage \in {"count", "update"} => locked'[r.form.was] = b
  BY <1>1, <1>3 DEF RequestFits, Frame, Updating
<1>8. ASSUME r.stage = "update", LeavesSupers(r.form), users'[r.user].active
      PROVE  OtherSupers(r.user)' # {}
  <2>1. OtherSupers(r.user) # {} /\ locked["super_admin"] = b
    BY <1>1, <1>5, <1>8 DEF RequestFits, HoldsUser, LeavesSupers
  <2>2. Admins \subseteq Admins'
    BY <2>1 DEF Frame
  <2> QED
    BY <2>1, <2>2 DEF OtherSupers, Admins
<1>9. r.stage = "change" => r.form.guess = users'[r.user].pw
  BY <1>1, <1>5 DEF RequestFits, HoldsUser
<1>10. r.stage \in HasToken => /\ r.token \in Tokens /\ Exists(r.user)'
                               /\ tokens'[r.token].user = r.user /\ tokens'[r.token].st # "unsent"
  BY <1>1, <1>2 DEF RequestFits, HasToken, Frame, Exists
<1>11. r.stage \in HoldsToken => locked'[r.token] = b /\ tokens'[r.token].st = "live"
  BY <1>1, <1>10 DEF RequestFits, HoldsToken, HasToken, Frame
<1>12. /\ r.stage = "create" => r.form.role \in Roles
       /\ r.stage \in Forms => ~Impersonating(cookie'[b])
       /\ r.stage \in OwnForm => cookie'[b].own.sub = r.user
       /\ r.stage = "target" => /\ cookie'[b] # NoSession /\ ~Impersonating(cookie'[b])
                                /\ cookie'[b].own.role \in Impersonators
  BY <1>1 DEF RequestFits
<1>13. RequestFits(b, r)'
  BY <1>2, <1>3, <1>4, <1>5, <1>6, <1>7, <1>8, <1>9, <1>10, <1>11, <1>12 DEF RequestFits
<1> QED
  BY <1>1, <1>13

\* The parts of the invariant a step of e's has to be shown to keep.
LEMMA StepKeeps ==
  ASSUME Inv, Types', NEW e, Frame(e), RowsBlank', Tallies', LinksOK', Admins' # {},
         e \in Browsers => CookieOK(e)' /\ RequestFits(e, at[e])'
  PROVE  Inv'
<1>1. \A b \in Browsers : CookieOK(b)' /\ RequestFits(b, at[b])'
  BY OtherCookies, OtherRequests
<1> QED
  BY <1>1 DEF Inv

\* A step that begins, moves on or ends a request, and writes no row.
LEMMA QuietStep ==
  ASSUME Inv, NEW e \in Browsers, NEW r \in RequestType,
         UNCHANGED <<users, tokens, failures, cookie, spent>>,
         at' = [at EXCEPT ![e] = r],
         locked' \in [Users \cup Roles \cup Tokens -> Browsers \cup {NoOne}],
         \A b \in Browsers \ {e} : \A x \in Users \cup Roles \cup Tokens :
           locked[x] = b => locked'[x] = b,
         requests' \in 0 .. MaxRequests, requests' >= requests,
         r.stage \in Writing => at[e].stage \in Writing \/ requests' = requests + 1,
         r.stage \in Trying => \/ at[e].stage \in Trying /\ r.user = at[e].user
                               \/ failures[r.user] < MaxFailures,
         RequestFits(e, r)'
  PROVE  Inv'
<1>t. Types /\ Tallies
  BY DEF Inv
<1>1. Types'
  BY <1>t DEF Types
<1>2. at'[e] = r /\ \A b \in Browsers \ {e} : at'[b] = at[b]
  BY <1>t DEF Types
<1>3. Frame(e)
  BY <1>2, FrameQuiet
<1>4. RowsBlank' /\ LinksOK' /\ Admins' # {}
  BY DEF Inv, RowsBlank, LinksOK, Admins, Exists
<1>5. Tallies'
  <2> SUFFICES ASSUME NEW u \in Users
               PROVE  /\ users[u].pw + Cardinality(Writers') <= requests'
                      /\ users[u].email + Cardinality(Writers') <= requests'
                      /\ users[u].pwv + Cardinality(Writers') <= requests'
                      /\ failures[u] + Cardinality(Triers(u)') <= MaxFailures + Cardinality(Browsers) - 1
    BY <1>t DEF Tallies
  <2>1. /\ users[u].pw \in Int /\ users[u].email \in Int /\ users[u].pwv \in Int
        /\ failures[u] \in Nat /\ requests \in Int /\ requests' \in Int
    BY <1>t DEF Types, RowType, Versions
  <2>2. e \in Writers' => e \in Writers \/ requests' = requests + 1
    BY <1>2 DEF Writers
  <2>3. Cardinality(Writers') \in Nat /\ Cardinality(Writers) \in Nat
        /\ Cardinality(Writers') <= Cardinality(Writers) + (requests' - requests)
    BY <1>t, <1>1, <1>2, <2>1, <2>2, WritersAfter
  <2>4. CASE e \in Triers(u)' => e \in Triers(u)
    <3>1. Cardinality(Triers(u)') \in Nat /\ Cardinality(Triers(u)) \in Nat
          /\ Cardinality(Triers(u)') <= Cardinality(Triers(u))
      BY <1>t, <1>1, <1>2, <2>4, TriersAfter
    <3> QED
      BY <1>t, <2>1, <2>3, <3>1, Constants DEF Tallies
  <2>5. CASE ~(e \in Triers(u)' => e \in Triers(u))
    <3>1. r.stage \in Trying /\ r.user = u /\ ~(at[e].stage \in Trying /\ r.user = at[e].user)
      BY <1>2, <2>5 DEF Triers
    <3>2. failures[u] < MaxFailures
      BY <3>1
    <3>3. Cardinality(Triers(u)') \in Nat /\ Cardinality(Triers(u)') <= Cardinality(Browsers)
      BY <1>t, <1>1, <1>2, TriersAfter
    <3> QED
      BY <1>t, <2>1, <2>3, <3>2, <3>3, Constants DEF Tallies
  <2> QED
    BY <2>4, <2>5
<1>6. CookieOK(e)'
  BY DEF Inv, CookieOK, Minted
<1> QED
  BY <1>1, <1>2, <1>3, <1>4, <1>5, <1>6, StepKeeps

-----------------------------------------------------------------------------
(* Steps that write no row.                                                *)

\* A step that leaves the rows, the cookies and the locks alone.
LEMMA StillFits ==
  ASSUME NEW b, NEW r, RequestFits(b, r), UNCHANGED <<users, tokens, cookie, locked>>
  PROVE  RequestFits(b, r)'
<1>1. OtherSupers(r.user)' = OtherSupers(r.user) /\ Exists(r.user)' = Exists(r.user)
  BY DEF OtherSupers, Exists
<1>2. /\ users'[r.user] = users[r.user] /\ tokens'[r.token] = tokens[r.token]
      /\ cookie'[b] = cookie[b] /\ locked' = locked
  OBVIOUS
<1>3. /\ r.stage # "idle" => r.user \in Users
      /\ r.stage = "create" => r.form.role \in Roles
      /\ r.stage \in Updating => Exists(r.user)' /\ r.form.was \in Roles /\ r.form.role \in Roles
      /\ r.stage \in {"reset", "retire", "insert token"} => Exists(r.user)'
  BY <1>1 DEF RequestFits
<1>4. /\ r.stage \in Forms => ~Impersonating(cookie'[b])
      /\ r.stage \in OwnForm => cookie'[b].own.sub = r.user
      /\ r.stage = "target" => /\ cookie'[b] # NoSession /\ ~Impersonating(cookie'[b])
                               /\ cookie'[b].own.role \in Impersonators
  BY <1>2 DEF RequestFits
<1>5. /\ r.stage \in HoldsUser => locked'[r.user] = b /\ Exists(r.user)'
      /\ r.stage \in {"lock role", "count", "update"} => users'[r.user].role = r.form.was
      /\ r.stage \in {"count", "update"} => locked'[r.form.was] = b
  BY <1>1, <1>2 DEF RequestFits
<1>6. /\ r.stage = "update" /\ LeavesSupers(r.form) /\ users'[r.user].active
           => OtherSupers(r.user)' # {}
      /\ r.stage = "change" => r.form.guess = users'[r.user].pw
  BY <1>1, <1>2 DEF RequestFits
<1>7. /\ r.stage \in HasToken => /\ r.token \in Tokens /\ Exists(r.user)'
                                 /\ tokens'[r.token].user = r.user /\ tokens'[r.token].st # "unsent"
      /\ r.stage \in HoldsToken => locked'[r.token] = b /\ tokens'[r.token].st = "live"
  BY <1>1, <1>2 DEF RequestFits
<1> QED
  BY <1>3, <1>4, <1>5, <1>6, <1>7 DEF RequestFits

LEMMA BeginStep ==
  ASSUME Inv, NEW e \in Browsers, NEW r \in RequestType, Begin(e, r), RequestFits(e, r),
         r.stage \in Trying => failures[r.user] < MaxFailures
  PROVE  Inv'
<1>1. Types /\ requests \in 0 .. MaxRequests
  BY DEF Inv, Types
<1>2. requests' \in 0 .. MaxRequests /\ requests' >= requests
  BY <1>1, Constants DEF Begin, More
<1>3. RequestFits(e, r)'
  BY StillFits DEF Begin
<1> QED
  BY <1>1, <1>2, <1>3, QuietStep DEF Begin, Types

\* What may become of the locks.
LEMMA ReleasedFacts ==
  ASSUME Types, NEW e \in Browsers
  PROVE  /\ Released(e) \in [Users \cup Roles \cup Tokens -> Browsers \cup {NoOne}]
         /\ \A b \in Browsers \ {e} : \A x \in Users \cup Roles \cup Tokens :
              locked[x] = b => Released(e)[x] = b
  BY Constants DEF Types, Released

LEMMA LockingFacts ==
  ASSUME Types, NEW e \in Browsers, Blockers(e) = {}, NEW rows, rows \subseteq Needs(e)
  PROVE  /\ Locking(e, rows) \in [Users \cup Roles \cup Tokens -> Browsers \cup {NoOne}]
         /\ \A b \in Browsers \ {e} : \A x \in Users \cup Roles \cup Tokens :
              locked[x] = b => Locking(e, rows)[x] = b
         /\ \A x \in Users \cup Roles \cup Tokens :
              x \in rows \/ locked[x] = e => Locking(e, rows)[x] = e
<1>1. \A x \in rows : locked[x] \in {NoOne, e}
  BY DEF Blockers
<1> QED
  BY <1>1, Constants DEF Types, Locking

LEMMA EndStep ==
  ASSUME Inv, NEW e \in Browsers, Finish(e), locked' = locked \/ locked' = Released(e),
         UNCHANGED <<users, tokens, failures, cookie, spent, requests>>
  PROVE  Inv'
<1>1. Types /\ requests' \in 0 .. MaxRequests /\ requests' >= requests
  BY DEF Inv, Types
<1>2. RequestFits(e, Idle)'
  BY IdleFacts DEF RequestFits, Updating, Forms, OwnForm, HoldsUser, HasToken, HoldsToken
<1>3. Idle \in RequestType /\ Idle.stage \notin Writing /\ Idle.stage \notin Trying
  BY IdleFacts DEF Writing, Updating, Trying
<1>4. /\ locked' \in [Users \cup Roles \cup Tokens -> Browsers \cup {NoOne}]
      /\ \A b \in Browsers \ {e} : \A x \in Users \cup Roles \cup Tokens :
           locked[x] = b => locked'[x] = b
  BY <1>1, ReleasedFacts DEF Types
<1> QED
  BY <1>1, <1>2, <1>3, <1>4, QuietStep DEF Finish

LEMMA GiveUpStep ==
  ASSUME Inv, NEW e \in Browsers, GiveUp(e)
  PROVE  Inv'
  BY EndStep DEF GiveUp

\* The request of e, with another stage.
Moved(e, stage) == [at[e] EXCEPT !.stage = stage]

LEMMA GotoFacts ==
  ASSUME Types, NEW e \in Browsers, NEW stage \in Stages
  PROVE  /\ [at EXCEPT ![e].stage = stage] = [at EXCEPT ![e] = Moved(e, stage)]
         /\ Moved(e, stage) \in RequestType /\ Moved(e, stage).stage = stage
         /\ Moved(e, stage).user = at[e].user /\ Moved(e, stage).token = at[e].token
         /\ Moved(e, stage).form = at[e].form
<1>1. at[e] \in RequestType
  BY DEF Types
<1> QED
  BY <1>1 DEF Types, RequestType, Moved

\* A request that goes on, with rows locked for it.
LEMMA GotoStep ==
  ASSUME Inv, NEW e \in Browsers, NEW stage \in Stages, Goto(e, stage),
         NEW rows, rows \subseteq Needs(e), Blockers(e) = {}, locked' = Locking(e, rows),
         UNCHANGED <<users, tokens, failures, cookie, spent, requests>>,
         stage \in Writing => at[e].stage \in Writing,
         stage \in Trying => at[e].stage \in Trying,
         \A r \in RequestType :
           r.stage = stage /\ r.user = at[e].user /\ r.token = at[e].token /\ r.form = at[e].form
             => RequestFits(e, r)'
  PROVE  Inv'
<1>1. Types /\ requests' \in 0 .. MaxRequests /\ requests' >= requests
  BY DEF Inv, Types
<1>2. PICK r \in RequestType : r = Moved(e, stage)
  BY <1>1, GotoFacts
<1>3. at' = [at EXCEPT ![e] = r] /\ r.stage = stage /\ r.user = at[e].user
      /\ r.token = at[e].token /\ r.form = at[e].form
  BY <1>1, <1>2, GotoFacts DEF Goto
<1>4. RequestFits(e, r)'
  BY <1>3
<1>5. /\ locked' \in [Users \cup Roles \cup Tokens -> Browsers \cup {NoOne}]
      /\ \A b \in Browsers \ {e} : \A x \in Users \cup Roles \cup Tokens :
           locked[x] = b => locked'[x] = b
  <2>1. Types
    BY <1>1
  <2>2. /\ Locking(e, rows) \in [Users \cup Roles \cup Tokens -> Browsers \cup {NoOne}]
        /\ \A b \in Browsers \ {e} : \A x \in Users \cup Roles \cup Tokens :
             locked[x] = b => Locking(e, rows)[x] = b
    BY ONLY Types, e \in Browsers, Blockers(e) = {}, rows \subseteq Needs(e), LockingFacts
  <2>3. locked' = Locking(e, rows)
    OBVIOUS
  <2> QED
    BY ONLY <2>2, <2>3
<1>6. r.stage \in Writing => at[e].stage \in Writing \/ requests' = requests + 1
  BY <1>3
<1>7. r.stage \in Trying => \/ at[e].stage \in Trying /\ r.user = at[e].user
                            \/ failures[r.user] < MaxFailures
  BY <1>3
<1> QED
  BY <1>1, <1>3, <1>4, <1>5, <1>6, <1>7, QuietStep

LEMMA AdmittedFacts ==
  ASSUME Inv, NEW b \in Browsers, NEW route, Admitted(b, route), route \notin Public
  PROVE  /\ ~Impersonating(cookie[b]) /\ cookie[b] # NoSession
         /\ cookie[b].own.sub \in Users /\ cookie[b].own.role \in Roles
         /\ Exists(cookie[b].own.sub)
<1>1. cookie[b] # NoSession /\ ~Impersonating(cookie[b]) /\ users[cookie[b].own.sub].active
  BY DEF Admitted, Accepted, UserStillValid, Passes
<1>2. cookie[b].own.sub \in Users /\ cookie[b].own.role \in Roles
  BY <1>1 DEF Inv, CookieOK, Minted
<1>3. Exists(cookie[b].own.sub)
  BY <1>1, <1>2, AbsentFacts DEF Inv, RowsBlank
<1> QED
  BY <1>1, <1>2, <1>3

LEMMA ImpersonatorRoles ==
  ASSUME NEW role \in Roles, "portal_users.impersonate" \in PermsOf[role]
  PROVE  role \in Impersonators
  BY DEF Roles, PermsOf, ClientPerms, ViewerPerms, Impersonators

LEMMA LoginStep ==
  ASSUME Inv, NEW b \in Browsers, Login(b)
  PROVE  Inv'
<1>1. PICK u \in Users : Begin(b, [Idle EXCEPT !.stage = "claims", !.user = u])
  BY Constants DEF Login
<1>2. PICK r \in RequestType : r = [Idle EXCEPT !.stage = "claims", !.user = u]
  BY AskedFacts DEF Stages
<1>3. r.stage = "claims" /\ r.user = u
  BY <1>2, IdleFacts DEF RequestType
<1>4. RequestFits(b, r)
  BY <1>3 DEF RequestFits, Updating, Forms, OwnForm, HoldsUser, HasToken, HoldsToken
<1> QED
  BY <1>1, <1>2, <1>3, <1>4, BeginStep DEF Trying

LEMMA ImpersonateStep ==
  ASSUME Inv, NEW b \in Browsers, Impersonate(b)
  PROVE  Inv'
<1>1. PICK u \in Users : Begin(b, [Idle EXCEPT !.stage = "target", !.user = u])
  BY DEF Impersonate
<1>2. PICK r \in RequestType : r = [Idle EXCEPT !.stage = "target", !.user = u]
  BY AskedFacts DEF Stages
<1>3. r.stage = "target" /\ r.user = u
  BY <1>2, IdleFacts DEF RequestType
<1>4. cookie[b].own.role \in Impersonators /\ cookie[b] # NoSession /\ ~Impersonating(cookie[b])
  <2>1. cookie[b].own.role \in Roles /\ cookie[b] # NoSession /\ ~Impersonating(cookie[b])
    BY AdmittedFacts DEF Impersonate, Public
  <2> QED
    BY <2>1, ImpersonatorRoles DEF Impersonate, PermsIn
<1>5. RequestFits(b, r)
  BY <1>3, <1>4 DEF RequestFits, Updating, Forms, OwnForm, HoldsUser, HasToken, HoldsToken
<1> QED
  BY <1>1, <1>2, <1>3, <1>5, BeginStep DEF Trying

LEMMA StopImpersonatingStep ==
  ASSUME Inv, NEW b \in Browsers, StopImpersonating(b)
  PROVE  Inv'
<1>1. PICK u \in Users : Begin(b, [Idle EXCEPT !.stage = "claims", !.user = u])
  BY DEF StopImpersonating, Accepted, Inv, CookieOK, Minted
<1>2. PICK r \in RequestType : r = [Idle EXCEPT !.stage = "claims", !.user = u]
  BY AskedFacts DEF Stages
<1>3. r.stage = "claims" /\ r.user = u
  BY <1>2, IdleFacts DEF RequestType
<1>4. RequestFits(b, r)
  BY <1>3 DEF RequestFits, Updating, Forms, OwnForm, HoldsUser, HasToken, HoldsToken
<1> QED
  BY <1>1, <1>2, <1>3, <1>4, BeginStep DEF Trying

LEMMA StartCreateStep ==
  ASSUME Inv, NEW b \in Browsers, StartCreate(b)
  PROVE  Inv'
<1>1. PICK u \in Users, role \in Roles :
        Begin(b, [Idle EXCEPT !.stage = "create", !.user = u, !.form.role = role])
  BY Constants DEF StartCreate
<1>2. PICK r \in RequestType : r = [Idle EXCEPT !.stage = "create", !.user = u, !.form.role = role]
  BY IdleFacts DEF RequestType, FormType, Stages
<1>3. r.stage = "create" /\ r.user = u /\ r.form.role = role
  BY <1>2, IdleFacts DEF RequestType, FormType
<1>4. ~Impersonating(cookie[b])
  BY AdmittedFacts DEF StartCreate, Manages, Public
<1>5. RequestFits(b, r)
  BY <1>3, <1>4 DEF RequestFits, Updating, Forms, OwnForm, HoldsUser, HasToken, HoldsToken
<1> QED
  BY <1>1, <1>2, <1>3, <1>5, BeginStep DEF Trying

\* An administrator's form about a user, and a client's about a viewer.
LEMMA AskUpdateStep ==
  ASSUME Inv, NEW b \in Browsers, NEW u \in Users, NEW form \in Edits(u), Exists(u),
         Begin(b, [Idle EXCEPT !.stage = "lock user", !.user = u, !.form = form]),
         ~Impersonating(cookie[b])
  PROVE  Inv'
<1>1. users[u] \in RowType /\ users[u].role \in Roles
  BY DEF Inv, Types, RowType, Exists
<1>2. form \in FormType /\ form.role \in Roles /\ form.was \in Roles
  <2> DEFINE same == [NoForm EXCEPT !.was = users[u].role, !.role = users[u].role,
                                    !.active = users[u].active]
  <2>1. same \in FormType /\ same.was \in Roles /\ same.role \in Roles
    BY <1>1, IdleFacts DEF FormType, RowType
  <2>2. form \in {[same EXCEPT !.role = r] : r \in GivenRoles \ {users[u].role}}
                   \cup {[same EXCEPT !.active = ~@], [same EXCEPT !.mail = TRUE]}
    BY DEF Edits
  <2> HIDE DEF same
  <2>3. CASE \E r \in GivenRoles : form = [same EXCEPT !.role = r]
    BY <2>1, <2>3, Constants DEF FormType
  <2>4. CASE form = [same EXCEPT !.active = ~@]
    <3>1. (~same.active) \in BOOLEAN
      OBVIOUS
    <3> QED
      BY <2>1, <2>4, <3>1 DEF FormType
  <2>5. CASE form = [same EXCEPT !.mail = TRUE]
    BY <2>1, <2>5 DEF FormType
  <2> QED
    BY <2>2, <2>3, <2>4, <2>5
<1>3. PICK r \in RequestType : r = [Idle EXCEPT !.stage = "lock user", !.user = u, !.form = form]
  BY <1>2, IdleFacts DEF RequestType, Stages
<1>4. r.stage = "lock user" /\ r.user = u /\ r.form = form
  BY <1>3, IdleFacts DEF RequestType
<1>5. RequestFits(b, r)
  BY <1>2, <1>4 DEF RequestFits, Updating, Forms, OwnForm, HoldsUser, HasToken, HoldsToken
<1> QED
  BY <1>3, <1>4, <1>5, BeginStep DEF Trying

LEMMA StartUpdateStep ==
  ASSUME Inv, NEW b \in Browsers, StartUpdate(b)
  PROVE  Inv'
<1>1. PICK u \in Users : \E form \in Edits(u) :
        /\ Begin(b, [Idle EXCEPT !.stage = "lock user", !.user = u, !.form = form])
        /\ Exists(u)
  BY DEF StartUpdate
<1>2. PICK form \in Edits(u) :
        /\ Begin(b, [Idle EXCEPT !.stage = "lock user", !.user = u, !.form = form])
        /\ Exists(u)
  BY <1>1
<1>3. ~Impersonating(cookie[b])
  BY AdmittedFacts DEF StartUpdate, Manages, Public
<1> QED
  BY <1>2, <1>3, AskUpdateStep

LEMMA StartViewerUpdateStep ==
  ASSUME Inv, NEW b \in Browsers, StartViewerUpdate(b)
  PROVE  Inv'
<1>1. PICK u \in Viewers(b) : \E form \in Edits(u) :
        Begin(b, [Idle EXCEPT !.stage = "lock user", !.user = u, !.form = form])
  BY DEF StartViewerUpdate
<1>2. PICK form \in Edits(u) :
        Begin(b, [Idle EXCEPT !.stage = "lock user", !.user = u, !.form = form])
  BY <1>1
<1>3. u \in Users /\ Exists(u)
  BY DEF Viewers, Exists
<1>4. ~Impersonating(cookie[b])
  BY AdmittedFacts DEF StartViewerUpdate, ManagesViewers, Public
<1> QED
  BY <1>2, <1>3, <1>4, AskUpdateStep

\* The same of a reset.
LEMMA AskResetStep ==
  ASSUME Inv, NEW b \in Browsers, NEW u \in Users, Exists(u),
         Begin(b, [Idle EXCEPT !.stage = "reset", !.user = u]),
         ~Impersonating(cookie[b])
  PROVE  Inv'
<1>1. PICK r \in RequestType : r = [Idle EXCEPT !.stage = "reset", !.user = u]
  BY AskedFacts DEF Stages
<1>2. r.stage = "reset" /\ r.user = u
  BY <1>1, IdleFacts DEF RequestType
<1>3. RequestFits(b, r)
  BY <1>2 DEF RequestFits, Updating, Forms, OwnForm, HoldsUser, HasToken, HoldsToken
<1> QED
  BY <1>1, <1>2, <1>3, BeginStep DEF Trying

LEMMA StartResetStep ==
  ASSUME Inv, NEW b \in Browsers, StartReset(b)
  PROVE  Inv'
<1>1. PICK u \in Users : Begin(b, [Idle EXCEPT !.stage = "reset", !.user = u]) /\ Exists(u)
  BY DEF StartReset
<1>2. ~Impersonating(cookie[b])
  BY AdmittedFacts DEF StartReset, Manages, Public
<1> QED
  BY <1>1, <1>2, AskResetStep

LEMMA StartViewerResetStep ==
  ASSUME Inv, NEW b \in Browsers, StartViewerReset(b)
  PROVE  Inv'
<1>1. PICK u \in Viewers(b) : Begin(b, [Idle EXCEPT !.stage = "reset", !.user = u])
  BY DEF StartViewerReset
<1>2. u \in Users /\ Exists(u)
  BY DEF Viewers, Exists
<1>3. ~Impersonating(cookie[b])
  BY AdmittedFacts DEF StartViewerReset, ManagesViewers, Public
<1> QED
  BY <1>1, <1>2, <1>3, AskResetStep

LEMMA StartChangeStep ==
  ASSUME Inv, NEW b \in Browsers, StartChange(b)
  PROVE  Inv'
<1> DEFINE u == cookie[b].own.sub
<1>1. ~Impersonating(cookie[b]) /\ u \in Users /\ failures[u] < MaxFailures
  BY AdmittedFacts DEF StartChange, Public
<1>2. PICK g \in Versions : Begin(b, [Idle EXCEPT !.stage = "lock self", !.user = u, !.form.guess = g])
  <2>1. users[u].pw \in Versions /\ -1 \in Versions
    BY <1>1, Constants DEF Inv, Types, RowType, Versions
  <2> QED
    BY <2>1 DEF StartChange
<1>3. PICK r \in RequestType : r = [Idle EXCEPT !.stage = "lock self", !.user = u, !.form.guess = g]
  BY <1>1, IdleFacts DEF RequestType, FormType, Stages
<1>4. r.stage = "lock self" /\ r.user = u
  BY <1>3, IdleFacts DEF RequestType
<1>5. RequestFits(b, r)
  BY <1>1, <1>4 DEF RequestFits, Updating, Forms, OwnForm, HoldsUser, HasToken, HoldsToken
<1> QED
  BY <1>1, <1>2, <1>3, <1>4, <1>5, BeginStep

LEMMA StartForgotStep ==
  ASSUME Inv, NEW b \in Browsers, StartForgot(b)
  PROVE  Inv'
<1>1. PICK u \in Users : Begin(b, [Idle EXCEPT !.stage = "retire", !.user = u]) /\ users[u].active
  BY DEF StartForgot
<1>2. Exists(u)
  BY <1>1, AbsentFacts DEF Inv, RowsBlank
<1>3. PICK r \in RequestType : r = [Idle EXCEPT !.stage = "retire", !.user = u]
  BY AskedFacts DEF Stages
<1>4. r.stage = "retire" /\ r.user = u
  BY <1>3, AskedFacts DEF Stages
<1>5. RequestFits(b, r)
  BY <1>2, <1>4 DEF RequestFits, Updating, Forms, OwnForm, HoldsUser, HasToken, HoldsToken
<1> QED
  BY <1>1, <1>3, <1>4, <1>5, BeginStep DEF Trying

LEMMA StartLinkStep ==
  ASSUME Inv, NEW b \in Browsers, StartLink(b)
  PROVE  Inv'
<1>1. PICK t \in Tokens :
        /\ tokens[t].st = "live"
        /\ Begin(b, [Idle EXCEPT !.stage = "lock token", !.user = tokens[t].user, !.token = t])
  BY DEF StartLink
<1>2. tokens[t].user \in Users /\ Exists(tokens[t].user)
  BY <1>1 DEF Inv, LinksOK
<1>3. PICK r \in RequestType :
        r = [Idle EXCEPT !.stage = "lock token", !.user = tokens[t].user, !.token = t]
  BY <1>2, IdleFacts DEF RequestType, Stages
<1>4. r.stage = "lock token" /\ r.user = tokens[t].user /\ r.token = t
  BY <1>3, IdleFacts DEF RequestType
<1>5. RequestFits(b, r)
  BY <1>1, <1>2, <1>4 DEF RequestFits, Updating, Forms, OwnForm, HoldsUser, HasToken, HoldsToken
<1> QED
  BY <1>1, <1>3, <1>4, <1>5, BeginStep DEF Trying

-----------------------------------------------------------------------------
(* Requests that go on without writing.                                    *)

LEMMA LockUserStep ==
  ASSUME Inv, NEW b \in Browsers, LockUser(b)
  PROVE  Inv'
<1>0. CASE GiveUp(b)
  BY <1>0, GiveUpStep
<1>1. CASE ~GiveUp(b)
  <2> DEFINE next == "lock role"
             rows == {at[b].user}
  <2>1. /\ at[b].stage = "lock user" /\ users[at[b].user].role = at[b].form.was
        /\ UNCHANGED <<users, tokens, failures, cookie, spent, requests>>
    BY <1>1 DEF LockUser, MayRun
  <2>2. Goto(b, next) /\ Blockers(b) = {} /\ locked' = Locking(b, rows)
    BY <1>1 DEF LockUser, MayRun
  <2>3. RequestFits(b, at[b]) /\ Types
    BY DEF Inv
  <2>4. rows \subseteq Needs(b) /\ at[b].user \in Users /\ at[b].user \in rows
    BY <2>1, <2>3 DEF Needs, RequestFits
  <2>5. next \in Stages /\ next \notin Trying /\ at[b].stage \in Writing
    BY <2>1 DEF Stages, Writing, Updating, Trying
  <2> HIDE DEF next, rows
  <2>6. Locking(b, rows)[at[b].user] = b
    BY <2>2, <2>3, <2>4, LockingFacts
  <2>7. ASSUME NEW r \in RequestType, r.stage = next, r.user = at[b].user,
               r.token = at[b].token, r.form = at[b].form
        PROVE  RequestFits(b, r)'
    BY <2>1, <2>2, <2>3, <2>6, <2>7
       DEF next, rows, RequestFits, Updating, Forms, OwnForm, HoldsUser, HasToken, HoldsToken, Exists
  <2>8. UNCHANGED <<users, tokens, failures, cookie, spent, requests>>
    BY <2>1
  <2> QED
    BY <2>2, <2>4, <2>5, <2>7, <2>8, GotoStep
<1> QED
  BY <1>0, <1>1

LEMMA LockRoleStep ==
  ASSUME Inv, NEW b \in Browsers, LockRole(b)
  PROVE  Inv'
<1>0. CASE GiveUp(b)
  BY <1>0, GiveUpStep
<1>1. CASE ~GiveUp(b)
  <2> DEFINE next == IF LeavesSupers(at[b].form) /\ users[at[b].user].active THEN "count" ELSE "update"
             rows == RoleRow(b)
  <2>1. /\ at[b].stage = "lock role"
        /\ UNCHANGED <<users, tokens, failures, cookie, spent, requests>>
    BY <1>1 DEF LockRole, MayRun
  <2>2. Goto(b, next) /\ Blockers(b) = {} /\ locked' = Locking(b, rows)
    BY <1>1 DEF LockRole, MayRun
  <2>3. RequestFits(b, at[b]) /\ Types
    BY DEF Inv
  <2>4. rows \subseteq Needs(b) /\ at[b].form.was \in rows
    BY <2>1 DEF Needs, RoleRow
  <2>5. /\ at[b].user \in Users /\ at[b].form.was \in Roles /\ at[b].form.role \in Roles
        /\ locked[at[b].user] = b
        /\ Exists(at[b].user) /\ users[at[b].user].role = at[b].form.was
        /\ ~Impersonating(cookie[b])
    BY <2>1, <2>3 DEF RequestFits, Updating, HoldsUser, Forms
  <2>6. Locking(b, rows)[at[b].user] = b /\ Locking(b, rows)[at[b].form.was] = b
    BY <2>2, <2>3, <2>4, <2>5, LockingFacts
  <2>7. next \in {"count", "update"}
        /\ (next = "update" => ~(LeavesSupers(at[b].form) /\ users[at[b].user].active))
    OBVIOUS
  <2> HIDE DEF next, rows
  <2>8. ASSUME NEW r \in RequestType, r.stage = next, r.user = at[b].user,
               r.token = at[b].token, r.form = at[b].form
        PROVE  RequestFits(b, r)'
    BY <2>1, <2>2, <2>3, <2>5, <2>6, <2>7, <2>8
       DEF RequestFits, Updating, Forms, OwnForm, HoldsUser, HasToken, HoldsToken, Exists
  <2>9. next \in Stages /\ next \notin Trying /\ at[b].stage \in Writing
    BY <2>1, <2>7 DEF Stages, Writing, Updating, Trying
  <2>10. UNCHANGED <<users, tokens, failures, cookie, spent, requests>>
    BY <2>1
  <2> QED
    BY <2>2, <2>4, <2>8, <2>9, <2>10, GotoStep
<1> QED
  BY <1>0, <1>1

LEMMA CountSupersStep ==
  ASSUME Inv, NEW b \in Browsers, CountSupers(b)
  PROVE  Inv'
<1>0. CASE GiveUp(b)
  BY <1>0, GiveUpStep
<1>1. CASE ~GiveUp(b)
  <2> DEFINE next == "update"
  <2>1. /\ at[b].stage = "count" /\ OtherSupers(at[b].user) # {}
        /\ UNCHANGED <<users, tokens, failures, cookie, locked, spent, requests>>
    BY <1>1 DEF CountSupers
  <2>2. Goto(b, next)
    BY <1>1 DEF CountSupers
  <2>3. RequestFits(b, at[b]) /\ Types
    BY DEF Inv
  <2>4. Needs(b) = {} /\ Blockers(b) = {} /\ locked' = Locking(b, {})
    BY <2>1, <2>3 DEF Needs, Blockers, Locking, Types
  <2>5. next \in Stages /\ next \notin Trying /\ at[b].stage \in Writing
    BY <2>1 DEF Stages, Writing, Updating, Trying
  <2>6. ASSUME NEW r \in RequestType, r.stage = next, r.user = at[b].user,
               r.token = at[b].token, r.form = at[b].form
        PROVE  RequestFits(b, r)'
    BY <2>1, <2>3, <2>6
       DEF RequestFits, Updating, Forms, OwnForm, HoldsUser, HasToken, HoldsToken, Exists, OtherSupers
  <2> HIDE DEF next
  <2>7. UNCHANGED <<users, tokens, failures, cookie, spent, requests>>
    BY <2>1
  <2> QED
    BY <2>2, <2>4, <2>5, <2>6, <2>7, GotoStep
<1> QED
  BY <1>0, <1>1

LEMMA LockSelfStep ==
  ASSUME Inv, NEW b \in Browsers, LockSelf(b)
  PROVE  Inv'
<1>1. at[b].stage = "lock self"
  BY DEF LockSelf, MayRun
<1>2. Blockers(b) = {} /\ UNCHANGED <<users, tokens, failures, cookie, spent, requests>>
  BY DEF LockSelf, MayRun
<1>3. RequestFits(b, at[b]) /\ Types /\ RowsBlank
  BY DEF Inv
<1>4. at[b].user \in Users /\ at[b].stage \in Writing /\ at[b].stage \in Trying
  BY <1>1, <1>3 DEF RequestFits, Writing, Trying
<1>5. CASE users[at[b].user].active /\ at[b].form.guess = users[at[b].user].pw
  <2> DEFINE next == "change"
             rows == {at[b].user}
  <2>1. Goto(b, next) /\ locked' = Locking(b, rows)
    BY <1>5 DEF LockSelf
  <2>2. Exists(at[b].user)
    BY <1>3, <1>4, <1>5, AbsentFacts DEF RowsBlank
  <2>3. rows \subseteq Needs(b) /\ at[b].user \in rows
    BY <1>1 DEF Needs
  <2>4. Locking(b, rows)[at[b].user] = b
    BY <1>2, <1>3, <1>4, <2>3, LockingFacts
  <2>5. next \in Stages /\ next \notin Trying
    BY DEF Stages, Trying
  <2>6. ASSUME NEW r \in RequestType, r.stage = next, r.user = at[b].user,
               r.token = at[b].token, r.form = at[b].form
        PROVE  RequestFits(b, r)'
    BY <1>1, <1>2, <1>3, <1>4, <1>5, <2>1, <2>2, <2>4, <2>6
       DEF RequestFits, Updating, Forms, OwnForm, HoldsUser, HasToken, HoldsToken, Exists
  <2> HIDE DEF next, rows
  <2> QED
    BY <1>2, <1>4, <2>1, <2>3, <2>5, <2>6, GotoStep
<1>6. CASE ~(users[at[b].user].active /\ at[b].form.guess = users[at[b].user].pw)
  <2> DEFINE next == "audit failure"
  <2>1. Goto(b, next) /\ locked' = locked
    BY <1>6 DEF LockSelf
  <2>2. locked' = Locking(b, {})
    BY <1>3, <2>1 DEF Locking, Types
  <2>3. next \in Stages /\ next \notin Writing
    BY DEF Stages, Writing, Updating
  <2>4. ASSUME NEW r \in RequestType, r.stage = next, r.user = at[b].user,
               r.token = at[b].token, r.form = at[b].form
        PROVE  RequestFits(b, r)'
    BY <1>1, <1>2, <1>3, <1>4, <2>1, <2>4
       DEF RequestFits, Updating, Forms, OwnForm, HoldsUser, HasToken, HoldsToken, Exists
  <2> HIDE DEF next
  <2> QED
    BY <1>2, <1>4, <2>1, <2>2, <2>3, <2>4, GotoStep
<1> QED
  BY <1>5, <1>6

LEMMA RetireTokensStep ==
  ASSUME Inv, NEW b \in Browsers, RetireTokens(b)
  PROVE  Inv'
<1> DEFINE next == "insert token"
           rows == LiveTokens(at[b].user)
<1>1. at[b].stage = "retire"
  BY DEF RetireTokens, MayRun
<1>2. /\ Goto(b, next) /\ Blockers(b) = {} /\ locked' = Locking(b, rows)
      /\ UNCHANGED <<users, tokens, failures, cookie, spent, requests>>
  BY DEF RetireTokens, MayRun
<1>3. RequestFits(b, at[b]) /\ Types
  BY DEF Inv
<1>4. rows \subseteq Needs(b)
  BY <1>1 DEF Needs
<1>5. next \in Stages /\ next \notin Trying /\ next \notin Writing
  BY DEF Stages, Writing, Updating, Trying
<1>6. ASSUME NEW r \in RequestType, r.stage = next, r.user = at[b].user,
             r.token = at[b].token, r.form = at[b].form
      PROVE  RequestFits(b, r)'
  BY <1>1, <1>2, <1>3, <1>6
     DEF RequestFits, Updating, Forms, OwnForm, HoldsUser, HasToken, HoldsToken, Exists
<1> HIDE DEF next, rows
<1> QED
  BY <1>2, <1>4, <1>5, <1>6, GotoStep

LEMMA LockTokenStep ==
  ASSUME Inv, NEW b \in Browsers, LockToken(b)
  PROVE  Inv'
<1>0. CASE GiveUp(b)
  BY <1>0, GiveUpStep
<1>1. CASE ~GiveUp(b)
  <2> DEFINE next == "set password"
             rows == {at[b].token}
  <2>1. at[b].stage = "lock token" /\ tokens[at[b].token].st = "live"
    BY <1>1 DEF LockToken, MayRun
  <2>2. /\ Goto(b, next) /\ Blockers(b) = {} /\ locked' = Locking(b, rows)
        /\ UNCHANGED <<users, tokens, failures, cookie, spent, requests>>
    BY <1>1 DEF LockToken, MayRun
  <2>3. RequestFits(b, at[b]) /\ Types
    BY DEF Inv
  <2>4. rows \subseteq Needs(b) /\ at[b].token \in Tokens /\ at[b].token \in rows
    BY <2>1, <2>3 DEF Needs, RequestFits, HasToken
  <2> HIDE DEF next, rows
  <2>5. Locking(b, rows)[at[b].token] = b
    BY <2>2, <2>3, <2>4, LockingFacts
  <2>6. next \in Stages /\ next \notin Trying /\ at[b].stage \in Writing
    BY <2>1 DEF next, Stages, Writing, Updating, Trying
  <2>7. ASSUME NEW r \in RequestType, r.stage = next, r.user = at[b].user,
               r.token = at[b].token, r.form = at[b].form
        PROVE  RequestFits(b, r)'
    BY <2>1, <2>2, <2>3, <2>4, <2>5, <2>7
       DEF next, rows, RequestFits, Updating, Forms, OwnForm, HoldsUser, HasToken, HoldsToken, Exists
  <2> QED
    BY <2>2, <2>4, <2>6, <2>7, GotoStep
<1> QED
  BY <1>0, <1>1

LEMMA SetPasswordStep ==
  ASSUME Inv, NEW b \in Browsers, SetPassword(b)
  PROVE  Inv'
<1> DEFINE next == "retire all"
           rows == {at[b].user}
<1>1. at[b].stage = "set password"
  BY DEF SetPassword, MayRun
<1>2. /\ Goto(b, next) /\ Blockers(b) = {} /\ locked' = Locking(b, rows)
      /\ UNCHANGED <<users, tokens, failures, cookie, spent, requests>>
  BY DEF SetPassword, MayRun
<1>3. RequestFits(b, at[b]) /\ Types
  BY DEF Inv
<1>4. /\ rows \subseteq Needs(b) /\ at[b].user \in rows /\ at[b].user \in Users
      /\ at[b].token \in Tokens /\ locked[at[b].token] = b
  BY <1>1, <1>3 DEF Needs, RequestFits, HasToken, HoldsToken
<1> HIDE DEF next, rows
<1>5. Locking(b, rows)[at[b].user] = b /\ Locking(b, rows)[at[b].token] = b
  BY <1>2, <1>3, <1>4, LockingFacts
<1>6. next \in Stages /\ next \notin Trying /\ at[b].stage \in Writing
  BY <1>1 DEF next, Stages, Writing, Updating, Trying
<1>7. ASSUME NEW r \in RequestType, r.stage = next, r.user = at[b].user,
             r.token = at[b].token, r.form = at[b].form
      PROVE  RequestFits(b, r)'
  BY <1>1, <1>2, <1>3, <1>4, <1>5, <1>7
     DEF next, rows, RequestFits, Updating, Forms, OwnForm, HoldsUser, HasToken, HoldsToken, Exists
<1> QED
  BY <1>2, <1>4, <1>6, <1>7, GotoStep

-----------------------------------------------------------------------------
(* Steps that write rows.                                                  *)

\* A request that may still write a row may give it later versions.
LEMMA Budget ==
  ASSUME Inv, NEW b \in Writers, NEW u \in Users
  PROVE  /\ users[u] \in RowType
         /\ users[u].pw + 1 \in Versions /\ users[u].email + 1 \in Versions
         /\ users[u].pwv + 1 \in Versions
<1>1. Types /\ Tallies
  BY DEF Inv
<1>2. users[u] \in RowType /\ requests \in Int /\ requests <= MaxRequests
  BY <1>1, Constants DEF Types
<1>3. users[u].pw \in Int /\ users[u].email \in Int /\ users[u].pwv \in Int
  BY <1>2 DEF RowType, Versions
<1>4. Cardinality(Writers) \in Nat /\ Cardinality(Writers) # 0
  BY Constants, FS_Subset, FS_CardinalityType, FS_EmptySet DEF Writers
<1> QED
  BY <1>1, <1>2, <1>3, <1>4, Constants DEF Tallies, Versions

LEMMA AnsweredFits ==
  ASSUME NEW b, NEW r, r.stage \in {"idle", "claims"}, r.stage = "claims" => r.user \in Users
  PROVE  RequestFits(b, r)'
  BY DEF RequestFits, Updating, Forms, OwnForm, HoldsUser, HasToken, HoldsToken

\* What a step of browser e's that writes links leaves of them.
LinksKept(e) ==
  /\ tokens' \in [Tokens -> TokenType] /\ spent' \in SUBSET Tokens /\ LinksOK'
  /\ \A t \in Tokens : tokens[t].st # "unsent" =>
       tokens'[t].st # "unsent" /\ tokens'[t].user = tokens[t].user
  /\ \A t \in Tokens : \A b \in Browsers \ {e} :
       locked[t] = b /\ tokens[t].st = "live" => tokens'[t].st = "live"

\* A request that writes one row, which nobody else holds, and is done.
LEMMA RowStep ==
  ASSUME Inv, NEW b \in Writers, NEW u \in Users, NEW row \in RowType, NEW r \in RequestType,
         users' = [users EXCEPT ![u] = row], at' = [at EXCEPT ![b] = r],
         r.stage \in {"idle", "claims"}, r.stage = "claims" => r.user \in Users,
         UNCHANGED <<cookie, requests>>, locked' = locked \/ locked' = Released(b),
         failures' \in [Users -> Nat], \A v \in Users : failures'[v] <= failures[v],
         row.role # "none",
         \/ row.pwv = users[u].pwv /\ row.pw = users[u].pw /\ row.email = users[u].email
         \/ /\ row.pwv = users[u].pwv + 1
            /\ row.pw = users[u].pw \/ row.pw = users[u].pw + 1
            /\ row.email = users[u].email \/ row.email = users[u].email + 1,
         \A e \in Browsers \ {b} : ~(locked[u] = e /\ Exists(u)),
         Admins \subseteq Admins' \/ locked["super_admin"] = b, Admins' # {},
         LinksKept(b)
  PROVE  Inv'
<1>b. b \in Browsers
  BY DEF Writers
<1>t. Types /\ Tallies /\ RowsBlank
  BY DEF Inv
<1>1. users[u] \in RowType /\ \A v \in Users : users[v] \in RowType
  BY <1>t DEF Types
<1>2. users'[u] = row /\ \A v \in Users \ {u} : users'[v] = users[v]
  BY <1>t DEF Types
<1>3. at'[b] = r /\ \A e \in Browsers \ {b} : at'[e] = at[e]
  BY <1>t, <1>b DEF Types
<1>4. Types'
  <2>1. users' \in [Users -> RowType] /\ at' \in [Browsers -> RequestType]
    BY <1>t DEF Types
  <2>2. locked' \in [Users \cup Roles \cup Tokens -> Browsers \cup {NoOne}]
    BY <1>t, <1>b, ReleasedFacts DEF Types
  <2> QED
    BY <1>t, <2>1, <2>2 DEF Types, LinksKept
<1>5. \A v \in Users : /\ users[v].pw \in Int /\ users[v].email \in Int /\ users[v].pwv \in Int
                       /\ users'[v].pw \in Int /\ users'[v].email \in Int /\ users'[v].pwv \in Int
  BY <1>1, <1>2 DEF RowType, Versions
<1>6. Frame(b)
  <2>1. \A e \in Browsers \ {b} : at'[e] = at[e] /\ cookie'[e] = cookie[e]
    BY <1>3
  <2>2. \A e \in Browsers \ {b} : \A x \in Users \cup Roles \cup Tokens :
          locked[x] = e => locked'[x] = e
    BY <1>t, <1>b, ReleasedFacts
  <2>3. \A v \in Users : /\ Exists(v) => users'[v].role # "none"
                         /\ users[v].pwv <= users'[v].pwv
                         /\ users[v].pwv = users'[v].pwv => /\ users[v].pw = users'[v].pw
                                                           /\ users[v].email = users'[v].email
    <3> TAKE v \in Users
    <3>1. CASE v = u
      BY <1>2, <1>5, <3>1
    <3>2. CASE v # u
      BY <1>2, <1>5, <3>2 DEF Exists
    <3> QED
      BY <3>1, <3>2
  <2>4. \A v \in Users : \A e \in Browsers \ {b} :
          locked[v] = e /\ Exists(v) => users'[v] = users[v]
    BY <1>2
  <2> QED
    BY <2>1, <2>2, <2>3, <2>4 DEF Frame, LinksKept
<1>7. RowsBlank'
  BY <1>t, <1>2 DEF RowsBlank, Exists
<1>8. Tallies'
  <2>1. b \in Writers /\ b \notin Writers'
    BY <1>3 DEF Writers, Writing, Updating
  <2>2. /\ Cardinality(Writers) \in Nat /\ Cardinality(Writers') \in Nat
        /\ Cardinality(Writers') <= Cardinality(Writers) - 1
    BY <1>t, <1>3, <1>4, <2>1, WritersAfter
  <2>3. requests \in Int /\ requests' = requests
    BY <1>t DEF Types
  <2> SUFFICES ASSUME NEW v \in Users
               PROVE  /\ users'[v].pw >= 0 /\ users'[v].email >= 0 /\ users'[v].pwv >= 0
                      /\ users'[v].pw + Cardinality(Writers') <= requests'
                      /\ users'[v].email + Cardinality(Writers') <= requests'
                      /\ users'[v].pwv + Cardinality(Writers') <= requests'
                      /\ failures'[v] + Cardinality(Triers(v)') <= MaxFailures + Cardinality(Browsers) - 1
    BY DEF Tallies
  <2>4. /\ users[v].pw <= users'[v].pw /\ users'[v].pw <= users[v].pw + 1
        /\ users[v].email <= users'[v].email /\ users'[v].email <= users[v].email + 1
        /\ users[v].pwv <= users'[v].pwv /\ users'[v].pwv <= users[v].pwv + 1
    <3>1. CASE v = u
      BY <1>2, <1>5, <3>1
    <3>2. CASE v # u
      BY <1>2, <1>5, <3>2
    <3> QED
      BY <3>1, <3>2
  <2>5. b \notin Triers(v)'
    BY <1>3 DEF Triers, Trying
  <2>6. /\ Cardinality(Triers(v)) \in Nat /\ Cardinality(Triers(v)') \in Nat
        /\ Cardinality(Triers(v)') <= Cardinality(Triers(v))
    BY <1>t, <1>3, <1>4, <2>5, TriersAfter
  <2>7. failures[v] \in Nat /\ failures'[v] \in Nat /\ failures'[v] <= failures[v]
    BY <1>t DEF Types
  <2>8. /\ users[v].pw >= 0 /\ users[v].email >= 0 /\ users[v].pwv >= 0
        /\ users[v].pw + Cardinality(Writers) <= requests
        /\ users[v].email + Cardinality(Writers) <= requests
        /\ users[v].pwv + Cardinality(Writers) <= requests
        /\ failures[v] + Cardinality(Triers(v)) <= MaxFailures + Cardinality(Browsers) - 1
    BY <1>t DEF Tallies
  <2> HIDE DEF Triers, Writers
  <2>9. /\ users'[v].pw >= 0 /\ users'[v].email >= 0 /\ users'[v].pwv >= 0
        /\ users'[v].pw + Cardinality(Writers') <= requests'
        /\ users'[v].email + Cardinality(Writers') <= requests'
        /\ users'[v].pwv + Cardinality(Writers') <= requests'
    BY <1>5, <2>2, <2>3, <2>4, <2>8
  <2>10. failures'[v] + Cardinality(Triers(v)') <= MaxFailures + Cardinality(Browsers) - 1
    BY <2>6, <2>7, <2>8, Constants
  <2> QED
    BY <2>9, <2>10
<1>9. CookieOK(b)'
  <2>1. CookieOK(b) /\ cookie[b] \in SessionType /\ cookie'[b] = cookie[b]
    BY <1>b, <1>t DEF Inv, Types
  <2>2. cookie[b].own \in Identities /\ cookie[b].imp \in Identities
    BY <2>1 DEF SessionType
  <2> QED
    BY <1>t, <1>4, <1>6, <2>1, <2>2, MintedLater DEF CookieOK
<1>10. RequestFits(b, at[b])'
  <2>1. RequestFits(b, r)'
    BY AnsweredFits
  <2> QED
    BY <1>3, <2>1
<1> QED
  BY <1>4, <1>6, <1>7, <1>8, <1>9, <1>10, StepKeeps DEF LinksKept

\* What becomes of a request that wrote a row.
LEMMA Answered ==
  ASSUME Types, NEW b \in Browsers, at[b].user \in Users,
         Finish(b) \/ Goto(b, "claims") \/ AnsweredTo(b)
  PROVE  \E r \in RequestType : /\ at' = [at EXCEPT ![b] = r] /\ r.stage \in {"idle", "claims"}
                                /\ r.stage = "claims" => r.user \in Users
<1>1. Finish(b) \/ Goto(b, "claims")
  BY DEF AnsweredTo
<1>2. CASE Finish(b)
  BY <1>2, IdleFacts DEF Finish
<1>3. CASE Goto(b, "claims")
  <2> DEFINE next == "claims"
  <2>1. next \in Stages
    BY DEF Stages
  <2>2. at' = [at EXCEPT ![b].stage = next]
    BY <1>3 DEF Goto
  <2> HIDE DEF next
  <2>3. /\ at' = [at EXCEPT ![b] = Moved(b, next)] /\ Moved(b, next) \in RequestType
        /\ Moved(b, next).stage = next /\ Moved(b, next).user = at[b].user
    BY <2>1, <2>2, GotoFacts
  <2>4. Moved(b, next).stage \in {"idle", "claims"}
    BY <2>3 DEF next
  <2> QED
    BY <2>3, <2>4
<1> QED
  BY <1>1, <1>2, <1>3

LEMMA CreateUserStep ==
  ASSUME Inv, NEW b \in Browsers, CreateUser(b)
  PROVE  Inv'
<1> DEFINE u == at[b].user
           row == Row(at[b].form.role)
<1>1. at[b].stage = "create" /\ Finish(b)
  BY DEF CreateUser, MayRun
<1>2. UNCHANGED <<tokens, failures, cookie, locked, spent, requests>>
  BY DEF CreateUser
<1>3. RequestFits(b, at[b]) /\ Types /\ RowsBlank /\ LinksOK /\ Admins # {}
  BY DEF Inv
<1>4. u \in Users /\ at[b].form.role \in Roles /\ b \in Writers
  BY <1>1, <1>3 DEF RequestFits, Writers, Writing
<1>5. CASE Exists(u)
  <2>1. users' = users
    BY <1>5 DEF CreateUser
  <2> QED
    BY <1>1, <1>2, <2>1, EndStep
<1>6. CASE ~Exists(u)
  <2>1. users' = [users EXCEPT ![u] = row]
    BY <1>6 DEF CreateUser
  <2>2. users[u] = Absent
    BY <1>3, <1>4, <1>6 DEF RowsBlank
  <2>3. /\ row \in RowType /\ row.role # "none" /\ row.pw = users[u].pw
        /\ row.email = users[u].email /\ row.pwv = users[u].pwv
    BY <1>4, <2>2, RowFacts, AbsentFacts, Constants
  <2> HIDE DEF row
  <2>4. Admins \subseteq Admins'
    <3>1. u \notin Admins
      BY <2>2, AbsentFacts DEF Admins
    <3> QED
      BY <1>3, <2>1, <3>1 DEF Admins, Types
  <2>5. PICK r \in RequestType : /\ at' = [at EXCEPT ![b] = r] /\ r.stage \in {"idle", "claims"}
                                 /\ r.stage = "claims" => r.user \in Users
    BY <1>1, <1>3, <1>4, Answered
  <2>6. LinksOK'
    BY <1>2, <1>3, <1>4, <2>1, <2>3 DEF LinksOK, Exists, Types
  <2>7. failures' \in [Users -> Nat] /\ \A v \in Users : failures'[v] <= failures[v]
    BY <1>2, <1>3 DEF Types
  <2>8. LinksKept(b)
    BY <1>2, <1>3, <2>6 DEF Types, LinksKept
  <2> QED
    BY <1>2, <1>3, <1>4, <1>6, <2>1, <2>3, <2>4, <2>5, <2>7, <2>8, RowStep
<1> QED
  BY <1>5, <1>6

LEMMA UpdateUserStep ==
  ASSUME Inv, NEW b \in Browsers, UpdateUser(b)
  PROVE  Inv'
<1> DEFINE u == at[b].user
           form == at[b].form
           row == Edited(users[u], form)
<1>1. at[b].stage = "update" /\ AnsweredTo(b)
  BY DEF UpdateUser, MayRun
<1>2. UNCHANGED <<tokens, cookie, spent, requests>>
  BY DEF UpdateUser
<1>3. RequestFits(b, at[b]) /\ Types /\ LinksOK /\ Admins # {}
  BY DEF Inv
<1>4. /\ u \in Users /\ b \in Writers /\ Exists(u) /\ locked[u] = b
      /\ form \in FormType /\ form.role \in Roles
      /\ form.was = users[u].role /\ locked[form.was] = b
      /\ LeavesSupers(form) /\ users[u].active => OtherSupers(u) # {}
  BY <1>1, <1>3 DEF RequestFits, Writers, Writing, Updating, HoldsUser, Types, RequestType
<1>5. locked' = Released(b)
  BY DEF UpdateUser
<1>6. users' = [users EXCEPT ![u] = row]
  BY DEF UpdateUser
<1>7. failures' \in [Users -> Nat] /\ \A v \in Users : failures'[v] <= failures[v]
  <2>1. failures' = [failures EXCEPT ![u] = 0] \/ failures' = failures
    BY DEF UpdateUser
  <2> QED
    BY <1>3, <1>4, <2>1 DEF Types
<1>8. /\ row \in RowType /\ row.role = form.role /\ row.active = form.active /\ row.pw = users[u].pw
      /\ \/ row.email = users[u].email /\ row.pwv = users[u].pwv
         \/ row.email = users[u].email + 1 /\ row.pwv = users[u].pwv + 1
  BY <1>4, Budget, EditedFacts
<1> HIDE DEF row
<1>9. row.role # "none"
  BY <1>4, <1>8, Constants
<1>10. /\ Admins \subseteq Admins' \/ locked["super_admin"] = b
       /\ Admins' # {}
  <2>1. users'[u] = row /\ \A v \in Users \ {u} : users'[v] = users[v]
    BY <1>3, <1>4, <1>6 DEF Types
  <2>2. CASE Admins \subseteq Admins'
    BY <1>3, <2>2
  <2>3. CASE ~(Admins \subseteq Admins')
    <3>1. u \in Admins /\ ~(row.role = "super_admin" /\ row.active)
      BY <2>1, <2>3 DEF Admins
    <3>2. LeavesSupers(form) /\ users[u].active /\ locked["super_admin"] = b
      BY <1>4, <1>8, <3>1 DEF Admins, LeavesSupers
    <3>3. OtherSupers(u) # {}
      BY <1>4, <3>2
    <3> QED
      BY <2>1, <3>2, <3>3 DEF OtherSupers, Admins
  <2> QED
    BY <2>2, <2>3
<1>11. PICK r \in RequestType : /\ at' = [at EXCEPT ![b] = r] /\ r.stage \in {"idle", "claims"}
                                /\ r.stage = "claims" => r.user \in Users
  BY <1>1, <1>3, <1>4, Answered
<1>12. LinksOK'
  BY <1>2, <1>3, <1>4, <1>6, <1>9 DEF LinksOK, Exists, Types
<1>13. LinksKept(b)
  BY <1>2, <1>3, <1>12 DEF Types, LinksKept
<1>14. \A e \in Browsers \ {b} : ~(locked[u] = e /\ Exists(u))
  BY <1>4
<1> QED
  BY <1>2, <1>4, <1>5, <1>6, <1>7, <1>8, <1>9, <1>10, <1>11, <1>13, <1>14, RowStep

\* A new password, set by an administrator or by the user's own form.
LEMMA NewPasswordStep ==
  ASSUME Inv, NEW b \in Writers, NEW u \in Users, Exists(u), LinksKept(b),
         NEW row, row = PasswordSet(users[u]), users' = [users EXCEPT ![u] = row],
         NEW r \in RequestType, at' = [at EXCEPT ![b] = r], r.stage \in {"idle", "claims"},
         r.stage = "claims" => r.user \in Users,
         UNCHANGED <<failures, cookie, requests>>, locked' = locked \/ locked' = Released(b),
         \A e \in Browsers \ {b} : locked[u] # e
  PROVE  Inv'
<1>1. Types /\ LinksOK /\ Admins # {} /\ b \in Browsers
  BY DEF Inv, Writers
<1>2. users[u] \in RowType
  BY <1>1 DEF Types
<1>3. /\ row \in RowType /\ row.pw = users[u].pw + 1 /\ row.pwv = users[u].pwv + 1
      /\ row.email = users[u].email /\ row.role = users[u].role /\ row.active = users[u].active
  BY <1>2, Budget, PasswordSetFacts
<1>4. row.role # "none"
  BY <1>3 DEF Exists
<1>5. Admins \subseteq Admins' /\ Admins' # {}
  BY <1>1, <1>2, <1>3 DEF Admins, Types
<1>6. failures' \in [Users -> Nat] /\ \A v \in Users : failures'[v] <= failures[v]
  BY <1>1 DEF Types
<1>7. \A e \in Browsers \ {b} : ~(locked[u] = e /\ Exists(u))
  OBVIOUS
<1>8. /\ UNCHANGED <<cookie, requests>> /\ (locked' = locked \/ locked' = Released(b))
      /\ Admins \subseteq Admins' \/ locked["super_admin"] = b
  BY <1>5
<1>9. \/ row.pwv = users[u].pwv /\ row.pw = users[u].pw /\ row.email = users[u].email
      \/ /\ row.pwv = users[u].pwv + 1
         /\ row.pw = users[u].pw \/ row.pw = users[u].pw + 1
         /\ row.email = users[u].email \/ row.email = users[u].email + 1
  BY <1>3
<1> QED
  BY <1>3, <1>4, <1>5, <1>6, <1>7, <1>8, <1>9, RowStep

LEMMA ResetPasswordStep ==
  ASSUME Inv, NEW b \in Browsers, ResetPassword(b)
  PROVE  Inv'
<1>1. at[b].stage = "reset" /\ AnsweredTo(b)
  BY DEF ResetPassword, MayRun
<1>2. UNCHANGED <<tokens, failures, cookie, locked, spent, requests>>
  BY DEF ResetPassword
<1>3. Blockers(b) = {}
  BY DEF ResetPassword, MayRun
<1>4. RequestFits(b, at[b]) /\ Types /\ LinksOK
  BY DEF Inv
<1>5. PICK u \in Users : u = at[b].user
  BY <1>1, <1>4 DEF RequestFits
<1>6. b \in Writers /\ Exists(u)
  BY <1>1, <1>4, <1>5 DEF RequestFits, Writers, Writing
<1>7. u \in Needs(b)
  BY <1>1, <1>5 DEF Needs
<1>8. \A e \in Browsers \ {b} : locked[u] # e
  BY <1>3, <1>7, Constants DEF Blockers
<1>9. PICK row : row = PasswordSet(users[u])
  OBVIOUS
<1>10. users' = [users EXCEPT ![u] = row]
  BY <1>5, <1>9 DEF ResetPassword
<1>11. PICK r \in RequestType : /\ at' = [at EXCEPT ![b] = r] /\ r.stage \in {"idle", "claims"}
                                /\ r.stage = "claims" => r.user \in Users
  BY <1>1, <1>4, <1>5, Answered
<1>12. LinksOK'
  BY <1>2, <1>4, <1>5, <1>6, <1>9, <1>10, PasswordSetFacts, Budget DEF LinksOK, Exists, Types
<1>13. LinksKept(b)
  BY <1>2, <1>4, <1>12 DEF LinksKept, Types
<1> QED
  BY <1>2, <1>6, <1>8, <1>9, <1>10, <1>11, <1>13, NewPasswordStep

LEMMA ChangeOwnPasswordStep ==
  ASSUME Inv, NEW b \in Browsers, ChangeOwnPassword(b)
  PROVE  Inv'
<1>1. at[b].stage = "change" /\ Goto(b, "claims")
  BY DEF ChangeOwnPassword
<1>2. UNCHANGED <<tokens, failures, cookie, spent, requests>> /\ locked' = Released(b)
  BY DEF ChangeOwnPassword
<1>4. RequestFits(b, at[b]) /\ Types /\ LinksOK
  BY DEF Inv
<1>5. PICK u \in Users : u = at[b].user
  BY <1>1, <1>4 DEF RequestFits
<1>6. b \in Writers /\ Exists(u) /\ locked[u] = b
  BY <1>1, <1>4, <1>5 DEF RequestFits, Writers, Writing, HoldsUser
<1>9. PICK row : row = PasswordSet(users[u])
  OBVIOUS
<1>10. users' = [users EXCEPT ![u] = row]
  BY <1>5, <1>9 DEF ChangeOwnPassword
<1>11. PICK r \in RequestType : /\ at' = [at EXCEPT ![b] = r] /\ r.stage \in {"idle", "claims"}
                                /\ r.stage = "claims" => r.user \in Users
  BY <1>1, <1>4, <1>5, Answered
<1>12. LinksOK'
  BY <1>2, <1>4, <1>5, <1>6, <1>9, <1>10, PasswordSetFacts, Budget DEF LinksOK, Exists, Types
<1>13. LinksKept(b)
  BY <1>2, <1>4, <1>12 DEF LinksKept, Types
<1> QED
  BY <1>2, <1>6, <1>9, <1>10, <1>11, <1>13, NewPasswordStep

LEMMA CompleteResetStep ==
  ASSUME Inv, NEW b \in Browsers, CompleteReset(b)
  PROVE  Inv'
<1>1. at[b].stage = "retire all" /\ Finish(b)
  BY DEF CompleteReset, MayRun
<1>2. UNCHANGED <<failures, cookie, requests>> /\ locked' = Released(b)
  BY DEF CompleteReset
<1>3. Blockers(b) = {}
  BY DEF CompleteReset, MayRun
<1>4. RequestFits(b, at[b]) /\ Types /\ LinksOK
  BY DEF Inv
<1>5. PICK u \in Users : u = at[b].user
  BY <1>1, <1>4 DEF RequestFits
<1>6. b \in Writers /\ Exists(u) /\ locked[u] = b
  BY <1>1, <1>4, <1>5 DEF RequestFits, Writers, Writing, HoldsUser
<1>7. PICK t0 \in Tokens : t0 = at[b].token /\ t0 \in LiveTokens(u)
  BY <1>1, <1>4, <1>5 DEF RequestFits, HasToken, HoldsToken, LiveTokens
<1>8. \A t \in LiveTokens(u) : \A e \in Browsers \ {b} : locked[t] # e
  <2>1. LiveTokens(u) \subseteq Needs(b)
    BY <1>1, <1>5 DEF Needs
  <2> QED
    BY <1>3, <2>1, Constants DEF Blockers
<1>9. PICK row : row = PasswordSet(users[u])
  OBVIOUS
<1>10. users' = [users EXCEPT ![u] = row]
  BY <1>5, <1>9 DEF CompleteReset
<1>11. PICK r \in RequestType : /\ at' = [at EXCEPT ![b] = r] /\ r.stage \in {"idle", "claims"}
                                /\ r.stage = "claims" => r.user \in Users
  BY <1>1, <1>4, <1>5, Answered
<1>12. spent' = spent \cup LiveTokens(u)
  BY <1>5, <1>7 DEF CompleteReset
<1>13. \A t \in Tokens : /\ t \in LiveTokens(u) => tokens'[t] = [tokens[t] EXCEPT !.st = "dead"]
                         /\ t \notin LiveTokens(u) => tokens'[t] = tokens[t]
  BY <1>5 DEF CompleteReset, Retired
<1>14. \A t \in Tokens : /\ tokens'[t] \in TokenType /\ tokens'[t].user = tokens[t].user
                         /\ t \in LiveTokens(u) => tokens'[t].st = "dead"
                         /\ t \notin LiveTokens(u) => tokens'[t].st = tokens[t].st
  <2> TAKE t \in Tokens
  <2>1. tokens[t] \in TokenType
    BY <1>4 DEF Types
  <2>2. CASE t \in LiveTokens(u)
    <3>1. PICK token \in TokenType : token = tokens[t]
      BY <2>1
    <3>2. [token EXCEPT !.st = "dead"] \in TokenType /\ [token EXCEPT !.st = "dead"].user = token.user
          /\ [token EXCEPT !.st = "dead"].st = "dead"
      BY DEF TokenType
    <3> QED
      BY <1>13, <2>2, <3>1, <3>2
  <2>3. CASE t \notin LiveTokens(u)
    BY <1>13, <2>1, <2>3
  <2> QED
    BY <2>2, <2>3
<1>15. tokens' \in [Tokens -> TokenType]
  <2>1. tokens' = [t \in Tokens |-> tokens'[t]]
    BY DEF CompleteReset
  <2> QED
    BY <1>14, <2>1
<1>16. \A v \in Users : Exists(v) => users'[v].role # "none"
  BY <1>4, <1>5, <1>6, <1>9, <1>10, PasswordSetFacts, Budget DEF Exists, Types
<1>17. LinksOK'
  <2>1. ASSUME NEW t \in spent' PROVE tokens'[t].st = "dead"
    <3>1. t \in Tokens /\ (t \in LiveTokens(u) \/ tokens[t].st = "dead")
      BY <1>4, <1>12, <2>1 DEF Types, LinksOK, LiveTokens
    <3> QED
      BY <1>14, <3>1
  <2>2. ASSUME NEW t \in Tokens, tokens'[t].st = "live"
        PROVE  tokens'[t].user \in Users /\ users'[tokens'[t].user].role # "none"
    <3>1. tokens[t].st = "live" /\ tokens'[t].user = tokens[t].user
      BY <1>14, <2>2
    <3>2. tokens[t].user \in Users /\ Exists(tokens[t].user)
      BY <1>4, <3>1 DEF LinksOK
    <3> QED
      BY <1>16, <3>1, <3>2
  <2> QED
    BY <2>1, <2>2 DEF LinksOK, Exists
<1>18. spent' \in SUBSET Tokens
  BY <1>4, <1>12 DEF Types, LiveTokens
<1>19. \A t \in Tokens : tokens[t].st # "unsent" => tokens'[t].st # "unsent"
  BY <1>14
<1>20. LinksKept(b)
  BY <1>8, <1>14, <1>15, <1>17, <1>18, <1>19 DEF LinksKept
<1> QED
  BY <1>2, <1>6, <1>9, <1>10, <1>11, <1>20, NewPasswordStep

-----------------------------------------------------------------------------
(* Steps that write a cookie, a link, or the count of the failures.        *)

\* No write was asked for, and no failure recorded.
LEMMA TalliesKept ==
  ASSUME Types, Types', Tallies, NEW e, \A b \in Browsers \ {e} : at'[b] = at[b],
         e \in Browsers => at'[e] \in {Idle, at[e]},
         UNCHANGED <<users, requests>>, \A u \in Users : failures'[u] <= failures[u]
  PROVE  Tallies'
<1>1. /\ Cardinality(Writers) \in Nat /\ Cardinality(Writers') \in Nat
      /\ Cardinality(Writers') <= Cardinality(Writers)
  <2>1. e \in Writers' => e \in Writers
    BY IdleFacts DEF Writers, Writing, Updating
  <2> QED
    BY <2>1, WritersAfter
<1> SUFFICES ASSUME NEW u \in Users
             PROVE  /\ users[u].pw + Cardinality(Writers') <= requests
                    /\ users[u].email + Cardinality(Writers') <= requests
                    /\ users[u].pwv + Cardinality(Writers') <= requests
                    /\ failures'[u] + Cardinality(Triers(u)') <= MaxFailures + Cardinality(Browsers) - 1
  BY DEF Tallies
<1>2. /\ Cardinality(Triers(u)) \in Nat /\ Cardinality(Triers(u)') \in Nat
      /\ Cardinality(Triers(u)') <= Cardinality(Triers(u))
  <2>1. e \in Triers(u)' => e \in Triers(u)
    BY IdleFacts DEF Triers, Trying
  <2> QED
    BY <2>1, TriersAfter
<1>3. /\ users[u].pw + Cardinality(Writers) <= requests
      /\ users[u].email + Cardinality(Writers) <= requests
      /\ users[u].pwv + Cardinality(Writers) <= requests
      /\ failures[u] + Cardinality(Triers(u)) <= MaxFailures + Cardinality(Browsers) - 1
  BY DEF Tallies
<1>4. /\ users[u].pw \in Int /\ users[u].email \in Int /\ users[u].pwv \in Int
      /\ failures[u] \in Nat /\ failures'[u] \in Nat /\ requests \in Int
      /\ failures'[u] <= failures[u]
  BY DEF Types, RowType, Versions
<1> HIDE DEF Writers, Triers
<1> QED
  BY <1>1, <1>2, <1>3, <1>4, Constants

LEMMA IdleFits ==
  ASSUME NEW b
  PROVE  RequestFits(b, Idle)'
  BY IdleFacts DEF RequestFits, Updating, Forms, OwnForm, HoldsUser, HasToken, HoldsToken

\* A request that is done, or a browser without one, and its cookie.
LEMMA CookieStep ==
  ASSUME Inv, NEW b \in Browsers, NEW s \in SessionType, cookie' = [cookie EXCEPT ![b] = s],
         at' = [at EXCEPT ![b] = Idle], UNCHANGED <<users, tokens, failures, locked, spent, requests>>,
         s # NoSession => /\ Minted(s.own)
                          /\ Impersonating(s) => Minted(s.imp) /\ s.imp.role \in Impersonators
  PROVE  Inv'
<1>1. Types /\ Tallies
  BY DEF Inv
<1>2. /\ at'[b] = Idle /\ cookie'[b] = s
      /\ \A e \in Browsers \ {b} : at'[e] = at[e] /\ cookie'[e] = cookie[e]
  BY <1>1 DEF Types
<1>3. Types'
  BY <1>1, IdleFacts DEF Types
<1>4. Frame(b)
  BY <1>2, FrameQuiet
<1>5. Tallies'
  <2>1. \A u \in Users : failures'[u] <= failures[u]
    BY <1>1 DEF Types
  <2> QED
    BY <1>1, <1>2, <1>3, <2>1, TalliesKept
<1>6. RowsBlank' /\ LinksOK' /\ Admins' # {}
  BY DEF Inv, RowsBlank, LinksOK, Admins, Exists
<1>7. CookieOK(b)'
  BY <1>2 DEF CookieOK, Minted
<1>8. RequestFits(b, at[b])'
  BY <1>2, IdleFits
<1> QED
  BY <1>3, <1>4, <1>5, <1>6, <1>7, <1>8, StepKeeps

\* A session minted now.
LEMMA IdentityFacts ==
  ASSUME Types, RowsBlank, NEW u \in Users, users[u].active
  PROVE  Identity(u) \in Identities /\ Minted(Identity(u))
<1>1. users[u] \in RowType /\ users[u].role \in Roles
  BY AbsentFacts DEF Types, RowType, RowsBlank, Exists
<1>2. /\ users[u].pw \in Versions /\ users[u].email \in Versions /\ users[u].pwv \in Versions
      /\ users[u].pwv <= users[u].pwv
  BY <1>1 DEF RowType, Versions
<1>3. /\ Identity(u).sub = u /\ Identity(u).role = users[u].role /\ Identity(u).pwv = users[u].pwv
      /\ Identity(u).under = <<users[u].pw, users[u].email>>
  BY DEF Identity
<1>4. Identity(u) \in Identities
  BY <1>1, <1>2 DEF Identity, Identities
<1> QED
  BY <1>1, <1>2, <1>3, <1>4 DEF Minted

LEMMA MintStep ==
  ASSUME Inv, NEW b \in Browsers, Mint(b)
  PROVE  Inv'
<1>1. at[b].stage = "claims" /\ Finish(b)
      /\ UNCHANGED <<users, tokens, failures, locked, spent, requests>>
  BY DEF Mint
<1>2. Types /\ RowsBlank /\ RequestFits(b, at[b])
  BY DEF Inv
<1>3. PICK u \in Users : u = at[b].user
  BY <1>1, <1>2 DEF RequestFits
<1>4. CASE users[u].active
  <2>1. Identity(u) \in Identities /\ Minted(Identity(u))
    BY <1>2, <1>4, IdentityFacts
  <2>2. PICK s \in SessionType : s = Session(u)
    BY <2>1, NoSessionFacts DEF Session, SessionType
  <2>3. cookie' = [cookie EXCEPT ![b] = s]
    BY <1>3, <1>4, <2>2 DEF Mint
  <2>4. s.own = Identity(u) /\ ~Impersonating(s)
    BY <2>2 DEF Session, Impersonating
  <2> QED
    BY <1>1, <2>1, <2>3, <2>4, CookieStep DEF Finish
<1>5. CASE ~users[u].active
  <2>1. cookie' = cookie
    BY <1>3, <1>5 DEF Mint
  <2> QED
    BY <1>1, <2>1, EndStep
<1> QED
  BY <1>4, <1>5

LEMMA MintImpersonatedStep ==
  ASSUME Inv, NEW b \in Browsers, MintImpersonated(b)
  PROVE  Inv'
<1>1. at[b].stage = "target" /\ Finish(b)
      /\ UNCHANGED <<users, tokens, failures, locked, spent, requests>>
  BY DEF MintImpersonated
<1>2. Types /\ RowsBlank /\ RequestFits(b, at[b]) /\ CookieOK(b)
  BY DEF Inv
<1>3. PICK u \in Users : u = at[b].user
  BY <1>1, <1>2 DEF RequestFits
<1>4. CASE cookie' = cookie
  BY <1>1, <1>4, EndStep
<1>5. CASE cookie' # cookie
  <2>1. users[u].active /\ cookie' = [cookie EXCEPT ![b] = ImpersonatedClaims(cookie[b], u)]
    BY <1>3, <1>5 DEF MintImpersonated
  <2>2. Identity(u) \in Identities /\ Minted(Identity(u))
    BY <1>2, <2>1, IdentityFacts
  <2>3. /\ cookie[b].own \in Identities /\ Minted(cookie[b].own)
        /\ cookie[b].own.role \in Impersonators
    BY <1>1, <1>2 DEF RequestFits, CookieOK, Types, SessionType
  <2>4. PICK s \in SessionType : s = ImpersonatedClaims(cookie[b], u)
    BY <2>2, <2>3 DEF ImpersonatedClaims, SessionType
  <2>5. s.own = Identity(u) /\ s.imp = cookie[b].own
    BY <2>4 DEF ImpersonatedClaims
  <2> QED
    BY <1>1, <2>1, <2>2, <2>3, <2>4, <2>5, CookieStep DEF Finish
<1> QED
  BY <1>4, <1>5

LEMMA LeaveSessionStep ==
  ASSUME Inv, NEW b \in Browsers, LeaveSession(b)
  PROVE  Inv'
<1>1. /\ cookie' = [cookie EXCEPT ![b] = NoSession]
      /\ UNCHANGED <<users, tokens, failures, locked, spent, requests>>
  BY DEF LeaveSession
<1>2. at' = [at EXCEPT ![b] = Idle]
  BY DEF LeaveSession, Inv, Types
<1> QED
  BY <1>1, <1>2, NoSessionFacts, CookieStep

\* Only a request that was let past the throttle records a failure.
LEMMA AuditFailureStep ==
  ASSUME Inv, NEW b \in Browsers, AuditFailure(b)
  PROVE  Inv'
<1>1. at[b].stage = "audit failure" /\ Finish(b)
      /\ UNCHANGED <<users, tokens, cookie, locked, spent, requests>>
  BY DEF AuditFailure
<1>2. Types /\ Tallies /\ RequestFits(b, at[b])
  BY DEF Inv
<1>3. PICK u \in Users : u = at[b].user /\ u = cookie[b].own.sub
  BY <1>1, <1>2 DEF RequestFits, OwnForm
<1>4. failures' = failures \/ failures' = [failures EXCEPT ![u] = @ + 1]
  BY <1>3 DEF AuditFailure
<1>5. \A v \in Users : /\ failures[v] \in Nat /\ failures'[v] \in Nat
                       /\ v # u => failures'[v] = failures[v]
                       /\ failures'[v] <= failures[v] + 1
  BY <1>2, <1>4 DEF Types
<1>6. failures' \in [Users -> Nat]
  BY <1>2, <1>4 DEF Types
<1>7. at'[b] = Idle /\ \A e \in Browsers \ {b} : at'[e] = at[e]
  BY <1>1, <1>2 DEF Finish, Types
<1>8. Types'
  <2>1. at' \in [Browsers -> RequestType]
    BY <1>1, <1>2, IdleFacts DEF Finish, Types
  <2> QED
    BY <1>1, <1>2, <1>6, <2>1 DEF Types
<1>9. Frame(b)
  BY <1>1, <1>7, FrameQuiet
<1>10. RowsBlank' /\ LinksOK' /\ Admins' # {}
  BY <1>1 DEF Inv, RowsBlank, LinksOK, Admins, Exists
<1>11. Tallies'
  <2>1. /\ Cardinality(Writers) \in Nat /\ Cardinality(Writers') \in Nat
        /\ Cardinality(Writers') <= Cardinality(Writers)
    <3>1. b \in Writers' => b \in Writers
      BY <1>7, IdleFacts DEF Writers, Writing, Updating
    <3> QED
      BY <1>2, <1>7, <1>8, <3>1, WritersAfter
  <2> SUFFICES ASSUME NEW v \in Users
               PROVE  /\ users[v].pw + Cardinality(Writers') <= requests
                      /\ users[v].email + Cardinality(Writers') <= requests
                      /\ users[v].pwv + Cardinality(Writers') <= requests
                      /\ failures'[v] + Cardinality(Triers(v)')
                           <= MaxFailures + Cardinality(Browsers) - 1
    BY <1>1, <1>2 DEF Tallies
  <2>2. /\ Cardinality(Triers(v)) \in Nat /\ Cardinality(Triers(v)') \in Nat
        /\ Cardinality(Triers(v)') <= Cardinality(Triers(v))
        /\ v = u => Cardinality(Triers(v)') <= Cardinality(Triers(v)) - 1
    <3>1. b \notin Triers(v)' /\ (v = u => b \in Triers(v))
      BY <1>1, <1>3, <1>7, IdleFacts DEF Triers, Trying
    <3> QED
      BY <1>2, <1>7, <1>8, <3>1, TriersAfter
  <2>3. /\ users[v].pw + Cardinality(Writers) <= requests
        /\ users[v].email + Cardinality(Writers) <= requests
        /\ users[v].pwv + Cardinality(Writers) <= requests
        /\ failures[v] + Cardinality(Triers(v)) <= MaxFailures + Cardinality(Browsers) - 1
    BY <1>2 DEF Tallies
  <2>4. users[v].pw \in Int /\ users[v].email \in Int /\ users[v].pwv \in Int /\ requests \in Int
    BY <1>2 DEF Types, RowType, Versions
  <2> HIDE DEF Writers, Triers
  <2>5. failures[v] \in Nat /\ failures'[v] \in Nat
        /\ (v # u => failures'[v] = failures[v]) /\ failures'[v] <= failures[v] + 1
    BY <1>5
  <2> QED
    BY <2>1, <2>2, <2>3, <2>4, <2>5, Constants
<1>12. CookieOK(b)'
  BY <1>1 DEF Inv, CookieOK, Minted
<1>13. RequestFits(b, at[b])'
  BY <1>7, IdleFits
<1> QED
  BY <1>8, <1>9, <1>10, <1>11, <1>12, <1>13, StepKeeps

LEMMA WindowMovesStep ==
  ASSUME Inv, NEW u \in Users, WindowMoves(u)
  PROVE  Inv'
<1>1. /\ failures[u] > 0 /\ failures' = [failures EXCEPT ![u] = @ - 1]
      /\ UNCHANGED <<users, tokens, cookie, at, locked, spent, requests>>
  BY DEF WindowMoves
<1>2. Types /\ Tallies
  BY DEF Inv
<1>3. failures' \in [Users -> Nat] /\ \A v \in Users : failures'[v] <= failures[v]
  BY <1>1, <1>2 DEF Types
<1>4. Types'
  BY <1>1, <1>2, <1>3 DEF Types
<1>5. NoOne \notin Browsers
  BY Constants
<1>6. Frame(NoOne)
  BY <1>1, FrameQuiet
<1>7. Tallies'
  BY <1>1, <1>2, <1>3, <1>4, <1>5, TalliesKept
<1>8. RowsBlank' /\ LinksOK' /\ Admins' # {}
  BY <1>1 DEF Inv, RowsBlank, LinksOK, Admins, Exists
<1> QED
  BY <1>4, <1>5, <1>6, <1>7, <1>8, StepKeeps

\* A link dies under nobody who locked it, for its user or for itself.
LEMMA IssueTokenStep ==
  ASSUME Inv, NEW b \in Browsers, IssueToken(b)
  PROVE  Inv'
<1>1. at[b].stage = "insert token"
  BY DEF IssueToken, MayRun
<1>2. Finish(b) /\ locked' = Released(b) /\ UNCHANGED <<users, failures, cookie, spent, requests>>
  BY DEF IssueToken
<1>3. Types /\ Tallies /\ LinksOK /\ RequestFits(b, at[b])
  BY DEF Inv
<1>4. PICK u \in Users : u = at[b].user /\ Exists(u)
  BY <1>1, <1>3 DEF RequestFits
<1>5. PICK new \in TokenType : new = [user |-> u, st |-> "live"]
  BY DEF TokenType
<1>n. new.user = u /\ new.st = "live"
  BY <1>5
<1>t. PICK t \in Tokens :
        /\ tokens[t].st = "unsent"
        /\ tokens' = [x \in Tokens |->
             CASE x = t               -> new
               [] x \in {y \in Tokens \ {t} : locked[y] = b} -> [tokens[x] EXCEPT !.st = "dead"]
               [] OTHER               -> tokens[x]]
  BY <1>4, <1>5 DEF IssueToken
<1>6. \A x \in Tokens : \/ x = t /\ tokens'[x] = new
                        \/ x # t /\ locked[x] = b /\ tokens'[x] = [tokens[x] EXCEPT !.st = "dead"]
                        \/ x # t /\ locked[x] # b /\ tokens'[x] = tokens[x]
  <2> TAKE x \in Tokens
  <2>1. CASE x = t
    BY <1>t, <2>1
  <2>2. CASE x # t /\ locked[x] = b
    BY <1>t, <2>2
  <2>3. CASE x # t /\ locked[x] # b
    BY <1>t, <2>3
  <2> QED
    BY <2>1, <2>2, <2>3
<1>7. ASSUME NEW x \in Tokens
      PROVE  /\ tokens'[x] \in TokenType
             /\ x = t => tokens'[x].st = "live" /\ tokens'[x].user = u
             /\ x # t => tokens'[x].user = tokens[x].user /\ tokens'[x].st \in {tokens[x].st, "dead"}
             /\ x # t /\ locked[x] # b => tokens'[x].st = tokens[x].st
  <2>1. PICK token \in TokenType : token = tokens[x]
    BY <1>3 DEF Types
  <2>2. /\ [token EXCEPT !.st = "dead"] \in TokenType /\ [token EXCEPT !.st = "dead"].user = token.user
        /\ [token EXCEPT !.st = "dead"].st = "dead"
    BY DEF TokenType
  <2> QED
    <3>1. CASE x = t
      BY <1>6, <1>n, <3>1
    <3>2. CASE x # t /\ locked[x] = b
      BY <1>6, <2>1, <2>2, <3>2
    <3>3. CASE x # t /\ locked[x] # b
      BY <1>6, <2>1, <3>3
    <3> QED
      BY <3>1, <3>2, <3>3
<1>8. tokens' \in [Tokens -> TokenType]
  <2>1. tokens' = [x \in Tokens |-> tokens'[x]]
    BY <1>t
  <2> QED
    BY <1>7, <2>1
<1>9. at'[b] = Idle /\ \A e \in Browsers \ {b} : at'[e] = at[e]
  BY <1>2, <1>3 DEF Finish, Types
<1>10. Types'
  <2>1. at' \in [Browsers -> RequestType]
    BY <1>2, <1>3, IdleFacts DEF Finish, Types
  <2> QED
    BY <1>2, <1>3, <1>8, <2>1, ReleasedFacts DEF Types
<1>11. LinksOK'
  <2>1. \A x \in spent' : tokens'[x].st = "dead"
    <3> TAKE x \in spent'
    <3>1. x \in Tokens /\ tokens[x].st = "dead" /\ x # t
      BY <1>2, <1>3, <1>t DEF LinksOK, Types
    <3> QED
      BY <1>7, <3>1
  <2>2. ASSUME NEW x \in Tokens, tokens'[x].st = "live"
        PROVE  tokens'[x].user \in Users /\ Exists(tokens'[x].user)
    <3>1. CASE x = t
      BY <1>4, <1>7, <3>1
    <3>2. CASE x # t
      <4>1. tokens[x].st = "live" /\ tokens'[x].user = tokens[x].user
        BY <1>7, <2>2, <3>2
      <4> QED
        BY <1>3, <4>1 DEF LinksOK
    <3> QED
      BY <3>1, <3>2
  <2> QED
    BY <1>2, <2>1, <2>2 DEF LinksOK, Exists
<1>12. Frame(b)
  <2>1. \A e \in Browsers \ {b} : \A x \in Users \cup Roles \cup Tokens :
          locked[x] = e => locked'[x] = e
    BY <1>2, <1>3, ReleasedFacts
  <2>2. \A x \in Tokens : tokens[x].st # "unsent" =>
          tokens'[x].st # "unsent" /\ tokens'[x].user = tokens[x].user
    BY <1>t, <1>7
  <2>3. \A x \in Tokens : \A e \in Browsers \ {b} :
          locked[x] = e /\ at[e].token = x /\ tokens[x].st = "live" => tokens'[x].st = "live"
    BY <1>t, <1>7
  <2>4. \A v \in Users : users[v].pwv <= users[v].pwv
    BY <1>3 DEF Types, RowType, Versions
  <2> QED
    BY <1>2, <1>9, <2>1, <2>2, <2>3, <2>4 DEF Frame, Exists, Admins
<1>13. Tallies'
  <2>1. \A v \in Users : failures'[v] <= failures[v]
    BY <1>2, <1>3 DEF Types
  <2> QED
    BY <1>2, <1>3, <1>9, <1>10, <2>1, TalliesKept
<1>14. RowsBlank' /\ Admins' # {}
  BY <1>2 DEF Inv, RowsBlank, Admins, Exists
<1>15. CookieOK(b)'
  BY <1>2 DEF Inv, CookieOK, Minted
<1>16. RequestFits(b, at[b])'
  BY <1>9, IdleFits
<1> QED
  BY <1>10, <1>11, <1>12, <1>13, <1>14, <1>15, <1>16, StepKeeps

LEMMA TokenExpiresStep ==
  ASSUME Inv, NEW t \in Tokens, TokenExpires(t)
  PROVE  Inv'
<1>1. /\ tokens[t].st = "live" /\ \A b \in Browsers : at[b].token # t
      /\ UNCHANGED <<users, failures, cookie, at, locked, spent, requests>>
  BY DEF TokenExpires
<1>2. tokens' = [tokens EXCEPT ![t].st = "dead"]
  BY DEF TokenExpires
<1>3. Types /\ Tallies /\ LinksOK
  BY DEF Inv
<1>4. PICK token \in TokenType : /\ token.user = tokens[t].user /\ token.st = "dead"
                                 /\ tokens' = [tokens EXCEPT ![t] = token]
  <2>1. PICK old \in TokenType : old = tokens[t]
    BY <1>3 DEF Types
  <2>2. PICK new : new = [old EXCEPT !.st = "dead"]
    OBVIOUS
  <2>3. new \in TokenType /\ new.user = old.user /\ new.st = "dead"
    BY <2>2 DEF TokenType
  <2>4. tokens' = [tokens EXCEPT ![t] = new]
    BY <1>2, <1>3, <2>1, <2>2 DEF Types
  <2> QED
    BY <2>1, <2>3, <2>4
<1>5. tokens'[t] = token /\ \A x \in Tokens \ {t} : tokens'[x] = tokens[x]
  BY <1>3, <1>4 DEF Types
<1>6. Types'
  BY <1>1, <1>3, <1>4 DEF Types
<1>7. LinksOK'
  BY <1>1, <1>3, <1>4, <1>5 DEF LinksOK, Exists, Types
<1>8. NoOne \notin Browsers
  BY Constants
<1>9. Frame(NoOne)
  <2>1. \A v \in Users : users[v].pwv <= users[v].pwv
    BY <1>3 DEF Types, RowType, Versions
  <2>2. \A x \in Tokens : tokens[x].st # "unsent" =>
          tokens'[x].st # "unsent" /\ tokens'[x].user = tokens[x].user
    BY <1>4, <1>5
  <2>3. \A x \in Tokens : \A e \in Browsers :
          locked[x] = e /\ at[e].token = x /\ tokens[x].st = "live" => tokens'[x].st = "live"
    BY <1>1, <1>5
  <2> QED
    BY <1>1, <2>1, <2>2, <2>3 DEF Frame, Exists, Admins
<1>10. Tallies'
  <2>1. \A v \in Users : failures'[v] <= failures[v]
    BY <1>1, <1>3 DEF Types
  <2> QED
    BY <1>1, <1>3, <1>6, <1>8, <2>1, TalliesKept
<1>11. RowsBlank' /\ Admins' # {}
  BY <1>1 DEF Inv, RowsBlank, Admins, Exists
<1> QED
  BY <1>6, <1>7, <1>8, <1>9, <1>10, <1>11, StepKeeps

-----------------------------------------------------------------------------
(* The invariant holds.                                                    *)

LEMMA InitInv ==
  ASSUME Init
  PROVE  Inv
<1>1. PICK cast \in Casts :
        users = [u \in Users |-> IF cast[u] = "none" THEN Absent ELSE Row(cast[u])]
  BY DEF Init
<1>2. cast \in [Users -> Roles \cup {"none"}]
  BY Constants
<1>3. PICK admin \in Users : cast[admin] = "super_admin"
  BY Constants
<1>4. \A u \in Users : /\ users[u] \in RowType
                       /\ users[u].pw = 0 /\ users[u].email = 0 /\ users[u].pwv = 0
                       /\ users[u] = Absent \/ users[u].role \in Roles
                       /\ cast[u] = "super_admin" => users[u].role = "super_admin" /\ users[u].active
  <2> TAKE u \in Users
  <2>1. CASE cast[u] = "none"
    BY <1>1, <2>1, AbsentFacts
  <2>2. CASE cast[u] # "none"
    <3>1. PICK role \in Roles : role = cast[u]
      BY <1>2, <2>2
    <3>2. PICK row : row = Row(role)
      OBVIOUS
    <3>3. /\ row \in RowType /\ row.role = role /\ row.active = TRUE
          /\ row.pw = 0 /\ row.email = 0 /\ row.pwv = 0
      BY <3>2, RowFacts
    <3>4. users[u] = row
      BY <1>1, <2>2, <3>1, <3>2
    <3> QED
      BY <3>1, <3>3, <3>4
  <2> QED
    BY <2>1, <2>2
<1>5. users \in [Users -> RowType]
  <2>1. users = [u \in Users |-> users[u]]
    BY <1>1
  <2> QED
    BY <1>4, <2>1
<1>6. requests \in {0, 1} /\ failures = [u \in Users |-> 0] /\ at = [b \in Browsers |-> Idle]
      /\ locked = [x \in Users \cup Roles \cup Tokens |-> NoOne] /\ spent = {}
  BY DEF Init
<1>7. /\ tokens \in [Tokens -> TokenType]
      /\ \A t \in Tokens : tokens[t].st = "live" => tokens[t].user \in Users /\ Exists(tokens[t].user)
  <2>1. [user |-> NoUser, st |-> "unsent"] \in TokenType
    BY DEF TokenType
  <2>2. \A u \in Users : [user |-> u, st |-> "live"] \in TokenType
    BY DEF TokenType
  <2>3. \/ tokens = [t \in Tokens |-> [user |-> NoUser, st |-> "unsent"]]
        \/ \E u \in Users :
             Exists(u) /\ tokens = [t \in Tokens |-> [user |-> u, st |-> "live"]]
    BY DEF Init
  <2> QED
    BY <2>1, <2>2, <2>3
<1>8. \A b \in Browsers : \/ cookie[b] = NoSession
                          \/ \E u \in Users : Exists(u) /\ cookie[b] = Session(u)
  BY DEF Init
<1>9. \A u \in Users : Exists(u) => Identity(u) \in Identities /\ Minted(Identity(u))
  <2> TAKE u \in Users
  <2> HAVE Exists(u)
  <2>1. users[u].role \in Roles /\ users[u].pw = 0 /\ users[u].email = 0 /\ users[u].pwv = 0
    BY <1>4, AbsentFacts DEF Exists
  <2>2. /\ Identity(u).sub = u /\ Identity(u).role = users[u].role /\ Identity(u).pwv = 0
        /\ Identity(u).under = <<users[u].pw, users[u].email>>
    BY <2>1 DEF Identity
  <2>3. Identity(u) \in Identities
    BY <2>1, Constants DEF Identity, Identities, Versions
  <2> QED
    BY <2>1, <2>2, <2>3 DEF Minted
<1>10. \A b \in Browsers : cookie[b] \in SessionType /\ CookieOK(b)
  <2> TAKE b \in Browsers
  <2>1. CASE cookie[b] = NoSession
    BY <2>1, NoSessionFacts DEF CookieOK
  <2>2. CASE \E u \in Users : Exists(u) /\ cookie[b] = Session(u)
    <3>1. PICK u \in Users : Exists(u) /\ cookie[b] = Session(u)
      BY <2>2
    <3>2. Identity(u) \in Identities /\ Minted(Identity(u))
      BY <1>9, <3>1
    <3>3. cookie[b].own = Identity(u) /\ ~Impersonating(cookie[b])
      BY <3>1 DEF Session, Impersonating
    <3>4. cookie[b] \in SessionType
      BY <3>1, <3>2, NoSessionFacts DEF Session, SessionType
    <3> QED
      BY <3>2, <3>3, <3>4 DEF CookieOK
  <2> QED
    BY <1>8, <2>1, <2>2
<1>11. cookie \in [Browsers -> SessionType]
  <2>1. cookie = [b \in Browsers |-> cookie[b]]
    BY DEF Init
  <2> QED
    BY <1>10, <2>1
<1>12. Types
  <2>1. requests \in 0 .. MaxRequests
    BY <1>6, Constants
  <2>2. failures \in [Users -> Nat] /\ spent \in SUBSET Tokens
    BY <1>6
  <2>3. at \in [Browsers -> RequestType]
    BY <1>6, IdleFacts
  <2>4. locked \in [Users \cup Roles \cup Tokens -> Browsers \cup {NoOne}]
    BY <1>6
  <2> QED
    BY <1>5, <1>7, <1>11, <2>1, <2>2, <2>3, <2>4 DEF Types
<1>13. RowsBlank
  BY <1>4, Constants DEF RowsBlank, Exists
<1>14. Tallies
  <2>1. Writers = {}
    BY <1>6, IdleFacts DEF Writers, Writing, Updating
  <2>2. \A u \in Users : Triers(u) = {}
    BY <1>6, IdleFacts DEF Triers, Trying
  <2>3. Cardinality({}) = 0
    BY FS_EmptySet
  <2> QED
    <3> SUFFICES ASSUME NEW u \in Users
                 PROVE  /\ users[u].pw >= 0 /\ users[u].email >= 0 /\ users[u].pwv >= 0
                        /\ users[u].pw + 0 <= requests /\ users[u].email + 0 <= requests
                        /\ users[u].pwv + 0 <= requests
                        /\ failures[u] + 0 <= MaxFailures + Cardinality(Browsers) - 1
      BY <2>1, <2>2, <2>3 DEF Tallies
    <3>1. failures[u] = 0 /\ requests \in {0, 1}
      BY <1>6
    <3>2. users[u].pw = 0 /\ users[u].email = 0 /\ users[u].pwv = 0
      BY <1>4
    <3> QED
      BY <3>1, <3>2, Constants
<1>15. LinksOK
  BY <1>6, <1>7 DEF LinksOK
<1>16. Admins # {}
  BY <1>3, <1>4 DEF Admins
<1>17. \A b \in Browsers : RequestFits(b, at[b])
  BY <1>6, IdleFacts DEF RequestFits, Updating, Forms, OwnForm, HoldsUser, HasToken, HoldsToken
<1> QED
  BY <1>10, <1>12, <1>13, <1>14, <1>15, <1>16, <1>17 DEF Inv

LEMMA StepInv ==
  ASSUME Inv, [Next]_vars
  PROVE  Inv'
<1>1. ASSUME NEW b \in Browsers, Start(b) PROVE Inv'
  BY <1>1, LoginStep, ImpersonateStep, StopImpersonatingStep, StartCreateStep, StartUpdateStep,
     StartResetStep, StartViewerUpdateStep, StartViewerResetStep, StartChangeStep, StartForgotStep,
     StartLinkStep DEF Start
<1>2. ASSUME NEW b \in Browsers, Proceed(b) PROVE Inv'
  <2>1. CASE DeadlockVictim(b)
    BY <2>1, GiveUpStep DEF DeadlockVictim
  <2>2. CASE Mint(b) \/ MintImpersonated(b) \/ AuditFailure(b) \/ IssueToken(b)
    BY <2>2, MintStep, MintImpersonatedStep, AuditFailureStep, IssueTokenStep
  <2>3. CASE LockUser(b) \/ LockRole(b) \/ CountSupers(b) \/ LockSelf(b)
               \/ RetireTokens(b) \/ LockToken(b) \/ SetPassword(b)
    BY <2>3, LockUserStep, LockRoleStep, CountSupersStep, LockSelfStep, RetireTokensStep,
       LockTokenStep, SetPasswordStep
  <2>4. CASE CreateUser(b) \/ UpdateUser(b) \/ ResetPassword(b) \/ ChangeOwnPassword(b)
               \/ CompleteReset(b)
    BY <2>4, CreateUserStep, UpdateUserStep, ResetPasswordStep, ChangeOwnPasswordStep,
       CompleteResetStep
  <2> QED
    BY <1>2, <2>1, <2>2, <2>3, <2>4 DEF Proceed
<1>3. ASSUME NEW b \in Browsers, LeaveSession(b) PROVE Inv'
  BY <1>3, LeaveSessionStep
<1>4. ASSUME NEW u \in Users, WindowMoves(u) PROVE Inv'
  BY <1>4, WindowMovesStep
<1>5. ASSUME NEW t \in Tokens, TokenExpires(t) PROVE Inv'
  BY <1>5, TokenExpiresStep
<1>6. CASE UNCHANGED vars
  <2>1. UNCHANGED <<users, tokens, failures, cookie, at, locked, spent, requests>>
    BY <1>6 DEF vars
  <2>2. Types' /\ RowsBlank' /\ LinksOK' /\ Admins' # {}
    BY <2>1 DEF Inv, Types, RowsBlank, LinksOK, Admins, Exists
  <2>3. Tallies'
    BY <2>1 DEF Inv, Tallies, Writers, Triers
  <2>4. \A b \in Browsers : CookieOK(b)'
    BY <2>1 DEF Inv, CookieOK, Minted
  <2>5. \A b \in Browsers : RequestFits(b, at[b])'
    <3> TAKE b \in Browsers
    <3>1. PICK r : r = at[b]
      OBVIOUS
    <3>2. RequestFits(b, r) /\ at'[b] = r
      BY <2>1, <3>1 DEF Inv
    <3>3. RequestFits(b, r)'
      BY <2>1, <3>2, StillFits
    <3> QED
      BY <3>2, <3>3
  <2> QED
    BY <2>2, <2>3, <2>4, <2>5 DEF Inv
<1> QED
  BY <1>1, <1>2, <1>3, <1>4, <1>5, <1>6 DEF Next

LEMMA Invariance == Spec => []Inv
<1>1. Init => Inv
  BY InitInv
<1>2. Inv /\ [Next]_vars => Inv'
  BY StepInv
<1> QED
  BY <1>1, <1>2, PTL DEF Spec

-----------------------------------------------------------------------------
(* The properties.                                                         *)

LEMMA InvTypeOK ==
  ASSUME Inv
  PROVE  TypeOK
<1>1. Types /\ Tallies
  BY DEF Inv
<1>2. failures \in [Users -> 0 .. MaxFailures + Cardinality(Browsers) - 1]
  <2>1. ASSUME NEW u \in Users
        PROVE  failures[u] \in 0 .. MaxFailures + Cardinality(Browsers) - 1
    <3>1. Cardinality(Triers(u)) \in Nat
      BY Constants, FS_Subset, FS_CardinalityType DEF Triers
    <3>2. failures[u] \in Nat
          /\ failures[u] + Cardinality(Triers(u)) <= MaxFailures + Cardinality(Browsers) - 1
      BY <1>1 DEF Types, Tallies
    <3> HIDE DEF Triers
    <3> QED
      BY <3>1, <3>2, Constants
  <2> QED
    BY <1>1, <2>1 DEF Types
<1> QED
  BY <1>1, <1>2 DEF TypeOK, Types, RowType, TokenType, SessionType, RequestType, FormType

\* What a session with some access to the reports is offered, it may open.
LEMMA NavIsOpen ==
  ASSUME NEW perms, perms \cap Reporting # {}, NEW impersonating, NEW role, NEW route \in Nav(role, perms)
  PROVE  Passes(perms, impersonating, route, "GET") /\ Renders(perms, route)
<1>1. CASE route = "/shortcodes"
  BY <1>1 DEF Nav, Passes, RequiredPerms, Renders
<1>2. CASE route = "/operators"
  BY <1>2 DEF Nav, Passes, RequiredPerms, Renders
<1>3. CASE route = "/users"
  BY <1>3 DEF Nav, Passes, RequiredPerms, Renders, UsersView
<1>4. CASE route = "/audit"
  BY <1>4 DEF Nav, Passes, RequiredPerms, Renders
<1>5. CASE route = "/archive"
  BY <1>5 DEF Nav, Passes, RequiredPerms, Renders
<1>6. CASE route \in {"/", "/summary", "/sessions", "/reports", "/exports", "/integration",
                      "/simulator", "/account", "/my-shortcodes"}
  BY <1>6 DEF Passes, RequiredPerms, Renders
<1> QED
  BY <1>1, <1>2, <1>3, <1>4, <1>5, <1>6 DEF Nav

\* Every role has some, and so has who views as it.
LEMMA ReportingRoles ==
  ASSUME NEW role \in Roles
  PROVE  /\ PermsOf[role] \cap Reporting # {}
         /\ \A actor \in Impersonators :
              ImpersonatedPerms(PermsOf[actor], PermsOf[role]) \cap Reporting # {}
<1>1. "reports.view_own" \in PermsOf[role] \/ "reports.view_all" \in PermsOf[role]
  BY DEF Roles, PermsOf, Perms, ClientPerms, ViewerPerms, AuditorPerms
<1>2. \A actor \in Impersonators : "reports.view_all" \in PermsOf[actor]
  BY DEF Impersonators, Roles, PermsOf, Perms, AuditorPerms
<1>3. Implied("reports.view_all") = {"reports.view_own"}
  BY DEF Implied
<1>4. \A actor \in Impersonators : {"reports.view_all", "reports.view_own"} \subseteq ExpandPerms(PermsOf[actor])
  BY <1>2, <1>3 DEF ExpandPerms
<1> QED
  BY <1>1, <1>4 DEF ImpersonatedPerms, Reporting

LEMMA InvNavigationOpens ==
  ASSUME Inv
  PROVE  NavigationOpens
<1> SUFFICES ASSUME NEW b \in Browsers, cookie[b] # NoSession,
                    NEW route \in Nav(cookie[b].own.role, PermsIn(cookie[b]))
             PROVE  /\ Passes(PermsIn(cookie[b]), Impersonating(cookie[b]), route, "GET")
                    /\ Renders(PermsIn(cookie[b]), route)
  BY DEF NavigationOpens
<1>1. /\ cookie[b].own.role \in Roles
      /\ Impersonating(cookie[b]) => cookie[b].imp.role \in Impersonators
  BY DEF Inv, CookieOK, Minted
<1>2. PermsIn(cookie[b]) \cap Reporting # {}
  BY <1>1, ReportingRoles DEF PermsIn
<1> QED
  BY <1>2, NavIsOpen

LEMMA InvSessionsFollow ==
  ASSUME Inv
  PROVE  SessionsFollowCredentials
<1> SUFFICES ASSUME NEW b \in Browsers, Accepted(cookie[b]),
                    NEW id \in {cookie[b].own, cookie[b].imp} \ {NoIdentity}
             PROVE  id.under = <<users[id.sub].pw, users[id.sub].email>>
  BY DEF SessionsFollowCredentials
<1>1. CookieOK(b) /\ cookie[b] # NoSession
  BY DEF Inv, Accepted
<1>2. Minted(id)
  BY <1>1 DEF CookieOK, Impersonating
<1>3. users[id.sub].pwv = id.pwv
  BY DEF Accepted, UserStillValid, Impersonating
<1> QED
  BY <1>2, <1>3 DEF Minted

\* The state invariants the runs check follow from the invariant.
LEMMA InvImplies ==
  ASSUME Inv
  PROVE  LastAdminKept /\ WritesAreOwn /\ LinksDieTogether
<1>1. LastAdminKept
  BY DEF Inv, Admins, LastAdminKept
<1>2. WritesAreOwn
  BY DEF Inv, RequestFits, WritesAreOwn, Forms, Updating
<1>3. LinksDieTogether
  BY DEF Inv, RequestFits, LinksOK, LinksDieTogether, HasToken, HoldsToken
<1> QED
  BY <1>1, <1>2, <1>3

\* Every variable keeps to its type, whatever the requests: the versions of a
\* row never outrun the requests made, and the throttle of /account, which
\* counts the failures first and records its own last, lets at most one more
\* through per browser.
THEOREM TypeCorrect == Spec => []TypeOK
  BY Invariance, InvTypeOK, PTL

\* An active super administrator remains, although the edits that could demote
\* two of them at once count the others without locking their rows: each holds
\* the row of the role "super_admin" from before it counts until it commits.
THEOREM AnAdministratorRemains == Spec => []LastAdminKept
  BY Invariance, InvImplies, PTL

\* A cookie getSession accepts was minted under the present password and
\* address of its user, and so was the impersonator's half of it: every write
\* of either moves the version on, and the version never comes back.
THEOREM SessionsFollow == Spec => []SessionsFollowCredentials
  BY Invariance, InvSessionsFollow, PTL

\* No request of an impersonating session is at a statement that writes:
\* middleware.ts turned it away, and the cookie cannot change under a request.
THEOREM OwnWrites == Spec => []WritesAreOwn
  BY Invariance, InvImplies, PTL

\* Every link the layout offers a session is opened by the route guard and
\* rendered by its page, for each of the roles and each pair of an impersonator
\* and the user viewed: all of them keep some access to the reports.
THEOREM OfferedLinksOpen == Spec => []NavigationOpens
  BY Invariance, InvNavigationOpens, PTL

\* A reset link that was live when a reset of its user completed does not get
\* to set a password: completing a reset kills every live link of the user, and
\* a request that holds one locked finds it live until it is done.
THEOREM SpentLinksAreDead == Spec => []LinksDieTogether
  BY Invariance, InvImplies, PTL

\* When a user's own change of the password is written, the password typed as
\* the current one still is: the row stays locked from the check to the commit.
THEOREM ChangesProveCurrent == Spec => ChangeProvesCurrent
<1> DEFINE Proved == \A b \in Browsers : at[b].stage = "change" /\ at'[b].stage # "change"
                       => at[b].form.guess = users[at[b].user].pw
<1>1. Inv => Proved
  BY DEF Inv, RequestFits
<1>2. Inv /\ [Next]_vars => [Proved]_vars
  BY <1>1
<1> QED
  BY <1>2, Invariance, PTL DEF Spec, ChangeProvesCurrent
=============================================================================
