------------------------ MODULE GatewaySessionsProofs ------------------------
(***************************************************************************)
(* Theorems about UssdGateway on what a session goes through from its dial *)
(* to its end, for any sessions, codes, legs and workers: its rows are     *)
(* opened by dialling, its trail is whole, its handler will hear of its    *)
(* end, and hears of it once.  They hold where the environment is gentle:  *)
(* nothing fails, and either legs of a session overlap at one worker or    *)
(* they come late, not both.                                               *)
(***************************************************************************)
EXTENDS UssdGatewayProofs

-----------------------------------------------------------------------------
(* The environments.                                                       *)

OneLoop == env \subseteq {"overlap"}
Quiet   == env \subseteq {"late"}
Gentle  == OneLoop \/ Quiet

\* Late legs of Tigo reopen no row (HoldersCovered).
Cov(s) == Orderly \/ (env = {"late"} /\ OpOf[s] # "tigo")

-----------------------------------------------------------------------------
(* The invariant.                                                          *)

\* A leg in Unanswered.
Open(l) ==
    \/ leg[l].pc \in Holding
    \/ leg[l].pc \in {"await", "reply"} /\ leg[l].ev \in Menu
    \/ leg[l].pc = "push" /\ leg[l].reply = "END"

Saving  == {"parse", "save"}
Reading(l) == leg[l].pc \in Saving /\ leg[l].ev \in Menu

\* The loops, the wires and the legs not received.
Basic ==
    /\ \A l \in Leg : leg[l].pc \in Holding => leg[l].w \in Worker /\ loop[leg[l].w] = l
    /\ \A l \in Leg : leg[l].pc = "idle" => leg[l] = Blank
    /\ \A l \in Leg : leg[l].pc = "save" \/ (leg[l].pc = "parse" /\ Op(l) = "airtel") => leg[l].ev \in Menu
    /\ \A l \in Leg : leg[l].pc = "end" => leg[l].ev \in Terminal
    /\ \A l \in wire : leg[l].pc = "await" /\ status[leg[l].code] = "active"
    /\ \A b \in nwire : notice[b].st \notin {"none", "claimed"}
    /\ \A b \in Leg : notice[b].st = "none" => notice[b].s = None

\* One event loop has the unanswered legs of a session, and with nothing but
\* late legs there is one such leg at a time.  No row gets old enough for the
\* sweep.
Company(s) ==
    /\ \A l, k \in Leg : leg[l].s = s /\ leg[k].s = s /\ Open(l) /\ Open(k)
         => leg[l].w = leg[k].w /\ (Quiet => l = k)
    /\ dialed[s] = None => rows[s] = NoRow /\ \A l \in Leg : leg[l].s # s
    /\ rows[s] # NoRow => rows[s].age <= MaxAge

\* With one loop for the session: a row in use is not idle, a leg finds what
\* the legs before it left, and the trail counts the inputs.
InOrderLeg(l, s) ==
    /\ Open(l) /\ rows[s] # NoRow => rows[s].age <= IdleOf(s)
    /\ leg[l].pc \in Saving /\ leg[l].ev = "START" =>
         rows[s] = NoRow /\ leg[l].prior = NoRow /\ leg[l].n = 0 /\ typed[s] = 0
    /\ leg[l].pc \in Saving \cup {"end"} /\ leg[l].ev # "START" => rows[s] # NoRow
    /\ leg[l].pc \in Saving /\ leg[l].ev = "INPUT" =>
         leg[l].n = typed[s] /\ rows[s].trail + 1 = typed[s]
    /\ leg[l].pc = "save" /\ leg[l].ev = "INPUT" =>
         leg[l].prior # NoRow /\ leg[l].prior.trail = rows[s].trail
    /\ l \in wire /\ leg[l].ev \in Menu => leg[l].trail = leg[l].n

InOrder(s) ==
    /\ \A l \in Leg : leg[l].s = s => InOrderLeg(l, s)
    /\ rows[s] # NoRow /\ (\A l \in Leg : leg[l].s = s => ~Reading(l)) => rows[s].trail = typed[s]

\* A leg that is about to delete its session's row, whose handler has no state.
Ending(l) ==
    \/ leg[l].pc = "reply" /\ leg[l].ev \in Menu /\ leg[l].reply # "CON"
    \/ leg[l].pc = "push" /\ leg[l].reply = "END"
    \/ leg[l].pc = "expire"

\* What covers a handler's state.
CoveredLeg(l, s) ==
    /\ leg[l].pc \in Saving /\ leg[l].ev = "START" => rows[s] = NoRow
    /\ leg[l].pc = "save" => /\ rows[s] # NoRow => rows[s].code = CodeAfter(l)
                             /\ ~Writes(l) => CodeAfter(l) = None
    /\ leg[l].pc = "end" /\ rows[s] # NoRow => rows[s].code = leg[l].code
    /\ leg[l].pc \in {"await", "reply"} /\ leg[l].ev \in Menu =>
         rows[s] # NoRow /\ rows[s].code = leg[l].code /\ rows[s].age <= IdleOf(s)
    /\ Ending(l) /\ rows[s] # NoRow => <<s, rows[s].code>> \notin holds

Covered(s) ==
    /\ \A l \in Leg : leg[l].s = s => CoveredLeg(l, s)
    /\ \A c \in Code : <<s, c>> \in holds => status[c] = "active"
    /\ \A c \in Code : WillBeTold(s, c)

\* The notifications of the end that a handler has still to process.
LegTells(l, s)    == l \in wire /\ leg[l].ev \in Terminal /\ leg[l].s = s
NoticeTells(b, s) == notice[b].s = s /\ (notice[b].st = "claimed" \/ b \in nwire)
Telling(s)        == \E l \in Leg : LegTells(l, s) \/ NoticeTells(l, s)
Dialling(s)       == \E l \in Leg : leg[l].s = s /\ leg[l].pc \in Saving /\ leg[l].ev = "START"

\* With orderly networks, one notification at most, of a session that is over.
ToldOnce(s) ==
    /\ told[s] # 0 \/ Telling(s) => rows[s] = NoRow /\ ~Dialling(s)
    /\ \A l, k \in Leg : /\ LegTells(l, s) /\ LegTells(k, s) => l = k
                         /\ NoticeTells(l, s) /\ NoticeTells(k, s) => l = k
                         /\ ~(LegTells(l, s) /\ NoticeTells(k, s))
    /\ Telling(s) => told[s] = 0
    /\ told[s] <= 1
    /\ s \in ended =>
         /\ ~Telling(s) /\ ~Dialling(s)
         /\ rows[s] # NoRow => \E l \in Leg : leg[l].s = s /\ Ending(l) /\ leg[l].pc # "expire"

SessionInv(s) ==
    /\ Company(s)
    /\ OneLoop => InOrder(s)
    /\ Cov(s) => Covered(s)
    /\ Orderly => ToldOnce(s)

GentleInv == Gentle => Basic /\ \A s \in Session : SessionInv(s)

-----------------------------------------------------------------------------
(* Sessions that a step leaves alone.                                      *)

Apart(s) ==
    /\ env' = env /\ status' = status
    /\ rows'[s] = rows[s] /\ dialed'[s] = dialed[s] /\ typed'[s] = typed[s] /\ told'[s] = told[s]
    /\ s \in ended' <=> s \in ended
    /\ \A l \in Leg : leg[l].s = s \/ leg'[l].s = s => leg'[l] = leg[l] /\ (l \in wire' <=> l \in wire)
    /\ \A b \in Leg : notice[b].s = s \/ notice'[b].s = s =>
         notice'[b] = notice[b] /\ (b \in nwire' <=> b \in nwire)
    /\ \A c : <<s, c>> \in holds' <=> <<s, c>> \in holds

\* A session that a step sets apart keeps everything its invariant says.
LEMMA ApartKeeps ==
    ASSUME NEW s \in Session, Apart(s), SessionInv(s), nwire \subseteq Leg, nwire' \subseteq Leg,
           wire \subseteq Leg, wire' \subseteq Leg
    PROVE  SessionInv(s)'
  <1>1. OneLoop' = OneLoop /\ Quiet' = Quiet /\ Cov(s)' = Cov(s) /\ Orderly' = Orderly
    BY DEF Apart, OneLoop, Quiet, Cov, Orderly
  <1>2. ASSUME NEW l \in Leg, leg'[l] = leg[l]
        PROVE  /\ Open(l)' <=> Open(l)
               /\ Reading(l)' <=> Reading(l)
               /\ Ending(l)' <=> Ending(l)
               /\ CodeAfter(l)' = CodeAfter(l)
               /\ Writes(l)' <=> Writes(l)
    BY <1>2 DEF Open, Reading, Ending, CodeAfter, Writes, Op
  <1>3. \A l \in Leg : leg'[l].s = s <=> leg[l].s = s
    BY DEF Apart
  <1>4. \A b \in Leg : notice'[b].s = s <=> notice[b].s = s
    BY DEF Apart
  <1>5. Company(s)'
    BY <1>1, <1>2, <1>3 DEF SessionInv, Company, Apart
  <1>6. ASSUME OneLoop PROVE InOrder(s)'
    <2>1. InOrder(s)
      BY <1>6 DEF SessionInv
    <2>2. ASSUME NEW l \in Leg, leg'[l].s = s PROVE InOrderLeg(l, s)'
      <3>1. InOrderLeg(l, s) /\ leg'[l] = leg[l] /\ (l \in wire' <=> l \in wire)
            /\ rows'[s] = rows[s] /\ typed'[s] = typed[s]
        BY <1>3, <2>1, <2>2 DEF InOrder, Apart
      <3>2. Open(l)' <=> Open(l)
        BY <1>2, <3>1
      <3>. QED  BY <3>1, <3>2 DEF InOrderLeg
    <2>3. rows'[s] = rows[s] /\ typed'[s] = typed[s]
      BY DEF Apart
    <2>4. \A l \in Leg : leg[l].s = s => (Reading(l)' <=> Reading(l))
      BY <1>2 DEF Apart
    <2>. QED  BY <1>3, <2>1, <2>2, <2>3, <2>4 DEF InOrder
  <1>7. ASSUME Cov(s) PROVE Covered(s)'
    <2>1. Covered(s)
      BY <1>7 DEF SessionInv
    <2>2. ASSUME NEW l \in Leg, leg'[l].s = s PROVE CoveredLeg(l, s)'
      <3>1. CoveredLeg(l, s) /\ leg'[l] = leg[l] /\ rows'[s] = rows[s]
            /\ \A c : <<s, c>> \in holds' <=> <<s, c>> \in holds
        BY <1>3, <2>1, <2>2 DEF Covered, Apart
      <3>2. (Ending(l)' <=> Ending(l)) /\ CodeAfter(l)' = CodeAfter(l) /\ (Writes(l)' <=> Writes(l))
        BY <1>2, <3>1
      <3>. QED  BY <3>1, <3>2 DEF CoveredLeg
    <2>3. ASSUME NEW c \in Code PROVE WillBeTold(s, c)'
      <3>1. WillBeTold(s, c)
        BY <2>1 DEF Covered
      <3>2. OnItsWay(s, c) => OnItsWay(s, c)'
        BY DEF OnItsWay, Apart
      <3>. QED  BY <3>1, <3>2 DEF WillBeTold, Apart
    <2>. QED  BY <2>1, <2>2, <2>3 DEF Covered, Apart
  <1>8. ASSUME Orderly PROVE ToldOnce(s)'
    <2>1. ToldOnce(s)
      BY <1>8 DEF SessionInv
    <2>2. \A l \in Leg : (LegTells(l, s)' <=> LegTells(l, s)) /\ (NoticeTells(l, s)' <=> NoticeTells(l, s))
      BY <1>3, <1>4 DEF LegTells, NoticeTells, Apart
    <2>3. Telling(s)' <=> Telling(s)
      BY <2>2 DEF Telling
    <2>4. Dialling(s)' <=> Dialling(s)
      BY <1>3 DEF Dialling, Apart
    <2>5. rows'[s] = rows[s] /\ told'[s] = told[s] /\ (s \in ended' <=> s \in ended)
      BY DEF Apart
    <2>6. s \in ended /\ rows[s] # NoRow => \E l \in Leg : leg'[l].s = s /\ Ending(l)' /\ leg'[l].pc # "expire"
      BY <1>2, <1>3, <2>1 DEF ToldOnce, Apart
    <2>. QED  BY <2>1, <2>2, <2>3, <2>4, <2>5, <2>6 DEF ToldOnce
  <1>. QED  BY <1>1, <1>5, <1>6, <1>7, <1>8 DEF SessionInv

-----------------------------------------------------------------------------
(* Steps of one leg.                                                       *)

\* What a step of a leg leaves alone.
Touches(l) ==
    /\ leg[l].s \in Session
    /\ leg'[l].s = leg[l].s /\ leg'[l].w = leg[l].w /\ leg'[l].n = leg[l].n
    /\ \A k \in Leg \ {l} : leg'[k] = leg[k] /\ (k \in wire' <=> k \in wire)
    /\ \A s \in Session \ {leg[l].s} :
         /\ rows'[s] = rows[s] /\ told'[s] = told[s] /\ (s \in ended' <=> s \in ended)
         /\ \A c : <<s, c>> \in holds' <=> <<s, c>> \in holds
    /\ UNCHANGED <<env, status, dialed, typed, notice, nwire>>

\* The steps of a leg set every other session apart.
LEMMA TouchesApart ==
    ASSUME NEW l \in Leg, Touches(l), NEW s \in Session, s # leg[l].s
    PROVE  Apart(s)
  BY DEF Touches, Apart

\* No other leg of the session holds a loop while one steps.
LEMMA Sole ==
    ASSUME Basic, NEW s \in Session, Company(s), NEW l \in Leg, NEW k \in Leg,
           leg[l].s = s, leg[k].s = s, Open(l), leg[k].pc \in Holding,
           leg[l].pc \in Holding \/ Free(leg[l].w)
    PROVE  k = l
  <1>1. leg[l].w = leg[k].w /\ loop[leg[k].w] = k
    BY DEF Basic, Company, Open
  <1>2. CASE leg[l].pc \in Holding
    BY <1>1, <1>2 DEF Basic
  <1>3. CASE Free(leg[l].w)
    BY <1>1, <1>3, NoneAssumption DEF Free
  <1>. QED  BY <1>2, <1>3

\* With late legs only, no other leg of it is unanswered.
LEMMA Lonely ==
    ASSUME Quiet, NEW s \in Session, Company(s), NEW l \in Leg, NEW k \in Leg,
           leg[l].s = s, leg[k].s = s, Open(l), Open(k)
    PROVE  k = l
  BY DEF Company

\* A leg's step that opens nothing and leaves no old row keeps its company.
LEMMA CompanyKept ==
    ASSUME NEW l \in Leg, Touches(l), Company(leg[l].s), Open(l)' => Open(l),
           rows'[leg[l].s] # NoRow => rows'[leg[l].s].age <= MaxAge
    PROVE  \A s \in Session : s = leg[l].s => Company(s)'
  <1> SUFFICES ASSUME NEW s \in Session, s = leg[l].s PROVE Company(s)'
    OBVIOUS
  <1>1. \A k \in Leg : /\ leg'[k].s = leg[k].s /\ leg'[k].w = leg[k].w
                       /\ Open(k)' => Open(k)
    BY DEF Touches, Open
  <1>2. dialed[s] # None /\ dialed' = dialed
    BY DEF Touches, Company
  <1>3. Quiet' = Quiet
    BY DEF Touches, Quiet
  <1>. QED  BY <1>1, <1>2, <1>3 DEF Company

\* What a step leaves of the loops, the wires and the unused legs.
LEMMA BasicKept ==
    ASSUME TypeInv, Basic, NEW l \in Leg, Touches(l), leg[l].pc # "idle", leg'[l].pc # "idle",
           \/ leg'[l].pc \in Holding /\ leg[l].pc \in Holding /\ loop' = loop
           \/ leg'[l].pc \notin Holding /\ leg[l].pc \in Holding /\ loop' = [loop EXCEPT ![leg[l].w] = None]
           \/ leg'[l].pc \notin Holding /\ loop' = loop,
           leg'[l].pc # "parse", leg'[l].pc = "save" => leg'[l].ev \in Menu,
           leg'[l].pc = "end" => leg'[l].ev \in Terminal, wire' \subseteq Leg,
           l \in wire' => leg'[l].pc = "await" /\ status[leg'[l].code] = "active"
    PROVE  Basic'
  <1>1. \A k \in Leg \ {l} : leg'[k] = leg[k] /\ (k \in wire' <=> k \in wire)
    BY DEF Touches
  <1>2. ASSUME NEW k \in Leg, leg'[k].pc \in Holding
        PROVE  leg'[k].w \in Worker /\ loop'[leg'[k].w] = k
    <2>1. leg[k].pc \in Holding /\ leg'[k].w = leg[k].w
      BY <1>1, <1>2 DEF Touches
    <2>2. leg[k].w \in Worker /\ loop[leg[k].w] = k
      BY <2>1 DEF Basic
    <2>3. k # l /\ leg[l].pc \in Holding => leg[l].w # leg[k].w
      BY <2>2 DEF Basic
    <2>4. loop \in [Worker -> Leg \cup {None}]
      BY DEF TypeInv, RestOK
    <2>. QED  BY <1>2, <2>1, <2>2, <2>3, <2>4
  <1>3. \A k \in Leg : leg'[k].pc = "idle" => leg'[k] = Blank
    BY <1>1 DEF Basic
  <1>4. \A k \in Leg : leg'[k].pc = "save" \/ (leg'[k].pc = "parse" /\ OpOf[leg'[k].s] = "airtel")
          => leg'[k].ev \in Menu
    BY <1>1 DEF Basic, Op
  <1>5. \A k \in Leg : leg'[k].pc = "end" => leg'[k].ev \in Terminal
    BY <1>1 DEF Basic
  <1>6. ASSUME NEW k \in wire' PROVE leg'[k].pc = "await" /\ status'[leg'[k].code] = "active"
    <2>1. status' = status
      BY DEF Touches
    <2>2. CASE k = l
      BY <1>6, <2>1, <2>2
    <2>3. CASE k # l /\ k \in Leg
      BY <1>1, <1>6, <2>1, <2>3 DEF Basic
    <2>. QED  BY <1>6, <2>2, <2>3
  <1>7. /\ \A b \in nwire' : notice'[b].st \notin {"none", "claimed"}
        /\ \A b \in Leg : notice'[b].st = "none" => notice'[b].s = None
    BY DEF Touches, Basic
  <1>. QED  BY <1>2, <1>3, <1>4, <1>5, <1>6, <1>7 DEF Basic, Op

-----------------------------------------------------------------------------
(* What each step of a leg does to its record and to its session.          *)

\* The rows, the handlers and the counts of a session, as they were.
Still(s) ==
    /\ rows'[s] = rows[s] /\ told'[s] = told[s] /\ (s \in ended' <=> s \in ended)
    /\ \A c : <<s, c>> \in holds' <=> <<s, c>> \in holds

\* Lookup gives the leg its event and what it found.
LEMMA LookupFacts ==
    ASSUME TypeInv, Basic, NEW l \in Leg, Lookup(l), NEW s \in Session, s = leg[l].s
    PROVE  /\ Touches(l) /\ Still(s) /\ leg[l].pc = "parse" /\ wire' = wire
           /\ \/ /\ leg'[l].pc = "save" /\ leg'[l].ev \in Menu /\ leg'[l].prior = rows[s]
                 /\ leg'[l].code = leg[l].code /\ loop' = loop /\ leg[l].ev \in Menu
                 /\ OpOf[s] # "airtel" => leg'[l].ev = leg[l].ev
                 /\ OpOf[s] = "airtel" => (leg'[l].ev = "START" <=> rows[s] = NoRow)
              \/ /\ leg'[l].pc = "end" /\ leg'[l].ev \in Terminal /\ leg'[l].code = rows[s].code
                 /\ loop' = loop /\ leg[l].ev \notin Menu
              \/ /\ leg'[l].pc = "done" /\ loop' = [loop EXCEPT ![leg[l].w] = None]
                 /\ leg[l].ev \notin Menu
  <1>1. leg[l] \in LegRecord /\ leg \in [Leg -> LegRecord] /\ leg[l].pc = "parse"
        /\ OpOf[s] = Op(l) /\ leg[l].ev \in Wire
    BY LegType DEF Lookup, Op, LegRecord
  <1>2. OpOf[s] = "airtel" => leg[l].ev \in Menu
    BY <1>1 DEF Basic
  <1>3. Still(s) /\ wire' = wire
    BY DEF Lookup, Still, table, context
  <1>4. PICK ev \in Wire :
          /\ OpOf[s] = "airtel" => ev = IF rows[s] = NoRow THEN "START" ELSE "INPUT"
          /\ ev \in Menu <=> leg[l].ev \in Menu
          /\ OpOf[s] # "airtel" /\ leg[l].ev \in Menu => ev = leg[l].ev
          /\ \/ /\ ev \in Menu /\ loop' = loop
                /\ leg' = [leg EXCEPT ![l].pc = "save", ![l].ev = ev, ![l].prior = rows[s]]
             \/ /\ ev \in Terminal /\ loop' = loop
                /\ leg' = [leg EXCEPT ![l].pc = "end", ![l].ev = ev, ![l].code = rows[s].code]
             \/ /\ ev \notin Menu /\ ev \notin Terminal /\ loop' = [loop EXCEPT ![leg[l].w] = None]
                /\ leg' = [leg EXCEPT ![l].pc = "done"]
    <2> DEFINE ev == CASE Op(l) = "airtel" -> IF rows[s] = NoRow THEN "START" ELSE "INPUT"
                       [] Op(l) = "vodacom" /\ leg[l].ev = "CANCEL" /\ rows[s] # NoRow ->
                              IF rows[s].age >= ProviderCutoff THEN "TIMEOUT" ELSE "CANCEL"
                       [] OTHER -> leg[l].ev
    <2>1. /\ ev \in Wire
          /\ OpOf[s] = "airtel" => ev = IF rows[s] = NoRow THEN "START" ELSE "INPUT"
          /\ ev \in Menu <=> leg[l].ev \in Menu
          /\ OpOf[s] # "airtel" /\ leg[l].ev \in Menu => ev = leg[l].ev
      BY <1>1, <1>2 DEF Wire, Menu
    <2>2. CASE ev \in Menu
      BY <2>1, <2>2 DEF Lookup
    <2>3. CASE ev \in Terminal
      <3>1. ev \notin Menu
        BY <2>3 DEF Menu, Terminal
      <3>. QED  BY <2>1, <2>3, <3>1 DEF Lookup
    <2>4. CASE ev \notin Menu /\ ev \notin Terminal
      BY <2>1, <2>4 DEF Lookup
    <2>. QED  BY <2>2, <2>3, <2>4
  <1>5. /\ \A k \in Leg \ {l} : leg'[k] = leg[k]
        /\ leg'[l].s = leg[l].s /\ leg'[l].w = leg[l].w /\ leg'[l].n = leg[l].n
    BY <1>1, <1>4 DEF LegRecord
  <1>6. Touches(l)
    BY <1>1, <1>3, <1>5 DEF Touches, Still, Lookup, table, context, notices
  <1>7. ev \in Menu => /\ leg'[l].pc = "save" /\ leg'[l].ev = ev /\ leg'[l].prior = rows[s]
                       /\ leg'[l].code = leg[l].code /\ loop' = loop
    BY <1>1, <1>4 DEF LegRecord, Menu, Terminal
  <1>8. ev \in Terminal => leg'[l].pc = "end" /\ leg'[l].ev = ev /\ leg'[l].code = rows[s].code /\ loop' = loop
    BY <1>1, <1>4 DEF LegRecord, Menu, Terminal
  <1>9. ev \notin Menu /\ ev \notin Terminal => leg'[l].pc = "done" /\ loop' = [loop EXCEPT ![leg[l].w] = None]
    BY <1>1, <1>4 DEF LegRecord
  <1>10. CASE ev \in Menu
    <2>1. OpOf[s] = "airtel" => (leg'[l].ev = "START" <=> rows[s] = NoRow)
      BY <1>4, <1>7, <1>10
    <2>. QED  BY <1>1, <1>3, <1>4, <1>6, <1>7, <1>10, <2>1
  <1>11. CASE ev \in Terminal /\ ev \notin Menu
    BY <1>1, <1>3, <1>4, <1>6, <1>8, <1>11
  <1>12. CASE ev \notin Terminal /\ ev \notin Menu
    BY <1>1, <1>3, <1>4, <1>6, <1>9, <1>12
  <1>. QED  BY <1>10, <1>11, <1>12

\* Save writes the row and forwards the leg, or answers with an END.
LEMMA SaveFacts ==
    ASSUME TypeInv, Basic, NEW l \in Leg, Save(l), NEW s \in Session, s = leg[l].s
    PROVE  /\ Touches(l) /\ leg[l].pc = "save"
           /\ rows'[s] = IF Writes(l) THEN Upserted(rows[s], CodeAfter(l), TrailAfter(l), l) ELSE rows[s]
           /\ told' = told /\ ended' = ended /\ holds' = holds
           /\ leg'[l].pc = Dispatch(l) /\ leg'[l].code = CodeAfter(l) /\ leg'[l].trail = TrailAfter(l)
           /\ leg'[l].ev = leg[l].ev
           /\ leg'[l].reply = IF Dispatch(l) = "await" THEN "none" ELSE "END"
           /\ wire' = IF Dispatch(l) = "await" THEN wire \cup {l} ELSE wire
           /\ loop' = IF Dispatch(l) = "expire" THEN loop ELSE [loop EXCEPT ![leg[l].w] = None]
  <1>1. leg[l] \in LegRecord /\ leg \in [Leg -> LegRecord] /\ leg[l].pc = "save"
        /\ rows \in [Session -> Row \cup {NoRow}]
    BY LegType DEF Save, TypeInv, RestOK
  <1> DEFINE reply == IF Dispatch(l) = "await" THEN "none" ELSE "END"
  <1>2. leg' = [leg EXCEPT ![l].pc = Dispatch(l), ![l].code = CodeAfter(l), ![l].trail = TrailAfter(l),
                           ![l].prior = NoRow, ![l].reply = reply]
    BY DEF Save
  <1> HIDE DEF reply
  <1>3. /\ leg'[l].pc = Dispatch(l) /\ leg'[l].code = CodeAfter(l) /\ leg'[l].trail = TrailAfter(l)
        /\ leg'[l].ev = leg[l].ev /\ leg'[l].reply = reply
        /\ leg'[l].s = leg[l].s /\ leg'[l].w = leg[l].w /\ leg'[l].n = leg[l].n
        /\ \A k \in Leg \ {l} : leg'[k] = leg[k]
    BY <1>1, <1>2 DEF LegRecord
  <1>4. wire' = IF Dispatch(l) = "await" THEN wire \cup {l} ELSE wire
    BY DEF Save
  <1>5. /\ rows'[s] = IF Writes(l) THEN Upserted(rows[s], CodeAfter(l), TrailAfter(l), l) ELSE rows[s]
        /\ \A o \in Session \ {s} : rows'[o] = rows[o]
    BY <1>1 DEF Save, RowsSaved
  <1>6. told' = told /\ ended' = ended /\ holds' = holds /\ UNCHANGED <<env, status, dialed, typed, notice, nwire>>
    BY DEF Save, notices, context
  <1>7. loop' = IF Dispatch(l) = "expire" THEN loop ELSE [loop EXCEPT ![leg[l].w] = None]
    BY DEF Save
  <1>8. Touches(l)
    BY <1>3, <1>4, <1>5, <1>6 DEF Touches
  <1>. QED  BY <1>1, <1>3, <1>4, <1>5, <1>6, <1>7, <1>8 DEF reply

\* The shape of the steps that finish a leg or hand it on.
Freed(l) == loop' = [loop EXCEPT ![leg[l].w] = None]

\* What the canned END of a synchronous operator does to the row.
LEMMA ExpireFacts ==
    ASSUME TypeInv, NEW l \in Leg, Expire(l), NEW s \in Session, s = leg[l].s
    PROVE  /\ Touches(l) /\ leg[l].pc = "expire" /\ Freed(l)
           /\ leg'[l].pc = "done" /\ leg'[l].ev = leg[l].ev /\ wire' = wire
           /\ rows'[s] = NoRow /\ told' = told /\ ended' = ended /\ holds' = holds
  <1>1. leg[l] \in LegRecord /\ leg \in [Leg -> LegRecord]
    BY LegType
  <1>2. /\ leg'[l].s = leg[l].s /\ leg'[l].w = leg[l].w /\ leg'[l].n = leg[l].n
        /\ leg'[l].pc = "done" /\ leg'[l].ev = leg[l].ev
        /\ \A k \in Leg \ {l} : leg'[k] = leg[k]
    BY <1>1 DEF Expire, LegRecord
  <1>. QED  BY <1>2 DEF Expire, Deleted, Touches, Freed, notices, context

\* What an ending leg does to its row before it asks the handler.
LEMMA EndSessionFacts ==
    ASSUME TypeInv, NEW l \in Leg, EndSession(l), NEW s \in Session, s = leg[l].s
    PROVE  /\ Touches(l) /\ leg[l].pc = "end" /\ Freed(l)
           /\ leg'[l].ev = leg[l].ev /\ leg'[l].code = leg[l].code /\ leg'[l].reply = leg[l].reply
           /\ rows'[s] = NoRow /\ told' = told /\ ended' = ended /\ holds' = holds
           /\ leg'[l].trail = leg[l].trail
           /\ \/ Resolved(leg[l].code) = "active" /\ leg'[l].pc = "await" /\ wire' = wire \cup {l}
              \/ Resolved(leg[l].code) # "active" /\ leg'[l].pc = "done" /\ wire' = wire
  <1>1. leg[l] \in LegRecord /\ leg \in [Leg -> LegRecord]
    BY LegType
  <1> DEFINE to == IF Resolved(leg[l].code) = "active" THEN "await" ELSE "done"
  <1>2. leg' = [leg EXCEPT ![l].pc = to] /\ (leg[l].pc = "end")
    BY DEF EndSession
  <1>3. wire' = IF Resolved(leg[l].code) = "active" THEN wire \cup {l} ELSE wire
    BY DEF EndSession
  <1>4. \/ Resolved(leg[l].code) = "active" /\ to = "await"
        \/ Resolved(leg[l].code) # "active" /\ to = "done"
    OBVIOUS
  <1> HIDE DEF to
  <1>5. /\ leg'[l].s = leg[l].s /\ leg'[l].w = leg[l].w /\ leg'[l].n = leg[l].n
        /\ leg'[l].pc = to /\ leg'[l].ev = leg[l].ev /\ leg'[l].code = leg[l].code
        /\ leg'[l].reply = leg[l].reply /\ leg'[l].trail = leg[l].trail
        /\ \A k \in Leg \ {l} : leg'[k] = leg[k]
    BY <1>1, <1>2 DEF LegRecord
  <1>6. /\ rows'[s] = NoRow /\ told' = told /\ ended' = ended /\ holds' = holds /\ Freed(l)
        /\ \A o \in Session \ {s} : rows'[o] = rows[o]
        /\ UNCHANGED <<env, status, dialed, typed, notice, nwire>>
    BY DEF EndSession, Deleted, Freed, notices, context
  <1>7. Touches(l)
    BY <1>3, <1>5, <1>6 DEF Touches
  <1>. QED  BY <1>2, <1>3, <1>4, <1>5, <1>6, <1>7

\* An answer that ends the session deletes the row, or leaves that to the push.
LEMMA AnswerFacts ==
    ASSUME TypeInv, NEW l \in Leg, Answer(l), NEW s \in Session, s = leg[l].s
    PROVE  /\ Touches(l) /\ leg[l].pc = "reply" /\ Free(leg[l].w) /\ loop' = loop
           /\ leg'[l].ev = leg[l].ev /\ wire' = wire
           /\ told' = told /\ ended' = ended /\ holds' = holds
           /\ \/ Ending(l) /\ leg'[l].pc = "push" /\ leg'[l].reply = "END" /\ rows'[s] = rows[s]
              \/ Ending(l) /\ leg'[l].pc = "done" /\ rows'[s] = NoRow
              \/ /\ ~Ending(l) /\ rows'[s] = rows[s] /\ leg'[l].pc \in {"push", "done"}
                 /\ leg'[l].pc = "push" => leg[l].reply = "CON" /\ leg'[l].reply = "CON"
  <1>1. leg[l] \in LegRecord /\ leg \in [Leg -> LegRecord]
    BY LegType
  <1>2. PICK to \in {"push", "done"}, reply \in {"none", "CON", "END"} :
          /\ leg' = [leg EXCEPT ![l].pc = to, ![l].reply = reply]
          /\ to = IF leg[l].ev \in Menu /\ Op(l) = "halotel" THEN "push" ELSE "done"
          /\ reply = IF leg[l].ev \in Menu /\ leg[l].reply # "CON" THEN "END" ELSE leg[l].reply
    BY <1>1 DEF Answer, LegRecord
  <1>3. /\ leg'[l].s = leg[l].s /\ leg'[l].w = leg[l].w /\ leg'[l].n = leg[l].n
        /\ leg'[l].pc = to /\ leg'[l].ev = leg[l].ev /\ leg'[l].reply = reply
        /\ \A k \in Leg \ {l} : leg'[k] = leg[k]
    BY <1>1, <1>2 DEF LegRecord
  <1>4. /\ leg[l].pc = "reply" /\ Free(leg[l].w) /\ wire' = wire
        /\ told' = told /\ ended' = ended /\ holds' = holds /\ loop' = loop
        /\ UNCHANGED <<env, status, dialed, typed, notice, nwire>>
    BY DEF Answer, notices, context
  <1>5. rows' = IF (leg[l].ev \in Menu /\ leg[l].reply # "CON") /\ ~(leg[l].ev \in Menu /\ Op(l) = "halotel")
                THEN Deleted(rows, {s}) ELSE rows
    BY DEF Answer
  <1>6. /\ \A o \in Session \ {s} : rows'[o] = rows[o]
        /\ rows'[s] \in {rows[s], NoRow}
    BY <1>5 DEF Deleted
  <1>7. Touches(l)
    BY <1>3, <1>4, <1>6 DEF Touches
  <1>8. Ending(l) <=> leg[l].ev \in Menu /\ leg[l].reply # "CON"
    BY <1>4 DEF Ending
  <1>9. CASE Ending(l) /\ to = "push"
    BY <1>2, <1>3, <1>4, <1>5, <1>7, <1>8, <1>9
  <1>10. CASE Ending(l) /\ to = "done"
    <2>1. rows'[s] = NoRow
      BY <1>2, <1>5, <1>8, <1>10 DEF Deleted
    <2>. QED  BY <1>3, <1>4, <1>7, <1>10, <2>1
  <1>11. CASE ~Ending(l)
    <2>1. rows' = rows
      BY <1>5, <1>8, <1>11
    <2>2. to = "push" => leg[l].reply = "CON" /\ reply = "CON"
      BY <1>2, <1>8, <1>11
    <2>. QED  BY <1>3, <1>4, <1>7, <1>11, <2>1, <2>2
  <1>. QED  BY <1>9, <1>10, <1>11

\* What the end of a push does; an END deletes the row.
LEMMA PushDoneFacts ==
    ASSUME TypeInv, "db_failure" \notin env, NEW l \in Leg, PushDone(l), NEW s \in Session, s = leg[l].s
    PROVE  /\ Touches(l) /\ leg[l].pc = "push" /\ Free(leg[l].w) /\ loop' = loop
           /\ leg'[l].pc = "done" /\ leg'[l].ev = leg[l].ev /\ wire' = wire
           /\ told' = told /\ ended' = ended /\ holds' = holds
           /\ rows'[s] = IF leg[l].reply = "END" THEN NoRow ELSE rows[s]
  <1>1. leg[l] \in LegRecord /\ leg \in [Leg -> LegRecord]
    BY LegType
  <1>2. /\ leg'[l].s = leg[l].s /\ leg'[l].w = leg[l].w /\ leg'[l].n = leg[l].n
        /\ leg'[l].pc = "done" /\ leg'[l].ev = leg[l].ev
        /\ \A k \in Leg \ {l} : leg'[k] = leg[k]
    BY <1>1 DEF PushDone, LegRecord
  <1>3. /\ rows'[s] = IF leg[l].reply = "END" THEN NoRow ELSE rows[s]
        /\ \A o \in Session \ {s} : rows'[o] = rows[o]
    BY DEF PushDone, Deleted
  <1>. QED  BY <1>2, <1>3 DEF PushDone, Touches, notices, context

\* A handler takes a leg off the wire, and its reply arrives.
LEMMA HandledFacts ==
    ASSUME TypeInv, Basic, "handler_failure" \notin env, NEW l \in Leg, l \in wire,
           NEW r \in {"none", "CON", "END"}, Replied(l, r)
    PROVE  /\ leg[l].pc = "await" /\ leg'[l].pc = "reply" /\ leg'[l].reply = r
           /\ leg'[l].ev = leg[l].ev /\ leg'[l].code = leg[l].code
           /\ leg'[l].s = leg[l].s /\ leg'[l].w = leg[l].w /\ leg'[l].n = leg[l].n
           /\ \A k \in Leg \ {l} : leg'[k] = leg[k]
           /\ leg[l].s \in Session /\ leg[l].code \in Code
  <1>1. leg[l] \in LegRecord /\ leg \in [Leg -> LegRecord]
    BY LegType
  <1>2. leg[l].pc = "await"
    BY DEF Basic
  <1>3. leg' = [leg EXCEPT ![l].pc = "reply", ![l].reply = r]
    BY <1>2 DEF Replied
  <1>4. leg[l].s \in Session /\ leg[l].code \in Code
    BY DEF TypeInv, Routed
  <1>. QED  BY <1>1, <1>2, <1>3, <1>4 DEF LegRecord

\* What the handler's answer to a menu leg does.
LEMMA HandleMenuFacts ==
    ASSUME TypeInv, Basic, "handler_failure" \notin env, NEW l \in Leg, NEW r \in {"CON", "END"},
           HandleMenu(l, r), NEW s \in Session, s = leg[l].s
    PROVE  /\ Touches(l) /\ l \in wire /\ leg[l].pc = "await" /\ leg[l].ev \in Menu
           /\ leg'[l].pc = "reply" /\ leg'[l].reply = r
           /\ leg'[l].ev = leg[l].ev /\ leg'[l].code = leg[l].code /\ leg[l].code \in Code
           /\ rows' = rows /\ told' = told /\ wire' = wire \ {l} /\ loop' = loop
           /\ ended' = IF r = "END" THEN ended \cup {s} ELSE ended
           /\ \A c : <<s, c>> \in holds' <=> IF c = leg[l].code THEN r = "CON" ELSE <<s, c>> \in holds
  <1>1. l \in wire /\ leg[l].ev \in Menu /\ Replied(l, r)
    BY DEF HandleMenu
  <1>2. /\ leg[l].pc = "await" /\ leg'[l].pc = "reply" /\ leg'[l].reply = r
        /\ leg'[l].ev = leg[l].ev /\ leg'[l].code = leg[l].code
        /\ leg'[l].s = leg[l].s /\ leg'[l].w = leg[l].w /\ leg'[l].n = leg[l].n
        /\ \A k \in Leg \ {l} : leg'[k] = leg[k]
        /\ leg[l].s \in Session /\ leg[l].code \in Code
    BY <1>1, HandledFacts
  <1>3. /\ rows' = rows /\ told' = told /\ wire' = wire \ {l} /\ loop' = loop
        /\ ended' = IF r = "END" THEN ended \cup {s} ELSE ended
        /\ UNCHANGED <<env, status, dialed, typed, notice, nwire>>
    BY DEF HandleMenu, table, notices
  <1>4. holds' = IF r = "CON" THEN holds \cup {<<s, leg[l].code>>} ELSE holds \ {<<s, leg[l].code>>}
    BY DEF HandleMenu
  <1>5. \A c : <<s, c>> \in holds' <=> IF c = leg[l].code THEN r = "CON" ELSE <<s, c>> \in holds
    BY <1>4
  <1>6. \A o \in Session \ {s} : /\ \A c : <<o, c>> \in holds' <=> <<o, c>> \in holds
                                 /\ o \in ended' <=> o \in ended
    BY <1>3, <1>4
  <1>7. Touches(l)
    BY <1>1, <1>2, <1>3, <1>6 DEF Touches
  <1>. QED  BY <1>1, <1>2, <1>3, <1>5, <1>7

\* What the handler does when it is told of a session's end by a leg.
LEMMA HandleEndedFacts ==
    ASSUME TypeInv, Basic, "handler_failure" \notin env, NEW l \in Leg,
           HandleEnded(l), NEW s \in Session, s = leg[l].s
    PROVE  /\ Touches(l) /\ l \in wire /\ leg[l].pc = "await" /\ leg[l].ev \in Terminal
           /\ leg'[l].pc = "reply" /\ leg'[l].reply = "none"
           /\ leg'[l].ev = leg[l].ev /\ leg'[l].code = leg[l].code /\ leg[l].code \in Code
           /\ rows' = rows /\ wire' = wire \ {l} /\ loop' = loop
           /\ told'[s] = told[s] + 1 /\ ended' = ended
           /\ \A c : <<s, c>> \in holds' <=> c # leg[l].code /\ <<s, c>> \in holds
  <1>1. l \in wire /\ leg[l].ev \in Terminal /\ Replied(l, "none")
    BY DEF HandleEnded
  <1>2. /\ leg[l].pc = "await" /\ leg'[l].pc = "reply" /\ leg'[l].reply = "none"
        /\ leg'[l].ev = leg[l].ev /\ leg'[l].code = leg[l].code
        /\ leg'[l].s = leg[l].s /\ leg'[l].w = leg[l].w /\ leg'[l].n = leg[l].n
        /\ \A k \in Leg \ {l} : leg'[k] = leg[k]
        /\ leg[l].s \in Session /\ leg[l].code \in Code
    BY <1>1, HandledFacts
  <1>3. /\ rows' = rows /\ ended' = ended /\ wire' = wire \ {l} /\ loop' = loop
        /\ UNCHANGED <<env, status, dialed, typed, notice, nwire>>
    BY DEF HandleEnded, table, notices
  <1>4. holds' = holds \ {<<s, leg[l].code>>}
    BY DEF HandleEnded
  <1>5. told'[s] = told[s] + 1 /\ \A o \in Session \ {s} : told'[o] = told[o]
    BY DEF HandleEnded, TypeInv, RestOK
  <1>6. \A o \in Session \ {s} : \A c : <<o, c>> \in holds' <=> <<o, c>> \in holds
    BY <1>4
  <1>7. Touches(l)
    BY <1>1, <1>2, <1>3, <1>5, <1>6 DEF Touches
  <1>. QED  BY <1>1, <1>2, <1>3, <1>4, <1>5, <1>7

-----------------------------------------------------------------------------
(* What the steps of one leg keep.                                         *)

\* No other leg of the session holds a loop while one steps at it.
LEMMA Bystanders ==
    ASSUME Basic, NEW l \in Leg, NEW s \in Session, s = leg[l].s, Company(s), Open(l),
           leg[l].pc \in Holding \/ Free(leg[l].w)
    PROVE  \A k \in Leg \ {l} : leg[k].s = s => leg[k].pc \notin Holding
  BY Sole

\* A step that leaves the row of the session alone, or writes or deletes it,
\* keeps the order of its other legs.
LEMMA OthersInOrder ==
    ASSUME TypeInv, Basic, NEW l \in Leg, Touches(l), NEW s \in Session, s = leg[l].s,
           Company(s), InOrder(s),
           \/ rows'[s] = rows[s]
           \/ /\ Open(l) /\ (leg[l].pc \in Holding \/ Free(leg[l].w))
              /\ rows'[s] # NoRow => rows'[s].age = 0
    PROVE  \A k \in Leg \ {l} : leg'[k].s = s => InOrderLeg(k, s)'
  <1> SUFFICES ASSUME NEW k \in Leg \ {l}, leg'[k].s = s PROVE InOrderLeg(k, s)'
    OBVIOUS
  <1>1. leg'[k] = leg[k] /\ (k \in wire' <=> k \in wire) /\ typed' = typed
    BY DEF Touches
  <1>2. InOrderLeg(k, s) /\ (Open(k)' <=> Open(k))
    BY <1>1 DEF InOrder, Open
  <1>3. CASE rows'[s] = rows[s]
    BY <1>1, <1>2, <1>3 DEF InOrderLeg
  <1>4. CASE /\ Open(l) /\ (leg[l].pc \in Holding \/ Free(leg[l].w))
             /\ rows'[s] # NoRow => rows'[s].age = 0
    <2>1. leg[k].pc \notin Holding
      BY <1>1, <1>4, Bystanders
    <2>2. IdleOf(s) \in Nat /\ (0 <= IdleOf(s))
      BY ConfigAssumption DEF IdleOf
    <2>. QED  BY <1>1, <1>2, <1>4, <2>1, <2>2 DEF InOrderLeg, Saving, Holding
  <1>. QED  BY <1>3, <1>4

\* With late legs only, what covers the other legs stays.
LEMMA OthersCovered ==
    ASSUME TypeInv, Basic, NEW l \in Leg, Touches(l), NEW s \in Session, s = leg[l].s,
           Quiet, Company(s), Covered(s),
           \/ rows'[s] = rows[s] /\ \A c : <<s, c>> \in holds' => <<s, c>> \in holds
           \/ Open(l)
    PROVE  \A k \in Leg \ {l} : leg'[k].s = s => CoveredLeg(k, s)'
  <1> SUFFICES ASSUME NEW k \in Leg \ {l}, leg'[k].s = s PROVE CoveredLeg(k, s)'
    OBVIOUS
  <1>1. leg'[k] = leg[k]
    BY DEF Touches
  <1>2. /\ CoveredLeg(k, s) /\ (Open(k)' <=> Open(k)) /\ (Ending(k)' <=> Ending(k))
        /\ CodeAfter(k)' = CodeAfter(k) /\ (Writes(k)' <=> Writes(k))
    BY <1>1 DEF Covered, Open, Ending, CodeAfter, Writes, Op
  <1>3. CASE rows'[s] = rows[s] /\ \A c : <<s, c>> \in holds' => <<s, c>> \in holds
    BY <1>1, <1>2, <1>3 DEF CoveredLeg
  <1>4. CASE Open(l)
    <2>1. ~Open(k)
      BY <1>1, <1>4, Lonely
    <2>. QED  BY <1>1, <1>2, <2>1 DEF CoveredLeg, Open, Ending, Saving, Holding
  <1>. QED  BY <1>3, <1>4

\* What a step of one leg makes true of its session is enough.
LEMMA TouchesKeeps ==
    ASSUME TypeInv, TypeInv', NEW l \in Leg, Touches(l), Gentle,
           \A s \in Session : SessionInv(s), Basic',
           NEW s \in Session, s = leg[l].s, SessionInv(s)'
    PROVE  GentleInv'
  <1>1. ASSUME NEW o \in Session, o # s PROVE SessionInv(o)'
    <2>1. Apart(o)
      BY <1>1, TouchesApart
    <2>2. nwire \subseteq Leg /\ nwire' \subseteq Leg /\ wire \subseteq Leg /\ wire' \subseteq Leg
      BY DEF TypeInv, RestOK
    <2>. QED  BY <2>1, <2>2, ApartKeeps
  <1>2. \A o \in Session : SessionInv(o)'
    BY <1>1
  <1>. QED  BY <1>2 DEF GentleInv

-----------------------------------------------------------------------------
(* Every step of a leg keeps the invariant.                                *)

\* The invariant where the environment is gentle.
Sound == TypeInv /\ Gentle /\ Basic /\ \A s \in Session : SessionInv(s)

\* The covering of a session's handlers only depends on its row, on what its
\* handlers hold, and on the notifications of its end.
LEMMA StillTold ==
    ASSUME TypeInv, Basic, NEW l \in Leg, Touches(l), NEW s \in Session, s = leg[l].s, Covered(s),
           \A c : <<s, c>> \in holds' => <<s, c>> \in holds,
           \A c \in Code : /\ <<s, c>> \in holds' /\ rows[s] # NoRow /\ rows[s].code = c
                           => \/ rows'[s] # NoRow /\ rows'[s].code = c
                              \/ l \in wire' /\ leg'[l].ev \in Terminal /\ leg'[l].code = c,
           l \in wire /\ leg[l].ev \in Terminal => l \in wire' /\ leg'[l] = leg[l]
    PROVE  \A c \in Code : WillBeTold(s, c)'
  <1> SUFFICES ASSUME NEW c \in Code, <<s, c>> \in holds'
               PROVE  \/ rows'[s] # NoRow /\ rows'[s].code = c
                      \/ OnItsWay(s, c)'
    BY DEF WillBeTold
  <1>1. <<s, c>> \in holds
    OBVIOUS
  <1>2. leg'[l].s = s /\ notice' = notice /\ nwire' = nwire
        /\ \A k \in Leg \ {l} : leg'[k] = leg[k] /\ (k \in wire' <=> k \in wire)
    BY DEF Touches
  <1>3. CASE rows[s] # NoRow /\ rows[s].code = c
    BY <1>2, <1>3 DEF OnItsWay
  <1>4. CASE OnItsWay(s, c)
    <2>1. ASSUME NEW k \in wire, leg[k].ev \in Terminal, leg[k].s = s, leg[k].code = c
          PROVE  k \in wire' /\ leg'[k] = leg[k]
      <3>1. k \in Leg
        BY DEF TypeInv, RestOK
      <3>. QED  BY <1>2, <2>1, <3>1
    <2>. QED  BY <1>2, <1>4, <2>1 DEF OnItsWay
  <1>. QED  BY <1>1, <1>3, <1>4 DEF Covered, WillBeTold

\* The read of the session row keeps the invariant.
LEMMA LookupKeeps ==
    ASSUME Sound, TypeInv', NEW l \in Leg, Lookup(l)
    PROVE  GentleInv'
  <1>0. TypeInv /\ Basic /\ Gentle /\ \A s \in Session : SessionInv(s)
    BY DEF Sound
  <1>1. leg[l].pc = "parse"
    BY DEF Lookup
  <1>2. PICK s \in Session : s = leg[l].s
    BY <1>0, <1>1 DEF TypeInv, Routed
  <1>3. /\ Touches(l) /\ Still(s) /\ wire' = wire
        /\ \/ /\ leg'[l].pc = "save" /\ leg'[l].ev \in Menu /\ leg'[l].prior = rows[s]
              /\ leg'[l].code = leg[l].code /\ loop' = loop /\ leg[l].ev \in Menu
              /\ OpOf[s] # "airtel" => leg'[l].ev = leg[l].ev
              /\ OpOf[s] = "airtel" => (leg'[l].ev = "START" <=> rows[s] = NoRow)
           \/ /\ leg'[l].pc = "end" /\ leg'[l].ev \in Terminal /\ leg'[l].code = rows[s].code
              /\ loop' = loop /\ leg[l].ev \notin Menu
           \/ /\ leg'[l].pc = "done" /\ loop' = [loop EXCEPT ![leg[l].w] = None]
              /\ leg[l].ev \notin Menu
    BY <1>0, <1>2, LookupFacts
  <1>4. /\ leg'[l].s = s /\ leg'[l].n = leg[l].n /\ typed' = typed /\ status' = status /\ env' = env
        /\ \A k \in Leg \ {l} : leg'[k] = leg[k]
        /\ rows'[s] = rows[s] /\ told'[s] = told[s] /\ (s \in ended' <=> s \in ended)
        /\ notice' = notice /\ nwire' = nwire
        /\ \A c : <<s, c>> \in holds' <=> <<s, c>> \in holds
    BY <1>2, <1>3 DEF Touches, Still
  <1>5. l \notin wire /\ wire \subseteq Leg
    BY <1>0, <1>1 DEF Basic, TypeInv, RestOK
  <1>6. Company(s) /\ SessionInv(s) /\ Open(l)
    BY <1>0, <1>1 DEF SessionInv, Open, Holding
  <1>7. Basic'
    BY <1>0, <1>1, <1>3, <1>5, BasicKept DEF Holding
  <1>8. Company(s)'
    BY <1>2, <1>3, <1>4, <1>6, CompanyKept DEF Company
  <1>9. Reading(l)' <=> Reading(l)
    BY <1>1, <1>3 DEF Reading, Saving, Menu, Terminal
  <1>10. ASSUME OneLoop PROVE InOrder(s)'
    <2>1. InOrder(s)
      BY <1>6, <1>10 DEF SessionInv
    <2>2. \A k \in Leg \ {l} : leg'[k].s = s => InOrderLeg(k, s)'
      BY <1>0, <1>2, <1>3, <1>4, <1>6, <2>1, OthersInOrder
    <2>3. InOrderLeg(l, s)
      BY <1>2, <2>1 DEF InOrder
    <2>4. /\ leg[l].ev = "START" => rows[s] = NoRow /\ leg[l].n = 0 /\ typed[s] = 0
          /\ leg[l].ev # "START" => rows[s] # NoRow
          /\ leg[l].ev = "INPUT" => leg[l].n = typed[s] /\ rows[s].trail + 1 = typed[s]
          /\ rows[s] # NoRow => rows[s].age <= IdleOf(s)
      BY <1>1, <1>6, <2>3 DEF InOrderLeg, Saving
    <2>5. leg'[l].pc = "save" => (leg'[l].ev = "START" <=> leg[l].ev = "START") /\ leg'[l].prior = rows[s]
                                 /\ (leg'[l].ev = "INPUT" <=> leg[l].ev = "INPUT")
      BY <1>3, <2>4 DEF Menu
    <2>6. leg'[l].pc # "save" => leg[l].ev \notin Menu /\ leg'[l].pc \in {"end", "done"}
      BY <1>3
    <2>7. InOrderLeg(l, s)'
      BY <1>3, <1>4, <1>5, <2>4, <2>5, <2>6 DEF InOrderLeg, Saving, Menu
    <2>8. \A k \in Leg : leg'[k].s = s => InOrderLeg(k, s)'
      BY <2>2, <2>7
    <2>9. \A k \in Leg : (leg'[k].s = s <=> leg[k].s = s) /\ (Reading(k)' <=> Reading(k))
      BY <1>2, <1>4, <1>9 DEF Reading
    <2>. QED  BY <1>4, <2>1, <2>8, <2>9 DEF InOrder
  <1>11. ASSUME Cov(s) PROVE Covered(s)'
    <2>1. Covered(s) /\ Quiet
      BY <1>6, <1>11 DEF SessionInv, Cov, Quiet, Orderly
    <2>2. \A k \in Leg \ {l} : leg'[k].s = s => CoveredLeg(k, s)'
      BY <1>0, <1>2, <1>3, <1>4, <1>6, <2>1, OthersCovered
    <2>3. leg[l].ev = "START" => rows[s] = NoRow
      BY <1>1, <1>2, <2>1 DEF Covered, CoveredLeg, Saving
    <2>4. leg'[l].pc = "save" /\ leg'[l].ev = "START" => rows[s] = NoRow
      BY <1>3, <2>3
    <2>5. leg'[l].pc = "save" /\ leg'[l].ev # "START" /\ rows[s] = NoRow => OpOf[s] # "tigo"
      <3>1. CASE Orderly
        <4>1. InOrder(s)
          BY <1>6, <3>1 DEF SessionInv, Orderly, OneLoop
        <4>2. leg[l].ev # "START" => rows[s] # NoRow
          BY <1>1, <1>2, <4>1 DEF InOrder, InOrderLeg, Saving
        <4>. QED  BY <1>3, <4>2
      <3>. QED  BY <1>11, <3>1 DEF Cov
    <2>6. leg'[l].pc = "save" => leg'[l].prior = rows[s]
      BY <1>3
    <2>7. leg'[l].pc = "save" => /\ rows[s] # NoRow => rows[s].code = CodeAfter(l)'
                                 /\ ~Writes(l)' => CodeAfter(l)' = None
      BY <1>4, <2>4, <2>5, <2>6 DEF CodeAfter, Writes, Op, NoRow
    <2>8. leg'[l].pc = "end" => leg'[l].code = rows[s].code
      BY <1>3
    <2>9. leg'[l].pc \in {"save", "end", "done"}
      BY <1>3
    <2>10. CoveredLeg(l, s)'
      BY <1>4, <2>4, <2>7, <2>8, <2>9 DEF CoveredLeg, Saving, Ending
    <2>11. \A c \in Code : WillBeTold(s, c)'
      BY <1>0, <1>2, <1>3, <1>4, <1>5, <2>1, StillTold
    <2>. QED  BY <1>4, <2>1, <2>2, <2>10, <2>11 DEF Covered
  <1>12. ASSUME Orderly PROVE ToldOnce(s)'
    <2>1. ToldOnce(s) /\ InOrder(s)
      BY <1>6, <1>12 DEF SessionInv, Orderly, OneLoop
    <2>2. leg[l].ev # "START" => rows[s] # NoRow
      BY <1>1, <1>2, <2>1 DEF InOrder, InOrderLeg, Saving
    <2>3. Dialling(s)' => Dialling(s)
      BY <1>1, <1>2, <1>3, <1>4, <2>2 DEF Dialling, Saving
    <2>4. \A k \in Leg : (LegTells(k, s)' <=> LegTells(k, s)) /\ (NoticeTells(k, s)' <=> NoticeTells(k, s))
      BY <1>3, <1>4, <1>5 DEF LegTells, NoticeTells
    <2>5. Telling(s)' <=> Telling(s)
      BY <2>4 DEF Telling
    <2>6. \A k \in Leg : Ending(k) => k # l /\ Ending(k)'
      BY <1>1, <1>4 DEF Ending
    <2>7. s \in ended /\ rows[s] # NoRow => \E k \in Leg : leg'[k].s = s /\ Ending(k)' /\ leg'[k].pc # "expire"
      BY <1>4, <2>1, <2>6 DEF ToldOnce
    <2>. QED  BY <1>4, <2>1, <2>3, <2>4, <2>5, <2>7 DEF ToldOnce
  <1>13. SessionInv(s)'
    BY <1>4, <1>8, <1>10, <1>11, <1>12 DEF SessionInv, OneLoop, Cov, Orderly
  <1>. QED  BY <1>0, <1>2, <1>3, <1>7, <1>13, TouchesKeeps

\* Other notifications of a session's end are left alone.
LEMMA TellsStill ==
    ASSUME NEW l \in Leg, Touches(l), NEW s \in Session, s = leg[l].s,
           LegTells(l, s)' <=> LegTells(l, s)
    PROVE  /\ \A k \in Leg : (LegTells(k, s)' <=> LegTells(k, s)) /\ (NoticeTells(k, s)' <=> NoticeTells(k, s))
           /\ Telling(s)' <=> Telling(s)
  <1>1. \A k \in Leg : (LegTells(k, s)' <=> LegTells(k, s)) /\ (NoticeTells(k, s)' <=> NoticeTells(k, s))
    BY DEF LegTells, NoticeTells, Touches
  <1>. QED  BY <1>1 DEF Telling

\* So are the dials of other legs.
LEMMA DialsStill ==
    ASSUME NEW l \in Leg, Touches(l), NEW s \in Session, s = leg[l].s,
           leg'[l].pc \notin Saving \/ leg'[l].ev # "START"
    PROVE  Dialling(s)' => Dialling(s)
  BY DEF Dialling, Touches

\* A leg that is about to save or to end its session finds it in use, and no
\* handler has ended it.
LEMMA NotOver ==
    ASSUME Sound, NEW l \in Leg, NEW s \in Session, s = leg[l].s, Orderly,
           \/ leg[l].pc \in {"save", "end"}
           \/ leg[l].pc = "await" /\ leg[l].ev \in Menu
    PROVE  s \notin ended /\ told[s] = 0 /\ ~Telling(s)
  <1>1. ToldOnce(s) /\ InOrder(s) /\ Covered(s) /\ Company(s) /\ Quiet
    BY DEF Sound, SessionInv, Orderly, OneLoop, Quiet, Cov
  <1>2. InOrderLeg(l, s) /\ CoveredLeg(l, s) /\ Open(l)
    BY <1>1 DEF InOrder, Covered, Open, Holding
  <1>3. rows[s] # NoRow \/ Dialling(s)
    <2>1. leg[l].pc = "end" => leg[l].ev # "START"
      BY DEF Sound, Basic, Terminal
    <2>. QED  BY <1>2, <2>1 DEF InOrderLeg, CoveredLeg, Dialling, Saving
  <1>4. told[s] = 0 /\ ~Telling(s)
    BY <1>1, <1>3 DEF ToldOnce
  <1>5. ASSUME s \in ended PROVE FALSE
    <2>1. rows[s] # NoRow /\ ~Dialling(s)
      BY <1>1, <1>3, <1>5 DEF ToldOnce
    <2>2. PICK k \in Leg : leg[k].s = s /\ Ending(k) /\ leg[k].pc # "expire"
      BY <1>1, <1>5, <2>1 DEF ToldOnce
    <2>3. Open(k)
      BY <2>2 DEF Ending, Open
    <2>4. k = l
      BY <1>1, <1>2, <2>2, <2>3 DEF Company
    <2>. QED  BY <2>2, <2>4 DEF Ending
  <1>. QED  BY <1>4, <1>5

\* The upsert of the session row keeps the invariant.
LEMMA SaveKeeps ==
    ASSUME Sound, TypeInv', NEW l \in Leg, Save(l)
    PROVE  GentleInv'
  <1>0. TypeInv /\ Basic /\ Gentle /\ \A s \in Session : SessionInv(s)
    BY DEF Sound
  <1>1. leg[l].pc = "save"
    BY DEF Save
  <1>2. PICK s \in Session : s = leg[l].s
    BY <1>0, <1>1 DEF TypeInv, Routed
  <1>3. /\ Touches(l)
        /\ rows'[s] = IF Writes(l) THEN Upserted(rows[s], CodeAfter(l), TrailAfter(l), l) ELSE rows[s]
        /\ told' = told /\ ended' = ended /\ holds' = holds
        /\ leg'[l].pc = Dispatch(l) /\ leg'[l].code = CodeAfter(l) /\ leg'[l].trail = TrailAfter(l)
        /\ leg'[l].ev = leg[l].ev
        /\ leg'[l].reply = IF Dispatch(l) = "await" THEN "none" ELSE "END"
        /\ wire' = IF Dispatch(l) = "await" THEN wire \cup {l} ELSE wire
        /\ loop' = IF Dispatch(l) = "expire" THEN loop ELSE [loop EXCEPT ![leg[l].w] = None]
    BY <1>0, <1>2, SaveFacts
  <1>4. /\ leg'[l].s = s /\ leg'[l].n = leg[l].n /\ typed' = typed /\ status' = status /\ env' = env
        /\ \A k \in Leg \ {l} : leg'[k] = leg[k]
    BY <1>2, <1>3 DEF Touches
  <1>5. l \notin wire /\ wire \subseteq Leg /\ leg[l].ev \in Menu
    BY <1>0, <1>1 DEF Basic, TypeInv, RestOK
  <1>6. Company(s) /\ SessionInv(s) /\ Open(l)
    BY <1>0, <1>1 DEF SessionInv, Open, Holding
  <1>7. /\ rows[s] \in Row \cup {NoRow} /\ rows'[s] \in Row \cup {NoRow}
        /\ leg[l].prior \in Row \cup {NoRow} /\ leg[l].code \in Code \cup {None}
    BY <1>0, LegType DEF TypeInv, RestOK, LegRecord
  <1>8. /\ Dispatch(l) \in {"await", "push", "expire"}
        /\ Dispatch(l) = "await" <=> Resolved(CodeAfter(l)) = "active"
    BY DEF Dispatch
  <1>9. Dispatch(l) = "await" => CodeAfter(l) # None /\ status[CodeAfter(l)] = "active"
    BY <1>8 DEF Resolved
  <1>10. Writes(l) => /\ rows'[s] # NoRow /\ rows'[s].age = 0 /\ rows'[s].trail = TrailAfter(l)
                      /\ rows[s] = NoRow => rows'[s].code = CodeAfter(l)
                      /\ rows[s] # NoRow => rows'[s].code = rows[s].code
    <2> HAVE Writes(l)
    <2>1. CASE rows[s] = NoRow
      <3>1. rows'[s] = [code |-> CodeAfter(l), trail |-> TrailAfter(l), age |-> 0, born |-> l]
        BY <1>3, <2>1 DEF Upserted
      <3>2. rows'[s].born = l /\ NoRow.born = None /\ l # None
        BY <3>1, NoneAssumption DEF NoRow
      <3>. QED  BY <2>1, <3>1, <3>2
    <2>2. CASE rows[s] # NoRow
      <3>1. rows[s] \in Row /\ rows'[s] = [rows[s] EXCEPT !.trail = TrailAfter(l), !.age = 0]
        BY <1>3, <1>7, <2>2 DEF Upserted
      <3>2. rows'[s].born \in Leg /\ NoRow.born = None
        BY <3>1 DEF Row, NoRow
      <3>. QED  BY <2>2, <3>1, <3>2, NoneAssumption DEF Row
    <2>. QED  BY <2>1, <2>2
  <1>11. ~Writes(l) => rows'[s] = rows[s]
    BY <1>3
  <1>12. Basic'
    <2>1. /\ l \in wire' => leg'[l].pc = "await" /\ status[leg'[l].code] = "active"
          /\ wire' \subseteq Leg
      BY <1>3, <1>5, <1>8, <1>9
    <2>2. CASE Dispatch(l) = "expire"
      BY <1>0, <1>1, <1>3, <2>1, <2>2, BasicKept DEF Holding
    <2>3. CASE Dispatch(l) \in {"await", "push"}
      BY <1>0, <1>1, <1>3, <2>1, <2>3, BasicKept DEF Holding
    <2>. QED  BY <1>8, <2>2, <2>3
  <1>13. Company(s)'
    <2>1. rows'[s] # NoRow => rows'[s].age <= MaxAge
      BY <1>6, <1>10, <1>11, ConfigAssumption DEF Company
    <2>. QED  BY <1>2, <1>3, <1>6, <2>1, CompanyKept
  <1>14. ASSUME OneLoop PROVE InOrder(s)'
    <2>1. InOrder(s)
      BY <1>6, <1>14 DEF SessionInv
    <2>2. \A k \in Leg \ {l} : leg'[k].s = s => InOrderLeg(k, s)'
      <3>1. rows'[s] = rows[s] \/ (rows'[s] # NoRow => rows'[s].age = 0)
        BY <1>10, <1>11
      <3>. QED  BY <1>0, <1>1, <1>2, <1>3, <1>6, <2>1, <3>1, OthersInOrder DEF Holding
    <2>3. /\ leg[l].ev = "START" => leg[l].n = 0 /\ typed[s] = 0
          /\ leg[l].ev # "START" => /\ leg[l].n = typed[s] /\ leg[l].prior # NoRow
                                    /\ leg[l].prior.trail + 1 = typed[s]
      BY <1>1, <1>2, <1>5, <2>1 DEF InOrder, InOrderLeg, Saving, Menu
    <2>4. Writes(l) /\ TrailAfter(l) = typed[s] /\ TrailAfter(l) = leg[l].n
      BY <2>3 DEF Writes, TrailAfter
    <2>5. rows'[s].age = 0 /\ (0 <= IdleOf(s))
      BY <1>10, <2>4, ConfigAssumption DEF IdleOf
    <2>6. InOrderLeg(l, s)'
      BY <1>3, <1>4, <1>8, <2>4, <2>5 DEF InOrderLeg, Saving
    <2>7. \A k \in Leg : leg'[k].s = s => InOrderLeg(k, s)'
      BY <2>2, <2>6
    <2>. QED  BY <1>4, <1>10, <2>4, <2>7 DEF InOrder
  <1>15. ASSUME Cov(s) PROVE Covered(s)'
    <2>1. Covered(s) /\ Quiet
      BY <1>6, <1>15 DEF SessionInv, Cov, Quiet, Orderly
    <2>2. \A k \in Leg \ {l} : leg'[k].s = s => CoveredLeg(k, s)'
      BY <1>0, <1>1, <1>2, <1>3, <1>6, <2>1, OthersCovered DEF Holding
    <2>3. /\ rows[s] # NoRow => rows[s].code = CodeAfter(l)
          /\ ~Writes(l) => CodeAfter(l) = None
      BY <1>1, <1>2, <2>1 DEF Covered, CoveredLeg
    <2>4. rows[s] # NoRow => rows[s].code # None
      BY <1>7, NoneAssumption, RowFields
    <2>5. rows'[s] # NoRow => Writes(l) /\ rows'[s].code = CodeAfter(l)
      BY <1>10, <1>11, <2>3, <2>4
    <2>6. Dispatch(l) = "await" => rows'[s] # NoRow /\ rows'[s].age = 0 /\ (0 <= IdleOf(s))
      BY <1>9, <1>10, <2>3, ConfigAssumption DEF IdleOf
    <2>7. Dispatch(l) # "await" /\ rows'[s] # NoRow => <<s, rows'[s].code>> \notin holds
      <3> SUFFICES ASSUME Dispatch(l) # "await", rows'[s] # NoRow, <<s, rows'[s].code>> \in holds
                   PROVE  FALSE
        OBVIOUS
      <3>1. rows'[s].code \in Code /\ rows'[s].code = CodeAfter(l)
        BY <1>7, <2>5, RowFields
      <3>2. status[CodeAfter(l)] = "active" /\ CodeAfter(l) # None
        BY <2>1, <3>1, NoneAssumption DEF Covered
      <3>. QED  BY <1>8, <3>2 DEF Resolved
    <2>8. CoveredLeg(l, s)'
      BY <1>3, <1>8, <2>5, <2>6, <2>7 DEF CoveredLeg, Saving, Ending
    <2>9. \A c \in Code : rows[s] # NoRow /\ rows[s].code = c => rows'[s] # NoRow /\ rows'[s].code = c
      BY <1>10, <1>11
    <2>10. \A c \in Code : WillBeTold(s, c)'
      BY <1>0, <1>2, <1>3, <1>5, <2>1, <2>9, StillTold
    <2>11. \A c \in Code : <<s, c>> \in holds' => status'[c] = "active"
      BY <1>3, <1>4, <2>1 DEF Covered
    <2>. QED  BY <2>2, <2>8, <2>10, <2>11 DEF Covered
  <1>16. ASSUME Orderly PROVE ToldOnce(s)'
    <2>1. ToldOnce(s) /\ s \notin ended /\ told[s] = 0 /\ ~Telling(s)
      BY <1>1, <1>2, <1>6, <1>16, NotOver DEF SessionInv
    <2>2. LegTells(l, s)' <=> LegTells(l, s)
      BY <1>3, <1>5 DEF LegTells, Menu, Terminal
    <2>3. /\ \A k \in Leg : (LegTells(k, s)' <=> LegTells(k, s)) /\ (NoticeTells(k, s)' <=> NoticeTells(k, s))
          /\ Telling(s)' <=> Telling(s)
      BY <1>2, <1>3, <2>2, TellsStill
    <2>. QED  BY <1>3, <2>1, <2>3 DEF ToldOnce
  <1>17. SessionInv(s)'
    BY <1>4, <1>13, <1>14, <1>15, <1>16 DEF SessionInv, OneLoop, Cov, Orderly
  <1>. QED  BY <1>0, <1>2, <1>3, <1>12, <1>17, TouchesKeeps

\* A leg that has saved, and does not start over, keeps the order whether it
\* deletes the row or not.
LEMMA OrderKept ==
    ASSUME Sound, OneLoop, NEW l \in Leg, Touches(l), NEW s \in Session, s = leg[l].s,
           leg[l].pc \notin Saving, leg'[l].pc \notin Saving \cup {"end"}, Open(l)' => Open(l),
           ~(l \in wire' /\ leg'[l].ev \in Menu),
           \/ rows'[s] = rows[s]
           \/ rows'[s] = NoRow /\ Open(l) /\ (leg[l].pc \in Holding \/ Free(leg[l].w))
    PROVE  InOrder(s)'
  <1>1. TypeInv /\ Basic /\ InOrder(s) /\ Company(s)
    BY DEF Sound, SessionInv
  <1>2. \A k \in Leg \ {l} : leg'[k].s = s => InOrderLeg(k, s)'
    BY <1>1, OthersInOrder
  <1>3. /\ leg'[l].s = s /\ typed' = typed
        /\ \A k \in Leg \ {l} : leg'[k] = leg[k]
    BY DEF Touches
  <1>4. InOrderLeg(l, s)
    BY <1>1 DEF InOrder
  <1>5. InOrderLeg(l, s)'
    BY <1>4 DEF InOrderLeg, Saving
  <1>6. \A k \in Leg : (leg'[k].s = s <=> leg[k].s = s) /\ (Reading(k)' <=> Reading(k))
    BY <1>3 DEF Reading
  <1>7. \A k \in Leg : leg'[k].s = s => InOrderLeg(k, s)'
    BY <1>2, <1>5
  <1>. QED  BY <1>1, <1>3, <1>6, <1>7 DEF InOrder

\* An END that deletes the row of its session, by whatever way it goes out.
LEMMA ClosesKeeps ==
    ASSUME Sound, TypeInv', Basic', NEW l \in Leg, Touches(l), NEW s \in Session, s = leg[l].s,
           Ending(l), rows'[s] = NoRow, leg'[l].pc = "done", leg'[l].ev = leg[l].ev,
           wire' = wire, told' = told, ended' = ended, holds' = holds,
           leg[l].pc \in Holding \/ Free(leg[l].w)
    PROVE  GentleInv'
  <1>0. TypeInv /\ Basic /\ Gentle /\ \A o \in Session : SessionInv(o)
    BY DEF Sound
  <1>1. Company(s) /\ SessionInv(s) /\ Open(l) /\ l \notin wire
    BY <1>0 DEF SessionInv, Open, Ending, Holding, Basic
  <1>2. /\ leg'[l].s = s /\ status' = status /\ env' = env
        /\ \A k \in Leg \ {l} : leg'[k] = leg[k]
    BY DEF Touches
  <1>3. Company(s)'
    BY <1>1, CompanyKept
  <1>4. ASSUME OneLoop PROVE InOrder(s)'
    <2>1. leg[l].pc \notin Saving /\ ~Open(l)'
      BY DEF Ending, Saving, Open, Holding
    <2>. QED  BY <1>1, <1>4, <2>1, OrderKept DEF Saving
  <1>5. ASSUME Cov(s) PROVE Covered(s)'
    <2>1. Covered(s) /\ Quiet
      BY <1>1, <1>5 DEF SessionInv, Cov, Quiet, Orderly
    <2>2. \A k \in Leg \ {l} : leg'[k].s = s => CoveredLeg(k, s)'
      BY <1>0, <1>1, <2>1, OthersCovered
    <2>3. CoveredLeg(l, s)'
      BY DEF CoveredLeg, Ending, Saving
    <2>4. CoveredLeg(l, s)
      BY <2>1 DEF Covered
    <2>5. \A c \in Code : ~(<<s, c>> \in holds /\ rows[s] # NoRow /\ rows[s].code = c)
      BY <2>4 DEF CoveredLeg
    <2>6. \A c \in Code : WillBeTold(s, c)'
      BY <1>0, <1>1, <2>1, <2>5, StillTold
    <2>. QED  BY <1>2, <2>1, <2>2, <2>3, <2>6 DEF Covered
  <1>6. ASSUME Orderly PROVE ToldOnce(s)'
    <2>1. ToldOnce(s)
      BY <1>1, <1>6 DEF SessionInv
    <2>2. /\ \A k \in Leg : (LegTells(k, s)' <=> LegTells(k, s)) /\ (NoticeTells(k, s)' <=> NoticeTells(k, s))
          /\ Telling(s)' <=> Telling(s)
      BY <1>1, TellsStill DEF LegTells
    <2>3. Dialling(s)' => Dialling(s)
      BY DialsStill DEF Saving
    <2>. QED  BY <2>1, <2>2, <2>3 DEF ToldOnce
  <1>7. SessionInv(s)'
    BY <1>2, <1>3, <1>4, <1>5, <1>6 DEF SessionInv, OneLoop, Cov, Orderly
  <1>. QED  BY <1>0, <1>7, TouchesKeeps

\* The deletion that goes with a canned END keeps the invariant.
LEMMA ExpireKeeps ==
    ASSUME Sound, TypeInv', NEW l \in Leg, Expire(l)
    PROVE  GentleInv'
  <1>0. TypeInv /\ Basic
    BY DEF Sound
  <1>1. PICK s \in Session : s = leg[l].s
    BY <1>0 DEF Expire, TypeInv, Routed
  <1>2. /\ Touches(l) /\ leg[l].pc = "expire" /\ Freed(l)
        /\ leg'[l].pc = "done" /\ leg'[l].ev = leg[l].ev /\ wire' = wire
        /\ rows'[s] = NoRow /\ told' = told /\ ended' = ended /\ holds' = holds
    BY <1>0, <1>1, ExpireFacts
  <1>3. l \notin wire /\ wire \subseteq Leg
    BY <1>0, <1>2 DEF Basic, TypeInv, RestOK
  <1>4. Basic'
    BY <1>0, <1>2, <1>3, BasicKept DEF Freed, Holding
  <1>5. Ending(l) /\ leg[l].pc \in Holding
    BY <1>2 DEF Ending, Holding
  <1>. QED  BY <1>1, <1>2, <1>4, <1>5, ClosesKeeps

\* A step that leaves the rows, the handlers and the wire alone, and a leg that
\* nobody waits for or that is still to end its session.
LEMMA QuietlyKeeps ==
    ASSUME Sound, TypeInv', Basic', NEW l \in Leg, Touches(l), NEW s \in Session, s = leg[l].s,
           rows'[s] = rows[s], leg[l].pc \in {"reply", "push"}, leg'[l].pc \in {"push", "done"},
           leg'[l].ev = leg[l].ev, l \notin wire,
           wire' = wire, told' = told, ended' = ended, holds' = holds,
           \/ Ending(l) /\ leg'[l].pc = "push" /\ leg'[l].reply = "END"
           \/ ~Ending(l) /\ (leg'[l].pc = "push" => leg'[l].reply = "CON")
    PROVE  GentleInv'
  <1>0. TypeInv /\ Basic /\ Gentle /\ \A o \in Session : SessionInv(o)
    BY DEF Sound
  <1>1. Company(s) /\ SessionInv(s)
    BY <1>0 DEF SessionInv
  <1>2. /\ leg'[l].s = s /\ status' = status /\ env' = env
        /\ \A k \in Leg \ {l} : leg'[k] = leg[k]
    BY DEF Touches
  <1>3. (Ending(l)' <=> Ending(l)) /\ (Open(l)' => Open(l))
    BY DEF Ending, Open, Holding
  <1>4. Company(s)'
    BY <1>1, <1>3, CompanyKept DEF Company
  <1>5. ASSUME OneLoop PROVE InOrder(s)'
    BY <1>3, <1>5, OrderKept DEF Saving
  <1>6. ASSUME Cov(s) PROVE Covered(s)'
    <2>1. Covered(s) /\ Quiet
      BY <1>1, <1>6 DEF SessionInv, Cov, Quiet, Orderly
    <2>2. \A k \in Leg \ {l} : leg'[k].s = s => CoveredLeg(k, s)'
      BY <1>0, <1>1, <2>1, OthersCovered
    <2>3. CoveredLeg(l, s)'
      <3>1. CoveredLeg(l, s)
        BY <2>1 DEF Covered
      <3>. QED  BY <1>3, <3>1 DEF CoveredLeg, Saving
    <2>4. \A c \in Code : WillBeTold(s, c)'
      BY <1>0, <2>1, StillTold
    <2>. QED  BY <1>2, <2>1, <2>2, <2>3, <2>4 DEF Covered
  <1>7. ASSUME Orderly PROVE ToldOnce(s)'
    <2>1. ToldOnce(s)
      BY <1>1, <1>7 DEF SessionInv
    <2>2. /\ \A k \in Leg : (LegTells(k, s)' <=> LegTells(k, s)) /\ (NoticeTells(k, s)' <=> NoticeTells(k, s))
          /\ Telling(s)' <=> Telling(s)
      BY TellsStill DEF LegTells
    <2>3. Dialling(s)' => Dialling(s)
      BY DialsStill DEF Saving
    <2>4. \A k \in Leg : leg[k].s = s /\ Ending(k) /\ leg[k].pc # "expire"
            => leg'[k].s = s /\ Ending(k)' /\ leg'[k].pc # "expire"
      BY <1>2, <1>3 DEF Ending
    <2>. QED  BY <2>1, <2>2, <2>3, <2>4 DEF ToldOnce
  <1>8. SessionInv(s)'
    BY <1>2, <1>4, <1>5, <1>6, <1>7 DEF SessionInv, OneLoop, Cov, Orderly
  <1>. QED  BY <1>0, <1>8, TouchesKeeps

\* The reply to the operator keeps the invariant.
LEMMA AnswerKeeps ==
    ASSUME Sound, TypeInv', NEW l \in Leg, Answer(l)
    PROVE  GentleInv'
  <1>0. TypeInv /\ Basic
    BY DEF Sound
  <1>1. PICK s \in Session : s = leg[l].s
    BY <1>0 DEF Answer, TypeInv, Routed
  <1>2. /\ Touches(l) /\ leg[l].pc = "reply" /\ Free(leg[l].w) /\ loop' = loop
        /\ leg'[l].ev = leg[l].ev /\ wire' = wire
        /\ told' = told /\ ended' = ended /\ holds' = holds
        /\ \/ Ending(l) /\ leg'[l].pc = "push" /\ leg'[l].reply = "END" /\ rows'[s] = rows[s]
           \/ Ending(l) /\ leg'[l].pc = "done" /\ rows'[s] = NoRow
           \/ /\ ~Ending(l) /\ rows'[s] = rows[s] /\ leg'[l].pc \in {"push", "done"}
              /\ leg'[l].pc = "push" => leg[l].reply = "CON" /\ leg'[l].reply = "CON"
    BY <1>0, <1>1, AnswerFacts
  <1>3. l \notin wire /\ wire \subseteq Leg
    BY <1>0, <1>2 DEF Basic, TypeInv, RestOK
  <1>4. Basic'
    BY <1>0, <1>2, <1>3, BasicKept DEF Holding
  <1>5. CASE Ending(l) /\ leg'[l].pc = "done" /\ rows'[s] = NoRow
    BY <1>1, <1>2, <1>4, <1>5, ClosesKeeps
  <1>6. CASE Ending(l) /\ leg'[l].pc = "push" /\ leg'[l].reply = "END" /\ rows'[s] = rows[s]
    BY <1>1, <1>2, <1>3, <1>4, <1>6, QuietlyKeeps
  <1>7. CASE /\ ~Ending(l) /\ rows'[s] = rows[s] /\ leg'[l].pc \in {"push", "done"}
             /\ leg'[l].pc = "push" => leg[l].reply = "CON" /\ leg'[l].reply = "CON"
    BY <1>1, <1>2, <1>3, <1>4, <1>7, QuietlyKeeps
  <1>. QED  BY <1>2, <1>5, <1>6, <1>7

\* The end of a push keeps the invariant.
LEMMA PushDoneKeeps ==
    ASSUME Sound, TypeInv', NEW l \in Leg, PushDone(l)
    PROVE  GentleInv'
  <1>0. TypeInv /\ Basic /\ "db_failure" \notin env
    BY DEF Sound, Gentle, OneLoop, Quiet
  <1>1. PICK s \in Session : s = leg[l].s
    BY <1>0 DEF PushDone, TypeInv, Routed
  <1>2. /\ Touches(l) /\ leg[l].pc = "push" /\ Free(leg[l].w) /\ loop' = loop
        /\ leg'[l].pc = "done" /\ leg'[l].ev = leg[l].ev /\ wire' = wire
        /\ told' = told /\ ended' = ended /\ holds' = holds
        /\ rows'[s] = IF leg[l].reply = "END" THEN NoRow ELSE rows[s]
    BY <1>0, <1>1, PushDoneFacts
  <1>3. l \notin wire /\ wire \subseteq Leg
    BY <1>0, <1>2 DEF Basic, TypeInv, RestOK
  <1>4. Basic'
    BY <1>0, <1>2, <1>3, BasicKept DEF Holding
  <1>5. CASE leg[l].reply = "END"
    BY <1>1, <1>2, <1>4, <1>5, ClosesKeeps DEF Ending
  <1>6. CASE leg[l].reply # "END"
    <2>1. ~Ending(l)
      BY <1>2, <1>6 DEF Ending
    <2>. QED  BY <1>1, <1>2, <1>3, <1>4, <1>6, <2>1, QuietlyKeeps
  <1>. QED  BY <1>5, <1>6

\* The deletion by an ending leg keeps the invariant.
LEMMA EndSessionKeeps ==
    ASSUME Sound, TypeInv', NEW l \in Leg, EndSession(l)
    PROVE  GentleInv'
  <1>0. TypeInv /\ Basic /\ Gentle /\ \A o \in Session : SessionInv(o)
    BY DEF Sound
  <1>1. PICK s \in Session : s = leg[l].s
    BY <1>0 DEF EndSession, TypeInv, Routed
  <1>2. /\ Touches(l) /\ leg[l].pc = "end" /\ Freed(l)
        /\ leg'[l].ev = leg[l].ev /\ leg'[l].code = leg[l].code
        /\ rows'[s] = NoRow /\ told' = told /\ ended' = ended /\ holds' = holds
        /\ \/ Resolved(leg[l].code) = "active" /\ leg'[l].pc = "await" /\ wire' = wire \cup {l}
           \/ Resolved(leg[l].code) # "active" /\ leg'[l].pc = "done" /\ wire' = wire
    BY <1>0, <1>1, EndSessionFacts
  <1>3. l \notin wire /\ wire \subseteq Leg /\ leg[l].ev \in Terminal
    BY <1>0, <1>2 DEF Basic, TypeInv, RestOK
  <1>4. Company(s) /\ SessionInv(s) /\ Open(l)
    BY <1>0, <1>2 DEF SessionInv, Open, Holding
  <1>5. /\ leg'[l].s = s /\ status' = status /\ env' = env
        /\ \A k \in Leg \ {l} : leg'[k] = leg[k]
    BY <1>1, <1>2 DEF Touches
  <1>6. leg'[l].pc \in {"await", "done"} /\ leg'[l].ev \notin Menu
    BY <1>2, <1>3 DEF Terminal, Menu
  <1>7. Basic'
    <2>1. l \in wire' => leg'[l].pc = "await" /\ status[leg'[l].code] = "active"
      BY <1>2, <1>3 DEF Resolved
    <2>2. wire' \subseteq Leg
      BY <1>2, <1>3
    <2>. QED  BY <1>0, <1>2, <1>6, <2>1, <2>2, BasicKept DEF Freed, Holding
  <1>8. Company(s)'
    BY <1>1, <1>2, <1>4, CompanyKept
  <1>9. ASSUME OneLoop PROVE InOrder(s)'
    <2>1. ~Open(l)'
      BY <1>6 DEF Open, Holding
    <2>. QED  BY <1>1, <1>2, <1>4, <1>6, <1>9, <2>1, OrderKept DEF Saving, Holding
  <1>10. ASSUME Cov(s) PROVE Covered(s)'
    <2>1. Covered(s) /\ Quiet
      BY <1>4, <1>10 DEF SessionInv, Cov, Quiet, Orderly
    <2>2. \A k \in Leg \ {l} : leg'[k].s = s => CoveredLeg(k, s)'
      BY <1>0, <1>1, <1>2, <1>4, <2>1, OthersCovered
    <2>3. CoveredLeg(l, s)'
      BY <1>2, <1>6 DEF CoveredLeg, Ending, Saving
    <2>4. rows[s] # NoRow => rows[s].code = leg[l].code
      BY <1>1, <1>2, <2>1 DEF Covered, CoveredLeg
    <2>5. ASSUME NEW c \in Code, <<s, c>> \in holds', rows[s] # NoRow, rows[s].code = c
          PROVE  l \in wire' /\ leg'[l].ev \in Terminal /\ leg'[l].code = c
      <3>1. status[c] = "active" /\ c = leg[l].code /\ c # None
        BY <1>2, <2>1, <2>4, <2>5, NoneAssumption DEF Covered
      <3>2. Resolved(leg[l].code) = "active"
        BY <3>1 DEF Resolved
      <3>. QED  BY <1>2, <1>3, <3>1, <3>2
    <2>6. \A c \in Code : WillBeTold(s, c)'
      <3>1. \A c : <<s, c>> \in holds' => <<s, c>> \in holds
        BY <1>2
      <3>. QED  BY <1>0, <1>1, <1>2, <1>3, <2>1, <2>5, <3>1, StillTold
    <2>. QED  BY <1>2, <1>5, <2>1, <2>2, <2>3, <2>6 DEF Covered
  <1>11. ASSUME Orderly PROVE ToldOnce(s)'
    <2>1. ToldOnce(s) /\ s \notin ended /\ told[s] = 0 /\ ~Telling(s)
      BY <1>1, <1>2, <1>4, <1>11, NotOver DEF SessionInv
    <2>2. \A k \in Leg \ {l} : (LegTells(k, s)' <=> LegTells(k, s))
      BY <1>2, <1>5 DEF LegTells, Touches
    <2>3. \A k \in Leg : NoticeTells(k, s)' <=> NoticeTells(k, s)
      BY <1>2 DEF NoticeTells, Touches
    <2>4. \A k \in Leg : (LegTells(k, s)' => k = l) /\ ~NoticeTells(k, s)'
      BY <2>1, <2>2, <2>3 DEF Telling
    <2>5. ~Dialling(s)
      <3> SUFFICES ASSUME NEW k \in Leg, leg[k].s = s, leg[k].pc \in Saving PROVE FALSE
        BY DEF Dialling
      <3>1. Open(k) /\ Quiet
        BY <1>11 DEF Open, Saving, Holding, Orderly, Quiet
      <3>2. k = l
        BY <1>1, <1>4, <3>1, Lonely
      <3>. QED  BY <1>2, <3>2 DEF Saving
    <2>6. ~Dialling(s)'
      BY <1>1, <1>2, <1>6, <2>5, DialsStill DEF Saving
    <2>. QED  BY <1>2, <2>1, <2>4, <2>6 DEF ToldOnce
  <1>12. SessionInv(s)'
    BY <1>5, <1>8, <1>9, <1>10, <1>11 DEF SessionInv, OneLoop, Cov, Orderly
  <1>. QED  BY <1>0, <1>1, <1>2, <1>7, <1>12, TouchesKeeps

\* The handler's answer to a menu leg keeps the invariant.
LEMMA HandleMenuKeeps ==
    ASSUME Sound, TypeInv', NEW l \in Leg, NEW r \in {"CON", "END"}, HandleMenu(l, r)
    PROVE  GentleInv'
  <1>0. TypeInv /\ Basic /\ Gentle /\ "handler_failure" \notin env /\ \A o \in Session : SessionInv(o)
    BY DEF Sound, Gentle, OneLoop, Quiet
  <1>1. PICK s \in Session : s = leg[l].s
    BY <1>0 DEF HandleMenu, TypeInv, Routed
  <1>2. /\ Touches(l) /\ l \in wire /\ leg[l].pc = "await" /\ leg[l].ev \in Menu
        /\ leg'[l].pc = "reply" /\ leg'[l].reply = r
        /\ leg'[l].ev = leg[l].ev /\ leg'[l].code = leg[l].code /\ leg[l].code \in Code
        /\ rows' = rows /\ told' = told /\ wire' = wire \ {l} /\ loop' = loop
        /\ ended' = IF r = "END" THEN ended \cup {s} ELSE ended
        /\ \A c : <<s, c>> \in holds' <=> IF c = leg[l].code THEN r = "CON" ELSE <<s, c>> \in holds
    BY <1>0, <1>1, HandleMenuFacts
  <1>3. wire' \subseteq Leg /\ l \notin wire'
    BY <1>0, <1>2 DEF TypeInv, RestOK
  <1>4. Company(s) /\ SessionInv(s) /\ Open(l) /\ Open(l)'
    BY <1>0, <1>2 DEF SessionInv, Open
  <1>5. /\ leg'[l].s = s /\ status' = status /\ env' = env
        /\ notice' = notice /\ nwire' = nwire
        /\ \A k \in Leg \ {l} : leg'[k] = leg[k] /\ (k \in wire' <=> k \in wire)
    BY <1>1, <1>2 DEF Touches
  <1>6. Basic'
    BY <1>0, <1>2, <1>3, BasicKept DEF Holding
  <1>7. Company(s)'
    BY <1>1, <1>2, <1>4, CompanyKept DEF Company
  <1>8. ASSUME OneLoop PROVE InOrder(s)'
    BY <1>1, <1>2, <1>3, <1>4, <1>8, OrderKept DEF Saving
  <1>9. ASSUME Cov(s) PROVE Covered(s)'
    <2>1. Covered(s) /\ Quiet
      BY <1>4, <1>9 DEF SessionInv, Cov, Quiet, Orderly
    <2>2. \A k \in Leg \ {l} : leg'[k].s = s => CoveredLeg(k, s)'
      BY <1>0, <1>1, <1>2, <1>4, <2>1, OthersCovered
    <2>3. rows[s] # NoRow /\ rows[s].code = leg[l].code /\ rows[s].age <= IdleOf(s)
      BY <1>1, <1>2, <2>1 DEF Covered, CoveredLeg
    <2>4. r # "CON" => <<s, rows[s].code>> \notin holds'
      BY <1>2, <2>3
    <2>5. CoveredLeg(l, s)'
      BY <1>2, <2>3, <2>4 DEF CoveredLeg, Ending, Saving
    <2>6. status[leg[l].code] = "active"
      BY <1>0, <1>2 DEF Basic
    <2>7. \A c \in Code : <<s, c>> \in holds' => status'[c] = "active"
      BY <1>2, <1>5, <2>1, <2>6 DEF Covered
    <2>8. ASSUME NEW c \in Code PROVE WillBeTold(s, c)'
      <3>1. CASE c = leg[l].code
        BY <1>2, <2>3, <3>1 DEF WillBeTold
      <3>2. CASE c # leg[l].code
        <4>1. leg[l].ev \notin Terminal
          BY <1>2 DEF Menu, Terminal
        <4>2. OnItsWay(s, c) => OnItsWay(s, c)'
          <5>1. wire \subseteq Leg
            BY <1>0 DEF TypeInv, RestOK
          <5>2. \A k \in wire : leg[k].ev \in Terminal => k \in wire' /\ leg'[k] = leg[k]
            BY <1>5, <4>1, <5>1
          <5>. QED  BY <1>5, <5>2 DEF OnItsWay
        <4>3. WillBeTold(s, c)
          BY <2>1 DEF Covered
        <4>4. <<s, c>> \in holds' => <<s, c>> \in holds
          BY <1>2, <3>2
        <4>. QED  BY <1>2, <4>2, <4>3, <4>4 DEF WillBeTold
      <3>. QED  BY <3>1, <3>2
    <2>. QED  BY <2>2, <2>5, <2>7, <2>8 DEF Covered
  <1>10. ASSUME Orderly PROVE ToldOnce(s)'
    <2>1. ToldOnce(s) /\ s \notin ended /\ told[s] = 0 /\ ~Telling(s)
      BY <1>1, <1>2, <1>4, <1>10, NotOver DEF SessionInv
    <2>2. leg[l].ev \notin Terminal
      BY <1>2 DEF Menu, Terminal
    <2>3. /\ \A k \in Leg : (LegTells(k, s)' <=> LegTells(k, s)) /\ (NoticeTells(k, s)' <=> NoticeTells(k, s))
          /\ Telling(s)' <=> Telling(s)
      BY <1>1, <1>2, <2>2, TellsStill DEF LegTells
    <2>4. ~Dialling(s)
      <3> SUFFICES ASSUME NEW k \in Leg, leg[k].s = s, leg[k].pc \in Saving PROVE FALSE
        BY DEF Dialling
      <3>1. Open(k) /\ Quiet
        BY <1>10 DEF Open, Saving, Holding, Orderly, Quiet
      <3>2. k = l
        BY <1>1, <1>4, <3>1, Lonely
      <3>. QED  BY <1>2, <3>2 DEF Saving
    <2>5. ~Dialling(s)'
      BY <1>1, <1>2, <2>4, DialsStill DEF Saving
    <2>6. s \in ended' => leg'[l].s = s /\ Ending(l)' /\ leg'[l].pc # "expire"
      BY <1>2, <1>5, <2>1 DEF Ending
    <2>. QED  BY <1>2, <2>1, <2>3, <2>5, <2>6 DEF ToldOnce
  <1>11. SessionInv(s)'
    BY <1>5, <1>7, <1>8, <1>9, <1>10 DEF SessionInv, OneLoop, Cov, Orderly
  <1>. QED  BY <1>0, <1>1, <1>2, <1>6, <1>11, TouchesKeeps

\* The handler's being told of an end by a leg keeps the invariant.
LEMMA HandleEndedKeeps ==
    ASSUME Sound, TypeInv', NEW l \in Leg, HandleEnded(l)
    PROVE  GentleInv'
  <1>0. TypeInv /\ Basic /\ Gentle /\ "handler_failure" \notin env /\ \A o \in Session : SessionInv(o)
    BY DEF Sound, Gentle, OneLoop, Quiet
  <1>1. PICK s \in Session : s = leg[l].s
    BY <1>0 DEF HandleEnded, TypeInv, Routed
  <1>2. /\ Touches(l) /\ l \in wire /\ leg[l].pc = "await" /\ leg[l].ev \in Terminal
        /\ leg'[l].pc = "reply" /\ leg'[l].reply = "none"
        /\ leg'[l].ev = leg[l].ev /\ leg'[l].code = leg[l].code /\ leg[l].code \in Code
        /\ rows' = rows /\ wire' = wire \ {l} /\ loop' = loop
        /\ told'[s] = told[s] + 1 /\ ended' = ended
        /\ \A c : <<s, c>> \in holds' <=> c # leg[l].code /\ <<s, c>> \in holds
    BY <1>0, <1>1, HandleEndedFacts
  <1>3. wire' \subseteq Leg /\ l \notin wire' /\ leg[l].ev \notin Menu
    BY <1>0, <1>2 DEF TypeInv, RestOK, Menu, Terminal
  <1>4. Company(s) /\ SessionInv(s) /\ ~Open(l)'
    BY <1>0, <1>2, <1>3 DEF SessionInv, Open, Holding
  <1>5. /\ leg'[l].s = s /\ status' = status /\ env' = env
        /\ notice' = notice /\ nwire' = nwire
        /\ \A k \in Leg \ {l} : leg'[k] = leg[k] /\ (k \in wire' <=> k \in wire)
    BY <1>1, <1>2 DEF Touches
  <1>6. Basic'
    BY <1>0, <1>2, <1>3, BasicKept DEF Holding
  <1>7. Company(s)'
    BY <1>1, <1>2, <1>4, CompanyKept DEF Company
  <1>8. ASSUME OneLoop PROVE InOrder(s)'
    BY <1>1, <1>2, <1>3, <1>4, <1>8, OrderKept DEF Saving
  <1>9. ASSUME Cov(s) PROVE Covered(s)'
    <2>1. Covered(s) /\ Quiet
      BY <1>4, <1>9 DEF SessionInv, Cov, Quiet, Orderly
    <2>2. \A k \in Leg \ {l} : leg'[k].s = s => CoveredLeg(k, s)'
      BY <1>0, <1>1, <1>2, <1>4, <2>1, OthersCovered
    <2>3. CoveredLeg(l, s)'
      BY <1>2, <1>3 DEF CoveredLeg, Ending, Saving
    <2>4. \A c \in Code : <<s, c>> \in holds' => status'[c] = "active"
      BY <1>2, <1>5, <2>1 DEF Covered
    <2>5. ASSUME NEW c \in Code, <<s, c>> \in holds'
          PROVE  (rows'[s] # NoRow /\ rows'[s].code = c) \/ OnItsWay(s, c)'
      <3>1. <<s, c>> \in holds /\ c # leg[l].code
        BY <1>2, <2>5
      <3>2. OnItsWay(s, c) => OnItsWay(s, c)'
        <4>1. wire \subseteq Leg
          BY <1>0 DEF TypeInv, RestOK
        <4>2. \A k \in wire : leg[k].code = c => k \in wire' /\ leg'[k] = leg[k]
          BY <1>5, <3>1, <4>1
        <4>. QED  BY <1>5, <4>2 DEF OnItsWay
      <3>. QED  BY <1>2, <2>1, <3>1, <3>2 DEF Covered, WillBeTold
    <2>. QED  BY <2>2, <2>3, <2>4, <2>5 DEF Covered, WillBeTold
  <1>10. ASSUME Orderly PROVE ToldOnce(s)'
    <2>1. ToldOnce(s) /\ LegTells(l, s)
      BY <1>1, <1>2, <1>4, <1>10 DEF SessionInv, LegTells
    <2>2. Telling(s) /\ told[s] = 0 /\ rows[s] = NoRow /\ ~Dialling(s) /\ s \notin ended
      BY <2>1 DEF ToldOnce, Telling
    <2>3. \A k \in Leg : ~LegTells(k, s)'
      BY <1>2, <1>3, <1>5, <2>1 DEF ToldOnce, LegTells
    <2>4. \A k \in Leg : ~NoticeTells(k, s)'
      BY <1>5, <2>1 DEF ToldOnce, NoticeTells
    <2>5. ~Telling(s)'
      BY <2>3, <2>4 DEF Telling
    <2>6. ~Dialling(s)'
      BY <1>1, <1>2, <2>2, DialsStill DEF Saving
    <2>7. told'[s] = 1
      BY <1>2, <2>2
    <2>. QED  BY <1>2, <2>2, <2>3, <2>4, <2>5, <2>6, <2>7 DEF ToldOnce
  <1>11. SessionInv(s)'
    BY <1>5, <1>7, <1>8, <1>9, <1>10 DEF SessionInv, OneLoop, Cov, Orderly
  <1>. QED  BY <1>0, <1>1, <1>2, <1>6, <1>11, TouchesKeeps

-----------------------------------------------------------------------------
(* So does the arrival of a leg.                                           *)

\* A leg arrives at a loop that is free, for a session that no other loop has,
\* and that nobody else has once legs do not overlap.
Arrives(l, w, s, ev) ==
    /\ leg[l].pc = "idle" /\ leg[l].s = None /\ l \notin wire /\ Free(w)
    /\ leg'[l].s = s /\ leg'[l].w = w /\ leg'[l].ev = ev /\ leg'[l].n = typed'[s]
    /\ leg'[l].prior = NoRow /\ leg'[l].pc \in {"parse", "save"}
    /\ leg'[l].pc = "save" => ev = "START"
    /\ OpOf[s] = "airtel" => ev \in Menu
    /\ \A k \in Leg \ {l} : leg'[k] = leg[k]
    /\ loop' = [loop EXCEPT ![w] = l]
    /\ \A k \in Leg : leg[k].s = s /\ Open(k) => leg[k].w = w /\ ~Quiet
    /\ ev = "START" => dialed[s] = None /\ dialed'[s] # None /\ typed'[s] = 0
                       /\ told'[s] = 0 /\ s \notin ended'
    /\ ev # "START" => dialed[s] # None /\ dialed' = dialed /\ told' = told /\ ended' = ended
    /\ ev # "START" /\ OneLoop => rows[s] # NoRow /\ rows[s].age <= IdleOf(s)
    /\ ev = "INPUT" => typed'[s] = typed[s] + 1
    /\ ev \notin Menu => typed'[s] = typed[s]
    /\ \A o \in Session \ {s} : /\ typed'[o] = typed[o] /\ dialed'[o] = dialed[o]
                                /\ told'[o] = told[o] /\ (o \in ended' <=> o \in ended)
    /\ UNCHANGED <<rows, status, notice, nwire, wire, holds, env>>

\* What the arrival of a leg does in a gentle environment.
LEMMA ReceiveFacts ==
    ASSUME TypeInv, Basic, Gentle, NEW l \in Leg, NEW w \in Worker, NEW s \in Session, NEW ev \in Wire,
           NEW c \in Code \cup {None}, Receive(l, w, s, ev, c)
    PROVE  Arrives(l, w, s, ev)
  <1>1. leg[l].pc = "idle" /\ leg[l].s = None /\ l \notin wire /\ Free(w)
    <2>1. leg[l].pc = "idle" /\ leg[l] = Blank
      BY DEF Receive, Basic
    <2>. QED  BY <2>1 DEF Receive, Basic, Blank
  <1> DEFINE pc == IF ev = "START" /\ OpOf[s] # "airtel" THEN "save" ELSE "parse"
             r  == [Blank EXCEPT !.pc = pc, !.w = w, !.s = s, !.ev = ev, !.code = c, !.n = typed'[s]]
  <1>2. leg \in [Leg -> LegRecord] /\ leg' = [leg EXCEPT ![l] = r]
    BY LegType DEF Receive
  <1>3. pc \in {"parse", "save"} /\ (pc = "save" => ev = "START")
    OBVIOUS
  <1> HIDE DEF pc
  <1>4. r.s = s /\ r.w = w /\ r.ev = ev /\ r.n = typed'[s] /\ r.prior = NoRow /\ r.pc = pc
    BY DEF Blank
  <1> HIDE DEF r
  <1>5. /\ leg'[l].s = s /\ leg'[l].w = w /\ leg'[l].ev = ev /\ leg'[l].n = typed'[s]
        /\ leg'[l].prior = NoRow /\ leg'[l].pc \in {"parse", "save"}
        /\ leg'[l].pc = "save" => ev = "START"
        /\ \A k \in Leg \ {l} : leg'[k] = leg[k]
    BY <1>2, <1>3, <1>4
  <1>6. MayArrive(w, s, ev) /\ c \in CarriedCodes(s, ev)
    BY DEF Receive
  <1>7. OpOf[s] = "airtel" => ev \in Menu
    BY <1>6 DEF MayArrive, WireOf
  <1>8. ASSUME NEW k \in Leg, leg[k].s = s, Open(k)
        PROVE  leg[k].w = w /\ ~Quiet
    <2>1. k \in Unanswered(s)
      BY <1>8 DEF Unanswered, Open
    <2>2. (IF leg[k].w = w THEN "overlap" ELSE "spread") \in env
      BY <1>6, <2>1 DEF MayArrive
    <2>. QED  BY <2>2 DEF Gentle, OneLoop, Quiet
  <1>9. ev = "START" => dialed[s] = None /\ c \in Code /\ c # None
    BY <1>6, NoneAssumption DEF MayArrive, CarriedCodes, Gentle, OneLoop, Quiet
  <1>10. ev # "START" => dialed[s] # None /\ (OneLoop => rows[s] # NoRow /\ rows[s].age <= IdleOf(s))
    BY <1>6 DEF MayArrive, OneLoop
  <1>11. /\ typed \in [Session -> Nat] /\ dialed \in [Session -> Code \cup {None}]
         /\ told \in [Session -> Nat]
    BY DEF TypeInv, RestOK
  <1>12. /\ ev = "START" => typed'[s] = 0
         /\ ev = "INPUT" => typed'[s] = typed[s] + 1
         /\ ev \notin Menu => typed'[s] = typed[s]
         /\ \A o \in Session \ {s} : typed'[o] = typed[o]
    <2>1. typed' = [typed EXCEPT ![s] = CASE ev = "START" -> 0
                                       [] ev = "INPUT" -> typed[s] + 1
                                       [] OTHER        -> typed[s]]
      BY DEF Receive
    <2>. QED  BY <1>11, <2>1 DEF Menu
  <1>13. /\ ev = "START" => dialed'[s] = c /\ told'[s] = 0 /\ s \notin ended'
         /\ ev # "START" => dialed' = dialed /\ told' = told /\ ended' = ended
         /\ \A o \in Session \ {s} : /\ dialed'[o] = dialed[o]
                                     /\ told'[o] = told[o] /\ (o \in ended' <=> o \in ended)
    BY <1>11 DEF Receive
  <1>14. loop' = [loop EXCEPT ![w] = l] /\ UNCHANGED <<rows, status, notice, nwire, wire, holds, env>>
    BY DEF Receive, table, notices
  <1>. QED  BY <1>1, <1>5, <1>7, <1>8, <1>9, <1>10, <1>12, <1>13, <1>14 DEF Arrives

\* The arrival of a leg keeps the invariant.
LEMMA ReceiveKeeps ==
    ASSUME Sound, LifeInv, TypeInv', NEW l \in Leg, NEW w \in Worker, NEW s \in Session, NEW ev \in Wire,
           NEW c \in Code \cup {None}, Receive(l, w, s, ev, c)
    PROVE  GentleInv'
  <1>0. TypeInv /\ Basic /\ Gentle /\ \A o \in Session : SessionInv(o)
    BY DEF Sound
  <1>1. Arrives(l, w, s, ev)
    BY <1>0, ReceiveFacts
  <1> USE DEF Arrives
  <1>2. /\ leg'[l].s = s /\ leg'[l].pc \in {"parse", "save"} /\ leg'[l].ev = ev
        /\ \A k \in Leg \ {l} : leg'[k] = leg[k]
        /\ \A k \in Leg : leg[k].s = s /\ Open(k) => leg[k].w = w /\ ~Quiet
        /\ l \notin wire /\ leg[l].s # s /\ UNCHANGED <<rows, status, notice, nwire, wire, holds, env>>
    BY <1>1, NoneAssumption
  <1>3. Basic'
    <2>1. ASSUME NEW k \in Leg, leg'[k].pc \in Holding
          PROVE  leg'[k].w \in Worker /\ loop'[leg'[k].w] = k
      <3>1. loop \in [Worker -> Leg \cup {None}]
        BY <1>0 DEF TypeInv, RestOK
      <3>2. CASE k = l
        BY <1>1, <3>1, <3>2
      <3>3. CASE k # l
        <4>1. leg'[k] = leg[k] /\ leg[k].w \in Worker /\ loop[leg[k].w] = k
          BY <1>0, <1>2, <2>1, <3>3 DEF Basic
        <4>2. leg[k].w # w
          BY <1>1, <4>1, NoneAssumption DEF Free
        <4>. QED  BY <1>1, <3>1, <4>1, <4>2
      <3>. QED  BY <3>2, <3>3
    <2>2. \A k \in Leg : leg'[k].pc = "idle" => leg'[k] = Blank
      BY <1>0, <1>2 DEF Basic
    <2>3. \A k \in Leg : leg'[k].pc = "save" \/ (leg'[k].pc = "parse" /\ OpOf[leg'[k].s] = "airtel")
            => leg'[k].ev \in Menu
      BY <1>0, <1>1 DEF Basic, Op, Menu
    <2>4. \A k \in Leg : leg'[k].pc = "end" => leg'[k].ev \in Terminal
      BY <1>0, <1>2 DEF Basic
    <2>5. \A k \in wire' : leg'[k].pc = "await" /\ status'[leg'[k].code] = "active"
      <3>1. wire \subseteq Leg
        BY <1>0 DEF TypeInv, RestOK
      <3>. QED  BY <1>0, <1>2, <3>1 DEF Basic
    <2>6. /\ \A b \in nwire' : notice'[b].st \notin {"none", "claimed"}
          /\ \A b \in Leg : notice'[b].st = "none" => notice'[b].s = None
      BY <1>0, <1>2 DEF Basic
    <2>. QED  BY <2>1, <2>2, <2>3, <2>4, <2>5, <2>6 DEF Basic, Op
  <1>4. ASSUME NEW o \in Session, o # s PROVE SessionInv(o)'
    <2>1. Apart(o)
      BY <1>1, <1>4, NoneAssumption DEF Apart
    <2>2. nwire \subseteq Leg /\ nwire' \subseteq Leg /\ wire \subseteq Leg /\ wire' \subseteq Leg
      BY <1>0 DEF TypeInv, RestOK
    <2>. QED  BY <1>0, <2>1, <2>2, ApartKeeps
  <1>5. SessionInv(s) /\ Company(s)
    BY <1>0 DEF SessionInv
  <1>6. \A k \in Leg : k # l => (Open(k)' <=> Open(k)) /\ (Reading(k)' <=> Reading(k)) /\ (Ending(k)' <=> Ending(k))
                                /\ CodeAfter(k)' = CodeAfter(k) /\ (Writes(k)' <=> Writes(k))
    BY <1>2 DEF Open, Reading, Ending, CodeAfter, Writes, Op
  <1>7. Company(s)'
    <2>1. \A k \in Leg : leg'[k].s = s /\ Open(k)' => leg'[k].w = w /\ (Quiet => k = l)
      BY <1>1, <1>6
    <2>2. dialed'[s] # None
      BY <1>1
    <2>3. rows'[s] # NoRow => rows'[s].age <= MaxAge
      BY <1>2, <1>5 DEF Company
    <2>4. Quiet' => Quiet
      BY <1>2 DEF Quiet
    <2>. QED  BY <2>1, <2>2, <2>3, <2>4 DEF Company
  \* Before a dial, nothing is known of the session.
  <1>8. ev = "START" => rows[s] = NoRow /\ \A k \in Leg : leg[k].s # s
    BY <1>1, <1>5 DEF Company
  <1>9. \A k \in Leg : leg[k].s = s => leg[k].pc \notin Holding
    <2> SUFFICES ASSUME NEW k \in Leg, leg[k].s = s, leg[k].pc \in Holding PROVE FALSE
      OBVIOUS
    <2>1. leg[k].w = w /\ loop[leg[k].w] = k
      BY <1>0, <1>2 DEF Open, Basic
    <2>. QED  BY <1>1, <2>1, NoneAssumption DEF Free
  <1>10. ASSUME OneLoop PROVE InOrder(s)'
    <2>1. InOrder(s) /\ \A k \in Leg : leg[k].s = s => ~Reading(k)
      BY <1>5, <1>9, <1>10 DEF SessionInv, Reading, Saving, Holding
    <2>2. ASSUME NEW k \in Leg, leg'[k].s = s, k # l PROVE InOrderLeg(k, s)'
      <3>1. leg'[k] = leg[k] /\ leg[k].s = s
        BY <1>2, <2>2
      <3>2. InOrderLeg(k, s) /\ leg[k].pc \notin Holding /\ (Open(k)' <=> Open(k))
        BY <1>6, <1>9, <2>1, <2>2, <3>1 DEF InOrder
      <3>. QED  BY <1>2, <3>1, <3>2 DEF InOrderLeg, Saving, Holding
    <2>3. ev # "START" => rows[s] # NoRow /\ rows[s].age <= IdleOf(s)
      BY <1>1, <1>10
    <2>4. ev # "START" => rows[s].trail = typed[s]
      BY <2>1, <2>3 DEF InOrder
    <2>5. InOrderLeg(l, s)'
      <3>1. leg'[l].n = typed'[s] /\ leg'[l].prior = NoRow /\ (leg'[l].pc = "save" => ev = "START")
        BY <1>1
      <3>2. ev = "START" => typed'[s] = 0
        BY <1>1
      <3>3. ev = "INPUT" => typed'[s] = typed[s] + 1
        BY <1>1
      <3>. QED  BY <1>2, <1>8, <2>3, <2>4, <3>1, <3>2, <3>3 DEF InOrderLeg, Saving
    <2>6. \A k \in Leg : leg'[k].s = s => InOrderLeg(k, s)'
      BY <2>2, <2>5
    <2>7. rows'[s] # NoRow /\ ~Reading(l)' => rows'[s].trail = typed'[s]
      <3>1. rows[s] # NoRow => ev # "START"
        BY <1>8
      <3>2. ev \notin Menu => typed'[s] = typed[s]
        BY <1>1
      <3>. QED  BY <1>2, <2>4, <3>1, <3>2 DEF Reading, Saving
    <2>. QED  BY <1>2, <2>6, <2>7 DEF InOrder
  <1>11. ASSUME Cov(s) PROVE Covered(s)'
    <2>1. Covered(s)
      BY <1>5, <1>11 DEF SessionInv
    <2>2. ASSUME NEW k \in Leg, leg'[k].s = s PROVE CoveredLeg(k, s)'
      <3>1. CASE k # l
        <4>1. leg'[k] = leg[k] /\ CoveredLeg(k, s)
          BY <1>2, <2>1, <2>2, <3>1 DEF Covered
        <4>. QED  BY <1>2, <1>6, <3>1, <4>1 DEF CoveredLeg
      <3>2. CASE k = l
        <4>1. leg'[l].pc = "save" => leg'[l].ev = "START"
          BY <1>1
        <4>. QED  BY <1>2, <1>8, <3>2, <4>1 DEF CoveredLeg, Ending, Saving, Writes
      <3>. QED  BY <3>1, <3>2
    <2>3. ASSUME NEW d \in Code PROVE WillBeTold(s, d)'
      <3>1. OnItsWay(s, d) => OnItsWay(s, d)'
        <4>1. \A k \in wire : leg'[k] = leg[k]
          BY <1>0, <1>2 DEF TypeInv, RestOK
        <4>. QED  BY <1>2, <4>1 DEF OnItsWay
      <3>2. WillBeTold(s, d)
        BY <2>1 DEF Covered
      <3>. QED  BY <1>2, <3>1, <3>2 DEF WillBeTold
    <2>. QED  BY <1>2, <2>1, <2>2, <2>3 DEF Covered
  <1>12. ASSUME Orderly PROVE ToldOnce(s)'
    <2>1. ToldOnce(s) /\ OneLoop /\ Quiet
      BY <1>5, <1>12 DEF SessionInv, Orderly, OneLoop, Quiet
    <2>2. \A k \in Leg : (LegTells(k, s)' <=> LegTells(k, s)) /\ (NoticeTells(k, s)' <=> NoticeTells(k, s))
      BY <1>2 DEF LegTells, NoticeTells
    <2>3. Telling(s)' <=> Telling(s)
      BY <2>2 DEF Telling
    <2>4. CASE ev = "START"
      <3>1. \A k \in Leg : ~LegTells(k, s) /\ ~NoticeTells(k, s)
        <4> SUFFICES ASSUME NEW k \in Leg PROVE ~LegTells(k, s) /\ ~NoticeTells(k, s)
          OBVIOUS
        <4>1. leg[k].s # s
          BY <1>8, <2>4
        <4>2. notice[k].s = s => notice[k].st = "none"
          BY <4>1 DEF LifeInv, NoticesAgree
        <4>. QED  BY <1>0, <4>1, <4>2 DEF LegTells, NoticeTells, Basic
      <3>2. ~Telling(s)
        BY <3>1 DEF Telling
      <3>3. told'[s] = 0 /\ s \notin ended'
        BY <1>1, <2>4
      <3>. QED  BY <2>2, <2>3, <3>1, <3>2, <3>3 DEF ToldOnce
    <2>5. CASE ev # "START"
      <3>1. rows[s] # NoRow /\ told' = told /\ ended' = ended
        BY <1>1, <2>1, <2>5
      <3>2. told[s] = 0 /\ ~Telling(s)
        BY <2>1, <3>1 DEF ToldOnce
      <3>3. s \notin ended
        <4> SUFFICES ASSUME s \in ended PROVE FALSE
          OBVIOUS
        <4>1. PICK k \in Leg : leg[k].s = s /\ Ending(k) /\ leg[k].pc # "expire"
          BY <2>1, <3>1 DEF ToldOnce
        <4>2. Open(k)
          BY <4>1 DEF Open, Ending
        <4>. QED  BY <1>2, <2>1, <4>1, <4>2
      <3>. QED  BY <2>1, <2>2, <2>3, <3>1, <3>2, <3>3 DEF ToldOnce
    <2>. QED  BY <2>4, <2>5
  <1>13. SessionInv(s)'
    BY <1>2, <1>7, <1>10, <1>11, <1>12 DEF SessionInv, OneLoop, Cov, Orderly
  <1>. QED  BY <1>3, <1>4, <1>13 DEF GentleInv

-----------------------------------------------------------------------------
(* So does every step of a notification.                                   *)

\* What a step of a notification leaves alone.
NoticeTouches(b) ==
    /\ notice[b].s \in Session /\ notice[b].st # "none"
    /\ notice'[b].s = notice[b].s /\ notice'[b].code = notice[b].code
    /\ notice'[b].st \notin {"none", "claimed"}
    /\ \A d \in Leg \ {b} : notice'[d] = notice[d] /\ (d \in nwire' <=> d \in nwire)
    /\ \A s \in Session \ {notice[b].s} :
         told'[s] = told[s] /\ \A c : <<s, c>> \in holds' <=> <<s, c>> \in holds
    /\ \A c : <<notice[b].s, c>> \in holds' => <<notice[b].s, c>> \in holds
    /\ UNCHANGED <<rows, status, leg, loop, wire, dialed, typed, ended, env>>

\* A notification names the session of the leg that opened the row.
LEMMA NoticeSession ==
    ASSUME TypeInv, LifeInv, NEW b \in Leg, notice[b].st # "none"
    PROVE  notice[b].s \in Session
  BY DEF TypeInv, Routed, LifeInv, Unnamed, NoticesAgree, Unsaved

\* A step of a notification keeps the invariant, if it keeps what it may change.
LEMMA NoticeKeeps ==
    ASSUME Sound, TypeInv', NEW b \in Leg, NoticeTouches(b), NEW s \in Session, s = notice[b].s,
           Cov(s) /\ Covered(s) => \A c \in Code : WillBeTold(s, c)',
           Orderly /\ ToldOnce(s) => ToldOnce(s)'
    PROVE  GentleInv'
  <1>0. TypeInv /\ Basic /\ Gentle /\ SessionInv(s) /\ \A o \in Session : SessionInv(o)
    BY DEF Sound
  <1>1. UNCHANGED <<rows, status, leg, loop, wire, dialed, typed, ended, env>>
    BY DEF NoticeTouches
  <1>2. Basic'
    <2>1. nwire' \subseteq Leg
      BY DEF TypeInv, RestOK
    <2>2. \A d \in nwire' : notice'[d].st \notin {"none", "claimed"}
      BY <1>0, <2>1 DEF Basic, NoticeTouches
    <2>3. \A d \in Leg : notice'[d].st = "none" => notice'[d].s = None
      BY <1>0 DEF Basic, NoticeTouches
    <2>. QED  BY <1>0, <1>1, <2>2, <2>3 DEF Basic, Op
  <1>3. ASSUME NEW o \in Session, o # s PROVE SessionInv(o)'
    <2>1. Apart(o)
      BY <1>1, <1>3 DEF Apart, NoticeTouches
    <2>2. nwire \subseteq Leg /\ nwire' \subseteq Leg /\ wire \subseteq Leg /\ wire' \subseteq Leg
      BY <1>0 DEF TypeInv, RestOK
    <2>. QED  BY <1>0, <2>1, <2>2, ApartKeeps
  <1>4. \A l \in Leg : /\ Open(l)' <=> Open(l)
                       /\ Reading(l)' <=> Reading(l)
                       /\ Ending(l)' <=> Ending(l)
                       /\ CodeAfter(l)' = CodeAfter(l)
                       /\ Writes(l)' <=> Writes(l)
    BY <1>1 DEF Open, Reading, Ending, CodeAfter, Writes, Op
  <1>5. Company(s)'
    <2>1. Quiet' <=> Quiet
      BY <1>1 DEF Quiet
    <2>. QED  BY <1>0, <1>1, <1>4, <2>1 DEF SessionInv, Company
  <1>6. ASSUME OneLoop PROVE InOrder(s)'
    <2>1. InOrder(s)
      BY <1>0, <1>6 DEF SessionInv
    <2>2. \A l \in Leg : InOrderLeg(l, s) => InOrderLeg(l, s)'
      BY <1>1, <1>4 DEF InOrderLeg
    <2>. QED  BY <1>1, <1>4, <2>1, <2>2 DEF InOrder
  <1>7. ASSUME Cov(s) PROVE Covered(s)'
    <2>1. Covered(s)
      BY <1>0, <1>7 DEF SessionInv
    <2>2. \A c : <<s, c>> \in holds' => <<s, c>> \in holds
      BY DEF NoticeTouches
    <2>3. \A l \in Leg : CoveredLeg(l, s) => CoveredLeg(l, s)'
      BY <1>1, <1>4, <2>2 DEF CoveredLeg
    <2>. QED  BY <1>1, <1>7, <2>1, <2>2, <2>3 DEF Covered
  <1>8. Orderly => ToldOnce(s)'
    BY <1>0 DEF SessionInv
  <1>9. SessionInv(s)'
    BY <1>1, <1>5, <1>6, <1>7, <1>8 DEF SessionInv, OneLoop, Cov, Orderly
  <1>. QED  BY <1>2, <1>3, <1>9 DEF GentleInv

\* The notifications that other legs' sessions are due stay due.
LEMMA OthersOnTheirWay ==
    ASSUME TypeInv, NEW b \in Leg, NoticeTouches(b), NEW s \in Session, s = notice[b].s, Covered(s),
           \A c \in Code : notice[b].code = c /\ <<s, c>> \in holds'
             /\ (notice[b].st = "claimed" \/ b \in nwire) => b \in nwire'
    PROVE  \A c \in Code : WillBeTold(s, c)'
  <1> SUFFICES ASSUME NEW c \in Code, <<s, c>> \in holds', ~(rows[s] # NoRow /\ rows[s].code = c)
               PROVE  OnItsWay(s, c)'
    BY DEF WillBeTold, NoticeTouches
  <1>1. OnItsWay(s, c)
    BY DEF Covered, WillBeTold, NoticeTouches
  <1>2. CASE \E l \in wire : leg[l].ev \in Terminal /\ leg[l].s = s /\ leg[l].code = c
    BY <1>2 DEF OnItsWay, NoticeTouches
  <1>3. ASSUME NEW d \in Leg, notice[d].s = s, notice[d].code = c, notice[d].st = "claimed" \/ d \in nwire
        PROVE  OnItsWay(s, c)'
    <2>1. CASE d = b
      BY <1>3, <2>1 DEF OnItsWay, NoticeTouches
    <2>2. CASE d # b
      BY <1>3, <2>2 DEF OnItsWay, NoticeTouches
    <2>. QED  BY <2>1, <2>2
  <1>. QED  BY <1>1, <1>2, <1>3 DEF OnItsWay

\* A session's end is told no more than before.
LEMMA ToldNoMore ==
    ASSUME NEW b \in Leg, NoticeTouches(b), NEW s \in Session, s = notice[b].s, ToldOnce(s),
           NoticeTells(b, s)' => NoticeTells(b, s), told' = told
    PROVE  ToldOnce(s)'
  <1>1. UNCHANGED <<rows, leg, wire, ended>>
    BY DEF NoticeTouches
  <1>2. \A k \in Leg : (LegTells(k, s)' => LegTells(k, s)) /\ (NoticeTells(k, s)' => NoticeTells(k, s))
    BY <1>1 DEF LegTells, NoticeTells, NoticeTouches
  <1>3. Telling(s)' => Telling(s)
    BY <1>2 DEF Telling
  <1>4. (Dialling(s)' <=> Dialling(s)) /\ \A l \in Leg : Ending(l)' <=> Ending(l)
    BY <1>1 DEF Dialling, Ending
  <1>. QED  BY <1>1, <1>2, <1>3, <1>4 DEF ToldOnce

\* The sending, or skipping, of an expiry notification keeps the invariant.
LEMMA NotifyKeeps ==
    ASSUME Sound, LifeInv, TypeInv', NEW b \in Leg, Notify(b)
    PROVE  GentleInv'
  <1>0. TypeInv /\ Basic
    BY DEF Sound
  <1>1. PICK s \in Session : s = notice[b].s
    BY <1>0, NoticeSession DEF Notify
  <1>2. notice \in [Leg -> NoticeRecord] /\ notice[b].st = "claimed" /\ b \notin nwire
    BY <1>0 DEF TypeInv, RestOK, Basic, Notify
  <1>3. PICK to \in {"sent", "skipped"} :
          /\ notice' = [notice EXCEPT ![b].st = to]
          /\ to = "sent" => nwire' = nwire \cup {b}
          /\ to = "skipped" => nwire' = nwire /\ Resolved(notice[b].code) # "active"
    BY DEF Notify
  <1>4. /\ notice'[b].s = notice[b].s /\ notice'[b].code = notice[b].code /\ notice'[b].st = to
        /\ \A d \in Leg \ {b} : notice'[d] = notice[d]
    BY <1>2, <1>3 DEF NoticeRecord
  <1>5. UNCHANGED <<rows, status, leg, loop, wire, dialed, typed, ended, env, told, holds>>
    BY DEF Notify, table, tasks, context
  <1>6. \A d \in Leg \ {b} : d \in nwire' <=> d \in nwire
    BY <1>3
  <1>7. NoticeTouches(b)
    BY <1>1, <1>2, <1>4, <1>5, <1>6 DEF NoticeTouches
  <1>8. ASSUME Covered(s) PROVE \A c \in Code : WillBeTold(s, c)'
    <2>1. ASSUME NEW c \in Code, notice[b].code = c, <<s, c>> \in holds' PROVE b \in nwire'
      <3>1. status[c] = "active" /\ c # None
        BY <1>5, <1>8, <2>1, NoneAssumption DEF Covered
      <3>. QED  BY <1>3, <2>1, <3>1 DEF Resolved
    <2>. QED  BY <1>0, <1>1, <1>7, <1>8, <2>1, OthersOnTheirWay
  <1>9. ToldOnce(s) => ToldOnce(s)'
    BY <1>1, <1>2, <1>5, <1>7, ToldNoMore DEF NoticeTells
  <1>. QED  BY <1>1, <1>7, <1>8, <1>9, NoticeKeeps

\* The logging of an expiry notification keeps the invariant.
LEMMA NotifyLoggedKeeps ==
    ASSUME Sound, LifeInv, TypeInv', NEW b \in Leg, NotifyLogged(b)
    PROVE  GentleInv'
  <1>0. TypeInv /\ Basic
    BY DEF Sound
  <1>1. PICK s \in Session : s = notice[b].s
    BY <1>0, NoticeSession DEF NotifyLogged
  <1>2. notice \in [Leg -> NoticeRecord] /\ notice[b].st = "answered"
    BY <1>0 DEF TypeInv, RestOK, NotifyLogged
  <1>3. notice' = [notice EXCEPT ![b].st = "logged"]
    BY DEF NotifyLogged
  <1>4. /\ notice'[b].s = notice[b].s /\ notice'[b].code = notice[b].code /\ notice'[b].st = "logged"
        /\ \A d \in Leg \ {b} : notice'[d] = notice[d]
    BY <1>2, <1>3 DEF NoticeRecord
  <1>5. UNCHANGED <<rows, status, leg, loop, wire, dialed, typed, ended, env, told, holds, nwire>>
    BY DEF NotifyLogged, table, tasks, context
  <1>6. NoticeTouches(b)
    BY <1>1, <1>2, <1>4, <1>5 DEF NoticeTouches
  <1>7. Covered(s) => \A c \in Code : WillBeTold(s, c)'
    BY <1>0, <1>1, <1>2, <1>5, <1>6, OthersOnTheirWay
  <1>8. ToldOnce(s) => ToldOnce(s)'
    BY <1>1, <1>4, <1>5, <1>6, ToldNoMore DEF NoticeTells
  <1>. QED  BY <1>1, <1>6, <1>7, <1>8, NoticeKeeps

\* The handler's being told of an expiry keeps the invariant.
LEMMA HandleExpiredKeeps ==
    ASSUME Sound, LifeInv, TypeInv', NEW b \in Leg, HandleExpired(b)
    PROVE  GentleInv'
  <1>0. TypeInv /\ Basic /\ "handler_failure" \notin env
    BY DEF Sound, Gentle, OneLoop, Quiet
  <1>1. notice \in [Leg -> NoticeRecord] /\ b \in nwire /\ notice[b].st \notin {"none", "claimed"}
    BY <1>0 DEF TypeInv, RestOK, Basic, HandleExpired
  <1>2. PICK s \in Session : s = notice[b].s
    BY <1>0, <1>1, NoticeSession
  <1>3. PICK to \in {notice[b].st, "answered"} : notice' = [notice EXCEPT ![b].st = to]
    <2>1. CASE notice' = notice
      <3>1. notice' = [notice EXCEPT ![b].st = notice[b].st]
        BY <1>1, <2>1 DEF NoticeRecord
      <3>. QED  BY <3>1
    <2>2. CASE notice' = [notice EXCEPT ![b].st = "answered"]
      BY <2>2
    <2>. QED  BY <1>0, <2>1, <2>2 DEF HandleExpired
  <1>4. /\ notice'[b].s = notice[b].s /\ notice'[b].code = notice[b].code
        /\ notice'[b].st \notin {"none", "claimed"}
        /\ \A d \in Leg \ {b} : notice'[d] = notice[d]
    BY <1>1, <1>3 DEF NoticeRecord
  <1>5. UNCHANGED <<rows, status, leg, loop, wire, dialed, typed, ended, env>> /\ nwire' = nwire \ {b}
    BY DEF HandleExpired, table, tasks
  <1>6. holds' = holds \ {<<s, notice[b].code>>}
    BY <1>2 DEF HandleExpired
  <1>7. told'[s] = told[s] + 1 /\ \A o \in Session \ {s} : told'[o] = told[o]
    BY <1>0, <1>2 DEF HandleExpired, TypeInv, RestOK
  <1>8. NoticeTouches(b)
    BY <1>1, <1>2, <1>4, <1>5, <1>6, <1>7 DEF NoticeTouches
  <1>9. Covered(s) => \A c \in Code : WillBeTold(s, c)'
    BY <1>0, <1>2, <1>6, <1>8, OthersOnTheirWay
  <1>10. ASSUME ToldOnce(s) PROVE ToldOnce(s)'
    <2>1. NoticeTells(b, s)
      BY <1>1, <1>2 DEF NoticeTells
    <2>2. Telling(s)
      BY <2>1 DEF Telling
    <2>3. rows[s] = NoRow /\ ~Dialling(s) /\ told[s] = 0 /\ s \notin ended
      BY <1>10, <2>2 DEF ToldOnce
    <2>4. \A k \in Leg : ~LegTells(k, s)'
      BY <1>5, <1>10, <2>1 DEF ToldOnce, LegTells
    <2>5. \A k \in Leg : ~NoticeTells(k, s)'
      BY <1>4, <1>5, <1>10, <2>1 DEF ToldOnce, NoticeTells
    <2>6. ~Telling(s)'
      BY <2>4, <2>5 DEF Telling
    <2>7. ~Dialling(s)'
      BY <1>5, <2>3 DEF Dialling
    <2>8. told'[s] = 1
      BY <1>7, <2>3
    <2>. QED  BY <1>5, <2>3, <2>4, <2>5, <2>6, <2>7, <2>8 DEF ToldOnce
  <1>. QED  BY <1>2, <1>8, <1>9, <1>10, NoticeKeeps

-----------------------------------------------------------------------------
(* So do the expiry loops and the passing of time.                         *)

\* A claim takes idle rows, and notices each under the leg that opened it.
LEMMA ClaimFacts ==
    ASSUME TypeInv, LifeInv, NEW w \in Worker, NEW S \in SUBSET Claimable(rows), notice' = NoticesOf(w, S)
    PROVE  /\ \A s \in S : /\ s \in Session /\ rows[s] # NoRow /\ rows[s].born \in Leg
                           /\ rows[s].age > IdleOf(s)
                           /\ notice[rows[s].born].st = "none"
                           /\ notice'[rows[s].born].st = "claimed"
                           /\ notice'[rows[s].born].s = s
                           /\ notice'[rows[s].born].code = rows[s].code
           /\ \A b \in Leg : \/ notice'[b] = notice[b]
                             \/ \E s \in S : b = rows[s].born
  <1>1. \A s \in S : /\ s \in Session /\ rows[s] # NoRow /\ rows[s].born \in Leg
                     /\ rows[s].age > IdleOf(s)
                     /\ notice[rows[s].born].st = "none" /\ leg[rows[s].born].s = s
    BY RowFields DEF Claimable, TypeInv, RestOK, LifeInv, RowsAgree
  <1>2. ASSUME NEW s \in S
        PROVE  /\ notice'[rows[s].born].st = "claimed" /\ notice'[rows[s].born].s = s
               /\ notice'[rows[s].born].code = rows[s].code
    <2>1. \A o \in S : rows[o].born = rows[s].born => o = s
      BY <1>1
    <2>2. (CHOOSE o \in S : rows[o].born = rows[s].born) = s
      BY <2>1
    <2>3. notice'[rows[s].born] = [st |-> "claimed", w |-> w, s |-> s, code |-> rows[s].code]
      BY <1>1, <2>2 DEF NoticesOf
    <2>. QED  BY <2>3
  <1>3. \A b \in Leg : notice'[b] = notice[b] \/ \E s \in S : b = rows[s].born
    BY DEF NoticesOf
  <1>. QED  BY <1>1, <1>2, <1>3

\* The claim of idle rows by the expiry loop keeps the invariant.
LEMMA ClaimKeeps ==
    ASSUME Sound, LifeInv, TypeInv', NEW w \in Worker, Claim(w)
    PROVE  GentleInv'
  <1>0. TypeInv /\ Basic /\ Gentle /\ \A o \in Session : SessionInv(o)
    BY DEF Sound
  <1>1. PICK S \in SUBSET Claimable(rows) : rows' = Deleted(rows, S) /\ notice' = NoticesOf(w, S)
    BY DEF Claim, Victims
  <1>2. UNCHANGED <<status, leg, loop, nwire, wire, holds, dialed, typed, told, ended, env>>
    BY DEF Claim, tasks, context
  <1>3. \A s \in S : /\ s \in Session /\ rows[s] # NoRow /\ rows[s].born \in Leg
                     /\ rows[s].age > IdleOf(s)
                     /\ notice[rows[s].born].st = "none"
                     /\ notice'[rows[s].born].st = "claimed"
                     /\ notice'[rows[s].born].s = s
                     /\ notice'[rows[s].born].code = rows[s].code
    BY <1>0, <1>1, ClaimFacts
  <1>4. \A b \in Leg : notice'[b] = notice[b] \/ \E s \in S : b = rows[s].born
    BY <1>0, <1>1, ClaimFacts
  <1>5. \A s \in Session : IF s \in S THEN rows'[s] = NoRow ELSE rows'[s] = rows[s]
    BY <1>1 DEF Deleted
  <1>6. Basic'
    <2>1. nwire \subseteq Leg
      BY <1>0 DEF TypeInv, RestOK
    <2>2. \A b \in nwire : notice'[b] = notice[b]
      BY <1>0, <1>3, <1>4, <2>1 DEF Basic
    <2>3. \A b \in Leg : notice'[b].st = "none" => notice'[b].s = None
      BY <1>0, <1>3, <1>4 DEF Basic
    <2>. QED  BY <1>0, <1>2, <2>2, <2>3 DEF Basic, Op
  <1>7. ASSUME NEW s \in Session, s \notin S PROVE SessionInv(s)'
    <2>1. ASSUME NEW b \in Leg, notice[b].s = s \/ notice'[b].s = s PROVE notice'[b] = notice[b]
      <3>1. SUFFICES ASSUME NEW o \in S, b = rows[o].born PROVE FALSE
        BY <1>4
      <3>2. notice[b].s = None /\ notice'[b].s = o
        BY <1>0, <1>3, <3>1 DEF Basic
      <3>. QED  BY <1>7, <2>1, <3>2, NoneAssumption
    <2>2. Apart(s)
      BY <1>2, <1>5, <1>7, <2>1 DEF Apart
    <2>3. nwire \subseteq Leg /\ nwire' \subseteq Leg /\ wire \subseteq Leg /\ wire' \subseteq Leg
      BY <1>0 DEF TypeInv, RestOK
    <2>. QED  BY <1>0, <2>2, <2>3, ApartKeeps
  <1>8. \A l \in Leg : /\ Open(l)' <=> Open(l)
                       /\ Reading(l)' <=> Reading(l)
                       /\ Ending(l)' <=> Ending(l)
                       /\ CodeAfter(l)' = CodeAfter(l)
                       /\ Writes(l)' <=> Writes(l)
    BY <1>2 DEF Open, Reading, Ending, CodeAfter, Writes, Op
  <1>9. ASSUME NEW s \in Session, s \in S PROVE SessionInv(s)'
    <2>1. SessionInv(s) /\ rows'[s] = NoRow /\ rows[s] # NoRow /\ ~(rows[s].age <= IdleOf(s))
      <3>1. rows[s].age \in Nat /\ IdleOf(s) \in Nat /\ rows[s].age > IdleOf(s)
        BY <1>0, <1>3, <1>9, RowFields, ConfigAssumption DEF TypeInv, RestOK, IdleOf
      <3>2. ~(rows[s].age <= IdleOf(s))
        BY <3>1
      <3>. QED  BY <1>0, <1>3, <1>5, <1>9, <3>2
    <2>2. Company(s)'
      <3>1. Quiet' <=> Quiet
        BY <1>2 DEF Quiet
      <3>. QED  BY <1>2, <1>8, <2>1, <3>1 DEF SessionInv, Company
    \* A row in use is not idle.
    <2>3. OneLoop => \A l \in Leg : leg[l].s = s => ~Open(l)
      BY <2>1 DEF SessionInv, InOrder, InOrderLeg
    <2>4. ASSUME OneLoop PROVE InOrder(s)'
      <3>1. InOrder(s)
        BY <2>1, <2>4 DEF SessionInv
      <3>2. ASSUME NEW l \in Leg, leg'[l].s = s PROVE InOrderLeg(l, s)'
        <4>1. leg'[l] = leg[l] /\ InOrderLeg(l, s) /\ ~Open(l)
          BY <1>2, <2>3, <2>4, <3>1, <3>2 DEF InOrder
        <4>. QED  BY <1>2, <2>1, <4>1 DEF InOrderLeg, Open, Saving, Holding
      <3>. QED  BY <2>1, <3>2 DEF InOrder
    <2>5. ASSUME Cov(s) PROVE Covered(s)'
      <3>1. Covered(s)
        BY <2>1, <2>5 DEF SessionInv
      <3>2. ASSUME NEW l \in Leg, leg'[l].s = s PROVE CoveredLeg(l, s)'
        <4>1. leg'[l] = leg[l] /\ CoveredLeg(l, s)
          BY <1>2, <3>1, <3>2 DEF Covered
        <4>2. ~(leg[l].pc \in {"await", "reply"} /\ leg[l].ev \in Menu)
          BY <2>1, <4>1 DEF CoveredLeg
        <4>. QED  BY <1>8, <2>1, <4>1, <4>2 DEF CoveredLeg
      <3>3. ASSUME NEW c \in Code, <<s, c>> \in holds' PROVE OnItsWay(s, c)'
        <4>1. CASE rows[s].code = c
          BY <1>3, <1>9, <4>1 DEF OnItsWay
        <4>2. CASE rows[s].code # c
          <5>1. OnItsWay(s, c)
            BY <1>2, <3>1, <3>3, <4>2 DEF Covered, WillBeTold
          <5>2. \A b \in Leg : notice[b].s = s => notice'[b] = notice[b]
            BY <1>0, <1>3, <1>4, NoneAssumption DEF Basic
          <5>. QED  BY <1>2, <5>1, <5>2 DEF OnItsWay
        <4>. QED  BY <4>1, <4>2
      <3>. QED  BY <1>2, <3>1, <3>2, <3>3 DEF Covered, WillBeTold
    <2>6. ASSUME Orderly PROVE ToldOnce(s)'
      <3>1. ToldOnce(s) /\ OneLoop
        BY <2>1, <2>6 DEF SessionInv, Orderly, OneLoop
      <3>2. told[s] = 0 /\ ~Telling(s)
        BY <2>1, <3>1 DEF ToldOnce
      <3>3. s \notin ended
        <4>1. \A l \in Leg : leg[l].s = s => ~(Ending(l) /\ leg[l].pc # "expire")
          BY <2>3, <3>1 DEF Open, Ending
        <4>. QED  BY <2>1, <3>1, <4>1 DEF ToldOnce
      <3>4. ~Dialling(s)'
        BY <1>2, <2>3, <3>1 DEF Dialling, Open, Saving, Holding
      <3>5. \A b \in Leg : NoticeTells(b, s)' => b = rows[s].born
        <4> SUFFICES ASSUME NEW b \in Leg, NoticeTells(b, s)', b # rows[s].born PROVE FALSE
          OBVIOUS
        <4>1. ~NoticeTells(b, s)
          BY <3>2 DEF Telling
        <4>2. PICK o \in S : b = rows[o].born
          BY <1>2, <1>4, <4>1 DEF NoticeTells
        <4>3. notice'[b].s = o
          BY <1>3, <4>2
        <4>. QED  BY <4>2, <4>3 DEF NoticeTells
      <3>6. \A l \in Leg : ~LegTells(l, s)'
        BY <1>2, <3>2 DEF LegTells, Telling
      <3>. QED  BY <1>2, <2>1, <3>2, <3>3, <3>4, <3>5, <3>6 DEF ToldOnce
    <2>. QED  BY <1>2, <2>2, <2>4, <2>5, <2>6 DEF SessionInv, OneLoop, Cov, Orderly
  <1>. QED  BY <1>6, <1>7, <1>9 DEF GentleInv

\* Time makes no row of a session in use idle, and none old enough for the
\* sweep.
LEMMA TickKeeps ==
    ASSUME Sound, TypeInv', Tick
    PROVE  GentleInv'
  <1>0. TypeInv /\ Basic /\ Gentle /\ "slow_handler" \notin env /\ "slow_sweep" \notin env
        /\ \A o \in Session : SessionInv(o)
    BY DEF Sound, Gentle, OneLoop, Quiet
  <1>1. UNCHANGED <<status, leg, loop, notice, nwire, wire, holds, dialed, typed, told, ended, env>>
    BY DEF Tick, tasks, notices, context
  <1>2. Basic'
    BY <1>0, <1>1 DEF Basic, Op
  <1>3. \A l \in Leg : /\ Open(l)' <=> Open(l)
                       /\ Reading(l)' <=> Reading(l)
                       /\ Ending(l)' <=> Ending(l)
                       /\ CodeAfter(l)' = CodeAfter(l)
                       /\ Writes(l)' <=> Writes(l)
    BY <1>1 DEF Open, Reading, Ending, CodeAfter, Writes, Op
  <1>4. ASSUME NEW s \in Session PROVE SessionInv(s)'
    <2>1. SessionInv(s)
      BY <1>0
    <2>2. rows[s] \in Row \cup {NoRow} /\ rows' = Aged(rows)
      BY <1>0 DEF TypeInv, RestOK, Tick
    <2>3. /\ rows'[s] = NoRow <=> rows[s] = NoRow
          /\ rows'[s].code = rows[s].code /\ rows'[s].trail = rows[s].trail
          /\ rows'[s].age \in {rows[s].age, rows[s].age + 1}
      <3>1. CASE rows[s] = NoRow \/ rows[s].age = AgeCap
        BY <2>2, <3>1 DEF Aged
      <3>2. CASE ~(rows[s] = NoRow \/ rows[s].age = AgeCap)
        <4>1. rows'[s] = [rows[s] EXCEPT !.age = rows[s].age + 1] /\ rows[s] \in Row
          BY <2>2, <3>2 DEF Aged
        <4>2. rows'[s] \in Row
          BY <4>1 DEF Row
        <4>. QED  BY <3>2, <4>1, <4>2, NoRowNotRow DEF Row
      <3>. QED  BY <3>1, <3>2
    <2>4. rows[s].age \in Nat /\ IdleOf(s) \in Nat /\ MaxAge \in Nat
      BY <2>2, RowFields, ConfigAssumption DEF IdleOf
    <2>5. rows[s] # NoRow => rows'[s].age <= MaxAge
      BY <1>0, <2>3, <2>4 DEF Tick
    <2>6. ASSUME NEW l \in Leg, leg[l].s = s, Open(l), rows[s] # NoRow PROVE rows'[s].age <= IdleOf(s)
      <3>1. l \in Unanswered(s)
        BY <2>6 DEF Unanswered, Open
      <3>2. rows[s].age < IdleOf(s)
        BY <1>0, <2>6, <3>1 DEF Tick
      <3>. QED  BY <2>3, <2>4, <3>2
    <2>7. Company(s)'
      <3>1. Quiet' <=> Quiet
        BY <1>1 DEF Quiet
      <3>. QED  BY <1>1, <1>3, <2>1, <2>3, <2>5, <3>1 DEF SessionInv, Company
    <2>8. ASSUME OneLoop PROVE InOrder(s)'
      <3>1. InOrder(s)
        BY <2>1, <2>8 DEF SessionInv
      <3>2. ASSUME NEW l \in Leg, leg'[l].s = s PROVE InOrderLeg(l, s)'
        <4>1. leg'[l] = leg[l] /\ InOrderLeg(l, s)
          BY <1>1, <3>1, <3>2 DEF InOrder
        <4>2. Open(l)' /\ rows'[s] # NoRow => rows'[s].age <= IdleOf(s)
          BY <1>3, <2>3, <2>6, <3>2, <4>1
        <4>. QED  BY <1>1, <2>3, <4>1, <4>2 DEF InOrderLeg
      <3>. QED  BY <1>1, <1>3, <2>3, <3>1, <3>2 DEF InOrder
    <2>9. ASSUME Cov(s) PROVE Covered(s)'
      <3>1. Covered(s)
        BY <2>1, <2>9 DEF SessionInv
      <3>2. ASSUME NEW l \in Leg, leg'[l].s = s PROVE CoveredLeg(l, s)'
        <4>1. leg'[l] = leg[l] /\ CoveredLeg(l, s)
          BY <1>1, <3>1, <3>2 DEF Covered
        <4>2. leg[l].pc \in {"await", "reply"} /\ leg[l].ev \in Menu => rows'[s].age <= IdleOf(s)
          BY <2>6, <3>2, <4>1 DEF Open, CoveredLeg
        <4>. QED  BY <1>1, <1>3, <2>3, <4>1, <4>2 DEF CoveredLeg
      <3>3. \A c \in Code : WillBeTold(s, c)'
        BY <1>1, <2>3, <3>1 DEF Covered, WillBeTold, OnItsWay
      <3>. QED  BY <1>1, <3>1, <3>2, <3>3 DEF Covered
    <2>10. ASSUME Orderly PROVE ToldOnce(s)'
      <3>1. ToldOnce(s)
        BY <2>1, <2>10 DEF SessionInv
      <3>2. (Telling(s)' <=> Telling(s)) /\ (Dialling(s)' <=> Dialling(s))
        BY <1>1 DEF Telling, LegTells, NoticeTells, Dialling
      <3>3. \A k \in Leg : (LegTells(k, s)' <=> LegTells(k, s)) /\ (NoticeTells(k, s)' <=> NoticeTells(k, s))
        BY <1>1 DEF LegTells, NoticeTells
      <3>. QED  BY <1>1, <1>3, <2>3, <3>1, <3>2, <3>3 DEF ToldOnce
    <2>. QED  BY <1>1, <2>7, <2>8, <2>9, <2>10 DEF SessionInv, OneLoop, Cov, Orderly
  <1>. QED  BY <1>2, <1>4 DEF GentleInv

\* Nothing is old enough for the sweep.
LEMMA NothingToSweep ==
    ASSUME Sound, Sweep
    PROVE  FALSE
  <1>1. PICK s \in Session : rows[s] # NoRow /\ rows[s].age > SweepAge
    BY DEF Sweep, Sweepable
  <1>2. rows[s].age <= MaxAge /\ rows[s].age \in Nat
    BY <1>1, RowFields DEF Sound, SessionInv, Company, TypeInv, RestOK
  <1>. QED  BY <1>1, <1>2, ConfigAssumption

-----------------------------------------------------------------------------
(* The invariant.                                                          *)

\* Nobody has dialled yet.
LEMMA GentleInit == Init => GentleInv
  <1> SUFFICES ASSUME Init, Gentle
               PROVE  Basic /\ \A s \in Session : SessionInv(s)
    BY DEF GentleInv
  <1>1. /\ \A l \in Leg : leg[l] = Blank /\ leg[l].pc = "idle" /\ leg[l].s = None
        /\ \A b \in Leg : notice[b].st = "none" /\ notice[b].s = None
        /\ \A s \in Session : rows[s] = NoRow /\ told[s] = 0
        /\ wire = {} /\ nwire = {} /\ holds = {} /\ ended = {}
    BY DEF Init, Blank, NoNotice
  <1>2. Basic
    BY <1>1 DEF Basic, Holding
  <1>3. ASSUME NEW s \in Session PROVE SessionInv(s)
    <2>1. \A l \in Leg : leg[l].s # s /\ notice[l].s # s
      BY <1>1, <1>3, NoneAssumption
    <2>2. Company(s) /\ InOrder(s)
      BY <1>1, <2>1 DEF Company, InOrder
    <2>3. Covered(s)
      BY <1>1, <2>1 DEF Covered, WillBeTold
    <2>4. ToldOnce(s)
      <3>1. \A l \in Leg : ~LegTells(l, s) /\ ~NoticeTells(l, s)
        BY <2>1 DEF LegTells, NoticeTells
      <3>2. ~Telling(s)
        BY <3>1 DEF Telling
      <3>. QED  BY <1>1, <3>1, <3>2 DEF ToldOnce
    <2>. QED  BY <2>2, <2>3, <2>4 DEF SessionInv
  <1>. QED  BY <1>2, <1>3

\* A step that changes nothing keeps it.
LEMMA GentleStutter ==
    ASSUME GentleInv, UNCHANGED vars
    PROVE  GentleInv'
  <1> USE DEF vars, table, tasks, notices, context
  <1>1. Basic' <=> Basic
    BY DEF Basic, Op
  <1>2. (Gentle' <=> Gentle) /\ (OneLoop' <=> OneLoop) /\ (Quiet' <=> Quiet) /\ (Orderly' <=> Orderly)
        /\ \A s \in Session : Cov(s)' <=> Cov(s)
    BY DEF Gentle, OneLoop, Quiet, Orderly, Cov
  <1>3. \A l \in Leg : /\ Open(l)' <=> Open(l)
                       /\ Reading(l)' <=> Reading(l)
                       /\ Ending(l)' <=> Ending(l)
                       /\ CodeAfter(l)' = CodeAfter(l)
                       /\ Writes(l)' <=> Writes(l)
    BY DEF Open, Reading, Ending, CodeAfter, Writes, Op
  <1>4. ASSUME NEW s \in Session PROVE SessionInv(s)' <=> SessionInv(s)
    <2>1. Company(s)' <=> Company(s)
      BY <1>2, <1>3 DEF Company
    <2>2. \A l \in Leg : (InOrderLeg(l, s)' <=> InOrderLeg(l, s)) /\ (CoveredLeg(l, s)' <=> CoveredLeg(l, s))
      BY <1>3 DEF InOrderLeg, CoveredLeg
    <2>3. InOrder(s)' <=> InOrder(s)
      BY <1>3, <2>2 DEF InOrder
    <2>4. Covered(s)' <=> Covered(s)
      BY <2>2 DEF Covered, WillBeTold, OnItsWay
    <2>5. \A l \in Leg : (LegTells(l, s)' <=> LegTells(l, s)) /\ (NoticeTells(l, s)' <=> NoticeTells(l, s))
      BY DEF LegTells, NoticeTells
    <2>6. (Telling(s)' <=> Telling(s)) /\ (Dialling(s)' <=> Dialling(s))
      BY <2>5 DEF Telling, Dialling
    <2>7. ToldOnce(s)' <=> ToldOnce(s)
      BY <1>3, <2>5, <2>6 DEF ToldOnce
    <2>. QED  BY <1>2, <2>1, <2>3, <2>4, <2>7 DEF SessionInv
  <1>. QED  BY <1>1, <1>2, <1>4 DEF GentleInv

\* In a gentle environment nothing fails, and nobody changes a status.
LEMMA NothingFails ==
    ASSUME Gentle
    PROVE  /\ \A l \in Leg : ~RequestRaises(l) /\ ~CallFails(l) /\ ~Collect(l)
           /\ \A b \in Leg : ~NotifyRaises(b) /\ ~NoticeFails(b)
           /\ \A w \in Worker : ~Crash(w)
           /\ \A c \in Code, st \in Status : ~SetStatus(c, st)
  BY DEF Gentle, OneLoop, Quiet, RequestRaises, CallFails, Collect, NotifyRaises, NoticeFails, Crash, SetStatus

\* Every step keeps it.
LEMMA GentleStep == TypeInv /\ TypeInv' /\ LifeInv /\ GentleInv /\ [Next]_vars => GentleInv'
  <1> SUFFICES ASSUME TypeInv, TypeInv', LifeInv, GentleInv, [Next]_vars, Gentle'
               PROVE  GentleInv'
    BY DEF GentleInv
  <1>1. Gentle
    BY HazardsFixed DEF Gentle, OneLoop, Quiet
  <1>2. Sound
    BY <1>1 DEF Sound, GentleInv
  <1>3. ASSUME NEW l \in Leg, Step(l) PROVE GentleInv'
    BY <1>2, <1>3, LookupKeeps, SaveKeeps, ExpireKeeps, EndSessionKeeps, AnswerKeeps, PushDoneKeeps DEF Step
  <1>4. ASSUME NEW l \in Leg, Handled(l) PROVE GentleInv'
    BY <1>2, <1>4, HandleMenuKeeps, HandleEndedKeeps DEF Handled
  <1>5. ASSUME NEW b \in Leg, NoticeStep(b) \/ HandleExpired(b) PROVE GentleInv'
    BY <1>2, <1>5, NotifyKeeps, NotifyLoggedKeeps, HandleExpiredKeeps DEF NoticeStep
  <1>6. ASSUME NEW l \in Leg, NEW w \in Worker, NEW s \in Session, NEW ev \in Wire,
               NEW c \in Code \cup {None}, Receive(l, w, s, ev, c)
        PROVE  GentleInv'
    BY <1>2, <1>6, ReceiveKeeps
  <1>7. ASSUME NEW w \in Worker, Claim(w) PROVE GentleInv'
    BY <1>2, <1>7, ClaimKeeps
  <1>8. CASE Tick
    BY <1>2, <1>8, TickKeeps
  <1>9. CASE Sweep
    BY <1>2, <1>9, NothingToSweep
  <1>10. CASE UNCHANGED vars
    BY <1>10, GentleStutter
  <1>. QED
    BY <1>1, <1>3, <1>4, <1>5, <1>6, <1>7, <1>8, <1>9, <1>10, NothingFails DEF Next, Environment, Gateway

\* It holds in every state of every behaviour.
LEMMA GentleLives == Spec => [](TypeInv /\ LifeInv /\ GentleInv)
  BY TypeInit, TypeStep, LifeInit, LifeStep, GentleInit, GentleStep, PTL DEF Spec

-----------------------------------------------------------------------------
(***************************************************************************)
(* The theorems.  The idle limits, the guards of Tick and the blocking     *)
(* database calls are what they rest on: a row in use is never idle, and   *)
(* no leg comes between the lookup of another of its session and its       *)
(* upsert.                                                                 *)
(***************************************************************************)

(***************************************************************************)
(* Expiry loop and terminal events leave no handler behind: one that keeps *)
(* state for a session still has the session's row under its code, or is   *)
(* being told of the end, where networks are orderly, and on every         *)
(* operator but Tigo where legs come late.                                 *)
(***************************************************************************)
THEOREM HandlersAreCovered == Spec => []HoldersCovered
  <1>1. TypeInv /\ LifeInv /\ GentleInv => HoldersCovered
    <2> SUFFICES ASSUME GentleInv, NEW s \in Session, NEW c \in Code, Cov(s)
                 PROVE  WillBeTold(s, c)
      BY DEF HoldersCovered, Cov
    <2>1. Gentle
      BY DEF Cov, Gentle, Orderly, OneLoop, Quiet
    <2>. QED  BY <2>1 DEF GentleInv, SessionInv, Covered
  <1>. QED  BY <1>1, GentleLives, PTL

(***************************************************************************)
(* accumulate_ussd_string hands every menu leg all that the subscriber     *)
(* typed since the dial, even when legs overlap at one worker.             *)
(***************************************************************************)
THEOREM TrailsAreComplete == Spec => []TrailComplete
  <1>1. TypeInv /\ LifeInv /\ GentleInv => TrailComplete
    <2> SUFFICES ASSUME TypeInv, GentleInv, OneLoop, NEW l \in wire, leg[l].ev \in Menu
                 PROVE  leg[l].trail = leg[l].n
      BY DEF TrailComplete, OneLoop
    <2>1. l \in Leg /\ leg[l].s \in Session
      BY DEF TypeInv, RestOK, Routed
    <2>2. InOrder(leg[l].s)
      BY <2>1 DEF GentleInv, Gentle, SessionInv
    <2>. QED  BY <2>1, <2>2 DEF InOrder, InOrderLeg
  <1>. QED  BY <1>1, GentleLives, PTL

(***************************************************************************)
(* With orderly networks, no two of the terminal events and the claims     *)
(* tell a handler of the end of the same session.                          *)
(***************************************************************************)
THEOREM EndIsToldOnce == Spec => []OrderlyEndNotice
  <1>1. TypeInv /\ LifeInv /\ GentleInv => OrderlyEndNotice
    BY DEF OrderlyEndNotice, GentleInv, Gentle, OneLoop, Orderly, SessionInv, ToldOnce
  <1>. QED  BY <1>1, GentleLives, PTL

\* A handler is told of an end by a leg or by a notification, and by nothing else.
LEMMA ToldBy ==
    ASSUME TypeInv, LifeInv, Basic, Gentle, [Next]_vars, NEW s \in Session, told'[s] > told[s]
    PROVE  Telling(s)
  <1>0. told[s] \in Nat /\ ~(told[s] > told[s]) /\ ~(0 > told[s])
    <2>1. told[s] \in Nat
      BY DEF TypeInv, RestOK
    <2>. QED  BY <2>1
  <1>1. told' # told
    BY <1>0
  <1>2. ASSUME NEW l \in Leg, HandleEnded(l) PROVE Telling(s)
    <2>1. leg[l].s = s
      BY <1>0, <1>2 DEF HandleEnded, TypeInv, RestOK
    <2>. QED  BY <1>2, <2>1 DEF HandleEnded, Telling, LegTells
  <1>3. ASSUME NEW b \in Leg, HandleExpired(b) PROVE Telling(s)
    <2>1. notice[b].s = s
      BY <1>0, <1>3 DEF HandleExpired, TypeInv, RestOK
    <2>. QED  BY <1>3, <2>1 DEF HandleExpired, Telling, NoticeTells
  <1>4. ASSUME NEW l \in Leg, NEW w \in Worker, NEW o \in Session, NEW ev \in Wire,
               NEW c \in Code \cup {None}, Receive(l, w, o, ev, c)
        PROVE  FALSE
    <2>1. Arrives(l, w, o, ev)
      BY <1>4, ReceiveFacts
    <2>2. told'[s] = told[s] \/ told'[s] = 0
      BY <2>1 DEF Arrives
    <2>. QED  BY <1>0, <2>2
  <1>5. ASSUME NEW l \in Leg, Step(l) \/ \E r \in {"CON", "END"} : HandleMenu(l, r) PROVE FALSE
    BY <1>1, <1>5 DEF Step, Lookup, Save, Expire, EndSession, Answer, PushDone, HandleMenu, context
  <1>6. ASSUME NEW b \in Leg, NoticeStep(b) PROVE FALSE
    BY <1>1, <1>6 DEF NoticeStep, Notify, NotifyLogged, context
  <1>7. ASSUME (\E w \in Worker : Claim(w)) \/ Tick \/ Sweep \/ UNCHANGED vars PROVE FALSE
    BY <1>1, <1>7 DEF Claim, Tick, Sweep, vars, context
  <1>. QED
    BY <1>2, <1>3, <1>4, <1>5, <1>6, <1>7, NothingFails DEF Next, Environment, Gateway, Handled

(***************************************************************************)
(* With orderly networks, no handler that answered END is told that the    *)
(* session is over: the row goes with the END, and a session in use is not *)
(* claimed before.                                                         *)
(***************************************************************************)
THEOREM EndsAreFinal == Spec => NoNoticeAfterEnd
  <1>1. TypeInv /\ LifeInv /\ GentleInv /\ [Next]_vars
          => [Orderly => \A s \in Session : told'[s] > told[s] => s \notin ended]_vars
    <2> SUFFICES ASSUME TypeInv, LifeInv, GentleInv, [Next]_vars, Orderly,
                        NEW s \in Session, told'[s] > told[s]
                 PROVE  s \notin ended
      OBVIOUS
    <2>1. Gentle
      BY DEF Gentle, OneLoop, Orderly
    <2>2. Telling(s)
      BY <2>1, ToldBy DEF GentleInv
    <2>3. ToldOnce(s)
      BY <2>1 DEF GentleInv, SessionInv
    <2>. QED  BY <2>2, <2>3 DEF ToldOnce
  <1>. QED  BY <1>1, GentleLives, PTL DEF Spec, NoNoticeAfterEnd

(***************************************************************************)
(* A session gets a row by being dialled only, even when its legs overlap  *)
(* at one worker: an input saves into the row that it found.               *)
(***************************************************************************)
THEOREM RowsAreDialled == Spec => StrayLegOpensNoRow
  <1>1. TypeInv /\ LifeInv /\ GentleInv /\ [Next]_vars
          => [env \subseteq {"overlap"} => OpensByDial]_vars
    <2> SUFFICES ASSUME TypeInv, LifeInv, GentleInv, [Next]_vars, OneLoop,
                        NEW s \in Session, rows[s] = NoRow, rows'[s] # NoRow
                 PROVE  leg[rows'[s].born].ev = "START"
      BY DEF OpensByDial, OneLoop
    <2>1. Gentle /\ InOrder(s)
      BY DEF Gentle, GentleInv, SessionInv
    <2>2. ASSUME NEW l \in Leg, LegStep(l) PROVE leg[rows'[s].born].ev = "START"
      <3>1. SavesIn(l)
        BY <2>2, LegStepRows DEF Deleted
      <3>2. leg[l].s = s /\ rows'[s] = Upserted(rows[s], CodeAfter(l), TrailAfter(l), l)
        BY <3>1 DEF SavesIn, RowsSaved, TypeInv, RestOK
      <3>3. rows'[s].born = l
        BY <3>2 DEF Upserted
      <3>4. leg[l].pc = "save" /\ InOrderLeg(l, s)
        BY <2>1, <3>1, <3>2 DEF SavesIn, InOrder
      <3>. QED  BY <3>3, <3>4 DEF InOrderLeg, Saving
    <2>3. ASSUME NEW b \in Leg, NoticeChange(b) PROVE FALSE
      BY <2>3 DEF NoticeChange, Notify, NotifyRaises, NotifyLogged, HandleExpired, NoticeFails, table
    <2>4. ASSUME NEW l \in Leg, NEW w \in Worker, NEW o \in Session, NEW ev \in Wire,
                 NEW c \in Code \cup {None}, Receive(l, w, o, ev, c)
          PROVE  FALSE
      BY <2>4 DEF Receive, table
    <2>5. ASSUME NEW w \in Worker, Claim(w) \/ Crash(w) PROVE FALSE
      BY <2>5 DEF Claim, Crash, Deleted, table
    <2>6. ASSUME Tick \/ Sweep PROVE FALSE
      BY <2>6 DEF Tick, Sweep, Aged, Deleted
    <2>7. ASSUME (\E c \in Code, st \in Status : SetStatus(c, st)) \/ UNCHANGED vars PROVE FALSE
      BY <2>7 DEF SetStatus, vars, table
    <2>. QED
      BY <2>2, <2>3, <2>4, <2>5, <2>6, <2>7
      DEF Next, Environment, Gateway, LegStep, NoticeStep, NoticeChange
  <1>. QED  BY <1>1, GentleLives, PTL DEF Spec, StrayLegOpensNoRow
=============================================================================
