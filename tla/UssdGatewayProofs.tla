------------------------- MODULE UssdGatewayProofs -------------------------
(***************************************************************************)
(* Theorems about UssdGateway, for any sets of sessions, codes, legs and   *)
(* workers, any limits and any choice of hazards.                          *)
(***************************************************************************)
EXTENDS UssdGateway, TLAPS

LegRecord == [pc : LegState, w : Worker \cup {None}, s : Session \cup {None},
              ev : Wire, code : Code \cup {None}, n : Nat, trail : Nat,
              prior : Row \cup {NoRow}, reply : {"none", "CON", "END"}]

NoticeRecord == [st : NoticeState, w : Worker \cup {None},
                 s : Session \cup {None}, code : Code \cup {None}]

(***************************************************************************)
(* What keeps the types: a leg that has been received has a session; a leg *)
(* that may still insert a row knows the code it inserts, unless it is to  *)
(* take it from the row it found; and a leg at a handler was routed there  *)
(* by a code.                                                              *)
(***************************************************************************)
Routed ==
    /\ \A l \in Leg : leg[l].pc # "idle" => leg[l].s \in Session
    /\ \A l \in Leg : /\ leg[l].pc \in {"parse", "save"}
                      /\ leg[l].ev = "START" \/ Op(l) = "airtel"
                      => leg[l].code \in Code
    /\ \A l \in wire : /\ leg[l].pc \in {"await", "reply", "push", "done", "dead"}
                       /\ leg[l].code \in Code


\* The types of everything but the legs.
RestOK ==
    /\ rows \in [Session -> Row \cup {NoRow}]
    /\ status \in [Code -> Status]
    /\ loop \in [Worker -> Leg \cup {None}]
    /\ notice \in [Leg -> NoticeRecord]
    /\ wire \subseteq Leg /\ nwire \subseteq Leg /\ referenced \subseteq Leg
    /\ holds \subseteq Session \X Code
    /\ dialed \in [Session -> Code \cup {None}]
    /\ typed \in [Session -> Nat] /\ told \in [Session -> Nat]
    /\ ended \subseteq Session

TypeInv == RestOK /\ leg \in [Leg -> LegRecord] /\ Routed

\* The null row is no row.
LEMMA NoRowNotRow == NoRow \notin Row
  BY NoneAssumption DEF NoRow, Row

\* The fields of what a lookup returns.
LEMMA RowFields ==
    ASSUME NEW r \in Row \cup {NoRow}
    PROVE  /\ r.code \in Code \cup {None}
           /\ r.trail \in Nat /\ r.age \in Nat
           /\ r # NoRow => r \in Row /\ r.code \in Code /\ r.born \in Leg
  BY DEF Row, NoRow

\* An upsert leaves a row, provided it knows the code of a row it inserts.
LEMMA UpsertedType ==
    ASSUME NEW r \in Row \cup {NoRow}, NEW c \in Code \cup {None}, NEW t \in Nat, NEW l \in Leg,
           r = NoRow => c \in Code
    PROVE  Upserted(r, c, t, l) \in Row
  BY RowFields DEF Upserted, Row

\* Deleting rows keeps the type of the table.
LEMMA DeletedType ==
    ASSUME rows \in [Session -> Row \cup {NoRow}], NEW S
    PROVE  Deleted(rows, S) \in [Session -> Row \cup {NoRow}]
  BY DEF Deleted

\* So does the passing of time.
LEMMA AgedType ==
    ASSUME rows \in [Session -> Row \cup {NoRow}]
    PROVE  Aged(rows) \in [Session -> Row \cup {NoRow}]
  <1> SUFFICES ASSUME NEW s \in Session
               PROVE  Aged(rows)[s] \in Row \cup {NoRow}
    BY DEF Aged
  <1>1. CASE rows[s] = NoRow \/ rows[s].age = AgeCap
    BY <1>1 DEF Aged
  <1>2. CASE ~(rows[s] = NoRow \/ rows[s].age = AgeCap)
    <2>1. rows[s] \in Row
      BY <1>2
    <2>2. [rows[s] EXCEPT !.age = rows[s].age + 1] \in Row
      BY <2>1 DEF Row
    <2>. QED  BY <1>2, <2>2 DEF Aged
  <1>. QED  BY <1>1, <1>2


(***************************************************************************)
(* The shape of every step of one leg: it keeps its session; its code is   *)
(* settled once it has saved; and it is handed to a handler only after     *)
(* that.                                                                   *)
(***************************************************************************)
Moves(l, r) ==
    /\ leg' = [leg EXCEPT ![l] = r]
    /\ leg[l].pc # "idle"
    /\ r.s = leg[l].s
    /\ r.pc # "idle"
    /\ leg[l].pc \notin {"parse", "save"} => r.pc \notin {"parse", "save"} /\ r.code = leg[l].code
    /\ r.pc \in {"parse", "save"} /\ (r.ev = "START" \/ OpOf[r.s] = "airtel") => r.code \in Code
    /\ wire' \subseteq wire \cup {l}
    /\ l \in wire' => r.pc \in {"await", "reply", "push", "done", "dead"} /\ r.code \in Code

\* Legs keep the type of their record.
LEMMA LegType == TypeInv => leg \in [Leg -> LegRecord]
  BY DEF TypeInv

\* Lookup is a step of one leg.
LEMMA LookupMoves ==
    ASSUME TypeInv, NEW l \in Leg, Lookup(l)
    PROVE  \E r \in LegRecord : Moves(l, r)
  <1> DEFINE row == rows[leg[l].s]
  <1>1. leg[l] \in LegRecord /\ leg \in [Leg -> LegRecord]
    BY LegType
  <1>2. leg[l].pc = "parse" /\ leg[l].s \in Session
    BY DEF Lookup, TypeInv, Routed
  <1>3. row \in Row \cup {NoRow} /\ row.code \in Code \cup {None}
    BY <1>2, RowFields DEF TypeInv, RestOK
  <1>4. wire' = wire /\ l \notin wire
    BY <1>2 DEF Lookup, TypeInv, Routed
  <1>5. PICK ev \in Wire :
            \/ ev \in Menu /\ (Op(l) # "airtel" => ev = leg[l].ev)
                  /\ leg' = [leg EXCEPT ![l].pc = "save", ![l].ev = ev, ![l].prior = row]
            \/ leg' = [leg EXCEPT ![l].pc = "end", ![l].ev = ev, ![l].code = row.code]
            \/ leg' = [leg EXCEPT ![l].pc = "done"]
    BY <1>1 DEF Lookup, Wire, Menu, Terminal, LegRecord
  <1> DEFINE saving == [leg[l] EXCEPT !.pc = "save", !.ev = ev, !.prior = row]
             ending == [leg[l] EXCEPT !.pc = "end", !.ev = ev, !.code = row.code]
             done   == [leg[l] EXCEPT !.pc = "done"]
  <1>6. CASE ev \in Menu /\ (Op(l) # "airtel" => ev = leg[l].ev)
               /\ leg' = [leg EXCEPT ![l].pc = "save", ![l].ev = ev, ![l].prior = row]
    <2>1. saving \in LegRecord /\ saving.pc = "save" /\ saving.s = leg[l].s /\ saving.ev = ev
          /\ saving.code = leg[l].code
      BY <1>1, <1>3 DEF LegRecord, LegState
    <2>2. leg' = [leg EXCEPT ![l] = saving]
      BY <1>6
    <2>3. ev = "START" \/ Op(l) = "airtel" => leg[l].code \in Code
      BY <1>2, <1>6 DEF TypeInv, Routed
    <2>4. Moves(l, saving)
      BY <1>2, <1>4, <2>1, <2>2, <2>3 DEF Moves, Op
    <2>. QED  BY <2>1, <2>4
  <1>7. CASE leg' = [leg EXCEPT ![l].pc = "end", ![l].ev = ev, ![l].code = row.code]
    <2>1. ending \in LegRecord /\ ending.pc = "end" /\ ending.s = leg[l].s
      BY <1>1, <1>3 DEF LegRecord, LegState
    <2>2. leg' = [leg EXCEPT ![l] = ending]
      BY <1>7
    <2>. QED  BY <1>2, <1>4, <2>1, <2>2 DEF Moves
  <1>8. CASE leg' = [leg EXCEPT ![l].pc = "done"]
    <2>1. done \in LegRecord /\ done.pc = "done" /\ done.s = leg[l].s
      BY <1>1 DEF LegRecord, LegState
    <2>2. leg' = [leg EXCEPT ![l] = done]
      BY <1>8
    <2>. QED  BY <1>2, <1>4, <2>1, <2>2 DEF Moves
  <1>. QED  BY <1>5, <1>6, <1>7, <1>8

\* So is Save, which gives the leg the code it is routed by.
LEMMA SaveMoves ==
    ASSUME TypeInv, NEW l \in Leg, Save(l)
    PROVE  \E r \in LegRecord : Moves(l, r)
  <1>1. leg[l] \in LegRecord /\ leg \in [Leg -> LegRecord]
    BY LegType
  <1>2. leg[l].pc = "save" /\ leg[l].s \in Session /\ l \notin wire
    BY DEF Save, TypeInv, Routed
  <1>3. CodeAfter(l) \in Code \cup {None} /\ TrailAfter(l) \in Nat
    BY <1>1, RowFields DEF CodeAfter, TrailAfter, LegRecord
  <1> DEFINE answer == IF Dispatch(l) = "await" THEN "none" ELSE "END"
             r == [leg[l] EXCEPT !.pc = Dispatch(l), !.code = CodeAfter(l), !.trail = TrailAfter(l),
                                 !.prior = NoRow, !.reply = answer]
  <1>4. Dispatch(l) \in {"await", "push", "expire"} /\ answer \in {"none", "CON", "END"}
    BY DEF Dispatch
  <1>5. Dispatch(l) = "await" => CodeAfter(l) \in Code
    BY <1>3 DEF Dispatch, Resolved
  <1>6. leg' = [leg EXCEPT ![l] = r]
    BY DEF Save
  <1>7. wire' = IF Dispatch(l) = "await" THEN wire \cup {l} ELSE wire
    BY DEF Save
  <1> HIDE DEF answer
  <1>8. r \in LegRecord /\ r.pc = Dispatch(l) /\ r.s = leg[l].s /\ r.code = CodeAfter(l)
    <2>1. leg[l] \in LegRecord
      BY <1>1
    <2>2. Dispatch(l) \in LegState
      BY <1>4 DEF LegState
    <2>. QED  BY <1>3, <1>4, <2>1, <2>2 DEF LegRecord
  <1> HIDE DEF r
  <1>9. Moves(l, r)
    BY <1>2, <1>4, <1>5, <1>6, <1>7, <1>8 DEF Moves
  <1>. QED  BY <1>8, <1>9

\* Expire is a step of one leg.
LEMMA ExpireMoves ==
    ASSUME TypeInv, NEW l \in Leg, Expire(l)
    PROVE  \E r \in LegRecord : Moves(l, r)
  <1> DEFINE r == [leg[l] EXCEPT !.pc = "done"]
  <1>1. r \in LegRecord /\ r.pc = "done" /\ r.s = leg[l].s /\ r.code = leg[l].code
    BY LegType DEF LegRecord, LegState
  <1>2. leg' = [leg EXCEPT ![l] = r] /\ leg[l].pc = "expire" /\ wire' = wire /\ l \notin wire
    BY DEF Expire, TypeInv, Routed
  <1>. QED  BY <1>1, <1>2 DEF Moves

\* EndSession is a step of one leg, handed on only with a configured code.
LEMMA EndSessionMoves ==
    ASSUME TypeInv, NEW l \in Leg, EndSession(l)
    PROVE  \E r \in LegRecord : Moves(l, r)
  <1> DEFINE to == IF Resolved(leg[l].code) = "active" THEN "await" ELSE "done"
             r  == [leg[l] EXCEPT !.pc = to]
  <1>1. r \in LegRecord /\ r.pc = to /\ r.s = leg[l].s /\ r.code = leg[l].code
    BY LegType DEF LegRecord, LegState
  <1>2. /\ leg' = [leg EXCEPT ![l] = r] /\ leg[l].pc = "end" /\ l \notin wire
        /\ wire' \subseteq wire \cup {l} /\ (l \in wire' => to = "await")
    BY DEF EndSession, TypeInv, Routed
  <1>3. to \in {"await", "done"} /\ (to = "await" => leg[l].code \in Code)
    BY LegType DEF Resolved, LegRecord
  <1> HIDE DEF r, to
  <1>4. Moves(l, r)
    BY <1>1, <1>2, <1>3 DEF Moves
  <1>. QED  BY <1>1, <1>4

\* Answer is a step of one leg.
LEMMA AnswerMoves ==
    ASSUME TypeInv, NEW l \in Leg, Answer(l)
    PROVE  \E r \in LegRecord : Moves(l, r)
  <1>1. PICK to \in {"push", "done"}, reply \in {"none", "CON", "END"} :
            leg' = [leg EXCEPT ![l].pc = to, ![l].reply = reply]
    BY LegType DEF Answer, LegRecord
  <1> DEFINE r == [leg[l] EXCEPT !.pc = to, !.reply = reply]
  <1>2. r \in LegRecord /\ r.pc = to /\ r.s = leg[l].s /\ r.code = leg[l].code
    BY LegType DEF LegRecord, LegState
  <1>3. leg' = [leg EXCEPT ![l] = r] /\ leg[l].pc = "reply" /\ wire' = wire
    BY <1>1 DEF Answer
  <1>. QED  BY <1>2, <1>3 DEF Moves, TypeInv, Routed

\* PushDone is a step of one leg.
LEMMA PushDoneMoves ==
    ASSUME TypeInv, NEW l \in Leg, PushDone(l)
    PROVE  \E r \in LegRecord : Moves(l, r)
  <1> DEFINE r == [leg[l] EXCEPT !.pc = "done"]
  <1>1. r \in LegRecord /\ r.pc = "done" /\ r.s = leg[l].s /\ r.code = leg[l].code
    BY LegType DEF LegRecord, LegState
  <1>2. leg' = [leg EXCEPT ![l] = r] /\ leg[l].pc = "push" /\ wire' = wire
    BY DEF PushDone
  <1>. QED  BY <1>1, <1>2 DEF Moves, TypeInv, Routed

\* A request whose database call raises is a step of one leg.
LEMMA RequestRaisesMoves ==
    ASSUME TypeInv, NEW l \in Leg, RequestRaises(l)
    PROVE  \E r \in LegRecord : Moves(l, r)
  <1> DEFINE code == IF leg[l].pc = "save" THEN CodeAfter(l) ELSE leg[l].code
             r    == [leg[l] EXCEPT !.pc = "dead", !.code = code]
  <1>1. leg[l] \in LegRecord /\ leg \in [Leg -> LegRecord]
    BY LegType
  <1>2. code \in Code \cup {None}
    BY <1>1, RowFields DEF CodeAfter, LegRecord
  <1>3. leg' = [leg EXCEPT ![l] = r]
    <2>1. CASE leg[l].pc = "save"
      BY <2>1 DEF RequestRaises
    <2>2. CASE leg[l].pc # "save"
      <3>1. r = [leg[l] EXCEPT !.pc = "dead"]
        BY <1>1, <2>2 DEF LegRecord
      <3>. QED  BY <2>2, <3>1 DEF RequestRaises
    <2>. QED  BY <2>1, <2>2
  <1>4. leg[l].pc # "idle" /\ wire' = wire
    BY DEF RequestRaises, Holding
  <1>5. leg[l].pc # "save" => code = leg[l].code
    OBVIOUS
  <1> HIDE DEF code
  <1>6. r \in LegRecord /\ r.pc = "dead" /\ r.s = leg[l].s /\ r.code = code
    BY <1>1, <1>2 DEF LegRecord, LegState
  <1> HIDE DEF r
  <1>7. l \in wire => leg[l].pc # "save" /\ leg[l].code \in Code
    BY DEF TypeInv, Routed
  <1>8. Moves(l, r)
    BY <1>3, <1>4, <1>5, <1>6, <1>7 DEF Moves
  <1>. QED  BY <1>6, <1>8

\* A handler processing a leg is a step of that leg, or of none.
LEMMA HandledMoves ==
    ASSUME TypeInv, NEW l \in Leg, Handled(l)
    PROVE  \E r \in LegRecord : Moves(l, r)
  <1>1. leg[l] \in LegRecord /\ leg \in [Leg -> LegRecord]
    BY LegType
  <1>2. /\ l \in wire /\ wire' = wire \ {l}
        /\ \E reply \in {"none", "CON", "END"} : Replied(l, reply)
    BY DEF Handled, HandleMenu, HandleEnded
  <1>3. CASE leg' = leg
    <2>1. Moves(l, leg[l])
      BY <1>1, <1>2, <1>3 DEF Moves, TypeInv, Routed
    <2>. QED  BY <1>1, <2>1
  <1>4. ASSUME leg' # leg
        PROVE  \E r \in LegRecord : Moves(l, r)
    <2>1. PICK reply \in {"none", "CON", "END"} :
              /\ leg[l].pc = "await"
              /\ leg' = [leg EXCEPT ![l].pc = "reply", ![l].reply = reply]
      BY <1>2, <1>4 DEF Replied
    <2> DEFINE r == [leg[l] EXCEPT !.pc = "reply", !.reply = reply]
    <2>2. r \in LegRecord /\ r.pc = "reply" /\ r.s = leg[l].s /\ r.code = leg[l].code
      BY <1>1 DEF LegRecord, LegState
    <2>3. leg' = [leg EXCEPT ![l] = r]
      BY <2>1
    <2>. QED  BY <1>2, <2>1, <2>2, <2>3 DEF Moves, TypeInv, Routed
  <1>. QED  BY <1>3, <1>4

\* A call given up is a step of one leg.
LEMMA CallFailsMoves ==
    ASSUME TypeInv, NEW l \in Leg, CallFails(l)
    PROVE  \E r \in LegRecord : Moves(l, r)
  <1> DEFINE r == [leg[l] EXCEPT !.pc = "reply", !.reply = "none"]
  <1>1. r \in LegRecord /\ r.pc = "reply" /\ r.s = leg[l].s /\ r.code = leg[l].code
    BY LegType DEF LegRecord, LegState
  <1>2. leg' = [leg EXCEPT ![l] = r] /\ leg[l].pc = "await" /\ wire' = wire
    BY DEF CallFails
  <1>. QED  BY <1>1, <1>2 DEF Moves, TypeInv, Routed

\* A collected task is a step of one leg.
LEMMA CollectMoves ==
    ASSUME TypeInv, NEW l \in Leg, Collect(l)
    PROVE  \E r \in LegRecord : Moves(l, r)
  <1> DEFINE r == [leg[l] EXCEPT !.pc = "dead"]
  <1>1. r \in LegRecord /\ r.pc = "dead" /\ r.s = leg[l].s /\ r.code = leg[l].code
    BY LegType DEF LegRecord, LegState
  <1>2. leg' = [leg EXCEPT ![l] = r] /\ leg[l].pc \in {"await", "push"} /\ wire' = wire
    BY DEF Collect, Background
  <1>. QED  BY <1>1, <1>2 DEF Moves, TypeInv, Routed

LegStep(l) ==
    Step(l) \/ RequestRaises(l) \/ Handled(l) \/ CallFails(l) \/ Collect(l)

\* Every step of a leg after its arrival has that shape.
LEMMA LegStepMoves ==
    ASSUME TypeInv, NEW l \in Leg, LegStep(l)
    PROVE  \E r \in LegRecord : Moves(l, r)
  BY LookupMoves, SaveMoves, ExpireMoves, EndSessionMoves, AnswerMoves, PushDoneMoves,
     RequestRaisesMoves, HandledMoves, CallFailsMoves, CollectMoves
  DEF LegStep, Step

\* Steps of that shape keep the legs typed and routed.
LEMMA MovesRouted ==
    ASSUME TypeInv, NEW l \in Leg, NEW r \in LegRecord, Moves(l, r)
    PROVE  leg' \in [Leg -> LegRecord] /\ Routed'
  <1>1. leg \in [Leg -> LegRecord]
    BY LegType
  <1>2. leg' \in [Leg -> LegRecord] /\ \A k \in Leg : leg'[k] = IF k = l THEN r ELSE leg[k]
    BY <1>1 DEF Moves
  <1>3. wire' \subseteq Leg
    BY DEF Moves, TypeInv, RestOK
  <1>. QED  BY <1>1, <1>2, <1>3 DEF Moves, Routed, TypeInv, Op

\* What a leg saves is a row.
LEMMA SavedType ==
    ASSUME TypeInv, NEW l \in Leg, leg[l].pc = "save"
    PROVE  RowsSaved(l) \in [Session -> Row \cup {NoRow}]
  <1>1. rows \in [Session -> Row \cup {NoRow}] /\ leg[l] \in LegRecord /\ leg[l].s \in Session
    BY DEF TypeInv, RestOK, Routed
  <1>2. CodeAfter(l) \in Code \cup {None} /\ TrailAfter(l) \in Nat
    BY <1>1, RowFields DEF CodeAfter, TrailAfter, LegRecord
  <1>3. Writes(l) => CodeAfter(l) \in Code
    <2>1. CASE leg[l].ev = "START"
      BY <2>1 DEF TypeInv, CodeAfter, Routed
    <2>2. CASE leg[l].ev # "START" /\ leg[l].prior # NoRow
      <3>1. CodeAfter(l) = leg[l].prior.code
        BY <2>2 DEF CodeAfter
      <3>. QED  BY <1>1, <2>2, <3>1, RowFields DEF LegRecord
    <2>. QED  BY <2>1, <2>2 DEF Writes
  <1>4. Writes(l) => Upserted(rows[leg[l].s], CodeAfter(l), TrailAfter(l), l) \in Row
    BY <1>1, <1>2, <1>3, UpsertedType
  <1>. QED  BY <1>1, <1>4 DEF RowsSaved

\* Counting keeps the type of a counter.
LEMMA CountType ==
    ASSUME NEW f \in [Session -> Nat], NEW s
    PROVE  [f EXCEPT ![s] = f[s] + 1] \in [Session -> Nat]
  <1>1. CASE s \in Session
    BY <1>1
  <1>2. CASE s \notin Session
    BY <1>2
  <1>. QED  BY <1>1, <1>2

\* A notification keeps its type whatever becomes of it.
LEMMA NoticeType ==
    ASSUME TypeInv, NEW b \in Leg, NEW st \in NoticeState
    PROVE  [notice EXCEPT ![b].st = st] \in [Leg -> NoticeRecord]
  BY DEF TypeInv, RestOK, NoticeRecord

\* A step of a leg keeps the types of everything but the legs.
LEMMA LegStepRest ==
    ASSUME TypeInv, NEW l \in Leg, LegStep(l)
    PROVE  RestOK'
  <1>0. RestOK /\ leg[l] \in LegRecord
    BY DEF TypeInv
  <1>1. CASE Lookup(l)
    BY <1>0, <1>1 DEF Lookup, RestOK, table, notices, context
  <1>2. CASE Save(l)
    BY <1>0, <1>2, SavedType DEF Save, RestOK, notices, context
  <1>3. CASE Expire(l)
    BY <1>0, <1>3, DeletedType DEF Expire, RestOK, notices, context
  <1>4. CASE EndSession(l)
    BY <1>0, <1>4, DeletedType DEF EndSession, RestOK, notices, context
  <1>5. CASE Answer(l)
    BY <1>0, <1>5, DeletedType DEF Answer, RestOK, notices, context
  <1>6. CASE PushDone(l)
    BY <1>0, <1>6, DeletedType DEF PushDone, RestOK, notices, context
  <1>7. CASE RequestRaises(l)
    BY <1>0, <1>7, SavedType DEF RequestRaises, RestOK, notices, context
  <1>8. ASSUME NEW r \in {"CON", "END"}, HandleMenu(l, r)
        PROVE  RestOK'
    <2>1. leg[l].s \in Session /\ leg[l].code \in Code
      BY <1>8 DEF TypeInv, HandleMenu, Routed
    <2>. QED  BY <1>0, <1>8, <2>1 DEF HandleMenu, RestOK, table, notices
  <1>9. CASE HandleEnded(l)
    <2>1. leg[l].s \in Session
      BY <1>9 DEF HandleEnded, TypeInv, Routed
    <2>. QED  BY <1>0, <1>9, <2>1 DEF HandleEnded, RestOK, table, notices
  <1>10. CASE CallFails(l)
    BY <1>0, <1>10 DEF CallFails, RestOK, table, notices, context
  <1>11. CASE Collect(l)
    BY <1>0, <1>11 DEF Collect, RestOK, table, notices, context
  <1>. QED
    BY <1>1, <1>2, <1>3, <1>4, <1>5, <1>6, <1>7, <1>8, <1>9, <1>10, <1>11
    DEF LegStep, Step, Handled

\* The steps that concern an expiry notification.
NoticeChange(b) ==
    Notify(b) \/ NotifyRaises(b) \/ NotifyLogged(b) \/ HandleExpired(b) \/ NoticeFails(b)

\* A step of a notification keeps the types.
LEMMA NoticeChangeTypes ==
    ASSUME TypeInv, NEW b \in Leg, NoticeChange(b)
    PROVE  TypeInv'
  <1>1. RestOK /\ leg' = leg /\ wire' = wire
    BY DEF TypeInv, NoticeChange, Notify, NotifyRaises, NotifyLogged, HandleExpired, NoticeFails, tasks
  <1>2. leg' \in [Leg -> LegRecord] /\ Routed'
    BY <1>1 DEF TypeInv, Routed, Op
  <1>3. CASE Notify(b)
    <2>1. \A st \in {"sent", "skipped"} : [notice EXCEPT ![b].st = st] \in [Leg -> NoticeRecord]
      BY NoticeType DEF NoticeState
    <2>2. /\ notice' \in [Leg -> NoticeRecord]
          /\ nwire' \subseteq Leg
      BY <1>1, <1>3, <2>1 DEF Notify, RestOK
    <2>. QED  BY <1>1, <1>2, <1>3, <2>2 DEF TypeInv, Notify, RestOK, table, tasks, context
  <1>4. CASE NotifyRaises(b)
    BY <1>1, <1>2, <1>4, NoticeType DEF TypeInv, NotifyRaises, RestOK, NoticeState, table, tasks, context
  <1>5. CASE NotifyLogged(b)
    BY <1>1, <1>2, <1>5, NoticeType DEF TypeInv, NotifyLogged, RestOK, NoticeState, table, tasks, context
  <1>6. CASE HandleExpired(b)
    <2>1. notice' \in [Leg -> NoticeRecord]
      <3>1. [notice EXCEPT ![b].st = "answered"] \in [Leg -> NoticeRecord]
        BY NoticeType DEF NoticeState
      <3>. QED  BY <1>1, <1>6, <3>1 DEF HandleExpired, RestOK
    <2>2. told' \in [Session -> Nat]
      BY <1>1, <1>6, CountType DEF HandleExpired, RestOK
    <2>3. holds' \subseteq Session \X Code /\ nwire' \subseteq Leg
      BY <1>1, <1>6 DEF HandleExpired, RestOK
    <2>. QED  BY <1>1, <1>2, <1>6, <2>1, <2>2, <2>3 DEF TypeInv, HandleExpired, RestOK, table, tasks
  <1>7. CASE NoticeFails(b)
    BY <1>1, <1>2, <1>7, NoticeType DEF TypeInv, NoticeFails, RestOK, NoticeState, table, tasks, context
  <1>. QED  BY <1>3, <1>4, <1>5, <1>6, <1>7 DEF NoticeChange

\* A leg that arrives keeps the types.
LEMMA ReceiveTypes ==
    ASSUME TypeInv, NEW l \in Leg, NEW w \in Worker, NEW s \in Session, NEW ev \in Wire,
           NEW c \in Code \cup {None}, Receive(l, w, s, ev, c)
    PROVE  TypeInv'
  <1> DEFINE pc == IF ev = "START" /\ OpOf[s] # "airtel" THEN "save" ELSE "parse"
             r  == [Blank EXCEPT !.pc = pc, !.w = w, !.s = s, !.ev = ev, !.code = c, !.n = typed'[s]]
  <1>1. RestOK /\ leg \in [Leg -> LegRecord] /\ Routed
    BY DEF TypeInv
  <1>2. typed' \in [Session -> Nat]
    BY <1>1 DEF Receive, RestOK
  <1>3. leg' = [leg EXCEPT ![l] = r] /\ wire' = wire /\ l \notin wire
    BY <1>1 DEF Receive, Routed
  <1>4. pc \in {"parse", "save"}
    OBVIOUS
  <1>5. ev = "START" \/ OpOf[s] = "airtel" => c \in Code
    BY <1>1 DEF Receive, MayArrive, CarriedCodes, RestOK
  <1> HIDE DEF pc
  <1>6. r \in LegRecord /\ r.pc = pc /\ r.s = s /\ r.ev = ev /\ r.code = c
    BY <1>2, <1>4 DEF Blank, LegRecord, LegState
  <1> HIDE DEF r
  <1>7. \A k \in Leg : leg'[k] = IF k = l THEN r ELSE leg[k]
    BY <1>1, <1>3
  <1>8. leg' \in [Leg -> LegRecord] /\ Routed'
    BY <1>1, <1>3, <1>4, <1>5, <1>6, <1>7 DEF Routed, RestOK, Op
  <1>9. RestOK'
    BY <1>1, <1>2 DEF Receive, RestOK, table, notices
  <1>. QED  BY <1>8, <1>9 DEF TypeInv

\* A claim keeps the types.
LEMMA ClaimTypes ==
    ASSUME TypeInv, NEW w \in Worker, Claim(w)
    PROVE  TypeInv'
  <1>1. RestOK /\ leg \in [Leg -> LegRecord] /\ Routed
    BY DEF TypeInv
  <1>2. PICK S \in SUBSET Claimable(rows) : rows' = Deleted(rows, S) /\ notice' = NoticesOf(w, S)
    BY DEF Claim, Victims
  <1>3. \A s \in S : s \in Session /\ rows[s].code \in Code
    BY <1>1, <1>2, RowFields DEF Claimable, RestOK
  <1>4. NoticesOf(w, S) \in [Leg -> NoticeRecord]
    BY <1>1, <1>3 DEF NoticesOf, RestOK, NoticeRecord, NoticeState
  <1>5. rows' \in [Session -> Row \cup {NoRow}]
    BY <1>1, <1>2, DeletedType DEF RestOK
  <1>6. leg' = leg /\ wire' = wire
    BY DEF Claim, tasks
  <1>7. leg' \in [Leg -> LegRecord] /\ Routed'
    BY <1>1, <1>6 DEF Routed, Op
  <1>8. RestOK'
    BY <1>1, <1>2, <1>4, <1>5 DEF Claim, RestOK, tasks, context
  <1>. QED  BY <1>7, <1>8 DEF TypeInv

\* A crash keeps the types.
LEMMA CrashTypes ==
    ASSUME TypeInv, NEW w \in Worker, Crash(w)
    PROVE  TypeInv'
  <1>1. RestOK /\ leg \in [Leg -> LegRecord] /\ Routed
    BY DEF TypeInv
  <1>2. \A l \in Leg : [leg[l] EXCEPT !.pc = "dead"] \in LegRecord
    BY <1>1 DEF LegRecord, LegState
  <1>3. \A l \in Leg :
           \/ leg'[l] = leg[l]
           \/ leg'[l] = [leg[l] EXCEPT !.pc = "dead"] /\ leg[l].pc # "idle"
    BY DEF Crash
  <1>4. \A l \in Leg :
           /\ leg'[l] \in LegRecord
           /\ leg'[l].s = leg[l].s /\ leg'[l].ev = leg[l].ev /\ leg'[l].code = leg[l].code
           /\ leg'[l].pc = leg[l].pc \/ (leg'[l].pc = "dead" /\ leg[l].pc # "idle")
    BY <1>1, <1>2, <1>3 DEF LegRecord
  <1>5. leg' \in [Leg -> LegRecord] /\ wire' = wire
    <2>1. leg' = [l \in Leg |-> leg'[l]] /\ wire' = wire
      BY DEF Crash
    <2>. QED  BY <1>4, <2>1
  <1>6. Routed'
    BY <1>1, <1>4, <1>5 DEF Routed, RestOK, Op
  <1>7. \A b \in Leg : [notice[b] EXCEPT !.st = "lost"] \in NoticeRecord
    BY <1>1 DEF RestOK, NoticeRecord, NoticeState
  <1>8. RestOK'
    BY <1>1, <1>7 DEF Crash, RestOK, table, context
  <1>. QED  BY <1>5, <1>6, <1>8 DEF TypeInv

\* The initial state is typed.
LEMMA TypeInit == Init => TypeInv
  BY NoneAssumption, GatewayAssumption
     DEF Init, TypeInv, RestOK, Routed, LegRecord, NoticeRecord, Blank, NoNotice, LegState, Wire, Menu, NoticeState, Row, NoRow

\* Every step keeps the types.
LEMMA TypeStep == TypeInv /\ [Next]_vars => TypeInv'
  <1> SUFFICES ASSUME TypeInv, [Next]_vars
               PROVE  TypeInv'
    OBVIOUS
  <1>0. RestOK /\ leg \in [Leg -> LegRecord] /\ Routed
    BY DEF TypeInv
  <1>1. ASSUME NEW l \in Leg, LegStep(l)
        PROVE  TypeInv'
    BY <1>1, LegStepMoves, MovesRouted, LegStepRest DEF TypeInv
  <1>2. ASSUME NEW b \in Leg, NoticeChange(b)
        PROVE  TypeInv'
    BY <1>2, NoticeChangeTypes
  <1>3. ASSUME NEW l \in Leg, NEW w \in Worker, NEW s \in Session, NEW ev \in Wire,
               NEW c \in Code \cup {None}, Receive(l, w, s, ev, c)
        PROVE  TypeInv'
    BY <1>3, ReceiveTypes
  <1>4. ASSUME NEW w \in Worker, Claim(w)
        PROVE  TypeInv'
    BY <1>4, ClaimTypes
  <1>5. ASSUME NEW w \in Worker, Crash(w)
        PROVE  TypeInv'
    BY <1>5, CrashTypes
  <1>6. CASE Tick
    BY <1>0, <1>6, AgedType DEF TypeInv, Tick, RestOK, Routed, Op, tasks, notices, context
  <1>7. CASE Sweep
    BY <1>0, <1>7, DeletedType DEF TypeInv, Sweep, RestOK, Routed, Op, tasks, notices, context
  <1>8. ASSUME NEW c \in Code, NEW st \in Status, SetStatus(c, st)
        PROVE  TypeInv'
    BY <1>0, <1>8 DEF TypeInv, SetStatus, RestOK, Routed, Op, tasks, notices, context
  <1>9. CASE UNCHANGED vars
    BY <1>0, <1>9 DEF TypeInv, vars, RestOK, Routed, Op, table, tasks, notices, context
  <1>. QED
    BY <1>1, <1>2, <1>3, <1>4, <1>5, <1>6, <1>7, <1>8, <1>9
    DEF Next, Environment, Gateway, LegStep, NoticeStep, NoticeChange

\* The hazards of a behaviour are chosen once and for all.
LEMMA HazardsFixed == [Next]_vars => env' = env
  <1> SUFFICES ASSUME [Next]_vars
               PROVE  env' = env
    OBVIOUS
  <1>1. ASSUME NEW l \in Leg, LegStep(l)
        PROVE  env' = env
    BY <1>1 DEF LegStep, Step, Lookup, Save, Expire, EndSession, Answer, PushDone, RequestRaises,
                Handled, HandleMenu, HandleEnded, CallFails, Collect, context
  <1>2. ASSUME NEW b \in Leg, NoticeChange(b)
        PROVE  env' = env
    BY <1>2 DEF NoticeChange, Notify, NotifyLogged, NotifyRaises, HandleExpired, NoticeFails, context
  <1>3. ASSUME NEW l \in Leg, NEW w \in Worker, NEW s \in Session, NEW ev \in Wire,
               NEW c \in Code \cup {None}, Receive(l, w, s, ev, c)
        PROVE  env' = env
    BY <1>3 DEF Receive
  <1>4. ASSUME NEW w \in Worker, Claim(w) \/ Crash(w)
        PROVE  env' = env
    BY <1>4 DEF Claim, Crash, context
  <1>5. ASSUME Tick \/ Sweep \/ \E c \in Code, st \in Status : SetStatus(c, st)
        PROVE  env' = env
    BY <1>5 DEF Tick, Sweep, SetStatus, context
  <1>6. CASE UNCHANGED vars
    BY <1>6 DEF vars, context
  <1>. QED
    BY <1>1, <1>2, <1>3, <1>4, <1>5, <1>6
    DEF Next, Environment, Gateway, LegStep, NoticeStep, NoticeChange

(***************************************************************************)
(* Every variable keeps the type of the state it stands for: no row is     *)
(* written without a code, and no leg reaches a handler without one.       *)
(***************************************************************************)
THEOREM Typing == Spec => []TypeOK
  <1>1. TypeInv /\ env \in Environments => TypeOK
    BY DEF TypeInv, RestOK, TypeOK, LegRecord, NoticeRecord
  <1>2. Init => env \in Environments
    BY DEF Init
  <1>3. env \in Environments /\ [Next]_vars => (env \in Environments)'
    BY HazardsFixed
  <1>. QED  BY <1>1, <1>2, <1>3, TypeInit, TypeStep, PTL DEF Spec

-----------------------------------------------------------------------------
(***************************************************************************)
(* The life of a row is named by the leg that inserted it.  A leg that has *)
(* not saved names no life yet; a row still in the table has not been      *)
(* claimed and agrees with the leg that inserted it; and a claimed life    *)
(* agrees with it too.  Together these are inductive, and the properties   *)
(* ClaimedRowIsGone and NoticeReachesOpener follow.                        *)
(***************************************************************************)
Unsaved(l) == leg[l].pc \in {"idle", "parse", "save"}

Unnamed ==
    \A l \in Leg : Unsaved(l) => /\ notice[l].st = "none"
                                 /\ \A s \in Session : rows[s] # NoRow => rows[s].born # l

RowsAgree ==
    \A s \in Session : rows[s] # NoRow =>
        /\ notice[rows[s].born].st = "none"
        /\ leg[rows[s].born].s = s
        /\ leg[rows[s].born].code = rows[s].code

NoticesAgree ==
    \A b \in Leg : notice[b].st # "none" => /\ notice[b].s = leg[b].s
                                            /\ notice[b].code = leg[b].code

LifeInv == Unnamed /\ RowsAgree /\ NoticesAgree

\* What a leg's step may do to the rows: nothing, a delete, or its save.
SavesIn(l) ==
    /\ leg[l].pc = "save"
    /\ rows' = RowsSaved(l)
    /\ leg'[l].code = CodeAfter(l)
    /\ leg'[l].pc \notin {"idle", "parse", "save"}

\* What a step of a leg may do to the table: nothing, delete, or save its row.
LEMMA LegStepRows ==
    ASSUME TypeInv, NEW l \in Leg, LegStep(l)
    PROVE  /\ notice' = notice
           /\ \/ rows' = rows /\ (leg[l].pc = "save" => leg'[l].pc \notin {"parse", "save"})
              \/ (\E S : rows' = Deleted(rows, S)) /\ leg[l].pc # "save"
              \/ SavesIn(l)
  <1>0. leg \in [Leg -> LegRecord] /\ leg[l] \in LegRecord
    BY LegType
  <1>1. CASE Lookup(l)
    BY <1>1 DEF Lookup, table, notices
  <1>2. CASE Save(l)
    <2>1. leg'[l].pc = Dispatch(l) /\ leg'[l].code = CodeAfter(l)
      BY <1>0, <1>2 DEF Save, LegRecord
    <2>. QED  BY <1>2, <2>1 DEF Save, SavesIn, Dispatch, notices
  <1>3. CASE Expire(l)
    BY <1>3 DEF Expire, notices
  <1>4. CASE EndSession(l)
    BY <1>4 DEF EndSession, notices
  <1>5. CASE Answer(l)
    BY <1>5 DEF Answer, notices
  <1>6. CASE PushDone(l)
    BY <1>6 DEF PushDone, notices
  <1>7. CASE RequestRaises(l)
    <2>1. CASE leg[l].pc = "save"
      <3>1. leg'[l].pc = "dead" /\ leg'[l].code = CodeAfter(l)
        BY <1>0, <1>7, <2>1 DEF RequestRaises, LegRecord
      <3>. QED  BY <1>7, <2>1, <3>1 DEF RequestRaises, SavesIn, notices
    <2>2. CASE leg[l].pc # "save"
      BY <1>7, <2>2 DEF RequestRaises, notices
    <2>. QED  BY <2>1, <2>2
  <1>8. ASSUME NEW r \in {"CON", "END"}, HandleMenu(l, r)
        PROVE  rows' = rows /\ notice' = notice /\ leg[l].pc # "save"
    BY <1>8 DEF HandleMenu, table, notices, TypeInv, Routed
  <1>9. CASE HandleEnded(l)
    BY <1>9 DEF HandleEnded, table, notices, TypeInv, Routed
  <1>10. CASE CallFails(l)
    BY <1>10 DEF CallFails, table, notices
  <1>11. CASE Collect(l)
    BY <1>11 DEF Collect, Background, table, notices
  <1>. QED
    BY <1>1, <1>2, <1>3, <1>4, <1>5, <1>6, <1>7, <1>8, <1>9, <1>10, <1>11
    DEF LegStep, Step, Handled

\* An upsert keeps the life and the code of a row that is there.
LEMMA UpsertedFields ==
    ASSUME NEW r \in Row \cup {NoRow}, NEW c, NEW t, NEW l
    PROVE  /\ r = NoRow => Upserted(r, c, t, l).born = l /\ Upserted(r, c, t, l).code = c
           /\ r # NoRow => Upserted(r, c, t, l).born = r.born /\ Upserted(r, c, t, l).code = r.code
  <1>1. CASE r = NoRow
    BY <1>1 DEF Upserted
  <1>2. CASE r # NoRow
    <2>1. r \in Row
      BY <1>2
    <2>2. [r EXCEPT !.trail = t, !.age = 0].born = r.born /\ [r EXCEPT !.trail = t, !.age = 0].code = r.code
      BY <2>1 DEF Row
    <2>. QED  BY <1>2, <2>2 DEF Upserted
  <1>. QED  BY <1>1, <1>2

\* A row after a step is one of the rows before it, as far as its life and
\* its code go.
Survives(s) ==
    rows'[s] # NoRow => rows[s] # NoRow /\ rows'[s].born = rows[s].born /\ rows'[s].code = rows[s].code

\* A deletion leaves a row as it is or removes it.
LEMMA DeletedSurvives ==
    ASSUME NEW S, rows' = Deleted(rows, S), NEW s \in Session
    PROVE  Survives(s) /\ (s \in S => rows'[s] = NoRow)
  BY DEF Deleted, Survives

\* So does the passing of time, but for the age.
LEMMA AgedSurvives ==
    ASSUME TypeInv, rows' = Aged(rows), NEW s \in Session
    PROVE  Survives(s)
  <1>1. CASE rows[s] = NoRow \/ rows[s].age = AgeCap
    BY <1>1 DEF Aged, Survives
  <1>2. CASE ~(rows[s] = NoRow \/ rows[s].age = AgeCap)
    <2>1. rows[s] \in Row /\ rows'[s] = [rows[s] EXCEPT !.age = rows[s].age + 1]
      BY <1>2 DEF Aged, TypeInv, RestOK
    <2>. QED  BY <1>2, <2>1 DEF Survives, Row
  <1>. QED  BY <1>1, <1>2

\* A leg after a step keeps what a life took from it.
KeepsLegs ==
    \A l \in Leg : /\ Unsaved(l)' => Unsaved(l)
                   /\ ~Unsaved(l) => leg'[l].s = leg[l].s /\ leg'[l].code = leg[l].code

\* Steps that open no row and name no leg keep the invariant on lives.
LEMMA LifeByDeletion ==
    ASSUME TypeInv, TypeInv', LifeInv, KeepsLegs, notice' = notice,
           \A s \in Session : Survives(s)
    PROVE  LifeInv'
  <1>1. \A s \in Session : rows[s] # NoRow => rows[s].born \in Leg
    BY RowFields DEF TypeInv, RestOK
  <1>2. Unnamed'
    BY DEF LifeInv, Unnamed, KeepsLegs, Survives
  <1>3. RowsAgree'
    BY <1>1 DEF LifeInv, Unnamed, RowsAgree, KeepsLegs, Survives
  <1>4. NoticesAgree'
    BY DEF LifeInv, Unnamed, NoticesAgree, KeepsLegs
  <1>. QED  BY <1>2, <1>3, <1>4 DEF LifeInv

\* Steps of a leg keep it.
LEMMA LifeLegStep ==
    ASSUME TypeInv, TypeInv', LifeInv, NEW l \in Leg, LegStep(l)
    PROVE  LifeInv'
  <1>1. PICK r \in LegRecord : Moves(l, r)
    BY LegStepMoves
  <1>2. /\ \A k \in Leg : leg'[k] = IF k = l THEN r ELSE leg[k]
        /\ leg[l].pc # "idle" /\ r.pc # "idle" /\ r.s = leg[l].s
        /\ leg[l].pc \notin {"parse", "save"} => r.pc \notin {"parse", "save"} /\ r.code = leg[l].code
    BY <1>1, LegType DEF Moves
  <1>3. KeepsLegs
    BY <1>2 DEF KeepsLegs, Unsaved
  <1>4. notice' = notice
    BY LegStepRows
  <1>5. CASE rows' = rows
    BY <1>3, <1>4, <1>5, LifeByDeletion DEF Survives
  <1>6. CASE \E S : rows' = Deleted(rows, S)
    BY <1>3, <1>4, <1>6, LifeByDeletion, DeletedSurvives
  <1>7. CASE SavesIn(l)
    <2>1. /\ leg[l].pc = "save" /\ rows' = RowsSaved(l)
          /\ r.code = CodeAfter(l) /\ r.pc \notin {"idle", "parse", "save"}
      BY <1>2, <1>7 DEF SavesIn
    <2>2. \A s \in Session : rows[s] \in Row \cup {NoRow} /\ (rows[s] # NoRow => rows[s].born \in Leg)
      BY RowFields DEF TypeInv, RestOK
    <2>3. Unsaved(l) /\ notice[l].st = "none" /\ leg[l].s \in Session
      BY <2>1 DEF Unsaved, LifeInv, Unnamed, TypeInv, Routed
    <2>4. \A s \in Session :
             \/ Survives(s)
             \/ s = leg[l].s /\ rows'[s].born = l /\ rows'[s].code = r.code
      <3>1. CASE ~Writes(l)
        BY <2>1, <3>1 DEF RowsSaved, Survives
      <3>2. CASE Writes(l)
        <4>1. /\ \A s \in Session : s # leg[l].s => rows'[s] = rows[s]
              /\ rows'[leg[l].s] = Upserted(rows[leg[l].s], CodeAfter(l), TrailAfter(l), l)
          BY <2>1, <2>3, <3>2 DEF RowsSaved, TypeInv, RestOK
        <4>2. CASE rows[leg[l].s] = NoRow
          BY <2>1, <2>2, <2>3, <4>1, <4>2, UpsertedFields DEF Survives
        <4>3. CASE rows[leg[l].s] # NoRow
          BY <2>1, <2>2, <2>3, <4>1, <4>3, UpsertedFields DEF Survives
        <4>. QED  BY <4>2, <4>3
      <3>. QED  BY <3>1, <3>2
    <2>5. Unnamed'
      BY <1>2, <1>3, <1>4, <2>1, <2>4 DEF LifeInv, Unnamed, KeepsLegs, Survives, Unsaved
    <2>6. RowsAgree'
      BY <1>2, <1>3, <1>4, <2>1, <2>2, <2>3, <2>4 DEF LifeInv, Unnamed, RowsAgree, KeepsLegs, Survives
    <2>7. NoticesAgree'
      BY <1>3, <1>4 DEF LifeInv, Unnamed, NoticesAgree, KeepsLegs
    <2>. QED  BY <2>5, <2>6, <2>7 DEF LifeInv
  <1>. QED  BY <1>5, <1>6, <1>7, LegStepRows

\* A leg that arrives keeps it: nothing names a leg id before its use.
LEMMA LifeReceive ==
    ASSUME TypeInv, TypeInv', LifeInv, NEW l \in Leg, NEW w \in Worker, NEW s \in Session,
           NEW ev \in Wire, NEW c \in Code \cup {None}, Receive(l, w, s, ev, c)
    PROVE  LifeInv'
  <1>1. leg[l].pc = "idle" /\ rows' = rows /\ notice' = notice
    BY DEF Receive, table, notices
  <1>2. \A k \in Leg : k # l => leg'[k] = leg[k]
    BY LegType DEF Receive
  <1>3. KeepsLegs
    BY <1>1, <1>2 DEF KeepsLegs, Unsaved
  <1>. QED  BY <1>1, <1>3, LifeByDeletion DEF Survives

\* The steps of a notification change nothing but how far it has got.
LEMMA LifeNotice ==
    ASSUME TypeInv, TypeInv', LifeInv, rows' = rows, leg' = leg,
           \A b \in Leg : \/ notice'[b] = notice[b]
                          \/ /\ notice[b].st # "none"
                             /\ notice'[b].s = notice[b].s /\ notice'[b].code = notice[b].code
    PROVE  LifeInv'
  <1>1. \A s \in Session : rows[s] # NoRow => rows[s].born \in Leg
    BY RowFields DEF TypeInv, RestOK
  <1>2. Unnamed'
    BY DEF LifeInv, Unnamed, Unsaved
  <1>3. RowsAgree'
    BY <1>1 DEF LifeInv, RowsAgree
  <1>4. NoticesAgree'
    BY DEF LifeInv, NoticesAgree
  <1>. QED  BY <1>2, <1>3, <1>4 DEF LifeInv

\* Steps of a notification keep it.
LEMMA LifeNoticeChange ==
    ASSUME TypeInv, TypeInv', LifeInv, NEW b \in Leg, NoticeChange(b)
    PROVE  LifeInv'
  <1>1. rows' = rows /\ leg' = leg
    BY DEF NoticeChange, Notify, NotifyRaises, NotifyLogged, HandleExpired, NoticeFails, table, tasks
  <1>2. notice \in [Leg -> NoticeRecord]
    BY DEF TypeInv, RestOK
  <1>3. \/ notice' = notice
        \/ /\ notice[b].st # "none"
           /\ \E st \in NoticeState : notice' = [notice EXCEPT ![b].st = st]
    BY DEF NoticeChange, Notify, NotifyRaises, NotifyLogged, HandleExpired, NoticeFails, NoticeState
  <1>4. ASSUME NEW st \in NoticeState, notice' = [notice EXCEPT ![b].st = st]
        PROVE  /\ \A k \in Leg : k # b => notice'[k] = notice[k]
               /\ notice'[b].s = notice[b].s /\ notice'[b].code = notice[b].code
    BY <1>2, <1>4 DEF NoticeRecord
  <1>. QED  BY <1>1, <1>3, <1>4, LifeNotice

\* A claim keeps it, because it deletes the rows it names.
LEMMA LifeClaim ==
    ASSUME TypeInv, TypeInv', LifeInv, NEW w \in Worker, Claim(w)
    PROVE  LifeInv'
  <1>1. PICK S \in SUBSET Session : /\ rows' = Deleted(rows, S) /\ notice' = NoticesOf(w, S)
                                    /\ \A s \in S : rows[s] # NoRow
    BY DEF Claim, Victims, Claimable
  <1>2. leg' = leg
    BY DEF Claim, tasks
  <1>3. \A s \in Session : rows[s] # NoRow => rows[s].born \in Leg
    BY RowFields DEF TypeInv, RestOK
  <1>4. ASSUME NEW b \in Leg
        PROVE  \/ /\ \A s \in S : rows[s].born # b
                  /\ notice'[b] = notice[b]
               \/ \E s \in S : /\ rows[s].born = b
                               /\ notice'[b] = [st |-> "claimed", w |-> w, s |-> s, code |-> rows[s].code]
    BY <1>1 DEF NoticesOf
  <1>5. \A s \in Session : Survives(s) /\ (s \in S => rows'[s] = NoRow)
    BY <1>1, DeletedSurvives
  <1>6. \A b \in Leg : (\A s \in S : rows[s].born # b) => notice'[b] = notice[b]
    BY <1>4
  <1>7. Unnamed'
    <2> SUFFICES ASSUME NEW b \in Leg, Unsaved(b)'
                 PROVE  /\ notice'[b].st = "none"
                        /\ \A s \in Session : rows'[s] # NoRow => rows'[s].born # b
      BY DEF Unnamed
    <2>1. notice[b].st = "none" /\ \A s \in Session : rows[s] # NoRow => rows[s].born # b
      BY <1>2 DEF LifeInv, Unnamed, Unsaved
    <2>2. notice'[b] = notice[b]
      BY <1>1, <1>6, <2>1
    <2>. QED  BY <1>5, <2>1, <2>2 DEF Survives
  <1>8. RowsAgree'
    <2> SUFFICES ASSUME NEW s \in Session, rows'[s] # NoRow
                 PROVE  /\ notice'[rows'[s].born].st = "none"
                        /\ leg'[rows'[s].born].s = s
                        /\ leg'[rows'[s].born].code = rows'[s].code
      BY DEF RowsAgree
    <2>1. rows[s] # NoRow /\ rows'[s].born = rows[s].born /\ rows'[s].code = rows[s].code /\ s \notin S
      BY <1>5 DEF Survives
    <2>2. \A t \in S : rows[t].born # rows[s].born
      BY <1>1, <2>1 DEF LifeInv, RowsAgree
    <2>3. notice'[rows[s].born] = notice[rows[s].born]
      BY <1>3, <1>6, <2>1, <2>2
    <2>. QED  BY <1>2, <2>1, <2>3 DEF LifeInv, RowsAgree
  <1>9. NoticesAgree'
    <2> SUFFICES ASSUME NEW b \in Leg, notice'[b].st # "none"
                 PROVE  notice'[b].s = leg[b].s /\ notice'[b].code = leg[b].code
      BY <1>2 DEF NoticesAgree
    <2>1. CASE notice'[b] = notice[b]
      BY <2>1 DEF LifeInv, NoticesAgree
    <2>2. CASE \E s \in S : /\ rows[s].born = b
                            /\ notice'[b] = [st |-> "claimed", w |-> w, s |-> s, code |-> rows[s].code]
      BY <1>1, <2>2 DEF LifeInv, RowsAgree
    <2>. QED  BY <1>4, <2>1, <2>2
  <1>. QED  BY <1>7, <1>8, <1>9 DEF LifeInv

\* A crash keeps it.
LEMMA LifeCrash ==
    ASSUME TypeInv, TypeInv', LifeInv, NEW w \in Worker, Crash(w)
    PROVE  LifeInv'
  <1>1. leg \in [Leg -> LegRecord] /\ notice \in [Leg -> NoticeRecord] /\ rows' = rows
    BY DEF TypeInv, RestOK, Crash, table
  <1>2. \A l \in Leg : /\ leg'[l].s = leg[l].s /\ leg'[l].code = leg[l].code
                       /\ leg'[l].pc = leg[l].pc \/ leg'[l].pc = "dead"
    BY <1>1 DEF Crash, LegRecord
  <1>3. \A b \in Leg : \/ notice'[b] = notice[b]
                       \/ /\ notice[b].st # "none"
                          /\ notice'[b].s = notice[b].s /\ notice'[b].code = notice[b].code
    BY <1>1 DEF Crash, Pending, NoticeRecord
  <1>4. \A s \in Session : rows[s] # NoRow => rows[s].born \in Leg
    BY RowFields DEF TypeInv, RestOK
  <1>5. Unnamed'
    BY <1>1, <1>2, <1>3 DEF LifeInv, Unnamed, Unsaved
  <1>6. RowsAgree'
    BY <1>1, <1>2, <1>3, <1>4 DEF LifeInv, RowsAgree
  <1>7. NoticesAgree'
    BY <1>2, <1>3 DEF LifeInv, NoticesAgree
  <1>. QED  BY <1>5, <1>6, <1>7 DEF LifeInv

\* The initial state satisfies it.
LEMMA LifeInit == Init => LifeInv
  BY DEF Init, LifeInv, Unnamed, RowsAgree, NoticesAgree, NoNotice

\* Every step keeps the invariant on lives.
LEMMA LifeStep == TypeInv /\ TypeInv' /\ LifeInv /\ [Next]_vars => LifeInv'
  <1> SUFFICES ASSUME TypeInv, TypeInv', LifeInv, [Next]_vars
               PROVE  LifeInv'
    OBVIOUS
  <1>1. ASSUME NEW l \in Leg, LegStep(l)
        PROVE  LifeInv'
    BY <1>1, LifeLegStep
  <1>2. ASSUME NEW b \in Leg, NoticeChange(b)
        PROVE  LifeInv'
    BY <1>2, LifeNoticeChange
  <1>3. ASSUME NEW l \in Leg, NEW w \in Worker, NEW s \in Session, NEW ev \in Wire,
               NEW c \in Code \cup {None}, Receive(l, w, s, ev, c)
        PROVE  LifeInv'
    BY <1>3, LifeReceive
  <1>4. ASSUME NEW w \in Worker, Claim(w)
        PROVE  LifeInv'
    BY <1>4, LifeClaim
  <1>5. ASSUME NEW w \in Worker, Crash(w)
        PROVE  LifeInv'
    BY <1>5, LifeCrash
  <1>6. CASE Tick
    BY <1>6, AgedSurvives, LifeByDeletion DEF Tick, KeepsLegs, Unsaved, tasks, notices
  <1>7. CASE Sweep
    BY <1>7, DeletedSurvives, LifeByDeletion DEF Sweep, KeepsLegs, Unsaved, tasks, notices
  <1>8. ASSUME NEW c \in Code, NEW st \in Status, SetStatus(c, st)
        PROVE  LifeInv'
    BY <1>8, LifeByDeletion DEF SetStatus, Survives, KeepsLegs, Unsaved, tasks, notices
  <1>9. CASE UNCHANGED vars
    BY <1>9, LifeByDeletion DEF vars, Survives, KeepsLegs, Unsaved, table, tasks, notices
  <1>. QED
    BY <1>1, <1>2, <1>3, <1>4, <1>5, <1>6, <1>7, <1>8, <1>9
    DEF Next, Environment, Gateway, LegStep, NoticeStep, NoticeChange

\* Both invariants hold in every state of every behaviour.
LEMMA Lives == Spec => [](TypeInv /\ LifeInv)
  BY TypeInit, TypeStep, LifeInit, LifeStep, PTL DEF Spec

(***************************************************************************)
(* A row that claim_expired_sessions returned is gone: no row in the table *)
(* is of a life whose handler was picked for an expiry notification, for   *)
(* any number of workers and whatever the environment does.                *)
(***************************************************************************)
THEOREM ClaimIsExclusive == Spec => []ClaimedRowIsGone
  <1>1. TypeInv /\ LifeInv => ClaimedRowIsGone
    BY DEF LifeInv, RowsAgree, ClaimedRowIsGone
  <1>. QED  BY <1>1, Lives, PTL

(***************************************************************************)
(* The handler told of an expiry is the one that the leg which opened the  *)
(* session's row was routed to: no later leg, retry or re-dial drifts it.  *)
(***************************************************************************)
THEOREM NoticeGoesToOpener == Spec => []NoticeReachesOpener
  <1>1. TypeInv /\ LifeInv => NoticeReachesOpener
    BY DEF LifeInv, RowsAgree, NoticesAgree, NoticeReachesOpener
  <1>. QED  BY <1>1, Lives, PTL
=============================================================================
