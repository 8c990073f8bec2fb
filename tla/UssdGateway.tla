---------------------------- MODULE UssdGateway ----------------------------
(***************************************************************************)
(* The gateway's pipeline: what app/main.py and the four MNO adapters do   *)
(* with the legs of USSD sessions, the idle-expiry loop every worker runs, *)
(* the scheduler's backstop sweep, and the handlers the legs are forwarded *)
(* to.                                                                     *)
(*                                                                         *)
(* A worker is one uvicorn process with one event loop.  Database calls    *)
(* block the loop, so a leg keeps its worker's loop from one database call *)
(* to the next and gives it up only at an await; workers interleave with   *)
(* each other at every database call.  The idle-expiry claim runs in a     *)
(* thread and interleaves with its own worker's loop as well.              *)
(*                                                                         *)
(* The environment of a behaviour is a set of hazards, chosen once and for *)
(* all: each member allows one thing the networks, the handlers, the       *)
(* operators or the machines may do.  A property that needs orderly        *)
(* surroundings says so.                                                   *)
(***************************************************************************)
EXTENDS SessionCache

CONSTANTS
    Worker,
    NotifyConcurrency,  \* expiry notifications a worker sends at once
    Environments        \* the sets of hazards considered

HazardNames ==
    {"overlap",         \* a leg arrives while another of its session is unanswered
     "spread",          \* the same, at a worker other than that leg's
     "late",            \* a leg arrives for a session already ended or idle
     "reuse",           \* a session id is dialled again
     "slow_handler",    \* a handler takes longer than the idle limit
     "slow_sweep",      \* no expiry loop runs for as long as the backlog guard
     "handler_failure", \* a handler call times out or its reply is unusable
     "db_failure",      \* a database call raises
     "status_change",   \* the dashboard changes a shortcode's status
     "crash",           \* a worker dies or is redeployed
     "collected"}       \* an unreferenced background task is collected

ASSUME GatewayAssumption ==
    /\ Environments \subseteq SUBSET HazardNames
    /\ None \notin Worker
    /\ NotifyConcurrency \in Nat \ {0}

Wire     == {"START", "INPUT", "CANCEL", "TIMEOUT", "ACK"}
Menu     == {"START", "INPUT"}
Terminal == {"CANCEL", "TIMEOUT"}

\* What an operator's MNO can send: only Vodacom and Halotel signal an end
\* of session, only Halotel acknowledges delivery.
WireOf(o) ==
    CASE o = "vodacom" -> Menu \cup Terminal
      [] o = "halotel" -> Wire
      [] OTHER         -> Menu

Status == {"absent", "active", "inactive"}

LegState == {"idle", "parse", "save", "expire", "end",   \* holding the loop
             "await", "reply", "push", "done", "dead"}
Holding  == {"parse", "save", "expire", "end"}

NoticeState == {"none", "claimed", "sent", "answered", "logged", "skipped", "lost"}

VARIABLES
    rows,       \* ussd_active_sessions
    status,     \* the status of each shortcode
    leg,        \* the request each leg id stands for, and its handling
    loop,       \* the leg holding each worker's event loop
    notice,     \* the expiry notification of each claimed row, by its life
    wire,       \* legs at a handler, not yet processed there
    nwire,      \* expiry notifications at a handler, not yet processed
    referenced, \* _BACKGROUND_TASKS
    holds,      \* handlers' own state: <<session, code>> they keep state for
    dialed,     \* history: the code last dialled on a session id
    typed,      \* history: inputs the subscriber typed since
    told,       \* history: end notifications the handler processed since
    ended,      \* history: sessions whose handler answered END since
    env         \* the hazards of this behaviour

table   == <<rows, status>>
tasks   == <<leg, loop, referenced>>
notices == <<notice, nwire>>
context == <<dialed, typed, told, ended, env>>
vars    == <<table, tasks, notices, wire, holds, context>>

Blank == [pc |-> "idle", w |-> None, s |-> None, ev |-> "START", code |-> None,
          n |-> 0, trail |-> 0, prior |-> NoRow, reply |-> "none"]

NoNotice == [st |-> "none", w |-> None, s |-> None, code |-> None]

Op(l) == OpOf[leg[l].s]

\* resolve_shortcode: a leg without a service code resolves to nothing.
Resolved(c) == IF c = None THEN "absent" ELSE status[c]

\* As the MNO sees it, a leg is unanswered until its reply is rendered or
\* pushed; an ended session is closed by the push of its END.
Unanswered(s) ==
    {l \in Leg :
        /\ leg[l].s = s
        /\ \/ leg[l].pc \in Holding
           \/ leg[l].pc \in {"await", "reply"} /\ leg[l].ev \in Menu
           \/ leg[l].pc = "push" /\ leg[l].reply = "END"}

\* Tasks running apart from any request: Halotel's forwards and pushes, and
\* the notifications of terminal events.
Background(l) ==
    /\ leg[l].pc \in {"await", "reply", "push"}
    /\ Op(l) = "halotel" \/ leg[l].ev \in Terminal

\* Database calls that are awaited instead (StrayLegOpensNoRow).
MutFreeAlways(w) == loop[w] \in Leg \cup {None}

\* Database calls block the event loop: while a leg holds it, the worker
\* neither accepts a leg nor resumes a task.
Free(w) == loop[w] = None

-----------------------------------------------------------------------------
(* Requests arriving. *)

MayArrive(w, s, ev) ==
    /\ ev \in WireOf(OpOf[s])
    /\ \A l \in Unanswered(s) : (IF leg[l].w = w THEN "overlap" ELSE "spread") \in env
    /\ IF ev = "START"
       THEN "reuse" \in env \/ dialed[s] = None
       ELSE /\ dialed[s] # None
            /\ "late" \in env \/ (rows[s] # NoRow /\ rows[s].age <= IdleOf(s))

\* The code a leg carries on the wire: Vodacom and Halotel send it on the
\* dial only, Airtel and Tigo have a partner slug in every URL.
CarriedCodes(s, ev) ==
    IF ev = "START" THEN Code
    ELSE IF OpOf[s] \in {"airtel", "tigo"} THEN {dialed[s]} ELSE {None}

(***************************************************************************)
(* A worker whose loop is free accepts a leg and starts to parse it.  Only *)
(* Airtel looks the session up on a dial; the others go straight to the    *)
(* upsert.                                                                 *)
(***************************************************************************)
Receive(l, w, s, ev, c) ==
    /\ leg[l].pc = "idle"
    /\ Free(w)
    /\ MayArrive(w, s, ev)
    /\ c \in CarriedCodes(s, ev)
    /\ loop' = [loop EXCEPT ![w] = l]
    /\ typed' = [typed EXCEPT ![s] = CASE ev = "START" -> 0
                                       [] ev = "INPUT" -> @ + 1
                                       [] OTHER        -> @]
    /\ leg' = [leg EXCEPT ![l] =
                 [Blank EXCEPT !.pc = IF ev = "START" /\ OpOf[s] # "airtel"
                                      THEN "save" ELSE "parse",
                               !.w = w, !.s = s, !.ev = ev, !.code = c,
                               !.n = typed'[s]]]
    /\ IF ev = "START"
       THEN /\ dialed' = [dialed EXCEPT ![s] = c]
            /\ told'   = [told EXCEPT ![s] = 0]
            /\ ended'  = ended \ {s}
       ELSE UNCHANGED <<dialed, told, ended>>
    /\ UNCHANGED <<table, notices, referenced, wire, holds, env>>

(***************************************************************************)
(* get_active_session, and what the adapter concludes from it.  Airtel's   *)
(* event is the outcome of the lookup.  Vodacom relabels a cancel of a     *)
(* session idle for its own cut-off.  A delivery acknowledgement is logged *)
(* and nothing else.                                                       *)
(***************************************************************************)
Lookup(l) ==
    LET me == leg[l]
        r  == rows[me.s]
        ev == CASE Op(l) = "airtel" ->
                       IF r = NoRow THEN "START" ELSE "INPUT"
                [] Op(l) = "vodacom" /\ me.ev = "CANCEL" /\ r # NoRow ->
                       IF r.age >= ProviderCutoff THEN "TIMEOUT" ELSE "CANCEL"
                [] OTHER -> me.ev
    IN  /\ me.pc = "parse"
        /\ CASE ev \in Menu ->
                    /\ leg' = [leg EXCEPT ![l].pc = "save", ![l].ev = ev, ![l].prior = r]
                    /\ UNCHANGED loop
             [] ev \in Terminal ->
                    /\ leg' = [leg EXCEPT ![l].pc = "end", ![l].ev = ev, ![l].code = r.code]
                    /\ UNCHANGED loop
             [] OTHER ->
                    /\ leg' = [leg EXCEPT ![l].pc = "done"]
                    /\ loop' = [loop EXCEPT ![me.w] = None]
        /\ UNCHANGED <<table, notices, referenced, wire, holds, context>>

\* The service code and the trail a menu leg goes on with.  With no row,
\* only Tigo can still route an input, by its slug; Airtel never gets here.
CodeAfter(l) ==
    IF leg[l].ev = "START" \/ (Op(l) = "tigo" /\ leg[l].prior = NoRow)
    THEN leg[l].code ELSE leg[l].prior.code

TrailAfter(l) == IF leg[l].ev = "START" THEN 0 ELSE leg[l].prior.trail + 1

\* An input that opens a row when it finds none (TypeOK).
MutWritesAlways(l) == leg[l].ev \in Menu

\* An input that found no row does not write one.
Writes(l) == leg[l].ev = "START" \/ leg[l].prior # NoRow

RowsSaved(l) ==
    IF Writes(l)
    THEN [rows EXCEPT ![leg[l].s] = Upserted(@, CodeAfter(l), TrailAfter(l), l)]
    ELSE rows

\* The dispatch: forward, or the canned END of a code that is not configured
\* or not active, on the response for the synchronous operators and by a push
\* for Halotel.
Dispatch(l) ==
    IF Resolved(CodeAfter(l)) = "active" THEN "await"
    ELSE IF Op(l) = "halotel" THEN "push" ELSE "expire"

(***************************************************************************)
(* upsert_active_session, resolve_shortcode and the dispatch.  The lookup  *)
(* of the shortcode is a transaction of its own, but it reads nothing the  *)
(* upsert writes: whatever comes between them commutes with one of the     *)
(* two.                                                                    *)
(***************************************************************************)
Save(l) ==
    LET forwarded == Dispatch(l) = "await"
    IN  /\ leg[l].pc = "save"
        /\ rows' = RowsSaved(l)
        /\ leg' = [leg EXCEPT ![l].pc = Dispatch(l), ![l].code = CodeAfter(l),
                              ![l].trail = TrailAfter(l), ![l].prior = NoRow,
                              ![l].reply = IF forwarded THEN "none" ELSE "END"]
        /\ wire' = IF forwarded THEN wire \cup {l} ELSE wire
        /\ loop' = IF Dispatch(l) = "expire" THEN loop ELSE [loop EXCEPT ![leg[l].w] = None]
        /\ UNCHANGED <<status, notices, referenced, holds, context>>

\* The canned END of the synchronous operators: expire_active_session, log.
Expire(l) ==
    /\ leg[l].pc = "expire"
    /\ rows' = Deleted(rows, {leg[l].s})
    /\ leg' = [leg EXCEPT ![l].pc = "done"]
    /\ loop' = [loop EXCEPT ![leg[l].w] = None]
    /\ UNCHANGED <<status, notices, referenced, wire, holds, context>>

\* A terminal event that leaves the row to the expiry loop
\* (OrderlyEndNotice).
MutEndSessionKeepsRow(l) ==
    LET notify == Resolved(leg[l].code) = "active"
    IN  /\ leg[l].pc = "end"
        /\ leg' = [leg EXCEPT ![l].pc = IF notify THEN "await" ELSE "done"]
        /\ wire' = IF notify THEN wire \cup {l} ELSE wire
        /\ referenced' = IF notify THEN referenced \cup {l} ELSE referenced
        /\ loop' = [loop EXCEPT ![leg[l].w] = None]
        /\ UNCHANGED <<table, notices, holds, context>>

\* The shortcode resolved from the row after the row is deleted
\* (HoldersCovered).
MutEndSessionExpiresFirst(l) ==
    /\ leg[l].pc = "end"
    /\ rows' = Deleted(rows, {leg[l].s})
    /\ leg' = [leg EXCEPT ![l].pc = "done"]
    /\ loop' = [loop EXCEPT ![leg[l].w] = None]
    /\ UNCHANGED <<status, notices, wire, referenced, holds, context>>

(***************************************************************************)
(* A terminal event: resolve, expire_active_session, acknowledge, and a    *)
(* referenced background task to notify the handler, unless there is none  *)
(* or the shortcode is not active (_terminal_notify_skip_reason).          *)
(***************************************************************************)
EndSession(l) ==
    LET notify == Resolved(leg[l].code) = "active"
    IN  /\ leg[l].pc = "end"
        /\ rows' = Deleted(rows, {leg[l].s})
        /\ leg' = [leg EXCEPT ![l].pc = IF notify THEN "await" ELSE "done"]
        /\ wire' = IF notify THEN wire \cup {l} ELSE wire
        /\ referenced' = IF notify THEN referenced \cup {l} ELSE referenced
        /\ loop' = [loop EXCEPT ![leg[l].w] = None]
        /\ UNCHANGED <<status, notices, holds, context>>

\* An END rendered without expiring the session (NoNoticeAfterEnd).
MutAnswerKeepsRow(l) ==
    LET me   == leg[l]
        over == me.ev \in Menu /\ me.reply # "CON"
        push == me.ev \in Menu /\ Op(l) = "halotel"
    IN  /\ me.pc = "reply"
        /\ Free(me.w)
        /\ leg' = [leg EXCEPT ![l].pc = IF push THEN "push" ELSE "done",
                              ![l].reply = IF over THEN "END" ELSE @]
        /\ referenced' = referenced \ {l}
        /\ UNCHANGED <<table, loop, notices, wire, holds, context>>

(***************************************************************************)
(* The task awaiting forward() resumes: a terminal notification only logs; *)
(* a synchronous leg renders the reply and expires the session on END, the *)
(* substitute for a failed call included; a Halotel leg pushes the reply   *)
(* out.                                                                    *)
(***************************************************************************)
Answer(l) ==
    LET me   == leg[l]
        over == me.ev \in Menu /\ me.reply # "CON"
        push == me.ev \in Menu /\ Op(l) = "halotel"
    IN  /\ me.pc = "reply"
        /\ Free(me.w)
        /\ leg' = [leg EXCEPT ![l].pc = IF push THEN "push" ELSE "done",
                              ![l].reply = IF over THEN "END" ELSE @]
        /\ rows' = IF over /\ ~push THEN Deleted(rows, {me.s}) ELSE rows
        /\ referenced' = referenced \ {l}
        /\ UNCHANGED <<status, loop, notices, wire, holds, context>>

\* push_outbound returned, whatever it returned: expire on END, log.  An
\* error of the delete is caught.
PushDone(l) ==
    /\ leg[l].pc = "push"
    /\ Free(leg[l].w)
    /\ \/ rows' = IF leg[l].reply = "END" THEN Deleted(rows, {leg[l].s}) ELSE rows
       \/ "db_failure" \in env /\ rows' = rows
    /\ leg' = [leg EXCEPT ![l].pc = "done"]
    /\ UNCHANGED <<status, loop, referenced, notices, wire, holds, context>>

\* A database call made for a request raises: the MNO gets an error, and
\* what the leg would have done next is not done.  The call that raises in
\* Save may be the lookup of the shortcode, the upsert then being committed.
RequestRaises(l) ==
    /\ "db_failure" \in env
    /\ \/ leg[l].pc \in Holding
       \/ /\ leg[l].pc = "reply" /\ leg[l].reply # "CON" /\ leg[l].ev \in Menu
          /\ Op(l) # "halotel"
          /\ Free(leg[l].w)
    /\ IF leg[l].pc = "save"
       THEN /\ rows' \in {rows, RowsSaved(l)}
            /\ leg' = [leg EXCEPT ![l].pc = "dead", ![l].code = CodeAfter(l)]
       ELSE /\ leg' = [leg EXCEPT ![l].pc = "dead"]
            /\ UNCHANGED rows
    /\ loop' = [loop EXCEPT ![leg[l].w] = None]
    /\ UNCHANGED <<status, notices, referenced, wire, holds, context>>

-----------------------------------------------------------------------------
(* The idle-expiry loop of a worker. *)

Pending(w) == {b \in Leg : notice[b].w = w /\ notice[b].st \in {"claimed", "sent", "answered"}}

\* The expiry notices of a batch of claimed sessions.
NoticesOf(w, S) ==
    [b \in Leg |->
        IF \E s \in S : rows[s].born = b
        THEN LET s == CHOOSE s \in S : rows[s].born = b
             IN  [st |-> "claimed", w |-> w, s |-> s, code |-> rows[s].code]
        ELSE notice[b]]

\* A SELECT that leaves the delete for after the notification
\* (ClaimedRowIsGone).
MutClaimKeepsRows(w) ==
    /\ Pending(w) = {}
    /\ \E S \in Victims(rows) : notice' = NoticesOf(w, S)
    /\ UNCHANGED <<table, tasks, nwire, wire, holds, context>>

\* One tick: claim a batch, deleting its rows.  The tick before must have
\* finished its own batch.
Claim(w) ==
    /\ Pending(w) = {}
    /\ \E S \in Victims(rows) :
         /\ rows' = Deleted(rows, S)
         /\ notice' = NoticesOf(w, S)
    /\ UNCHANGED <<status, tasks, nwire, wire, holds, context>>

\* A semaphore slot that is not given back (ClaimsSettled).
MutSendingLeaks(w) == {b \in Leg : notice[b].w = w /\ notice[b].st \in {"sent", "answered", "logged"}}

\* The notifications that hold a slot of the semaphore.
Sending(w) == {b \in Pending(w) : notice[b].st \in {"sent", "answered"}}

\* _notify_session_expired up to the call: resolve, then forward or log why
\* not.
Notify(b) ==
    LET me == notice[b]
    IN  /\ me.st = "claimed"
        /\ Free(me.w)
        /\ Cardinality(Sending(me.w)) < NotifyConcurrency
        /\ IF Resolved(me.code) = "active"
           THEN /\ notice' = [notice EXCEPT ![b].st = "sent"]
                /\ nwire' = nwire \cup {b}
           ELSE /\ notice' = [notice EXCEPT ![b].st = "skipped"]
                /\ UNCHANGED nwire
        /\ UNCHANGED <<table, tasks, wire, holds, context>>

\* The lookup of the shortcode raises: nothing is sent and nothing logged.
NotifyRaises(b) ==
    /\ "db_failure" \in env
    /\ notice[b].st = "claimed"
    /\ notice' = [notice EXCEPT ![b].st = "lost"]
    /\ UNCHANGED <<table, tasks, nwire, wire, holds, context>>

\* The handler answered or failed: the row of the expired session is logged.
NotifyLogged(b) ==
    /\ notice[b].st = "answered"
    /\ Free(notice[b].w)
    /\ notice' = [notice EXCEPT ![b].st = "logged"]
    /\ UNCHANGED <<table, tasks, nwire, wire, holds, context>>

-----------------------------------------------------------------------------
(* The handlers, outside the gateway. *)

\* The reply reaches the task that waits for it, if one still does, unless
\* it is lost or unusable on the way.
Replied(l, r) ==
    \/ leg' = IF leg[l].pc = "await"
              THEN [leg EXCEPT ![l].pc = "reply", ![l].reply = r] ELSE leg
    \/ "handler_failure" \in env /\ leg' = leg

\* A handler processes a menu leg: CON keeps state for the session, END
\* drops it.
HandleMenu(l, r) ==
    LET key == <<leg[l].s, leg[l].code>>
    IN  /\ l \in wire
        /\ leg[l].ev \in Menu
        /\ wire' = wire \ {l}
        /\ holds' = IF r = "CON" THEN holds \cup {key} ELSE holds \ {key}
        /\ ended' = IF r = "END" THEN ended \cup {leg[l].s} ELSE ended
        /\ Replied(l, r)
        /\ UNCHANGED <<table, notices, loop, referenced, dialed, typed, told, env>>

\* A handler processes the notification of a terminal event.
HandleEnded(l) ==
    /\ l \in wire
    /\ leg[l].ev \in Terminal
    /\ wire' = wire \ {l}
    /\ holds' = holds \ {<<leg[l].s, leg[l].code>>}
    /\ told' = [told EXCEPT ![leg[l].s] = @ + 1]
    /\ Replied(l, "none")
    /\ UNCHANGED <<table, notices, loop, referenced, dialed, typed, ended, env>>

\* A handler processes an expiry notification.
HandleExpired(b) ==
    /\ b \in nwire
    /\ nwire' = nwire \ {b}
    /\ holds' = holds \ {<<notice[b].s, notice[b].code>>}
    /\ told' = [told EXCEPT ![notice[b].s] = @ + 1]
    /\ \/ notice' = IF notice[b].st = "sent"
                    THEN [notice EXCEPT ![b].st = "answered"] ELSE notice
       \/ "handler_failure" \in env /\ notice' = notice
    /\ UNCHANGED <<table, tasks, wire, dialed, typed, ended, env>>

\* No read timeout: only a connection that fails is given up (LegsComplete).
MutCallFailsToConnect(l) ==
    /\ "handler_failure" \in env
    /\ leg[l].pc = "await" /\ l \in wire
    /\ leg' = [leg EXCEPT ![l].pc = "reply", ![l].reply = "none"]
    /\ UNCHANGED <<table, notices, loop, referenced, wire, holds, context>>

\* forward() gives up: a timeout or a transport error.  The handler may
\* still process the request later, or never.
CallFails(l) ==
    /\ "handler_failure" \in env
    /\ leg[l].pc = "await"
    /\ leg' = [leg EXCEPT ![l].pc = "reply", ![l].reply = "none"]
    /\ UNCHANGED <<table, notices, loop, referenced, wire, holds, context>>

NoticeFails(b) ==
    /\ "handler_failure" \in env
    /\ notice[b].st = "sent"
    /\ notice' = [notice EXCEPT ![b].st = "answered"]
    /\ UNCHANGED <<table, tasks, nwire, wire, holds, context>>

-----------------------------------------------------------------------------
(* Time, the scheduler, the dashboard and the machines. *)

\* The limits on ageing are the timing the deployment relies on: a handler
\* call is over (5 seconds by default) long before the idle limit, and an
\* expiry loop runs well within the backlog guard.
Tick ==
    /\ Aged(rows) # rows
    /\ \A s \in Session : rows[s] # NoRow =>
         /\ "slow_handler" \in env \/ Unanswered(s) = {} \/ rows[s].age < IdleOf(s)
         /\ "slow_sweep" \in env \/ rows[s].age < MaxAge
    /\ rows' = Aged(rows)
    /\ UNCHANGED <<status, tasks, notices, wire, holds, context>>

\* One batch of sweep_active_sessions.
Sweep ==
    /\ \E S \in SUBSET Sweepable(rows) : S # {} /\ rows' = Deleted(rows, S)
    /\ UNCHANGED <<status, tasks, notices, wire, holds, context>>

\* The dashboard creates a shortcode, or changes the status of one.
SetStatus(c, st) ==
    /\ "status_change" \in env
    /\ st # status[c]
    /\ st \in {"active", "inactive"}
    /\ status' = [status EXCEPT ![c] = st]
    /\ UNCHANGED <<rows, tasks, notices, wire, holds, context>>

\* A worker dies, or is stopped by a deploy, and is started again: the
\* tasks on its loop and the batch its expiry loop had claimed are gone.
Crash(w) ==
    LET alive == {"idle", "done", "dead"}
    IN  /\ "crash" \in env
        /\ Pending(w) # {} \/ \E l \in Leg : leg[l].w = w /\ leg[l].pc \notin alive
        /\ leg' = [l \in Leg |-> IF leg[l].w = w /\ leg[l].pc \notin alive
                                 THEN [leg[l] EXCEPT !.pc = "dead"] ELSE leg[l]]
        /\ notice' = [b \in Leg |-> IF b \in Pending(w)
                                    THEN [notice[b] EXCEPT !.st = "lost"] ELSE notice[b]]
        /\ referenced' = {l \in referenced : leg[l].w # w}
        /\ loop' = [loop EXCEPT ![w] = None]
        /\ UNCHANGED <<table, nwire, wire, holds, context>>

\* The event loop keeps weak references only: a suspended background task
\* that nothing else refers to may be collected.
Collect(l) ==
    /\ "collected" \in env
    /\ Background(l) /\ leg[l].pc # "reply"
    /\ l \notin referenced
    /\ leg' = [leg EXCEPT ![l].pc = "dead"]
    /\ UNCHANGED <<table, notices, loop, referenced, wire, holds, context>>

-----------------------------------------------------------------------------
Init ==
    /\ env \in Environments
    /\ rows = [s \in Session |-> NoRow]
    /\ status \in [Code -> Status]
    /\ leg = [l \in Leg |-> Blank]
    /\ loop = [w \in Worker |-> None]
    /\ notice = [b \in Leg |-> NoNotice]
    /\ wire = {} /\ nwire = {} /\ referenced = {} /\ holds = {} /\ ended = {}
    /\ dialed = [s \in Session |-> None]
    /\ typed = [s \in Session |-> 0]
    /\ told = [s \in Session |-> 0]

\* A leg runs by itself once it has been received.
Step(l) == Lookup(l) \/ Save(l) \/ Expire(l) \/ EndSession(l) \/ Answer(l) \/ PushDone(l)

\* So does the notification of a claimed session.
NoticeStep(b) == Notify(b) \/ NotifyLogged(b)

Handled(l) == (\E r \in {"CON", "END"} : HandleMenu(l, r)) \/ HandleEnded(l)

Environment ==
    \/ \E l \in Leg, w \in Worker, s \in Session, ev \in Wire, c \in Code \cup {None} :
          Receive(l, w, s, ev, c)
    \/ \E l \in Leg : Handled(l) \/ HandleExpired(l)
    \/ \E l \in Leg : CallFails(l) \/ NoticeFails(l) \/ Collect(l)
    \/ \E l \in Leg : RequestRaises(l) \/ NotifyRaises(l)
    \/ \E c \in Code, st \in Status : SetStatus(c, st)
    \/ \E w \in Worker : Crash(w)
    \/ Tick

Gateway ==
    \/ \E l \in Leg : Step(l) \/ NoticeStep(l)
    \/ \E w \in Worker : Claim(w)
    \/ Sweep

Next == Environment \/ Gateway

Spec == Init /\ [][Next]_vars

(***************************************************************************)
(* Fairness: an event loop runs every task that is ready; every handler    *)
(* call ends, answered or given up, because forward() has a timeout; time  *)
(* passes; the expiry loops and the scheduler keep running.  MNOs and      *)
(* subscribers owe the gateway nothing.                                    *)
(***************************************************************************)
Fairness ==
    /\ \A l \in Leg : /\ WF_vars(Step(l))
                      /\ WF_vars(NoticeStep(l))
                      /\ WF_vars(Handled(l) \/ CallFails(l))
                      /\ WF_vars(HandleExpired(l) \/ NoticeFails(l))
    /\ \A w \in Worker : WF_vars(Claim(w))
    /\ WF_vars(Tick) /\ WF_vars(Sweep)

FairSpec == Spec /\ Fairness
-----------------------------------------------------------------------------
(* Properties. *)

\* Every variable has the type of the state it stands for.
TypeOK ==
    /\ rows \in [Session -> Row \cup {NoRow}]
    /\ status \in [Code -> Status]
    /\ leg \in [Leg -> [pc : LegState, w : Worker \cup {None}, s : Session \cup {None},
                        ev : Wire, code : Code \cup {None}, n : Nat, trail : Nat,
                        prior : Row \cup {NoRow}, reply : {"none", "CON", "END"}]]
    /\ loop \in [Worker -> Leg \cup {None}]
    /\ notice \in [Leg -> [st : NoticeState, w : Worker \cup {None},
                           s : Session \cup {None}, code : Code \cup {None}]]
    /\ wire \subseteq Leg /\ nwire \subseteq Leg /\ referenced \subseteq Leg
    /\ holds \subseteq Session \X Code
    /\ dialed \in [Session -> Code \cup {None}]
    /\ typed \in [Session -> Nat] /\ told \in [Session -> Nat]
    /\ ended \subseteq Session
    /\ env \in Environments

(***************************************************************************)
(* claim_expired_sessions deletes what it returns: whoever was picked for  *)
(* an expiry notification has no row any more, and the row that a racing   *)
(* leg may have put in its place is another life.                          *)
(***************************************************************************)
ClaimedRowIsGone ==
    \A s \in Session : rows[s] # NoRow => notice[rows[s].born].st = "none"

(***************************************************************************)
(* The service code of a row is nailed down when it is inserted: whatever  *)
(* legs come later, with whatever code, the handler that is told of the    *)
(* expiry is the one the inserting leg was routed to.                      *)
(***************************************************************************)
NoticeReachesOpener ==
    /\ \A s \in Session : rows[s] # NoRow => rows[s].code = leg[rows[s].born].code
    /\ \A b \in Leg : notice[b].st # "none" => /\ notice[b].s = leg[b].s
                                               /\ notice[b].code = leg[b].code

(***************************************************************************)
(* What the expiry loop and the terminal events exist for: a handler that  *)
(* keeps state for a session will hear of its end, because the session     *)
(* still has a row under that code for the expiry loop to find, or the     *)
(* notification of it is on its way.                                       *)
(***************************************************************************)
OnItsWay(s, c) ==
    \/ \E l \in wire : leg[l].ev \in Terminal /\ leg[l].s = s /\ leg[l].code = c
    \/ \E b \in Leg : /\ notice[b].s = s /\ notice[b].code = c
                      /\ notice[b].st = "claimed" \/ b \in nwire

WillBeTold(s, c) == <<s, c>> \in holds => \/ rows[s] # NoRow /\ rows[s].code = c
                                          \/ OnItsWay(s, c)

Orderly == env = {}

\* Every handler that keeps state will hear of the end, with orderly networks;
\* late legs, for sessions ended or idle when they arrive, do not change that but
\* on Tigo, where an input that finds no row is forwarded without writing one.
HoldersCovered ==
    \A s \in Session, c \in Code :
        Orderly \/ (env = {"late"} /\ OpOf[s] # "tigo") => WillBeTold(s, c)

(***************************************************************************)
(* accumulate_ussd_string and the row give every leg that is forwarded the *)
(* whole trail: all inputs typed since the dial, its own included.  Legs   *)
(* of one session may even overlap, as long as one event loop takes them.  *)
(***************************************************************************)
TrailComplete ==
    env \subseteq {"overlap"} =>
        \A l \in wire : leg[l].ev \in Menu => leg[l].trail = leg[l].n

\* With orderly networks, a handler is told at most once that a session is over:
\* terminal events, claims and replies never notify of the same session twice.
\* (docs/partner-integration.md has no reservation; Airtel's late legs are one.)
OrderlyEndNotice == Orderly => \A s \in Session : told[s] <= 1

\* With orderly networks, a handler that answered END is not told that the
\* session is over: the row is gone before anything can pick it up.
NoNoticeAfterEnd ==
    [][Orderly => \A s \in Session : told'[s] > told[s] => s \notin ended]_vars

OpensByDial ==
    \A s \in Session : rows[s] = NoRow /\ rows'[s] # NoRow =>
        leg[rows'[s].born].ev = "START"

\* expire_active_session on END keeps a stray leg from reusing the row: a
\* session only gets a row by being dialled, as long as one event loop takes the
\* session's legs, overlapping or not, because no other leg comes between a
\* lookup and its upsert.
StrayLegOpensNoRow == [][env \subseteq {"overlap"} => OpensByDial]_vars

\* Every leg accepted by a worker is seen to its end, whatever the handlers,
\* the networks and the machines do.
LegsComplete == \A l \in Leg : leg[l].pc # "idle" ~> leg[l].pc \in {"done", "dead"}

\* No row outlives its session for ever: it is ended, claimed or swept,
\* whatever the handlers, the networks and the machines do.
RowsDrain == \A s \in Session : rows[s] # NoRow ~> rows[s] = NoRow

\* With orderly networks, a handler that keeps state for a session is rid of
\* it eventually.
HandlersReleased ==
    \A s \in Session, c \in Code :
        Orderly /\ <<s, c>> \in holds ~> <<s, c>> \notin holds

\* Every claimed session is notified or skipped, and logged, unless the worker
\* dies or the lookup of the shortcode fails.
ClaimsSettled ==
    \A b \in Leg :
        env \cap {"crash", "db_failure"} = {} /\ notice[b].st = "claimed"
            ~> notice[b].st \in {"logged", "skipped"}
=============================================================================
