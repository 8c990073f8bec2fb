# A TLA+ model of the USSD gateway

This directory specifies the part of the repository that carries its own
logic: the FastAPI gateway (`app/`) that receives USSD legs from four Tanzanian
mobile operators, keeps a session row per subscriber session in PostgreSQL,
forwards each leg to the handler (partner application) that owns the service
code, and tells the handler when a session ends. Beside it stand the audit-log
writer of each gateway process, and the dashboard: its export worker, its
accounts and sign-in, the registry of shortcodes with its owners and viewers,
what a session of the dashboard reaches, and the reports and bills it computes
from the log.

`PROJECT.json` lists components, runs, mutants, the map from definitions to
source lines, findings, hazards and theorems in machine-readable form.

## 1. Inventory

### Gateway (Python, `app/`)

| part | state | operations | hard behaviour |
|---|---|---|---|
| Pipeline `main.py` (`_handle_ussd`, routes, background pushes) | in-flight requests, `_BACKGROUND_TASKS` | receive a leg, look the session up, upsert it, resolve the shortcode, canned END, forward, render or push, expire on END, notify a terminal event | several uvicorn workers (`Dockerfile:57`, `--workers 4`) on one table; tasks that outlive the request; state read before an `await` and used after it |
| Idle-expiry loop `main.py:536-692` | a claimed batch, a semaphore | claim and delete idle rows, notify each handler, log each | one loop per worker, claims in a thread; a crash after the delete; a failed lookup |
| Session cache `db.py:248-389`, `db/002` | table `ussd_active_sessions` | get, upsert, expire, claim | every pair of statements is an interleaving point between workers |
| Backstop sweep `db/032`, `scheduler.py:115-124` | the same table | silent delete of rows idle for an hour, in batches | must not take rows whose handlers are still to be told |
| MNO adapters `adapters/*.py` | none (they write the session cache) | parse, render, push | each operator sends other events and carries the service code on other legs |
| Forwarder `forwarder.py`, types `unified.py` | HTTP client | forward, parse reply | time-outs after which the handler may still act |
| Audit-log writer `db.py:400-686` | bounded queue, one thread, `ussd_session_logs` | `log_leg`, gather, flush, start, stop | full queue, failing flush, shutdown with a join that times out, process death |
| Settings `config.py` | environment | read, validate | limits must be ordered (idle < backlog guard) |
| Scheduler `scheduler.py` | clocks | daily: rollup, partitions, archive; intraday: view refresh, sweep | several replicas; a failing task |
| Migrations and bootstrap `db_init.py`, `seed_admin.py` | `schema_migrations` | advisory lock, apply, record | containers racing; a crash between apply and record |
| Metrics `metrics.py` | counters | — | — |

### Database (`db/*.sql`)

Weekly partitions of the session log (014, 019, 020), its archive (026), the
daily rollup and today's materialised view (015, 016, 033), the billing ceiling
(023), shortcode status and environment (007, 024), ownership periods (025),
export jobs (005, 006), reset tokens (034), e-mail identity (035).

### Dashboard (TypeScript, `dashboard/`)

| part | state | operations | hard behaviour |
|---|---|---|---|
| Export worker `worker/exports_worker.mjs`, `lib/exports.ts` | `portal_exports`, files | enqueue, claim (SKIP LOCKED), write chunks, finalize, fail, reap, retain | a reaped job that is still running, shutdown in mid-file, unlink before update |
| Accounts `lib/users.ts`, sign-in `lib/auth.ts`, `/api/auth` | `portal_users`, JWTs with `password_version` | sign in and out, create, edit, reset, change own password, impersonate | transactions of several statements at READ COMMITTED; cookies that outlive what they were minted from |
| Password reset `lib/passwordReset.ts` | `password_reset_tokens` | issue, use, expire | concurrent issues and uses, row locks taken in different orders |
| Route guard `middleware.ts`, `rbac.ts`, layout | none | pass or refuse a request | reads the cookie only; impersonation is read-only |
| Shortcodes `lib/shortcodes.ts`, operators | `shortcodes` and ownership periods (`db/025`) | create, sandbox cap, promote, edit, set status or handler | check-then-write; stale forms; sessions in flight while the status changes |
| Viewers, second half of `lib/users.ts` | grants | create under a cap, grant, edit, reset | a shortcode handed over between the check and the write |
| Reports `lib/reports.ts`, summary, overview, `lib/acl.ts` | none; read the log, `daily_session_summary` (`db/033`) and today's view (`db/016`) | pages, totals, rollup count, bills | five computations of one bill; three notions of a day; late or missed nightly runs; a hand-over in mid-day |
| Simulator `lib/simulator.ts` | none | call the handler of one's own shortcode | goes by the cookie's shortcodes |
| Audit trail, archive page, mail, UI | `portal_audit_log` | record, count, list | — |

### How the parts interact

The gateway and the scheduler share the table of active sessions; the dashboard
changes the status of shortcodes under the gateway's feet; each gateway process
owns one log writer, which it feeds without blocking; reports and exports read what
was logged. Inside the dashboard everything meets in PostgreSQL's rows and in the session
cookie: sign-in writes roles, shortcodes and the instants their ownership began
into it, the route guard, the pages, the exports and the simulator go by that copy, and
`password_version` is the one thing every request compares with the table.

### What makes them correct

* Pipeline, cache, expiry loop and sweep together: a handler that keeps state
  for a session is told of its end, once, and not after it ended the session
  itself; the notification goes to the handler the session was opened with;
  every forwarded leg carries the whole trail of inputs; a session only starts
  by being dialled; every leg and every row comes to an end.
* Audit log: no row is duplicated, reordered or lost without being accounted
  for; a failing database never ends the writer; a shutdown never hangs.
* Exports: one writer a file; a ready export has the file its row describes until
  its retention is over; every export settles, and its file is reclaimed.
* Accounts: somebody can always administer the portal; a changed password or address
  signs the user's sessions out; a used reset link, and those beside it, are dead; a change
  of one's own password proves the current one; an impersonating session writes nothing;
  the pages a user is offered open; every request is answered.
* Registry: what a user may read of a shortcode begins no earlier than their
  title to it; grants are made and withdrawn by the owner only; limits hold.
* Reach: a cookie, an export or a simulated leg shows nothing from before the user's
  time, and from after it no more than the life of the cookie accounts for.
* Reports: an owner reads the same bill everywhere; no daily figure mixes two owners,
  but for the half second that a floor in whole seconds loses.

## 2. Modules

| module | models | role |
|---|---|---|
| `SessionCache` | the table of active sessions and each statement on it | operators; one statement is one atomic step |
| `UssdGateway` (EXTENDS `SessionCache`) | pipeline, adapters' parse, expiry loop, sweep, forwarder outcomes, and the environment | the core specification and its properties |
| `MCUssdGateway` | constants for TLC | |
| `UssdGatewayProofs` | types and the exclusive claim, under every hazard | theorems |
| `GatewaySessionsProofs` (EXTENDS `UssdGatewayProofs`) | a session from its dial to its end, in gentle environments | theorems |
| `AuditLog` | what the audit log promises | abstract specification |
| `LogWriter` | queue, writer thread, lifespan | detailed specification, refines `AuditLog` |
| `LogWriterProofs` | all safety properties of `LogWriter` | theorems |
| `ExportLifecycle` | the life of an export as the dashboard and the schema document it | abstract specification |
| `ExportJobs` | `portal_exports`, the files, and the workers' loops and maintenance | detailed specification, refines `ExportLifecycle` |
| `ExportJobsProofs` | all safety properties of `ExportJobs` | theorems |
| `PortalAccess` | roles, permissions, the route guard, impersonated permissions, the navigation | operators, used by the next two |
| `PortalAccounts` (EXTENDS `PortalAccess`) | users, sessions, reset links, one request a browser, statement by statement | specification |
| `ShortcodeRegistry` (EXTENDS `PortalAccess`) | shortcodes, owners, viewers, grants and the requests that change them | specification |
| `PortalAccountsProofs`, `ShortcodeRegistryProofs` | all safety properties of the two | theorems |
| `PortalReach` | cookies, exports and the simulator over shortcodes that change hands | specification |
| `PortalReachProofs` | all safety properties of `PortalReach` | theorems |
| `SessionReports` | the session log, its rollups, the pages and the bills computed from them | specification; mostly pure operators over its state |
| `SessionReportsProofs` | all safety properties of `SessionReports` | theorems |
| `MCPortalAccounts`, `MCShortcodeRegistry`, `MCPortalReach`, `MCSessionReports` | constants and symmetry for TLC | |

### SessionCache

A row is its service code, its trail and its age. The trail is abstracted to the
number of inputs in it, since the properties only ask whether one is missing;
`last_seen_at` to an age in ticks, because every predicate compares it with
`now()`. `born`, the leg whose INSERT made the row, is a history field that
names one *life* of a session's row: an id may be inserted, claimed and
inserted again. `NoRow` stands for both "no row" and what the adapters see then.

Two relations between limits are assumptions. `IdleLimit < MaxAge` is enforced
by `SessionExpiryConfig.__post_init__`; `MaxAge <= SweepAge` is a matter of
deployment (both are 60 minutes by default), which the code does not enforce.

### UssdGateway

A leg is a record with a program counter:

| `pc` | code |
|---|---|
| `parse` | the adapter's `get_active_session` is next (`Lookup`) |
| `save` | `upsert_active_session`, `resolve_shortcode`, dispatch (`Save`) |
| `expire` | the canned END of the synchronous operators (`Expire`) |
| `end` | a terminal event: resolve, expire, acknowledge, notify (`EndSession`) |
| `await` | suspended in `forward()` |
| `reply` | the call is over: render, expire on END, log (`Answer`) |
| `push` | Halotel's push is under way (`PushDone`) |
| `done`, `dead` | finished; ended by an exception, a crash or a collection |

In `parse`, `save`, `expire` and `end` the leg holds its worker's event loop:
psycopg2 calls block, so no other task of that worker runs before the next
`await`. `loop` records it, and every action that needs a worker's loop is
guarded by `Free`. Between workers every database call interleaves. The expiry
claim runs in a thread (`asyncio.to_thread`), so `Claim` needs no loop, while the
notifications it gathers are tasks and do.

What is special to an operator is in the operators that name it: which events
arrive (`WireOf`), what code a leg carries (`CarriedCodes`: Vodacom and Halotel on
the dial only, Airtel and Tigo in every URL), whose event depends on the lookup
(Airtel; Vodacom's cancel after its cut-off), who may route without a row
(Tigo), who answers by a push (Halotel).

`notice` is the expiry notification of a claimed life: `claimed`, `sent`,
`answered`, `logged`, or `skipped` (shortcode not active), or `lost`. The
handlers are outside: `HandleMenu`, `HandleEnded` and `HandleExpired` process
what is on the wire in any order; `holds` says which handlers keep state.
`dialed`, `typed`, `told` and `ended` are history for the properties only.

**Hazards.** `env`, chosen at the start and never changed, is the set of things
that may happen in a behaviour, out of `HazardNames`: overlapping legs at one
worker (`overlap`) or over several (`spread`), legs for sessions that are over
or idle (`late`), re-dialled ids (`reuse`), handlers slower than the idle limit,
sweeps later than the backlog guard, failed handler calls, failed database
calls, status changes, crashes, and the collection of unreferenced tasks.
`Environments` is the set of such sets an instance considers. Theorems hold for
every choice; properties that need orderly surroundings say which in their
antecedent, so one run asks them of several environments at once, and nothing
is switched off that the antecedent does not name. Without `slow_handler` and
`slow_sweep`, time does not pass the idle limit while a leg is unanswered, and
not the backlog guard either: that is the timing the defaults give (handlers
are called for 5 seconds, the idle limit is 130, the loop runs every 5 and the
guard is an hour).

### LogWriter and AuditLog

Rows are numbered as offered. `phase` is the lifespan of the process, `writer`
where its thread is. `log_leg` and `close_log_writer` run on the event loop
without an `await`, so no row is offered between the sentinel and the end of the
join; the thread interleaves with both. A full queue drops the row and, at
shutdown, the sentinel as well. After an abandoned join the queue is forgotten
(`CloseEnds`): the thread's next `get` is an AttributeError (`QueueForgotten`). Then
the pool is closed (`PoolCloses`): a flush that has not begun fails, and late rows are
lost (`LogLeg` in phase `down`). `ProcessEnds` is a kill or the exit after a shutdown, and may commit the
batch that was in its INSERT.

`AuditLog` says what all this amounts to: rows are offered, the oldest pending
ones are committed or lost together, and the log stays in the order of the offers.
The refinement maps `pending` to the batch followed by the queue without its
sentinel.

### ExportJobs and ExportLifecycle

`job` is the table, one record an export: its status, the ticks since the
timestamp that the worker's SQL compares with `now()` (`started_at` of a running
export, `completed_at` of a ready one), and the rows counted. `proc` is a worker's main
loop:

| `pc` | code |
|---|---|
| `idle` | between two calls of `tick` |
| `open` | claimed and committed; `createWriteStream` is next |
| `chunk` | in the loop over the chunks |
| `close` | `sink.end()`, waiting for `sinkClosed`, then `statSync` |
| `finalize`, `fail` | about to record the outcome |

`st` is `stopping` once a signal has set `shutdown`, which only the loop over the
chunks and the main loop read. `sweep` is the retention sweep of the same
process: what its SELECT returned, and the row whose file is gone but whose UPDATE is
still to come. It interleaves with the main loop at every `await`; one maintenance tick
runs at a time, so a sweep in progress excludes the reaper of that worker.

Every attempt at an export writes the same path. A file is the set of the chunks
it holds, each at its own offset; opening empties it under whoever else is writing, and
`linked` says whether a worker's stream still leads to that path or the file has been
unlinked since. Chunks are written as they are queried: what Node buffers is
on disk before `finish`, and nothing reads a file earlier. An export has at least one chunk, the last of them
short; an empty one writes its header in the same turn. An export's rows are fixed: that OFFSET pages may shift
under a growing log is listed as a hazard and not modelled.

The hazards: `slow`, an attempt outlives the reaper's limit; `restart`, a kill at
any point; `shutdown`, a signal; `db_failure`, a statement raises, for `finalize`
also after its commit; `fs_failure`, the stream or an unlink fails. A stream error
while the loop waits for a query rejects a promise nobody awaits yet, which ends a
Node process (`StreamFails`).

`ExportLifecycle` is the documented chart: queued, running, ready or failed, expired,
and back from running to queued. `finalize`, `failJob` and the sweep's UPDATE do not look at the status
they overwrite, so the chart is followed strictly only by attempts that are punctual
and learn what they recorded; the others record an outcome late (`Late`), on any
export that was ever requested.

### PortalAccess and PortalAccounts

`PortalAccess` holds the tables: which role has which permission, which permission opens
which route (a route is the prefix `rbac.ts` tests), and which links the layout offers.
`Passes` is the middleware, which reads the cookie and no database.

A browser has one cookie and one request. `at[b].stage` names the statement the request
is about to send:

| `stage` | code |
|---|---|
| `claims`, `target` | `loadUserClaims` of a sign-in, a re-minted session, the end of an impersonation; of a user to be viewed |
| `create`, `reset` | the one statement of `createUser` and of `resetPassword` |
| `lock user`, `lock role`, `count`, `update` | `updateUser`: its `SELECT ... JOIN roles ... FOR UPDATE`, the count of the other super administrators, the UPDATE and COMMIT |
| `lock self`, `change`, `audit failure` | `changeOwnPassword` and its audit row |
| `retire`, `insert token` | `issueResetToken` |
| `lock token`, `set password`, `retire all` | `consumeResetToken` |

PostgreSQL runs at READ COMMITTED. `locked` holds row locks of transactions that last more
than a statement; a statement that needs a locked row waits (`Blockers`), what a transaction
writes becomes visible in its last step, and of two transactions that wait for each
other one is aborted (`DeadlockVictim`). A client's edit of a viewer (`updateViewerAsAdmin`, a
SELECT ... JOIN roles ... FOR UPDATE and an UPDATE) and a client's reset of its password go the way of the
administrator's (`StartViewerUpdate`, `StartViewerReset`), so that every place which changes a password or an
address meets the sessions signed in under the old one. Which viewers are the client's, and whose
address the client may change, is checked in `ShortcodeRegistry`; here it may be any viewer's. These are the only facts about PostgreSQL
the model relies on. A password and an address are the number of times they changed;
`under` in a cookie is history, the password and address it was minted under.
`LastAdminKept` is not obvious: the count in `updateUser` is not locked. It holds
because the FOR UPDATE of the join locks the role's row too, so two demotions
of super administrators follow one another; `MutRoleRowUnlocked` shows that without
it the portal can be locked out.

### ShortcodeRegistry

Requests in two slots, again one statement a step. A form is filled in when the request
starts and posted as it was, so it may be stale: `updateShortcode` writes every field
of it. `Stamped` is the trigger of `db/025`. The clock has ticks finer than the whole
seconds in which `loadUserClaims` stores a floor (`WholeSeconds` rounds half up, as
`::bigint` does), and `lost` remembers when a user was last not entitled to a
row's traffic; `VisibleLegsWereEarned` compares the two. Grants hold the rows they check
FOR SHARE, and an UPDATE of a shortcode waits for them (`Updatable`). The DELETE that precedes the new grants
(`Withdraw`) reads the owner's shortcodes and locks none, so one of them may be handed over before the
COMMIT (`Grant`), which is the exception `GrantsWithinOwnership` makes for grants taken away. Of a viewer a client changes
the active flag, the password, or the address of an account the client created (`CheckScope`, `canChangeEmail`); the last two raise
`pwv` (`Edited`). What a request may ask for is what the actions let through, not what the
page has buttons for (`Settable`: an owner may not deactivate a shortcode, but bring one back).

### PortalReach

What the cookie's copy of the shortcodes leads to during its life of `Ttl` ticks: what pages and
exports select (`Visible`), the copy an export carries to a worker that runs later, and the
handler a simulated leg calls. `held` remembers whose shortcode it was in each tick,
so `ReachIsEarned` can say whose traffic is shown: never what came before the
user's own period, and of what came after it only ticks later than the minting of the
cookie. Whole ticks make the floors exact here.

### SessionReports

The clock has `Second` ticks a second, a day is a few seconds, and three notions of a day meet: UTC
(JavaScript's `toISOString`), the local day of Tanzania (today's view, the floors of
`ceilToLocalDate`), and that of PostgreSQL's sessions, which nothing in
the repository sets: `zone` is either. `FloorOf` is a floor as the cookie has it, rounded to the nearest
second: up or down, so it may precede the hand-over by less than half a second (`Earned`). The operators are the queries: which legs a page
selects (filters select sessions, all of whose legs count), what a session's row and its
leg list hold, the totals, the export, the rollup function, today's view and what summary
and overview read from them through an ACL. The actions are what changes under them: a leg is logged, a run of
the scheduler happens or is missed, a billing window changes, a shortcode changes hands. `Instants` are the times at which anything happens; time goes from one to the next.
`OwnersBillsAgree` says which of these numbers are equal, and when.

### The definitions named `Mut...`

They are not part of any specification. Each repeats the definition below it
with one plausible mistake (a dropped guard, a missing reset, a swapped order) and
names the property that finds it; `PROJECT.json` pairs them with runs, and
replacing the one by the other makes TLC report that property violated.

## 3. Runs

| run | instance | checks |
|---|---|---|
| `GatewaySafety` | one session of each operator, 3 legs, 2 workers, 1 code; no hazard, `late`, `overlap` | `HoldersCovered`, `TrailComplete`, `OrderlyEndNotice`, `NoNoticeAfterEnd`, `StrayLegOpensNoRow` |
| `GatewayHazards` | a Halotel session, 2 legs, 2 workers, 2 codes; four sets of hazards that together name all eleven | `TypeOK`, `ClaimedRowIsGone`, `NoticeReachesOpener` |
| `GatewayProgress` | an Airtel and a Halotel session, 2 legs, 1 worker, 1 code, fairness; no hazard, and three sets of them | `LegsComplete`, `RowsDrain`, `HandlersReleased`, `ClaimsSettled` |
| `LogWriter` | queue of 3, batches of 2, 6 rows, fairness | `TypeOK`, `Accounted`, `DrainedWhenStopped`, `Implements`, `RowsSettle`, `ShutdownEnds` |
| `ExportJobs` | 2 workers, 2 exports of 2 chunks, 2 deaths or shutdowns, fairness; no hazard, `slow`, `restart` with `shutdown`, `db_failure`, `fs_failure` | `TypeOK`, `OneWriter`, `FileMatchesRow`, `FollowsLifecycle`, `JobsSettle`, `FilesReclaimed` |
| `PortalAccounts` | 3 users (2 super administrators and a client or a free row; or an administrator, a client and a viewer), 2 browsers, 2 reset links, 3 requests, fairness | `TypeOK`, `LastAdminKept`, `SessionsFollowCredentials`, `WritesAreOwn`, `NavigationOpens`, `LinksDieTogether`, `ChangeProvesCurrent`, `RequestsEnd` |
| `ShortcodeRegistry` | 2 shortcodes, 2 codes, 2 operators, 2 clients, a viewer, 2 requests at a time, 3 in all, 3 ticks to the second | `TypeOK`, `VisibleLegsWereEarned`, `GrantsWithinOwnership` |
| `PortalReach` | 2 clients, 2 shortcodes, an export, 2 hand-overs, cookies of 2 ticks, 4 ticks | `TypeOK`, `ReachIsEarned` |
| `SessionReports` | 2 sessions, 2 shortcodes, 2 legs, 3 ticks to the second, days of 2 seconds, 6 instants in 14 ticks, late and missed runs, either time zone | `TypeOK`, `OwnersBillsAgree`, `DayBucketsWereEarned` |

Three more runs expect a violation (section 4).

**Bounds.** The number of legs bounds a behaviour. Three legs are a dial, an
input that races something, and a third that meets the consequences: every
violation found while the model was written needs three legs or fewer, and so do
all mutants. With three legs over four sessions, a session of any operator gets
the whole of them in some behaviour and sessions of two operators meet in others. Two workers
are enough for every race between two statements; a third could only repeat one.
One code suffices where no property distinguishes codes; `NoticeReachesOpener`
gets two, and re-dials. Limits of 1 tick (idle, and Vodacom's cut-off of at
most as much) and 2 (guard and sweep) put an age on either side of each comparison. `Batch` and
`NotifyConcurrency` are 1, the most contended value. Age is capped at one more than
the sweep's cut-off, past which no predicate changes (`AgeCap`). Legs and
workers are interchangeable, so the runs without liveness use them as symmetry
sets.

For exports, two workers and two jobs let a job be claimed, reaped and claimed
again while another waits; two chunks put a boundary inside a file; `ReapAfter` and
`Retention` of one tick put an age on either side of each comparison, and ages are capped
past both (`AgeCap`). `RestartLimit` bounds deaths and signals together, since a
worker killed for ever finishes nothing.

For the accounts, the shortest races take two requests; the third lets a session or a link
made by the first be used after the second. `MaxFailures` is 1, so one wrong guess fills the
throttle; the versions of `TypeOK` are bounded by the requests. The initial
states include two live links of one user, which two overlapping requests for a
link leave behind (`passwordReset.ts:58`), so that using both fits in the bound.
Given roles are `super_admin` and `auditor`, which make every clause of the no-lockout
rule decide; the other roles differ in permissions only. `Casts` has clients from the start, and one cast
puts a client beside a viewer and the administrator who may edit either: the viewer's browser is its own, so its
session meets both edits.
In the registry a second is 3 ticks, so that a hand-over can fall on either side of a half, and
caps are 1. A cookie of 2 ticks in 4 can be minted before, between and after two
hand-overs. In the reports a day of 6 ticks has 2 seconds, the local day starts a second before that of UTC, and
the daily run is due two thirds of a second after it. The instants are a local midnight (3), a third of a second past it (4),
from which a floor is rounded down onto the midnight, the UTC midnight and the run after it (6, 8), and as much of the third day (14):
a leg just before such a hand-over is the case that separates `DayBucketsWereEarned` from the same claim without the half
second, which TLC refutes on this instance. Two legs suffice for every difference
between the five computations of a bill, which differ on spans and on which
legs count. Users, shortcodes, sessions, codes and slots that nothing tells apart
are symmetry sets, except in `PortalAccounts`, which checks liveness.

In the gateway's runs the system may stop when all legs are used, and in `ExportJobs`
when every export has expired or failed, in the dashboard's other runs when the bounded
requests or ticks are used up, so deadlock is not checked there; in `LogWriter` it is: a process can always end and start again.

**Fairness.** Each leg's own steps and each notice's are weakly fair (an event
loop runs every ready task), and so is each handler call, *answered or given
up*: `forward()` has a time-out, so the disjunction is fair even though a
handler owes nothing. The expiry loops, the scheduler's sweep and time go on.
Nothing is assumed of subscribers or MNOs: `Receive` has no fairness. The
writer thread is scheduled and its database calls return one way or the other;
its join has a time-out; a process that shut down exits.
An export worker's loop goes on, its maintenance is on an interval (reaper and
sweep are fair one by one, as every tick runs both), its container is restarted by the compose
file's policy, and time passes; nobody is obliged to request an export.
In `PortalAccounts` some request that can proceed does (the server and PostgreSQL keep
working); nobody has to make one. That a request *can* proceed is the content of `RequestsEnd`:
every wait for a lock ends, by a COMMIT, a ROLLBACK or as the victim of a deadlock.
`LegsComplete` counts `dead` as an end: a worker's crash ends its legs.

## 4. Where the code and its documentation disagree

Each run finds one documented statement violated by what the code does.

| run | statement | what happens |
|---|---|---|
| `FindTruncatedExport` | `dashboard/worker/exports_worker.mjs:61-62`, a shutdown marks the export in flight failed | the loop over the chunks ends, and the rows written so far are finalized as a ready export |
| `FindPromotionSlot` | `dashboard/src/lib/shortcodes.ts:436-438`, promoting a sandbox shortcode frees a slot (so `my-shortcodes/actions.ts:67` and the page say) | the sandbox row stays under the placeholder operator; promoted under another one it still counts |
| `FindNightGap` | `dashboard/src/lib/reports.ts:491-493`, the rollup count never under-reports, and there is no gap | between midnight UTC and the run at 02:00 UTC a range that ends yesterday misses yesterday, and a missed night is missed for good |

Others were met in modelling and have no run of their own.

In the gateway: an Airtel leg that looks its session up before the expiry
thread claims it puts the row back, and the session is notified twice, where
`docs/partner-integration.md:148` promises at most one notification. A shortcode
deactivated in mid-session is skipped at its end on the ground that its handler was never
called (`app/main.py:715-716`). A Tigo input without a row is forwarded by its slug and writes
no row, so inactivity never ends that session (`app/config.py:110-111`). A lookup that raises after the claim
leaves an expired session without its log row (`app/main.py:600-601`). With two workers, an input that read the row
puts it back after the END (`app/main.py:509-510`). A failed flush drops its batch,
where rows are said to wait in memory (`app/db.py:424-426`). `app/main.py:64-65` wants every
fire-and-forget task referenced, and Halotel's at lines 415, 457 and 462 are not (the hazard
`collected` lets them be lost).

In the export worker: the comment over the reaper (`exports_worker.mjs:295-304`) takes a running row past the
limit for the work of a dead worker; with `slow` it re-queues the work of a live one,
and two workers write one file, which is why `OneWriter` and `FileMatchesRow` assume
punctual attempts. The comment at lines 386-390 has every stream error awaited; one that arrives
during a query is not. Chunks are read by OFFSET, newest first (line 190), so rows logged
meanwhile make others appear twice. A sessions export with a filter counts only the legs that match it (line 198), where the
page it is made from counts all legs of the sessions selected; `OwnersBillsAgree` compares the two without filters.

In the accounts: requests for a reset link that overlap leave two live
links (`passwordReset.ts:10` says only the newest works). A sign-in compares the password
before it loads the claims (`login/route.ts:78-89`), so one that overlaps a change of
password yields a session of the new version. The limit of wrong current
passwords is passed by concurrent guesses, as far as `TypeOK` says. A change of role does not change
`password_version`: the cookie keeps its permissions until it expires.

In the registry: the viewer cap is not the serializable check `users.ts:463-465` calls it, and `setViewerGrantsAsAdmin`
does not look at it. Saving a viewer's grants re-dates those that were kept (`users.ts:538-552`), which hides
traffic they could read before. The sandbox cap can be passed by concurrent requests, and starts anew when
the lowest active operator changes. Owners are checked a statement before the quick edits write
(`shortcodes/actions.ts:254-273`), and a stale full edit hands a shortcode back. A viewer's grants survive a
hand-over of the shortcode, until the new owner withdraws them.

In the reports, the floor of a shortcode is rounded to a whole second (`::bigint`, `auth.ts:334`), and down as often as
up. One handed over in the first half second after a midnight of Tanzania gets that midnight as its
floor, which `ceilToLocalDate` leaves where it is, and the new owner reads the bucket of that day with the legs of the
former owner's last half second in it. The comment on the `grain` of `aclClause` (`acl.ts:62-66`) says the new owner never sees a bucket containing the
previous owner's traffic; `DayBucketsWereEarned` says it of legs from half a second or more before the hand-over.

In reach and reports: `exports/actions.ts:44-47` and `simulator.ts:30-33` are true of the shortcodes of the
sign-in, up to eight hours ago, not of those the requester owns; `ReachIsEarned` is what remains. A
session that crosses midnight is counted on both days by the rollup, and rows logged after the nightly run are never
counted. The overview adds today's view without asking whether it is of
today (`overview.ts:79-88`): between midnight and the next refresh a day may count twice, which is why
`OwnersBillsAgree` asks for `mv.day # d`. The summary gives past days to the present
owner when it groups by owner, and says that yesterday is complete (`summary.ts:49-58`) before the run that
completes it. The simulator cuts a reply before it parses it, which the gateway does not (`simulator.ts:154`).

`NoNoticeAfterEnd` too is documented without reservation ("none if you already
replied END", `docs/partner-integration.md:148`), and a cancel that another
worker read before the END breaks it; the project claims it for orderly networks.

The passing runs state how far each claim does hold: `HoldersCovered` (orderly
networks; late legs too, except on Tigo), `OrderlyEndNotice`, `StrayLegOpensNoRow`
(as long as one event loop takes the session's legs) and `TrailComplete`
(the same).

## 5. Proofs

`tlapm` proves the theorems below for every value of the constants, that is for
any number of sessions, legs, workers, codes, any limits that satisfy the named
assumptions and every set of hazards.

`UssdGatewayProofs`, from `ConfigAssumption`, `NoneAssumption` and
`GatewayAssumption`:

* `Typing`: `Spec => []TypeOK`. `TypeOK` is not inductive: that a saved row has a
  code depends on where the leg's code came from. `TypeInv` adds `Routed`: a
  received leg has a session, a leg that may insert a row knows its code or has
  found a row, and a leg at a handler was routed by a code. One lemma per action
  says how it moves its leg, one that such moves keep `Routed`, one that the rest
  keeps its types.
* `ClaimIsExclusive`: `Spec => []ClaimedRowIsGone`, and `NoticeGoesToOpener`:
  `Spec => []NoticeReachesOpener`, from the invariant `LifeInv` on the lives of rows: a leg that
  has not saved names no life (`Unnamed`), a row in the table has not been claimed
  and agrees with the leg that inserted it (`RowsAgree`), and a claimed life agrees
  with it too (`NoticesAgree`). `Unnamed` is what an insert needs to be sure that its life is new.
  The two theorems hold under every hazard: they are the guarantees the single
  `DELETE ... RETURNING` and the ON CONFLICT clause give by themselves.

`GatewaySessionsProofs`, from the same assumptions: `HandlersAreCovered`
(`Spec => []HoldersCovered`), `TrailsAreComplete` (`[]TrailComplete`), `EndIsToldOnce`
(`[]OrderlyEndNotice`), `EndsAreFinal` (`NoNoticeAfterEnd`) and `RowsAreDialled`
(`StrayLegOpensNoRow`). These properties are about environments in which nothing fails and legs either
overlap at one worker or come late (`Gentle`; each property's antecedent is one of its
cases), so the invariant `GentleInv` is too. Besides `Basic` (loops, wires and unreceived
legs are consistent) it says of each session:

* `Company`: one event loop has its unanswered legs, with late legs one leg at a time; no row is old
  enough for the backstop sweep.
* `InOrder`, where one loop has the session: a row in use is not idle, so no claim takes it; a leg finds
  the row the leg before it left, and the trail counts the inputs. This is what
  "blocking calls between two awaits" gives the code, and it carries
  `TrailComplete` and `StrayLegOpensNoRow`.
* `Covered`: the row carries the code by which each open leg is routed, and a handler whose answer was END
  has no state when its leg deletes the row. `HoldersCovered` alone is not inductive: it does
  not say to whom the row in use belongs.
* `ToldOnce`, in orderly networks: at most one terminal event or claim is on its way to a handler, only
  for a session without a row that nobody is dialling; after an END the row remains only while the leg
  that answered it is about to delete it.

A step touches one session. `Touches` says what a leg's step leaves alone, `Apart` what a
session needs for its invariant to be kept, and one lemma joins the two; there is then a lemma for each action
about the session it acts on (`LookupKeeps`, `SaveKeeps`, ..., `ClaimKeeps`). `Typing`'s `TypeInv` and `LifeInv`
are used throughout. Under `spread`, `reuse`, failures and crashes
these properties are not claimed: the code gives no such guarantee.

`LogWriterProofs`, from `QueueAssumption`:

* `LogTyping`, `StopDrains`, `WriterSurvives`, `RowsAccounted`: `TypeOK`,
  `DrainedWhenStopped`, `WriterServes` and `Accounted` are invariants. The inductive
  invariant `Inv` is the types, `SentinelLast` (the sentinel is only ever the last
  element of the queue, and only in the join) and `Control` (what phase,
  writer and `stopping` allow each other); `Apart` carries the disjointness of lost, logged and pending rows.
* `WriterImplementsLog`: `Spec => Log!ALSpec`, every step of the writer is a step of the
  lossy FIFO log or a stutter, under `pending <- batch \o RowsOf(queue)`.

`ExportJobsProofs`, from `ExportAssumption`, for any number of workers, exports,
chunks and restarts:

* `Typing`, `SingleWriter`, `FilesAreWhole`: `TypeOK`, `OneWriter` and
  `FileMatchesRow` are invariants. None of them is inductive. `Inv` adds `Control` (what the stages of
  the loop imply), `Known` (nobody works on an export that was not requested), `Owned`
  (a punctual attempt's row is running and too young to be reaped until it records its outcome),
  `Sweeping` (what a sweep has in hand is past its retention and will not be
  written again) and `Writing` (an open file exists, and a punctual attempt's holds
  the chunks it has written). The steps fall into four kinds, each with a lemma: a worker proceeds, records an
  outcome, leaves, or the rows change where nobody is at work.
* `LifeCycle`: `Spec => Life!ELSpec`, from the same invariant.

`PortalReachProofs`, from `ReachAssumption`, for any number of clients, shortcodes,
exports and hand-overs and any life of a session:

* `Typing` and `Reach`: `TypeOK` and `ReachIsEarned` are invariants. `ReachIsEarned`
  speaks of what a cookie or an export shows and of what the simulator calls, and
  says nothing of the table they were filled from, so it is not inductive. `Inv` follows a set of
  grants from the sign-in: `FloorsExact` (a shortcode has been its owner's since its
  floor), `CookiesBacked` and `ExportsBacked` (a grant's traffic was its client's from the floor to the mint,
  which no later hand-over can change), `RowsGranted`, and `LossesFollow` (a grant that
  no longer holds was lost after the mint, hence less than a session's life ago
  while the cookie is live).

`PortalAccountsProofs`, from `PortalAssumption`, for any users, browsers, links and requests:
`TypeCorrect` (`TypeOK`), `AnAdministratorRemains` (`LastAdminKept`), `SessionsFollow`
(`SessionsFollowCredentials`), `OwnWrites` (`WritesAreOwn`), `OfferedLinksOpen` (`NavigationOpens`),
`SpentLinksAreDead` (`LinksDieTogether`) and `ChangesProveCurrent` (`ChangeProvesCurrent`), all from one invariant:

* `RequestFits` says for every stage of a request what it has found and which rows it holds
  locked; what it found stays so because only the holder writes a locked row. For `LastAdminKept`:
  whoever is at `update` and takes an administrator away holds the role's row and has counted another
  administrator, whom nobody but a holder of the same role's row can take away.
* `LinksOK`: spent links are dead, live ones have a user. `CookieOK`: what a cookie was minted from; only
  roles that may impersonate have done so.
* `Tallies`: versions and failures counted so far, plus the requests that may still add one, stay within the
  requests made. It gives `TypeOK` its bounds; the throttle of `/account` counts before it records, and the theorem
  says by how much it can be outrun (one failure a browser).

`ShortcodeRegistryProofs`, from `RegistryAssumption`: `RegistryTypes` (`TypeOK`), `TrafficWasEarned`
(`VisibleLegsWereEarned`) and `GrantsAreOwned` (`GrantsWithinOwnership`). `HistoryOK` says that the stamp of an owner's
row and of a viewer's grant is later than the last tick at which they had no right to it, `RowsOK` that no stamp lies in the
future; the half second of `VisibleLegsWereEarned` is then arithmetic on `WholeSeconds`. `RequestFits`
says what a request may rely on between its statements: the rows checked FOR SHARE are still its
client's when the grants are written, and the rows its DELETE found were its client's then, so one that is no longer
was handed over since (`WasOwned`); that is `GrantsWithinOwnership`. `RoomLeft` (a free row for each insert
under way) and `Tallies` serve the types.

`SessionReportsProofs`, from `ReportsAssumption`, for any sessions, shortcodes, windows, number of legs, length of
the day, and any distance between the database's zone and Tanzania's up to that of Tanzania:

* `BucketsWereEarned` (`DayBucketsWereEarned`). The invariant is only that the times are ticks of the clock
  (`TimesOK`); the theorem is the arithmetic of the two roundings: the floor rounded to the nearest second is
  less than half a second before the hand-over (`FloorIsNear`), and the date it is rounded up to does not begin before the
  floor in any zone from UTC to Tanzania's (`DateBegins`). It holds for any set of instants and any
  number of ticks to the second, as long as midnights fall on whole seconds (`MidnightsAssumption`).
* `ReportTypes` (`TypeOK`) and `BillsAgree` (`OwnersBillsAgree`). The bills are functions of the log and the
  window, so the invariant adds only finiteness, the windows and what a rollup's row may hold (`RowOK`:
  at least a leg and a unit for each session, no more errors than sessions, which `RowFacts` shows of every row
  `RollupRow` makes). The rest is about sums. `SumFunction` of the community modules folds over a set in an
  order it chooses; `IterExists` shows that its recursive function exists, `SumRemove` that any element may be taken out
  first, `SumImage` and `SumByClass` that a sum may be taken over an injection's image or class by class.
  Then `Units` (with `CeilTwice`: rounding a span up to a second before dividing it into windows changes nothing,
  which is why JavaScript's and PostgreSQL's formulas agree), `LegsOfPage` (which legs a page selects), `PageBills`
  (a page's rows, its total and its export bill the same legs) and `RollupSums` (the rows of a
  rollup bill each session once when no session changed its shortcode).

The provers take no predicate as a parameter, so the library's induction theorems cannot be instantiated. The
inductions on finite sets are stated for a set instead: `SetInduction` says that a set of sets that
contains a subset of `S` whenever it contains that subset less any one element contains `S`; it rests on `Least` (every non-empty set of naturals has
a least element), and each use defines the set of the subsets for which the claim holds.

Every safety property and action property that a passing run checks is thus a theorem. Only model-checked are the liveness
properties (`LegsComplete`, `RowsDrain`, `HandlersReleased`, `ClaimsSettled`, `RowsSettle`, `ShutdownEnds`, `JobsSettle`,
`FilesReclaimed`, `RequestsEnd`): fairness and ENABLED are outside the prover. The three properties of section 4 are false, and TLC shows how.

## 6. What is not modelled

* The content of payloads, replies and log rows; wire formats and SOAP; the
  wording of canned messages; a push's retries, which end in one outcome.
* Dial-prefix routing: which shortcode a dialled string belongs to. A leg's code
  is already the result, and so is the slug of Airtel's and Tigo's URL (`CarriedCodes`): the code keeps slug and
  matched code apart (`airtel.py:94`, `:156`), no property does.
* Requests rejected by authentication or validation: they change no state.
* Configurations with the expiry loop disabled.
* Partitions and archive (`db/014`, `019`, `020`, `026`, `archive.ts`): DDL run by one scheduler. What could go wrong
  lies in PostgreSQL's locking of partitions, about which the repository says nothing a model could be faithful to.
* Migrations and bootstrap: files applied one by one under an advisory lock. Whether a file may be applied
  twice is a fact about its SQL; it is read, not checked.
* Of the dashboard: CSRF checks and rate limits by address, mail, presentation, paging and sorting, the phone-number filter,
  grouping of the summary by owner and month, the archive page and the audit page (read-only), `last_login`.
* In the reports, one operator; in the accounts, forms that change more than one thing, and addresses
  that collide (the unique index refuses them; `EmailTakenError` only for a user created twice).
* Metrics: counters without effect.

## 7. Plan

1. *(done)* `SessionCache`, `UssdGateway`, the gateway's runs, type correctness and the
   exclusive claim.
2. *(done)* `AuditLog`, `LogWriter`, the refinement and its proof.
3. *(done)* `ExportLifecycle`, `ExportJobs`, its properties and the proofs of all that are safety.
4. *(done)* `PortalAccess`, `PortalAccounts`.
5. *(done)* `ShortcodeRegistry`, `PortalReach`.
6. *(done)* `SessionReports`: pages, bills and rollups.
7. Pure operators against reference definitions: dial-prefix matching, reply coercion.
8. *(done)* Proofs of the safety properties of `PortalReach`, `PortalAccounts` and
   `ShortcodeRegistry`, of the gateway's sessions in gentle environments, and of the days of a hand-over.
9. *(done)* Proofs that the pages, the export and the rollups bill the same (`OwnersBillsAgree`).
10. To do: the refinement of further abstract specifications (one for the session cache's rows as the
    handlers use them).

The number of runs is kept small: each instance asks all the questions it can
answer, and environments are values of a variable, not separate runs.
