---------------------------- MODULE SessionReports ----------------------------
(***************************************************************************)
(* What the dashboard reports about the traffic: the session pages and the *)
(* billable summary (lib/reports.ts), the sessions export                  *)
(* (worker/exports_worker.mjs), and the rollups behind /summary, the       *)
(* overview and the fast count (lib/summary.ts, lib/overview.ts, db/033,   *)
(* app/scheduler.py).                                                      *)
(*                                                                         *)
(* The clock counts fractions of a second of UTC, Second of them a second. *)
(* A day is DayLength of them, the clocks in Tanzania are Eat ahead, and   *)
(* PostgreSQL's sessions run in a time zone `zone` ahead, which nothing in *)
(* the repository sets.                                                    *)
(***************************************************************************)
EXTENDS Integers, FiniteSetsExt

CONSTANTS Sessions,      \* session ids, each used once
          Shortcodes,    \* of one operator; bound: one operator
          Windows,       \* what operators.billable_window_secs may be; 0 is NULL
          Second, DayLength, Eat, Due,   \* in ticks; Due: when the daily run is due, UTC
          Pad, DetailPad,   \* SESSION_EDGE_PAD_SECS, and the drill-in's 5 minutes, in ticks
          MaxLegs, MaxClock,     \* bounds: the legs logged, the last tick
          Instants,      \* bound: the ticks at which anything happens
          Punctual,      \* whether the daily run is never missed
          NoSession, Null   \* no session; the NULL shortcode

ASSUME ReportsAssumption ==
  /\ IsFiniteSet(Sessions) /\ NoSession \notin Sessions
  /\ IsFiniteSet(Shortcodes) /\ Null \notin Shortcodes
  /\ Windows \subseteq Nat /\ Second \in Nat \ {0} /\ DayLength \in Nat \ {0}
  /\ Eat \in 0 .. DayLength - 1 /\ Due \in 0 .. DayLength - 1
  /\ Pad \in Nat /\ DetailPad \in Nat /\ MaxLegs \in Nat /\ MaxClock \in Nat /\ Punctual \in BOOLEAN
  /\ Instants \subseteq 0 .. MaxClock

\* Midnights are whole seconds.
ASSUME MidnightsAssumption == DayLength % Second = 0 /\ Eat % Second = 0

VARIABLES
  legs,     \* ussd_session_logs: session, shortcode (or Null), ts, error
  rollup,   \* daily_session_summary, by day
  mv,       \* today_session_summary_mv: its day and its rows
  window,   \* operators.billable_window_secs
  since,    \* owner_since of each shortcode that changed hands, 0 otherwise
  zone, clock

vars == <<legs, rollup, mv, window, since, zone, clock>>

-----------------------------------------------------------------------------
(* Days.                                                                   *)

UtcDay(t)   == t \div DayLength
LocalDay(t) == (t + Eat) \div DayLength
DbDay(t)    == (t + zone) \div DayLength

\* The instant a date starts at, in a time zone `ahead` of UTC.
Midnight(day, ahead) == day * DayLength - ahead

Days == 0 .. LocalDay(MaxClock)

CeilDiv(a, b) == (a + b - 1) \div b

-----------------------------------------------------------------------------
(* Billing.  A span is in ticks, and a window in seconds.                  *)

Larger(a, b) == IF a > b THEN a ELSE b

First(ls) == Min({l.ts : l \in ls})
Last(ls)  == Max({l.ts : l \in ls})
Span(ls)  == Last(ls) - First(ls)

Seconds(span) == CeilDiv(span, Second)

\* loadSessionPage's rows: rounded up to a second, then to a window; 0 is NULL.
RowUnits(span, w) == IF w = 0 THEN 0 ELSE Larger(1, CeilDiv(Seconds(span), w))

\* loadBillableSummary, where a session without a window counts as one.
SummaryUnits(span, w) == IF w = 0 THEN 1 ELSE Larger(1, CeilDiv(Seconds(span), w))

\* The export's, which divides the exact duration.
ExportUnits(span, w) == IF w = 0 THEN 0 ELSE Larger(1, CeilDiv(span, Second * w))

\* Mutant: the fraction of a second is cut off.
MutRollupUnitsTruncated(span, w) == IF w = 0 THEN 1 ELSE Larger(1, CeilDiv(span \div Second, w))

\* refresh_daily_session_summary and the view of today.
RollupUnits(span, w) == IF w = 0 THEN 1 ELSE Larger(1, CeilDiv(Seconds(span), w))

-----------------------------------------------------------------------------
(* Access.  An ACL is Everything or a set of grants.                       *)

Everything == {[sc |-> Null, from |-> 0]}
Grants     == {[sc |-> s, from |-> since[s]] : s \in Shortcodes}   \* of the owner of all

\* The floor a session carries is in whole seconds, up or down to the nearest.
FloorOf(g) == Second * ((2 * g.from + Second) \div (2 * Second))

\* aclClause at "ts" grain.
Visible(acl, l) == acl = Everything \/ \E g \in acl : g.sc = l.sc /\ l.ts >= FloorOf(g)

\* Mutant: the day of the hand-over itself.
MutCeilToLocalDateDown(t) == LocalDay(t)

\* ceilToLocalDate, and aclClause at "date" grain.
CeilToLocalDate(t) == CeilDiv(t + Eat, DayLength)

DayVisible(acl, sc, day) ==
  acl = Everything \/ \E g \in acl : g.sc = sc /\ (g.from = 0 \/ day >= CeilToLocalDate(FloorOf(g)))

-----------------------------------------------------------------------------
(* The session pages.                                                      *)

NoFilter == [sid |-> NoSession, scs |-> {}, err |-> "any"]
Filters  == [sid : Sessions \cup {NoSession}, scs : SUBSET Shortcodes, err : {"any", "ok", "error"}]

\* legConds, over the dates from .. to, widened by pad on both sides.
LegConds(f, from, to, acl, pad) == {l \in legs :
  /\ Visible(acl, l)
  /\ l.ts >= Midnight(from, zone) - pad /\ l.ts < Midnight(to + 1, zone) + pad
  /\ f.sid # NoSession => l.sid = f.sid
  /\ f.scs # {} => l.sc \in f.scs
  /\ (f.err = "ok" => ~l.error) /\ (f.err = "error" => l.error)}

SelectsSessionsByLeg(f) == f # NoFilter

\* buildSessionWhere: the filters choose sessions, all of whose legs count.
SessionLegs(f, from, to, acl) ==
  IF ~SelectsSessionsByLeg(f) THEN LegConds(f, from, to, acl, 0)
  ELSE LET chosen == {l.sid : l \in LegConds(f, from, to, acl, 0)} IN
       {l \in LegConds(NoFilter, from, to, acl, Pad) : l.sid \in chosen}

SpanOf(s, ls) == Span({l \in ls : l.sid = s})

RowOf(s, ls, n) ==
  LET own == {l \in ls : l.sid = s} IN
  [sid |-> s, first |-> First(own), last |-> Last(own), legs |-> Cardinality(own), units |-> n]

\* loadSessionPage, all pages of it.
SessionRows(f, from, to, acl) ==
  LET ls == SessionLegs(f, from, to, acl) IN
  {RowOf(s, ls, RowUnits(SpanOf(s, ls), window)) : s \in {l.sid : l \in ls}}

\* loadLegsForSession: what a row expands to.
LegsForSession(row, acl) == {l \in legs :
  /\ l.sid = row.sid /\ Visible(acl, l)
  /\ row.first - DetailPad <= l.ts /\ l.ts <= row.last + DetailPad}

\* loadReportPage, all pages of it: a row for each leg.
ReportRows(f, from, to, acl) == LegConds(f, from, to, acl, 0)

\* loadBillableSummary: the grand total.
BillableTotal(f, from, to, acl) ==
  LET ls == SessionLegs(f, from, to, acl)
      Units == [s \in {l.sid : l \in ls} |-> SummaryUnits(SpanOf(s, ls), window)] IN
  SumFunction(Units)

\* What a sessions export of the same filters lists.
ExportRows(f, from, to, acl) ==
  LET ls == LegConds(f, from, to, acl, 0) IN
  {RowOf(s, ls, ExportUnits(SpanOf(s, ls), window)) : s \in {l.sid : l \in ls}}

-----------------------------------------------------------------------------
(* The rollups: a row for each shortcode, one for legs without any.        *)

\* A session's legs on one day under one shortcode are a group; a Null group of a
\* session attributed elsewhere that day is dropped (db/033).
GroupsOf(ls) ==
  LET all == {[sid |-> l.sid, sc |-> l.sc] : l \in ls} IN
  {g \in all : g.sc # Null \/ \A h \in all : h.sid = g.sid => h.sc = Null}

\* Mutant: legs in error are counted instead of sessions.
MutRollupRowCountsLegs(sc, ls) ==
  LET groups == {g \in GroupsOf(ls) : g.sc = sc}
      Of(g) == {l \in ls : l.sid = g.sid /\ l.sc = g.sc}
      Units == [g \in groups |-> RollupUnits(Span(Of(g)), window)] IN
  [sc |-> sc, sessions |-> Cardinality(groups), legs |-> Cardinality(UNION {Of(g) : g \in groups}),
   errors |-> Cardinality({l \in UNION {Of(g) : g \in groups} : l.error}),
   units |-> SumFunction(Units)]

RollupRow(sc, ls) ==
  LET groups == {g \in GroupsOf(ls) : g.sc = sc}
      Of(g) == {l \in ls : l.sid = g.sid /\ l.sc = g.sc}
      Units == [g \in groups |-> RollupUnits(Span(Of(g)), window)]
      LegsOf == [g \in groups |-> Cardinality(Of(g))] IN
  [sc |-> sc, sessions |-> Cardinality(groups), legs |-> SumFunction(LegsOf),
   errors |-> Cardinality({g \in groups : \E l \in Of(g) : l.error}),
   units |-> SumFunction(Units)]

Summarised(ls) == {RollupRow(sc, ls) : sc \in {g.sc : g \in GroupsOf(ls)}}

\* refresh_daily_session_summary's rows for a day.
Refreshed(day) == Summarised({l \in legs : DbDay(l.ts) = day})

\* today_session_summary_mv, as a refresh makes it.
Today == [day |-> LocalDay(clock), rows |-> Summarised({l \in legs : LocalDay(l.ts) = LocalDay(clock)})]

\* loadDailySummary and loadDailyTraffic's past days, through an ACL.
DayRows(day, acl) == {r \in rollup[day] : DayVisible(acl, r.sc, day)}
\* loadDailyTraffic's today, which does not ask whether the view is of today.
TodayRows(acl) == {r \in mv.rows : DayVisible(acl, r.sc, mv.day)}

UnitsOf(rows) == SumFunction([r \in rows |-> r.units])
SessionsIn(rows) == SumFunction([r \in rows |-> r.sessions])
LegsIn(rows) == SumFunction([r \in rows |-> r.legs])

DailyTraffic(day, acl) ==
  (IF day < LocalDay(clock) THEN UnitsOf(DayRows(day, acl)) ELSE 0)
    + (IF mv.day = day THEN UnitsOf(TodayRows(acl)) ELSE 0)

\* tryRollupBoundedCount, and when it falls back to counting legs.
RollupAnswers(f, to) == f.sid = NoSession /\ f.err = "any" /\ to < UtcDay(clock)
RollupCount(f, from, to, acl) ==
  LET narrowed(r) == f.scs = {} \/ r.sc \in f.scs
      Count == [d \in from .. to |-> SessionsIn({r \in DayRows(d, acl) : narrowed(r)})] IN
  SumFunction(Count)

\* The total loadSessionPage shows above its rows.
PageTotal(f, from, to, acl) ==
  IF RollupAnswers(f, to) THEN RollupCount(f, from, to, acl)
  ELSE Cardinality({l.sid : l \in LegConds(f, from, to, acl, 0)})

-----------------------------------------------------------------------------
(* Actions.                                                                *)

\* A leg is logged: answered by a handler, in error, or a network's notice of a
\* session the gateway no longer holds, which finds no shortcode.  Bound: MaxLegs.
Log(s, sc, error) ==
  /\ Cardinality(legs) < MaxLegs
  /\ sc = Null => error
  /\ legs' = legs \cup {[sid |-> s, sc |-> sc, ts |-> clock, error |-> error]}
  /\ UNCHANGED <<rollup, mv, window, since, zone, clock>>

\* The daily run: yesterday's rows replaced, as they are now.
RefreshYesterday ==
  /\ clock % DayLength = Due
  /\ DbDay(clock) > 0
  /\ rollup' = [rollup EXCEPT ![DbDay(clock) - 1] = Refreshed(DbDay(clock) - 1)]
  /\ UNCHANGED <<legs, mv, window, since, zone, clock>>

\* The intraday run.  Bound: never on a whole second.
RefreshToday ==
  /\ clock % Second # 0
  /\ mv' = Today
  /\ UNCHANGED <<legs, rollup, window, since, zone, clock>>

\* updateOperator.  Bound: at the first midnight of UTC.
SetWindow(w) ==
  /\ clock = DayLength /\ w # window
  /\ window' = w
  /\ UNCHANGED <<legs, rollup, mv, since, zone, clock>>

\* A shortcode is handed over: trg_shortcodes_owner_since.  Bound: one.
HandOver(sc) ==
  /\ clock > 0 /\ \A s \in Shortcodes : since[s] = 0
  /\ since' = [since EXCEPT ![sc] = clock]
  /\ UNCHANGED <<legs, rollup, mv, window, zone, clock>>

\* Time passes.  Bound: it goes from instant to instant.
Tick ==
  /\ \E t \in Instants : t > clock
  /\ Punctual /\ clock % DayLength = Due /\ DbDay(clock) > 0
       => rollup[DbDay(clock) - 1] = Refreshed(DbDay(clock) - 1)
  /\ clock' = Min({t \in Instants : t > clock})
  /\ UNCHANGED <<legs, rollup, mv, window, since, zone>>

Init ==
  /\ legs = {} /\ rollup = [d \in Days |-> {}]
  /\ mv = [day |-> 0, rows |-> {}]
  /\ window \in Windows
  /\ since = [s \in Shortcodes |-> 0]
  /\ zone \in {0, Eat} /\ clock = 0

Next ==
  \/ \E s \in Sessions, sc \in Shortcodes \cup {Null}, e \in BOOLEAN : Log(s, sc, e)
  \/ RefreshYesterday \/ RefreshToday
  \/ \E w \in Windows : SetWindow(w)
  \/ \E sc \in Shortcodes : HandOver(sc)
  \/ Tick

Spec == Init /\ [][Next]_vars

-----------------------------------------------------------------------------
(* Properties.                                                             *)

Rollups == [sc : Shortcodes \cup {Null}, sessions : 0 .. Cardinality(Sessions), legs : 0 .. MaxLegs,
            errors : 0 .. Cardinality(Sessions), units : Nat]

\* Every variable holds what its table may hold; a summary row counts at least
\* one leg and one unit a session, and no more errors than sessions.
TypeOK ==
  /\ legs \subseteq [sid : Sessions, sc : Shortcodes \cup {Null}, ts : 0 .. MaxClock, error : BOOLEAN]
  /\ DOMAIN rollup = Days /\ mv.day \in Days
  /\ \A r \in mv.rows \cup UNION {rollup[d] : d \in Days} :
       /\ r \in Rollups
       /\ r.errors <= r.sessions /\ 0 < r.sessions
       /\ r.sessions <= r.legs /\ r.sessions <= r.units
  /\ window \in Windows /\ since \in [Shortcodes -> 0 .. MaxClock]
  /\ zone \in {0, Eat} /\ clock \in 0 .. MaxClock

\* What a client is billed for a day is the same wherever they read it, for the
\* shortcodes they pick, and every row can be accounted for leg by leg: rows,
\* grand total, export and, if the rollup holds the day as it is, the rollup's
\* total and units and, by then, the overview's (db/023 and db/033 bill what
\* loadBillableSummary bills; sessions that kept to one shortcode and one day).
OwnersBillsAgree == \A d \in Days, scs \in SUBSET Shortcodes :
  LET acl  == {[sc |-> s, from |-> 0] : s \in Shortcodes}
      f    == [NoFilter EXCEPT !.scs = scs]
      page == SessionRows(f, d, d, acl)
      rows == {r \in DayRows(d, acl) : scs = {} \/ r.sc \in scs}
      whole == \A l, m \in {x \in legs : x.sc # Null} :
                 l.sid = m.sid => l.sc = m.sc /\ DbDay(l.ts) = DbDay(m.ts) IN
  /\ \A r \in page : r.legs <= Cardinality(LegsForSession(r, acl))
  /\ scs = {} => ExportRows(f, d, d, acl) = page
  /\ UnitsOf(page) = IF window = 0 THEN 0 ELSE BillableTotal(f, d, d, acl)
  /\ whole => Cardinality(ReportRows(f, d, d, acl)) = LegsIn(page)
  /\ rollup[d] = Refreshed(d) /\ whole =>
       /\ RollupCount(f, d, d, acl) = Cardinality(page)
       /\ UnitsOf(rows) = BillableTotal(f, d, d, acl)
       /\ d < LocalDay(clock) /\ mv.day # d /\ scs = {} => DailyTraffic(d, acl) = BillableTotal(f, d, d, acl)
  /\ d = LocalDay(clock) /\ zone = Eat /\ mv = Today /\ whole /\ scs = {} =>
       DailyTraffic(d, acl) = BillableTotal(f, d, d, acl)

\* A leg is the owner's own, or from less than half a second before the hand-over.
Earned(l, sc) == 2 * (since[sc] - l.ts) < Second

\* No day of the rollups, on the summary or in the overview's sums, that the new
\* owner of a shortcode may read counts a leg from half a second before the
\* hand-over or earlier, in whatever zone the days are cut.  aclClause says "the
\* new owner never sees a bucket containing the previous owner's traffic"; the
\* floor a session carries is rounded to the nearest second, so that a hand-over
\* in the first half second of a local day makes that day the new owner's, with
\* the few legs that came before it.
DayBucketsWereEarned == \A sc \in Shortcodes :
  /\ \A d \in Days : (\E r \in DayRows(d, Grants) : r.sc = sc)
       => \A l \in legs : l.sc = sc /\ DbDay(l.ts) = d => Earned(l, sc)
  /\ (\E r \in TodayRows(Grants) : r.sc = sc)
       => \A l \in legs : l.sc = sc /\ LocalDay(l.ts) = mv.day => Earned(l, sc)

\* "Only ever over-report by one day, never under-report" (tryRollupBoundedCount):
\* the page's total is no smaller than the number of sessions it lists.
CountNeverUnderReports == \A from, to \in Days :
  from <= to /\ RollupAnswers(NoFilter, to)
    => PageTotal(NoFilter, from, to, Everything) >= Cardinality(SessionRows(NoFilter, from, to, Everything))
=============================================================================
