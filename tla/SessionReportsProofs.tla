------------------------- MODULE SessionReportsProofs -------------------------
(***************************************************************************)
(* Theorems about SessionReports, for any sessions, shortcodes and billing *)
(* windows, any number of legs, any length of the day, any time zone ahead *)
(* of UTC by at most the clocks in Tanzania that the model has the         *)
(* database in, and however late the daily run is.                         *)
(*                                                                         *)
(* First the days of a hand-over, which need no more than the types of the *)
(* times.  Then what the pages add up: sums of functions over finite sets, *)
(* equal whatever the order they are added in, and so the same when they   *)
(* run over the sessions of a page and over the rows of a rollup.          *)
(***************************************************************************)
EXTENDS SessionReports, FiniteSetTheorems, WellFoundedInduction, TLAPS

\* The constants, as the arithmetic below needs them.
LEMMA Constants ==
  /\ DayLength \in Nat /\ DayLength >= 1 /\ Eat \in Nat /\ MaxClock \in Nat
  /\ Second \in Nat /\ Second >= 1
  BY ReportsAssumption

\* A set of naturals has a least element.
LEMMA Least ==
  ASSUME NEW B \in SUBSET Nat, B # {}
  PROVE  \E n \in B : \A m \in B : n <= m
<1>1. IsWellFoundedOn(OpToRel(<, Nat), Nat)
  BY NatLessThanWellFounded
<1>2. PICK x \in B : \A y \in B : ~(<<y, x>> \in OpToRel(<, Nat))
  BY <1>1, WFMin
<1>3. \A y \in B : ~(y < x)
  BY <1>2 DEF OpToRel
<1> QED
  BY <1>3

\* Min and Max of ticks are what their names say.
LEMMA Extremes ==
  ASSUME NEW T, T \subseteq 0 .. MaxClock, T # {}
  PROVE  /\ Min(T) \in T /\ \A t \in T : Min(T) <= t
         /\ Max(T) \in T /\ \A t \in T : t <= Max(T)
<1>1. \E x \in T : \A y \in T : x <= y
  <2>1. PICK B \in SUBSET Nat : B = T
    BY Constants
  <2> QED
    BY <2>1, Least
<1>2. \E x \in T : \A y \in T : x >= y
  <2> DEFINE B == {n \in Nat : \E t \in T : n = MaxClock - t}
  <2>1. B # {}
    <3>1. PICK t \in T : TRUE
      OBVIOUS
    <3>2. t \in Nat /\ t <= MaxClock
      BY Constants
    <3>3. MaxClock - t \in Nat
      BY <3>2, Constants
    <3> QED
      BY <3>3
  <2>2. PICK n \in B : \A m \in B : n <= m
    BY <2>1, Least
  <2>3. PICK x \in T : n = MaxClock - x
    BY <2>2
  <2>4. ASSUME NEW y \in T PROVE x >= y
    <3>1. MaxClock - y \in B
      BY Constants
    <3>2. MaxClock - x <= MaxClock - y
      BY <2>2, <2>3, <3>1
    <3> QED
      BY <3>2, Constants
  <2> QED
    BY <2>4
<1> QED
  BY <1>1, <1>2 DEF Min, Max

\* The instant after the present is one of the ticks.
LEMMA NextInstant ==
  ASSUME clock \in Nat, \E t \in Instants : t > clock
  PROVE  Min({t \in Instants : t > clock}) \in 0 .. MaxClock
<1> DEFINE T == {t \in Instants : t > clock}
<1>1. T \subseteq 0 .. MaxClock /\ T # {}
  BY ReportsAssumption
<1> HIDE DEF T
<1>2. Min(T) \in T
  BY <1>1, Extremes
<1>3. Min(T) \in 0 .. MaxClock
  BY <1>1, <1>2
<1> QED
  BY <1>3 DEF T

\* What the days of a hand-over rest on: times are ticks of the clock, and
\* PostgreSQL's midnight comes no earlier than the one in Tanzania.
TimesOK ==
  /\ legs \subseteq [sid : Sessions, sc : Shortcodes \cup {Null}, ts : 0 .. MaxClock, error : BOOLEAN]
  /\ since \in [Shortcodes -> 0 .. MaxClock]
  /\ zone \in {0, Eat} /\ clock \in 0 .. MaxClock

LEMMA TimesInit == Init => TimesOK
  BY Constants DEF Init, TimesOK

LEMMA TimesStep == TimesOK /\ [Next]_vars => TimesOK'
<1> SUFFICES ASSUME TimesOK, [Next]_vars PROVE TimesOK'
  OBVIOUS
<1>1. ASSUME NEW s \in Sessions, NEW sc \in Shortcodes \cup {Null}, NEW e \in BOOLEAN, Log(s, sc, e)
      PROVE  TimesOK'
  BY <1>1 DEF Log, TimesOK
<1>2. ASSUME NEW sc \in Shortcodes, HandOver(sc) PROVE TimesOK'
  BY <1>2 DEF HandOver, TimesOK
<1>3. CASE Tick
  <2>1. clock \in Nat /\ \E t \in Instants : t > clock
    BY <1>3, Constants DEF Tick, TimesOK
  <2>2. clock' \in 0 .. MaxClock
    BY <1>3, <2>1, NextInstant DEF Tick
  <2> QED
    BY <1>3, <2>2 DEF Tick, TimesOK
<1>4. CASE RefreshYesterday \/ RefreshToday \/ UNCHANGED vars
  BY <1>4 DEF RefreshYesterday, RefreshToday, vars, TimesOK
<1>5. ASSUME NEW w \in Windows, SetWindow(w) PROVE TimesOK'
  BY <1>5 DEF SetWindow, TimesOK
<1> QED
  BY <1>1, <1>2, <1>3, <1>4, <1>5 DEF Next

LEMMA TimesInvariance == Spec => []TimesOK
  BY TimesInit, TimesStep, PTL DEF Spec

\* Division with remainder, the only way the solver is given \div.
LEMMA Quotient ==
  ASSUME NEW m \in Nat, NEW k \in Nat, k >= 1
  PROVE  /\ m \div k \in Nat /\ k * (m \div k) <= m /\ m < k * (m \div k) + k
  OBVIOUS

\* The date a floor is rounded up to begins, in any zone up to Tanzania's, no
\* earlier than the floor.
LEMMA DateBegins ==
  ASSUME NEW floor \in Nat, NEW day \in Int, day >= CeilToLocalDate(floor),
         NEW ahead \in 0 .. Eat, NEW t \in Nat, (t + ahead) \div DayLength = day
  PROVE  t >= floor
<1>1. PICK m \in Nat : m = floor + Eat + DayLength - 1
  BY Constants
<1>2. PICK q \in Nat : q = m \div DayLength /\ m < DayLength * q + DayLength
  BY <1>1, Constants, Quotient
<1>3. CeilToLocalDate(floor) = q
  BY <1>1, <1>2 DEF CeilToLocalDate, CeilDiv
<1>4. PICK n \in Nat : n = t + ahead
  OBVIOUS
<1>5. day \in Nat /\ DayLength * day <= n
  BY <1>4, Constants, Quotient
<1>6. DayLength * q <= DayLength * day
  BY <1>3, <1>5, Constants
<1>7. PICK x \in Int, y \in Int : x = DayLength * q /\ y = DayLength * day
  BY <1>5, Constants
<1> QED
  BY <1>1, <1>2, <1>4, <1>5, <1>6, <1>7, Constants

\* A floor is rounded to the nearest second: it lies less than half a second
\* before the hand-over, or after it.
LEMMA FloorIsNear ==
  ASSUME NEW g, g.from \in Nat
  PROVE  /\ FloorOf(g) \in Nat /\ 2 * (g.from - FloorOf(g)) < Second
         /\ g.from = 0 => FloorOf(g) = 0
<1>1. PICK m \in Nat, k \in Nat : m = 2 * g.from + Second /\ k = 2 * Second /\ k >= 1
  BY Constants
<1>2. PICK q \in Nat : q = m \div k /\ k * q <= m /\ m < k * q + k
  BY <1>1, Quotient
<1>3. PICK p \in Int : p = Second * q
  BY Constants
<1>4. k * q = 2 * p
  BY <1>1, <1>3, Constants
<1>5. FloorOf(g) = p
  BY <1>1, <1>2, <1>3 DEF FloorOf
<1>6. p \in Nat /\ (q >= 1 => p >= Second) /\ (q = 0 => p = 0)
  BY <1>3, Constants
<1>7. 2 * p <= 2 * g.from + Second /\ 2 * g.from + Second < 2 * p + 2 * Second
  BY <1>1, <1>2, <1>4
<1>8. PICK n \in Nat : n = g.from
  OBVIOUS
<1>9. 2 * (n - p) < Second /\ (n = 0 => p = 0)
  BY <1>6, <1>7, <1>8, Constants
<1> QED
  BY <1>5, <1>6, <1>8, <1>9

\* No day that the owner of a shortcode may read has a leg from before the
\* owner, but for the half second of the rounding.
LEMMA VisibleDays ==
  ASSUME TimesOK, NEW sc \in Shortcodes, NEW day \in Int, DayVisible(Grants, sc, day),
         NEW l \in legs, NEW ahead \in 0 .. Eat, (l.ts + ahead) \div DayLength = day
  PROVE  Earned(l, sc)
<1>1. l.ts \in Nat /\ since[sc] \in Nat
  BY Constants DEF TimesOK
<1>2. CASE since[sc] = 0
  BY <1>1, <1>2, Constants DEF Earned
<1>3. CASE since[sc] # 0
  <2>1. Grants # Everything
    <3>1. [sc |-> sc, from |-> since[sc]] \in Grants
      BY DEF Grants
    <3>2. [sc |-> sc, from |-> since[sc]] # [sc |-> Null, from |-> 0]
      BY <1>3
    <3> QED
      BY <3>1, <3>2 DEF Everything
  <2>2. PICK g \in Grants : g.sc = sc /\ (g.from = 0 \/ day >= CeilToLocalDate(FloorOf(g)))
    BY <2>1 DEF DayVisible
  <2>3. g.from = since[sc]
    BY <2>2 DEF Grants
  <2>4. FloorOf(g) \in Nat /\ 2 * (since[sc] - FloorOf(g)) < Second
    BY <1>1, <2>3, FloorIsNear
  <2>5. l.ts >= FloorOf(g)
    BY <1>1, <1>3, <2>2, <2>3, <2>4, DateBegins
  <2> QED
    BY <1>1, <2>4, <2>5, Constants DEF Earned
<1> QED
  BY <1>2, <1>3

\* No day of the rollups, on the summary or in the overview's sums, that the new
\* owner of a shortcode may read counts a leg from half a second before the
\* hand-over or earlier, in either zone the days may be cut in, whenever the
\* runs refreshed them (aclClause, buildClaims, refresh_daily_session_summary).
THEOREM BucketsWereEarned == Spec => []DayBucketsWereEarned
<1>1. TimesOK => DayBucketsWereEarned
  <2> SUFFICES ASSUME TimesOK, NEW sc \in Shortcodes
               PROVE  /\ \A d \in Days : (\E r \in DayRows(d, Grants) : r.sc = sc)
                           => \A l \in legs : l.sc = sc /\ DbDay(l.ts) = d => Earned(l, sc)
                      /\ (\E r \in TodayRows(Grants) : r.sc = sc)
                           => \A l \in legs : l.sc = sc /\ LocalDay(l.ts) = mv.day => Earned(l, sc)
    BY DEF DayBucketsWereEarned
  <2>1. zone \in 0 .. Eat /\ Eat \in 0 .. Eat
    BY Constants DEF TimesOK
  <2>2. ASSUME NEW d \in Days, NEW r \in DayRows(d, Grants), r.sc = sc, NEW l \in legs, DbDay(l.ts) = d
        PROVE  Earned(l, sc)
    <3>1. d \in Int /\ DayVisible(Grants, sc, d)
      BY <2>2 DEF Days, DayRows
    <3> QED
      BY <2>1, <2>2, <3>1, VisibleDays DEF DbDay
  <2>3. ASSUME NEW r \in TodayRows(Grants), r.sc = sc, NEW l \in legs, LocalDay(l.ts) = mv.day
        PROVE  Earned(l, sc)
    <3>1. l.ts \in Nat
      BY Constants DEF TimesOK
    <3>2. PICK m \in Nat : m = l.ts + Eat
      BY <3>1, Constants
    <3>3. m \div DayLength \in Nat
      BY Constants, Quotient
    <3>4. mv.day \in Int /\ DayVisible(Grants, sc, mv.day)
      BY <2>3, <3>2, <3>3 DEF TodayRows, LocalDay
    <3> QED
      BY <2>1, <2>3, <3>4, VisibleDays DEF LocalDay
  <2> QED
    BY <2>2, <2>3
<1> QED
  BY <1>1, TimesInvariance, PTL
-----------------------------------------------------------------------------
(* Sums.  What SumFunctionOnSet adds up is fixed by induction over the     *)
(* finite sets, stated for a set of sets: the provers take no predicate as *)
(* a parameter.                                                            *)

Sum(f, S) == SumFunctionOnSet(f, S)

Pick(s) == CHOOSE x \in s : TRUE
Body(f, it, s) == IF s = {} THEN 0 ELSE f[Pick(s)] + it[s \ {Pick(s)}]

\* What the removal of an element does to the size of a set.
LEMMA Subsets ==
  ASSUME NEW S, IsFiniteSet(S)
  PROVE  \A s \in SUBSET S : /\ IsFiniteSet(s) /\ Cardinality(s) \in Nat
                             /\ Cardinality(s) <= Cardinality(S)
                             /\ Cardinality(s) = 0 <=> s = {}
                             /\ \A x \in s : s \ {x} \in SUBSET S /\ Cardinality(s \ {x}) = Cardinality(s) - 1
<1>1. \A s \in SUBSET S : IsFiniteSet(s) /\ Cardinality(s) \in Nat /\ Cardinality(s) <= Cardinality(S)
  BY FS_Subset, FS_CardinalityType
<1>2. \A s \in SUBSET S : Cardinality(s) = 0 <=> s = {}
  BY <1>1, FS_EmptySet
<1>3. ASSUME NEW s \in SUBSET S, NEW x \in s
      PROVE  s \ {x} \in SUBSET S /\ Cardinality(s \ {x}) = Cardinality(s) - 1
  BY <1>1, FS_RemoveElement
<1> QED
  BY <1>1, <1>2, <1>3

\* Induction over the subsets of a finite set.
LEMMA SetInduction ==
  ASSUME NEW S, IsFiniteSet(S), NEW G,
         \A s \in SUBSET S : (\A x \in s : s \ {x} \in G) => s \in G
  PROVE  S \in G
<1> DEFINE B == {s \in SUBSET S : s \notin G}
           N == {n \in Nat : \E s \in B : n = Cardinality(s)}
<1> SUFFICES ASSUME S \notin G PROVE FALSE
  OBVIOUS
<1>1. Cardinality(S) \in N
  BY Subsets
<1>2. PICK n \in N : \A m \in N : n <= m
  BY <1>1, Least
<1>3. PICK s \in B : n = Cardinality(s)
  OBVIOUS
<1>4. ASSUME NEW x \in s PROVE s \ {x} \in G
  <2>1. s \ {x} \in SUBSET S /\ Cardinality(s \ {x}) = n - 1 /\ Cardinality(s \ {x}) \in Nat
    BY <1>3, Subsets
  <2>2. s \ {x} \in B => n <= n - 1
    BY <1>2, <2>1
  <2> QED
    BY <2>1, <2>2
<1> QED
  BY <1>3, <1>4

\* The recursive function under a fold exists.
LEMMA IterExists ==
  ASSUME NEW S, IsFiniteSet(S), NEW f
  PROVE  \E it : it = [s \in SUBSET S |-> Body(f, it, s)]
<1> DEFINE Small(n) == {s \in SUBSET S : Cardinality(s) <= n}
           Good(n) == \E it : it = [s \in Small(n) |-> Body(f, it, s)]
           Bad == {n \in Nat : ~Good(n)}
<1>1. Good(0)
  <2>1. \A s \in Small(0) : s = {}
    BY Subsets
  <2>2. [s \in Small(0) |-> 0] = [s \in Small(0) |-> Body(f, [r \in Small(0) |-> 0], s)]
    BY <2>1 DEF Body
  <2> QED
    BY <2>2
<1>2. ASSUME NEW n \in Nat, Good(n) PROVE Good(n + 1)
  <2>1. PICK it : it = [s \in Small(n) |-> Body(f, it, s)]
    BY <1>2
  <2> DEFINE next == [s \in Small(n + 1) |-> Body(f, it, s)]
  <2>2. Small(n) \subseteq Small(n + 1)
    BY Subsets
  <2>3. \A s \in Small(n) : next[s] = it[s]
    BY <2>1, <2>2
  <2>4. ASSUME NEW s \in Small(n + 1), s # {} PROVE s \ {Pick(s)} \in Small(n)
    <3>1. Pick(s) \in s
      BY <2>4 DEF Pick
    <3>2. /\ s \in SUBSET S /\ s \ {Pick(s)} \in SUBSET S
          /\ Cardinality(s \ {Pick(s)}) = Cardinality(s) - 1 /\ Cardinality(s) \in Nat
      BY <3>1, Subsets
    <3> QED
      BY <3>2
  <2>5. \A s \in Small(n + 1) : Body(f, it, s) = Body(f, next, s)
    BY <2>3, <2>4 DEF Body
  <2>6. next = [s \in Small(n + 1) |-> Body(f, next, s)]
    BY <2>5
  <2> QED
    BY <2>6
<1>3. \A n \in Nat : Good(n)
  <2> HIDE DEF Good
  <2> SUFFICES ASSUME Bad # {} PROVE FALSE
    OBVIOUS
  <2>1. PICK n \in Bad : \A m \in Bad : n <= m
    BY Least
  <2>2. n - 1 \in Nat /\ ~(n <= n - 1)
    BY <1>1
  <2>3. Good(n - 1)
    BY <2>1, <2>2
  <2>4. Good((n - 1) + 1)
    BY <1>2, <2>2, <2>3
  <2>5. (n - 1) + 1 = n
    BY <2>2
  <2> QED
    BY <2>4, <2>5
<1>4. Small(Cardinality(S)) = SUBSET S /\ Cardinality(S) \in Nat
  BY Subsets
<1> QED
  BY <1>3, <1>4

\* A sum is the value of that function.
LEMMA SumIter ==
  ASSUME NEW S, IsFiniteSet(S), NEW f
  PROVE  \E it : it = [s \in SUBSET S |-> Body(f, it, s)] /\ Sum(f, S) = it[S]
<1> DEFINE it == CHOOSE it : it = [s \in SUBSET S |-> Body(f, it, s)]
<1>1. it = [s \in SUBSET S |-> Body(f, it, s)]
  BY IterExists
<1>2. Sum(f, S) = it[S]
  BY DEF Sum, SumFunctionOnSet, FoldFunctionOnSet, MapThenFoldSet, Body, Pick
<1> QED
  BY <1>1, <1>2

\* One step of a fold.
LEMMA SumStep ==
  ASSUME NEW S, IsFiniteSet(S), NEW f
  PROVE  Sum(f, S) = IF S = {} THEN 0 ELSE f[Pick(S)] + Sum(f, S \ {Pick(S)})
<1> DEFINE T == S \ {Pick(S)}
<1>1. PICK it : it = [s \in SUBSET S |-> Body(f, it, s)] /\ Sum(f, S) = it[S]
  BY SumIter
<1>2. IsFiniteSet(T) /\ T \in SUBSET S
  BY FS_Subset
<1>3. PICK jt : jt = [s \in SUBSET T |-> Body(f, jt, s)] /\ Sum(f, T) = jt[T]
  BY <1>2, SumIter
<1>4. it[T] = jt[T]
  <2> HIDE DEF T
  <2> DEFINE G == {s \in SUBSET T : it[s] = jt[s]}
  <2>1. ASSUME NEW s \in SUBSET T, \A x \in s : s \ {x} \in G PROVE s \in G
    <3>1. s # {} => Pick(s) \in s
      BY DEF Pick
    <3>2. s # {} => it[s \ {Pick(s)}] = jt[s \ {Pick(s)}]
      BY <2>1, <3>1
    <3>3. s \in SUBSET S
      BY <1>2
    <3>4. it[s] = Body(f, it, s)
      BY <1>1, <3>3
    <3>5. jt[s] = Body(f, jt, s)
      BY <1>3, <2>1
    <3>6. it[s] = jt[s]
      BY <3>2, <3>4, <3>5 DEF Body
    <3> QED
      BY <2>1, <3>6
  <2> HIDE DEF G
  <2>2. T \in G
    BY <1>2, <2>1, SetInduction
  <2> QED
    BY <2>2 DEF G
<1>5. it[S] = IF S = {} THEN 0 ELSE f[Pick(S)] + it[T]
  <2>1. S \in SUBSET S
    OBVIOUS
  <2>2. it[S] = Body(f, it, S)
    BY <1>1, <2>1
  <2> QED
    BY <2>2 DEF Body
<1>6. it[T] = Sum(f, T)
  BY <1>3, <1>4
<1> HIDE DEF T
<1>7. Sum(f, S) = IF S = {} THEN 0 ELSE f[Pick(S)] + Sum(f, T)
  BY <1>1, <1>5, <1>6
<1> QED
  BY <1>7 DEF T

\* Sums of integers are integers.
LEMMA SumInt ==
  ASSUME NEW S, IsFiniteSet(S), NEW f, \A x \in S : f[x] \in Int
  PROVE  \A T \in SUBSET S : Sum(f, T) \in Int
<1> SUFFICES ASSUME NEW R \in SUBSET S PROVE Sum(f, R) \in Int
  OBVIOUS
<1> DEFINE G == {T \in SUBSET R : Sum(f, T) \in Int}
<1>1. ASSUME NEW T \in SUBSET R, \A x \in T : T \ {x} \in G PROVE T \in G
  <2>1. Sum(f, T) = IF T = {} THEN 0 ELSE f[Pick(T)] + Sum(f, T \ {Pick(T)})
    BY FS_Subset, SumStep
  <2>2. T # {} => Pick(T) \in T
    BY DEF Pick
  <2> QED
    BY <1>1, <2>1, <2>2
<1> HIDE DEF G
<1>2. IsFiniteSet(R)
  BY FS_Subset
<1>3. R \in G
  BY <1>1, <1>2, SetInduction
<1> QED
  BY <1>3 DEF G

\* A sum does not depend on the order in which its elements are picked.
LEMMA SumRemove ==
  ASSUME NEW S, IsFiniteSet(S), NEW f, \A x \in S : f[x] \in Int
  PROVE  /\ Sum(f, S) \in Int /\ (S = {} => Sum(f, S) = 0)
         /\ \A x \in S : Sum(f, S \ {x}) \in Int /\ Sum(f, S) = f[x] + Sum(f, S \ {x})
<1> DEFINE G == {T \in SUBSET S : \A x \in T : Sum(f, T) = f[x] + Sum(f, T \ {x})}
<1>1. ASSUME NEW T \in SUBSET S, \A x \in T : T \ {x} \in G PROVE T \in G
  <2> SUFFICES ASSUME NEW x \in T PROVE Sum(f, T) = f[x] + Sum(f, T \ {x})
    OBVIOUS
  <2>1. PICK p \in T : p = Pick(T)
    BY DEF Pick
  <2>2. Sum(f, T) = f[p] + Sum(f, T \ {p})
    BY <2>1, FS_Subset, SumStep
  <2>3. CASE x # p
    <3>1. (T \ {p}) \ {x} = (T \ {x}) \ {p} /\ x \in T \ {p} /\ p \in T \ {x}
      BY <2>3
    <3>2. Sum(f, T \ {p}) = f[x] + Sum(f, (T \ {x}) \ {p})
      BY <1>1, <3>1
    <3>3. Sum(f, T \ {x}) = f[p] + Sum(f, (T \ {x}) \ {p})
      BY <1>1, <3>1
    <3>4. Sum(f, (T \ {x}) \ {p}) \in Int /\ f[x] \in Int /\ f[p] \in Int
      BY SumInt
    <3> QED
      BY <2>2, <3>2, <3>3, <3>4
  <2> QED
    BY <2>2, <2>3
<1> HIDE DEF G
<1>2. S \in G
  BY <1>1, SetInduction
<1>3. Sum(f, S) \in Int /\ \A x \in S : Sum(f, S \ {x}) \in Int
  BY SumInt
<1>4. S = {} => Sum(f, S) = 0
  BY SumStep
<1> QED
  BY <1>2, <1>3, <1>4 DEF G

\* A sum of no smaller terms is no smaller.
LEMMA SumMonotone ==
  ASSUME NEW S, IsFiniteSet(S), NEW f, NEW g,
         \A x \in S : f[x] \in Int /\ g[x] \in Int /\ f[x] <= g[x]
  PROVE  Sum(f, S) <= Sum(g, S)
<1> DEFINE G == {T \in SUBSET S : Sum(f, T) <= Sum(g, T)}
<1>1. ASSUME NEW T \in SUBSET S, \A x \in T : T \ {x} \in G PROVE T \in G
  <2>1. IsFiniteSet(T)
    BY FS_Subset
  <2>2. CASE T = {}
    BY <2>1, <2>2, SumRemove
  <2>3. ASSUME NEW x \in T PROVE Sum(f, T) <= Sum(g, T)
    <3>1. Sum(f, T) = f[x] + Sum(f, T \ {x}) /\ Sum(f, T \ {x}) \in Int
      BY <2>1, SumRemove
    <3>2. Sum(g, T) = g[x] + Sum(g, T \ {x}) /\ Sum(g, T \ {x}) \in Int
      BY <2>1, SumRemove
    <3>3. Sum(f, T \ {x}) <= Sum(g, T \ {x}) /\ f[x] \in Int /\ g[x] \in Int /\ f[x] <= g[x]
      BY <1>1
    <3> QED
      BY <3>1, <3>2, <3>3
  <2> QED
    BY <2>2, <2>3
<1> HIDE DEF G
<1>2. S \in G
  BY <1>1, SetInduction
<1> QED
  BY <1>2 DEF G

\* A sum depends on the terms alone.
LEMMA SumEqual ==
  ASSUME NEW S, IsFiniteSet(S), NEW f, NEW g, \A x \in S : f[x] \in Int /\ g[x] = f[x]
  PROVE  Sum(f, S) = Sum(g, S)
<1>1. Sum(f, S) <= Sum(g, S) /\ Sum(g, S) <= Sum(f, S)
  BY SumMonotone
<1>2. Sum(f, S) \in Int /\ Sum(g, S) \in Int
  BY SumInt
<1> QED
  BY <1>1, <1>2

\* Nothing adds up to nothing.
LEMMA SumZeros ==
  ASSUME NEW S, IsFiniteSet(S), NEW f, \A x \in S : f[x] = 0
  PROVE  Sum(f, S) = 0
<1> DEFINE G == {T \in SUBSET S : Sum(f, T) = 0}
<1>1. ASSUME NEW T \in SUBSET S, \A x \in T : T \ {x} \in G PROVE T \in G
  <2>1. IsFiniteSet(T) /\ \A x \in T : f[x] \in Int
    BY FS_Subset
  <2>2. CASE T = {}
    BY <2>1, <2>2, SumRemove
  <2>3. ASSUME NEW x \in T PROVE Sum(f, T) = 0
    <3>1. Sum(f, T) = f[x] + Sum(f, T \ {x})
      BY <2>1, SumRemove
    <3> QED
      BY <1>1, <3>1
  <2> QED
    BY <2>2, <2>3
<1> HIDE DEF G
<1>2. S \in G
  BY <1>1, SetInduction
<1> QED
  BY <1>2 DEF G

\* Counting is adding up ones.
LEMMA SumOnes ==
  ASSUME NEW S, IsFiniteSet(S), NEW f, \A x \in S : f[x] = 1
  PROVE  Sum(f, S) = Cardinality(S)
<1> DEFINE G == {T \in SUBSET S : Sum(f, T) = Cardinality(T)}
<1>1. ASSUME NEW T \in SUBSET S, \A x \in T : T \ {x} \in G PROVE T \in G
  <2>1. IsFiniteSet(T) /\ \A x \in T : f[x] \in Int
    BY FS_Subset
  <2>2. CASE T = {}
    BY <2>1, <2>2, SumRemove, FS_EmptySet
  <2>3. ASSUME NEW x \in T PROVE Sum(f, T) = Cardinality(T)
    <3>1. Sum(f, T) = f[x] + Sum(f, T \ {x})
      BY <2>1, SumRemove
    <3>2. Cardinality(T \ {x}) = Cardinality(T) - 1 /\ Cardinality(T) \in Nat
      BY Subsets
    <3> QED
      BY <1>1, <3>1, <3>2
  <2> QED
    BY <2>2, <2>3
<1> HIDE DEF G
<1>2. S \in G
  BY <1>1, SetInduction
<1> QED
  BY <1>2 DEF G

\* The sum over the image of an injection.
LEMMA SumImage ==
  ASSUME NEW S, IsFiniteSet(S), NEW f, NEW g, NEW h,
         \A x \in S : g[x] \in Int /\ f[h[x]] = g[x],
         \A x, y \in S : h[x] = h[y] => x = y
  PROVE  IsFiniteSet({h[x] : x \in S}) /\ Sum(f, {h[x] : x \in S}) = Sum(g, S)
<1> DEFINE Image(T) == {h[x] : x \in T}
           G == {T \in SUBSET S : IsFiniteSet(Image(T)) /\ Sum(f, Image(T)) = Sum(g, T)}
<1>1. ASSUME NEW T \in SUBSET S, \A x \in T : T \ {x} \in G PROVE T \in G
  <2>1. IsFiniteSet(T)
    BY FS_Subset
  <2>2. CASE T = {}
    <3>1. Image(T) = {} /\ IsFiniteSet({})
      BY <2>2, FS_EmptySet
    <3>2. Sum(f, {}) = 0 /\ Sum(g, {}) = 0
      BY <3>1, SumStep
    <3> QED
      BY <2>2, <3>1, <3>2
  <2>3. ASSUME NEW x \in T PROVE IsFiniteSet(Image(T)) /\ Sum(f, Image(T)) = Sum(g, T)
    <3>1. IsFiniteSet(Image(T \ {x})) /\ Sum(f, Image(T \ {x})) = Sum(g, T \ {x})
      BY <1>1
    <3>2. Image(T) = Image(T \ {x}) \cup {h[x]} /\ Image(T) \ {h[x]} = Image(T \ {x})
      OBVIOUS
    <3>3. IsFiniteSet(Image(T))
      <4>1. PICK I : I = Image(T \ {x})
        OBVIOUS
      <4>2. IsFiniteSet(I \cup {h[x]})
        BY <3>1, <4>1, FS_AddElement
      <4> QED
        BY <3>2, <4>1, <4>2
    <3>4. \A i \in Image(T) : f[i] \in Int
      OBVIOUS
    <3>5. Sum(f, Image(T)) = f[h[x]] + Sum(f, Image(T) \ {h[x]})
      BY <3>2, <3>3, <3>4, SumRemove
    <3>6. Sum(g, T) = g[x] + Sum(g, T \ {x})
      BY <2>1, SumRemove
    <3> QED
      BY <3>1, <3>2, <3>3, <3>5, <3>6
  <2> QED
    BY <2>2, <2>3
<1> HIDE DEF G
<1>2. S \in G
  BY <1>1, SetInduction
<1> QED
  BY <1>2 DEF G

\* A sum taken class by class.
LEMMA SumByClass ==
  ASSUME NEW S, IsFiniteSet(S), NEW C, IsFiniteSet(C), NEW u, NEW h,
         \A x \in S : u[x] \in Int /\ h[x] \in C
  PROVE  Sum(u, S) = Sum([c \in C |-> Sum(u, {x \in S : h[x] = c})], C)
<1> DEFINE Of(T, c) == {x \in T : h[x] = c}
           Classes(T) == [c \in C |-> Sum(u, Of(T, c))]
           G == {T \in SUBSET S : Sum(u, T) = Sum(Classes(T), C)}
<1>0. ASSUME NEW T \in SUBSET S
      PROVE  IsFiniteSet(T) /\ \A c \in C : IsFiniteSet(Of(T, c)) /\ Classes(T)[c] \in Int
  BY FS_Subset, SumInt
<1>1. ASSUME NEW T \in SUBSET S, \A x \in T : T \ {x} \in G PROVE T \in G
  <2>2. CASE T = {}
    <3>1. \A c \in C : Of(T, c) = {}
      BY <2>2
    <3>2. Sum(u, {}) = 0
      BY FS_EmptySet, SumStep
    <3>3. \A c \in C : Classes(T)[c] = 0
      BY <3>1, <3>2
    <3>4. Sum(Classes(T), C) = 0
      <4> HIDE DEF Classes
      <4> QED  BY <3>3, SumZeros
    <3> QED
      BY <2>2, <3>2, <3>4
  <2>3. ASSUME NEW x \in T PROVE Sum(u, T) = Sum(Classes(T), C)
    <3>1. PICK c \in C : c = h[x]
      OBVIOUS
    <3>2. PICK R \in SUBSET S : R = T \ {x}
      OBVIOUS
    <3>3. Sum(u, T) = u[x] + Sum(u, R) /\ Sum(u, R) \in Int /\ u[x] \in Int
      BY <1>0, <3>2, SumRemove
    <3>4. Sum(u, R) = Sum(Classes(R), C)
      BY <1>1, <3>2
    <3>5. Classes(T)[c] = u[x] + Classes(R)[c]
      <4>1. x \in Of(T, c) /\ Of(T, c) \ {x} = Of(R, c)
        BY <3>1, <3>2
      <4>2. IsFiniteSet(Of(T, c)) /\ \A y \in Of(T, c) : u[y] \in Int
        BY <1>0
      <4>3. Sum(u, Of(T, c)) = u[x] + Sum(u, Of(T, c) \ {x})
        BY <4>1, <4>2, SumRemove
      <4> QED
        BY <4>1, <4>3
    <3>6. \A b \in C \ {c} : Classes(T)[b] = Classes(R)[b]
      <4>1. \A b \in C \ {c} : Of(T, b) = Of(R, b)
        BY <3>1, <3>2
      <4> QED
        BY <4>1
    <3>7. PICK t, r : t = Classes(T) /\ r = Classes(R)
      OBVIOUS
    <3>8. \A b \in C : t[b] \in Int /\ r[b] \in Int
      BY <1>0, <3>7
    <3>9. Sum(t, C) = t[c] + Sum(t, C \ {c}) /\ Sum(t, C \ {c}) \in Int
      BY <3>8, SumRemove
    <3>10. Sum(r, C) = r[c] + Sum(r, C \ {c}) /\ Sum(r, C \ {c}) \in Int
      BY <3>8, SumRemove
    <3>11. Sum(r, C \ {c}) = Sum(t, C \ {c})
      <4>1. IsFiniteSet(C \ {c})
        BY FS_Subset
      <4>2. \A b \in C \ {c} : r[b] \in Int /\ t[b] = r[b]
        BY <3>6, <3>7, <3>8
      <4> QED
        BY <4>1, <4>2, SumEqual
    <3>12. t[c] = u[x] + r[c] /\ t[c] \in Int /\ r[c] \in Int
      BY <3>5, <3>7, <3>8
    <3>13. Sum(u, T) = u[x] + Sum(r, C)
      BY <3>3, <3>4, <3>7
    <3>14. Sum(u, T) = Sum(t, C)
      BY <3>3, <3>9, <3>10, <3>11, <3>12, <3>13
    <3> QED
      BY <3>7, <3>14
  <2> QED
    BY <2>2, <2>3
<1> HIDE DEF G
<1>2. S \in G
  BY <1>1, SetInduction
<1> QED
  BY <1>2 DEF G

-----------------------------------------------------------------------------
(* Spans and units.                                                        *)

\* A leg of the log.
LEMMA Times ==
  ASSUME TimesOK, NEW l \in legs
  PROVE  /\ l.ts \in Nat /\ l.ts <= MaxClock /\ l.sid \in Sessions /\ l.sc \in Shortcodes \cup {Null}
         /\ l.error \in BOOLEAN
  BY Constants DEF TimesOK

\* A session lasts from its first leg to its last.
LEMMA Spans ==
  ASSUME TimesOK, NEW ls \in SUBSET legs, ls # {}
  PROVE  /\ First(ls) \in Nat /\ Last(ls) \in Nat /\ Span(ls) \in Nat
         /\ \A l \in ls : First(ls) <= l.ts /\ l.ts <= Last(ls)
<1> DEFINE T == {l.ts : l \in ls}
<1>1. T \subseteq 0 .. MaxClock /\ T # {}
  BY Times, Constants
<1> HIDE DEF T
<1>2. /\ Min(T) \in T /\ \A t \in T : Min(T) <= t
      /\ Max(T) \in T /\ \A t \in T : t <= Max(T)
  BY <1>1, Extremes
<1>3. First(ls) = Min(T) /\ Last(ls) = Max(T)
  BY DEF First, Last, T
<1>4. \A l \in ls : l.ts \in T
  BY DEF T
<1>5. First(ls) \in 0 .. MaxClock /\ Last(ls) \in 0 .. MaxClock /\ First(ls) <= Last(ls)
  BY <1>1, <1>2, <1>3
<1> QED
  BY <1>2, <1>3, <1>4, <1>5, Constants DEF Span

\* CeilDiv rounds up to the next multiple.
LEMMA Ceiling ==
  ASSUME NEW a \in Nat, NEW k \in Nat, k >= 1
  PROVE  CeilDiv(a, k) \in Nat /\ a <= k * CeilDiv(a, k) /\ k * CeilDiv(a, k) < a + k
<1>1. PICK m \in Nat : m = a + k - 1
  OBVIOUS
<1>2. m \div k \in Nat /\ k * (m \div k) <= m /\ m < k * (m \div k) + k
  BY <1>1, Quotient
<1>3. PICK q \in Nat : q = m \div k
  BY <1>2
<1>4. CeilDiv(a, k) = q
  BY <1>1, <1>3 DEF CeilDiv
<1>5. PICK p \in Int : p = k * q
  OBVIOUS
<1> QED
  BY <1>1, <1>2, <1>3, <1>4, <1>5

\* Rounding up to a second first makes no difference to the windows a session
\* takes: the page and the export bill the same.
LEMMA CeilTwice ==
  ASSUME NEW span \in Nat, NEW w \in Nat, w >= 1
  PROVE  CeilDiv(Seconds(span), w) = CeilDiv(span, Second * w)
<1>1. PICK a \in Nat, b \in Int : a = Seconds(span) /\ b = Second * a /\ span <= b /\ b < span + Second
  <2>1. CeilDiv(span, Second) \in Nat /\ span <= Second * CeilDiv(span, Second) /\ Second * CeilDiv(span, Second) < span + Second
    BY Ceiling, Constants
  <2>2. PICK a \in Nat : a = CeilDiv(span, Second)
    BY <2>1
  <2>3. PICK b \in Int : b = Second * a
    BY Constants
  <2> QED
    BY <2>1, <2>2, <2>3 DEF Seconds
<1>2. PICK c \in Nat, p \in Int : c = CeilDiv(a, w) /\ p = w * c /\ a <= p /\ p < a + w
  <2>1. CeilDiv(a, w) \in Nat /\ a <= w * CeilDiv(a, w) /\ w * CeilDiv(a, w) < a + w
    BY Ceiling
  <2>2. PICK c \in Nat, p \in Int : c = CeilDiv(a, w) /\ p = w * c
    BY <2>1
  <2> QED
    BY <2>1, <2>2
<1>3. PICK e \in Nat, r \in Int : e = CeilDiv(span, Second * w) /\ r = (Second * w) * e /\ span <= r /\ r < span + Second * w
  <2>1. PICK k \in Nat : k = Second * w /\ k >= 1
    BY Constants
  <2>2. CeilDiv(span, k) \in Nat /\ span <= k * CeilDiv(span, k) /\ k * CeilDiv(span, k) < span + k
    BY <2>1, Ceiling
  <2>3. PICK e \in Nat, r \in Int : e = CeilDiv(span, k) /\ r = k * e
    BY <2>2
  <2> QED
    BY <2>1, <2>2, <2>3
<1>4. PICK q \in Int : q = w * e /\ r = Second * q
  BY <1>3, Constants
<1>5. PICK u \in Int, v \in Int : u = Second * w /\ v = Second * p
  BY <1>2, Constants
<1>6. CASE c < e
  <2>1. w * (c + 1) <= w * e
    BY <1>6
  <2>2. p + w <= q
    BY <1>2, <1>4, <2>1
  <2>3. Second * (p + w) <= Second * q /\ Second * a <= Second * p
    BY <1>2, <1>4, <2>2, Constants
  <2>4. v + u <= r /\ b <= v
    BY <1>1, <1>2, <1>4, <1>5, <2>3, Constants
  <2> QED
    BY <1>1, <1>3, <1>5, <2>4, Constants
<1>7. CASE e < c
  <2>1. w * (e + 1) <= w * c
    BY <1>7
  <2>2. q + 1 <= a
    BY <1>2, <1>4, <2>1
  <2>3. Second * (q + 1) <= Second * a
    BY <1>4, <2>2, Constants
  <2>4. r + Second <= b
    BY <1>1, <1>4, <2>3, Constants
  <2> QED
    BY <1>1, <1>3, <2>4, Constants
<1> QED
  BY <1>1, <1>2, <1>3, <1>6, <1>7

\* The four ways to count units agree, but that page and export show none without a window.
LEMMA Units ==
  ASSUME NEW span \in Nat, NEW w \in Nat
  PROVE  /\ RowUnits(span, w) = ExportUnits(span, w) /\ RowUnits(span, w) \in Nat
         /\ w # 0 => RowUnits(span, w) = SummaryUnits(span, w)
         /\ w = 0 => RowUnits(span, w) = 0
         /\ RollupUnits(span, w) = SummaryUnits(span, w)
         /\ SummaryUnits(span, w) \in Nat /\ SummaryUnits(span, w) >= 1
<1>1. CASE w = 0
  BY <1>1 DEF RowUnits, ExportUnits, SummaryUnits, RollupUnits
<1>2. CASE w # 0
  <2>1. w >= 1 /\ Seconds(span) \in Nat
    BY <1>2, Constants, Ceiling DEF Seconds
  <2>2. PICK c \in Nat : c = CeilDiv(Seconds(span), w)
    BY <2>1, Ceiling
  <2>3. CeilDiv(span, Second * w) = c
    BY <2>1, <2>2, CeilTwice
  <2> QED
    BY <1>2, <2>2, <2>3 DEF RowUnits, ExportUnits, SummaryUnits, RollupUnits, Larger
<1> QED
  BY <1>1, <1>2

-----------------------------------------------------------------------------
(* What the owner of all shortcodes sees of a day.                         *)

AllOwned == {[sc |-> s, from |-> 0] : s \in Shortcodes}
Of(scs)  == [NoFilter EXCEPT !.scs = scs]
Mine(d, scs) == {l \in legs : l.sc # Null /\ DbDay(l.ts) = d /\ (scs = {} \/ l.sc \in scs)}

\* Sessions that kept to one shortcode and one day.
Whole == \A l, m \in {x \in legs : x.sc # Null} :
           l.sid = m.sid => l.sc = m.sc /\ DbDay(l.ts) = DbDay(m.ts)

\* To the owner of all shortcodes every leg under a shortcode is visible, every day.
LEMMA OwnerSees ==
  ASSUME TimesOK
  PROVE  /\ \A l \in legs : Visible(AllOwned, l) <=> l.sc # Null
         /\ \A sc, day : DayVisible(AllOwned, sc, day) <=> sc \in Shortcodes
<1>1. AllOwned # Everything
  <2> SUFFICES ASSUME AllOwned = Everything PROVE FALSE
    OBVIOUS
  <2>1. PICK s \in Shortcodes : [sc |-> s, from |-> 0] = [sc |-> Null, from |-> 0]
    BY DEF AllOwned, Everything
  <2>2. s = Null
    BY <2>1
  <2> QED
    BY <2>2, ReportsAssumption
<1>2. \A g \in AllOwned : g.sc \in Shortcodes /\ g.from = 0 /\ FloorOf(g) = 0
  <2> SUFFICES ASSUME NEW g \in AllOwned PROVE g.sc \in Shortcodes /\ g.from = 0 /\ FloorOf(g) = 0
    OBVIOUS
  <2>1. g.sc \in Shortcodes /\ g.from = 0 /\ g.from \in Nat
    BY DEF AllOwned
  <2> QED
    BY <2>1, FloorIsNear
<1>3. \A s \in Shortcodes : \E g \in AllOwned : g.sc = s
  <2> SUFFICES ASSUME NEW s \in Shortcodes PROVE \E g \in AllOwned : g.sc = s
    OBVIOUS
  <2>1. [sc |-> s, from |-> 0] \in AllOwned
    BY DEF AllOwned
  <2> QED
    BY <2>1
<1>4. ASSUME NEW l \in legs PROVE Visible(AllOwned, l) <=> l.sc # Null
  <2>1. l.ts \in Nat /\ l.sc \in Shortcodes \cup {Null} /\ Null \notin Shortcodes
    BY Times, ReportsAssumption
  <2> QED
    BY <1>1, <1>2, <1>3, <2>1 DEF Visible
<1>5. ASSUME NEW sc, NEW day PROVE DayVisible(AllOwned, sc, day) <=> sc \in Shortcodes
  BY <1>1, <1>2, <1>3 DEF DayVisible
<1> QED
  BY <1>4, <1>5

\* Between a day's midnights in PostgreSQL's zone is that day.
LEMMA OnDay ==
  ASSUME TimesOK, NEW t \in Nat, NEW d \in Nat
  PROVE  t >= Midnight(d, zone) /\ t < Midnight(d + 1, zone) <=> DbDay(t) = d
<1>1. zone \in Nat
  BY Constants DEF TimesOK
<1>2. PICK n \in Nat, q \in Nat : n = t + zone /\ q = n \div DayLength
  <2>1. PICK n \in Nat : n = t + zone
    BY <1>1
  <2>2. n \div DayLength \in Nat
    BY Constants, Quotient
  <2> QED
    BY <2>1, <2>2
<1>3. DayLength * q <= n /\ n < DayLength * q + DayLength
  BY <1>2, Constants, Quotient
<1>4. PICK x \in Int, y \in Int : x = DayLength * q /\ y = DayLength * d
  BY Constants
<1>5. Midnight(d, zone) = y - zone /\ Midnight(d + 1, zone) = y + DayLength - zone
  BY <1>1, <1>4, Constants DEF Midnight
<1>6. CASE q = d
  BY <1>1, <1>2, <1>3, <1>4, <1>5, <1>6, Constants DEF DbDay
<1>7. CASE q < d
  <2>1. DayLength * (q + 1) <= DayLength * d
    BY <1>7, Constants
  <2>2. x + DayLength <= y
    BY <1>4, <2>1, Constants
  <2> QED
    BY <1>1, <1>2, <1>3, <1>4, <1>5, <1>7, <2>2, Constants DEF DbDay
<1>8. CASE d < q
  <2>1. DayLength * (d + 1) <= DayLength * q
    BY <1>8, Constants
  <2>2. y + DayLength <= x
    BY <1>4, <2>1, Constants
  <2> QED
    BY <1>1, <1>2, <1>3, <1>4, <1>5, <1>8, <2>2, Constants DEF DbDay
<1> QED
  BY <1>2, <1>6, <1>7, <1>8

\* The filter of a day and of shortcodes picks the day's legs under them.
LEMMA LegsOfDay ==
  ASSUME TimesOK, NEW d \in Nat, NEW scs \in SUBSET Shortcodes
  PROVE  LegConds(Of(scs), d, d, AllOwned, 0) = Mine(d, scs)
<1>1. Of(scs).sid = NoSession /\ Of(scs).scs = scs /\ Of(scs).err = "any"
  BY DEF Of, NoFilter
<1>2. ASSUME NEW l \in legs
      PROVE  l.ts >= Midnight(d, zone) - 0 /\ l.ts < Midnight(d + 1, zone) + 0 <=> DbDay(l.ts) = d
  <2>1. Midnight(d, zone) \in Int /\ Midnight(d + 1, zone) \in Int
    BY Constants DEF Midnight, TimesOK
  <2>2. l.ts \in Nat
    BY Times
  <2> QED
    BY <2>1, <2>2, OnDay
<1> QED
  BY <1>1, <1>2, OwnerSees DEF LegConds, Mine

\* So does the page's, but for the other legs of the sessions that it picks.
LEMMA LegsOfPage ==
  ASSUME TimesOK, NEW d \in Nat, NEW scs \in SUBSET Shortcodes
  PROVE  /\ SessionLegs(Of(scs), d, d, AllOwned) \subseteq {l \in legs : l.sc # Null}
         /\ scs = {} \/ Whole => SessionLegs(Of(scs), d, d, AllOwned) = Mine(d, scs)
<1> DEFINE L == SessionLegs(Of(scs), d, d, AllOwned)
           Wide == LegConds(NoFilter, d, d, AllOwned, Pad)
           chosen == {l.sid : l \in Mine(d, scs)}
<1>1. CASE Of(scs) = NoFilter
  <2>1. scs = {}
    BY <1>1 DEF Of, NoFilter
  <2>2. L = Mine(d, scs)
    BY <1>1, LegsOfDay DEF SessionLegs, SelectsSessionsByLeg
  <2> QED
    BY <2>2 DEF Mine
<1>2. CASE Of(scs) # NoFilter
  <2>1. scs # {}
    BY <1>2 DEF Of, NoFilter
  <2>2. L = {l \in Wide : l.sid \in chosen}
    BY <1>2, LegsOfDay DEF SessionLegs, SelectsSessionsByLeg
  <2>3. \A l \in Wide : l \in legs /\ l.sc # Null
    BY OwnerSees DEF LegConds
  <2>4. Mine(d, scs) \subseteq Wide
    <3> SUFFICES ASSUME NEW l \in Mine(d, scs) PROVE l \in Wide
      OBVIOUS
    <3>1. l \in legs /\ Visible(AllOwned, l) /\ l.ts >= Midnight(d, zone) /\ l.ts < Midnight(d + 1, zone)
      BY OwnerSees, OnDay, Times DEF Mine
    <3>2. Midnight(d, zone) \in Int /\ Midnight(d + 1, zone) \in Int /\ l.ts \in Nat /\ Pad \in Nat
      BY <3>1, Times, Constants, ReportsAssumption DEF Midnight, TimesOK
    <3>3. l.ts >= Midnight(d, zone) - Pad /\ l.ts < Midnight(d + 1, zone) + Pad
      BY <3>1, <3>2
    <3> QED
      BY <3>1, <3>3 DEF LegConds, NoFilter
  <2>5. Whole => L \subseteq Mine(d, scs)
    <3> SUFFICES ASSUME Whole, NEW l \in L PROVE l \in Mine(d, scs)
      OBVIOUS
    <3>1. l \in legs /\ l.sc # Null
      BY <2>2, <2>3
    <3>2. PICK m \in Mine(d, scs) : m.sid = l.sid
      BY <2>2
    <3>3. l.sc = m.sc /\ DbDay(l.ts) = DbDay(m.ts)
      BY <3>1, <3>2 DEF Whole, Mine
    <3> QED
      BY <3>1, <3>2, <3>3 DEF Mine
  <2>6. Mine(d, scs) \subseteq L
    BY <2>2, <2>4
  <2> QED
    BY <2>1, <2>2, <2>3, <2>5, <2>6
<1> QED
  BY <1>1, <1>2

-----------------------------------------------------------------------------
(* The rows of a page.                                                     *)

Sids(ls) == {l.sid : l \in ls}
LegsOfSid(ls, s) == {l \in ls : l.sid = s}

\* The sessions of some legs.
LEMMA SidFacts ==
  ASSUME TimesOK, NEW ls \in SUBSET legs
  PROVE  /\ IsFiniteSet(Sids(ls)) /\ Sids(ls) \subseteq Sessions
         /\ \A s \in Sids(ls) : LegsOfSid(ls, s) # {} /\ SpanOf(s, ls) \in Nat
<1>1. Sids(ls) \in SUBSET Sessions
  BY Times DEF Sids
<1>2. IsFiniteSet(Sids(ls))
  BY <1>1, FS_Subset, ReportsAssumption
<1>3. ASSUME NEW s \in Sids(ls) PROVE LegsOfSid(ls, s) # {} /\ SpanOf(s, ls) \in Nat
  <2>1. LegsOfSid(ls, s) # {} /\ LegsOfSid(ls, s) \in SUBSET legs
    BY DEF Sids, LegsOfSid
  <2>2. Span(LegsOfSid(ls, s)) \in Nat
    BY <2>1, Spans
  <2> QED
    BY <2>1, <2>2 DEF SpanOf, LegsOfSid
<1> QED
  BY <1>1, <1>2, <1>3

\* A page has a row for each session, so what its rows add up to is a sum over
\* the sessions.
LEMMA PageSums ==
  ASSUME TimesOK, IsFiniteSet(legs), NEW ls \in SUBSET legs, NEW n, \A s \in Sids(ls) : n[s] \in Nat,
         NEW page, page = {RowOf(s, ls, n[s]) : s \in Sids(ls)}
  PROVE  /\ UnitsOf(page) = Sum(n, Sids(ls))
         /\ LegsIn(page) = Cardinality(ls)
         /\ IsFiniteSet(page) /\ Cardinality(page) = Cardinality(Sids(ls))
<1> DEFINE S == Sids(ls)
           h == [s \in S |-> RowOf(s, ls, n[s])]
           own == [s \in S |-> Cardinality(LegsOfSid(ls, s))]
           units == [r \in page |-> r.units]
           legsOf == [r \in page |-> r.legs]
           one == [r \in page |-> 1]
           ones == [s \in S |-> 1]
<1>1. IsFiniteSet(S) /\ IsFiniteSet(ls) /\ \A s \in S : IsFiniteSet(LegsOfSid(ls, s))
  BY SidFacts, FS_Subset DEF LegsOfSid
<1>2. \A s \in S : /\ h[s] \in page /\ h[s].sid = s /\ h[s].units = n[s]
                   /\ h[s].legs = own[s]
  BY DEF RowOf, LegsOfSid
<1>3. \A s, t \in S : h[s] = h[t] => s = t
  BY <1>2
<1>4. page = {h[s] : s \in S}
  OBVIOUS
<1>5. \A s \in S : own[s] \in Nat
  BY <1>1, FS_CardinalityType
<1> HIDE DEF h, own
<1>6. Sum(units, {h[s] : s \in S}) = Sum(n, S) /\ IsFiniteSet({h[s] : s \in S})
  <2>1. \A s \in S : n[s] \in Int /\ units[h[s]] = n[s]
    BY <1>2
  <2> HIDE DEF units, S
  <2> QED
    BY <1>1, <1>3, <2>1, SumImage
<1>7. Sum(legsOf, {h[s] : s \in S}) = Sum(own, S) /\ IsFiniteSet({h[s] : s \in S})
  <2>1. \A s \in S : own[s] \in Int /\ legsOf[h[s]] = own[s]
    BY <1>2, <1>5
  <2> HIDE DEF legsOf, S
  <2> QED
    BY <1>1, <1>3, <2>1, SumImage
<1>8. Sum(one, {h[s] : s \in S}) = Sum(ones, S)
  <2>1. \A s \in S : ones[s] \in Int /\ one[h[s]] = ones[s]
    BY <1>2
  <2>2. PICK f, g, T : f = one /\ g = ones /\ T = S
    OBVIOUS
  <2>3. IsFiniteSet(T) /\ \A s \in T : g[s] \in Int /\ f[h[s]] = g[s]
    BY <1>1, <2>1, <2>2
  <2>4. \A s, t \in T : h[s] = h[t] => s = t
    BY <1>3, <2>2
  <2> HIDE DEF one, ones, S
  <2>5. Sum(f, {h[s] : s \in T}) = Sum(g, T)
    BY <2>3, <2>4, SumImage
  <2> QED
    BY <2>2, <2>5
<1>9. UnitsOf(page) = Sum(units, page) /\ LegsIn(page) = Sum(legsOf, page)
  BY DEF UnitsOf, LegsIn, SumFunction, Sum
<1>10. Cardinality(page) = Cardinality(S)
  <2>1. Sum(one, page) = Cardinality(page)
    BY <1>4, <1>6, SumOnes
  <2>2. Sum(ones, S) = Cardinality(S)
    BY <1>1, SumOnes
  <2> QED
    BY <1>4, <1>8, <2>1, <2>2
<1>11. Sum(own, S) = Cardinality(ls)
  <2> DEFINE u == [l \in ls |-> 1]
             sid == [l \in ls |-> l.sid]
             class == [s \in S |-> Sum(u, {l \in ls : sid[l] = s})]
  <2>1. \A l \in ls : u[l] \in Int /\ sid[l] \in S
    BY DEF Sids
  <2>2. \A s \in S : LegsOfSid(ls, s) = {l \in ls : sid[l] = s} /\ \A l \in LegsOfSid(ls, s) : u[l] = 1
    BY DEF LegsOfSid
  <2>3. \A l \in ls : u[l] = 1
    OBVIOUS
  <2> HIDE DEF u, sid, S
  <2>4. Sum(u, ls) = Sum(class, S)
    <3>1. IsFiniteSet(S) /\ IsFiniteSet(ls)
      BY <1>1
    <3> QED
      BY <2>1, <3>1, SumByClass
  <2>5. \A s \in S : class[s] \in Int /\ own[s] = class[s]
    <3> SUFFICES ASSUME NEW s \in S PROVE class[s] \in Int /\ own[s] = class[s]
      OBVIOUS
    <3>1. Sum(u, LegsOfSid(ls, s)) = Cardinality(LegsOfSid(ls, s))
      BY <1>1, <2>2, SumOnes
    <3>2. class[s] = Cardinality(LegsOfSid(ls, s))
      BY <2>2, <3>1
    <3> QED
      BY <1>5, <3>2 DEF own
  <2> HIDE DEF class
  <2>6. Sum(class, S) = Sum(own, S)
    BY <1>1, <2>5, SumEqual
  <2>7. Sum(u, ls) = Cardinality(ls)
    BY <1>1, <2>3, SumOnes
  <2> QED
    BY <2>4, <2>6, <2>7
<1> QED
  BY <1>4, <1>6, <1>7, <1>9, <1>10, <1>11

-----------------------------------------------------------------------------
(* The rows of a rollup.                                                   *)

GroupLegs(ls, g) == {l \in ls : l.sid = g.sid /\ l.sc = g.sc}
GroupsAt(ls, sc) == {g \in GroupsOf(ls) : g.sc = sc}
GroupUnits(ls, sc) == [g \in GroupsAt(ls, sc) |-> RollupUnits(Span(GroupLegs(ls, g)), window)]

\* The sessions that a row of a rollup counts.
LEMMA GroupFacts ==
  ASSUME TimesOK, NEW ls \in SUBSET legs, NEW sc
  PROVE  /\ IsFiniteSet(GroupsAt(ls, sc)) /\ Cardinality(GroupsAt(ls, sc)) <= Cardinality(Sessions)
         /\ \A g \in GroupsAt(ls, sc) :
              g = [sid |-> g.sid, sc |-> sc] /\ g.sid \in Sessions /\ GroupLegs(ls, g) # {}
<1>1. ASSUME NEW g \in GroupsAt(ls, sc)
      PROVE  g = [sid |-> g.sid, sc |-> sc] /\ g.sid \in Sessions /\ GroupLegs(ls, g) # {}
  <2>1. PICK l \in ls : g = [sid |-> l.sid, sc |-> l.sc] /\ g.sc = sc
    BY DEF GroupsAt, GroupsOf
  <2>2. l.sid \in Sessions
    BY Times
  <2> QED
    BY <2>1, <2>2 DEF GroupLegs
<1>2. PICK f : f = [g \in GroupsAt(ls, sc) |-> g.sid]
  OBVIOUS
<1>3. \A g \in GroupsAt(ls, sc) : f[g] \in Sessions
  BY <1>1, <1>2
<1>4. \A g, k \in GroupsAt(ls, sc) : f[g] = f[k] => g = k
  BY <1>1, <1>2
<1>5. f \in Injection(GroupsAt(ls, sc), Sessions)
  BY <1>2, <1>3, <1>4 DEF Injection, IsInjective
<1> QED
  BY <1>1, <1>5, FS_Injection, ReportsAssumption

\* What a row says of each of its sessions.
LEMMA RowFacts ==
  ASSUME TimesOK, IsFiniteSet(legs), window \in Nat, NEW ls \in SUBSET legs, NEW sc
  PROVE  LET r == RollupRow(sc, ls) IN
         /\ r.sc = sc /\ r.sessions = Cardinality(GroupsAt(ls, sc))
         /\ r.units = Sum(GroupUnits(ls, sc), GroupsAt(ls, sc)) /\ r.units \in Nat
         /\ r.legs \in Nat /\ r.legs <= Cardinality(ls)
         /\ r.errors \in Nat /\ r.errors <= r.sessions
         /\ r.sessions <= r.legs /\ r.sessions <= r.units
         /\ r = [sc |-> r.sc, sessions |-> r.sessions, legs |-> r.legs, errors |-> r.errors, units |-> r.units]
<1> DEFINE S == GroupsAt(ls, sc)
           size == [g \in S |-> Cardinality(GroupLegs(ls, g))]
           units == GroupUnits(ls, sc)
           bad == {g \in S : \E l \in GroupLegs(ls, g) : l.error}
           ones == [g \in S |-> 1]
<1>1. RollupRow(sc, ls) = [sc |-> sc, sessions |-> Cardinality(S), legs |-> Sum(size, S),
                           errors |-> Cardinality(bad), units |-> Sum(units, S)]
  BY DEF RollupRow, GroupsAt, GroupLegs, GroupUnits, Sum, SumFunction
<1>2. IsFiniteSet(S) /\ IsFiniteSet(ls) /\ Cardinality(S) \in Nat
  BY GroupFacts, FS_Subset, FS_CardinalityType
<1>3. \A g \in S : size[g] \in Nat /\ size[g] >= 1
  <2> SUFFICES ASSUME NEW g \in S PROVE Cardinality(GroupLegs(ls, g)) \in Nat /\ Cardinality(GroupLegs(ls, g)) >= 1
    OBVIOUS
  <2>1. GroupLegs(ls, g) # {} /\ IsFiniteSet(GroupLegs(ls, g))
    BY <1>2, GroupFacts, FS_Subset DEF GroupLegs
  <2> QED
    BY <2>1, FS_EmptySet, FS_CardinalityType
<1>4. \A g \in S : units[g] \in Nat /\ units[g] >= 1
  <2> SUFFICES ASSUME NEW g \in S PROVE units[g] \in Nat /\ units[g] >= 1
    OBVIOUS
  <2>1. Span(GroupLegs(ls, g)) \in Nat
    BY GroupFacts, Spans DEF GroupLegs
  <2>2. units[g] = RollupUnits(Span(GroupLegs(ls, g)), window)
    BY DEF GroupUnits
  <2> QED
    BY <2>1, <2>2, Units
<1>5. Cardinality(bad) \in Nat /\ Cardinality(bad) <= Cardinality(S)
  BY <1>2, FS_Subset, FS_CardinalityType
<1> HIDE DEF S, size, units, bad
<1>6. Sum(ones, S) = Cardinality(S)
  BY <1>2, SumOnes
<1>7. Sum(ones, S) <= Sum(size, S) /\ Sum(ones, S) <= Sum(units, S)
  <2>1. \A g \in S : ones[g] \in Int /\ size[g] \in Int /\ ones[g] <= size[g]
    BY <1>3
  <2>2. \A g \in S : ones[g] \in Int /\ units[g] \in Int /\ ones[g] <= units[g]
    BY <1>4
  <2> HIDE DEF ones
  <2> QED
    BY <1>2, <2>1, <2>2, SumMonotone
<1>8. Sum(size, S) \in Int /\ Sum(units, S) \in Int
  BY <1>2, <1>3, <1>4, SumInt
<1>9. Sum(size, S) <= Cardinality(ls)
  <2> DEFINE h == [l \in legs |-> [sid |-> l.sid, sc |-> l.sc]]
             L == {l \in ls : h[l] \in S}
             u == [l \in legs |-> 1]
             class == [g \in S |-> Sum(u, {l \in L : h[l] = g})]
  <2>1. IsFiniteSet(L) /\ Cardinality(L) <= Cardinality(ls)
    BY <1>2, FS_Subset
  <2>2. \A l \in L : u[l] \in Int /\ h[l] \in S /\ u[l] = 1
    OBVIOUS
  <2>3. \A g \in S : {l \in L : h[l] = g} = GroupLegs(ls, g)
    <3> SUFFICES ASSUME NEW g \in S PROVE {l \in L : h[l] = g} = GroupLegs(ls, g)
      OBVIOUS
    <3>1. g = [sid |-> g.sid, sc |-> g.sc]
      <4>1. g \in GroupsAt(ls, sc)
        BY DEF S
      <4>2. g = [sid |-> g.sid, sc |-> sc]
        BY <4>1, GroupFacts
      <4> QED
        BY <4>2
    <3>2. \A l \in ls : h[l] = [sid |-> l.sid, sc |-> l.sc]
      OBVIOUS
    <3>3. \A l \in ls : h[l] = g <=> l.sid = g.sid /\ l.sc = g.sc
      BY <3>1, <3>2
    <3>4. L \subseteq ls /\ \A l \in ls : h[l] = g => l \in L
      OBVIOUS
    <3>5. GroupLegs(ls, g) = {l \in ls : h[l] = g}
      BY <3>3 DEF GroupLegs
    <3> HIDE DEF h, S, L
    <3> QED
      BY <3>4, <3>5
  <2> HIDE DEF h, u, L
  <2>4. Sum(u, L) = Sum(class, S)
    BY <1>2, <2>1, <2>2, SumByClass
  <2>5. \A g \in S : class[g] = size[g]
    <3> SUFFICES ASSUME NEW g \in S PROVE class[g] = size[g]
      OBVIOUS
    <3>1. PICK R : R = {l \in L : h[l] = g}
      OBVIOUS
    <3>2. IsFiniteSet(R) /\ \A l \in R : u[l] = 1
      BY <2>1, <2>2, <3>1, FS_Subset
    <3>3. Sum(u, R) = Cardinality(R)
      BY <3>2, SumOnes
    <3> QED
      BY <2>3, <3>1, <3>3 DEF size
  <2> HIDE DEF class
  <2>6. Sum(class, S) = Sum(size, S)
    <3>1. \A g \in S : size[g] \in Int /\ class[g] = size[g]
      BY <1>3, <2>5
    <3> QED
      BY <1>2, <3>1, SumEqual
  <2>7. Sum(u, L) = Cardinality(L)
    BY <2>1, <2>2, SumOnes
  <2> QED
    BY <2>1, <2>4, <2>6, <2>7
<1>10. Sum(size, S) \in Nat /\ Sum(units, S) \in Nat
  BY <1>2, <1>6, <1>7, <1>8
<1>11. PICK n \in Nat, m \in Nat, e \in Nat, k \in Nat :
         n = Cardinality(S) /\ m = Sum(size, S) /\ e = Cardinality(bad) /\ k = Sum(units, S)
  BY <1>2, <1>5, <1>10
<1>12. RollupRow(sc, ls) = [sc |-> sc, sessions |-> n, legs |-> m, errors |-> e, units |-> k]
  BY <1>1, <1>11
<1> QED
  BY <1>2, <1>5, <1>6, <1>7, <1>9, <1>11, <1>12 DEF S, units

Under(D, scs) == {l \in D : l.sc # Null /\ (scs = {} \/ l.sc \in scs)}
RowsOf(D, scs) == {r \in Summarised(D) : r.sc \in Shortcodes /\ (scs = {} \/ r.sc \in scs)}

\* A rollup of legs whose sessions kept to one shortcode counts and bills each of
\* their sessions once: the rows of the shortcodes picked add up to the sessions
\* with a leg under one of these.
LEMMA RollupSums ==
  ASSUME TimesOK, IsFiniteSet(legs), window \in Nat, NEW D \in SUBSET legs,
         \A l, m \in D : l.sc # Null /\ m.sc # Null /\ l.sid = m.sid => l.sc = m.sc,
         NEW scs \in SUBSET Shortcodes,
         NEW U, \A s \in Sids(Under(D, scs)) : U[s] = SummaryUnits(SpanOf(s, Under(D, scs)), window)
  PROVE  /\ UnitsOf(RowsOf(D, scs)) = Sum(U, Sids(Under(D, scs)))
         /\ SessionsIn(RowsOf(D, scs)) = Cardinality(Sids(Under(D, scs)))
<1> SUFFICES ASSUME NEW L, L = {l \in D : l.sc # Null /\ (scs = {} \/ l.sc \in scs)},
                    NEW R, R = {r \in Summarised(D) : r.sc \in Shortcodes /\ (scs = {} \/ r.sc \in scs)},
                    \A s \in Sids(L) : U[s] = SummaryUnits(SpanOf(s, L), window)
             PROVE  UnitsOf(R) = Sum(U, Sids(L)) /\ SessionsIn(R) = Cardinality(Sids(L))
  BY DEF Under, RowsOf
<1> DEFINE S == Sids(L)
           C == {l.sc : l \in L}
           row == [c \in C |-> RollupRow(c, D)]
           h == [s \in S |-> CHOOSE c \in C : \E l \in L : l.sid = s /\ l.sc = c]
           At(c) == {s \in S : h[s] = c}
           ones == [s \in Sessions |-> 1]
           units == [r \in R |-> r.units]
           sessions == [r \in R |-> r.sessions]
           unitsAt == [c \in C |-> row[c].units]
           sessionsAt == [c \in C |-> row[c].sessions]
<1>1. /\ L \in SUBSET legs /\ IsFiniteSet(S) /\ S \subseteq Sessions
      /\ \A s \in S : LegsOfSid(L, s) # {} /\ SpanOf(s, L) \in Nat
  BY SidFacts
<1>2. C \in SUBSET Shortcodes /\ IsFiniteSet(C) /\ Null \notin C
  <2>1. C \in SUBSET Shortcodes /\ Null \notin Shortcodes
    BY <1>1, Times, ReportsAssumption
  <2> QED
    BY <2>1, FS_Subset, ReportsAssumption
<1>3. \A l \in L : l.sid \in S /\ l.sc \in C /\ h[l.sid] = l.sc
  BY DEF Sids
<1>4. \A s \in S : h[s] \in C /\ \E l \in L : l.sid = s /\ l.sc = h[s]
  BY <1>3 DEF Sids
<1>5. \A s \in S : U[s] \in Nat
  <2> SUFFICES ASSUME NEW s \in S PROVE U[s] \in Nat
    OBVIOUS
  <2>1. SpanOf(s, L) \in Nat /\ U[s] = SummaryUnits(SpanOf(s, L), window)
    BY <1>1
  <2> QED
    BY <2>1, Units
<1>6. \A c \in C : \A l \in D : l.sc = c => l \in L
  BY <1>2
<1>8. \A c \in C : row[c] = RollupRow(c, D)
  OBVIOUS
<1> HIDE DEF row, h
<1>21. ASSUME NEW c \in C
       PROVE  /\ row[c].sc = c
              /\ row[c].units = Sum(GroupUnits(D, c), GroupsAt(D, c))
              /\ row[c].sessions = Cardinality(GroupsAt(D, c))
              /\ row[c].units \in Nat
  <2>1. /\ RollupRow(c, D).sc = c
        /\ RollupRow(c, D).units = Sum(GroupUnits(D, c), GroupsAt(D, c))
        /\ RollupRow(c, D).sessions = Cardinality(GroupsAt(D, c))
        /\ RollupRow(c, D).units \in Nat
    BY RowFacts
  <2>2. row[c] = RollupRow(c, D)
    BY <1>8
  <2> QED
    BY <2>1, <2>2
<1>9. \A c, b \in C : row[c] = row[b] => c = b
  BY <1>21
<1>7. R = {row[c] : c \in C}
  <2>1. ASSUME NEW r \in R PROVE \E c \in C : r = row[c]
    <3>1. PICK g \in GroupsOf(D) : r = RollupRow(g.sc, D)
      BY DEF Summarised
    <3>2. r.sc = g.sc
      BY <3>1, RowFacts
    <3>3. PICK l \in D : l.sc = g.sc
      BY DEF GroupsOf
    <3>4. l \in L
      BY <3>2, <3>3, ReportsAssumption
    <3> QED
      BY <1>3, <1>8, <3>1, <3>3, <3>4
  <2>2. ASSUME NEW c \in C PROVE row[c] \in R
    <3>1. PICK l \in L : l.sc = c
      OBVIOUS
    <3>2. [sid |-> l.sid, sc |-> l.sc] \in GroupsOf(D)
      BY <3>1 DEF GroupsOf
    <3>3. row[c] \in Summarised(D)
      BY <1>8, <3>1, <3>2 DEF Summarised
    <3>4. row[c].sc = c
      BY <1>21
    <3> QED
      BY <1>2, <3>1, <3>3, <3>4
  <2> HIDE DEF C
  <2>3. \A r \in R : r \in {row[c] : c \in C}
    BY <2>1
  <2>4. \A r \in {row[c] : c \in C} : r \in R
    BY <2>2
  <2> QED
    BY <2>3, <2>4
<1>10. ASSUME NEW c \in C
       PROVE  /\ row[c].units = Sum(U, At(c))
              /\ row[c].sessions = Sum(ones, At(c)) /\ row[c].sessions \in Nat
  <2> DEFINE k == [s \in S |-> [sid |-> s, sc |-> c]]
             gu == GroupUnits(D, c)
             one == [g \in GroupsAt(D, c) |-> 1]
  <2>1. IsFiniteSet(At(c)) /\ At(c) \subseteq S
    BY <1>1, FS_Subset
  <2>2. \A s \in S : k[s].sid = s /\ k[s].sc = c
    OBVIOUS
  <2>3. GroupsAt(D, c) = {k[s] : s \in At(c)}
    <3>1. ASSUME NEW g \in GroupsAt(D, c) PROVE \E s \in At(c) : g = k[s]
      <4>1. PICK l \in D : g = [sid |-> l.sid, sc |-> l.sc] /\ l.sc = c
        BY DEF GroupsAt, GroupsOf
      <4>2. l \in L
        BY <1>6, <4>1
      <4> QED
        BY <1>3, <4>1, <4>2
    <3>2. ASSUME NEW s \in At(c) PROVE k[s] \in GroupsAt(D, c)
      <4>0. s \in S /\ h[s] = c
        OBVIOUS
      <4>1. PICK l \in L : l.sid = s /\ l.sc = c
        BY <1>4, <4>0
      <4>2. k[s] = [sid |-> l.sid, sc |-> l.sc] /\ k[s].sc = c /\ c # Null
        BY <1>2, <4>1
      <4> QED
        BY <4>2 DEF GroupsAt, GroupsOf
    <3>3. PICK A, B : A = At(c) /\ B = GroupsAt(D, c)
      OBVIOUS
    <3>4. (\A g \in B : \E s \in A : g = k[s]) /\ \A s \in A : k[s] \in B
      BY <3>1, <3>2, <3>3
    <3> HIDE DEF k
    <3>5. B = {k[s] : s \in A}
      BY <3>4
    <3> QED
      BY <3>3, <3>5
  <2>4. \A s \in At(c) : GroupLegs(D, k[s]) = LegsOfSid(L, s)
    <3> SUFFICES ASSUME NEW s \in At(c) PROVE GroupLegs(D, k[s]) = LegsOfSid(L, s)
      OBVIOUS
    <3>1. GroupLegs(D, k[s]) = {l \in D : l.sid = s /\ l.sc = c}
      BY DEF GroupLegs
    <3>2. \A l \in L : l.sid = s => l.sc = c
      BY <1>3
    <3> QED
      BY <1>6, <3>1, <3>2 DEF LegsOfSid
  <2>5. \A s \in At(c) : gu[k[s]] = U[s] /\ one[k[s]] = 1
    <3> SUFFICES ASSUME NEW s \in At(c) PROVE gu[k[s]] = U[s] /\ one[k[s]] = 1
      OBVIOUS
    <3>1. k[s] \in GroupsAt(D, c)
      BY <2>3
    <3>2. gu[k[s]] = RollupUnits(Span(LegsOfSid(L, s)), window)
      BY <2>4, <3>1 DEF GroupUnits
    <3>3. SpanOf(s, L) = Span(LegsOfSid(L, s)) /\ SpanOf(s, L) \in Nat
      BY <1>1 DEF SpanOf, LegsOfSid
    <3>4. gu[k[s]] = SummaryUnits(SpanOf(s, L), window)
      BY <3>2, <3>3, Units
    <3> QED
      BY <3>1, <3>4
  <2>6. \A s \in At(c) : U[s] \in Int /\ gu[k[s]] = U[s] /\ ones[s] \in Int /\ one[k[s]] = ones[s]
    BY <1>1, <1>5, <2>1, <2>5
  <2>7. \A s, t \in At(c) : k[s] = k[t] => s = t
    BY <2>2
  <2>8. PICK A : A = At(c)
    OBVIOUS
  <2>9. GroupsAt(D, c) = {k[s] : s \in A}
    BY <2>3, <2>8
  <2>13. /\ IsFiniteSet(A)
         /\ \A s \in A : U[s] \in Int /\ gu[k[s]] = U[s] /\ ones[s] \in Int /\ one[k[s]] = ones[s]
         /\ \A s, t \in A : k[s] = k[t] => s = t
    BY <2>1, <2>6, <2>7, <2>8
  <2> HIDE DEF k, gu, one, ones, S
  <2>10. Sum(gu, {k[s] : s \in A}) = Sum(U, A) /\ IsFiniteSet({k[s] : s \in A})
    BY <2>13, SumImage
  <2>11. Sum(one, {k[s] : s \in A}) = Sum(ones, A) /\ IsFiniteSet({k[s] : s \in A})
    BY <2>13, SumImage
  <2>12. Sum(one, GroupsAt(D, c)) = Cardinality(GroupsAt(D, c)) /\ Cardinality(GroupsAt(D, c)) \in Nat
    BY GroupFacts, SumOnes, FS_CardinalityType DEF one
  <2> QED
    BY <1>21, <2>8, <2>9, <2>10, <2>11, <2>12 DEF gu
<1>11. \A s \in S : U[s] \in Int /\ ones[s] \in Int /\ ones[s] = 1 /\ h[s] \in C
  BY <1>1, <1>4, <1>5
<1>12. \A c \in C : unitsAt[c] = Sum(U, At(c)) /\ unitsAt[c] \in Int
                    /\ sessionsAt[c] = Sum(ones, At(c)) /\ sessionsAt[c] \in Int
  <2> SUFFICES ASSUME NEW c \in C
               PROVE  /\ row[c].units = Sum(U, At(c)) /\ row[c].units \in Int
                      /\ row[c].sessions = Sum(ones, At(c)) /\ row[c].sessions \in Int
    OBVIOUS
  <2>1. row[c].units = Sum(U, At(c)) /\ row[c].sessions = Sum(ones, At(c)) /\ row[c].sessions \in Nat
    BY <1>10
  <2>2. row[c].units \in Nat
    BY <1>21
  <2> HIDE DEF S, C, ones
  <2> QED
    BY <2>1, <2>2
<1>13. Sum(U, S) = Sum(unitsAt, C)
  <2> DEFINE class == [c \in C |-> Sum(U, {s \in S : h[s] = c})]
  <2>1. Sum(U, S) = Sum(class, C)
    <3>1. IsFiniteSet(S) /\ IsFiniteSet(C) /\ \A s \in S : U[s] \in Int /\ h[s] \in C
      BY <1>1, <1>2, <1>11
    <3> HIDE DEF S, C, h
    <3> QED
      BY <3>1, SumByClass
  <2>2. \A c \in C : unitsAt[c] \in Int /\ class[c] = unitsAt[c]
    BY <1>12
  <2> HIDE DEF class, C, unitsAt
  <2>3. Sum(unitsAt, C) = Sum(class, C)
    BY <1>2, <2>2, SumEqual
  <2> QED
    BY <2>1, <2>3
<1>14. Sum(ones, S) = Sum(sessionsAt, C)
  <2> DEFINE class == [c \in C |-> Sum(ones, {s \in S : h[s] = c})]
  <2>1. Sum(ones, S) = Sum(class, C)
    <3>1. IsFiniteSet(S) /\ IsFiniteSet(C) /\ \A s \in S : ones[s] \in Int /\ h[s] \in C
      BY <1>1, <1>2, <1>11
    <3> HIDE DEF S, C, h, ones
    <3> QED
      BY <3>1, SumByClass
  <2>2. \A c \in C : sessionsAt[c] \in Int /\ class[c] = sessionsAt[c]
    BY <1>12
  <2> HIDE DEF class, C, sessionsAt
  <2>3. Sum(sessionsAt, C) = Sum(class, C)
    BY <1>2, <2>2, SumEqual
  <2> QED
    BY <2>1, <2>3
<1>15. \A c \in C : units[row[c]] = unitsAt[c] /\ sessions[row[c]] = sessionsAt[c]
  BY <1>7
<1> HIDE DEF S, C, row, h, ones, units, sessions, unitsAt, sessionsAt
<1>16. Sum(units, R) = Sum(unitsAt, C)
  <2>1. \A c \in C : unitsAt[c] \in Int /\ units[row[c]] = unitsAt[c]
    BY <1>12, <1>15
  <2>2. IsFiniteSet(C) /\ \A c, b \in C : row[c] = row[b] => c = b
    BY <1>2, <1>9
  <2>3. Sum(units, {row[c] : c \in C}) = Sum(unitsAt, C)
    <3>1. PICK f, g, k, B : f = units /\ g = unitsAt /\ k = row /\ B = C
      OBVIOUS
    <3>2. \A c \in B : g[c] \in Int /\ f[k[c]] = g[c]
      BY <2>1, <3>1
    <3>3. IsFiniteSet(B) /\ \A c, b \in B : k[c] = k[b] => c = b
      BY <2>2, <3>1
    <3>4. Sum(f, {k[c] : c \in B}) = Sum(g, B)
      BY <3>2, <3>3, SumImage
    <3> QED
      BY <3>1, <3>4
  <2> QED
    BY <1>7, <2>3
<1>17. Sum(sessions, R) = Sum(sessionsAt, C)
  <2>1. \A c \in C : sessionsAt[c] \in Int /\ sessions[row[c]] = sessionsAt[c]
    BY <1>12, <1>15
  <2>2. IsFiniteSet(C) /\ \A c, b \in C : row[c] = row[b] => c = b
    BY <1>2, <1>9
  <2>3. Sum(sessions, {row[c] : c \in C}) = Sum(sessionsAt, C)
    <3>1. PICK f, g, k, B : f = sessions /\ g = sessionsAt /\ k = row /\ B = C
      OBVIOUS
    <3>2. \A c \in B : g[c] \in Int /\ f[k[c]] = g[c]
      BY <2>1, <3>1
    <3>3. IsFiniteSet(B) /\ \A c, b \in B : k[c] = k[b] => c = b
      BY <2>2, <3>1
    <3>4. Sum(f, {k[c] : c \in B}) = Sum(g, B)
      BY <3>2, <3>3, SumImage
    <3> QED
      BY <3>1, <3>4
  <2> QED
    BY <1>7, <2>3
<1>18. Sum(ones, S) = Cardinality(S)
  BY <1>1, <1>11, SumOnes
<1>19. UnitsOf(R) = Sum(units, R) /\ SessionsIn(R) = Sum(sessions, R)
  BY DEF UnitsOf, SessionsIn, SumFunction, Sum, units, sessions
<1> QED
  BY <1>13, <1>14, <1>16, <1>17, <1>18, <1>19 DEF S

-----------------------------------------------------------------------------
(* The invariant: what is logged and when, and rows as RollupRow makes     *)
(* them.  Nothing else is needed for the bills: they are functions of the  *)
(* log and of the window.                                                  *)

RowOK(r) ==
  /\ r \in Rollups
  /\ r.errors <= r.sessions /\ 0 < r.sessions
  /\ r.sessions <= r.legs /\ r.sessions <= r.units

Inv ==
  /\ TimesOK /\ IsFiniteSet(legs) /\ Cardinality(legs) <= MaxLegs
  /\ window \in Windows
  /\ DOMAIN rollup = Days /\ mv.day \in Days
  /\ \A r \in mv.rows : RowOK(r)
  /\ \A d \in Days : \A r \in rollup[d] : RowOK(r)

\* Every row that a rollup makes satisfies the invariant.
LEMMA SummarisedOK ==
  ASSUME Inv, NEW ls \in SUBSET legs, NEW r \in Summarised(ls)
  PROVE  RowOK(r)
<1>1. TimesOK /\ IsFiniteSet(legs) /\ window \in Nat /\ Cardinality(legs) <= MaxLegs
  BY ReportsAssumption DEF Inv
<1>2. PICK g \in GroupsOf(ls) : r = RollupRow(g.sc, ls)
  BY DEF Summarised
<1>3. PICK sc : sc = g.sc
  OBVIOUS
<1>4. /\ r.sc = sc /\ r.sessions = Cardinality(GroupsAt(ls, sc))
      /\ r.units \in Nat
      /\ r.legs \in Nat /\ r.legs <= Cardinality(ls)
      /\ r.errors \in Nat /\ r.errors <= r.sessions
      /\ r.sessions <= r.legs /\ r.sessions <= r.units
      /\ r = [sc |-> r.sc, sessions |-> r.sessions, legs |-> r.legs, errors |-> r.errors, units |-> r.units]
  BY <1>1, <1>2, <1>3, RowFacts
<1>5. sc \in Shortcodes \cup {Null}
  BY <1>1, <1>3, Times DEF GroupsOf
<1>6. r.sessions \in Nat /\ 0 < r.sessions /\ r.sessions <= Cardinality(Sessions) /\ Cardinality(Sessions) \in Nat
  <2>1. g \in GroupsAt(ls, sc)
    BY <1>3 DEF GroupsAt
  <2>2. IsFiniteSet(GroupsAt(ls, sc)) /\ Cardinality(GroupsAt(ls, sc)) <= Cardinality(Sessions)
    BY <1>1, GroupFacts
  <2>3. Cardinality(GroupsAt(ls, sc)) \in Nat /\ Cardinality(GroupsAt(ls, sc)) # 0
    BY <2>1, <2>2, FS_CardinalityType, FS_EmptySet
  <2>4. Cardinality(Sessions) \in Nat
    BY FS_CardinalityType, ReportsAssumption
  <2> QED
    BY <1>4, <2>2, <2>3, <2>4
<1>7. Cardinality(ls) <= Cardinality(legs) /\ Cardinality(ls) \in Nat /\ Cardinality(legs) \in Nat
  BY <1>1, Subsets
<1>8. MaxLegs \in Nat
  BY ReportsAssumption
<1>9. r.legs \in 0 .. MaxLegs /\ r.sessions \in 0 .. Cardinality(Sessions) /\ r.errors \in 0 .. Cardinality(Sessions)
  BY <1>1, <1>4, <1>6, <1>7, <1>8
<1> QED
  BY <1>4, <1>5, <1>6, <1>9 DEF RowOK, Rollups

\* The days of the clock are the days of the rollups.
LEMMA LocalDays ==
  ASSUME NEW t \in 0 .. MaxClock
  PROVE  LocalDay(t) \in Days
<1>1. PICK n \in Nat, m \in Nat : n = t + Eat /\ m = MaxClock + Eat /\ n <= m
  BY Constants
<1>2. PICK q \in Nat : q = n \div DayLength /\ DayLength * q <= n
  BY Constants, Quotient
<1>3. PICK p \in Nat : p = m \div DayLength /\ m < DayLength * p + DayLength
  BY Constants, Quotient
<1>4. q <= p
  <2> SUFFICES ASSUME p < q PROVE FALSE
    OBVIOUS
  <2>1. DayLength * (p + 1) <= DayLength * q
    BY Constants
  <2>2. PICK x \in Int, y \in Int : x = DayLength * q /\ y = DayLength * p /\ y + DayLength <= x
    BY <2>1, Constants
  <2> QED
    BY <1>1, <1>2, <1>3, <2>2, Constants
<1> QED
  BY <1>1, <1>2, <1>3, <1>4 DEF LocalDay, Days

LEMMA InvInit == Init => Inv
<1> SUFFICES ASSUME Init PROVE Inv
  OBVIOUS
<1>1. Cardinality({}) = 0 /\ IsFiniteSet({}) /\ MaxLegs \in Nat
  BY FS_EmptySet, ReportsAssumption
<1>2. 0 \in Days
  <2>1. LocalDay(MaxClock) \in Days
    BY Constants, LocalDays
  <2>2. LocalDay(MaxClock) \in Nat
    <3>1. PICK m \in Nat : m = MaxClock + Eat
      BY Constants
    <3> QED
      BY <3>1, Constants, Quotient DEF LocalDay
  <2> QED
    BY <2>2 DEF Days
<1> QED
  BY <1>1, <1>2, TimesInit DEF Init, Inv

LEMMA InvStep == Inv /\ [Next]_vars => Inv'
<1> SUFFICES ASSUME Inv, [Next]_vars PROVE Inv'
  OBVIOUS
<1>0. TimesOK'
  BY TimesStep DEF Inv
<1>1. ASSUME NEW s \in Sessions, NEW sc \in Shortcodes \cup {Null}, NEW e \in BOOLEAN, Log(s, sc, e)
      PROVE  Inv'
  <2>1. PICK l : legs' = legs \cup {l}
    BY <1>1 DEF Log
  <2>2. IsFiniteSet(legs') /\ Cardinality(legs') <= Cardinality(legs) + 1 /\ Cardinality(legs) \in Nat
    <3>1. IsFiniteSet(legs) /\ Cardinality(legs) \in Nat
      BY FS_CardinalityType DEF Inv
    <3>2. IsFiniteSet(legs \cup {l})
          /\ Cardinality(legs \cup {l}) = IF l \in legs THEN Cardinality(legs) ELSE Cardinality(legs) + 1
      BY <3>1, FS_AddElement
    <3> QED
      BY <2>1, <3>1, <3>2
  <2>3. Cardinality(legs) < MaxLegs /\ MaxLegs \in Nat /\ Cardinality(legs') \in Nat
    BY <1>1, <2>2, FS_CardinalityType, ReportsAssumption DEF Log
  <2>4. Cardinality(legs') <= MaxLegs
    BY <2>2, <2>3
  <2> QED
    BY <1>0, <1>1, <2>2, <2>4 DEF Log, Inv
<1>2. CASE RefreshYesterday
  <2>1. \A d \in DOMAIN rollup : rollup'[d] = rollup[d] \/ rollup'[d] = Refreshed(DbDay(clock) - 1)
    BY <1>2 DEF RefreshYesterday
  <2>2. \A r \in Refreshed(DbDay(clock) - 1) : RowOK(r)
    BY SummarisedOK DEF Refreshed
  <2>3. DOMAIN rollup' = Days
    BY <1>2 DEF RefreshYesterday, Inv
  <2>4. \A d \in Days : \A r \in rollup'[d] : RowOK(r)
    BY <2>1, <2>2 DEF Inv
  <2> QED
    BY <1>0, <1>2, <2>3, <2>4 DEF RefreshYesterday, Inv, RowOK, Rollups
<1>3. CASE RefreshToday
  <2>1. mv'.rows = Summarised({l \in legs : LocalDay(l.ts) = LocalDay(clock)}) /\ mv'.day = LocalDay(clock)
    BY <1>3 DEF RefreshToday, Today
  <2>2. \A r \in mv'.rows : RowOK(r)
    BY <2>1, SummarisedOK
  <2>3. mv'.day \in Days
    BY <2>1, LocalDays DEF Inv, TimesOK
  <2> QED
    BY <1>0, <1>3, <2>2, <2>3 DEF RefreshToday, Inv, RowOK, Rollups
<1>4. ASSUME NEW w \in Windows, SetWindow(w) PROVE Inv'
  BY <1>0, <1>4 DEF SetWindow, Inv, RowOK, Rollups
<1>5. ASSUME NEW sc \in Shortcodes, HandOver(sc) PROVE Inv'
  BY <1>0, <1>5 DEF HandOver, Inv, RowOK, Rollups
<1>6. CASE Tick
  BY <1>0, <1>6 DEF Tick, Inv, RowOK, Rollups
<1>7. CASE UNCHANGED vars
  BY <1>0, <1>7 DEF vars, Inv, RowOK, Rollups
<1> QED
  BY <1>1, <1>2, <1>3, <1>4, <1>5, <1>6, <1>7 DEF Next

LEMMA Invariance == Spec => []Inv
  BY InvInit, InvStep, PTL DEF Spec

\* Every table holds what it may hold, and the rows of the rollups count at least
\* a leg and a unit for each session, and no more errors than sessions.
THEOREM ReportTypes == Spec => []TypeOK
<1>1. Inv => TypeOK
  <2> SUFFICES ASSUME Inv PROVE TypeOK
    OBVIOUS
  <2>1. \A r \in mv.rows \cup UNION {rollup[d] : d \in Days} : RowOK(r)
    BY DEF Inv
  <2> QED
    BY <2>1 DEF Inv, TimesOK, TypeOK, RowOK
<1> QED
  BY <1>1, Invariance, PTL

-----------------------------------------------------------------------------
(* The bills of the owner of all shortcodes.                               *)

\* The page, the export and the totals are made from the same legs.
LEMMA PageBills ==
  ASSUME Inv, NEW d \in Nat, NEW scs \in SUBSET Shortcodes, NEW ls, ls = SessionLegs(Of(scs), d, d, AllOwned)
  PROVE  LET page == SessionRows(Of(scs), d, d, AllOwned)
             bill == [s \in Sids(ls) |-> SummaryUnits(SpanOf(s, ls), window)] IN
         /\ ls \in SUBSET legs
         /\ BillableTotal(Of(scs), d, d, AllOwned) = Sum(bill, Sids(ls))
         /\ Sum(bill, Sids(ls)) \in Int
         /\ UnitsOf(page) = IF window = 0 THEN 0 ELSE Sum(bill, Sids(ls))
         /\ LegsIn(page) = Cardinality(ls) /\ Cardinality(page) = Cardinality(Sids(ls))
         /\ \A r \in page : r.legs <= Cardinality(LegsForSession(r, AllOwned))
         /\ scs = {} => ExportRows(Of(scs), d, d, AllOwned) = page
<1> DEFINE S == Sids(ls)
           n == [s \in S |-> RowUnits(SpanOf(s, ls), window)]
           bill == [s \in S |-> SummaryUnits(SpanOf(s, ls), window)]
           page == SessionRows(Of(scs), d, d, AllOwned)
<1>1. TimesOK /\ IsFiniteSet(legs) /\ window \in Nat
  BY ReportsAssumption DEF Inv
<1>2. ls \in SUBSET legs /\ \A l \in ls : l.sc # Null
  BY <1>1, LegsOfPage
<1>3. IsFiniteSet(S) /\ \A s \in S : LegsOfSid(ls, s) # {} /\ SpanOf(s, ls) \in Nat
  BY <1>1, <1>2, SidFacts
<1>4. \A s \in S : /\ n[s] \in Nat /\ bill[s] \in Nat
                   /\ n[s] = (IF window = 0 THEN 0 ELSE bill[s])
                   /\ n[s] = ExportUnits(SpanOf(s, ls), window)
  <2> SUFFICES ASSUME NEW s \in S
               PROVE  /\ n[s] \in Nat /\ bill[s] \in Nat
                      /\ n[s] = (IF window = 0 THEN 0 ELSE bill[s])
                      /\ n[s] = ExportUnits(SpanOf(s, ls), window)
    OBVIOUS
  <2>1. SpanOf(s, ls) \in Nat
    BY <1>3
  <2> QED
    BY <1>1, <2>1, Units
<1>5. page = {RowOf(s, ls, n[s]) : s \in S}
  BY DEF SessionRows, Sids
<1>6. BillableTotal(Of(scs), d, d, AllOwned) = Sum(bill, S)
  BY DEF BillableTotal, Sids, Sum, SumFunction
<1>7. Sum(bill, S) \in Int
  <2> HIDE DEF bill, S
  <2> QED
    BY <1>3, <1>4, SumInt
<1>8. UnitsOf(page) = Sum(n, S) /\ LegsIn(page) = Cardinality(ls) /\ Cardinality(page) = Cardinality(S)
  <2>1. \A s \in Sids(ls) : n[s] \in Nat
    BY <1>4
  <2> HIDE DEF n, page
  <2> QED
    BY <1>1, <1>2, <1>5, <2>1, PageSums
<1>9. Sum(n, S) = IF window = 0 THEN 0 ELSE Sum(bill, S)
  <2>1. \A s \in S : n[s] \in Int /\ bill[s] \in Int /\ n[s] = (IF window = 0 THEN 0 ELSE bill[s])
    BY <1>4
  <2> HIDE DEF n, bill, S
  <2>2. CASE window = 0
    BY <1>3, <2>1, <2>2, SumZeros
  <2>3. CASE window # 0
    <3>1. \A s \in S : n[s] \in Int /\ bill[s] = n[s]
      BY <2>1, <2>3
    <3>2. Sum(n, S) = Sum(bill, S)
      BY <1>3, <3>1, SumEqual
    <3> QED
      BY <2>3, <3>2
  <2> QED
    BY <2>2, <2>3
<1>10. ASSUME NEW r \in page PROVE r.legs <= Cardinality(LegsForSession(r, AllOwned))
  <2>1. PICK s \in S : r = RowOf(s, ls, n[s])
    BY <1>5
  <2>2. PICK own \in SUBSET legs : own = LegsOfSid(ls, s) /\ own # {} /\ \A l \in own : l.sc # Null /\ l.sid = s
    BY <1>2, <1>3 DEF LegsOfSid
  <2>3. r.sid = s /\ r.first = First(own) /\ r.last = Last(own) /\ r.legs = Cardinality(own)
    BY <2>1, <2>2 DEF RowOf, LegsOfSid
  <2>4. ASSUME NEW l \in own PROVE l \in LegsForSession(r, AllOwned)
    <3>1. First(own) \in Nat /\ Last(own) \in Nat /\ First(own) <= l.ts /\ l.ts <= Last(own) /\ l.ts \in Nat
      BY <1>1, <2>2, Spans, Times
    <3>2. DetailPad \in Nat
      BY ReportsAssumption
    <3>3. r.first - DetailPad <= l.ts /\ l.ts <= r.last + DetailPad
      BY <2>3, <3>1, <3>2
    <3>4. Visible(AllOwned, l)
      BY <1>1, <2>2, OwnerSees
    <3> QED
      BY <2>2, <2>3, <3>3, <3>4 DEF LegsForSession
  <2>5. own \in SUBSET LegsForSession(r, AllOwned) /\ LegsForSession(r, AllOwned) \in SUBSET legs
    BY <2>4 DEF LegsForSession
  <2>6. IsFiniteSet(LegsForSession(r, AllOwned))
    BY <1>1, <2>5, FS_Subset
  <2> QED
    BY <2>3, <2>5, <2>6, FS_Subset
<1>11. ASSUME scs = {} PROVE ExportRows(Of(scs), d, d, AllOwned) = page
  <2>1. LegConds(Of(scs), d, d, AllOwned, 0) = ls
    BY <1>1, <1>11, LegsOfDay, LegsOfPage
  <2>2. ExportRows(Of(scs), d, d, AllOwned) = {RowOf(s, ls, ExportUnits(SpanOf(s, ls), window)) : s \in S}
    BY <2>1 DEF ExportRows, Sids
  <2> QED
    BY <1>4, <1>5, <2>2
<1> HIDE DEF n
<1> QED
  BY <1>2, <1>6, <1>7, <1>8, <1>9, <1>10, <1>11

LEMMA WholeSplits ==
  ASSUME Whole, NEW D \in SUBSET legs
  PROVE  \A l, m \in D : l.sc # Null /\ m.sc # Null /\ l.sid = m.sid => l.sc = m.sc
  BY DEF Whole

\* A rollup of the legs of a day, as they are, bills what the page of the day does.
LEMMA DayBills ==
  ASSUME Inv, Whole, NEW d \in Nat, NEW scs \in SUBSET Shortcodes,
         NEW D, D = {l \in legs : DbDay(l.ts) = d}
  PROVE  /\ UnitsOf(RowsOf(D, scs)) = BillableTotal(Of(scs), d, d, AllOwned)
         /\ SessionsIn(RowsOf(D, scs)) = Cardinality(SessionRows(Of(scs), d, d, AllOwned))
         /\ UnitsOf(RowsOf(D, scs)) \in Int
<1>1. TimesOK /\ IsFiniteSet(legs) /\ window \in Nat
  BY ReportsAssumption DEF Inv
<1>2. PICK ls : ls = SessionLegs(Of(scs), d, d, AllOwned)
  OBVIOUS
<1>3. ls = Mine(d, scs) /\ Mine(d, scs) = Under(D, scs)
  BY <1>1, <1>2, LegsOfPage DEF Mine, Under
<1> DEFINE bill == [s \in Sids(ls) |-> SummaryUnits(SpanOf(s, ls), window)]
           page == SessionRows(Of(scs), d, d, AllOwned)
<1>4. /\ BillableTotal(Of(scs), d, d, AllOwned) = Sum(bill, Sids(ls)) /\ Sum(bill, Sids(ls)) \in Int
      /\ Cardinality(page) = Cardinality(Sids(ls))
  BY <1>2, PageBills
<1>5. \A s \in Sids(ls) : bill[s] = SummaryUnits(SpanOf(s, ls), window)
  OBVIOUS
<1>6. D \in SUBSET legs /\ \A l, m \in D : l.sc # Null /\ m.sc # Null /\ l.sid = m.sid => l.sc = m.sc
  BY WholeSplits
<1> HIDE DEF bill, page
<1>7. /\ UnitsOf(RowsOf(D, scs)) = Sum(bill, Sids(ls))
      /\ SessionsIn(RowsOf(D, scs)) = Cardinality(Sids(ls))
  <2>1. \A s \in Sids(Under(D, scs)) : bill[s] = SummaryUnits(SpanOf(s, Under(D, scs)), window)
    BY <1>3, <1>5
  <2>2. /\ UnitsOf(RowsOf(D, scs)) = Sum(bill, Sids(Under(D, scs)))
        /\ SessionsIn(RowsOf(D, scs)) = Cardinality(Sids(Under(D, scs)))
    BY <1>1, <1>6, <2>1, RollupSums
  <2> QED
    BY <1>3, <2>2
<1> QED
  BY <1>4, <1>7 DEF page

\* A count over a single day.
LEMMA SumOfOne ==
  ASSUME NEW d, NEW n, n \in Int, NEW f, f = [x \in {d} |-> n]
  PROVE  SumFunction(f) = n
<1>1. IsFiniteSet({d}) /\ {d} \ {d} = {} /\ IsFiniteSet({})
  BY FS_Singleton, FS_EmptySet
<1>2. \A x \in {d} : f[x] \in Int
  OBVIOUS
<1>3. Sum(f, {d}) = f[d] + Sum(f, {d} \ {d})
  BY <1>1, <1>2, SumRemove
<1>4. Sum(f, {}) = 0
  BY <1>1, SumStep
<1> QED
  BY <1>1, <1>3, <1>4 DEF Sum, SumFunction

\* Whatever the traffic, the windows and the days: the rows of the session page,
\* its grand total, the export of the day and, where the rollup is fresh and no
\* session changed its shortcode or crossed midnight, the rollup, the fast count
\* and the overview bill the owner of all shortcodes the same (loadSessionPage,
\* loadBillableSummary, the export worker, db/023 and db/033).
THEOREM BillsAgree == Spec => []OwnersBillsAgree
<1>1. Inv => OwnersBillsAgree
  <2> SUFFICES ASSUME Inv, NEW d \in Days, NEW scs \in SUBSET Shortcodes,
                      NEW page, page = SessionRows(Of(scs), d, d, AllOwned),
                      NEW rows, rows = {r \in DayRows(d, AllOwned) : scs = {} \/ r.sc \in scs}
               PROVE  /\ \A r \in page : r.legs <= Cardinality(LegsForSession(r, AllOwned))
                      /\ scs = {} => ExportRows(Of(scs), d, d, AllOwned) = page
                      /\ UnitsOf(page) = IF window = 0 THEN 0 ELSE BillableTotal(Of(scs), d, d, AllOwned)
                      /\ Whole => Cardinality(ReportRows(Of(scs), d, d, AllOwned)) = LegsIn(page)
                      /\ rollup[d] = Refreshed(d) /\ Whole =>
                           /\ RollupCount(Of(scs), d, d, AllOwned) = Cardinality(page)
                           /\ UnitsOf(rows) = BillableTotal(Of(scs), d, d, AllOwned)
                           /\ d < LocalDay(clock) /\ mv.day # d /\ scs = {} =>
                                DailyTraffic(d, AllOwned) = BillableTotal(Of(scs), d, d, AllOwned)
                      /\ d = LocalDay(clock) /\ zone = Eat /\ mv = Today /\ Whole /\ scs = {} =>
                           DailyTraffic(d, AllOwned) = BillableTotal(Of(scs), d, d, AllOwned)
    BY DEF OwnersBillsAgree, Of, AllOwned, Whole
  <2>1. d \in Nat /\ TimesOK /\ IsFiniteSet(legs)
    BY DEF Days, Inv
  <2>2. PICK ls : ls = SessionLegs(Of(scs), d, d, AllOwned)
    OBVIOUS
  <2>3. /\ UnitsOf(page) = IF window = 0 THEN 0 ELSE BillableTotal(Of(scs), d, d, AllOwned)
        /\ LegsIn(page) = Cardinality(ls)
        /\ \A r \in page : r.legs <= Cardinality(LegsForSession(r, AllOwned))
        /\ scs = {} => ExportRows(Of(scs), d, d, AllOwned) = page
    BY <2>1, <2>2, PageBills
  <2>4. Whole => Cardinality(ReportRows(Of(scs), d, d, AllOwned)) = LegsIn(page)
    BY <2>1, <2>2, <2>3, LegsOfDay, LegsOfPage DEF ReportRows
  <2>5. ASSUME rollup[d] = Refreshed(d), Whole
        PROVE  /\ RollupCount(Of(scs), d, d, AllOwned) = Cardinality(page)
               /\ UnitsOf(rows) = BillableTotal(Of(scs), d, d, AllOwned)
               /\ d < LocalDay(clock) /\ mv.day # d /\ scs = {} =>
                    DailyTraffic(d, AllOwned) = BillableTotal(Of(scs), d, d, AllOwned)
    <3>1. PICK D : D = {l \in legs : DbDay(l.ts) = d}
      OBVIOUS
    <3>2. rows = RowsOf(D, scs)
      BY <2>1, <2>5, <3>1, OwnerSees DEF DayRows, Refreshed, RowsOf
    <3>3. /\ UnitsOf(rows) = BillableTotal(Of(scs), d, d, AllOwned) /\ UnitsOf(rows) \in Int
          /\ SessionsIn(rows) = Cardinality(page)
      BY <2>1, <2>5, <3>1, <3>2, DayBills
    <3>4. Cardinality(page) \in Nat
      <4>1. ls \in SUBSET legs /\ Cardinality(page) = Cardinality(Sids(ls))
        BY <2>1, <2>2, PageBills
      <4> QED
        BY <2>1, <4>1, SidFacts, FS_CardinalityType
    <3>5. RollupCount(Of(scs), d, d, AllOwned) = Cardinality(page)
      <4>1. Of(scs).scs = scs /\ d .. d = {d}
        BY <2>1 DEF Of, NoFilter
      <4>2. rows = {r \in DayRows(d, AllOwned) : Of(scs).scs = {} \/ r.sc \in Of(scs).scs}
        BY <4>1
      <4>3. PICK f : f = [x \in {d} |-> SessionsIn({r \in DayRows(x, AllOwned) : Of(scs).scs = {} \/ r.sc \in Of(scs).scs})]
        OBVIOUS
      <4>4. f = [x \in {d} |-> SessionsIn(rows)]
        BY <4>2, <4>3
      <4>5. SumFunction(f) = SessionsIn(rows)
        BY <3>3, <3>4, <4>4, SumOfOne
      <4>6. RollupCount(Of(scs), d, d, AllOwned) = SumFunction(f)
        BY <4>1, <4>3 DEF RollupCount
      <4> QED
        BY <3>3, <4>5, <4>6
    <3>6. ASSUME d < LocalDay(clock), mv.day # d, scs = {}
          PROVE  DailyTraffic(d, AllOwned) = BillableTotal(Of(scs), d, d, AllOwned)
      <4>1. DayRows(d, AllOwned) = rows
        BY <3>6
      <4>2. DailyTraffic(d, AllOwned) = UnitsOf(rows) + 0
        BY <3>6, <4>1 DEF DailyTraffic
      <4> QED
        BY <3>3, <4>2
    <3> QED
      BY <3>3, <3>5, <3>6
  <2>6. ASSUME d = LocalDay(clock), zone = Eat, mv = Today, Whole, scs = {}
        PROVE  DailyTraffic(d, AllOwned) = BillableTotal(Of(scs), d, d, AllOwned)
    <3>1. PICK D : D = {l \in legs : DbDay(l.ts) = d}
      OBVIOUS
    <3>2. mv.day = d /\ mv.rows = Summarised(D)
      <4>1. D = {l \in legs : LocalDay(l.ts) = LocalDay(clock)}
        BY <2>6, <3>1 DEF DbDay, LocalDay
      <4> QED
        BY <2>6, <4>1 DEF Today
    <3>3. TodayRows(AllOwned) = RowsOf(D, scs)
      BY <2>1, <2>6, <3>2, OwnerSees DEF TodayRows, RowsOf
    <3>4. UnitsOf(TodayRows(AllOwned)) = BillableTotal(Of(scs), d, d, AllOwned) /\ UnitsOf(TodayRows(AllOwned)) \in Int
      BY <2>1, <2>6, <3>1, <3>3, DayBills
    <3>5. ~(d < LocalDay(clock))
      BY <2>1, <2>6
    <3> QED
      BY <3>2, <3>4, <3>5 DEF DailyTraffic
  <2> QED
    BY <2>3, <2>4, <2>5, <2>6
<1> QED
  BY <1>1, Invariance, PTL
===============================================================================
