-------------------------- MODULE ExportJobsProofs --------------------------
(***************************************************************************)
(* Theorems about ExportJobs, for any number of workers, exports, chunks   *)
(* and restarts, any limits and any choice of hazards.                     *)
(***************************************************************************)
EXTENDS ExportJobs, TLAPS

\* What the stages of the main loop allow each other.
Control ==
    \A w \in Worker :
        /\ proc[w].pc = "idle" <=> proc[w].job = None
        /\ proc[w].pc = "open" => proc[w].pos = 0
        /\ proc[w].pc = "chunk" => proc[w].pos < Chunks
        /\ "shutdown" \notin env => /\ proc[w].st # "stopping"
                                    /\ proc[w].pc \in {"close", "finalize"} => proc[w].pos = Chunks

\* The exports a worker deals with have been requested.
Swept(w) == sweep[w].todo \cup ({sweep[w].cur} \ {None})

Known ==
    \A w \in Worker :
        /\ proc[w].job # None => job[proc[w].job].status # "none"
        /\ \A j \in Swept(w) : job[j].status # "none"

\* A punctual attempt has its export running, and young enough for the reaper
\* to leave it alone, until it records the outcome.
Owned ==
    Punctual => \A w \in Worker : proc[w].job # None =>
        LET r == job[proc[w].job]
        IN  /\ r.status # "queued"
            /\ proc[w].pc # "fail" \/ "db_failure" \notin env => r.status = "running"
            /\ r.status = "running" => r.age <= ReapAfter

\* What the retention sweep has in hand will not be written again.
Sweeping ==
    Punctual => \A w \in Worker : \A j \in Swept(w) :
        /\ job[j].status \in {"ready", "expired"} \/ ("db_failure" \in env /\ job[j].status = "failed")
        /\ j \in sweep[w].todo /\ job[j].status = "ready" => job[j].age > Retention

\* A file that an attempt has open exists; a punctual attempt's file holds
\* the chunks it has written.
Writing ==
    \A w \in Worker : proc[w].pc \in {"chunk", "close", "finalize"} =>
        /\ proc[w].linked => file[proc[w].job] # NoFile
        /\ Punctual => proc[w].linked /\ file[proc[w].job] = 1 .. proc[w].pos

Inv == TypeOK /\ Control /\ Known /\ Owned /\ OneWriter /\ Sweeping /\ Writing /\ FileMatchesRow

-----------------------------------------------------------------------------
(* Facts about the records. *)

\* The constants are in range.
LEMMA Ranges ==
    /\ Job \subseteq Nat /\ None \notin Job /\ None \notin Whole
    /\ AgeCap \in Nat /\ AgeCap > ReapAfter /\ AgeCap > Retention
    /\ Chunks \in Nat \ {0} /\ ReapAfter \in Nat /\ Retention \in Nat /\ RestartLimit \in Nat
  BY ExportAssumption DEF Job, None, Whole, AgeCap

\* The records that stand for nothing.
LEMMA Blanks ==
    /\ NoJob \in JobRecord /\ NoJob.status = "none"
    /\ Idle \in ProcRecord /\ Idle.st = "up" /\ Idle.pos = 0
    /\ Down \in ProcRecord /\ Down.st = "down"
    /\ \A p \in {Idle, Down} : p.pc = "idle" /\ p.job = None
    /\ NoTick \in SweepRecord /\ NoTick.todo = {} /\ NoTick.cur = None
  <1>1. NoJob \in JobRecord /\ NoJob.status = "none"
    BY Ranges DEF NoJob, JobRecord, JobStatus
  <1>2. Idle \in ProcRecord /\ Idle.st = "up" /\ Idle.pos = 0 /\ Idle.pc = "idle" /\ Idle.job = None
    BY Ranges DEF Idle, ProcRecord, Stage
  <1>3. Down \in ProcRecord /\ Down.st = "down" /\ Down.pc = "idle" /\ Down.job = None
    BY <1>2 DEF Down, ProcRecord
  <1>4. NoTick \in SweepRecord /\ NoTick.todo = {} /\ NoTick.cur = None
    BY DEF NoTick, SweepRecord
  <1>. QED  BY <1>1, <1>2, <1>3, <1>4

\* The initial states satisfy the invariant.
LEMMA InvInit == Init => Inv
  <1> SUFFICES ASSUME Init PROVE Inv
    OBVIOUS
  <1>1. TypeOK
    <2>1. job \in [Job -> JobRecord]
      BY Blanks DEF Init
    <2>2. file \in [Job -> (SUBSET Whole) \cup {NoFile}]
      BY DEF Init
    <2>3. proc \in [Worker -> ProcRecord] /\ sweep \in [Worker -> SweepRecord]
      BY Blanks DEF Init
    <2>. QED  BY <2>1, <2>2, <2>3, Ranges DEF Init, TypeOK
  <1>2. \A w \in Worker : /\ proc[w].pc = "idle" /\ proc[w].job = None /\ proc[w].st = "up"
                          /\ Swept(w) = {}
    BY Blanks DEF Init, Swept
  <1>3. \A j \in Job : job[j].status = "none"
    BY Blanks DEF Init
  <1>4. Control /\ Known /\ Owned /\ OneWriter /\ Sweeping /\ Writing /\ FileMatchesRow
    BY <1>2, <1>3, Ranges DEF Control, Known, Owned, OneWriter, Sweeping, Writing, FileMatchesRow
  <1>. QED  BY <1>1, <1>4 DEF Inv

-----------------------------------------------------------------------------
(* The kinds of steps. *)

\* A worker drops what it has in hand: it dies, exits, starts or gives up.
LEMMA Leaving ==
    ASSUME Inv, NEW w \in Worker, NEW p \in ProcRecord, NEW x \in SweepRecord,
           p.pc = "idle", p.job = None, "shutdown" \notin env => p.st # "stopping",
           x = sweep[w] \/ x = NoTick,
           proc' = [proc EXCEPT ![w] = p], sweep' = [sweep EXCEPT ![w] = x],
           UNCHANGED <<job, file, env>>, restarts' \in 0 .. RestartLimit
    PROVE  Inv'
  <1>1. proc' \in [Worker -> ProcRecord] /\ \A v \in Worker : proc'[v] = IF v = w THEN p ELSE proc[v]
    BY DEF Inv, TypeOK
  <1>2. sweep' \in [Worker -> SweepRecord] /\ \A v \in Worker : sweep'[v] = IF v = w THEN x ELSE sweep[v]
    BY DEF Inv, TypeOK
  <1>3. TypeOK'
    BY <1>1, <1>2 DEF Inv, TypeOK
  <1>4. \A v \in Worker : Swept(v)' \subseteq Swept(v) /\ sweep'[v].todo \subseteq sweep[v].todo
    BY <1>2, Blanks DEF Swept
  <1>5. Control' /\ OneWriter'
    BY <1>1, Ranges DEF Inv, Control, OneWriter, Punctual
  <1>6. Known'
    BY <1>1, <1>4 DEF Inv, Known
  <1>7. Owned' /\ Writing' /\ FileMatchesRow'
    BY <1>1 DEF Inv, Owned, Writing, FileMatchesRow, Punctual
  <1>8. Sweeping'
    BY <1>4 DEF Inv, Sweeping, Punctual
  <1>. QED  BY <1>3, <1>5, <1>6, <1>7, <1>8 DEF Inv

\* A worker goes on with its export, and may have changed its file.
LEMMA Proceeding ==
    ASSUME Inv, NEW w \in Worker, NEW p \in ProcRecord, NEW f \in (SUBSET Whole) \cup {NoFile},
           proc[w].pc \in {"open", "chunk", "close", "finalize"},
           p.pc \in {"chunk", "close", "finalize", "fail"},
           p.job = proc[w].job, p.st = proc[w].st,
           p.pc = "chunk" => p.pos < Chunks,
           "shutdown" \notin env /\ p.pc \in {"close", "finalize"} => p.pos = Chunks,
           p.pc \in {"chunk", "close", "finalize"} =>
               /\ p.linked => f # NoFile
               /\ Punctual => p.linked /\ f = 1 .. p.pos,
           file[proc[w].job] # NoFile => f # NoFile,
           proc' = [proc EXCEPT ![w] = p], file' = [file EXCEPT ![proc[w].job] = f],
           UNCHANGED <<job, sweep, restarts, env>>
    PROVE  Inv'
  <1> DEFINE own == proc[w].job
  <1>1. own \in Job /\ p.job = own
    BY DEF Inv, TypeOK, Control, ProcRecord
  <1>2. proc' \in [Worker -> ProcRecord] /\ \A v \in Worker : proc'[v] = IF v = w THEN p ELSE proc[v]
    BY DEF Inv, TypeOK
  <1>3. /\ file' \in [Job -> (SUBSET Whole) \cup {NoFile}]
        /\ \A j \in Job : file'[j] = IF j = own THEN f ELSE file[j]
    BY <1>1 DEF Inv, TypeOK
  <1>4. TypeOK'
    BY <1>2, <1>3 DEF Inv, TypeOK
  <1>5. \A v \in Worker : Swept(v)' = Swept(v)
    BY DEF Swept
  <1>6. Punctual => job[own].status = "running" /\ \A v \in Worker : proc[v].job = own => v = w
    BY <1>1, Ranges DEF Inv, Owned, OneWriter
  <1>7. Control'
    BY <1>1, <1>2, Ranges DEF Inv, Control
  <1>8. OneWriter' /\ Owned'
    BY <1>1, <1>2 DEF Inv, OneWriter, Owned, Punctual
  <1>9. Known' /\ Sweeping'
    BY <1>1, <1>2, <1>5 DEF Inv, Known, Sweeping, Punctual
  <1>10. Writing'
    <2> SUFFICES ASSUME NEW v \in Worker, proc'[v].pc \in {"chunk", "close", "finalize"}
                 PROVE  /\ proc'[v].linked => file'[proc'[v].job] # NoFile
                        /\ Punctual => proc'[v].linked /\ file'[proc'[v].job] = 1 .. proc'[v].pos
      BY DEF Writing, Punctual
    <2>1. CASE v = w
      BY <2>1, <1>1, <1>2, <1>3
    <2>2. CASE v # w
      <3>1. proc'[v] = proc[v] /\ proc[v].job \in Job /\ (Punctual => proc[v].job # own)
        BY <2>2, <1>2, <1>6 DEF Inv, TypeOK, Control, ProcRecord
      <3>2. CASE proc[v].job = own
        BY <3>1, <3>2, <1>3 DEF Inv, Writing
      <3>3. CASE proc[v].job # own
        BY <3>1, <3>3, <1>3 DEF Inv, Writing
      <3>. QED  BY <3>2, <3>3
    <2>. QED  BY <2>1, <2>2
  <1>11. FileMatchesRow'
    BY <1>3, <1>6 DEF Inv, FileMatchesRow, Punctual
  <1>. QED  BY <1>4, <1>7, <1>8, <1>9, <1>10, <1>11 DEF Inv

\* A worker records the outcome of its export, and may not learn that it has.
LEMMA Recording ==
    ASSUME Inv, NEW w \in Worker, NEW p \in ProcRecord, NEW r \in JobRecord,
           proc[w].pc \in {"finalize", "fail"},
           r.status \in {"ready", "failed"},
           r.status = "ready" => proc[w].pc = "finalize" /\ r.age = 0 /\ r.rows = proc[w].pos,
           \/ p.pc = "idle" /\ p.job = None
           \/ p.pc = "fail" /\ p.job = proc[w].job /\ "db_failure" \in env,
           p.st = proc[w].st,
           proc' = [proc EXCEPT ![w] = p], job' = [job EXCEPT ![proc[w].job] = r],
           UNCHANGED <<file, sweep, restarts, env>>
    PROVE  Inv'
  <1> DEFINE own == proc[w].job
  <1>1. own \in Job
    BY DEF Inv, TypeOK, Control, ProcRecord
  <1>2. proc' \in [Worker -> ProcRecord] /\ \A v \in Worker : proc'[v] = IF v = w THEN p ELSE proc[v]
    BY DEF Inv, TypeOK
  <1>3. /\ job' \in [Job -> JobRecord]
        /\ \A j \in Job : job'[j] = IF j = own THEN r ELSE job[j]
    BY <1>1 DEF Inv, TypeOK
  <1>4. TypeOK'
    BY <1>2, <1>3 DEF Inv, TypeOK
  <1>5. \A v \in Worker : Swept(v)' = Swept(v) /\ Swept(v) \subseteq Job
    BY DEF Swept, Inv, TypeOK, SweepRecord
  <1>6. Punctual => \A v \in Worker : proc[v].job = own => v = w
    BY <1>1 DEF Inv, OneWriter
  <1>7. Control'
    BY <1>1, <1>2, Ranges DEF Inv, Control
  <1>8. OneWriter' /\ Writing'
    BY <1>1, <1>2, Ranges DEF Inv, OneWriter, Writing, Punctual
  <1>9. Known'
    <2>1. \A j \in Job : job[j].status # "none" => job'[j].status # "none"
      BY <1>3
    <2>2. \A v \in Worker : proc'[v].job # None => proc'[v].job = proc[v].job /\ proc[v].job \in Job
      BY <1>1, <1>2, Ranges DEF Inv, TypeOK, ProcRecord
    <2>. QED  BY <2>1, <2>2, <1>5 DEF Inv, Known
  <1>10. Owned'
    <2> SUFFICES ASSUME Punctual, NEW v \in Worker, proc'[v].job # None
                 PROVE  LET s == job'[proc'[v].job]
                        IN  /\ s.status # "queued"
                            /\ proc'[v].pc # "fail" \/ "db_failure" \notin env => s.status = "running"
                            /\ s.status = "running" => s.age <= ReapAfter
      BY DEF Owned, Punctual
    <2>1. CASE v = w
      BY <2>1, <1>1, <1>2, <1>3
    <2>2. CASE v # w
      <3>1. proc'[v] = proc[v] /\ proc[v].job \in Job /\ proc[v].job # own
        BY <2>2, <1>2, <1>6 DEF Inv, TypeOK, ProcRecord
      <3>. QED  BY <3>1, <1>3 DEF Inv, Owned
    <2>. QED  BY <2>1, <2>2
  <1>11. Sweeping'
    <2>1. Punctual /\ ~("db_failure" \in env /\ proc[w].pc = "fail") => job[own].status = "running"
      BY <1>1, Ranges DEF Inv, Owned
    <2>2. \A v \in Worker, j \in Job :
             Punctual /\ j \in Swept(v) /\ j = own => "db_failure" \in env /\ r.status = "failed"
      BY <2>1 DEF Inv, Sweeping
    <2>. QED  BY <2>2, <1>3, <1>5 DEF Inv, Sweeping, Punctual
  <1>12. FileMatchesRow'
    <2>1. Punctual /\ r.status = "ready" =>
            /\ file[own] = 1 .. r.rows
            /\ "shutdown" \notin env => r.rows = Chunks
      BY <1>1 DEF Inv, Writing, Control
    <2>. QED  BY <2>1, <1>3 DEF Inv, FileMatchesRow, Punctual
  <1>. QED  BY <1>4, <1>7, <1>8, <1>9, <1>10, <1>11, <1>12 DEF Inv

\* The rows change in a way that concerns no attempt and no sweep: what a
\* worker has in hand keeps its status, and a ready row only grows older.
LEMMA Elsewhere ==
    ASSUME Inv, job' \in [Job -> JobRecord],
           \A j \in Job : job[j].status # "none" => job'[j].status # "none",
           Punctual => \A v \in Worker : proc[v].job # None =>
               LET r == job[proc[v].job]
                   s == job'[proc[v].job]
               IN  s.status = r.status /\ (s.status = "running" => s.age <= ReapAfter),
           Punctual => \A j \in Job :
               job'[j].status \in {"ready", "expired", "failed"}
                   \/ job[j].status \in {"ready", "expired", "failed"} =>
                 job'[j].status = job[j].status,
           \A j \in Job : job'[j].status = "ready" /\ job[j].status = "ready" =>
               job'[j].age >= job[j].age /\ job'[j].rows = job[j].rows,
           UNCHANGED <<file, proc, sweep, restarts, env>>
    PROVE  Inv'
  <1>1. TypeOK' /\ Control' /\ OneWriter' /\ Writing'
    BY DEF Inv, TypeOK, Control, OneWriter, Writing, Punctual
  <1>2. \A v \in Worker : /\ Swept(v)' = Swept(v) /\ Swept(v) \subseteq Job
                          /\ proc[v].job \in Job \cup {None}
    BY DEF Swept, Inv, TypeOK, SweepRecord, ProcRecord
  <1>3. Known'
    BY <1>2 DEF Inv, Known
  <1>4. Owned'
    BY <1>2 DEF Inv, Owned, Punctual
  <1>5. \A j \in Job : job[j] \in JobRecord /\ job'[j] \in JobRecord
    BY DEF Inv, TypeOK
  <1>6. Sweeping'
    <2> SUFFICES ASSUME Punctual, NEW v \in Worker, NEW j \in Swept(v)
                 PROVE  /\ \/ job'[j].status \in {"ready", "expired"}
                           \/ "db_failure" \in env /\ job'[j].status = "failed"
                        /\ j \in sweep[v].todo /\ job'[j].status = "ready" => job'[j].age > Retention
      BY <1>2 DEF Sweeping, Punctual
    <2>1. /\ j \in Job /\ job'[j].status = job[j].status
          /\ \/ job[j].status \in {"ready", "expired"}
             \/ "db_failure" \in env /\ job[j].status = "failed"
          /\ j \in sweep[v].todo /\ job[j].status = "ready" => job[j].age > Retention
      BY <1>2 DEF Inv, Sweeping
    <2>. QED  BY <2>1, <1>5, Ranges DEF JobRecord
  <1>7. FileMatchesRow'
    <2> SUFFICES ASSUME Punctual, NEW j \in Job, job'[j].status = "ready", job'[j].age <= Retention
                 PROVE  /\ file[j] = 1 .. job'[j].rows
                        /\ "shutdown" \notin env => job'[j].rows = Chunks
      BY DEF FileMatchesRow, Punctual
    <2>1. /\ job[j].status = "ready" /\ job'[j].rows = job[j].rows
          /\ job'[j].age >= job[j].age
      OBVIOUS
    <2>2. job[j].age <= Retention
      BY <2>1, <1>5, Ranges DEF JobRecord
    <2>. QED  BY <2>1, <2>2 DEF Inv, FileMatchesRow
  <1>. QED  BY <1>1, <1>3, <1>4, <1>6, <1>7 DEF Inv

-----------------------------------------------------------------------------
(* The steps themselves. *)

\* A new export is in nobody's hands.
LEMMA EnqueueStep == ASSUME Inv, NEW i \in Job, Enqueue(i) PROVE Inv'
  <1> DEFINE r == [NoJob EXCEPT !.status = "queued"]
  <1>1. r \in JobRecord /\ r.status = "queued"
    BY Blanks DEF JobRecord, JobStatus
  <1>2. /\ job' \in [Job -> JobRecord]
        /\ \A j \in Job : job'[j] = IF j = i THEN r ELSE job[j]
    BY <1>1 DEF Enqueue, Inv, TypeOK
  <1>3. job[i].status = "none" /\ \A v \in Worker : proc[v].job # i
    BY Ranges DEF Enqueue, Inv, Known
  <1>4. \A v \in Worker : proc[v].job \in Job \cup {None}
    BY DEF Inv, TypeOK, ProcRecord
  <1>5. \A j \in Job : job[j] \in JobRecord
    BY DEF Inv, TypeOK
  <1>6. \A v \in Worker : Punctual /\ proc[v].job # None =>
          LET x == job[proc[v].job]
              y == job'[proc[v].job]
          IN  y.status = x.status /\ (y.status = "running" => y.age <= ReapAfter)
    BY <1>2, <1>3, <1>4 DEF Inv, Owned
  <1>7. \A j \in Job : job'[j].status = "ready" /\ job[j].status = "ready" =>
               job'[j].age >= job[j].age /\ job'[j].rows = job[j].rows
    BY <1>1, <1>2, <1>5 DEF JobRecord
  <1>. HIDE DEF r
  <1>8. UNCHANGED <<file, proc, sweep, restarts, env>>
    BY DEF Enqueue
  <1>. QED  BY <1>1, <1>2, <1>3, <1>6, <1>7, <1>8, Elsewhere

\* The reaper leaves punctual attempts alone.
LEMMA ReapStep == ASSUME Inv, NEW w \in Worker, Reap(w) PROVE Inv'
  <1>1. \A j \in Job : job[j] \in JobRecord
    BY DEF Inv, TypeOK
  <1>2. /\ job' \in [Job -> JobRecord]
        /\ \A j \in Job : \/ job'[j] = job[j]
                          \/ j \in Stale /\ job'[j].status = "queued"
    <2>1. \A j \in Job : LET r == [job[j] EXCEPT !.status = "queued", !.age = 0]
                        IN  r \in JobRecord /\ r.status = "queued"
      <3>1. 0 \in 0 .. AgeCap /\ "queued" \in JobStatus
        BY Ranges DEF JobStatus
      <3>. QED  BY <3>1, <1>1 DEF JobRecord
    <2>. QED  BY <2>1, <1>1 DEF Reap
  <1>3. \A j \in Stale : job[j].status = "running" /\ job[j].age > ReapAfter
    BY DEF Stale
  <1>4. \A v \in Worker : proc[v].job \in Job \cup {None}
    BY DEF Inv, TypeOK, ProcRecord
  <1>5. \A v \in Worker : Punctual /\ proc[v].job # None =>
          LET x == job[proc[v].job]
              y == job'[proc[v].job]
          IN  y.status = x.status /\ (y.status = "running" => y.age <= ReapAfter)
    <2> SUFFICES ASSUME NEW v \in Worker, Punctual, proc[v].job # None
                 PROVE  /\ job'[proc[v].job] = job[proc[v].job]
                        /\ job[proc[v].job].status = "running" => job[proc[v].job].age <= ReapAfter
      OBVIOUS
    <2>1. proc[v].job \in Job /\ job[proc[v].job] \in JobRecord
      BY <1>1, <1>4
    <2>2. job[proc[v].job].status = "running" => job[proc[v].job].age <= ReapAfter
      BY DEF Inv, Owned
    <2>3. proc[v].job \notin Stale
      BY <2>1, <2>2, <1>3, Ranges DEF JobRecord
    <2>. QED  BY <2>1, <2>2, <2>3, <1>2
  <1>6. \A j \in Job : job'[j].status = "ready" /\ job[j].status = "ready" =>
               job'[j].age >= job[j].age /\ job'[j].rows = job[j].rows
    BY <1>1, <1>2 DEF JobRecord
  <1>7. UNCHANGED <<file, proc, sweep, restarts, env>>
    BY DEF Reap
  <1>. QED  BY <1>2, <1>3, <1>5, <1>6, <1>7, Elsewhere

\* Time passes for the rows, up to the limit for a punctual attempt.
LEMMA TickStep == ASSUME Inv, Tick PROVE Inv'
  <1>1. \A j \in Job : job[j] \in JobRecord
    BY DEF Inv, TypeOK
  <1>2. /\ job' \in [Job -> JobRecord]
        /\ \A j \in Job : /\ job'[j].status = job[j].status
                          /\ job'[j].rows = job[j].rows
                          /\ job'[j].age \in {job[j].age, job[j].age + 1}
    <2>1. \A j \in Job : Aged(job[j]) \in JobRecord /\ Aged(job[j]).status = job[j].status
                            /\ Aged(job[j]).rows = job[j].rows
                            /\ Aged(job[j]).age \in {job[j].age, job[j].age + 1}
      BY <1>1, Ranges DEF Aged, JobRecord
    <2>. QED  BY <2>1 DEF Tick
  <1>3. \A v \in Worker : proc[v].job \in Job \cup {None}
    BY DEF Inv, TypeOK, ProcRecord
  <1>4. \A v \in Worker : Punctual /\ proc[v].job # None =>
          LET x == job[proc[v].job]
              y == job'[proc[v].job]
          IN  y.status = x.status /\ (y.status = "running" => y.age <= ReapAfter)
    <2> SUFFICES ASSUME NEW v \in Worker, Punctual, proc[v].job # None
                 PROVE  LET x == job[proc[v].job]
                            y == job'[proc[v].job]
                        IN  y.status = x.status /\ (y.status = "running" => y.age <= ReapAfter)
      OBVIOUS
    <2>1. proc[v].job \in Job /\ job[proc[v].job] \in JobRecord
      BY <1>1, <1>3
    <2>2. job[proc[v].job].status = "running" => job[proc[v].job].age < ReapAfter
      BY <2>1 DEF Tick, Attempts, Punctual
    <2>3. job[proc[v].job].age \in Nat
      BY <2>1, Ranges DEF JobRecord
    <2>4. job'[proc[v].job].status = job[proc[v].job].status
      BY <2>1, <1>2
    <2>5. job'[proc[v].job].age \in {job[proc[v].job].age, job[proc[v].job].age + 1}
      BY <2>1, <1>2
    <2>. QED  BY <2>2, <2>3, <2>4, <2>5, Ranges
  <1>5. \A j \in Job : job'[j].age >= job[j].age
    BY <1>1, <1>2 DEF JobRecord
  <1>6. UNCHANGED <<file, proc, sweep, restarts, env>>
    BY DEF Tick
  <1>. QED  BY <1>2, <1>4, <1>5, <1>6, Elsewhere

\* A queued export is in nobody's hands; the one who claims it starts afresh.
LEMMA ClaimStep == ASSUME Inv, NEW w \in Worker, Claim(w) PROVE Inv'
  <1>1. PICK i \in Job : /\ job[i].status = "queued"
                         /\ job' = [job EXCEPT ![i].status = "running", ![i].age = 0]
                         /\ proc' = [proc EXCEPT ![w] = [Idle EXCEPT !.pc = "open", !.job = i]]
    BY DEF Claim
  <1> DEFINE p == [Idle EXCEPT !.pc = "open", !.job = i]
             r == [job[i] EXCEPT !.status = "running", !.age = 0]
  <1>2. p \in ProcRecord /\ p.pc = "open" /\ p.job = i /\ p.pos = 0 /\ p.st = "up"
    BY Blanks, Ranges DEF ProcRecord, Stage
  <1>3. r \in JobRecord /\ r.status = "running" /\ r.age = 0
    <2>1. job[i] \in JobRecord /\ 0 \in 0 .. AgeCap /\ "running" \in JobStatus
      BY Ranges DEF Inv, TypeOK, JobStatus
    <2>. QED  BY <2>1 DEF JobRecord
  <1>4. job' = [job EXCEPT ![i] = r]
    BY <1>1 DEF Inv, TypeOK
  <1>5. proc' = [proc EXCEPT ![w] = p]
    BY <1>1
  <1>. HIDE DEF p, r
  <1>6. proc' \in [Worker -> ProcRecord] /\ \A v \in Worker : proc'[v] = IF v = w THEN p ELSE proc[v]
    BY <1>2, <1>5 DEF Inv, TypeOK
  <1>7. /\ job' \in [Job -> JobRecord]
        /\ \A j \in Job : job'[j] = IF j = i THEN r ELSE job[j]
    BY <1>3, <1>4 DEF Inv, TypeOK
  <1>8. UNCHANGED <<file, sweep, restarts, env>>
    BY DEF Claim
  <1>9. TypeOK'
    BY <1>6, <1>7, <1>8 DEF Inv, TypeOK
  <1>10. \A v \in Worker : /\ Swept(v)' = Swept(v) /\ Swept(v) \subseteq Job
                           /\ proc[v].job \in Job \cup {None}
    BY <1>8 DEF Swept, Inv, TypeOK, SweepRecord, ProcRecord
  <1>11. Punctual => \A v \in Worker : proc[v].job # i
    BY <1>1, Ranges DEF Inv, Owned
  <1>12. Control'
    BY <1>2, <1>6, <1>8, Ranges DEF Inv, Control
  <1>13. OneWriter'
    BY <1>2, <1>6, <1>8, <1>11 DEF Inv, OneWriter, Punctual
  <1>14. Known'
    BY <1>2, <1>3, <1>6, <1>7, <1>8, <1>10 DEF Inv, Known
  <1>15. Owned'
    <2> SUFFICES ASSUME Punctual, NEW v \in Worker, proc'[v].job # None
                 PROVE  LET s == job'[proc'[v].job]
                        IN  /\ s.status # "queued"
                            /\ proc'[v].pc # "fail" \/ "db_failure" \notin env => s.status = "running"
                            /\ s.status = "running" => s.age <= ReapAfter
      BY <1>8 DEF Owned, Punctual
    <2>1. CASE v = w
      BY <2>1, <1>2, <1>3, <1>6, <1>7, Ranges
    <2>2. CASE v # w
      <3>1. proc'[v] = proc[v] /\ proc[v].job \in Job /\ proc[v].job # i
        BY <2>2, <1>6, <1>10, <1>11
      <3>. QED  BY <3>1, <1>7 DEF Inv, Owned
    <2>. QED  BY <2>1, <2>2
  <1>16. Sweeping'
    <2>1. Punctual => \A v \in Worker : i \notin Swept(v)
      BY <1>1 DEF Inv, Sweeping
    <2>. QED  BY <2>1, <1>7, <1>8, <1>10 DEF Inv, Sweeping, Punctual
  <1>17. Writing'
    BY <1>2, <1>6, <1>8 DEF Inv, Writing, Punctual
  <1>18. FileMatchesRow'
    BY <1>3, <1>7, <1>8 DEF Inv, FileMatchesRow, Punctual
  <1>. QED  BY <1>9, <1>12, <1>13, <1>14, <1>15, <1>16, <1>17, <1>18 DEF Inv

\* Every step of an attempt proceeds, records or leaves.
LEMMA AttemptStep ==
    ASSUME Inv, NEW w \in Worker, Attempt(w) \/ StatementRaises(w) \/ StreamFails(w)
    PROVE  Inv'
  <1> DEFINE me == proc[w]
             own == proc[w].job
  <1>1. /\ me \in ProcRecord
        /\ me = [st |-> me.st, pc |-> me.pc, job |-> me.job, pos |-> me.pos, linked |-> me.linked]
        /\ me.pc # "idle" => own \in Job
    BY DEF Inv, TypeOK, Control, ProcRecord
  <1>2. /\ file = [file EXCEPT ![own] = file[own]]
        /\ me.pc # "idle" => file[own] \in (SUBSET Whole) \cup {NoFile}
    BY <1>1 DEF Inv, TypeOK
  <1>3. ASSUME Claim(w) PROVE Inv'
    BY <1>3, ClaimStep
  <1>4. ASSUME Open(w) PROVE Inv'
    <2> DEFINE p == [me EXCEPT !.pc = "chunk", !.linked = TRUE]
    <2>1. /\ p \in ProcRecord /\ p.pc = "chunk" /\ p.job = own /\ p.st = me.st /\ p.pos = me.pos
          /\ p.linked
      BY <1>1 DEF ProcRecord, Stage
    <2>2. /\ me.pc = "open"
          /\ proc' = [proc EXCEPT ![w] = p] /\ file' = [file EXCEPT ![own] = {}]
          /\ UNCHANGED <<job, sweep, restarts, env>>
      BY <1>4 DEF Open, Inv, TypeOK
    <2>3. p.pos = 0 /\ p.pos < Chunks /\ 1 .. p.pos = {}
      BY <2>1, <2>2, Ranges DEF Inv, Control
    <2>4. {} \in (SUBSET Whole) \cup {NoFile} /\ {} # NoFile
      BY DEF NoFile
    <2>. HIDE DEF p
    <2>. QED  BY <2>1, <2>2, <2>3, <2>4, Proceeding
  <1>5. ASSUME Chunk(w) PROVE Inv'
    <2> DEFINE n == me.pos + 1
               c == IF me.pos + 1 = Chunks THEN "close" ELSE "chunk"
               p == [me EXCEPT !.pos = n, !.pc = c]
               f == IF me.linked THEN file[own] \cup {me.pos + 1} ELSE file[own]
    <2>1. me.pc = "chunk" /\ me.pos \in Nat /\ me.pos < Chunks /\ own \in Job
      BY <1>1, <1>5 DEF Chunk, Inv, Control, ProcRecord
    <2>2. /\ p \in ProcRecord /\ p.job = own /\ p.st = me.st /\ p.pos = me.pos + 1 /\ p.linked = me.linked
          /\ p.pc = IF me.pos + 1 = Chunks THEN "close" ELSE "chunk"
      <3>1. n \in 0 .. Chunks /\ c \in Stage
        BY <2>1, Ranges DEF Stage
      <3>. HIDE DEF n, c
      <3>2. p \in ProcRecord /\ p.job = own /\ p.st = me.st /\ p.pos = n /\ p.linked = me.linked /\ p.pc = c
        BY <1>1, <3>1 DEF ProcRecord
      <3>. QED  BY <3>2 DEF n, c
    <2>. HIDE DEF p
    <2>3. Punctual => me.linked /\ file[own] = 1 .. me.pos
      BY <2>1 DEF Inv, Writing
    <2>4. f \in (SUBSET Whole) \cup {NoFile} /\ (me.linked => f # NoFile) /\ (Punctual => f = 1 .. p.pos)
      <3>1. /\ me.pos + 1 \in Whole /\ Whole \subseteq Nat /\ None \notin Whole
            /\ 1 .. (me.pos + 1) = (1 .. me.pos) \cup {me.pos + 1}
        BY <2>1, Ranges DEF Whole
      <3>2. /\ me.linked => file[own] # NoFile
            /\ file[own] \in (SUBSET Whole) \cup {NoFile}
        BY <1>2, <2>1 DEF Inv, Writing
      <3>. QED  BY <2>2, <2>3, <3>1, <3>2 DEF NoFile
    <2>5. /\ proc' = [proc EXCEPT ![w] = p] /\ file' = [file EXCEPT ![own] = f]
          /\ UNCHANGED <<job, sweep, restarts, env>>
      BY <1>5, <1>2, <2>1 DEF Chunk, p, Inv, TypeOK
    <2>6. p.pc = "chunk" => p.pos < Chunks
      BY <2>1, <2>2, Ranges
    <2>7. /\ p.pc \in {"chunk", "close"}
          /\ p.pc = "close" => p.pos = Chunks
          /\ file[own] # NoFile => f # NoFile
      BY <2>2, <2>1, <1>2, Ranges DEF Whole, NoFile
    <2>. HIDE DEF f
    <2>. QED  BY <2>1, <2>2, <2>3, <2>4, <2>5, <2>6, <2>7, Proceeding
  <1>6. ASSUME CutShort(w) PROVE Inv'
    <2> DEFINE p == [me EXCEPT !.pc = "close"]
    <2>1. /\ p \in ProcRecord /\ p.pc = "close" /\ p.job = own /\ p.st = me.st /\ p.pos = me.pos
          /\ p.linked = me.linked
      BY <1>1 DEF ProcRecord, Stage
    <2>2. /\ me.pc = "chunk" /\ "shutdown" \in env
          /\ proc' = [proc EXCEPT ![w] = p] /\ file' = [file EXCEPT ![own] = file[own]]
          /\ UNCHANGED <<job, sweep, restarts, env>>
      BY <1>2, <1>6 DEF CutShort, Inv, Control, TypeOK
    <2>. HIDE DEF p
    <2>3. /\ me.linked => file[own] # NoFile
          /\ Punctual => me.linked /\ file[own] = 1 .. me.pos
      BY <2>2 DEF Inv, Writing
    <2>. QED  BY <1>2, <2>1, <2>2, <2>3, Proceeding
  <1>7. ASSUME Close(w) PROVE Inv'
    <2> DEFINE c == IF file[own] = NoFile THEN "fail" ELSE "finalize"
               p == [me EXCEPT !.pc = c]
    <2>1. /\ p \in ProcRecord /\ p.pc = c /\ p.job = own /\ p.st = me.st /\ p.pos = me.pos
          /\ p.linked = me.linked
      BY <1>1 DEF ProcRecord, Stage
    <2>2. /\ me.pc = "close" /\ ("shutdown" \notin env => me.pos = Chunks)
          /\ proc' = [proc EXCEPT ![w] = p] /\ file' = [file EXCEPT ![own] = file[own]]
          /\ UNCHANGED <<job, sweep, restarts, env>>
      BY <1>2, <1>7 DEF Close, Inv, Control, TypeOK
    <2>3. /\ me.linked => file[own] # NoFile
          /\ Punctual => me.linked /\ file[own] = 1 .. me.pos
      BY <2>2 DEF Inv, Writing
    <2>4. c \in {"fail", "finalize"}
      OBVIOUS
    <2>. HIDE DEF p, c
    <2>. QED  BY <1>2, <2>1, <2>2, <2>3, <2>4, Proceeding
  <1>8. ASSUME Finalize(w) PROVE Inv'
    <2> DEFINE p == [Idle EXCEPT !.st = me.st]
               r == [status |-> "ready", age |-> 0, rows |-> me.pos]
    <2>1. p \in ProcRecord /\ p.pc = "idle" /\ p.job = None /\ p.st = me.st
      BY <1>1, Blanks DEF ProcRecord
    <2>2. r \in JobRecord /\ r.status = "ready" /\ r.age = 0 /\ r.rows = me.pos
      BY <1>1, Ranges DEF JobRecord, JobStatus, ProcRecord
    <2>3. /\ me.pc = "finalize" /\ proc' = [proc EXCEPT ![w] = p] /\ job' = [job EXCEPT ![own] = r]
          /\ UNCHANGED <<file, sweep, restarts, env>>
      BY <1>8 DEF Finalize, Ready, Rest
    <2>. HIDE DEF p, r
    <2>. QED  BY <2>1, <2>2, <2>3, Recording
  <1>9. ASSUME Fail(w) PROVE Inv'
    <2> DEFINE p == [Idle EXCEPT !.st = me.st]
               r == [job[own] EXCEPT !.status = "failed"]
    <2>1. p \in ProcRecord /\ p.pc = "idle" /\ p.job = None /\ p.st = me.st
      BY <1>1, Blanks DEF ProcRecord
    <2>2. own \in Job /\ job[own] \in JobRecord /\ me.pc = "fail"
      BY <1>1, <1>9 DEF Fail, Inv, TypeOK
    <2>3. r \in JobRecord /\ r.status = "failed"
      BY <2>2 DEF JobRecord, JobStatus
    <2>4. /\ proc' = [proc EXCEPT ![w] = p]
          /\ job' = [job EXCEPT ![own] = r] \/ UNCHANGED job
          /\ UNCHANGED <<file, sweep, restarts, env>>
      BY <1>9, <2>2 DEF Fail, Rest, Inv, TypeOK
    <2>5. restarts' \in 0 .. RestartLimit /\ sweep' = [sweep EXCEPT ![w] = sweep[w]] /\ sweep[w] \in SweepRecord
      BY <2>4 DEF Inv, TypeOK
    <2>6. "shutdown" \notin env => p.st # "stopping"
      BY <2>1 DEF Inv, Control
    <2>. HIDE DEF p, r
    <2>7. CASE job' = [job EXCEPT ![own] = r]
      BY <2>1, <2>2, <2>3, <2>4, <2>7, Recording
    <2>8. CASE UNCHANGED job
      BY <2>1, <2>4, <2>5, <2>6, <2>8, Leaving
    <2>. QED  BY <2>4, <2>7, <2>8
  <1>10. ASSUME StatementRaises(w) PROVE Inv'
    <2> DEFINE p == [me EXCEPT !.pc = "fail"]
               r == [status |-> "ready", age |-> 0, rows |-> me.pos]
    <2>1. /\ p \in ProcRecord /\ p.pc = "fail" /\ p.job = own /\ p.st = me.st
      BY <1>1 DEF ProcRecord, Stage
    <2>2. r \in JobRecord /\ r.status = "ready" /\ r.age = 0 /\ r.rows = me.pos
      BY <1>1, Ranges DEF JobRecord, JobStatus, ProcRecord
    <2>3. /\ "db_failure" \in env /\ me.pc \in {"chunk", "finalize"}
          /\ proc' = [proc EXCEPT ![w] = p]
          /\ \/ UNCHANGED job
             \/ me.pc = "finalize" /\ job' = [job EXCEPT ![own] = r]
          /\ UNCHANGED <<file, sweep, restarts, env>>
      BY <1>10 DEF StatementRaises, Ready, Inv, TypeOK
    <2>. HIDE DEF p, r
    <2>4. CASE UNCHANGED job
      <3>1. file' = [file EXCEPT ![own] = file[own]] /\ UNCHANGED <<job, sweep, restarts, env>>
        BY <1>2, <2>3, <2>4
      <3>. QED  BY <1>1, <1>2, <2>1, <2>3, <3>1, Proceeding
    <2>5. CASE me.pc = "finalize" /\ job' = [job EXCEPT ![own] = r]
      BY <2>1, <2>2, <2>3, <2>5, Recording
    <2>. QED  BY <2>3, <2>4, <2>5
  <1>11. ASSUME StreamFails(w) PROVE Inv'
    <2>1. CASE me.pc = "close" /\ proc' = [proc EXCEPT ![w].pc = "fail"] /\ UNCHANGED <<sweep, restarts>>
      <3> DEFINE p == [me EXCEPT !.pc = "fail"]
      <3>1. /\ p \in ProcRecord /\ p.pc = "fail" /\ p.job = own /\ p.st = me.st
        BY <1>1 DEF ProcRecord, Stage
      <3>2. /\ proc' = [proc EXCEPT ![w] = p] /\ file' = [file EXCEPT ![own] = file[own]]
            /\ UNCHANGED <<job, sweep, restarts, env>>
        BY <1>2, <1>11, <2>1 DEF StreamFails, Inv, TypeOK
      <3>. HIDE DEF p
      <3>. QED  BY <1>2, <2>1, <3>1, <3>2, Proceeding
    <2>2. CASE /\ restarts < RestartLimit /\ restarts' = restarts + 1
               /\ proc' = [proc EXCEPT ![w] = Down] /\ sweep' = [sweep EXCEPT ![w] = NoTick]
      <3>1. restarts' \in 0 .. RestartLimit
        BY <2>2, Ranges DEF Inv, TypeOK
      <3>2. UNCHANGED <<job, file, env>>
        BY <1>11 DEF StreamFails
      <3>. QED  BY <2>2, <3>1, <3>2, Blanks, Leaving
    <2>. QED  BY <1>11, <2>1, <2>2 DEF StreamFails
  <1>. QED  BY <1>3, <1>4, <1>5, <1>6, <1>7, <1>8, <1>9, <1>10, <1>11 DEF Attempt

\* What the sweep selects is ready and past its retention.
LEMMA SelectStep == ASSUME Inv, NEW w \in Worker, Select(w) PROVE Inv'
  <1> DEFINE x == [todo |-> Expirable, cur |-> None]
  <1>1. /\ Expirable \subseteq Job
        /\ \A j \in Expirable : job[j].status = "ready" /\ job[j].age > Retention
    BY DEF Expirable
  <1>2. x \in SweepRecord /\ x.todo = Expirable /\ x.cur = None
    BY <1>1 DEF SweepRecord
  <1>3. sweep' = [sweep EXCEPT ![w] = x] /\ UNCHANGED <<job, file, proc, restarts, env>>
    BY DEF Select
  <1>. HIDE DEF x
  <1>4. /\ sweep' \in [Worker -> SweepRecord]
        /\ \A v \in Worker : sweep'[v] = IF v = w THEN x ELSE sweep[v]
    BY <1>2, <1>3 DEF Inv, TypeOK
  <1>5. \A v \in Worker : Swept(v)' = IF v = w THEN Expirable ELSE Swept(v)
    BY <1>2, <1>4 DEF Swept
  <1>6. TypeOK' /\ Control' /\ OneWriter' /\ Owned' /\ Writing' /\ FileMatchesRow'
    BY <1>3, <1>4 DEF Inv, TypeOK, Control, OneWriter, Owned, Writing, FileMatchesRow, Punctual
  <1>7. Known' /\ Sweeping'
    BY <1>1, <1>2, <1>3, <1>4, <1>5 DEF Inv, Known, Sweeping, Punctual
  <1>. QED  BY <1>6, <1>7 DEF Inv

\* The file removed is one that no punctual attempt has open, of an export
\* past its retention.
LEMMA UnlinkStep == ASSUME Inv, NEW w \in Worker, Unlink(w) PROVE Inv'
  <1>1. PICK i \in Job :
          /\ i \in sweep[w].todo
          /\ sweep' = [sweep EXCEPT ![w] = [todo |-> @.todo \ {i}, cur |-> i]]
          /\ \/ file' = [file EXCEPT ![i] = NoFile] /\ proc' = Unlinked(i)
             \/ UNCHANGED <<file, proc>>
    BY DEF Unlink, Oldest
  <1>2. UNCHANGED <<job, restarts, env>>
    BY DEF Unlink
  <1> DEFINE x == [todo |-> sweep[w].todo \ {i}, cur |-> i]
  <1>3. x \in SweepRecord /\ x.todo = sweep[w].todo \ {i} /\ x.cur = i
    BY DEF Inv, TypeOK, SweepRecord
  <1>4. sweep' = [sweep EXCEPT ![w] = x]
    BY <1>1 DEF Inv, TypeOK
  <1>. HIDE DEF x
  <1>5. /\ sweep' \in [Worker -> SweepRecord]
        /\ \A v \in Worker : sweep'[v] = IF v = w THEN x ELSE sweep[v]
    BY <1>3, <1>4 DEF Inv, TypeOK
  <1>6. \A v \in Worker : Swept(v)' \subseteq Swept(v) /\ sweep'[v].todo \subseteq sweep[v].todo
    BY <1>1, <1>3, <1>5, Ranges DEF Swept
  <1>7. Sweeping'
    BY <1>2, <1>6 DEF Inv, Sweeping, Punctual
  <1>8. CASE UNCHANGED <<file, proc>>
    <2>1. TypeOK' /\ Control' /\ OneWriter' /\ Owned' /\ Writing' /\ FileMatchesRow'
      BY <1>2, <1>5, <1>8 DEF Inv, TypeOK, Control, OneWriter, Owned, Writing, FileMatchesRow, Punctual
    <2>2. Known'
      BY <1>2, <1>6, <1>8 DEF Inv, Known
    <2>. QED  BY <1>7, <2>1, <2>2 DEF Inv
  <1>9. CASE file' = [file EXCEPT ![i] = NoFile] /\ proc' = Unlinked(i)
    <2>1. /\ file' \in [Job -> (SUBSET Whole) \cup {NoFile}]
          /\ \A j \in Job : file'[j] = IF j = i THEN NoFile ELSE file[j]
      BY <1>9 DEF Inv, TypeOK
    <2>2. \A v \in Worker : proc[v] \in ProcRecord
      BY DEF Inv, TypeOK
    <2>3. /\ proc' \in [Worker -> ProcRecord]
          /\ \A v \in Worker :
               /\ proc'[v].st = proc[v].st /\ proc'[v].pc = proc[v].pc
               /\ proc'[v].job = proc[v].job /\ proc'[v].pos = proc[v].pos
               /\ proc'[v].linked = IF proc[v].job = i THEN FALSE ELSE proc[v].linked
      BY <1>9, <2>2 DEF Unlinked, ProcRecord
    <2>4. TypeOK'
      BY <1>2, <1>5, <2>1, <2>3 DEF Inv, TypeOK
    <2>5. Control' /\ OneWriter' /\ Owned'
      <3>1. Control'
        <4> SUFFICES ASSUME NEW v \in Worker
                     PROVE  /\ proc'[v].pc = "idle" <=> proc'[v].job = None
                            /\ proc'[v].pc = "open" => proc'[v].pos = 0
                            /\ proc'[v].pc = "chunk" => proc'[v].pos < Chunks
                            /\ "shutdown" \notin env =>
                                 /\ proc'[v].st # "stopping"
                                 /\ proc'[v].pc \in {"close", "finalize"} => proc'[v].pos = Chunks
          BY <1>2 DEF Control
        <4>1. /\ proc'[v].st = proc[v].st /\ proc'[v].pc = proc[v].pc
              /\ proc'[v].job = proc[v].job /\ proc'[v].pos = proc[v].pos
          BY <2>3
        <4>. QED  BY <4>1 DEF Inv, Control
      <3>2. OneWriter'
        <4>1. \A v \in Worker : proc'[v].job = proc[v].job
          BY <2>3
        <4>. QED  BY <1>2, <4>1 DEF Inv, OneWriter, Punctual
      <3>3. Owned'
        BY <1>2, <2>3 DEF Inv, Owned, Punctual
      <3>. QED  BY <3>1, <3>2, <3>3
    <2>6. Known'
      BY <1>2, <1>6, <2>3 DEF Inv, Known
    <2>7. i \in Swept(w)
      BY <1>1 DEF Swept
    <2>8. Punctual => /\ job[i].status # "running"
                      /\ job[i].status = "ready" => job[i].age > Retention
      BY <1>1, <2>7 DEF Inv, Sweeping
    <2>9. \A v \in Worker :
             Punctual /\ proc[v].pc \in {"chunk", "close", "finalize"} => proc[v].job # i
      BY <2>8, Ranges DEF Inv, Owned
    <2>10. Writing'
      <3> SUFFICES ASSUME NEW v \in Worker, proc'[v].pc \in {"chunk", "close", "finalize"}
                   PROVE  /\ proc'[v].linked => file'[proc'[v].job] # NoFile
                          /\ Punctual => proc'[v].linked /\ file'[proc'[v].job] = 1 .. proc'[v].pos
        BY <1>2 DEF Writing, Punctual
      <3>1. proc[v].job \in Job
        BY <2>2, <2>3 DEF Inv, Control, ProcRecord
      <3>2. CASE proc[v].job = i
        BY <2>3, <2>9, <3>2
      <3>3. CASE proc[v].job # i
        <4>1. file'[proc'[v].job] = file[proc[v].job]
          BY <2>1, <2>3, <3>1, <3>3
        <4>2. proc'[v].linked = proc[v].linked /\ proc'[v].pos = proc[v].pos
          BY <2>3, <3>3
        <4>. QED  BY <2>3, <4>1, <4>2 DEF Inv, Writing
      <3>. QED  BY <3>2, <3>3
    <2>11. FileMatchesRow'
      <3> SUFFICES ASSUME Punctual, NEW j \in Job, job[j].status = "ready", job[j].age <= Retention
                   PROVE  /\ file'[j] = 1 .. job[j].rows
                          /\ "shutdown" \notin env => job[j].rows = Chunks
        BY <1>2 DEF FileMatchesRow, Punctual
      <3>1. job[i] \in JobRecord
        BY DEF Inv, TypeOK
      <3>2. j # i
        BY <2>8, <3>1, Ranges DEF JobRecord
      <3>. QED  BY <2>1, <3>2 DEF Inv, FileMatchesRow
    <2>. QED  BY <1>7, <2>4, <2>5, <2>6, <2>10, <2>11 DEF Inv
  <1>. QED  BY <1>1, <1>8, <1>9

\* What is expired is in no attempt's hands, unless one that is to fail.
LEMMA ExpireStep == ASSUME Inv, NEW w \in Worker, Expire(w) PROVE Inv'
  <1> DEFINE i == sweep[w].cur
             x == [sweep[w] EXCEPT !.cur = None]
             r == [job[i] EXCEPT !.status = "expired"]
  <1>1. i \in Job /\ i \in Swept(w)
    BY DEF Expire, Inv, TypeOK, SweepRecord, Swept
  <1>2. x \in SweepRecord /\ x.todo = sweep[w].todo /\ x.cur = None
    BY DEF Inv, TypeOK, SweepRecord
  <1>3. r \in JobRecord /\ r.status = "expired"
    BY <1>1 DEF Inv, TypeOK, JobRecord, JobStatus
  <1>4. /\ sweep' = [sweep EXCEPT ![w] = x]
        /\ job' = [job EXCEPT ![i] = r] \/ UNCHANGED job
        /\ UNCHANGED <<file, proc, restarts, env>>
    BY <1>1 DEF Expire, Inv, TypeOK
  <1>5. i # None
    BY DEF Expire
  <1>. HIDE DEF x, r, i
  <1>6. /\ sweep' \in [Worker -> SweepRecord]
        /\ \A v \in Worker : sweep'[v] = IF v = w THEN x ELSE sweep[v]
    BY <1>2, <1>4 DEF Inv, TypeOK
  <1>7. /\ job' \in [Job -> JobRecord]
        /\ \A j \in Job : job'[j] = job[j] \/ (j = i /\ job'[j] = r)
    BY <1>1, <1>3, <1>4 DEF Inv, TypeOK
  <1>8. \A v \in Worker : /\ Swept(v)' \subseteq Swept(v) /\ sweep'[v].todo \subseteq sweep[v].todo
                          /\ Swept(v) \subseteq Job /\ proc[v].job \in Job \cup {None}
    BY <1>2, <1>6 DEF Swept, Inv, TypeOK, SweepRecord, ProcRecord
  <1>9. TypeOK' /\ Control' /\ OneWriter' /\ Writing'
    BY <1>4, <1>6, <1>7 DEF Inv, TypeOK, Control, OneWriter, Writing, Punctual
  <1>10. Known'
    BY <1>3, <1>4, <1>7, <1>8 DEF Inv, Known
  <1>11. Punctual => \/ job[i].status \in {"ready", "expired"}
                     \/ "db_failure" \in env /\ job[i].status = "failed"
    BY <1>1 DEF Inv, Sweeping
  <1>12. Owned'
    <2> SUFFICES ASSUME Punctual, NEW v \in Worker, proc[v].job # None
                 PROVE  LET s == job'[proc[v].job]
                        IN  /\ s.status # "queued"
                            /\ proc[v].pc # "fail" \/ "db_failure" \notin env => s.status = "running"
                            /\ s.status = "running" => s.age <= ReapAfter
      BY <1>4 DEF Owned, Punctual
    <2>1. CASE proc[v].job = i
      BY <2>1, <1>3, <1>7, <1>8, <1>11 DEF Inv, Owned
    <2>2. CASE proc[v].job # i
      BY <2>2, <1>7, <1>8 DEF Inv, Owned
    <2>. QED  BY <2>1, <2>2
  <1>13. Sweeping'
    <2> SUFFICES ASSUME Punctual, NEW v \in Worker, NEW j \in Swept(v)'
                 PROVE  /\ \/ job'[j].status \in {"ready", "expired"}
                           \/ "db_failure" \in env /\ job'[j].status = "failed"
                        /\ j \in sweep'[v].todo /\ job'[j].status = "ready" => job'[j].age > Retention
      BY <1>4 DEF Sweeping, Punctual
    <2>1. j \in Job /\ j \in Swept(v) /\ (j \in sweep'[v].todo => j \in sweep[v].todo)
      BY <1>8
    <2>2. CASE job'[j] = job[j]
      BY <2>1, <2>2 DEF Inv, Sweeping
    <2>3. CASE job'[j] = r
      BY <2>3, <1>3
    <2>. QED  BY <2>1, <2>2, <2>3, <1>7
  <1>14. FileMatchesRow'
    BY <1>3, <1>4, <1>7 DEF Inv, FileMatchesRow, Punctual
  <1>. QED  BY <1>9, <1>10, <1>12, <1>13, <1>14 DEF Inv

\* A signal changes what the loop does next, and nothing else.
LEMMA ShutdownStep == ASSUME Inv, NEW w \in Worker, Shutdown(w) PROVE Inv'
  <1> DEFINE p == [proc[w] EXCEPT !.st = "stopping"]
  <1>1. /\ p \in ProcRecord /\ p.st = "stopping" /\ p.pc = proc[w].pc /\ p.job = proc[w].job
        /\ p.pos = proc[w].pos /\ p.linked = proc[w].linked
    BY DEF Inv, TypeOK, ProcRecord
  <1>2. /\ "shutdown" \in env /\ restarts < RestartLimit /\ restarts' = restarts + 1
        /\ proc' = [proc EXCEPT ![w] = p] /\ UNCHANGED <<job, file, sweep, env>>
    BY DEF Shutdown, Inv, TypeOK
  <1>. HIDE DEF p
  <1>3. /\ proc' \in [Worker -> ProcRecord]
        /\ \A v \in Worker : /\ proc'[v].pc = proc[v].pc /\ proc'[v].job = proc[v].job
                             /\ proc'[v].pos = proc[v].pos /\ proc'[v].linked = proc[v].linked
    BY <1>1, <1>2 DEF Inv, TypeOK
  <1>4. restarts' \in 0 .. RestartLimit
    BY <1>2, Ranges DEF Inv, TypeOK
  <1>5. TypeOK'
    BY <1>2, <1>3, <1>4 DEF Inv, TypeOK
  <1>6. Control'
    BY <1>2, <1>3 DEF Inv, Control
  <1>7. \A v \in Worker : Swept(v)' = Swept(v)
    BY <1>2 DEF Swept
  <1>8. Known' /\ Owned' /\ OneWriter' /\ Sweeping' /\ Writing' /\ FileMatchesRow'
    BY <1>2, <1>3, <1>7 DEF Inv, Known, Owned, OneWriter, Sweeping, Writing, FileMatchesRow, Punctual
  <1>. QED  BY <1>5, <1>6, <1>8 DEF Inv

\* Deaths, exits and starts leave nothing in hand.
LEMMA ProcessStep ==
    ASSUME Inv, NEW w \in Worker, Exit(w) \/ Die(w) \/ Start(w)
    PROVE  Inv'
  <1>1. /\ restarts' \in 0 .. RestartLimit /\ UNCHANGED <<job, file, env>>
        /\ sweep[w] \in SweepRecord
    BY Ranges DEF Inv, TypeOK, Exit, Die, Start
  <1>2. CASE proc' = [proc EXCEPT ![w] = Down] /\ sweep' = [sweep EXCEPT ![w] = NoTick]
    BY <1>1, <1>2, Blanks, Leaving
  <1>3. CASE proc' = [proc EXCEPT ![w] = Idle] /\ UNCHANGED sweep
    <2>1. sweep' = [sweep EXCEPT ![w] = sweep[w]]
      BY <1>3 DEF Inv, TypeOK
    <2>. QED  BY <1>1, <1>3, <2>1, Blanks, Leaving
  <1>. QED  BY <1>2, <1>3 DEF Exit, Die, Start

\* Every step preserves the invariant.
LEMMA InvStep == Inv /\ [Next]_vars => Inv'
  <1> SUFFICES ASSUME Inv, [Next]_vars PROVE Inv'
    OBVIOUS
  <1>1. CASE UNCHANGED vars
    BY <1>1 DEF vars, Inv, TypeOK, Control, Known, Owned, OneWriter, Sweeping, Writing,
                FileMatchesRow, Punctual, Swept
  <1>2. ASSUME NEW j \in Job, Enqueue(j) PROVE Inv'
    BY <1>2, EnqueueStep
  <1>3. ASSUME NEW w \in Worker, Attempt(w) \/ StatementRaises(w) \/ StreamFails(w) PROVE Inv'
    BY <1>3, AttemptStep
  <1>4. ASSUME NEW w \in Worker, Reap(w) \/ Maintain(w) PROVE Inv'
    BY <1>4, ReapStep, SelectStep, UnlinkStep, ExpireStep DEF Maintain
  <1>5. ASSUME NEW w \in Worker, Shutdown(w) \/ Exit(w) \/ Die(w) \/ Start(w) PROVE Inv'
    BY <1>5, ShutdownStep, ProcessStep
  <1>6. CASE Tick
    BY <1>6, TickStep
  <1>. QED  BY <1>1, <1>2, <1>3, <1>4, <1>5, <1>6 DEF Next

-----------------------------------------------------------------------------
(* The theorems. *)

\* The invariant holds throughout.
LEMMA Invariance == Spec => []Inv
  BY InvInit, InvStep, PTL DEF Spec

\* Every statement and every turn of the workers' loops leaves the rows, the
\* files and the processes well formed; in particular a file that is still
\* open under a name always exists.
THEOREM Typing == Spec => []TypeOK
  <1>1. Inv => TypeOK
    BY DEF Inv
  <1>. QED  BY <1>1, Invariance, PTL

\* Two workers never write the same export's file, if no attempt outlives the
\* reaper's limit: claimOne, the statements that end an attempt and
\* reapZombies together are a lock on the export.
THEOREM SingleWriter == Spec => []OneWriter
  <1>1. Inv => OneWriter
    BY DEF Inv
  <1>. QED  BY <1>1, Invariance, PTL

\* The file of a ready export within its retention holds exactly the rows
\* that finalize counted, under the same condition.
THEOREM FilesAreWhole == Spec => []FileMatchesRow
  <1>1. Inv => FileMatchesRow
    BY DEF Inv
  <1>. QED  BY <1>1, Invariance, PTL

-----------------------------------------------------------------------------
(* The life cycle of the exports. *)

Statuses == [j \in Job |-> job[j].status]
Reliable == env \cap {"slow", "db_failure"} = {}

\* A step that changes no status is a stutter.
LEMMA NoneMoves ==
    ASSUME \A j \in Job : job'[j].status = job[j].status, UNCHANGED env
    PROVE  [Life!ELNext]_(Life!elVars)
  BY DEF Life!elVars

\* A statement that changes one.
LEMMA OneMoves ==
    ASSUME NEW i \in Job, NEW t \in {"queued", "running", "ready", "failed", "expired"},
           \A j \in Job : job'[j].status = IF j = i THEN t ELSE job[j].status,
           Life!Documented(job[i].status, t) \/ (~Reliable /\ Life!Late(job[i].status, t)),
           UNCHANGED env
    PROVE  [Life!ELNext]_(Life!elVars)
  <1>1. /\ Statuses[i] = job[i].status
        /\ Statuses' = [Statuses EXCEPT ![i] = t]
        /\ UNCHANGED Reliable
    BY DEF Statuses, Reliable
  <1>. QED  BY <1>1 DEF Life!ELNext, Statuses, Reliable

\* A statement that takes running exports back.
LEMMA SomeReturn ==
    ASSUME NEW S \in SUBSET Job, \A j \in S : job[j].status = "running",
           \A j \in Job : job'[j].status = IF j \in S THEN "queued" ELSE job[j].status,
           UNCHANGED env
    PROVE  [Life!ELNext]_(Life!elVars)
  <1>1. /\ S \in SUBSET {j \in Job : Statuses[j] = "running"}
        /\ Statuses' = [j \in Job |-> IF j \in S THEN "queued" ELSE Statuses[j]]
        /\ UNCHANGED Reliable
    BY DEF Statuses, Reliable
  <1>. QED  BY <1>1 DEF Life!ELNext, Statuses, Reliable

\* Nothing has been asked for at first.
LEMMA LifeInit == Init => Life!ELInit
  BY Blanks DEF Init, Life!ELInit

\* The steps of a worker's main loop.
LEMMA LifeAttempt ==
    ASSUME Inv, NEW w \in Worker, Attempt(w) \/ StatementRaises(w) \/ StreamFails(w)
    PROVE  [Life!ELNext]_(Life!elVars)
  <1> DEFINE own == proc[w].job
  <1>1. \A j \in Job : job[j] \in JobRecord
    BY DEF Inv, TypeOK
  <1>2. UNCHANGED env
    BY DEF Attempt, Claim, Open, Chunk, CutShort, Close, Finalize, Fail, StatementRaises, StreamFails
  <1>3. CASE UNCHANGED job
    BY <1>2, <1>3, NoneMoves
  <1>4. CASE Claim(w)
    <2>1. PICK i \in Job : /\ job[i].status = "queued"
                           /\ job' = [job EXCEPT ![i].status = "running", ![i].age = 0]
      BY <1>4 DEF Claim
    <2>2. \A j \in Job : job'[j].status = IF j = i THEN "running" ELSE job[j].status
      BY <2>1, <1>1 DEF Inv, TypeOK, JobRecord
    <2>. QED  BY <1>2, <2>1, <2>2, OneMoves DEF Life!Documented
  <1>5. ASSUME proc[w].pc \in {"finalize", "fail"}, NEW t \in {"ready", "failed"},
               proc[w].pc = "fail" => t = "failed",
               proc[w].pc = "finalize" => t = "ready",
               \A j \in Job : job'[j].status = IF j = own THEN t ELSE job[j].status
        PROVE  [Life!ELNext]_(Life!elVars)
    <2>1. own \in Job /\ own # None /\ job[own].status # "none"
      BY <1>5, Ranges DEF Inv, TypeOK, Control, Known, ProcRecord
    <2>2. Reliable => job[own].status = "running"
      BY <1>5, <2>1 DEF Reliable, Punctual, Inv, Owned
    <2>3. Life!Documented(job[own].status, t) \/ (~Reliable /\ Life!Late(job[own].status, t))
      BY <2>1, <2>2 DEF Life!Documented, Life!Late, Life!Outcomes
    <2>. QED  BY <1>2, <1>5, <2>1, <2>3, OneMoves
  <1>6. ASSUME proc[w].pc = "finalize", job' = Ready(w) PROVE [Life!ELNext]_(Life!elVars)
    <2>1. \A j \in Job : job'[j].status = IF j = own THEN "ready" ELSE job[j].status
      BY <1>6 DEF Ready, Inv, TypeOK
    <2>. QED  BY <1>5, <1>6, <2>1
  <1>7. ASSUME proc[w].pc = "fail", job' = [job EXCEPT ![own].status = "failed"]
        PROVE  [Life!ELNext]_(Life!elVars)
    <2>1. \A j \in Job : job'[j].status = IF j = own THEN "failed" ELSE job[j].status
      BY <1>1, <1>7 DEF Inv, TypeOK, JobRecord
    <2>. QED  BY <1>5, <1>7, <2>1
  <1>8. CASE Attempt(w)
    BY <1>3, <1>4, <1>6, <1>7, <1>8 DEF Attempt, Open, Chunk, CutShort, Close, Finalize, Fail
  <1>9. CASE StatementRaises(w) \/ StreamFails(w)
    BY <1>3, <1>6, <1>9 DEF StatementRaises, StreamFails
  <1>. QED  BY <1>8, <1>9

\* The steps of its maintenance.
LEMMA LifeMaintain ==
    ASSUME Inv, NEW w \in Worker, Reap(w) \/ Maintain(w)
    PROVE  [Life!ELNext]_(Life!elVars)
  <1>1. \A j \in Job : job[j] \in JobRecord
    BY DEF Inv, TypeOK
  <1>2. UNCHANGED env
    BY DEF Reap, Maintain, Select, Unlink, Expire
  <1>3. CASE UNCHANGED job
    BY <1>2, <1>3, NoneMoves
  <1>4. CASE Reap(w)
    <2>1. /\ Stale \in SUBSET Job /\ \A j \in Stale : job[j].status = "running"
          /\ \A j \in Job : job'[j].status = IF j \in Stale THEN "queued" ELSE job[j].status
      BY <1>1, <1>4 DEF Reap, Stale, JobRecord
    <2>. QED  BY <1>2, <2>1, SomeReturn
  <1>5. CASE Expire(w) /\ job' = [job EXCEPT ![sweep[w].cur].status = "expired"]
    <2> DEFINE i == sweep[w].cur
    <2>1. i \in Job /\ i \in Swept(w)
      BY <1>5 DEF Expire, Inv, TypeOK, SweepRecord, Swept
    <2>2. \A j \in Job : job'[j].status = IF j = i THEN "expired" ELSE job[j].status
      BY <1>1, <1>5, <2>1 DEF Inv, TypeOK, JobRecord
    <2>3. job[i].status # "none" /\ (Reliable => job[i].status \in {"ready", "expired"})
      BY <2>1 DEF Reliable, Punctual, Inv, Known, Sweeping
    <2>4. CASE job[i].status = "expired"
      BY <1>2, <2>2, <2>4, NoneMoves
    <2>5. CASE job[i].status # "expired"
      <3>1. Life!Documented(job[i].status, "expired")
               \/ (~Reliable /\ Life!Late(job[i].status, "expired"))
        BY <2>3, <2>5 DEF Life!Documented, Life!Late
      <3>. QED  BY <1>2, <2>1, <2>2, <3>1, OneMoves
    <2>. QED  BY <2>4, <2>5
  <1>. QED  BY <1>3, <1>4, <1>5 DEF Maintain, Select, Unlink, Expire

\* Every step is one of the life cycle or a stutter.
LEMMA LifeStep == Inv /\ [Next]_vars => [Life!ELNext]_(Life!elVars)
  <1> SUFFICES ASSUME Inv, [Next]_vars PROVE [Life!ELNext]_(Life!elVars)
    OBVIOUS
  <1>1. \A j \in Job : job[j] \in JobRecord
    BY DEF Inv, TypeOK
  <1>2. CASE UNCHANGED vars
    BY <1>2, NoneMoves DEF vars
  <1>3. ASSUME NEW i \in Job, Enqueue(i) PROVE [Life!ELNext]_(Life!elVars)
    <2>1. NoJob.status = "none" /\ [NoJob EXCEPT !.status = "queued"].status = "queued"
      BY Blanks DEF JobRecord
    <2>2. /\ \A j \in Job : job'[j].status = IF j = i THEN "queued" ELSE job[j].status
          /\ job[i].status = "none" /\ UNCHANGED env
      BY <1>3, <2>1 DEF Enqueue, Inv, TypeOK
    <2>. QED  BY <2>2, OneMoves DEF Life!Documented
  <1>4. ASSUME NEW w \in Worker, Attempt(w) \/ StatementRaises(w) \/ StreamFails(w)
        PROVE  [Life!ELNext]_(Life!elVars)
    BY <1>4, LifeAttempt
  <1>5. ASSUME NEW w \in Worker, Reap(w) \/ Maintain(w) PROVE [Life!ELNext]_(Life!elVars)
    BY <1>5, LifeMaintain
  <1>6. ASSUME NEW w \in Worker, Shutdown(w) \/ Exit(w) \/ Die(w) \/ Start(w)
        PROVE  [Life!ELNext]_(Life!elVars)
    BY <1>6, NoneMoves DEF Shutdown, Exit, Die, Start
  <1>7. CASE Tick
    <2>1. (\A j \in Job : job'[j].status = job[j].status) /\ UNCHANGED env
      BY <1>1, <1>7 DEF Tick, Aged, JobRecord
    <2>. QED  BY <2>1, NoneMoves
  <1>. QED  BY <1>2, <1>3, <1>4, <1>5, <1>6, <1>7 DEF Next

\* The exports follow the documented life cycle: no statement of a worker that
\* is punctual and knows what it recorded takes an export anywhere else.
THEOREM LifeCycle == Spec => FollowsLifecycle
  BY Invariance, LifeInit, LifeStep, PTL DEF Spec, FollowsLifecycle, Life!ELSpec
=============================================================================
