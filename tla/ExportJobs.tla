----------------------------- MODULE ExportJobs -----------------------------
(***************************************************************************)
(* CSV exports: the table portal_exports (db/005, db/006), the files in    *)
(* the shared directory, and the processes of                              *)
(* dashboard/worker/exports_worker.mjs that work on both.                  *)
(*                                                                         *)
(* A process has one main loop, with at most one export in hand, and a     *)
(* maintenance tick, the reaper followed by the retention sweep, that      *)
(* interleaves with it at every await.  An export's file is named after    *)
(* the export, so every attempt at it writes the same file.                *)
(*                                                                         *)
(* An export has Chunks chunks of rows; a file is the set of the chunks    *)
(* it holds, each at its own place.                                        *)
(***************************************************************************)
EXTENDS Naturals, FiniteSets

CONSTANTS
    Worker,
    JobLimit,     \* bound: exports requested
    Chunks,       \* chunks of an export, the last of them short
    ReapAfter,    \* ticks after which a running export is taken for a zombie
    Retention,    \* ticks a finished export's file is kept
    RestartLimit, \* bound: deaths and shutdowns of workers
    Environments  \* the sets of hazards considered

HazardNames ==
    {"slow",        \* an attempt takes longer than the reaper's limit
     "restart",     \* a worker is killed
     "shutdown",    \* a worker gets SIGTERM
     "db_failure",  \* a statement raises, or its commit goes unnoticed
     "fs_failure"}  \* the file cannot be opened, written or removed

ASSUME ExportAssumption ==
    /\ JobLimit \in Nat /\ RestartLimit \in Nat
    /\ Chunks \in Nat \ {0}
    /\ ReapAfter \in Nat /\ Retention \in Nat
    /\ Environments \subseteq SUBSET HazardNames

Job == 1 .. JobLimit    \* in the order of their ids
None == 0
Whole == 1 .. Chunks
NoFile == {None}        \* in place of the chunks of a file

VARIABLES
    job,        \* portal_exports
    file,       \* the file of each export
    proc,       \* each worker's process and its main loop
    sweep,      \* each worker's retention sweep
    restarts,   \* history: deaths and shutdowns so far
    env         \* the hazards of this behaviour

vars == <<job, file, proc, sweep, restarts, env>>

JobStatus == {"none", "queued", "running", "ready", "failed", "expired"}

\* open: about to open the file; chunk: between two chunks; close: waiting
\* for the stream to finish; finalize, fail: about to record the outcome.
Stage == {"idle", "open", "chunk", "close", "finalize", "fail"}

\* age: ticks since started_at of a running export, since completed_at of a
\* ready one.
NoJob  == [status |-> "none", age |-> 0, rows |-> 0]
Idle   == [st |-> "up", pc |-> "idle", job |-> None, pos |-> 0, linked |-> FALSE]
Down   == [Idle EXCEPT !.st = "down"]
NoTick == [todo |-> {}, cur |-> None]

\* The definitions named Mut... are variants with one plausible mistake; each
\* documents a property that the mistake breaks.

-----------------------------------------------------------------------------
(* The dashboard. *)

\* enqueueExport.
Enqueue(j) ==
    /\ job[j].status = "none"
    /\ \A k \in Job : job[k].status = "none" => j <= k
    /\ job' = [job EXCEPT ![j] = [NoJob EXCEPT !.status = "queued"]]
    /\ UNCHANGED <<file, proc, sweep, restarts, env>>

-----------------------------------------------------------------------------
(* The main loop of a worker. *)

\* claimOne, in its transaction: the oldest queued export is this worker's.
\* A row that another worker has locked is skipped, which amounts to coming
\* after it.
Claim(w) ==
    /\ proc[w].st = "up" /\ proc[w].pc = "idle"
    /\ \E j \in Job :
         /\ job[j].status = "queued"
         /\ \A k \in Job : job[k].status = "queued" => j <= k
         /\ job' = [job EXCEPT ![j].status = "running", ![j].age = 0]
         /\ proc' = [proc EXCEPT ![w] = [Idle EXCEPT !.pc = "open", !.job = j]]
    /\ UNCHANGED <<file, sweep, restarts, env>>

\* A file opened for appending (FileMatchesRow).
MutOpenAppends(w) ==
    /\ proc[w].pc = "open"
    /\ file' = [file EXCEPT ![proc[w].job] = IF @ = NoFile THEN {} ELSE @]
    /\ proc' = [proc EXCEPT ![w].pc = "chunk", ![w].linked = TRUE]
    /\ UNCHANGED <<job, sweep, restarts, env>>

\* createWriteStream: the file is created, or emptied under whoever else is
\* writing it.
Open(w) ==
    /\ proc[w].pc = "open"
    /\ file' = [file EXCEPT ![proc[w].job] = {}]
    /\ proc' = [proc EXCEPT ![w].pc = "chunk", ![w].linked = TRUE]
    /\ UNCHANGED <<job, sweep, restarts, env>>

\* A short chunk that does not end the loop (TypeOK).
MutChunkOverruns(w) ==
    LET me == proc[w]
    IN  /\ me.pc = "chunk" /\ me.st = "up"
        /\ file' = IF me.linked THEN [file EXCEPT ![me.job] = @ \cup {me.pos + 1}] ELSE file
        /\ proc' = [proc EXCEPT ![w].pos = @ + 1,
                                ![w].pc = IF me.pos = Chunks THEN "close" ELSE "chunk"]
        /\ UNCHANGED <<job, sweep, restarts, env>>

\* One turn of the loop: query a chunk and write its rows, into nowhere when
\* the file has been removed since.  A short chunk is the last.
Chunk(w) ==
    LET me == proc[w]
    IN  /\ me.pc = "chunk" /\ me.st = "up"
        /\ file' = IF me.linked THEN [file EXCEPT ![me.job] = @ \cup {me.pos + 1}] ELSE file
        /\ proc' = [proc EXCEPT ![w].pos = @ + 1,
                                ![w].pc = IF me.pos + 1 = Chunks THEN "close" ELSE "chunk"]
        /\ UNCHANGED <<job, sweep, restarts, env>>

\* The loop's condition, once a signal has set `shutdown'.
CutShort(w) ==
    /\ proc[w].pc = "chunk" /\ proc[w].st = "stopping"
    /\ proc' = [proc EXCEPT ![w].pc = "close"]
    /\ UNCHANGED <<job, file, sweep, restarts, env>>

\* The stream is finished; statSync finds a file of that name, or raises.
Close(w) ==
    /\ proc[w].pc = "close"
    /\ proc' = [proc EXCEPT ![w].pc = IF file[proc[w].job] = NoFile THEN "fail" ELSE "finalize"]
    /\ UNCHANGED <<job, file, sweep, restarts, env>>

Ready(w) == [job EXCEPT ![proc[w].job] = [status |-> "ready", age |-> 0, rows |-> proc[w].pos]]

Rest(w) == [proc EXCEPT ![w] = [Idle EXCEPT !.st = proc[w].st]]

\* finalize: the row is made ready whatever its status.
Finalize(w) ==
    /\ proc[w].pc = "finalize"
    /\ job' = Ready(w)
    /\ proc' = Rest(w)
    /\ UNCHANGED <<file, sweep, restarts, env>>

\* The query of a chunk raises; or finalize does, committed or not.
StatementRaises(w) ==
    /\ "db_failure" \in env
    /\ \/ proc[w].pc = "chunk" /\ UNCHANGED job
       \/ proc[w].pc = "finalize" /\ job' \in {job, Ready(w)}
    /\ proc' = [proc EXCEPT ![w].pc = "fail"]
    /\ UNCHANGED <<file, sweep, restarts, env>>

\* failJob, whatever the row's status; a failure of its own is only logged.
Fail(w) ==
    /\ proc[w].pc = "fail"
    /\ \/ job' = [job EXCEPT ![proc[w].job].status = "failed"]
       \/ "db_failure" \in env /\ UNCHANGED job
    /\ proc' = Rest(w)
    /\ UNCHANGED <<file, sweep, restarts, env>>

\* The stream reports an error.  Only once the rows are written does the loop
\* wait for it; while it waits for a query, the rejection is nobody's and ends
\* the process.
StreamFails(w) ==
    /\ "fs_failure" \in env
    /\ \/ /\ proc[w].pc = "close"
          /\ proc' = [proc EXCEPT ![w].pc = "fail"]
          /\ UNCHANGED <<sweep, restarts>>
       \/ /\ proc[w].pc = "chunk"
          /\ restarts < RestartLimit
          /\ restarts' = restarts + 1
          /\ proc' = [proc EXCEPT ![w] = Down]
          /\ sweep' = [sweep EXCEPT ![w] = NoTick]
    /\ UNCHANGED <<job, file, env>>

-----------------------------------------------------------------------------
(* Maintenance, at most one tick of a worker at a time. *)

\* The limit compared with <= (OneWriter).
MutStaleEarly == {j \in Job : job[j].status = "running" /\ job[j].age >= ReapAfter}

\* The limit compared the wrong way round (JobsSettle).
MutStaleReversed == {j \in Job : job[j].status = "running" /\ job[j].age < ReapAfter}

\* Every running export taken for a zombie (FollowsLifecycle).
MutStaleAny == {j \in Job : job[j].status = "running"}

Stale == {j \in Job : job[j].status = "running" /\ job[j].age > ReapAfter}

Expirable == {j \in Job : job[j].status = "ready" /\ job[j].age > Retention}

Maintaining(w) == proc[w].st # "down" /\ sweep[w] = NoTick

\* reapZombies.
Reap(w) ==
    /\ Maintaining(w)
    /\ Stale # {}
    /\ job' = [j \in Job |-> IF j \in Stale
                             THEN [job[j] EXCEPT !.status = "queued", !.age = 0] ELSE job[j]]
    /\ UNCHANGED <<file, proc, sweep, restarts, env>>

\* The SELECT of sweepRetention.
Select(w) ==
    /\ Maintaining(w)
    /\ Expirable # {}
    /\ sweep' = [sweep EXCEPT ![w] = [todo |-> Expirable, cur |-> None]]
    /\ UNCHANGED <<job, file, proc, restarts, env>>

\* Whoever has the file of an export open writes into nowhere from now on.
Unlinked(j) ==
    [w \in Worker |-> IF proc[w].job = j THEN [proc[w] EXCEPT !.linked = FALSE] ELSE proc[w]]

Oldest(w, j) == j \in sweep[w].todo /\ \A k \in sweep[w].todo : j <= k

\* A row whose file is missing already is passed over (FilesReclaimed).
MutUnlinkSkips(w) ==
    /\ sweep[w].cur = None
    /\ \E j \in Job :
         /\ Oldest(w, j)
         /\ sweep' = [sweep EXCEPT ![w] =
                        [todo |-> @.todo \ {j}, cur |-> IF file[j] = NoFile THEN None ELSE j]]
         /\ file' = [file EXCEPT ![j] = NoFile]
         /\ proc' = Unlinked(j)
    /\ UNCHANGED <<job, restarts, env>>

\* unlinkSync; a missing file counts as removed, an error is only logged.
Unlink(w) ==
    /\ sweep[w].cur = None
    /\ \E j \in Job :
         /\ Oldest(w, j)
         /\ sweep' = [sweep EXCEPT ![w] = [todo |-> @.todo \ {j}, cur |-> j]]
         /\ \/ file' = [file EXCEPT ![j] = NoFile] /\ proc' = Unlinked(j)
            \/ "fs_failure" \in env /\ UNCHANGED <<file, proc>>
    /\ UNCHANGED <<job, restarts, env>>

\* The UPDATE of sweepRetention, whatever the row's status; a failure is only
\* logged.
Expire(w) ==
    /\ sweep[w].cur # None
    /\ \/ job' = [job EXCEPT ![sweep[w].cur].status = "expired"]
       \/ "db_failure" \in env /\ UNCHANGED job
    /\ sweep' = [sweep EXCEPT ![w].cur = None]
    /\ UNCHANGED <<file, proc, restarts, env>>

-----------------------------------------------------------------------------
(* Processes and time. *)

\* SIGTERM or SIGINT.
Shutdown(w) ==
    /\ "shutdown" \in env
    /\ restarts < RestartLimit
    /\ restarts' = restarts + 1
    /\ proc[w].st = "up"
    /\ proc' = [proc EXCEPT ![w].st = "stopping"]
    /\ UNCHANGED <<job, file, sweep, env>>

\* The main loop is over: process.exit, in the middle of a sweep or not.
Exit(w) ==
    /\ proc[w].st = "stopping" /\ proc[w].pc = "idle"
    /\ proc' = [proc EXCEPT ![w] = Down]
    /\ sweep' = [sweep EXCEPT ![w] = NoTick]
    /\ UNCHANGED <<job, file, restarts, env>>

Die(w) ==
    /\ "restart" \in env
    /\ restarts < RestartLimit
    /\ restarts' = restarts + 1
    /\ proc[w].st # "down"
    /\ proc' = [proc EXCEPT ![w] = Down]
    /\ sweep' = [sweep EXCEPT ![w] = NoTick]
    /\ UNCHANGED <<job, file, env>>

\* The container is started again.
Start(w) ==
    /\ proc[w].st = "down"
    /\ proc' = [proc EXCEPT ![w] = Idle]
    /\ UNCHANGED <<job, file, sweep, restarts, env>>

Attempts(j) == {w \in Worker : proc[w].job = j}

\* Ages past the longer limit are indistinguishable.
AgeCap == 1 + IF ReapAfter > Retention THEN ReapAfter ELSE Retention

Aged(r) == IF r.status \in {"running", "ready"} /\ r.age < AgeCap
           THEN [r EXCEPT !.age = @ + 1] ELSE r

Tick ==
    /\ \A j \in Job : job[j].status = "running" /\ Attempts(j) # {} =>
         "slow" \in env \/ job[j].age < ReapAfter
    /\ \E j \in Job : Aged(job[j]) # job[j]
    /\ job' = [j \in Job |-> Aged(job[j])]
    /\ UNCHANGED <<file, proc, sweep, restarts, env>>

-----------------------------------------------------------------------------
Init ==
    /\ env \in Environments
    /\ job = [j \in Job |-> NoJob]
    /\ file = [j \in Job |-> NoFile]
    /\ proc = [w \in Worker |-> Idle]
    /\ sweep = [w \in Worker |-> NoTick]
    /\ restarts = 0

Attempt(w) ==
    Claim(w) \/ Open(w) \/ Chunk(w) \/ CutShort(w) \/ Close(w) \/ Finalize(w) \/ Fail(w)

Maintain(w) == Select(w) \/ Unlink(w) \/ Expire(w)

Next ==
    \/ \E j \in Job : Enqueue(j)
    \/ \E w \in Worker : Attempt(w) \/ StatementRaises(w) \/ StreamFails(w)
    \/ \E w \in Worker : Reap(w) \/ Maintain(w)
    \/ \E w \in Worker : Shutdown(w) \/ Exit(w) \/ Die(w) \/ Start(w)
    \/ Tick

Spec == Init /\ [][Next]_vars

\* The loop of every process goes on, its maintenance runs at intervals, its
\* container is restarted, and time passes.
Fairness ==
    /\ \A w \in Worker : /\ WF_vars(Attempt(w)) /\ WF_vars(Reap(w)) /\ WF_vars(Maintain(w))
                         /\ WF_vars(Exit(w)) /\ WF_vars(Start(w))
    /\ WF_vars(Tick)

FairSpec == Spec /\ Fairness
-----------------------------------------------------------------------------
(* Properties. *)

JobRecord   == [status : JobStatus, age : 0 .. AgeCap, rows : 0 .. Chunks]
ProcRecord  == [st : {"up", "stopping", "down"}, pc : Stage, job : Job \cup {None},
                pos : 0 .. Chunks, linked : BOOLEAN]
SweepRecord == [todo : SUBSET Job, cur : Job \cup {None}]

TypeOK ==
    /\ job \in [Job -> JobRecord]
    /\ file \in [Job -> (SUBSET Whole) \cup {NoFile}]
    /\ proc \in [Worker -> ProcRecord]
    /\ sweep \in [Worker -> SweepRecord]
    /\ restarts \in 0 .. RestartLimit
    /\ env \in Environments

Punctual == "slow" \notin env

\* SKIP LOCKED, the status it changes and the reaper's limit keep two workers
\* from writing the same file, as long as no attempt outlives the limit.
OneWriter ==
    Punctual => \A j \in Job, v, w \in Worker :
                    proc[v].job = j /\ proc[w].job = j => v = w

(***************************************************************************)
(* What a user may download: until its retention is over, the file of a    *)
(* ready export holds the rows that its row counts, whatever attempts were *)
(* cut short, failed or died before; and they are all of them, unless a    *)
(* shutdown cut the last attempt short.                                    *)
(***************************************************************************)
FileMatchesRow ==
    Punctual => \A j \in Job :
        job[j].status = "ready" /\ job[j].age <= Retention =>
            /\ file[j] = 1 .. job[j].rows
            /\ "shutdown" \notin env => job[j].rows = Chunks

\* The graceful shutdown marks an export in flight as failed, as the comment
\* over its signal handlers says.
ShutdownNeverReady ==
    \A j \in Job : job[j].status = "ready" => job[j].rows = Chunks

\* An export that is asked for is ready or failed in the end, unless the
\* database or the file system keep failing.
JobsSettle ==
    \A j \in Job :
        env \cap {"db_failure", "fs_failure"} = {} /\ job[j].status \in {"queued", "running"}
            ~> job[j].status \in {"ready", "failed", "expired"}

\* A ready export does not keep its file for ever: it is expired, even by a
\* sweep that finds the file gone because another died in the middle.
FilesReclaimed ==
    \A j \in Job :
        "db_failure" \notin env /\ job[j].status = "ready" ~> job[j].status # "ready"

\* The exports follow the documented life cycle, strictly where attempts are
\* punctual and know what they recorded.
Life == INSTANCE ExportLifecycle WITH
            status   <- [j \in Job |-> job[j].status],
            punctual <- env \cap {"slow", "db_failure"} = {}
FollowsLifecycle == Life!ELSpec
=============================================================================
