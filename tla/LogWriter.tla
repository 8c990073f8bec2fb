----------------------------- MODULE LogWriter -----------------------------
(***************************************************************************)
(* The audit log of one gateway process (app/db.py): log_leg puts rows on  *)
(* a bounded queue from the event loop, a writer thread takes them off in  *)
(* batches and inserts each batch in one transaction, and the lifespan of  *)
(* app/main.py starts the writer and stops it with a sentinel and a join   *)
(* with a timeout.                                                         *)
(*                                                                         *)
(* log_leg and close_log_writer both run on the event loop and contain no  *)
(* await, so neither runs while the other does: no row is offered between  *)
(* the sentinel and the end of the join.  The writer thread interleaves    *)
(* with both.                                                              *)
(*                                                                         *)
(* The n-th row offered is the number n; 0 is the sentinel.                *)
(***************************************************************************)
EXTENDS Naturals, Sequences, FiniteSets

CONSTANTS
    QueueSize,  \* USSD_LOG_QUEUE_SIZE
    BatchMax,   \* USSD_LOG_BATCH_MAX
    RowLimit    \* bound: rows offered in all

ASSUME QueueAssumption ==
    QueueSize \in Nat \ {0} /\ BatchMax \in Nat \ {0} /\ RowLimit \in Nat

Sentinel == 0

VARIABLES
    phase,      \* the lifespan: off, up, join (in close_log_writer), closing (it returned), down
    queue,      \* _LOG_QUEUE's contents
    open,       \* _LOG_QUEUE is not None
    writer,     \* where the writer thread is
    batch,      \* the batch it has gathered
    stopping,   \* it has seen the sentinel
    logged,     \* ussd_session_logs
    offered,    \* history: number of calls of log_leg
    lost        \* history: rows that will never be logged

process == <<phase, queue, open, writer, batch, stopping>>
vars    == <<process, logged, offered, lost>>

\* get: blocked for a first row; gather: growing the batch; flush: in the
\* INSERT; stopped: returned; raised: ended by an exception.
WriterState == {"off", "get", "gather", "flush", "stopped", "raised"}

\* The rows of the queue, its sentinel left out: it is put last.
RowsOf(q) == IF q # <<>> /\ q[Len(q)] = Sentinel THEN SubSeq(q, 1, Len(q) - 1) ELSE q

InQueue == {queue[i] : i \in 1 .. Len(queue)} \ {Sentinel}
InBatch == {batch[i] : i \in 1 .. Len(batch)}
Logged  == {logged[i] : i \in 1 .. Len(logged)}

\* The definitions named Mut... are variants with one plausible mistake; each
\* documents a property that the mistake breaks.

-----------------------------------------------------------------------------
(* The event loop. *)

\* init_pool and init_log_writer, at the start of the lifespan.
Start ==
    /\ phase = "off"
    /\ phase' = "up" /\ open' = TRUE /\ queue' = <<>>
    /\ writer' = "get" /\ stopping' = FALSE /\ batch' = <<>>
    /\ UNCHANGED <<logged, offered, lost>>

\* A full queue that makes room by dropping its oldest row, which nothing
\* accounts for (Accounted).
MutLogLegEvicts ==
    /\ phase \in {"up", "down"}
    /\ offered < RowLimit
    /\ offered' = offered + 1
    /\ IF open
       THEN /\ queue' = Append(IF Len(queue) < QueueSize THEN queue ELSE Tail(queue), offered')
            /\ UNCHANGED lost
       ELSE lost' = lost \cup {offered'} /\ UNCHANGED queue
    /\ UNCHANGED <<phase, open, writer, batch, stopping, logged>>

(***************************************************************************)
(* log_leg: put_nowait, or drop the row when the queue is full.  After the *)
(* shutdown a task that is still running finds no queue, and its           *)
(* synchronous insert finds the pool closed.                               *)
(***************************************************************************)
LogLeg ==
    /\ phase \in {"up", "down"}
    /\ offered < RowLimit
    /\ offered' = offered + 1
    /\ IF open /\ Len(queue) < QueueSize
       THEN queue' = Append(queue, offered') /\ UNCHANGED lost
       ELSE lost' = lost \cup {offered'} /\ UNCHANGED queue
    /\ UNCHANGED <<phase, open, writer, batch, stopping, logged>>

\* close_log_writer up to the join: a full queue gets no sentinel.
CloseBegins ==
    /\ phase = "up"
    /\ phase' = "join"
    /\ queue' = IF Len(queue) < QueueSize THEN Append(queue, Sentinel) ELSE queue
    /\ UNCHANGED <<open, writer, batch, stopping, logged, offered, lost>>

\* A join without a timeout (ShutdownEnds).
MutCloseEndsJoins ==
    /\ phase = "join" /\ writer \in {"stopped", "raised"}
    /\ phase' = "closing" /\ open' = FALSE
    /\ UNCHANGED <<queue, writer, batch, stopping, logged, offered, lost>>

\* The join returns because the thread ended, or by its timeout; then the
\* queue is forgotten ...
CloseEnds ==
    /\ phase = "join"
    /\ phase' = "closing" /\ open' = FALSE
    /\ UNCHANGED <<queue, writer, batch, stopping, logged, offered, lost>>

\* ... and the pool closed, before the event loop runs another task.
PoolCloses ==
    /\ phase = "closing"
    /\ phase' = "down"
    /\ UNCHANGED <<queue, open, writer, batch, stopping, logged, offered, lost>>

(***************************************************************************)
(* The process is killed, or exits after its shutdown.  The writer is a    *)
(* daemon thread: what it holds and what is queued is gone, except a batch *)
(* whose transaction commits at that moment.                               *)
(***************************************************************************)
ProcessEnds ==
    /\ phase # "off"
    /\ \E commits \in {TRUE, FALSE} :
         /\ commits => writer = "flush"
         /\ logged' = IF commits THEN logged \o batch ELSE logged
         /\ lost' = lost \cup InQueue \cup (IF commits THEN {} ELSE InBatch)
    /\ phase' = "off" /\ open' = FALSE /\ queue' = <<>>
    /\ writer' = "off" /\ stopping' = FALSE /\ batch' = <<>>
    /\ UNCHANGED offered

-----------------------------------------------------------------------------
(* The writer thread, _writer_loop. *)

\* The blocking get of a first row, or of the sentinel.
GetFirst ==
    /\ writer = "get" /\ open /\ queue # <<>>
    /\ queue' = Tail(queue)
    /\ writer' = "gather"
    /\ IF Head(queue) = Sentinel
       THEN stopping' = TRUE /\ batch' = <<>>
       ELSE batch' = <<Head(queue)>> /\ UNCHANGED stopping
    /\ UNCHANGED <<phase, open, logged, offered, lost>>

\* A sentinel that ends the thread before the batch is flushed
\* (DrainedWhenStopped).
MutGetMoreStops ==
    /\ writer = "gather" /\ open /\ queue # <<>>
    /\ Len(batch) < BatchMax
    /\ queue' = Tail(queue)
    /\ IF Head(queue) = Sentinel
       THEN stopping' = TRUE /\ writer' = "stopped" /\ UNCHANGED batch
       ELSE batch' = Append(batch, Head(queue)) /\ UNCHANGED <<stopping, writer>>
    /\ UNCHANGED <<phase, open, logged, offered, lost>>

\* A batch that takes one row too many (TypeOK).
MutGetMoreOverfills ==
    /\ writer = "gather" /\ open /\ queue # <<>>
    /\ Len(batch) <= BatchMax
    /\ queue' = Tail(queue)
    /\ IF Head(queue) = Sentinel
       THEN stopping' = TRUE /\ writer' = "flush" /\ UNCHANGED batch
       ELSE batch' = Append(batch, Head(queue)) /\ UNCHANGED <<stopping, writer>>
    /\ UNCHANGED <<phase, open, logged, offered, lost>>

\* Another row for the batch; the sentinel ends the gathering.
GetMore ==
    /\ writer = "gather" /\ open /\ queue # <<>>
    /\ Len(batch) < BatchMax
    /\ queue' = Tail(queue)
    /\ IF Head(queue) = Sentinel
       THEN stopping' = TRUE /\ writer' = "flush" /\ UNCHANGED batch
       ELSE batch' = Append(batch, Head(queue)) /\ UNCHANGED <<stopping, writer>>
    /\ UNCHANGED <<phase, open, logged, offered, lost>>

\* Back to the loop's condition.
Leave == IF stopping THEN "stopped" ELSE "get"

\* The batch is full, or its latency is over.  Once the pool is closed the
\* flush raises at once.
GatherEnds ==
    /\ writer = "gather"
    /\ IF phase # "down" \/ batch = <<>>
       THEN writer' = "flush" /\ UNCHANGED <<batch, lost>>
       ELSE writer' = Leave /\ batch' = <<>> /\ lost' = lost \cup InBatch
    /\ UNCHANGED <<phase, queue, open, stopping, logged, offered>>

\* _flush_batch commits, whether or not the thread learns of it: it goes on
\* all the same.  A batch is empty only when the sentinel came first;
\* nothing is inserted then.
FlushCommits ==
    /\ writer = "flush"
    /\ logged' = logged \o batch
    /\ batch' = <<>>
    /\ writer' = Leave
    /\ UNCHANGED <<phase, queue, open, stopping, offered, lost>>

\* A flush that raises and is tried again (Implements).
MutFlushFailsRequeues ==
    /\ writer = "flush" /\ batch # <<>>
    /\ queue' = queue \o batch
    /\ batch' = <<>>
    /\ writer' = Leave
    /\ UNCHANGED <<phase, open, stopping, logged, offered, lost>>

\* A flush whose exception ends the thread (RowsSettle).
MutFlushFailsRaises ==
    /\ writer = "flush" /\ batch # <<>>
    /\ lost' = lost \cup InBatch
    /\ batch' = <<>>
    /\ writer' = "raised"
    /\ UNCHANGED <<phase, queue, open, stopping, logged, offered>>

\* _flush_batch raises: the batch is dropped, the thread goes on.
FlushFails ==
    /\ writer = "flush" /\ batch # <<>>
    /\ lost' = lost \cup InBatch
    /\ batch' = <<>>
    /\ writer' = Leave
    /\ UNCHANGED <<phase, queue, open, stopping, logged, offered>>

\* close_log_writer gave up and set _LOG_QUEUE to None: the next get is an
\* AttributeError, and the thread ends with the batch it holds.
QueueForgotten ==
    /\ writer \in {"get", "gather"} /\ ~open
    /\ writer' = "raised"
    /\ batch' = <<>> /\ lost' = lost \cup InBatch
    /\ UNCHANGED <<phase, queue, open, stopping, logged, offered>>

-----------------------------------------------------------------------------
Init ==
    /\ phase = "off" /\ open = FALSE /\ queue = <<>>
    /\ writer = "off" /\ stopping = FALSE /\ batch = <<>>
    /\ logged = <<>> /\ offered = 0 /\ lost = {}

Writer == GetFirst \/ GetMore \/ GatherEnds \/ FlushCommits \/ FlushFails \/ QueueForgotten

Loop == Start \/ LogLeg \/ CloseBegins \/ CloseEnds \/ PoolCloses

Next == Loop \/ Writer \/ ProcessEnds

Spec == Init /\ [][Next]_vars

\* The writer thread is scheduled and its database calls return, one way or
\* the other; the join has a timeout; a process that has shut down exits.
FairSpec ==
    /\ Spec
    /\ WF_vars(Writer)
    /\ WF_vars(CloseEnds) /\ WF_vars(PoolCloses)
    /\ WF_vars(phase = "down" /\ ProcessEnds)
-----------------------------------------------------------------------------
(* Properties. *)

\* Types, with the limits of the queue and of a batch.
TypeOK ==
    /\ phase \in {"off", "up", "join", "closing", "down"}
    /\ queue \in Seq(Nat) /\ Len(queue) <= QueueSize
    /\ open \in BOOLEAN /\ stopping \in BOOLEAN
    /\ writer \in WriterState
    /\ batch \in Seq(Nat \ {Sentinel}) /\ Len(batch) <= BatchMax
    /\ logged \in Seq(Nat \ {Sentinel})
    /\ offered \in Nat
    /\ lost \subseteq 1 .. offered

(***************************************************************************)
(* No row disappears without a trace and none is both kept and given up:   *)
(* every row offered to log_leg is logged, on its way, or lost at a place  *)
(* where the code drops it, and only one of them.                          *)
(***************************************************************************)
Accounted ==
    /\ 1 .. offered = Logged \cup InBatch \cup InQueue \cup lost
    /\ lost \cap (Logged \cup InBatch \cup InQueue) = {}

\* A writer thread that returned has left nothing behind: the sentinel is the
\* last thing it takes, and the batch it cut short is flushed.
DrainedWhenStopped == writer = "stopped" => queue = <<>> /\ batch = <<>>

\* Whatever its flushes do, the thread serves as long as the process does.
WriterServes == phase = "up" => writer \in {"get", "gather", "flush"} /\ ~stopping

\* Every row offered is logged or lost in the end.
RowsSettle == \A n \in 1 .. RowLimit : offered >= n ~> n \in Logged \cup lost

\* A shutdown is not held up by the writer, wedged or without its sentinel.
ShutdownEnds == phase \in {"join", "closing"} ~> phase \notin {"join", "closing"}

\* The writer's log is a lossy FIFO log: no row is logged twice or out of
\* order, whatever the batches, failures and restarts.
Log == INSTANCE AuditLog WITH pending <- batch \o RowsOf(queue)
Implements == Log!ALSpec
=============================================================================
