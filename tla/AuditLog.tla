------------------------------ MODULE AuditLog ------------------------------
(***************************************************************************)
(* What log_leg and its writer thread promise, seen from outside: a lossy  *)
(* FIFO log.  Rows are offered one after the other; a row may be lost, but *)
(* the rows that reach ussd_session_logs do so once, in the order in which *)
(* they were offered.  The n-th row offered is the number n.               *)
(***************************************************************************)
EXTENDS Naturals, Sequences

VARIABLES
    offered,    \* number of rows offered so far
    pending,    \* rows accepted and neither logged nor lost yet, oldest first
    logged      \* ussd_session_logs

alVars == <<offered, pending, logged>>

ALInit == offered = 0 /\ pending = <<>> /\ logged = <<>>

\* A row is offered, and accepted or lost at once.
Offer ==
    /\ offered' = offered + 1
    /\ pending' \in {pending, Append(pending, offered + 1)}
    /\ UNCHANGED logged

\* The n oldest pending rows are committed together.
Commit(n) ==
    /\ logged' = logged \o SubSeq(pending, 1, n)
    /\ pending' = SubSeq(pending, n + 1, Len(pending))
    /\ UNCHANGED offered

\* The n oldest pending rows are lost together.
Lose(n) ==
    /\ pending' = SubSeq(pending, n + 1, Len(pending))
    /\ UNCHANGED <<offered, logged>>

\* The process dies: what it commits last it commits in order, and the rest
\* is lost.
Die(n) ==
    /\ logged' = logged \o SubSeq(pending, 1, n)
    /\ pending' = <<>>
    /\ UNCHANGED offered

ALNext ==
    \/ Offer
    \/ \E n \in 1 .. Len(pending) : Commit(n) \/ Lose(n)
    \/ \E n \in 0 .. Len(pending) : Die(n)

ALSpec == ALInit /\ [][ALNext]_alVars
=============================================================================
