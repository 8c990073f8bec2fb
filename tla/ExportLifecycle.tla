-------------------------- MODULE ExportLifecycle --------------------------
(***************************************************************************)
(* The life of an export as dashboard/src/lib/exports.ts and db/006 state  *)
(* it: queued, running, ready, expired; from running also failed, or back  *)
(* to queued.  That is what holds of punctual workers.  An attempt that    *)
(* outlives the reaper's limit, or does not learn that its last statement  *)
(* was committed, still records an outcome, whatever the export's status   *)
(* is by then.                                                             *)
(***************************************************************************)
CONSTANT Job

VARIABLES
    status,     \* of each export
    punctual    \* no attempt is late, and every outcome is known; for ever

elVars == <<status, punctual>>

Outcomes == {"ready", "failed"}

ELInit == status = [j \in Job |-> "none"] /\ punctual \in BOOLEAN

Documented(s, t) ==
    \/ s = "none"    /\ t = "queued"
    \/ s = "queued"  /\ t = "running"
    \/ s = "running" /\ t \in Outcomes \cup {"queued"}
    \/ s = "ready"   /\ t = "expired"

Late(s, t) == s # "none" /\ t \in Outcomes \cup {"expired"}

\* Statements of the workers move one export, the reaper and nothing else
\* moves several at once.
ELNext ==
    /\ UNCHANGED punctual
    /\ \/ \E j \in Job, t \in {"queued", "running", "ready", "failed", "expired"} :
             /\ Documented(status[j], t) \/ (~punctual /\ Late(status[j], t))
             /\ status' = [status EXCEPT ![j] = t]
       \/ \E S \in SUBSET {j \in Job : status[j] = "running"} :
             status' = [j \in Job |-> IF j \in S THEN "queued" ELSE status[j]]

ELSpec == ELInit /\ [][ELNext]_elVars
=============================================================================
