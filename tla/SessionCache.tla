---------------------------- MODULE SessionCache ----------------------------
(***************************************************************************)
(* The table ussd_active_sessions (db/002) and the statements the gateway  *)
(* and the scheduler run against it (app/db.py, db/032).  One statement is *)
(* one PostgreSQL transaction, so each operator here is one atomic read or *)
(* one atomic write; everything between two of them is an interleaving     *)
(* point of the gateway that uses them.                                    *)
(*                                                                         *)
(* A row keeps the service code, the menu trail and last_seen_at.  The     *)
(* trail is abstracted to its number of inputs and last_seen_at to an age  *)
(* in ticks.  `born' is a history field: the leg whose statement inserted  *)
(* the row, which names this life of the row.                              *)
(***************************************************************************)
EXTENDS Naturals, FiniteSets

CONSTANTS
    Session,        \* session ids; an id belongs to one operator
    Code,           \* service codes: dialled codes and partner slugs
    Leg,            \* requests the MNOs may send, each used at most once
    OpOf,           \* the operator of a session id
    IdleLimit,      \* ticks of silence after which an operator's session is dead
    MaxAge,         \* backlog guard: older rows are not claimed
    SweepAge,       \* the scheduler deletes rows older than this, silently
    ProviderCutoff, \* Vodacom's own idle cut-off
    Batch,          \* rows one claim may take
    None            \* null

Operators == {"vodacom", "airtel", "tigo", "halotel"}

ASSUME ConfigAssumption ==
    /\ OpOf \in [Session -> Operators]
    /\ IdleLimit \in [Operators -> Nat \ {0}]
    /\ MaxAge \in Nat
    /\ SweepAge \in Nat
    /\ ProviderCutoff \in Nat
    /\ Batch \in Nat \ {0}
    /\ \A o \in Operators : IdleLimit[o] < MaxAge
    /\ MaxAge <= SweepAge

ASSUME NoneAssumption == None \notin Session \cup Code \cup Leg

NoRow == [code |-> None, trail |-> 0, age |-> 0, born |-> None]

Row == [code : Code, trail : Nat, age : Nat, born : Leg]

IdleOf(s) == IdleLimit[OpOf[s]]

\* Ages past the sweep cut-off are indistinguishable: every predicate on
\* last_seen_at has been decided by then.
AgeCap == SweepAge + 1

(***************************************************************************)
(* The definitions named Mut... are never part of a specification: each is *)
(* the definition that follows with one plausible mistake, and documents a *)
(* property that the mistake breaks.                                       *)
(***************************************************************************)

\* ON CONFLICT that overwrites the service code too (NoticeReachesOpener).
MutUpsertedDrifts(r, c, t, l) ==
    IF r = NoRow
    THEN [code |-> c, trail |-> t, age |-> 0, born |-> l]
    ELSE [r EXCEPT !.code = c, !.trail = t, !.age = 0]

\* ON CONFLICT that only refreshes last_seen_at (TrailComplete).
MutUpsertedForgets(r, c, t, l) ==
    IF r = NoRow
    THEN [code |-> c, trail |-> t, age |-> 0, born |-> l]
    ELSE [r EXCEPT !.age = 0]

(***************************************************************************)
(* upsert_active_session: the row a START or an INPUT leaves behind.       *)
(***************************************************************************)
Upserted(r, c, t, l) ==
    IF r = NoRow
    THEN [code |-> c, trail |-> t, age |-> 0, born |-> l]
    ELSE [r EXCEPT !.trail = t, !.age = 0]

\* The backlog guard with its comparison reversed (HandlersReleased).
MutClaimableBeyondGuard(rows) ==
    {s \in Session : /\ rows[s] # NoRow
                     /\ rows[s].age > IdleOf(s)
                     /\ rows[s].age > MaxAge}

(***************************************************************************)
(* claim_expired_sessions: idle beyond the operator's limit, and not older *)
(* than the backlog guard.  A claim takes the oldest rows first, up to the *)
(* batch; rows another transaction holds locked are skipped, which may     *)
(* leave it fewer than the batch.                                          *)
(***************************************************************************)
Claimable(rows) ==
    {s \in Session : /\ rows[s] # NoRow
                     /\ rows[s].age > IdleOf(s)
                     /\ rows[s].age <= MaxAge}

Victims(rows) ==
    {S \in SUBSET Claimable(rows) :
        /\ S # {}
        /\ Cardinality(S) <= Batch
        /\ \A a \in S, b \in Claimable(rows) \ S : rows[a].age >= rows[b].age}

\* A sweep that keeps to the backlog guard as well (RowsDrain).
MutSweepableGuarded(rows) ==
    {s \in Session : rows[s] # NoRow /\ rows[s].age > SweepAge /\ rows[s].age <= MaxAge}

\* sweep_active_sessions: the rows the scheduler's backstop deletes.
Sweepable(rows) == {s \in Session : rows[s] # NoRow /\ rows[s].age > SweepAge}

Deleted(rows, S) == [s \in Session |-> IF s \in S THEN NoRow ELSE rows[s]]

\* now() advances: every row is one tick older.
Aged(rows) ==
    [s \in Session |->
        IF rows[s] = NoRow \/ rows[s].age = AgeCap
        THEN rows[s] ELSE [rows[s] EXCEPT !.age = @ + 1]]
=============================================================================
