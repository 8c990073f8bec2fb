-------------------------- MODULE LogWriterProofs --------------------------
(***************************************************************************)
(* Theorems about LogWriter, for every queue size, batch size and number   *)
(* of rows: the inductive invariant Inv (types, where the sentinel is, and *)
(* how the lifespan and the writer thread go together), Apart (where each  *)
(* row is), and the refinement of AuditLog, whose steps rest on Inv.       *)
(***************************************************************************)
EXTENDS LogWriter, SequenceTheorems, TLAPS

\* A row is the number of a call of log_leg that has been made.
Offered == 1 .. offered

\* The types, with the limits of the queue and of a batch, and every row one
\* that was offered.
Types ==
    /\ phase \in {"off", "up", "join", "closing", "down"} /\ writer \in WriterState
    /\ open \in BOOLEAN /\ stopping \in BOOLEAN
    /\ offered \in Nat /\ lost \subseteq Offered
    /\ queue \in Seq(Offered \cup {Sentinel}) /\ Len(queue) <= QueueSize
    /\ batch \in Seq(Offered) /\ Len(batch) <= BatchMax
    /\ logged \in Seq(Offered)

\* The sentinel is put last, by the shutdown, so nothing is behind it.
SentinelLast ==
    \A i \in 1 .. Len(queue) : queue[i] = Sentinel => /\ i = Len(queue)
                                                      /\ phase \in {"join", "closing", "down"}

(***************************************************************************)
(* Where the lifespan is, where the writer thread is, and what they hold.  *)
(***************************************************************************)
Control ==
    /\ open <=> phase \in {"up", "join"}
    /\ writer = "off" <=> phase = "off"
    /\ phase = "off" => queue = <<>> /\ batch = <<>>
    /\ stopping => queue = <<>> /\ phase \in {"join", "closing", "down"}
    /\ writer = "get" => batch = <<>> /\ ~stopping
    /\ writer = "stopped" => batch = <<>> /\ stopping
    /\ writer = "raised" => phase \in {"closing", "down"}

Inv == Types /\ SentinelLast /\ Control

-----------------------------------------------------------------------------
(* Sequences. *)

\* Sequences without their head, in the form the steps below use.
LEMMA TailFacts ==
    ASSUME NEW S, NEW q \in Seq(S), q # <<>>
    PROVE  /\ Head(q) \in S
           /\ Head(q) = q[1]
           /\ Tail(q) \in Seq(S)
           /\ Len(Tail(q)) = Len(q) - 1
           /\ \A i \in 1 .. Len(q) - 1 : Tail(q)[i] = q[i + 1]
           /\ Len(q) \in Nat \ {0}
  OBVIOUS

\* A sequence is one over any larger set.
LEMMA WiderSeq ==
    ASSUME NEW S, NEW T, S \subseteq T, NEW q \in Seq(S)
    PROVE  q \in Seq(T)
  <1>1. /\ Len(q) \in Nat
        /\ q \in [1 .. Len(q) -> T]
    OBVIOUS
  <1>2. QED
    BY <1>1

-----------------------------------------------------------------------------
\* The invariant holds before the process is started.
LEMMA InitInv == Init => Inv
<1> SUFFICES ASSUME Init PROVE Inv
  OBVIOUS
<1>1. /\ Len(queue) = 0 /\ 0 <= QueueSize
      /\ Len(batch) = 0 /\ 0 <= BatchMax
  BY QueueAssumption DEF Init
<1>2. phase \in {"off", "up", "join", "closing", "down"} /\ writer \in WriterState
  BY DEF Init, WriterState
<1>3. open \in BOOLEAN /\ stopping \in BOOLEAN
  BY DEF Init
<1>4. /\ queue \in Seq(Offered \cup {Sentinel})
      /\ batch \in Seq(Offered)
      /\ logged \in Seq(Offered)
      /\ offered \in Nat /\ lost \subseteq Offered
  BY DEF Init
<1>5. Types
  BY <1>1, <1>2, <1>3, <1>4 DEF Types
<1>6. SentinelLast
  BY DEF Init, SentinelLast
<1>7. Control
  BY DEF Init, Control
<1>8. QED
  BY <1>5, <1>6, <1>7 DEF Inv

\* Every step keeps the invariant: one case per action.
LEMMA StepInv == Inv /\ [Next]_vars => Inv'
<1> SUFFICES ASSUME Inv, [Next]_vars PROVE Inv'
  OBVIOUS
<1> USE DEF Offered, WriterState
<1>t. Types /\ SentinelLast /\ Control
  BY DEF Inv
<1>0. CASE UNCHANGED vars
  BY <1>t, <1>0 DEF Inv, Types, SentinelLast, Control, vars, process
<1>1. CASE Start
  <2>1. queue' = <<>> /\ batch' = <<>> /\ Len(queue') = 0 /\ Len(batch') = 0
    BY <1>1 DEF Start
  <2>2. 0 <= QueueSize /\ 0 <= BatchMax
    BY QueueAssumption
  <2>a. queue' \in Seq(Offered' \cup {Sentinel}) /\ batch' \in Seq(Offered')
    BY <2>1
  <2>3. Types'
    BY <1>1, <1>t, <2>1, <2>2, <2>a DEF Start, Types
  <2>4. SentinelLast'
    BY <2>1 DEF SentinelLast
  <2>5. Control'
    BY <1>1, <1>t DEF Start, Control
  <2> QED
    BY <2>3, <2>4, <2>5 DEF Inv
<1>2. CASE LogLeg
  <2>1. offered \in Nat /\ offered' = offered + 1 /\ Offered \subseteq Offered'
    BY <1>2, <1>t DEF LogLeg, Types
  <2>2. batch' \in Seq(Offered') /\ logged' \in Seq(Offered') /\ queue \in Seq(Offered' \cup {Sentinel})
    BY <1>2, <1>t, <2>1, WiderSeq DEF LogLeg, Types
  <2>3. CASE open /\ Len(queue) < QueueSize
    <3>1. /\ queue' = Append(queue, offered') /\ lost' = lost /\ phase = "up"
          /\ offered' \in Offered' \cup {Sentinel}
      BY <1>2, <1>t, <2>1, <2>3 DEF LogLeg, Types, Control
    <3>2. /\ queue' \in Seq(Offered' \cup {Sentinel})
          /\ Len(queue') = Len(queue) + 1
          /\ \A i \in 1 .. Len(queue) : queue'[i] = queue[i]
          /\ queue'[Len(queue) + 1] = offered'
          /\ Len(queue) \in Nat
      BY <3>1, <2>2, AppendProperties
    <3>3. Len(queue') <= QueueSize
      BY <3>2, <2>3, QueueAssumption
    <3>4. Types'
      BY <1>2, <1>t, <2>1, <2>2, <3>1, <3>2, <3>3 DEF LogLeg, Types
    <3>5. SentinelLast'
      BY <1>t, <2>1, <3>1, <3>2 DEF SentinelLast, Sentinel
    <3>6. Control'
      BY <1>2, <1>t, <3>1 DEF LogLeg, Control
    <3> QED
      BY <3>4, <3>5, <3>6 DEF Inv
  <2>4. CASE ~(open /\ Len(queue) < QueueSize)
    <3>1. queue' = queue /\ lost' = lost \cup {offered'}
      BY <1>2, <2>4 DEF LogLeg
    <3>4. Types'
      BY <1>2, <1>t, <2>1, <2>2, <3>1 DEF LogLeg, Types
    <3>5. SentinelLast'
      BY <1>2, <1>t, <3>1 DEF SentinelLast, LogLeg
    <3>6. Control'
      BY <1>2, <1>t, <3>1 DEF LogLeg, Control
    <3> QED
      BY <3>4, <3>5, <3>6 DEF Inv
  <2> QED
    BY <2>3, <2>4
<1>3. CASE CloseBegins
  <2>1. CASE Len(queue) < QueueSize
    <3>1. queue' = Append(queue, Sentinel) /\ offered' = offered
      BY <1>3, <2>1 DEF CloseBegins
    <3>2. /\ queue' \in Seq(Offered' \cup {Sentinel})
          /\ Len(queue') = Len(queue) + 1
          /\ \A i \in 1 .. Len(queue) : queue'[i] = queue[i]
          /\ Len(queue) \in Nat
      BY <3>1, <1>t, AppendProperties DEF Types
    <3>3. Len(queue') <= QueueSize
      BY <3>2, <2>1, QueueAssumption
    <3>4. Types'
      BY <1>3, <1>t, <3>1, <3>2, <3>3 DEF CloseBegins, Types
    <3>5. SentinelLast'
      BY <1>3, <1>t, <3>2 DEF CloseBegins, SentinelLast
    <3>6. Control'
      BY <1>3, <1>t DEF CloseBegins, Control
    <3> QED
      BY <3>4, <3>5, <3>6 DEF Inv
  <2>2. CASE ~(Len(queue) < QueueSize)
    BY <1>3, <1>t, <2>2 DEF CloseBegins, Inv, Types, SentinelLast, Control
  <2> QED
    BY <2>1, <2>2
<1>4. CASE CloseEnds \/ PoolCloses
  <2>1. UNCHANGED <<queue, writer, batch, stopping, logged, offered, lost>>
    BY <1>4 DEF CloseEnds, PoolCloses
  <2>2. phase' \in {"closing", "down"} /\ open' = FALSE /\ phase \in {"join", "closing"}
    BY <1>4, <1>t DEF CloseEnds, PoolCloses, Control
  <2>3. Types' /\ SentinelLast'
    BY <1>t, <2>1, <2>2 DEF Types, SentinelLast
  <2>4. Control'
    BY <1>t, <2>1, <2>2 DEF Control
  <2> QED
    BY <2>3, <2>4 DEF Inv
<1>5. CASE ProcessEnds
  <2>1. queue' = <<>> /\ batch' = <<>> /\ Len(queue') = 0 /\ Len(batch') = 0
    BY <1>5 DEF ProcessEnds
  <2>2. 0 <= QueueSize /\ 0 <= BatchMax
    BY QueueAssumption
  <2>3. logged' \in Seq(Offered')
    <3>1. logged \o batch \in Seq(Offered)
      BY <1>t, ConcatProperties DEF Types
    <3> QED
      BY <3>1, <1>5, <1>t DEF ProcessEnds, Types
  <2>4. InQueue \subseteq Offered /\ InBatch \subseteq Offered
    BY <1>t DEF Types, InQueue, InBatch
  <2>5. lost' \subseteq Offered'
    BY <1>5, <1>t, <2>4 DEF ProcessEnds, Types
  <2>a. queue' \in Seq(Offered' \cup {Sentinel}) /\ batch' \in Seq(Offered')
    BY <2>1
  <2>6. Types'
    BY <1>5, <1>t, <2>1, <2>2, <2>3, <2>5, <2>a DEF ProcessEnds, Types
  <2>7. SentinelLast'
    BY <2>1 DEF SentinelLast
  <2>8. Control'
    BY <1>5, <1>t DEF ProcessEnds, Control
  <2> QED
    BY <2>6, <2>7, <2>8 DEF Inv
<1>6. CASE GetFirst
  <2>1. /\ Head(queue) \in Offered \cup {Sentinel}
        /\ Head(queue) = queue[1]
        /\ queue' \in Seq(Offered \cup {Sentinel})
        /\ Len(queue') = Len(queue) - 1
        /\ \A i \in 1 .. Len(queue) - 1 : queue'[i] = queue[i + 1]
        /\ Len(queue) \in Nat \ {0}
    BY <1>6, <1>t, TailFacts DEF GetFirst, Types
  <2>2. SentinelLast'
    <3>1. SUFFICES ASSUME NEW i \in 1 .. Len(queue'), queue'[i] = Sentinel
                   PROVE  i = Len(queue') /\ phase' \in {"join", "closing", "down"}
      BY DEF SentinelLast
    <3>2. i + 1 \in 1 .. Len(queue) /\ queue[i + 1] = Sentinel
      BY <2>1, <3>1
    <3>3. i + 1 = Len(queue) /\ phase \in {"join", "closing", "down"}
      BY <1>t, <3>2 DEF SentinelLast
    <3>4. i \in Nat /\ i = Len(queue) - 1
      BY <2>1, <3>1, <3>3
    <3>5. phase' = phase
      BY <1>6 DEF GetFirst
    <3> QED
      BY <2>1, <3>3, <3>4, <3>5
  <2>3. Len(queue') <= QueueSize
    BY <1>t, <2>1, QueueAssumption DEF Types
  <2>4. CASE Head(queue) = Sentinel
    <3>1. batch' = <<>> /\ Len(batch') = 0 /\ 0 <= BatchMax
      BY <1>6, <2>4, QueueAssumption DEF GetFirst
    <3>2. Types'
      BY <1>6, <1>t, <2>1, <2>3, <2>4, <3>1 DEF GetFirst, Types
    <3>3. Len(queue) = 1 /\ phase \in {"join", "closing", "down"}
      BY <1>t, <2>1, <2>4 DEF SentinelLast
    <3>4. queue' = <<>>
      BY <2>1, <3>3
    <3>5. Control'
      BY <1>6, <1>t, <2>4, <3>3, <3>4 DEF GetFirst, Control
    <3> QED
      BY <3>2, <3>5, <2>2 DEF Inv
  <2>5. CASE Head(queue) # Sentinel
    <3>1. batch' = <<Head(queue)>> /\ Len(batch') = 1 /\ 1 <= BatchMax
      BY <1>6, <2>5, QueueAssumption DEF GetFirst
    <3>2. batch' \in Seq(Offered)
      BY <2>1, <2>5, <3>1
    <3>3. Types'
      BY <1>6, <1>t, <2>1, <2>3, <2>5, <3>1, <3>2 DEF GetFirst, Types
    <3>4. Control'
      BY <1>6, <1>t, <2>5 DEF GetFirst, Control
    <3> QED
      BY <3>3, <3>4, <2>2 DEF Inv
  <2> QED
    BY <2>4, <2>5
<1>7. CASE GetMore
  <2>1. /\ Head(queue) \in Offered \cup {Sentinel}
        /\ Head(queue) = queue[1]
        /\ queue' \in Seq(Offered \cup {Sentinel})
        /\ Len(queue') = Len(queue) - 1
        /\ \A i \in 1 .. Len(queue) - 1 : queue'[i] = queue[i + 1]
        /\ Len(queue) \in Nat \ {0}
    BY <1>7, <1>t, TailFacts DEF GetMore, Types
  <2>2. SentinelLast'
    <3>1. SUFFICES ASSUME NEW i \in 1 .. Len(queue'), queue'[i] = Sentinel
                   PROVE  i = Len(queue') /\ phase' \in {"join", "closing", "down"}
      BY DEF SentinelLast
    <3>2. i + 1 \in 1 .. Len(queue) /\ queue[i + 1] = Sentinel
      BY <2>1, <3>1
    <3>3. i + 1 = Len(queue) /\ phase \in {"join", "closing", "down"}
      BY <1>t, <3>2 DEF SentinelLast
    <3>4. i \in Nat /\ i = Len(queue) - 1
      BY <2>1, <3>1, <3>3
    <3>5. phase' = phase
      BY <1>7 DEF GetMore
    <3> QED
      BY <2>1, <3>3, <3>4, <3>5
  <2>3. Len(queue') <= QueueSize
    BY <1>t, <2>1, QueueAssumption DEF Types
  <2>4. CASE Head(queue) = Sentinel
    <3>1. Types'
      BY <1>7, <1>t, <2>1, <2>3, <2>4 DEF GetMore, Types
    <3>2. Len(queue) = 1 /\ phase \in {"join", "closing", "down"}
      BY <1>t, <2>1, <2>4 DEF SentinelLast
    <3>3. queue' = <<>>
      BY <2>1, <3>2
    <3>4. Control'
      BY <1>7, <1>t, <2>4, <3>2, <3>3 DEF GetMore, Control
    <3> QED
      BY <3>1, <3>4, <2>2 DEF Inv
  <2>5. CASE Head(queue) # Sentinel
    <3>1. batch' = Append(batch, Head(queue)) /\ Head(queue) \in Offered
      BY <1>7, <2>1, <2>5 DEF GetMore
    <3>2. /\ batch' \in Seq(Offered)
          /\ Len(batch') = Len(batch) + 1 /\ Len(batch) \in Nat
      BY <1>t, <3>1, AppendProperties DEF Types
    <3>3. Len(batch') <= BatchMax
      BY <1>7, <3>2, QueueAssumption DEF GetMore
    <3>4. Types'
      BY <1>7, <1>t, <2>1, <2>3, <2>5, <3>2, <3>3 DEF GetMore, Types
    <3>5. Control'
      BY <1>7, <1>t, <2>5 DEF GetMore, Control
    <3> QED
      BY <3>4, <3>5, <2>2 DEF Inv
  <2> QED
    BY <2>4, <2>5
<1>8. InBatch \subseteq Offered
  BY <1>t DEF Types, InBatch
<1>9. CASE GatherEnds
  <2>1. CASE phase # "down" \/ batch = <<>>
    BY <1>9, <1>t, <2>1 DEF GatherEnds, Inv, Types, SentinelLast, Control
  <2>2. CASE ~(phase # "down" \/ batch = <<>>)
    <3>1. /\ batch' = <<>> /\ Len(batch') = 0 /\ 0 <= BatchMax
          /\ lost' = lost \cup InBatch /\ writer' = Leave
      BY <1>9, <2>2, QueueAssumption DEF GatherEnds
    <3>2. Types'
      BY <1>8, <1>9, <1>t, <3>1 DEF GatherEnds, Types, Leave
    <3>3. SentinelLast'
      BY <1>9, <1>t DEF GatherEnds, SentinelLast
    <3>4. Control'
      BY <1>9, <1>t, <3>1 DEF GatherEnds, Control, Leave
    <3> QED
      BY <3>2, <3>3, <3>4 DEF Inv
  <2> QED
    BY <2>1, <2>2
<1>10. CASE FlushCommits
  <2>1. batch' = <<>> /\ Len(batch') = 0 /\ 0 <= BatchMax
    BY <1>10, QueueAssumption DEF FlushCommits
  <2>2. logged' \in Seq(Offered)
    BY <1>10, <1>t, ConcatProperties DEF FlushCommits, Types
  <2>3. Types'
    BY <1>10, <1>t, <2>1, <2>2 DEF FlushCommits, Types, Leave
  <2>4. SentinelLast'
    BY <1>10, <1>t DEF FlushCommits, SentinelLast
  <2>5. Control'
    BY <1>10, <1>t DEF FlushCommits, Control, Leave
  <2> QED
    BY <2>3, <2>4, <2>5 DEF Inv
<1>11. CASE FlushFails
  <2>1. batch' = <<>> /\ Len(batch') = 0 /\ 0 <= BatchMax
    BY <1>11, QueueAssumption DEF FlushFails
  <2>2. Types'
    BY <1>8, <1>11, <1>t, <2>1 DEF FlushFails, Types, Leave
  <2>3. SentinelLast'
    BY <1>11, <1>t DEF FlushFails, SentinelLast
  <2>4. Control'
    BY <1>11, <1>t DEF FlushFails, Control, Leave
  <2> QED
    BY <2>2, <2>3, <2>4 DEF Inv
<1>12. CASE QueueForgotten
  <2>1. batch' = <<>> /\ Len(batch') = 0 /\ 0 <= BatchMax
    BY <1>12, QueueAssumption DEF QueueForgotten
  <2>2. Types'
    BY <1>8, <1>12, <1>t, <2>1 DEF QueueForgotten, Types
  <2>3. SentinelLast'
    BY <1>12, <1>t DEF QueueForgotten, SentinelLast
  <2>4. Control'
    BY <1>12, <1>t DEF QueueForgotten, Control, Types
  <2> QED
    BY <2>2, <2>3, <2>4 DEF Inv
<1>13. QED
  BY <1>0, <1>1, <1>2, <1>3, <1>4, <1>5, <1>6, <1>7, <1>9, <1>10, <1>11, <1>12
     DEF Next, Loop, Writer

\* The invariant holds in every state of every behaviour.
LEMMA Invariance == Spec => []Inv
<1>1. QED
  BY InitInv, StepInv, PTL DEF Spec

(***************************************************************************)
(* The queue and the batch keep to their limits, and every variable to its *)
(* type.                                                                   *)
(***************************************************************************)
THEOREM LogTyping == Spec => []TypeOK
<1>1. Inv => TypeOK
  <2> SUFFICES ASSUME Types PROVE TypeOK
    BY DEF Inv
  <2>1. /\ Offered \cup {Sentinel} \subseteq Nat
        /\ Offered \subseteq Nat \ {Sentinel}
    BY DEF Types, Offered, Sentinel
  <2>2. /\ queue \in Seq(Nat)
        /\ batch \in Seq(Nat \ {Sentinel}) /\ logged \in Seq(Nat \ {Sentinel})
    BY <2>1, WiderSeq DEF Types
  <2> QED
    BY <2>2 DEF Types, TypeOK, Offered
<1>2. QED
  BY <1>1, Invariance, PTL

(***************************************************************************)
(* A writer thread that has returned, having seen the sentinel, has left   *)
(* no row in the queue and none in its batch.                              *)
(***************************************************************************)
THEOREM StopDrains == Spec => []DrainedWhenStopped
<1>1. Inv => DrainedWhenStopped
  BY DEF Inv, Control, DrainedWhenStopped
<1>2. QED
  BY <1>1, Invariance, PTL

(***************************************************************************)
(* No failed flush and no order of steps makes the writer thread leave     *)
(* while the process serves requests.                                      *)
(***************************************************************************)
THEOREM WriterSurvives == Spec => []WriterServes
<1>1. Inv => WriterServes
  BY DEF Inv, Types, Control, WriterServes, WriterState
<1>2. QED
  BY <1>1, Invariance, PTL

-----------------------------------------------------------------------------
(* Where each row is. *)

Elements(q) == {q[i] : i \in 1 .. Len(q)}

\* What Append adds to the elements of a sequence.
LEMMA AppendElements ==
    ASSUME NEW S, NEW q \in Seq(S), NEW x \in S
    PROVE  Elements(Append(q, x)) = Elements(q) \cup {x}
  <1>1. \A i \in 1 .. Len(q) + 1 : i \in 1 .. Len(q) \/ i = Len(q) + 1
    BY AppendProperties
  <1>2. QED
    BY <1>1, AppendProperties DEF Elements

\* What Tail leaves of them.
LEMMA TailElements ==
    ASSUME NEW S, NEW q \in Seq(S), q # <<>>
    PROVE  Elements(q) = Elements(Tail(q)) \cup {Head(q)}
  <1>1. ASSUME NEW i \in 1 .. Len(q)
        PROVE  q[i] \in Elements(Tail(q)) \cup {Head(q)}
    <2>1. CASE i = 1
      BY <2>1, TailFacts
    <2>2. CASE i # 1
      <3>1. i - 1 \in 1 .. Len(Tail(q)) /\ Tail(q)[i - 1] = q[i]
        BY <2>2, TailFacts
      <3>2. QED
        BY <3>1 DEF Elements
    <2>3. QED
      BY <2>1, <2>2
  <1>2. ASSUME NEW i \in 1 .. Len(Tail(q))
        PROVE  Tail(q)[i] \in Elements(q)
    <2>1. i + 1 \in 1 .. Len(q) /\ Tail(q)[i] = q[i + 1]
      BY TailFacts
    <2>2. QED
      BY <2>1 DEF Elements
  <1>3. Head(q) \in Elements(q)
    BY TailFacts DEF Elements
  <1>4. QED
    BY <1>1, <1>2, <1>3 DEF Elements

\* The elements of a concatenation.
LEMMA ConcatElements ==
    ASSUME NEW S, NEW a \in Seq(S), NEW b \in Seq(S)
    PROVE  Elements(a \o b) = Elements(a) \cup Elements(b)
  <1>1. /\ Len(a \o b) = Len(a) + Len(b) /\ Len(a) \in Nat /\ Len(b) \in Nat
        /\ \A i \in 1 .. Len(a) + Len(b) :
              (a \o b)[i] = IF i <= Len(a) THEN a[i] ELSE b[i - Len(a)]
    BY ConcatProperties
  <1>2. ASSUME NEW i \in 1 .. Len(a \o b)
        PROVE  (a \o b)[i] \in Elements(a) \cup Elements(b)
    <2>1. CASE i <= Len(a)
      BY <1>1, <2>1 DEF Elements
    <2>2. CASE ~(i <= Len(a))
      <3>1. i - Len(a) \in 1 .. Len(b) /\ (a \o b)[i] = b[i - Len(a)]
        BY <1>1, <2>2
      <3>2. QED
        BY <3>1 DEF Elements
    <2>3. QED
      BY <2>1, <2>2
  <1>3. ASSUME NEW i \in 1 .. Len(a)
        PROVE  a[i] \in Elements(a \o b)
    <2>1. i \in 1 .. Len(a \o b) /\ (a \o b)[i] = a[i]
      BY <1>1
    <2>2. QED
      BY <2>1 DEF Elements
  <1>4. ASSUME NEW i \in 1 .. Len(b)
        PROVE  b[i] \in Elements(a \o b)
    <2>1. /\ Len(a) + i \in 1 .. Len(a \o b)
          /\ ~(Len(a) + i <= Len(a)) /\ (Len(a) + i) - Len(a) = i
      BY <1>1
    <2>2. (a \o b)[Len(a) + i] = b[i]
      BY <1>1, <2>1
    <2>3. QED
      BY <2>1, <2>2 DEF Elements
  <1>5. QED
    BY <1>2, <1>3, <1>4 DEF Elements

Distinct(q) == \A i, j \in 1 .. Len(q) : q[i] = q[j] => i = j

\* Appending a new element repeats none.
LEMMA AppendDistinct ==
    ASSUME NEW S, NEW q \in Seq(S), NEW x \in S, Distinct(q), x \notin Elements(q)
    PROVE  Distinct(Append(q, x))
  <1>1. ASSUME NEW i \in 1 .. Len(q), NEW j \in 1 .. Len(q) + 1,
               Append(q, x)[i] = Append(q, x)[j]
        PROVE  i = j
    <2>1. CASE j \in 1 .. Len(q)
      BY <1>1, <2>1, AppendProperties DEF Distinct
    <2>2. CASE j = Len(q) + 1
      BY <1>1, <2>2, AppendProperties DEF Elements
    <2>3. QED
      BY <2>1, <2>2, AppendProperties
  <1>2. \A i \in 1 .. Len(q) + 1 : i \in 1 .. Len(q) \/ i = Len(q) + 1
    BY AppendProperties
  <1>3. QED
    BY <1>1, <1>2, AppendProperties DEF Distinct

\* Nor does Tail, and the head taken off does not come again.
LEMMA TailDistinct ==
    ASSUME NEW S, NEW q \in Seq(S), q # <<>>, Distinct(q)
    PROVE  Distinct(Tail(q)) /\ Head(q) \notin Elements(Tail(q))
  <1>1. ASSUME NEW i \in 1 .. Len(Tail(q)), NEW j \in 1 .. Len(Tail(q)),
               Tail(q)[i] = Tail(q)[j]
        PROVE  i = j
    <2>1. /\ i + 1 \in 1 .. Len(q) /\ Tail(q)[i] = q[i + 1]
          /\ j + 1 \in 1 .. Len(q) /\ Tail(q)[j] = q[j + 1]
      BY TailFacts
    <2>2. i + 1 = j + 1
      BY <1>1, <2>1 DEF Distinct
    <2>3. QED
      BY <2>2
  <1>2. ASSUME NEW i \in 1 .. Len(Tail(q))
        PROVE  Tail(q)[i] # Head(q)
    <2>1. /\ i + 1 \in 1 .. Len(q) /\ Tail(q)[i] = q[i + 1]
          /\ 1 \in 1 .. Len(q) /\ Head(q) = q[1] /\ i + 1 # 1
      BY TailFacts
    <2>2. QED
      BY <2>1 DEF Distinct
  <1>3. QED
    BY <1>1, <1>2 DEF Distinct, Elements

(***************************************************************************)
(* Accounted is inductive only with the rest of what keeps the places      *)
(* apart: a row is in one of the log, the batch and the queue, and there   *)
(* once.                                                                   *)
(***************************************************************************)
Apart ==
    /\ Accounted
    /\ Logged \cap (InBatch \cup InQueue) = {}
    /\ InBatch \cap InQueue = {}
    /\ Distinct(queue)

\* The places as the elements of sequences.
LEMMA Places == /\ Logged = Elements(logged) /\ InBatch = Elements(batch)
                /\ InQueue = Elements(queue) \ {Sentinel}
                /\ Logged' = Elements(logged') /\ InBatch' = Elements(batch')
                /\ InQueue' = Elements(queue') \ {Sentinel}
  BY DEF Logged, InBatch, InQueue, Elements

\* Nothing is in the empty sequence.
LEMMA EmptyElements == Elements(<<>>) = {} /\ Distinct(<<>>)
  BY DEF Elements, Distinct

\* Every step keeps the places apart: one case per action.
LEMMA StepApart == Inv /\ Apart /\ [Next]_vars => Apart'
<1> SUFFICES ASSUME Inv, Apart, [Next]_vars PROVE Apart'
  OBVIOUS
<1>t. Types /\ SentinelLast /\ Control
  BY DEF Inv
<1>a. /\ 1 .. offered = Logged \cup InBatch \cup InQueue \cup lost
      /\ lost \cap (Logged \cup InBatch \cup InQueue) = {}
      /\ Logged \cap (InBatch \cup InQueue) = {}
      /\ InBatch \cap InQueue = {}
      /\ Distinct(queue)
  BY DEF Apart, Accounted
\* Rows that only change places, or that are given up on the way.
<1>m. ASSUME offered' = offered, lost \subseteq lost',
             Distinct(queue'),
             Logged' \cup InBatch' \cup InQueue' \cup lost'
                = Logged \cup InBatch \cup InQueue \cup lost,
             lost' \cap (Logged' \cup InBatch' \cup InQueue') = {},
             Logged' \cap (InBatch' \cup InQueue') = {},
             InBatch' \cap InQueue' = {}
      PROVE  Apart'
  BY <1>a, <1>m DEF Apart, Accounted
<1>k. ASSUME UNCHANGED <<queue, batch, logged>>
      PROVE  UNCHANGED <<Logged, InBatch, InQueue>> /\ Distinct(queue')
  BY <1>k, <1>a DEF Logged, InBatch, InQueue
<1>0. CASE UNCHANGED vars
  BY <1>0, <1>a, <1>k, <1>m DEF vars, process
<1>1. CASE Start
  <2>1. queue = <<>> /\ batch = <<>> /\ UNCHANGED <<queue, batch, logged, offered, lost>>
    BY <1>1, <1>t DEF Start, Control
  <2>2. QED
    BY <2>1, <1>a, <1>k, <1>m
<1>2. CASE LogLeg
  <2>1. /\ offered \in Nat /\ offered' = offered + 1 /\ offered' # Sentinel
        /\ 1 .. offered' = (1 .. offered) \cup {offered'}
        /\ offered' \notin 1 .. offered
        /\ UNCHANGED <<batch, logged>>
    BY <1>2, <1>t DEF LogLeg, Types, Sentinel
  <2>2. Logged' = Logged /\ InBatch' = InBatch
    BY <2>1, Places
  <2>3. offered' \notin Elements(queue)
    BY <2>1, <1>a, Places
  <2>4. CASE open /\ Len(queue) < QueueSize
    <3>1. queue' = Append(queue, offered') /\ lost' = lost
      BY <1>2, <2>4 DEF LogLeg
    <3>2. queue \in Seq(Nat) /\ offered' \in Nat
      <4>1. Offered \cup {Sentinel} \subseteq Nat
        BY DEF Offered, Sentinel
      <4>2. queue \in Seq(Offered \cup {Sentinel})
        BY <1>t DEF Types
      <4>3. queue \in Seq(Nat)
        BY <4>1, <4>2, WiderSeq
      <4>4. QED
        BY <4>3, <2>1
    <3>3. Elements(queue') = Elements(queue) \cup {offered'} /\ Distinct(queue')
      BY <3>1, <3>2, <2>3, <1>a, AppendElements, AppendDistinct
    <3>4. InQueue' = InQueue \cup {offered'}
      BY <3>3, <2>1, Places
    <3>5. QED
      BY <1>a, <2>1, <2>2, <3>1, <3>3, <3>4 DEF Apart, Accounted
  <2>5. CASE ~(open /\ Len(queue) < QueueSize)
    <3>1. lost' = lost \cup {offered'} /\ queue' = queue
      BY <1>2, <2>5 DEF LogLeg
    <3>2. InQueue' = InQueue /\ Distinct(queue')
      BY <3>1, <1>a, Places
    <3>3. QED
      BY <1>a, <2>1, <2>2, <3>1, <3>2 DEF Apart, Accounted
  <2>6. QED
    BY <2>4, <2>5
<1>3. CASE CloseBegins
  <2>1. UNCHANGED <<offered, lost, batch, logged>> /\ phase = "up"
    BY <1>3 DEF CloseBegins
  <2>2. Logged' = Logged /\ InBatch' = InBatch
    BY <2>1, Places
  <2>3. CASE Len(queue) < QueueSize
    <3>1. queue' = Append(queue, Sentinel) /\ queue \in Seq(Offered \cup {Sentinel})
      BY <1>3, <1>t, <2>3 DEF CloseBegins, Types
    <3>2. Sentinel \notin Elements(queue)
      BY <1>t, <2>1 DEF SentinelLast, Elements
    <3>3. Elements(queue') = Elements(queue) \cup {Sentinel} /\ Distinct(queue')
      BY <3>1, <3>2, <1>a, AppendElements, AppendDistinct
    <3>4. InQueue' = InQueue
      BY <3>3, Places
    <3>5. QED
      BY <1>a, <1>m, <2>1, <2>2, <3>3, <3>4
  <2>4. CASE ~(Len(queue) < QueueSize)
    BY <1>3, <1>a, <1>k, <1>m, <2>1, <2>4 DEF CloseBegins
  <2>5. QED
    BY <2>3, <2>4
<1>4. CASE CloseEnds \/ PoolCloses
  BY <1>4, <1>a, <1>k, <1>m DEF CloseEnds, PoolCloses
<1>5. CASE ProcessEnds
  <2>1. offered' = offered /\ queue' = <<>> /\ batch' = <<>>
    BY <1>5 DEF ProcessEnds
  <2>2. InBatch' = {} /\ InQueue' = {} /\ Distinct(queue')
    BY <2>1, Places, EmptyElements
  <2>3. PICK commits \in BOOLEAN :
           /\ logged' = IF commits THEN logged \o batch ELSE logged
           /\ lost' = lost \cup InQueue \cup (IF commits THEN {} ELSE InBatch)
    BY <1>5 DEF ProcessEnds
  <2>4. Elements(logged \o batch) = Elements(logged) \cup Elements(batch)
    BY <1>t, ConcatElements DEF Types
  <2>5. Logged' = IF commits THEN Logged \cup InBatch ELSE Logged
    BY <2>3, <2>4, Places
  <2>6. QED
    BY <1>a, <1>m, <2>1, <2>2, <2>3, <2>5
\* The head of the queue moves on.
<1>h. ASSUME queue # <<>>, queue' = Tail(queue)
      PROVE  /\ Distinct(queue')
             /\ Head(queue) = Sentinel => InQueue' = InQueue
             /\ Head(queue) # Sentinel => /\ InQueue = InQueue' \cup {Head(queue)}
                                          /\ Head(queue) \notin InQueue'
  <2>1. /\ Elements(queue) = Elements(queue') \cup {Head(queue)}
        /\ Distinct(queue') /\ Head(queue) \notin Elements(queue')
    BY <1>h, <1>t, <1>a, TailElements, TailDistinct DEF Types
  <2>2. QED
    BY <2>1, Places
<1>6. CASE GetFirst
  <2>1. /\ queue # <<>> /\ queue' = Tail(queue) /\ batch = <<>>
        /\ UNCHANGED <<logged, offered, lost>>
    BY <1>6, <1>t DEF GetFirst, Control
  <2>2. InBatch = {} /\ Logged' = Logged
    BY <2>1, Places, EmptyElements
  <2>3. CASE Head(queue) = Sentinel
    <3>1. batch' = <<>>
      BY <1>6, <2>3 DEF GetFirst
    <3>2. InBatch' = {}
      BY <3>1, Places, EmptyElements
    <3>3. QED
      BY <1>a, <1>h, <1>m, <2>1, <2>2, <2>3, <3>2
  <2>4. CASE Head(queue) # Sentinel
    <3>1. batch' = <<Head(queue)>>
      BY <1>6, <2>4 DEF GetFirst
    <3>2. Elements(<<Head(queue)>>) = {Head(queue)}
      BY DEF Elements
    <3>3. InBatch' = {Head(queue)}
      BY <3>1, <3>2, Places
    <3>4. QED
      BY <1>a, <1>h, <1>m, <2>1, <2>2, <2>4, <3>3
  <2>5. QED
    BY <2>3, <2>4
<1>7. CASE GetMore
  <2>1. /\ queue # <<>> /\ queue' = Tail(queue)
        /\ UNCHANGED <<logged, offered, lost>>
    BY <1>7 DEF GetMore
  <2>2. Logged' = Logged
    BY <2>1, Places
  <2>3. CASE Head(queue) = Sentinel
    <3>1. batch' = batch
      BY <1>7, <2>3 DEF GetMore
    <3>2. InBatch' = InBatch
      BY <3>1, Places
    <3>3. QED
      BY <1>a, <1>h, <1>m, <2>1, <2>2, <2>3, <3>2
  <2>4. CASE Head(queue) # Sentinel
    <3>1. batch' = Append(batch, Head(queue)) /\ Head(queue) \in Offered
      BY <1>7, <1>t, <2>1, <2>4, TailFacts DEF GetMore, Types
    <3>2. Elements(batch') = Elements(batch) \cup {Head(queue)}
      BY <1>t, <3>1, AppendElements DEF Types
    <3>3. InBatch' = InBatch \cup {Head(queue)}
      BY <3>2, Places
    <3>4. QED
      BY <1>a, <1>h, <1>m, <2>1, <2>2, <2>4, <3>3
  <2>5. QED
    BY <2>3, <2>4
\* The batch is given up.
<1>d. ASSUME UNCHANGED <<queue, logged, offered>>, batch' = <<>>,
             lost' = lost \cup InBatch
      PROVE  Apart'
  <2>1. InQueue' = InQueue /\ Logged' = Logged /\ InBatch' = {}
    BY <1>d, Places, EmptyElements
  <2>2. Distinct(queue')
    BY <1>d, <1>a
  <2>3. QED
    BY <1>a, <1>d, <1>m, <2>1, <2>2
<1>8. CASE GatherEnds
  <2>1. CASE phase # "down" \/ batch = <<>>
    BY <1>8, <1>a, <1>k, <1>m, <2>1 DEF GatherEnds
  <2>2. CASE ~(phase # "down" \/ batch = <<>>)
    BY <1>8, <1>d, <2>2 DEF GatherEnds
  <2>3. QED
    BY <2>1, <2>2
<1>9. CASE FlushCommits
  <2>1. /\ logged' = logged \o batch /\ batch' = <<>>
        /\ UNCHANGED <<queue, offered, lost>>
    BY <1>9 DEF FlushCommits
  <2>2. Elements(logged') = Elements(logged) \cup Elements(batch)
    BY <1>t, <2>1, ConcatElements DEF Types
  <2>3. Logged' = Logged \cup InBatch /\ InBatch' = {} /\ InQueue' = InQueue
    BY <2>1, <2>2, Places, EmptyElements
  <2>4. Distinct(queue')
    BY <2>1, <1>a
  <2>5. QED
    BY <1>a, <1>m, <2>1, <2>3, <2>4
<1>10. CASE FlushFails
  BY <1>10, <1>d DEF FlushFails
<1>11. CASE QueueForgotten
  BY <1>11, <1>d DEF QueueForgotten
<1>12. QED
  BY <1>0, <1>1, <1>2, <1>3, <1>4, <1>5, <1>6, <1>7, <1>8, <1>9, <1>10, <1>11
     DEF Next, Loop, Writer

(***************************************************************************)
(* Every row offered to log_leg is in exactly one place: logged, on its    *)
(* way, or lost where the code drops it.                                   *)
(***************************************************************************)
THEOREM RowsAccounted == Spec => []Accounted
<1>1. Init => Apart
  BY EmptyElements, Places DEF Init, Apart, Accounted
<1>2. Apart => Accounted
  BY DEF Apart
<1>3. QED
  BY <1>1, <1>2, StepApart, Invariance, PTL DEF Spec

-----------------------------------------------------------------------------
(* The refinement of AuditLog. *)

\* The sentinel is nowhere but at the end.
Sealed(q) == \A i \in 1 .. Len(q) : q[i] = Sentinel => i = Len(q)

\* An empty queue has no rows.
LEMMA RowsOfEmpty == RowsOf(<<>>) = <<>>
  BY DEF RowsOf

\* Without a sentinel the queue is its rows.
LEMMA RowsOfPlain ==
    ASSUME NEW S, NEW q \in Seq(S), Sentinel \notin Elements(q)
    PROVE  RowsOf(q) = q
  <1>1. q # <<>> => Len(q) \in 1 .. Len(q)
    OBVIOUS
  <1>2. QED
    BY <1>1 DEF RowsOf, Elements

\* A row put on such a queue is a row more, the sentinel is not.
LEMMA RowsOfAppend ==
    ASSUME NEW S, NEW q \in Seq(S), NEW x \in S, Sentinel \notin Elements(q)
    PROVE  RowsOf(Append(q, x)) = IF x = Sentinel THEN q ELSE Append(q, x)
  <1>1. /\ Append(q, x) # <<>> /\ Append(q, x)[Len(Append(q, x))] = x
        /\ Len(Append(q, x)) - 1 = Len(q)
    BY AppendProperties
  <1>2. SubSeq(Append(q, x), 1, Len(q)) = q
    <2>1. \A i \in 1 .. Len(q) : Append(q, x)[i] \in S
      BY AppendProperties
    <2>2. /\ SubSeq(Append(q, x), 1, Len(q)) \in Seq(S)
          /\ Len(SubSeq(Append(q, x), 1, Len(q))) = Len(q)
          /\ \A i \in 1 .. Len(q) : SubSeq(Append(q, x), 1, Len(q))[i] = q[i]
      BY <2>1, AppendProperties, SubSeqProperties
    <2>3. QED
      BY <2>2, SeqEqual
  <1>3. QED
    BY <1>1, <1>2 DEF RowsOf

\* Taking the head off the queue takes it off its rows.
LEMMA RowsOfTail ==
    ASSUME NEW S, NEW q \in Seq(S), q # <<>>, Sealed(q)
    PROVE  /\ RowsOf(q) \in Seq(S) /\ RowsOf(Tail(q)) \in Seq(S)
           /\ Head(q) # Sentinel => RowsOf(q) = <<Head(q)>> \o RowsOf(Tail(q))
           /\ Head(q) = Sentinel => RowsOf(q) = <<>> /\ RowsOf(Tail(q)) = <<>>
  <1> DEFINE n == Len(q)
             h == Head(q)
             t == Tail(q)
  <1>0. n = Len(q) /\ h = Head(q) /\ t = Tail(q)
    OBVIOUS
  <1>1. /\ n \in Nat \ {0} /\ h = q[1] /\ h \in S
        /\ t \in Seq(S) /\ Len(t) = n - 1
        /\ \A i \in 1 .. n - 1 : t[i] = q[i + 1]
    BY TailFacts
  <1>s. \A i \in 1 .. n : q[i] = Sentinel => i = n
    BY DEF Sealed
  <1> HIDE DEF n, h, t
  <1>2. \A m \in 0 .. n :
          /\ SubSeq(q, 1, m) \in Seq(S) /\ Len(SubSeq(q, 1, m)) = m
          /\ \A i \in 1 .. m : SubSeq(q, 1, m)[i] = q[i]
    <2> TAKE m \in 0 .. n
    <2>1. \A i \in 1 .. m : q[i] \in S
      BY <1>0, <1>1
    <2>2. QED
      BY <1>1, <2>1, SubSeqProperties
  <1> DEFINE Goal == /\ RowsOf(q) \in Seq(S) /\ RowsOf(t) \in Seq(S)
                     /\ h # Sentinel => RowsOf(q) = <<h>> \o RowsOf(t)
                     /\ h = Sentinel => RowsOf(q) = <<>> /\ RowsOf(t) = <<>>
  <1>3. ASSUME q[n] = Sentinel PROVE Goal
    <2>1. RowsOf(q) = SubSeq(q, 1, n - 1)
      BY <1>0, <1>3 DEF RowsOf
    <2>2. CASE n = 1
      <3>1. t = <<>> /\ RowsOf(t) = <<>>
        BY <1>1, <2>2, RowsOfEmpty
      <3>2. RowsOf(q) = <<>>
        BY <1>2, <2>1, <2>2
      <3>3. QED
        BY <1>1, <1>3, <2>2, <3>1, <3>2
    <2>3. CASE n # 1
      <3>1. h # Sentinel
        BY <1>1, <1>s, <2>3
      <3>2. RowsOf(t) = SubSeq(t, 1, n - 2)
        <4>1. t # <<>> /\ t[Len(t)] = Sentinel /\ Len(t) - 1 = n - 2
          BY <1>1, <1>3, <2>3
        <4>2. QED
          BY <4>1 DEF RowsOf
      <3>3. /\ SubSeq(t, 1, n - 2) \in Seq(S) /\ Len(SubSeq(t, 1, n - 2)) = n - 2
            /\ \A i \in 1 .. n - 2 : SubSeq(t, 1, n - 2)[i] = t[i]
        <4>1. n - 2 \in Nat /\ \A i \in 1 .. n - 2 : t[i] \in S
          BY <1>1, <2>3
        <4>2. QED
          BY <4>1, SubSeqProperties
      <3>4. /\ <<h>> \o SubSeq(t, 1, n - 2) \in Seq(S)
            /\ Len(<<h>> \o SubSeq(t, 1, n - 2)) = n - 1
            /\ \A i \in 1 .. n - 1 :
                 (<<h>> \o SubSeq(t, 1, n - 2))[i]
                    = IF i <= 1 THEN h ELSE SubSeq(t, 1, n - 2)[i - 1]
        BY <1>1, <2>3, <3>3
      <3>5. \A i \in 1 .. n - 1 :
              (<<h>> \o SubSeq(t, 1, n - 2))[i] = SubSeq(q, 1, n - 1)[i]
        <4> TAKE i \in 1 .. n - 1
        <4>1. SubSeq(q, 1, n - 1)[i] = q[i]
          BY <1>1, <1>2
        <4>2. CASE i = 1
          BY <1>1, <3>4, <4>1, <4>2
        <4>3. CASE i # 1
          <5>1. i - 1 \in 1 .. n - 2 /\ i - 1 \in 1 .. n - 1 /\ (i - 1) + 1 = i
            BY <1>1, <4>3
          <5>2. SubSeq(t, 1, n - 2)[i - 1] = q[i]
            BY <1>1, <3>3, <5>1
          <5>3. QED
            BY <3>4, <4>1, <4>3, <5>2
        <4>4. QED
          BY <4>2, <4>3
      <3>6. SubSeq(q, 1, n - 1) \in Seq(S) /\ Len(SubSeq(q, 1, n - 1)) = n - 1
        <4>1. n - 1 \in 0 .. n
          BY <1>1
        <4>2. QED
          BY <4>1, <1>2
      <3>7. SubSeq(q, 1, n - 1) = <<h>> \o SubSeq(t, 1, n - 2)
        BY <3>4, <3>5, <3>6, SeqEqual
      <3>8. QED
        BY <2>1, <3>1, <3>2, <3>3, <3>6, <3>7
    <2>4. QED
      BY <2>2, <2>3
  <1>4. ASSUME q[n] # Sentinel PROVE Goal
    <2>1. RowsOf(q) = q
      BY <1>0, <1>4 DEF RowsOf
    <2>2. t # <<>> => Len(t) = n - 1 /\ n - 1 \in 1 .. n - 1
      BY <1>1
    <2>3. RowsOf(t) = t
      BY <1>1, <1>4, <2>2 DEF RowsOf
    <2>4. q = <<h>> \o t
      <3>1. /\ <<h>> \o t \in Seq(S) /\ Len(<<h>> \o t) = n
            /\ \A i \in 1 .. n : (<<h>> \o t)[i]
                                    = IF i <= 1 THEN h ELSE t[i - 1]
        BY <1>1
      <3>2. \A i \in 1 .. n : (<<h>> \o t)[i] = q[i]
        BY <1>1, <3>1
      <3>3. QED
        BY <1>0, <3>1, <3>2, SeqEqual
    <2>5. h # Sentinel
      BY <1>1, <1>s, <1>4
    <2>6. QED
      BY <1>1, <2>1, <2>3, <2>4, <2>5
  <1>5. QED
    BY <1>0, <1>3, <1>4

\* A prefix and what comes behind it.
LEMMA ConcatParts ==
    ASSUME NEW S, NEW a \in Seq(S), NEW b \in Seq(S)
    PROVE  /\ SubSeq(a \o b, 1, Len(a)) = a
           /\ SubSeq(a \o b, Len(a) + 1, Len(a \o b)) = b
           /\ Len(a) \in 0 .. Len(a \o b)
  <1>1. /\ Len(a \o b) = Len(a) + Len(b) /\ Len(a) \in Nat /\ Len(b) \in Nat
        /\ \A i \in 1 .. Len(a) + Len(b) :
              (a \o b)[i] = IF i <= Len(a) THEN a[i] ELSE b[i - Len(a)]
    BY ConcatProperties
  <1>2. SubSeq(a \o b, 1, Len(a)) = a
    <2>1. \A i \in 1 .. Len(a) : (a \o b)[i] = a[i] /\ a[i] \in S
      BY <1>1
    <2>2. /\ SubSeq(a \o b, 1, Len(a)) \in Seq(S)
          /\ Len(SubSeq(a \o b, 1, Len(a))) = Len(a)
          /\ \A i \in 1 .. Len(a) : SubSeq(a \o b, 1, Len(a))[i] = a[i]
      BY <1>1, <2>1, SubSeqProperties
    <2>3. QED
      BY <2>2, SeqEqual
  <1>3. SubSeq(a \o b, Len(a) + 1, Len(a) + Len(b)) = b
    <2> DEFINE u == SubSeq(a \o b, Len(a) + 1, Len(a) + Len(b))
    <2>1. \A j \in 1 .. Len(b) : (a \o b)[Len(a) + j] = b[j] /\ b[j] \in S
      <3> TAKE j \in 1 .. Len(b)
      <3>1. /\ Len(a) + j \in 1 .. Len(a) + Len(b)
            /\ ~(Len(a) + j <= Len(a)) /\ (Len(a) + j) - Len(a) = j
        BY <1>1
      <3>2. QED
        BY <1>1, <3>1
    <2>2. \A i \in Len(a) + 1 .. Len(a) + Len(b) : (a \o b)[i] \in S
      <3> TAKE i \in Len(a) + 1 .. Len(a) + Len(b)
      <3>1. i - Len(a) \in 1 .. Len(b) /\ Len(a) + (i - Len(a)) = i
        BY <1>1
      <3>2. QED
        BY <2>1, <3>1
    <2>3. /\ u \in Seq(S)
          /\ Len(u) = Len(b)
          /\ \A j \in 1 .. Len(b) : u[j] = (a \o b)[Len(a) + j]
      <3>1. /\ Len(a) + 1 \in Int /\ Len(a) + Len(b) \in Int
            /\ (Len(a) + Len(b)) - (Len(a) + 1) + 1 = Len(b)
            /\ Len(a) + 1 <= Len(a) + Len(b) <=> Len(b) # 0
            /\ \A j \in 1 .. Len(b) : (Len(a) + 1) + j - 1 = Len(a) + j
        BY <1>1
      <3>2. /\ u \in Seq(S)
            /\ Len(u) = IF Len(a) + 1 <= Len(a) + Len(b)
                        THEN (Len(a) + Len(b)) - (Len(a) + 1) + 1 ELSE 0
            /\ \A j \in 1 .. (Len(a) + Len(b)) - (Len(a) + 1) + 1 :
                  u[j] = (a \o b)[(Len(a) + 1) + j - 1]
        BY <2>2, <3>1, SubSeqProperties
      <3>3. QED
        BY <3>1, <3>2
    <2>4. QED
      BY <2>1, <2>3, SeqEqual
  <1>4. QED
    BY <1>1, <1>2, <1>3
\* An element between two sequences belongs to either.
LEMMA ConcatMoves ==
    ASSUME NEW S, NEW a \in Seq(S), NEW x \in S, NEW b \in Seq(S)
    PROVE  Append(a, x) \o b = a \o (<<x>> \o b)
  <1>1. Append(a, x) = a \o <<x>>
    BY AppendIsConcat
  <1>2. <<x>> \in Seq(S)
    OBVIOUS
  <1>3. (a \o <<x>>) \o b = a \o (<<x>> \o b)
    BY <1>2, ConcatAssociative
  <1>4. QED
    BY <1>1, <1>3

\* Every step is one of the abstract log, or changes nothing it shows.
LEMMA StepRefines == Inv /\ [Next]_vars => [Log!ALNext]_(Log!alVars)
<1> DEFINE Waiting == batch \o RowsOf(queue)
           Bag     == Offered \cup {Sentinel}
<1> SUFFICES ASSUME Inv, [Next]_vars PROVE [Log!ALNext]_(Log!alVars)
  OBVIOUS
<1>t. Types /\ SentinelLast /\ Control
  BY DEF Inv
<1>a. /\ queue \in Seq(Bag) /\ batch \in Seq(Bag) /\ Sealed(queue)
      /\ queue # <<>> => RowsOf(queue) \in Seq(Bag)
      /\ RowsOf(<<>>) = <<>>
      /\ <<>> \in Seq(Bag)
  <2>1. queue \in Seq(Bag) /\ Sealed(queue) /\ batch \in Seq(Offered)
    BY <1>t DEF Types, SentinelLast, Sealed
  <2>2. batch \in Seq(Bag)
    <3>1. Offered \subseteq Bag
      OBVIOUS
    <3>2. QED
      BY <2>1, <3>1, WiderSeq
  <2>3. queue # <<>> => RowsOf(queue) \in Seq(Bag)
    BY <2>1, RowsOfTail
  <2>4. /\ RowsOf(<<>>) = <<>>
        /\ <<>> \in Seq(Bag)
    BY RowsOfEmpty
  <2>5. QED
    BY <2>1, <2>2, <2>3, <2>4
<1>r. RowsOf(queue) \in Seq(Bag)
  BY <1>a
\* Steps that move nothing in or out.
<1>u. ASSUME UNCHANGED <<offered, logged, Waiting>> PROVE [Log!ALNext]_(Log!alVars)
  BY <1>u DEF Log!alVars
\* The batch leaves, for the log or for good.
<1>b. /\ SubSeq(Waiting, 1, Len(batch)) = batch
      /\ SubSeq(Waiting, Len(batch) + 1, Len(Waiting)) = RowsOf(queue)
      /\ Len(batch) \in 0 .. Len(Waiting)
      /\ batch # <<>> => Len(batch) \in 1 .. Len(Waiting)
      /\ <<>> \o RowsOf(queue) = RowsOf(queue)
  <2>1. /\ SubSeq(Waiting, 1, Len(batch)) = batch
        /\ SubSeq(Waiting, Len(batch) + 1, Len(Waiting)) = RowsOf(queue)
        /\ Len(batch) \in 0 .. Len(Waiting)
    BY <1>a, <1>r, ConcatParts
  <2>2. batch # <<>> => Len(batch) # 0
    BY <1>a
  <2>3. <<>> \o RowsOf(queue) = RowsOf(queue)
    BY <1>r, ConcatEmptySeq
  <2>4. QED
    BY <2>1, <2>2, <2>3
<1>l. ASSUME UNCHANGED <<offered, logged, queue>>, batch' = <<>>
      PROVE  [Log!ALNext]_(Log!alVars)
  <2>1. Waiting' = RowsOf(queue)
    BY <1>b, <1>l
  <2>2. CASE batch = <<>>
    BY <1>l, <1>u, <2>2
  <2>3. CASE batch # <<>>
    BY <1>b, <1>l, <2>1, <2>3 DEF Log!ALNext, Log!Lose
  <2>4. QED
    BY <2>2, <2>3
<1>0. CASE UNCHANGED vars
  BY <1>0, <1>u DEF vars, process
<1>1. CASE Start
  <2>1. queue = <<>> /\ batch = <<>> /\ UNCHANGED <<offered, logged, queue, batch>>
    BY <1>1, <1>t DEF Start, Control
  <2>2. QED
    BY <2>1, <1>u
<1>2. CASE LogLeg
  <2>1. offered' = offered + 1 /\ UNCHANGED <<batch, logged>> /\ offered \in Nat
    BY <1>2, <1>t DEF LogLeg, Types
  <2>2. CASE open /\ Len(queue) < QueueSize
    <3>1. queue' = Append(queue, offered + 1) /\ phase = "up"
      BY <1>2, <1>t, <2>1, <2>2 DEF LogLeg, Control
    <3>2. Sentinel \notin Elements(queue)
      BY <1>t, <3>1 DEF SentinelLast, Elements
    <3>3. queue \in Seq(Nat) /\ batch \in Seq(Nat)
      <4>1. Bag \subseteq Nat
        BY DEF Offered, Sentinel
      <4>2. QED
        BY <4>1, <1>a, WiderSeq
    <3>4. /\ RowsOf(queue) = queue
          /\ RowsOf(queue') = Append(queue, offered + 1)
      <4>1. offered + 1 \in Nat /\ offered + 1 # Sentinel
        BY <2>1 DEF Sentinel
      <4>2. QED
        BY <3>1, <3>2, <3>3, <4>1, RowsOfPlain, RowsOfAppend
    <3>5. batch \o Append(queue, offered + 1) = Append(batch \o queue, offered + 1)
      <4>1. offered + 1 \in Nat
        BY <2>1
      <4>2. <<offered + 1>> \in Seq(Nat)
        BY <4>1
      <4>3. batch \o queue \in Seq(Nat)
        BY <3>3, ConcatProperties
      <4>4. /\ Append(queue, offered + 1) = queue \o <<offered + 1>>
            /\ Append(batch \o queue, offered + 1) = (batch \o queue) \o <<offered + 1>>
        BY <3>3, <4>1, <4>3, AppendIsConcat
      <4>5. batch \o (queue \o <<offered + 1>>) = (batch \o queue) \o <<offered + 1>>
        BY <3>3, <4>2, ConcatAssociative
      <4>6. QED
        BY <4>4, <4>5
    <3>6. Waiting' = Append(Waiting, offered + 1)
      BY <2>1, <3>4, <3>5
    <3>7. QED
      BY <2>1, <3>6 DEF Log!ALNext, Log!Offer
  <2>3. CASE ~(open /\ Len(queue) < QueueSize)
    <3>1. queue' = queue
      BY <1>2, <2>3 DEF LogLeg
    <3>2. Waiting' = Waiting
      BY <2>1, <3>1
    <3>3. QED
      BY <2>1, <3>2 DEF Log!ALNext, Log!Offer
  <2>4. QED
    BY <2>2, <2>3
<1>3. CASE CloseBegins
  <2>1. UNCHANGED <<offered, logged, batch>> /\ phase = "up"
    BY <1>3 DEF CloseBegins
  <2>2. CASE Len(queue) < QueueSize
    <3>1. queue' = Append(queue, Sentinel) /\ Sentinel \in Bag
      BY <1>3, <2>2 DEF CloseBegins
    <3>2. Sentinel \notin Elements(queue)
      BY <1>t, <2>1 DEF SentinelLast, Elements
    <3>3. RowsOf(queue') = RowsOf(queue)
      BY <1>a, <3>1, <3>2, RowsOfPlain, RowsOfAppend
    <3>4. QED
      BY <1>u, <2>1, <3>3
  <2>3. CASE ~(Len(queue) < QueueSize)
    BY <1>3, <1>u, <2>1, <2>3 DEF CloseBegins
  <2>4. QED
    BY <2>2, <2>3
<1>4. CASE CloseEnds \/ PoolCloses
  BY <1>4, <1>u DEF CloseEnds, PoolCloses
<1>5. CASE ProcessEnds
  <2>1. /\ offered' = offered /\ Waiting' = <<>>
    <3>1. offered' = offered /\ queue' = <<>> /\ batch' = <<>>
      BY <1>5 DEF ProcessEnds
    <3>2. QED
      BY <3>1, <1>a, ConcatEmptySeq
  <2>2. CASE logged' = logged \o batch
    BY <1>b, <2>1, <2>2 DEF Log!ALNext, Log!Die
  <2>3. CASE logged' = logged
    <3>1. SubSeq(Waiting, 1, 0) = <<>>
      BY SubSeqEmpty
    <3>2. logged \o <<>> = logged
      BY <1>t, ConcatEmptySeq DEF Types
    <3>3. 0 \in 0 .. Len(Waiting)
      BY <1>b
    <3>4. Log!Die(0)
      BY <2>1, <2>3, <3>1, <3>2 DEF Log!Die
    <3>5. QED
      BY <3>3, <3>4 DEF Log!ALNext
  <2>4. QED
    BY <1>5, <2>2, <2>3 DEF ProcessEnds
<1>6. CASE GetFirst
  <2>1. /\ queue # <<>> /\ queue' = Tail(queue) /\ batch = <<>>
        /\ UNCHANGED <<logged, offered>>
        /\ batch' = IF Head(queue) = Sentinel THEN <<>> ELSE <<Head(queue)>>
    BY <1>6, <1>t DEF GetFirst, Control
  <2>2. Waiting = RowsOf(queue)
    BY <2>1, <1>b
  <2>3. Waiting' = RowsOf(queue)
    BY <2>1, <1>a, RowsOfTail, ConcatEmptySeq
  <2>4. QED
    BY <1>u, <2>1, <2>2, <2>3
<1>7. CASE GetMore
  <2>1. /\ queue # <<>> /\ queue' = Tail(queue)
        /\ UNCHANGED <<logged, offered>>
        /\ batch' = IF Head(queue) = Sentinel THEN batch ELSE Append(batch, Head(queue))
    BY <1>7 DEF GetMore
  <2>2. /\ RowsOf(queue') \in Seq(Bag) /\ Head(queue) \in Bag
        /\ Head(queue) # Sentinel => RowsOf(queue) = <<Head(queue)>> \o RowsOf(queue')
        /\ Head(queue) = Sentinel => RowsOf(queue) = <<>> /\ RowsOf(queue') = <<>>
    BY <1>a, <2>1, RowsOfTail, TailFacts
  <2>3. CASE Head(queue) = Sentinel
    BY <1>u, <2>1, <2>2, <2>3
  <2>4. CASE Head(queue) # Sentinel
    <3>1. Waiting' = Append(batch, Head(queue)) \o RowsOf(queue')
      BY <2>1, <2>4
    <3>2. Waiting = batch \o (<<Head(queue)>> \o RowsOf(queue'))
      BY <2>2, <2>4
    <3>3. /\ batch \in Seq(Bag)
          /\ Head(queue) \in Bag
          /\ RowsOf(queue') \in Seq(Bag)
      BY <1>a, <2>2
    <3>4. Waiting' = Waiting
      BY <3>1, <3>2, <3>3, ConcatMoves
    <3>5. QED
      BY <1>u, <2>1, <3>4
  <2>5. QED
    BY <2>3, <2>4
<1>8. CASE GatherEnds
  BY <1>8, <1>l, <1>u DEF GatherEnds
<1>9. CASE FlushCommits
  <2>1. /\ logged' = logged \o batch /\ batch' = <<>>
        /\ UNCHANGED <<queue, offered>>
    BY <1>9 DEF FlushCommits
  <2>2. Waiting' = RowsOf(queue)
    BY <1>b, <2>1
  <2>3. CASE batch = <<>>
    <3>1. logged' = logged
      BY <1>t, <2>1, <2>3, ConcatEmptySeq DEF Types
    <3>2. QED
      BY <1>u, <2>1, <2>3, <3>1
  <2>4. CASE batch # <<>>
    BY <1>b, <2>1, <2>2, <2>4 DEF Log!ALNext, Log!Commit
  <2>5. QED
    BY <2>3, <2>4
<1>10. CASE FlushFails
  BY <1>10, <1>l DEF FlushFails
<1>11. CASE QueueForgotten
  BY <1>11, <1>l DEF QueueForgotten
<1>12. QED
  BY <1>0, <1>1, <1>2, <1>3, <1>4, <1>5, <1>6, <1>7, <1>8, <1>9, <1>10, <1>11
     DEF Next, Loop, Writer

(***************************************************************************)
(* Whatever the sizes of queue and batch, the failures and the restarts,   *)
(* the rows that reach ussd_session_logs do so once, in the order in which *)
(* log_leg was called.                                                     *)
(***************************************************************************)
THEOREM WriterImplementsLog == Spec => Implements
<1>1. Init => Log!ALInit
  BY RowsOfEmpty, ConcatEmptySeq DEF Init, Log!ALInit
<1>2. QED
  BY <1>1, StepRefines, Invariance, PTL DEF Spec, Implements, Log!ALSpec
=============================================================================
