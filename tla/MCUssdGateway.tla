--------------------------- MODULE MCUssdGateway ---------------------------
(***************************************************************************)
(* Instances of UssdGateway for TLC.  A session is named by a model value  *)
(* for each operator.                                                      *)
(***************************************************************************)
EXTENDS UssdGateway, TLC

CONSTANTS sVod, sAir, sTig, sHal  \* sessions of Vodacom, Airtel, Tigo and Halotel

MCOpOf == [s \in Session |-> CASE s = sVod -> "vodacom"
                               [] s = sAir -> "airtel"
                               [] s = sTig -> "tigo"
                               [] OTHER  -> "halotel"]

\* In ticks: Vodacom's own cut-off is not above the idle limits, and they are
\* below the backlog guard and the scheduler's sweep (2).
MCIdleLimit == [o \in Operators |-> 1]

Symmetry == Permutations(Leg) \cup Permutations(Worker)
=============================================================================
