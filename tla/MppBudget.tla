----------------------------- MODULE MppBudget -----------------------------
(***************************************************************************)
(* The MPP spending budget of a Payment Profile, as the tables             *)
(* mvp_mpp_budget_counters and mvp_mpp_budget_reservations hold it and as   *)
(* MppPolicyRepository (services/rcao/app/mpp_policy.py) moves it.          *)
(*                                                                         *)
(* A reservation counts in two scopes at once: the Task it is made for and  *)
(* the UTC day it is made on.  Every operation here is one database         *)
(* transaction, taken as one step; MppBudgetLocks splits it into the row    *)
(* locks the code takes and shows that it still behaves like this module.   *)
(***************************************************************************)
EXTENDS Integers, FiniteSets

CONSTANTS
    Payments,   \* payment ids; a reservation is unique per payment id
    Profiles,   \* Payment Profile ids
    Tasks,      \* Task ids
    Days,       \* UTC days a reservation can be made on
    MaxUnits,   \* the largest amount a request may carry (MAX_SIGNED_BIGINT)
    Amount,     \* Amount[p]: the units payment p asks for
    ProfileOf,  \* ProfileOf[p]: the Profile payment p is drawn on
    TaskOf,     \* TaskOf[p]: the Task payment p is made for
    Limits      \* the limits an Owner may have put into a Profile

ASSUME BudgetAssumption ==
    /\ IsFiniteSet(Payments)
    /\ Days \subseteq Nat \ {0}
    /\ MaxUnits \in Nat
    /\ Amount \in [Payments -> 1..MaxUnits]
    /\ ProfileOf \in [Payments -> Profiles]
    /\ TaskOf \in [Payments -> Tasks]
    /\ Limits \subseteq [perPayment : Nat \ {0}, perTask : Nat \ {0}, daily : Nat \ {0}]

VARIABLES
    counters,      \* per scope: the limit last written, units reserved and consumed
    reservations   \* per payment: the reservation row, or NoReservation

budgetVars == <<counters, reservations>>

-----------------------------------------------------------------------------
(* The rows.  A counter row that was never inserted is the zero row.         *)

OpenStatus  == "RESERVED"
FinalStatus == {"CONSUMED", "RELEASED", "CANCELLED"}

NoReservation == [status |-> "NONE", day |-> 0]
Reservation == [status : {OpenStatus} \cup FinalStatus, day : Days] \cup {NoReservation}

TaskScope(p)     == <<"TASK", ProfileOf[p], TaskOf[p]>>
DailyScope(p, d) == <<"DAILY", ProfileOf[p], d>>
ScopesOf(p, d)   == {TaskScope(p), DailyScope(p, d)}
Scopes == ({"TASK"} \X Profiles \X Tasks) \cup ({"DAILY"} \X Profiles \X Days)

Counter == [limit : Nat, reserved : Nat, consumed : Nat]
Spent(s) == counters[s].reserved + counters[s].consumed

BudgetInit ==
    /\ counters = [s \in Scopes |-> [limit |-> 0, reserved |-> 0, consumed |-> 0]]
    /\ reservations = [p \in Payments |-> NoReservation]

-----------------------------------------------------------------------------
(* reserve_budget: both counters take the Profile's current limits, then the *)
(* units, in one transaction.  A payment that already has a reservation gets *)
(* it back unchanged, whatever its status, so no step is needed for a replay.*)

\* Mutant: the UTC day is forgotten.
FitsTaskOnly(p, d, lim) ==
    /\ Amount[p] <= lim.perPayment
    /\ Spent(TaskScope(p)) + Amount[p] <= lim.perTask

\* Mutant: neither counter is compared.
FitsPaymentOnly(p, d, lim) == Amount[p] <= lim.perPayment

FitsLimits(p, d, lim) ==
    /\ Amount[p] <= lim.perPayment
    /\ Spent(TaskScope(p)) + Amount[p] <= lim.perTask
    /\ Spent(DailyScope(p, d)) + Amount[p] <= lim.daily

Reserve(p, d, lim) ==
    /\ reservations[p] = NoReservation
    /\ FitsLimits(p, d, lim)
    /\ counters' = [s \in Scopes |->
          IF s \in ScopesOf(p, d)
          THEN [limit    |-> IF s = TaskScope(p) THEN lim.perTask ELSE lim.daily,
                reserved |-> counters[s].reserved + Amount[p],
                consumed |-> counters[s].consumed]
          ELSE counters[s]]
    /\ reservations' = [reservations EXCEPT ![p] = [status |-> OpenStatus, day |-> d]]

Moved(p, scopes, target) == [s \in Scopes |->
    IF s \in scopes
    THEN [limit    |-> counters[s].limit,
          reserved |-> counters[s].reserved - Amount[p],
          consumed |-> IF target = "CONSUMED"
                       THEN counters[s].consumed + Amount[p]
                       ELSE counters[s].consumed]
    ELSE counters[s]]

\* Mutant: only the Task counter is updated.
MoveTaskOnly(p, target) ==
    /\ reservations[p].status = OpenStatus
    /\ counters' = Moved(p, {TaskScope(p)}, target)
    /\ reservations' = [reservations EXCEPT
                          ![p] = [status |-> target, day |-> reservations[p].day]]

(* _move_reservation: the units leave "reserved" in the two scopes of the    *)
(* reservation's own day; only consumption adds them to "consumed".          *)
MoveReservation(p, target) ==
    /\ reservations[p].status = OpenStatus
    /\ counters' = Moved(p, ScopesOf(p, reservations[p].day), target)
    /\ reservations' = [reservations EXCEPT
                          ![p] = [status |-> target, day |-> reservations[p].day]]

Consume(p) == MoveReservation(p, "CONSUMED")
Release(p, cancelled) == MoveReservation(p, IF cancelled THEN "CANCELLED" ELSE "RELEASED")

BudgetNext == \E p \in Payments :
    \/ \E d \in Days, lim \in Limits : Reserve(p, d, lim)
    \/ Consume(p)
    \/ \E cancelled \in BOOLEAN : Release(p, cancelled)

BudgetSpec == BudgetInit /\ [][BudgetNext]_budgetVars

-----------------------------------------------------------------------------
(* Properties *)

\* The units of a set of payments, counted as the set of their single units.
UnitsOf(S) == {u \in S \X (1..MaxUnits) : u[2] <= Amount[u[1]]}
Total(S) == Cardinality(UnitsOf(S))

\* The payments whose reservation is in the given status and counts in scope s.
Holders(s, status) ==
    {p \in Payments : reservations[p].status = status /\ s \in ScopesOf(p, reservations[p].day)}

\* The rows hold values of their columns' types: the counters' CHECK (>= 0)
\* constraints and the reservation status vocabulary.
BudgetTypeOK ==
    /\ counters \in [Scopes -> Counter]
    /\ reservations \in [Payments -> Reservation]

\* Conservation: what a counter says is reserved (consumed) in a scope is
\* exactly the sum of the RESERVED (CONSUMED) reservations that count in it, so
\* no reserve, replay, consume or release is ever applied twice or to one scope
\* only (reserve_budget and _move_reservation update two rows each).
Conserved == \A s \in Scopes :
    /\ counters[s].reserved = Total(Holders(s, OpenStatus))
    /\ counters[s].consumed = Total(Holders(s, "CONSUMED"))

\* No scope holds more reserved and consumed units than the limit its counter
\* row carries, although the Owner changes the Profile's limits between
\* reservations (what the CHECK of 0015_mpp_policy_engine.sql asks for).
WithinLimit == \A s \in Scopes : Spent(s) <= counters[s].limit
=============================================================================
