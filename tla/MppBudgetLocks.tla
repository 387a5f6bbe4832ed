--------------------------- MODULE MppBudgetLocks ---------------------------
(***************************************************************************)
(* The budget operations of MppBudget as concurrent database transactions.  *)
(*                                                                         *)
(* reserve_budget locks the two counter rows (in the order of scope_type,   *)
(* DAILY before TASK) and only then the reservation row of its idempotency  *)
(* key; _move_reservation locks the reservation row first and the counters  *)
(* after it.  The two orders are opposite, so a repeated reserve and a      *)
(* release of the same reservation can wait for each other: PostgreSQL      *)
(* breaks such a cycle by rolling one transaction back.  Locks are held     *)
(* until commit or rollback, and a transaction that dies leaves no trace.   *)
(***************************************************************************)
EXTENDS MppBudget

CONSTANTS
    Transactions,   \* the transactions that can be open at the same time
    NoTransaction   \* the holder of a lock nobody holds

ASSUME LocksAssumption == NoTransaction \notin Transactions

VARIABLES
    tx,      \* per transaction: what it does, how far it is, what it read
    holder   \* per lockable row: the transaction that locked it FOR UPDATE

locksVars == <<counters, reservations, tx, holder>>

Row(p) == <<"ROW", p, p>>
Locks == Scopes \cup {Row(p) : p \in Payments}

Idle == [pc |-> "idle"]

LocksInit ==
    /\ BudgetInit
    /\ tx = [t \in Transactions |-> Idle]
    /\ holder = [l \in Locks |-> NoTransaction]

-----------------------------------------------------------------------------
(* Locks *)

\* The row transaction t asks for next (only meaningful while it asks for one).
NextLock(t) ==
    CASE tx[t].pc = "daily" -> DailyScope(tx[t].payment, tx[t].day)
      [] tx[t].pc = "task"  -> TaskScope(tx[t].payment)
      [] tx[t].pc = "row"   -> Row(tx[t].payment)

Asking(t) == tx[t].pc \in {"daily", "task", "row"}
WaitsFor(t, u) == Asking(t) /\ u # t /\ holder[NextLock(t)] = u

\* A reservation that does not exist yet has no row to lock.
Granted(t) ==
    \/ holder[NextLock(t)] = NoTransaction
    \/ tx[t].pc = "row" /\ reservations[tx[t].payment] = NoReservation

Take(t) == holder' = [holder EXCEPT ![NextLock(t)] = t]

\* Commit and rollback both release every lock of the transaction.
End(t) ==
    /\ tx' = [tx EXCEPT ![t] = Idle]
    /\ holder' = [l \in Locks |-> IF holder[l] = t THEN NoTransaction ELSE holder[l]]

-----------------------------------------------------------------------------
(* reserve_budget *)

\* The per-payment limit is checked before any row is touched.
BeginReserve(t, p, d, lim) ==
    /\ tx[t] = Idle
    /\ Amount[p] <= lim.perPayment
    /\ tx' = [tx EXCEPT ![t] = [pc |-> "daily", kind |-> "reserve", payment |-> p,
                                day |-> d, lim |-> lim, daily |-> 0, task |-> 0]]
    /\ UNCHANGED <<counters, reservations, holder>>

BeginMove(t, p, target) ==
    /\ tx[t] = Idle
    /\ reservations[p] # NoReservation
    /\ tx' = [tx EXCEPT ![t] = [pc |-> "row", kind |-> "move", payment |-> p,
                                day |-> reservations[p].day, target |-> target]]
    /\ UNCHANGED <<counters, reservations, holder>>

\* What a transaction remembers of a counter: a reserve keeps the units it read.
DailyRead(t) == tx' = [tx EXCEPT ![t] =
    IF @.kind = "reserve" THEN [@ EXCEPT !.pc = "task", !.daily = Spent(NextLock(t))]
                          ELSE [@ EXCEPT !.pc = "task"]]
TaskRead(t) == tx' = [tx EXCEPT ![t] =
    IF @.kind = "reserve" THEN [@ EXCEPT !.pc = "row", !.task = Spent(NextLock(t))]
                          ELSE [@ EXCEPT !.pc = "commit"]]

\* Mutants: SELECT without FOR UPDATE, of either counter.
ReadDaily(t) == tx[t].pc = "daily" /\ DailyRead(t) /\ UNCHANGED <<counters, reservations, holder>>
ReadTask(t) == tx[t].pc = "task" /\ TaskRead(t) /\ UNCHANGED <<counters, reservations, holder>>

\* SELECT ... FOR UPDATE on the counters, DAILY before TASK.
LockDaily(t) ==
    /\ tx[t].pc = "daily"
    /\ Granted(t) /\ Take(t) /\ DailyRead(t)
    /\ UNCHANGED <<counters, reservations>>

LockTask(t) ==
    /\ tx[t].pc = "task"
    /\ Granted(t) /\ Take(t) /\ TaskRead(t)
    /\ UNCHANGED <<counters, reservations>>

\* The reservation of the idempotency key: a reserve that finds one returns it
\* and changes nothing.
FindReservation(t) ==
    /\ tx[t].pc = "row" /\ tx[t].kind = "reserve"
    /\ Granted(t)
    /\ IF reservations[tx[t].payment] = NoReservation
       THEN tx' = [tx EXCEPT ![t].pc = "commit"] /\ UNCHANGED holder
       ELSE End(t)
    /\ UNCHANGED <<counters, reservations>>

\* A reservation already in the target status is returned, one in another final
\* status is refused: either way the transaction ends without a change.
LockReservation(t) ==
    /\ tx[t].pc = "row" /\ tx[t].kind = "move"
    /\ Granted(t)
    /\ IF reservations[tx[t].payment].status = OpenStatus
       THEN tx' = [tx EXCEPT ![t].pc = "daily"] /\ Take(t)
       ELSE End(t)
    /\ UNCHANGED <<counters, reservations>>

\* The limits are compared with the units read under the lock; the update adds
\* to what the row holds now.
CommitReserve(t) ==
    LET p == tx[t].payment
        d == tx[t].day
        lim == tx[t].lim
        fits == /\ tx[t].task + Amount[p] <= lim.perTask
                /\ tx[t].daily + Amount[p] <= lim.daily
    IN  /\ tx[t].pc = "commit" /\ tx[t].kind = "reserve"
        /\ End(t)
        /\ IF fits
           THEN /\ counters' = [s \in Scopes |->
                      IF s \in ScopesOf(p, d)
                      THEN [limit    |-> IF s = TaskScope(p) THEN lim.perTask ELSE lim.daily,
                            reserved |-> counters[s].reserved + Amount[p],
                            consumed |-> counters[s].consumed]
                      ELSE counters[s]]
                /\ reservations' = [reservations EXCEPT
                                      ![p] = [status |-> OpenStatus, day |-> d]]
           ELSE UNCHANGED <<counters, reservations>>

CommitMove(t) ==
    /\ tx[t].pc = "commit" /\ tx[t].kind = "move"
    /\ End(t)
    /\ MoveReservation(tx[t].payment, tx[t].target)

-----------------------------------------------------------------------------
(* Rollback: PostgresRepository.transaction rolls back on any exception, and *)
(* a lost connection does the same; the deadlock detector picks a victim.    *)

\* Mutant: the failed transaction is not rolled back and keeps its locks.
LeftOpen(t) ==
    /\ tx[t] # Idle
    /\ tx' = [tx EXCEPT ![t] = Idle]
    /\ UNCHANGED <<counters, reservations, holder>>

Rollback(t) ==
    /\ tx[t] # Idle
    /\ End(t)
    /\ UNCHANGED <<counters, reservations>>

BreakDeadlock(t) ==
    /\ \E u \in Transactions : WaitsFor(t, u) /\ WaitsFor(u, t)
    /\ Rollback(t)

Work(t) ==
    \/ LockDaily(t) \/ LockTask(t) \/ FindReservation(t) \/ LockReservation(t)
    \/ CommitReserve(t) \/ CommitMove(t)

LocksNext == \E t \in Transactions :
    \/ \E p \in Payments :
         \/ \E d \in Days, lim \in Limits : BeginReserve(t, p, d, lim)
         \/ \E target \in FinalStatus : BeginMove(t, p, target)
    \/ Work(t)
    \/ Rollback(t)
    \/ BreakDeadlock(t)

\* PostgreSQL queues the waiters of a row in order of arrival, so a transaction
\* that can go on again and again does go on, and a cycle is always broken.
Fairness == \A t \in Transactions :
    /\ SF_locksVars(Work(t))
    /\ WF_locksVars(BreakDeadlock(t))

LocksSpec == LocksInit /\ [][LocksNext]_locksVars /\ Fairness

-----------------------------------------------------------------------------
(* Properties *)

\* Every committed transaction is one whole MppBudget operation: the locks
\* make the two-row read-check-update of reserve_budget and the three-row
\* update of _move_reservation atomic against each other.
Budget == INSTANCE MppBudget
ImplementsBudget == Budget!BudgetSpec

\* No transaction waits for ever, in spite of the opposite lock orders of
\* reserve_budget and _move_reservation.
EveryTransactionEnds == \A t \in Transactions : tx[t] # Idle ~> tx[t] = Idle

\* Rows are written under the writer's own locks only: a transaction about to
\* commit holds both counter rows, and a move holds the reservation row too.
CommitHoldsLocks == \A t \in Transactions : tx[t].pc = "commit" =>
    /\ \A s \in ScopesOf(tx[t].payment, tx[t].day) : holder[s] = t
    /\ tx[t].kind = "move" => holder[Row(tx[t].payment)] = t
=============================================================================
