-------------------------- MODULE MppBudget_proofs --------------------------
(***************************************************************************)
(* Proofs about MppBudget and MppBudgetLocks for every set of payments,      *)
(* Profiles, Tasks, days and transactions, and every history of limits.  The *)
(* sum of a set of payments is the cardinality of the set of their single    *)
(* units, so the sums below follow from the theorems about finite sets.  The *)
(* second half shows that the row locks of concurrent transactions make each *)
(* commit one whole operation of the budget.                                 *)
(***************************************************************************)
EXTENDS MppBudgetLocks, FiniteSetTheorems, TLAPS

-----------------------------------------------------------------------------
(* Sums *)

\* The units of a set of payments are finitely many, so Total is a number.
LEMMA UnitsFinite ==
    ASSUME NEW S \in SUBSET Payments
    PROVE  IsFiniteSet(UnitsOf(S)) /\ Total(S) \in Nat
<1>1. IsFiniteSet(S)
  BY BudgetAssumption, FS_Subset
<1>2. IsFiniteSet(1..MaxUnits)
  BY BudgetAssumption, FS_Interval
<1>3. IsFiniteSet(S \X (1..MaxUnits))
  BY <1>1, <1>2, FS_Product
<1>4. UnitsOf(S) \in SUBSET (S \X (1..MaxUnits))
  BY DEF UnitsOf
<1>5. IsFiniteSet(UnitsOf(S))
  BY <1>3, <1>4, FS_Subset
<1>6. QED
  BY <1>5, FS_CardinalityType DEF Total

\* A single payment counts for its amount.
LEMMA TotalSingleton ==
    ASSUME NEW p \in Payments
    PROVE  Total({p}) = Amount[p]
<1>1. Amount[p] \in 1..MaxUnits
  BY BudgetAssumption
<1>2. UnitsOf({p}) = {p} \X (1..Amount[p])
  BY <1>1, BudgetAssumption DEF UnitsOf
<1>3. IsFiniteSet({p}) /\ Cardinality({p}) = 1
  BY FS_Singleton
<1>4. IsFiniteSet(1..Amount[p]) /\ Cardinality(1..Amount[p]) = Amount[p]
  BY <1>1, BudgetAssumption, FS_Interval
<1>5. Cardinality({p} \X (1..Amount[p])) = Cardinality({p}) * Cardinality(1..Amount[p])
  BY <1>3, <1>4, FS_Product, Zenon
<1>6. Amount[p] \in Nat /\ 1 * Amount[p] = Amount[p]
  BY <1>1, BudgetAssumption
<1>7. QED
  BY <1>2, <1>3, <1>4, <1>5, <1>6 DEF Total

\* Adding a payment adds its amount.
LEMMA TotalAdd ==
    ASSUME NEW S \in SUBSET Payments, NEW p \in Payments, p \notin S
    PROVE  Total(S \cup {p}) = Total(S) + Amount[p]
<1>1. UnitsOf(S \cup {p}) = UnitsOf(S) \cup UnitsOf({p})
  BY DEF UnitsOf
<1>2. UnitsOf(S) \cap UnitsOf({p}) = {}
  BY DEF UnitsOf
<1>3. IsFiniteSet(UnitsOf(S)) /\ IsFiniteSet(UnitsOf({p}))
  BY UnitsFinite
<1>4. Cardinality(UnitsOf(S) \cup UnitsOf({p}))
        = Cardinality(UnitsOf(S)) + Cardinality(UnitsOf({p})) - Cardinality({})
  BY <1>2, <1>3, FS_Union
<1>5. Cardinality({}) = 0
  BY FS_EmptySet
<1>6. Total(S) \in Nat /\ Total({p}) \in Nat
  BY UnitsFinite
<1>7. Total({p}) = Amount[p]
  BY TotalSingleton
<1>8. Total(S \cup {p}) = Total(S) + Total({p}) - 0
  BY <1>1, <1>4, <1>5, Zenon DEF Total
<1>9. QED
  BY <1>6, <1>7, <1>8

\* Removing a payment removes its amount.
LEMMA TotalRemove ==
    ASSUME NEW S \in SUBSET Payments, NEW p \in S
    PROVE  /\ Total(S \ {p}) = Total(S) - Amount[p]
           /\ Amount[p] <= Total(S)
<1>1. S \ {p} \in SUBSET Payments /\ p \in Payments /\ p \notin S \ {p}
  OBVIOUS
<1>2. (S \ {p}) \cup {p} = S
  OBVIOUS
<1>3. Total(S) = Total(S \ {p}) + Amount[p]
  BY <1>1, <1>2, TotalAdd
<1>4. Total(S) \in Nat /\ Total(S \ {p}) \in Nat /\ Amount[p] \in Nat
  BY <1>1, UnitsFinite, BudgetAssumption
<1>5. QED
  BY <1>3, <1>4

LEMMA TotalEmpty == Total({}) = 0
<1>1. UnitsOf({}) = {}
  BY DEF UnitsOf
<1>2. QED
  BY <1>1, FS_EmptySet DEF Total

-----------------------------------------------------------------------------
(* The inductive invariant.  The three parts need each other: a counter stays*)
(* a natural number when units leave it only because it holds at least the   *)
(* units of the reservation that leaves (Conserved).                         *)

BudgetInv == BudgetTypeOK /\ Conserved /\ WithinLimit

LEMMA HoldersArePayments ==
    ASSUME NEW s, NEW status
    PROVE  Holders(s, status) \in SUBSET Payments
BY DEF Holders

LEMMA BudgetInitInv == BudgetInit => BudgetInv
<1> SUFFICES ASSUME BudgetInit PROVE BudgetInv
  OBVIOUS
<1>1. BudgetTypeOK
  BY DEF BudgetInit, BudgetTypeOK, Counter, Reservation, NoReservation
<1>2. \A s \in Scopes : Holders(s, OpenStatus) = {} /\ Holders(s, "CONSUMED") = {}
  BY DEF BudgetInit, Holders, NoReservation, OpenStatus
<1>3. Conserved
  BY <1>2, TotalEmpty DEF BudgetInit, Conserved
<1>4. WithinLimit
  BY DEF BudgetInit, WithinLimit, Spent
<1>5. QED
  BY <1>1, <1>3, <1>4 DEF BudgetInv

\* The Profile and Task of a payment and a day name two counter rows.
LEMMA ScopesTyped ==
    ASSUME NEW p \in Payments, NEW d \in Days
    PROVE  /\ ScopesOf(p, d) \subseteq Scopes
           /\ TaskScope(p) # DailyScope(p, d)
BY BudgetAssumption DEF ScopesOf, Scopes, TaskScope, DailyScope

\* Reserving adds the payment to the holders of its two scopes and to no other.
LEMMA ReservePreserves ==
    ASSUME BudgetInv, NEW p \in Payments, NEW d \in Days, NEW lim \in Limits,
           Reserve(p, d, lim)
    PROVE  BudgetInv'
<1> USE DEF BudgetInv
<1>0. Amount[p] \in Nat /\ lim.perTask \in Nat /\ lim.daily \in Nat
  BY BudgetAssumption
<1>1. \A s \in Scopes : counters[s] \in Counter
  BY DEF BudgetTypeOK
<1>2. \A s \in ScopesOf(p, d) :
        /\ counters'[s].reserved = counters[s].reserved + Amount[p]
        /\ counters'[s].consumed = counters[s].consumed
        /\ counters'[s].limit \in Nat
        /\ counters'[s] \in Counter
        /\ Spent(s) + Amount[p] <= counters'[s].limit
  <2> SUFFICES ASSUME NEW s \in ScopesOf(p, d)
               PROVE  /\ counters'[s].reserved = counters[s].reserved + Amount[p]
                      /\ counters'[s].consumed = counters[s].consumed
                      /\ counters'[s].limit \in Nat
                      /\ counters'[s] \in Counter
                      /\ Spent(s) + Amount[p] <= counters'[s].limit
    OBVIOUS
  <2>1. s \in Scopes /\ counters[s] \in Counter
    BY <1>1, ScopesTyped
  <2>2. counters'[s] = [limit    |-> IF s = TaskScope(p) THEN lim.perTask ELSE lim.daily,
                        reserved |-> counters[s].reserved + Amount[p],
                        consumed |-> counters[s].consumed]
    BY <2>1 DEF Reserve
  <2>3. /\ counters'[s].reserved = counters[s].reserved + Amount[p]
        /\ counters'[s].consumed = counters[s].consumed
        /\ counters'[s].limit = IF s = TaskScope(p) THEN lim.perTask ELSE lim.daily
        /\ counters'[s] \in Counter
    BY <1>0, <2>1, <2>2 DEF Counter
  <2>4. Spent(s) + Amount[p] <= counters'[s].limit
    BY <2>3, ScopesTyped DEF Reserve, FitsLimits, ScopesOf
  <2>5. QED
    BY <1>0, <2>3, <2>4
<1>3. \A s \in Scopes \ ScopesOf(p, d) : counters'[s] = counters[s]
  BY DEF Reserve
<1>4. BudgetTypeOK'
  <2>1. counters' \in [Scopes -> Counter]
    BY <1>1, <1>2, <1>3 DEF Reserve
  <2>2. reservations' \in [Payments -> Reservation]
    BY DEF Reserve, BudgetTypeOK, Reservation, OpenStatus
  <2>3. QED
    BY <2>1, <2>2 DEF BudgetTypeOK
<1>5. /\ reservations[p].status = "NONE"
      /\ reservations'[p] = [status |-> OpenStatus, day |-> d]
      /\ \A q \in Payments \ {p} : reservations'[q] = reservations[q]
  BY DEF Reserve, NoReservation, BudgetTypeOK
<1>6. \A s \in Scopes : Holders(s, "CONSUMED")' = Holders(s, "CONSUMED")
  BY <1>5 DEF Holders, OpenStatus, ScopesOf, TaskScope, DailyScope
<1>7. \A s \in ScopesOf(p, d) :
        /\ Holders(s, OpenStatus)' = Holders(s, OpenStatus) \cup {p}
        /\ p \notin Holders(s, OpenStatus)
  BY <1>5 DEF Holders, OpenStatus, ScopesOf, TaskScope, DailyScope
<1>8. \A s \in Scopes \ ScopesOf(p, d) :
        Holders(s, OpenStatus)' = Holders(s, OpenStatus)
  BY <1>5 DEF Holders, OpenStatus, ScopesOf, TaskScope, DailyScope
<1>9. Conserved'
  <2> SUFFICES ASSUME NEW s \in Scopes
               PROVE  /\ counters'[s].reserved = Total(Holders(s, OpenStatus)')
                      /\ counters'[s].consumed = Total(Holders(s, "CONSUMED")')
    BY DEF Conserved, Total, UnitsOf
  <2>1. CASE s \in ScopesOf(p, d)
    <3>1. Total(Holders(s, OpenStatus)') = Total(Holders(s, OpenStatus)) + Amount[p]
      BY <2>1, <1>7, HoldersArePayments, TotalAdd
    <3>2. QED
      BY <2>1, <3>1, <1>2, <1>6 DEF Conserved
  <2>2. CASE s \notin ScopesOf(p, d)
    BY <2>2, <1>3, <1>6, <1>8 DEF Conserved
  <2>3. QED
    BY <2>1, <2>2
<1>10. WithinLimit'
  BY <1>0, <1>1, <1>2, <1>3 DEF WithinLimit, Spent, Counter
<1>11. QED
  BY <1>4, <1>9, <1>10

\* Moving a reservation takes the payment out of the holders of the two scopes
\* of its own day, and adds it to the consumed ones only when it is consumed.
LEMMA MovePreserves ==
    ASSUME BudgetInv, NEW p \in Payments, NEW target \in FinalStatus,
           MoveReservation(p, target)
    PROVE  BudgetInv'
<1> USE DEF BudgetInv
<1> DEFINE d == reservations[p].day
<1>0. Amount[p] \in Nat
  BY BudgetAssumption
<1>1. \A s \in Scopes : counters[s] \in Counter
  BY DEF BudgetTypeOK
<1>2. d \in Days /\ reservations[p].status = OpenStatus
  BY DEF BudgetTypeOK, Reservation, MoveReservation, OpenStatus, NoReservation
<1>3. ScopesOf(p, d) \subseteq Scopes
  BY <1>2, ScopesTyped
<1>4. \A s \in ScopesOf(p, d) :
        /\ p \in Holders(s, OpenStatus)
        /\ Holders(s, OpenStatus) \in SUBSET Payments
        /\ Amount[p] <= Total(Holders(s, OpenStatus))
        /\ Total(Holders(s, OpenStatus) \ {p}) = Total(Holders(s, OpenStatus)) - Amount[p]
  BY <1>2, TotalRemove, HoldersArePayments DEF Holders
<1>5. \A s \in ScopesOf(p, d) :
        /\ counters'[s].reserved = counters[s].reserved - Amount[p]
        /\ counters'[s].consumed = IF target = "CONSUMED"
                                   THEN counters[s].consumed + Amount[p]
                                   ELSE counters[s].consumed
        /\ counters'[s].limit = counters[s].limit
        /\ Amount[p] <= counters[s].reserved
        /\ counters'[s] \in Counter
  <2> SUFFICES ASSUME NEW s \in ScopesOf(p, d)
               PROVE  /\ counters'[s].reserved = counters[s].reserved - Amount[p]
                      /\ counters'[s].consumed = IF target = "CONSUMED"
                                                 THEN counters[s].consumed + Amount[p]
                                                 ELSE counters[s].consumed
                      /\ counters'[s].limit = counters[s].limit
                      /\ Amount[p] <= counters[s].reserved
                      /\ counters'[s] \in Counter
    OBVIOUS
  <2>1. s \in Scopes /\ counters[s] \in Counter
    BY <1>1, <1>3
  <2>2. Amount[p] <= counters[s].reserved
    BY <1>4, <2>1 DEF Conserved
  <2>3. counters'[s] = [limit    |-> counters[s].limit,
                        reserved |-> counters[s].reserved - Amount[p],
                        consumed |-> IF target = "CONSUMED"
                                     THEN counters[s].consumed + Amount[p]
                                     ELSE counters[s].consumed]
    BY <2>1 DEF MoveReservation, Moved
  <2>4. QED
    BY <1>0, <2>1, <2>2, <2>3 DEF Counter
<1>6. \A s \in Scopes \ ScopesOf(p, d) : counters'[s] = counters[s]
  BY DEF MoveReservation, Moved
<1>7. /\ reservations'[p] = [status |-> target, day |-> d]
      /\ \A q \in Payments \ {p} : reservations'[q] = reservations[q]
  BY <1>2 DEF MoveReservation, BudgetTypeOK, Reservation, NoReservation
<1>8. BudgetTypeOK'
  <2>1. counters' \in [Scopes -> Counter]
    BY <1>1, <1>5, <1>6 DEF MoveReservation, Moved
  <2>2. reservations' \in [Payments -> Reservation]
    BY <1>2, <1>7 DEF MoveReservation, BudgetTypeOK, Reservation
  <2>3. QED
    BY <2>1, <2>2 DEF BudgetTypeOK
<1>9. \A s \in ScopesOf(p, d) :
        /\ Holders(s, OpenStatus)' = Holders(s, OpenStatus) \ {p}
        /\ Holders(s, "CONSUMED")' = IF target = "CONSUMED"
                                     THEN Holders(s, "CONSUMED") \cup {p}
                                     ELSE Holders(s, "CONSUMED")
        /\ p \notin Holders(s, "CONSUMED")
  BY <1>2, <1>7 DEF Holders, OpenStatus, FinalStatus, ScopesOf, TaskScope, DailyScope
<1>10. \A s \in Scopes \ ScopesOf(p, d) :
        /\ Holders(s, OpenStatus)' = Holders(s, OpenStatus)
        /\ Holders(s, "CONSUMED")' = Holders(s, "CONSUMED")
  BY <1>2, <1>7 DEF Holders, OpenStatus, FinalStatus, ScopesOf, TaskScope, DailyScope
<1>11. Conserved'
  <2> SUFFICES ASSUME NEW s \in Scopes
               PROVE  /\ counters'[s].reserved = Total(Holders(s, OpenStatus)')
                      /\ counters'[s].consumed = Total(Holders(s, "CONSUMED")')
    BY DEF Conserved, Total, UnitsOf
  <2>1. CASE s \in ScopesOf(p, d)
    <3>1. counters'[s].reserved = Total(Holders(s, OpenStatus)')
      BY <2>1, <1>4, <1>5, <1>9 DEF Conserved
    <3>2. Total(Holders(s, "CONSUMED") \cup {p}) = Total(Holders(s, "CONSUMED")) + Amount[p]
      BY <2>1, <1>9, HoldersArePayments, TotalAdd
    <3>3. counters'[s].consumed = Total(Holders(s, "CONSUMED")')
      BY <2>1, <3>2, <1>5, <1>9 DEF Conserved
    <3>4. QED
      BY <3>1, <3>3
  <2>2. CASE s \notin ScopesOf(p, d)
    BY <2>2, <1>6, <1>10 DEF Conserved
  <2>3. QED
    BY <2>1, <2>2
<1>12. WithinLimit'
  BY <1>0, <1>1, <1>5, <1>6 DEF WithinLimit, Spent, Counter
<1>13. QED
  BY <1>8, <1>11, <1>12

LEMMA BudgetStepInv == BudgetInv /\ [BudgetNext]_budgetVars => BudgetInv'
<1> SUFFICES ASSUME BudgetInv, [BudgetNext]_budgetVars PROVE BudgetInv'
  OBVIOUS
<1>1. ASSUME NEW p \in Payments, NEW d \in Days, NEW lim \in Limits, Reserve(p, d, lim)
      PROVE  BudgetInv'
  BY <1>1, ReservePreserves
<1>2. ASSUME NEW p \in Payments, Consume(p)
      PROVE  BudgetInv'
  BY <1>2, MovePreserves DEF Consume, FinalStatus
<1>3. ASSUME NEW p \in Payments, NEW cancelled \in BOOLEAN, Release(p, cancelled)
      PROVE  BudgetInv'
  <2>1. CASE cancelled
    BY <2>1, <1>3, MovePreserves DEF Release, FinalStatus
  <2>2. CASE ~cancelled
    BY <2>2, <1>3, MovePreserves DEF Release, FinalStatus
  <2>3. QED
    BY <2>1, <2>2
<1>4. CASE UNCHANGED budgetVars
  <2>1. counters' = counters /\ reservations' = reservations
    BY <1>4 DEF budgetVars
  <2>2. \A s, st : Holders(s, st)' = Holders(s, st)
    BY <2>1 DEF Holders
  <2>3. BudgetTypeOK'
    BY <2>1 DEF BudgetInv, BudgetTypeOK
  <2>4. Conserved'
    <3>1. \A s, st : Total(Holders(s, st))' = Total(Holders(s, st))
      BY <2>2 DEF Total, UnitsOf
    <3>2. QED
      BY <2>1, <3>1 DEF BudgetInv, Conserved
  <2>5. WithinLimit'
    BY <2>1 DEF BudgetInv, WithinLimit, Spent
  <2>6. QED
    BY <2>3, <2>4, <2>5 DEF BudgetInv
<1>5. QED
  BY <1>1, <1>2, <1>3, <1>4 DEF BudgetNext

\* Conservation and the limits hold in every reachable state, for every set of
\* payments and every sequence of limits the Owner sets.
THEOREM BudgetSafe == BudgetSpec => [](BudgetTypeOK /\ Conserved /\ WithinLimit)
<1>1. BudgetInv => BudgetTypeOK /\ Conserved /\ WithinLimit
  BY DEF BudgetInv
<1>2. QED
  BY <1>1, BudgetInitInv, BudgetStepInv, PTL DEF BudgetSpec

\* No counter exceeds its limit, whatever limits the Owner sets in between.
THEOREM CountersFitLimits == BudgetSpec => []WithinLimit
BY BudgetSafe, PTL

-----------------------------------------------------------------------------
(* The row locks.  What a transaction has read or found holds until it ends, *)
(* because it holds the lock of what it has read; so its commit is one whole *)
(* operation of the budget.                                                  *)

Pcs == {"daily", "task", "row", "commit"}
Reserving == [pc : Pcs, kind : {"reserve"}, payment : Payments, day : Days, lim : Limits,
              daily : Nat, task : Nat]
Moving == [pc : Pcs, kind : {"move"}, payment : Payments, day : Days, target : FinalStatus]

LocksTypeOK ==
    /\ tx \in [Transactions -> {Idle} \cup Reserving \cup Moving]
    /\ holder \in [Locks -> Transactions \cup {NoTransaction}]

\* The rows of the transaction t.
DailyOf(t) == DailyScope(tx[t].payment, tx[t].day)
TaskOfTx(t) == TaskScope(tx[t].payment)
RowOf(t) == Row(tx[t].payment)

\* A reserve: the counters in order, then the reservation that is not there.
ReserveFits(t) ==
    /\ Amount[tx[t].payment] <= tx[t].lim.perPayment
    /\ tx[t].pc \in {"task", "row", "commit"} => holder[DailyOf(t)] = t /\ tx[t].daily = Spent(DailyOf(t))
    /\ tx[t].pc \in {"row", "commit"} => holder[TaskOfTx(t)] = t /\ tx[t].task = Spent(TaskOfTx(t))
    /\ tx[t].pc = "commit" => reservations[tx[t].payment] = NoReservation

\* A move: the reservation that is there, then the counters of its day.
MoveFits(t) ==
    /\ reservations[tx[t].payment] # NoReservation /\ tx[t].day = reservations[tx[t].payment].day
    /\ tx[t].pc # "row" => holder[RowOf(t)] = t /\ reservations[tx[t].payment].status = OpenStatus
    /\ tx[t].pc \in {"task", "commit"} => holder[DailyOf(t)] = t
    /\ tx[t].pc = "commit" => holder[TaskOfTx(t)] = t

LocksFit(t) == tx[t] # Idle => IF tx[t].kind = "reserve" THEN ReserveFits(t) ELSE MoveFits(t)

LocksInv == BudgetInv /\ LocksTypeOK /\ \A t \in Transactions : LocksFit(t)

\* A scope is no reservation row, and the rows of a transaction can be locked.
LEMMA RowsApart ==
    ASSUME NEW p \in Payments, NEW d \in Days
    PROVE  /\ {TaskScope(p), DailyScope(p, d), Row(p)} \subseteq Locks
           /\ TaskScope(p) # DailyScope(p, d)
           /\ Row(p) \notin Scopes /\ TaskScope(p) \in Scopes /\ DailyScope(p, d) \in Scopes
<1>1. {TaskScope(p), DailyScope(p, d)} \subseteq Scopes /\ TaskScope(p) # DailyScope(p, d)
  BY ScopesTyped DEF ScopesOf
<1>2. Row(p) \notin Scopes
  BY DEF Row, Scopes
<1>3. QED
  BY <1>1, <1>2 DEF Locks

\* What an open transaction is.
LEMMA OpenTransaction ==
    ASSUME LocksInv, NEW t \in Transactions, tx[t].pc \in Pcs
    PROVE  /\ tx[t] # Idle /\ tx[t] \in Reserving \cup Moving
           /\ tx[t].payment \in Payments /\ tx[t].day \in Days
           /\ tx[t].kind = "reserve" => tx[t] \in Reserving /\ ReserveFits(t)
           /\ tx[t].kind = "move" => tx[t] \in Moving /\ MoveFits(t)
           /\ tx[t].kind \in {"reserve", "move"}
<1>1. tx[t] # Idle
  BY DEF Idle, Pcs
<1>2. tx[t] \in Reserving \cup Moving
  BY <1>1 DEF LocksInv, LocksTypeOK
<1>3. LocksFit(t)
  BY DEF LocksInv
<1>4. \A x \in Reserving : x.kind = "reserve" /\ x.payment \in Payments /\ x.day \in Days
  BY DEF Reserving
<1>5. \A x \in Moving : x.kind = "move" /\ x.payment \in Payments /\ x.day \in Days
  BY DEF Moving
<1>6. QED
  BY <1>1, <1>2, <1>3, <1>4, <1>5 DEF LocksFit

\* Whoever is not idle is at one of its four places.
LEMMA NotIdle ==
    ASSUME LocksInv, NEW t \in Transactions, tx[t] # Idle
    PROVE  tx[t].pc \in Pcs
<1>1. tx[t] \in Reserving \cup Moving
  BY DEF LocksInv, LocksTypeOK
<1>2. QED
  BY <1>1 DEF Reserving, Moving

\* The row a transaction asks for.
LEMMA NextLockOf ==
    ASSUME NEW t \in Transactions
    PROVE  /\ tx[t].pc = "daily" => NextLock(t) = DailyOf(t)
           /\ tx[t].pc = "task" => NextLock(t) = TaskOfTx(t)
           /\ tx[t].pc = "row" => NextLock(t) = RowOf(t)
BY DEF NextLock, DailyOf, TaskOfTx, RowOf

\* The step takes no lock from the other transactions.
Spares(t) == \A l \in Locks, u \in Transactions \ {t} : holder[l] = u => holder'[l] = u

\* A step that changes no row and takes nobody's lock.
LEMMA QuietTransaction ==
    ASSUME LocksInv, NEW t \in Transactions, NEW x \in {Idle} \cup Reserving \cup Moving,
           tx' = [tx EXCEPT ![t] = x], holder' \in [Locks -> Transactions \cup {NoTransaction}],
           Spares(t), UNCHANGED <<counters, reservations>>, LocksFit(t)'
    PROVE  LocksInv' /\ UNCHANGED budgetVars
<1>1. tx'[t] = x /\ \A u \in Transactions \ {t} : tx'[u] = tx[u]
  BY DEF LocksInv, LocksTypeOK
<1>2. LocksTypeOK'
  BY DEF LocksInv, LocksTypeOK
<1>3. UNCHANGED budgetVars /\ BudgetInv'
  BY BudgetStepInv DEF LocksInv, budgetVars
<1>4. ASSUME NEW u \in Transactions \ {t} PROVE LocksFit(u)'
  <2>1. tx'[u] = tx[u]
    BY <1>1
  <2>2. SUFFICES ASSUME tx[u] # Idle
                 PROVE  IF tx[u].kind = "reserve" THEN ReserveFits(u)' ELSE MoveFits(u)'
    BY <2>1 DEF LocksFit
  <2>3. tx[u].pc \in Pcs
    BY <2>2, NotIdle
  <2>4. {DailyOf(u), TaskOfTx(u), RowOf(u)} \subseteq Locks
    BY <2>3, OpenTransaction, RowsApart DEF DailyOf, TaskOfTx, RowOf
  <2>5. /\ holder[DailyOf(u)] = u => holder'[DailyOf(u)] = u
        /\ holder[TaskOfTx(u)] = u => holder'[TaskOfTx(u)] = u
        /\ holder[RowOf(u)] = u => holder'[RowOf(u)] = u
    BY <2>4 DEF Spares
  <2>6. DailyOf(u)' = DailyOf(u) /\ TaskOfTx(u)' = TaskOfTx(u) /\ RowOf(u)' = RowOf(u)
    BY <2>1 DEF DailyOf, TaskOfTx, RowOf
  <2>7. Spent(DailyOf(u))' = Spent(DailyOf(u)) /\ Spent(TaskOfTx(u))' = Spent(TaskOfTx(u))
    BY <2>6 DEF Spent
  <2>8. CASE tx[u].kind = "reserve"
    <3>1. ReserveFits(u)
      BY <2>3, <2>8, OpenTransaction
    <3>2. QED
      BY <2>1, <2>5, <2>6, <2>7, <2>8, <3>1 DEF ReserveFits
  <2>9. CASE tx[u].kind = "move"
    <3>1. MoveFits(u)
      BY <2>3, <2>9, OpenTransaction
    <3>2. QED
      BY <2>1, <2>5, <2>6, <2>9, <3>1 DEF MoveFits
  <2>10. QED
    BY <2>3, <2>8, <2>9, OpenTransaction
<1>5. QED
  BY <1>2, <1>3, <1>4 DEF LocksInv

\* Commit and rollback give back a transaction's own locks only.
LEMMA EndSpares ==
    ASSUME LocksInv, NEW t \in Transactions, End(t)
    PROVE  /\ Spares(t) /\ holder' \in [Locks -> Transactions \cup {NoTransaction}]
           /\ tx' = [tx EXCEPT ![t] = Idle] /\ tx'[t] = Idle
BY DEF End, Spares, LocksInv, LocksTypeOK

\* Nobody holds a lock that is granted.
LEMMA TakeSpares ==
    ASSUME LocksInv, NEW t \in Transactions, Take(t), NextLock(t) \in Locks, holder[NextLock(t)] = NoTransaction
    PROVE  /\ Spares(t) /\ holder' \in [Locks -> Transactions \cup {NoTransaction}]
           /\ holder'[NextLock(t)] = t
           /\ \A l \in Locks : holder[l] = t => holder'[l] = t
BY LocksAssumption DEF Take, Spares, LocksInv, LocksTypeOK

-----------------------------------------------------------------------------
(* The steps of a transaction *)

\* A transaction that ends without a write.
LEMMA EndsQuietly ==
    ASSUME LocksInv, NEW t \in Transactions, End(t), UNCHANGED <<counters, reservations>>
    PROVE  LocksInv' /\ UNCHANGED budgetVars
<1>1. LocksFit(t)'
  BY EndSpares DEF LocksFit
<1>2. QED
  BY <1>1, EndSpares, QuietTransaction

\* A reserve begins.
LEMMA BeginReserveStep ==
    ASSUME LocksInv, NEW t \in Transactions, NEW p \in Payments, NEW d \in Days, NEW lim \in Limits,
           BeginReserve(t, p, d, lim)
    PROVE  LocksInv' /\ UNCHANGED budgetVars
<1> DEFINE x == [pc |-> "daily", kind |-> "reserve", payment |-> p, day |-> d, lim |-> lim,
                 daily |-> 0, task |-> 0]
<1>1. x \in Reserving /\ x.pc = "daily" /\ x.kind = "reserve" /\ x.payment = p /\ x.lim = lim
  BY DEF Reserving, Pcs
<1>2. tx' = [tx EXCEPT ![t] = x] /\ UNCHANGED <<counters, reservations, holder>> /\ Amount[p] <= lim.perPayment
  BY DEF BeginReserve
<1> HIDE DEF x
<1>3. tx'[t] = x /\ holder' \in [Locks -> Transactions \cup {NoTransaction}] /\ Spares(t)
  BY <1>2 DEF LocksInv, LocksTypeOK, Spares
<1>4. LocksFit(t)'
  BY <1>1, <1>2, <1>3 DEF LocksFit, ReserveFits
<1>5. QED
  BY <1>1, <1>2, <1>3, <1>4, QuietTransaction

\* A move begins, with the day of the reservation it has found.
LEMMA BeginMoveStep ==
    ASSUME LocksInv, NEW t \in Transactions, NEW p \in Payments, NEW target \in FinalStatus,
           BeginMove(t, p, target)
    PROVE  LocksInv' /\ UNCHANGED budgetVars
<1> DEFINE x == [pc |-> "row", kind |-> "move", payment |-> p, day |-> reservations[p].day, target |-> target]
<1>1. reservations[p] # NoReservation /\ reservations[p].day \in Days
  BY DEF BeginMove, LocksInv, BudgetInv, BudgetTypeOK, Reservation
<1>2. x \in Moving /\ x.pc = "row" /\ x.kind = "move" /\ x.payment = p /\ x.day = reservations[p].day
  BY <1>1 DEF Moving, Pcs
<1>3. tx' = [tx EXCEPT ![t] = x] /\ UNCHANGED <<counters, reservations, holder>>
  BY DEF BeginMove
<1> HIDE DEF x
<1>4. tx'[t] = x /\ holder' \in [Locks -> Transactions \cup {NoTransaction}] /\ Spares(t)
  BY <1>3 DEF LocksInv, LocksTypeOK, Spares
<1>5. LocksFit(t)'
  BY <1>1, <1>2, <1>3, <1>4 DEF LocksFit, MoveFits
<1>6. QED
  BY <1>2, <1>3, <1>4, <1>5, QuietTransaction

\* The DAILY counter is locked and read.
LEMMA LockDailyStep ==
    ASSUME LocksInv, NEW t \in Transactions, LockDaily(t)
    PROVE  LocksInv' /\ UNCHANGED budgetVars
<1>1. tx[t].pc = "daily" /\ Granted(t) /\ Take(t) /\ DailyRead(t) /\ UNCHANGED <<counters, reservations>>
  BY DEF LockDaily
<1>2. tx[t].pc \in Pcs
  BY <1>1 DEF Pcs
<1>3. NextLock(t) = DailyOf(t) /\ DailyOf(t) \in Scopes /\ DailyOf(t) \in Locks
  BY <1>1, <1>2, NextLockOf, OpenTransaction, RowsApart DEF DailyOf
<1>4. holder[NextLock(t)] = NoTransaction
  BY <1>1 DEF Granted
<1>5. /\ Spares(t) /\ holder' \in [Locks -> Transactions \cup {NoTransaction}]
      /\ holder'[DailyOf(t)] = t /\ \A l \in Locks : holder[l] = t => holder'[l] = t
  BY <1>1, <1>3, <1>4, TakeSpares
<1>6. Spent(DailyOf(t)) \in Nat
  BY <1>3 DEF LocksInv, BudgetInv, BudgetTypeOK, Counter, Spent
<1>7. CASE tx[t].kind = "reserve"
  <2> DEFINE x == [tx[t] EXCEPT !.pc = "task", !.daily = Spent(DailyOf(t))]
  <2>1. tx[t] \in Reserving /\ ReserveFits(t)
    BY <1>2, <1>7, OpenTransaction
  <2>2. /\ x \in Reserving /\ x.pc = "task" /\ x.kind = "reserve" /\ x.daily = Spent(DailyOf(t))
        /\ x.payment = tx[t].payment /\ x.day = tx[t].day /\ x.lim = tx[t].lim
    BY <1>6, <2>1 DEF Reserving, Pcs
  <2>3. tx' = [tx EXCEPT ![t] = x]
    BY <1>1, <1>3, <1>7 DEF DailyRead
  <2> HIDE DEF x
  <2>4. tx'[t] = x
    BY <2>3 DEF LocksInv, LocksTypeOK
  <2>5. DailyOf(t)' = DailyOf(t) /\ Spent(DailyOf(t))' = Spent(DailyOf(t))
    BY <1>1, <2>2, <2>4 DEF DailyOf, Spent
  <2>6. LocksFit(t)'
    BY <1>5, <2>1, <2>2, <2>4, <2>5 DEF LocksFit, ReserveFits
  <2>7. QED
    BY <1>1, <1>5, <2>2, <2>3, <2>6, QuietTransaction
<1>8. CASE tx[t].kind = "move"
  <2> DEFINE x == [tx[t] EXCEPT !.pc = "task"]
  <2>1. tx[t] \in Moving /\ MoveFits(t)
    BY <1>2, <1>8, OpenTransaction
  <2>2. x \in Moving /\ x.pc = "task" /\ x.kind = "move" /\ x.payment = tx[t].payment /\ x.day = tx[t].day
    BY <2>1 DEF Moving, Pcs
  <2>3. tx' = [tx EXCEPT ![t] = x]
    BY <1>1, <1>8 DEF DailyRead
  <2> HIDE DEF x
  <2>4. tx'[t] = x
    BY <2>3 DEF LocksInv, LocksTypeOK
  <2>5. DailyOf(t)' = DailyOf(t) /\ RowOf(t)' = RowOf(t)
    BY <2>2, <2>4 DEF DailyOf, RowOf
  <2>6. RowOf(t) \in Locks
    BY <1>2, OpenTransaction, RowsApart DEF RowOf
  <2>7. LocksFit(t)'
    BY <1>1, <1>5, <2>1, <2>2, <2>4, <2>5, <2>6 DEF LocksFit, MoveFits
  <2>8. QED
    BY <1>1, <1>5, <2>2, <2>3, <2>7, QuietTransaction
<1>9. QED
  BY <1>2, <1>7, <1>8, OpenTransaction

\* The TASK counter is locked and read.
LEMMA LockTaskStep ==
    ASSUME LocksInv, NEW t \in Transactions, LockTask(t)
    PROVE  LocksInv' /\ UNCHANGED budgetVars
<1>1. tx[t].pc = "task" /\ Granted(t) /\ Take(t) /\ TaskRead(t) /\ UNCHANGED <<counters, reservations>>
  BY DEF LockTask
<1>2. tx[t].pc \in Pcs
  BY <1>1 DEF Pcs
<1>3. /\ NextLock(t) = TaskOfTx(t) /\ TaskOfTx(t) \in Scopes
      /\ {TaskOfTx(t), DailyOf(t), RowOf(t)} \subseteq Locks
  BY <1>1, <1>2, NextLockOf, OpenTransaction, RowsApart DEF TaskOfTx, DailyOf, RowOf
<1>4. holder[NextLock(t)] = NoTransaction
  BY <1>1 DEF Granted
<1>5. /\ Spares(t) /\ holder' \in [Locks -> Transactions \cup {NoTransaction}]
      /\ holder'[TaskOfTx(t)] = t /\ \A l \in Locks : holder[l] = t => holder'[l] = t
  BY <1>1, <1>3, <1>4, TakeSpares
<1>6. Spent(TaskOfTx(t)) \in Nat
  BY <1>3 DEF LocksInv, BudgetInv, BudgetTypeOK, Counter, Spent
<1>7. CASE tx[t].kind = "reserve"
  <2> DEFINE x == [tx[t] EXCEPT !.pc = "row", !.task = Spent(TaskOfTx(t))]
  <2>1. tx[t] \in Reserving /\ ReserveFits(t)
    BY <1>2, <1>7, OpenTransaction
  <2>2. /\ x \in Reserving /\ x.pc = "row" /\ x.kind = "reserve" /\ x.task = Spent(TaskOfTx(t))
        /\ x.payment = tx[t].payment /\ x.day = tx[t].day /\ x.lim = tx[t].lim /\ x.daily = tx[t].daily
    BY <1>6, <2>1 DEF Reserving, Pcs
  <2>3. tx' = [tx EXCEPT ![t] = x]
    BY <1>1, <1>3, <1>7 DEF TaskRead
  <2> HIDE DEF x
  <2>4. tx'[t] = x
    BY <2>3 DEF LocksInv, LocksTypeOK
  <2>5. DailyOf(t)' = DailyOf(t) /\ TaskOfTx(t)' = TaskOfTx(t)
    BY <2>2, <2>4 DEF DailyOf, TaskOfTx
  <2>6. Spent(DailyOf(t))' = Spent(DailyOf(t)) /\ Spent(TaskOfTx(t))' = Spent(TaskOfTx(t))
    BY <1>1, <2>5 DEF Spent
  <2>7. LocksFit(t)'
    BY <1>1, <1>3, <1>5, <2>1, <2>2, <2>4, <2>5, <2>6 DEF LocksFit, ReserveFits
  <2>8. QED
    BY <1>1, <1>5, <2>2, <2>3, <2>7, QuietTransaction
<1>8. CASE tx[t].kind = "move"
  <2> DEFINE x == [tx[t] EXCEPT !.pc = "commit"]
  <2>1. tx[t] \in Moving /\ MoveFits(t)
    BY <1>2, <1>8, OpenTransaction
  <2>2. x \in Moving /\ x.pc = "commit" /\ x.kind = "move" /\ x.payment = tx[t].payment /\ x.day = tx[t].day
    BY <2>1 DEF Moving, Pcs
  <2>3. tx' = [tx EXCEPT ![t] = x]
    BY <1>1, <1>8 DEF TaskRead
  <2> HIDE DEF x
  <2>4. tx'[t] = x
    BY <2>3 DEF LocksInv, LocksTypeOK
  <2>5. DailyOf(t)' = DailyOf(t) /\ RowOf(t)' = RowOf(t) /\ TaskOfTx(t)' = TaskOfTx(t)
    BY <2>2, <2>4 DEF DailyOf, RowOf, TaskOfTx
  <2>6. LocksFit(t)'
    BY <1>1, <1>3, <1>5, <2>1, <2>2, <2>4, <2>5 DEF LocksFit, MoveFits
  <2>7. QED
    BY <1>1, <1>5, <2>2, <2>3, <2>6, QuietTransaction
<1>9. QED
  BY <1>2, <1>7, <1>8, OpenTransaction

\* A reserve finds no reservation, or ends.
LEMMA FindReservationStep ==
    ASSUME LocksInv, NEW t \in Transactions, FindReservation(t)
    PROVE  LocksInv' /\ UNCHANGED budgetVars
<1>1. tx[t].pc = "row" /\ tx[t].kind = "reserve" /\ UNCHANGED <<counters, reservations>>
  BY DEF FindReservation
<1>2. tx[t].pc \in Pcs
  BY <1>1 DEF Pcs
<1>3. CASE reservations[tx[t].payment] = NoReservation
  <2> DEFINE x == [tx[t] EXCEPT !.pc = "commit"]
  <2>1. tx[t] \in Reserving /\ ReserveFits(t)
    BY <1>1, <1>2, OpenTransaction
  <2>2. /\ x \in Reserving /\ x.pc = "commit" /\ x.kind = "reserve" /\ x.task = tx[t].task
        /\ x.payment = tx[t].payment /\ x.day = tx[t].day /\ x.lim = tx[t].lim /\ x.daily = tx[t].daily
    BY <2>1 DEF Reserving, Pcs
  <2>3. tx' = [tx EXCEPT ![t] = x] /\ UNCHANGED holder
    BY <1>3 DEF FindReservation
  <2> HIDE DEF x
  <2>4. tx'[t] = x /\ holder' \in [Locks -> Transactions \cup {NoTransaction}] /\ Spares(t)
    BY <2>3 DEF LocksInv, LocksTypeOK, Spares
  <2>5. DailyOf(t)' = DailyOf(t) /\ TaskOfTx(t)' = TaskOfTx(t)
    BY <2>2, <2>4 DEF DailyOf, TaskOfTx
  <2>6. Spent(DailyOf(t))' = Spent(DailyOf(t)) /\ Spent(TaskOfTx(t))' = Spent(TaskOfTx(t))
    BY <1>1, <2>5 DEF Spent
  <2>7. LocksFit(t)'
    BY <1>1, <1>3, <2>1, <2>2, <2>3, <2>4, <2>5, <2>6 DEF LocksFit, ReserveFits
  <2>8. QED
    BY <1>1, <2>2, <2>3, <2>4, <2>7, QuietTransaction
<1>4. CASE reservations[tx[t].payment] # NoReservation
  <2>1. End(t)
    BY <1>4 DEF FindReservation
  <2>2. QED
    BY <1>1, <2>1, EndsQuietly
<1>5. QED
  BY <1>3, <1>4

\* A move locks its reservation, or ends.
LEMMA LockReservationStep ==
    ASSUME LocksInv, NEW t \in Transactions, LockReservation(t)
    PROVE  LocksInv' /\ UNCHANGED budgetVars
<1>1. tx[t].pc = "row" /\ tx[t].kind = "move" /\ Granted(t) /\ UNCHANGED <<counters, reservations>>
  BY DEF LockReservation
<1>2. tx[t].pc \in Pcs
  BY <1>1 DEF Pcs
<1>3. tx[t] \in Moving /\ MoveFits(t)
  BY <1>1, <1>2, OpenTransaction
<1>4. CASE reservations[tx[t].payment].status = OpenStatus
  <2> DEFINE x == [tx[t] EXCEPT !.pc = "daily"]
  <2>1. x \in Moving /\ x.pc = "daily" /\ x.kind = "move" /\ x.payment = tx[t].payment /\ x.day = tx[t].day
    BY <1>3 DEF Moving, Pcs
  <2>2. tx' = [tx EXCEPT ![t] = x] /\ Take(t)
    BY <1>4 DEF LockReservation
  <2> HIDE DEF x
  <2>3. NextLock(t) = RowOf(t) /\ RowOf(t) \in Locks
    BY <1>1, <1>2, NextLockOf, OpenTransaction, RowsApart DEF RowOf
  <2>4. holder[NextLock(t)] = NoTransaction
    BY <1>1, <1>3 DEF Granted, MoveFits
  <2>5. /\ Spares(t) /\ holder' \in [Locks -> Transactions \cup {NoTransaction}]
        /\ holder'[RowOf(t)] = t
    BY <2>2, <2>3, <2>4, TakeSpares
  <2>6. tx'[t] = x
    BY <2>2 DEF LocksInv, LocksTypeOK
  <2>7. RowOf(t)' = RowOf(t)
    BY <2>1, <2>6 DEF RowOf
  <2>8. LocksFit(t)'
    BY <1>1, <1>3, <1>4, <2>1, <2>5, <2>6, <2>7 DEF LocksFit, MoveFits
  <2>9. QED
    BY <1>1, <2>1, <2>2, <2>5, <2>8, QuietTransaction
<1>5. CASE reservations[tx[t].payment].status # OpenStatus
  <2>1. End(t)
    BY <1>5 DEF LockReservation
  <2>2. QED
    BY <1>1, <2>1, EndsQuietly
<1>6. QED
  BY <1>4, <1>5

-----------------------------------------------------------------------------
(* Commits *)

\* What the others have read and locked stands when t writes what it has locked:
\* its two counters, and its reservation in place of none or under its row lock.
LEMMA CommitSpares ==
    ASSUME LocksInv, NEW t \in Transactions, tx[t].pc = "commit", End(t),
           NEW r, r # NoReservation,
           reservations' = [reservations EXCEPT ![tx[t].payment] = r],
           \A s \in Scopes : s \notin {DailyOf(t), TaskOfTx(t)} => counters'[s] = counters[s],
           holder[DailyOf(t)] = t, holder[TaskOfTx(t)] = t,
           \/ reservations[tx[t].payment] = NoReservation
           \/ /\ holder[RowOf(t)] = t /\ reservations[tx[t].payment] # NoReservation
              /\ r.day = reservations[tx[t].payment].day,
           BudgetInv'
    PROVE  LocksInv'
<1> DEFINE p == tx[t].payment
<1>1. tx[t].pc \in Pcs /\ p \in Payments
  BY OpenTransaction DEF Pcs
<1>2. /\ tx' = [tx EXCEPT ![t] = Idle] /\ tx'[t] = Idle /\ Spares(t)
      /\ holder' \in [Locks -> Transactions \cup {NoTransaction}]
  BY EndSpares
<1>3. LocksTypeOK' /\ \A u \in Transactions \ {t} : tx'[u] = tx[u]
  BY <1>2 DEF LocksInv, LocksTypeOK
<1>4. reservations'[p] = r /\ \A q \in Payments \ {p} : reservations'[q] = reservations[q]
  BY <1>1 DEF LocksInv, BudgetInv, BudgetTypeOK
<1>5. ASSUME NEW u \in Transactions \ {t} PROVE LocksFit(u)'
  <2>1. tx'[u] = tx[u]
    BY <1>3
  <2>2. SUFFICES ASSUME tx[u] # Idle
                 PROVE  IF tx[u].kind = "reserve" THEN ReserveFits(u)' ELSE MoveFits(u)'
    BY <2>1 DEF LocksFit
  <2>3. tx[u].pc \in Pcs /\ tx[u].payment \in Payments /\ tx[u].day \in Days
    BY <2>2, NotIdle, OpenTransaction
  <2>4. /\ {DailyOf(u), TaskOfTx(u), RowOf(u)} \subseteq Locks
        /\ {DailyOf(u), TaskOfTx(u)} \subseteq Scopes
    BY <2>3, RowsApart DEF DailyOf, TaskOfTx, RowOf
  <2>5. /\ holder[DailyOf(u)] = u => holder'[DailyOf(u)] = u
        /\ holder[TaskOfTx(u)] = u => holder'[TaskOfTx(u)] = u
        /\ holder[RowOf(u)] = u => holder'[RowOf(u)] = u
    BY <1>2, <2>4 DEF Spares
  <2>6. DailyOf(u)' = DailyOf(u) /\ TaskOfTx(u)' = TaskOfTx(u) /\ RowOf(u)' = RowOf(u)
    BY <2>1 DEF DailyOf, TaskOfTx, RowOf
  <2>7. \A s \in Scopes : holder[s] = u => counters'[s] = counters[s]
    OBVIOUS
  <2>8. /\ holder[DailyOf(u)] = u => Spent(DailyOf(u))' = Spent(DailyOf(u))
        /\ holder[TaskOfTx(u)] = u => Spent(TaskOfTx(u))' = Spent(TaskOfTx(u))
    BY <2>4, <2>6, <2>7 DEF Spent
  <2>9. CASE tx[u].kind = "reserve"
    <3>1. ReserveFits(u)
      BY <2>3, <2>9, OpenTransaction
    <3>2. tx[u].pc = "commit" => tx[u].payment # p
      BY <3>1 DEF ReserveFits, TaskOfTx
    <3>3. tx[u].pc = "commit" => reservations'[tx[u].payment] = NoReservation
      BY <1>4, <2>3, <3>1, <3>2 DEF ReserveFits
    <3>4. QED
      BY <2>1, <2>5, <2>6, <2>8, <2>9, <3>1, <3>3 DEF ReserveFits
  <2>10. CASE tx[u].kind = "move"
    <3>1. MoveFits(u)
      BY <2>3, <2>10, OpenTransaction
    <3>2. tx[u].payment = p => reservations[p] # NoReservation /\ holder[RowOf(u)] = t
      BY <3>1 DEF MoveFits, RowOf
    <3>3. /\ reservations'[tx[u].payment] # NoReservation
          /\ reservations'[tx[u].payment].day = reservations[tx[u].payment].day
      BY <1>4, <2>3, <3>1, <3>2 DEF MoveFits
    <3>4. tx[u].pc # "row" => reservations'[tx[u].payment] = reservations[tx[u].payment]
      BY <1>4, <2>3, <3>1, <3>2 DEF MoveFits
    <3>5. QED
      BY <2>1, <2>5, <2>6, <2>10, <3>1, <3>3, <3>4 DEF MoveFits
  <2>11. QED
    BY <2>3, <2>9, <2>10, OpenTransaction
<1>6. LocksFit(t)'
  BY <1>2 DEF LocksFit
<1>7. QED
  BY <1>3, <1>5, <1>6 DEF LocksInv

\* The commit of a reserve is Reserve of MppBudget, or changes nothing.
LEMMA CommitReserveStep ==
    ASSUME LocksInv, NEW t \in Transactions, CommitReserve(t)
    PROVE  LocksInv' /\ [BudgetNext]_budgetVars
<1> DEFINE p == tx[t].payment
           d == tx[t].day
           lim == tx[t].lim
           fits == /\ tx[t].task + Amount[p] <= lim.perTask
                   /\ tx[t].daily + Amount[p] <= lim.daily
<1>1. tx[t].pc = "commit" /\ tx[t].kind = "reserve" /\ End(t)
  BY DEF CommitReserve
<1>2. tx[t].pc \in Pcs
  BY <1>1 DEF Pcs
<1>3. tx[t] \in Reserving /\ ReserveFits(t) /\ p \in Payments /\ d \in Days
  BY <1>1, <1>2, OpenTransaction
<1>4. lim \in Limits
  BY <1>3 DEF Reserving
<1>5. CASE fits
  <2>1. /\ reservations[p] = NoReservation /\ Amount[p] <= lim.perPayment
        /\ holder[DailyOf(t)] = t /\ holder[TaskOfTx(t)] = t
        /\ tx[t].daily = Spent(DailyScope(p, d)) /\ tx[t].task = Spent(TaskScope(p))
    BY <1>1, <1>3 DEF ReserveFits, DailyOf, TaskOfTx
  <2>2. FitsLimits(p, d, lim)
    BY <1>5, <2>1 DEF FitsLimits
  <2>3. /\ counters' = [s \in Scopes |->
              IF s \in ScopesOf(p, d)
              THEN [limit    |-> IF s = TaskScope(p) THEN lim.perTask ELSE lim.daily,
                    reserved |-> counters[s].reserved + Amount[p],
                    consumed |-> counters[s].consumed]
              ELSE counters[s]]
        /\ reservations' = [reservations EXCEPT ![p] = [status |-> OpenStatus, day |-> d]]
    BY <1>5 DEF CommitReserve
  <2>4. Reserve(p, d, lim)
    BY <2>1, <2>2, <2>3 DEF Reserve
  <2>5. BudgetInv'
    BY <1>3, <1>4, <2>4, ReservePreserves DEF LocksInv
  <2>6. \A s \in Scopes : s \notin {DailyOf(t), TaskOfTx(t)} => counters'[s] = counters[s]
    BY <2>3 DEF ScopesOf, DailyOf, TaskOfTx
  <2>7. [status |-> OpenStatus, day |-> d] # NoReservation
    BY DEF NoReservation, OpenStatus
  <2>8. LocksInv'
    BY <1>1, <2>1, <2>3, <2>5, <2>6, <2>7, CommitSpares
  <2>9. QED
    BY <1>3, <1>4, <2>4, <2>8 DEF BudgetNext
<1>6. CASE ~fits
  <2>1. UNCHANGED <<counters, reservations>>
    BY <1>6 DEF CommitReserve
  <2>2. QED
    BY <1>1, <2>1, EndsQuietly
<1>7. QED
  BY <1>5, <1>6

\* The commit of a move is MoveReservation of MppBudget, on the day it found.
LEMMA CommitMoveStep ==
    ASSUME LocksInv, NEW t \in Transactions, CommitMove(t)
    PROVE  LocksInv' /\ [BudgetNext]_budgetVars
<1> DEFINE p == tx[t].payment
           target == tx[t].target
           d == reservations[p].day
<1>1. tx[t].pc = "commit" /\ tx[t].kind = "move" /\ End(t) /\ MoveReservation(p, target)
  BY DEF CommitMove
<1>2. tx[t].pc \in Pcs
  BY <1>1 DEF Pcs
<1>3. tx[t] \in Moving /\ MoveFits(t) /\ p \in Payments
  BY <1>1, <1>2, OpenTransaction
<1>4. target \in FinalStatus
  BY <1>3 DEF Moving
<1>5. /\ reservations[p] # NoReservation /\ tx[t].day = d
      /\ holder[RowOf(t)] = t /\ holder[DailyOf(t)] = t /\ holder[TaskOfTx(t)] = t
  BY <1>1, <1>3 DEF MoveFits
<1>6. BudgetInv'
  BY <1>1, <1>3, <1>4, MovePreserves DEF LocksInv
<1>7. /\ counters' = Moved(p, ScopesOf(p, d), target)
      /\ reservations' = [reservations EXCEPT ![p] = [status |-> target, day |-> d]]
  BY <1>1 DEF MoveReservation
<1>8. ScopesOf(p, d) = {DailyOf(t), TaskOfTx(t)}
  BY <1>5 DEF ScopesOf, DailyOf, TaskOfTx
<1>9. \A s \in Scopes : s \notin {DailyOf(t), TaskOfTx(t)} => counters'[s] = counters[s]
  BY <1>7, <1>8 DEF Moved
<1>10. [status |-> target, day |-> d] # NoReservation /\ [status |-> target, day |-> d].day = d
  BY <1>4 DEF NoReservation, FinalStatus
<1>11. LocksInv'
  BY <1>1, <1>5, <1>6, <1>7, <1>9, <1>10, CommitSpares
<1>12. Consume(p) \/ \E cancelled \in BOOLEAN : Release(p, cancelled)
  <2>1. CASE target = "CONSUMED"
    BY <1>1, <2>1 DEF Consume
  <2>2. CASE target = "RELEASED"
    BY <1>1, <2>2 DEF Release
  <2>3. CASE target = "CANCELLED"
    BY <1>1, <2>3 DEF Release
  <2>4. QED
    BY <1>4, <2>1, <2>2, <2>3 DEF FinalStatus
<1>13. QED
  BY <1>3, <1>11, <1>12 DEF BudgetNext

LEMMA LocksInitInv == LocksInit => LocksInv
<1> SUFFICES ASSUME LocksInit PROVE LocksInv
  OBVIOUS
<1>1. BudgetInv
  BY BudgetInitInv DEF LocksInit
<1>2. LocksTypeOK
  BY DEF LocksInit, LocksTypeOK
<1>3. \A t \in Transactions : LocksFit(t)
  BY DEF LocksInit, LocksFit
<1>4. QED
  BY <1>1, <1>2, <1>3 DEF LocksInv

\* Every step of the transactions is a step of the budget, or none.
LEMMA LocksStep == LocksInv /\ [LocksNext]_locksVars => LocksInv' /\ [BudgetNext]_budgetVars
<1> SUFFICES ASSUME LocksInv, [LocksNext]_locksVars PROVE LocksInv' /\ [BudgetNext]_budgetVars
  OBVIOUS
<1>1. ASSUME NEW t \in Transactions, NEW p \in Payments, NEW d \in Days, NEW lim \in Limits,
             BeginReserve(t, p, d, lim)
      PROVE  LocksInv' /\ UNCHANGED budgetVars
  BY <1>1, BeginReserveStep
<1>2. ASSUME NEW t \in Transactions, NEW p \in Payments, NEW target \in FinalStatus, BeginMove(t, p, target)
      PROVE  LocksInv' /\ UNCHANGED budgetVars
  BY <1>2, BeginMoveStep
<1>3. ASSUME NEW t \in Transactions, Work(t)
      PROVE  LocksInv' /\ [BudgetNext]_budgetVars
  BY <1>3, LockDailyStep, LockTaskStep, FindReservationStep, LockReservationStep,
     CommitReserveStep, CommitMoveStep DEF Work
<1>4. ASSUME NEW t \in Transactions, Rollback(t)
      PROVE  LocksInv' /\ UNCHANGED budgetVars
  BY <1>4, EndsQuietly DEF Rollback
<1>5. ASSUME NEW t \in Transactions, BreakDeadlock(t)
      PROVE  LocksInv' /\ UNCHANGED budgetVars
  BY <1>4, <1>5 DEF BreakDeadlock
<1>6. CASE UNCHANGED locksVars
  <2>1. tx' = tx /\ holder' = holder /\ counters' = counters /\ reservations' = reservations
    BY <1>6 DEF locksVars
  <2>2. UNCHANGED budgetVars /\ BudgetInv'
    BY <2>1, BudgetStepInv DEF budgetVars, LocksInv
  <2>3. LocksTypeOK' /\ \A t \in Transactions : LocksFit(t)'
    BY <2>1 DEF LocksInv, LocksTypeOK, LocksFit, ReserveFits, MoveFits, DailyOf, TaskOfTx, RowOf, Spent
  <2>4. QED
    BY <2>2, <2>3 DEF LocksInv
<1>7. QED
  BY <1>1, <1>2, <1>3, <1>4, <1>5, <1>6 DEF LocksNext

\* The transactions of reserve_budget and _move_reservation, with their row
\* locks in opposite orders, their rollbacks and broken deadlocks, are the atomic
\* operations of the budget: for every number of transactions.
THEOREM LocksImplementBudget == LocksSpec => ImplementsBudget
<1>1. LocksInit => Budget!BudgetInit
  BY DEF LocksInit, BudgetInit, Budget!BudgetInit, Budget!Scopes, Scopes, Budget!NoReservation, NoReservation
<1>2. [BudgetNext]_budgetVars => [Budget!BudgetNext]_(Budget!budgetVars)
  <2>1. \A p \in Payments, d \in Days, lim \in Limits : Reserve(p, d, lim) => Budget!Reserve(p, d, lim)
    BY DEF Reserve, FitsLimits, Spent, ScopesOf, TaskScope, DailyScope, Scopes, OpenStatus, NoReservation,
           Budget!Reserve, Budget!FitsLimits, Budget!Spent, Budget!ScopesOf, Budget!TaskScope,
           Budget!DailyScope, Budget!Scopes, Budget!OpenStatus, Budget!NoReservation
  <2>2. \A p \in Payments : \A target : MoveReservation(p, target) => Budget!MoveReservation(p, target)
    BY DEF MoveReservation, Moved, ScopesOf, TaskScope, DailyScope, Scopes, OpenStatus,
           Budget!MoveReservation, Budget!Moved, Budget!ScopesOf, Budget!TaskScope,
           Budget!DailyScope, Budget!Scopes, Budget!OpenStatus
  <2>3. BudgetNext => Budget!BudgetNext
    BY <2>1, <2>2 DEF BudgetNext, Consume, Release, Budget!BudgetNext, Budget!Consume, Budget!Release
  <2>4. QED
    BY <2>3 DEF budgetVars, Budget!budgetVars
<1>3. QED
  BY <1>1, <1>2, LocksInitInv, LocksStep, PTL DEF LocksSpec, ImplementsBudget, Budget!BudgetSpec

\* A transaction about to commit holds the lock of every row it will write.
THEOREM CommitsHoldLocks == LocksSpec => []CommitHoldsLocks
<1>1. LocksInv => CommitHoldsLocks
  <2> SUFFICES ASSUME LocksInv, NEW t \in Transactions, tx[t].pc = "commit"
               PROVE  /\ \A s \in ScopesOf(tx[t].payment, tx[t].day) : holder[s] = t
                      /\ tx[t].kind = "move" => holder[Row(tx[t].payment)] = t
    BY DEF CommitHoldsLocks
  <2>1. /\ tx[t].kind = "reserve" => ReserveFits(t)
        /\ tx[t].kind = "move" => MoveFits(t)
        /\ tx[t].kind \in {"reserve", "move"}
    BY OpenTransaction DEF Pcs
  <2>2. QED
    BY <2>1 DEF ReserveFits, MoveFits, ScopesOf, DailyOf, TaskOfTx, RowOf
<1>2. QED
  BY <1>1, LocksInitInv, LocksStep, PTL DEF LocksSpec

\* So the counters of concurrent transactions are conserved and within their
\* limits, as those of the atomic budget are.
THEOREM LocksKeepCounters == LocksSpec => [](Conserved /\ WithinLimit)
<1>1. LocksInv => Conserved /\ WithinLimit
  BY DEF LocksInv, BudgetInv
<1>2. QED
  BY <1>1, LocksInitInv, LocksStep, PTL DEF LocksSpec
=============================================================================
