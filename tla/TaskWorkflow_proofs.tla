-------------------------- MODULE TaskWorkflow_proofs --------------------------
(***************************************************************************)
(* Proofs about the Treasury and about the commands on a Task that use it,   *)
(* for every set of Tasks and Agents, every team, budget, key, amount, rate  *)
(* and number of audits: the books agree, the commands are clients of the    *)
(* Treasury, and the Owner's verdicts hold.                                  *)
(*                                                                         *)
(* The sum of a set of entries is the number of its single lamports, so      *)
(* what an entry adds follows from the theorems about finite sets.           *)
(***************************************************************************)
EXTENDS TaskWorkflow, FiniteSetTheorems, TLAPS

\* A Task's budget is a number.
LEMMA BudgetIsNumber ==
    ASSUME NEW t \in Tasks
    PROVE  BudgetOf[t] \in Nat
BY LedgerAssumption

-----------------------------------------------------------------------------
(* Sums of entries *)

\* No entries are worth nothing.
LEMMA UnitsOfNone == Units({}) = {} /\ Lamports({}) = 0
<1>1. Units({}) = {}
  BY DEF Units
<1>2. QED
  BY <1>1, FS_EmptySet DEF Lamports

\* The sum of finitely many lamports is a number, and so is that of a part.
LEMMA PartOfEntries ==
    ASSUME NEW S, NEW T \in SUBSET S, IsFiniteSet(Units(S))
    PROVE  IsFiniteSet(Units(T)) /\ Lamports(T) \in Nat
<1>1. Units(T) \in SUBSET Units(S)
  BY DEF Units
<1>2. IsFiniteSet(Units(T))
  BY <1>1, FS_Subset
<1>3. QED
  BY <1>2, FS_CardinalityType DEF Lamports

\* An amount is the number of its lamports.
LEMMA LamportsOfAmount ==
    ASSUME NEW n \in Nat
    PROVE  IsFiniteSet(1..n) /\ Cardinality(1..n) = n
<1>1. 1 \in Int /\ n \in Int
  OBVIOUS
<1>2. /\ IsFiniteSet(1..n)
      /\ Cardinality(1..n) = IF 1 > n THEN 0 ELSE n - 1 + 1
  BY <1>1, FS_Interval, Zenon
<1>3. (IF 1 > n THEN 0 ELSE n - 1 + 1) = n
  OBVIOUS
<1>4. QED
  BY <1>2, <1>3

\* One more entry adds its amount.
LEMMA OneMoreEntry ==
    ASSUME NEW S, IsFiniteSet(Units(S)), NEW x, x \notin S, x.amount \in Nat
    PROVE  /\ IsFiniteSet(Units(S \cup {x}))
           /\ Lamports(S \cup {x}) = Lamports(S) + x.amount
<1> DEFINE new == {x} \X (1..x.amount)
<1>1. Units(S \cup {x}) = Units(S) \cup new
  BY DEF Units
<1>2. Units(S) \cap new = {}
  BY DEF Units
<1>3. IsFiniteSet({x}) /\ Cardinality({x}) = 1
  BY FS_Singleton
<1>4. IsFiniteSet(1..x.amount) /\ Cardinality(1..x.amount) = x.amount
  BY LamportsOfAmount
<1>5. IsFiniteSet(new) /\ Cardinality(new) = Cardinality({x}) * Cardinality(1..x.amount)
  BY <1>3, <1>4, FS_Product
<1>6. Cardinality(new) = x.amount
  BY <1>3, <1>4, <1>5
<1> HIDE DEF new
<1>7. IsFiniteSet(Units(S) \cup new)
  BY <1>5, FS_Union
<1>8. Cardinality(Units(S) \cup new) = Cardinality(Units(S)) + Cardinality(new) - Cardinality({})
  BY <1>2, <1>5, FS_Union
<1>9. Cardinality({}) = 0 /\ Cardinality(Units(S)) \in Nat
  BY FS_EmptySet, FS_CardinalityType
<1>10. /\ IsFiniteSet(Units(S \cup {x}))
       /\ Lamports(S \cup {x}) = Cardinality(Units(S)) + Cardinality(new) - Cardinality({})
  BY <1>1, <1>7, <1>8, Zenon DEF Lamports
<1>11. QED
  BY <1>6, <1>9, <1>10 DEF Lamports

\* Total and TotalOf of any set of entries.
KindTotal(S, kind) == Lamports({e \in S : e.kind = kind})
TaskTotal(S, t, kind) == Lamports({e \in S : e.kind = kind /\ e.task = t})

\* Total and TotalOf are sums over the entries.
LEMMA TotalsOfEntries ==
    /\ \A kind : Total(kind) = KindTotal(entries, kind)
    /\ \A t, kind : TotalOf(t, kind) = TaskTotal(entries, t, kind)
BY DEF Total, TotalOf, KindTotal, TaskTotal, Of, OfTask

\* Every sum over finitely many lamports is a number.
LEMMA TotalsAreNumbers ==
    ASSUME NEW S, IsFiniteSet(Units(S))
    PROVE  /\ \A kind : KindTotal(S, kind) \in Nat
           /\ \A t, kind : TaskTotal(S, t, kind) \in Nat
<1>1. ASSUME NEW kind PROVE KindTotal(S, kind) \in Nat
  BY PartOfEntries DEF KindTotal
<1>2. ASSUME NEW t, NEW kind PROVE TaskTotal(S, t, kind) \in Nat
  BY PartOfEntries DEF TaskTotal
<1>3. QED
  BY <1>1, <1>2

\* R is S with x: its amount is added to the totals of its kind and Task, and to
\* no other.
Adds(S, R, x) ==
    /\ IsFiniteSet(Units(R))
    /\ KindTotal(R, x.kind) = KindTotal(S, x.kind) + x.amount
    /\ TaskTotal(R, x.task, x.kind) = TaskTotal(S, x.task, x.kind) + x.amount
    /\ \A kind : kind # x.kind => KindTotal(R, kind) = KindTotal(S, kind)
    /\ \A t, kind : t # x.task \/ kind # x.kind => TaskTotal(R, t, kind) = TaskTotal(S, t, kind)

\* Posting an entry that is not there adds it.
LEMMA Posted ==
    ASSUME NEW S, IsFiniteSet(Units(S)), NEW x, x \notin S, x.amount \in Nat
    PROVE  Adds(S, S \cup {x}, x)
<1> DEFINE ofKind(R, kind) == {e \in R : e.kind = kind}
           ofTask(R, t, kind) == {e \in R : e.kind = kind /\ e.task = t}
<1>1. IsFiniteSet(Units(S \cup {x}))
  BY OneMoreEntry
<1>2. /\ IsFiniteSet(Units(ofKind(S, x.kind)))
      /\ IsFiniteSet(Units(ofTask(S, x.task, x.kind)))
  BY PartOfEntries
<1>3. /\ ofKind(S \cup {x}, x.kind) = ofKind(S, x.kind) \cup {x}
      /\ ofTask(S \cup {x}, x.task, x.kind) = ofTask(S, x.task, x.kind) \cup {x}
  OBVIOUS
<1>4. x \notin ofKind(S, x.kind) /\ x \notin ofTask(S, x.task, x.kind)
  OBVIOUS
<1>5. Lamports(ofKind(S, x.kind) \cup {x}) = Lamports(ofKind(S, x.kind)) + x.amount
  BY <1>2, <1>4, OneMoreEntry
<1>6. Lamports(ofTask(S, x.task, x.kind) \cup {x}) = Lamports(ofTask(S, x.task, x.kind)) + x.amount
  BY <1>2, <1>4, OneMoreEntry
<1>7. \A kind : kind # x.kind => ofKind(S \cup {x}, kind) = ofKind(S, kind)
  OBVIOUS
<1>8. \A t, kind : t # x.task \/ kind # x.kind => ofTask(S \cup {x}, t, kind) = ofTask(S, t, kind)
  OBVIOUS
<1>9. QED
  BY <1>1, <1>3, <1>5, <1>6, <1>7, <1>8 DEF Adds, KindTotal, TaskTotal

-----------------------------------------------------------------------------
(* The inductive invariant, Task by Task: what the properties say of it and  *)
(* what its entries may be, given the status of its allocation.  Without the *)
(* status a payment could meet entries of an earlier one.                    *)

TaskInv(t) ==
    /\ allocations[t].paid = TotalOf(t, "REWARD_PAYMENT")
    /\ allocations[t].reserved = TotalOf(t, "REWARD_RESERVE") - TotalOf(t, "REWARD_CANCELLED")
           - TotalOf(t, "REWARD_PAYMENT") - TotalOf(t, "TREASURY_RETENTION")
    /\ \A e, f \in entries : e.task = t /\ f.task = t /\ e.kind = f.kind => e = f
    /\ OfTask(t, "REWARD_PAYMENT") = {} \/ OfTask(t, "REWARD_CANCELLED") = {}
    /\ TotalOf(t, "REWARD_PAYMENT") + TotalOf(t, "TREASURY_RETENTION") <= BudgetOf[t]
    /\ allocations[t].reserved <= BudgetOf[t]
    /\ allocations[t].status # "Reserved" => allocations[t].reserved = 0
    /\ allocations[t].status \in {"None", "Pending", "Proposed"} => \A e \in entries : e.task # t
    /\ allocations[t].status = "Reserved" => \A e \in entries : e.task = t => e.kind = "REWARD_RESERVE"

LedgerInv ==
    /\ LedgerTypeOK /\ IsFiniteSet(Units(entries)) /\ Healthy
    /\ \A t \in Tasks : TaskInv(t)

\* No kind of entry that the Task has not got adds anything.
LEMMA NoneOfKind ==
    ASSUME NEW t, NEW kind, \A e \in entries : e.task = t => e.kind # kind
    PROVE  OfTask(t, kind) = {} /\ TotalOf(t, kind) = 0
<1>1. OfTask(t, kind) = {}
  BY DEF OfTask
<1>2. QED
  BY <1>1, UnitsOfNone DEF TotalOf

\* The Treasury is created empty, and no allocation has entries.
LEMMA LedgerInitInv == LedgerInit => LedgerInv
<1> SUFFICES ASSUME LedgerInit PROVE LedgerInv
  OBVIOUS
<1>1. LedgerTypeOK
  BY DEF LedgerInit, LedgerTypeOK, Account, Allocation, Unopened
<1>2. entries = {} /\ \A kind : Of(kind) = {} /\ \A t : OfTask(t, kind) = {}
  BY DEF LedgerInit, Of, OfTask
<1>3. \A kind : Total(kind) = 0 /\ \A t : TotalOf(t, kind) = 0
  BY <1>2, UnitsOfNone DEF Total, TotalOf
<1>4. IsFiniteSet(Units(entries))
  BY <1>2, UnitsOfNone, FS_EmptySet
<1>5. Healthy
  BY <1>3 DEF LedgerInit, Healthy, Calculated
<1>6. \A t \in Tasks : TaskInv(t)
  BY <1>2, <1>3, LedgerAssumption DEF LedgerInit, TaskInv, Unopened
<1>7. QED
  BY <1>1, <1>4, <1>5, <1>6 DEF LedgerInv

\* A Task is left alone by a step that changes neither its allocation nor its
\* entries.
LEMMA OtherTask ==
    ASSUME NEW u \in Tasks, TaskInv(u), allocations'[u] = allocations[u],
           {e \in entries' : e.task = u} = {e \in entries : e.task = u}
    PROVE  TaskInv(u)'
<1>1. \A e : e \in entries' /\ e.task = u <=> e \in entries /\ e.task = u
  OBVIOUS
<1>2. \A kind : OfTask(u, kind)' = OfTask(u, kind)
  BY <1>1 DEF OfTask
<1>3. \A kind : TotalOf(u, kind)' = TotalOf(u, kind)
  BY <1>2 DEF TotalOf
<1>4. QED
  BY <1>1, <1>2, <1>3 DEF TaskInv

\* A step without an entry leaves what is posted.
LEMMA NothingPosted ==
    ASSUME LedgerInv, entries' = entries
    PROVE  /\ IsFiniteSet(Units(entries))'
           /\ \A kind : Total(kind)' = Total(kind)
           /\ \A t, kind : OfTask(t, kind)' = OfTask(t, kind) /\ TotalOf(t, kind)' = TotalOf(t, kind)
<1>1. \A kind : Of(kind)' = Of(kind) /\ \A t : OfTask(t, kind)' = OfTask(t, kind)
  BY DEF Of, OfTask
<1>2. IsFiniteSet(Units(entries))'
  BY DEF LedgerInv, Units
<1>3. QED
  BY <1>1, <1>2 DEF Total, TotalOf

\* A step that changes an allocation as an UPDATE does leaves the others.
LEMMA OneAllocation ==
    ASSUME LedgerTypeOK, NEW t \in Tasks, NEW a \in Allocation,
           allocations' = [allocations EXCEPT ![t] = a]
    PROVE  /\ allocations' \in [Tasks -> Allocation]
           /\ allocations'[t] = a
           /\ \A u \in Tasks \ {t} : allocations'[u] = allocations[u]
BY DEF LedgerTypeOK

\* Only a Pending allocation, or a new one, changes without an entry.
LEMMA AllocationStep ==
    ASSUME LedgerInv, NEW t \in Tasks, NEW proposed \in Nat, NEW s \in {"Pending", "Proposed"},
           allocations[t].status \in {"None", "Pending"},
           allocations' = [allocations EXCEPT ![t] =
               [status |-> s, proposed |-> proposed, reserved |-> 0, paid |-> 0]],
           account' = account, entries' = entries
    PROVE  LedgerInv'
<1> DEFINE a == [status |-> s, proposed |-> proposed, reserved |-> 0, paid |-> 0]
<1>1. a \in Allocation /\ a.status = s /\ a.reserved = 0 /\ a.paid = 0
  BY DEF Allocation
<1> HIDE DEF a
<1>2. /\ allocations' \in [Tasks -> Allocation] /\ allocations'[t] = a
      /\ \A u \in Tasks \ {t} : allocations'[u] = allocations[u]
  BY <1>1, OneAllocation DEF LedgerInv, a
<1>3. LedgerTypeOK'
  BY <1>2 DEF LedgerInv, LedgerTypeOK
<1>4. Healthy'
  BY NothingPosted DEF LedgerInv, Healthy, Calculated
<1>5. TaskInv(t) /\ \A e \in entries : e.task # t
  BY DEF LedgerInv, TaskInv
<1>6. \A kind : TotalOf(t, kind) = 0
  BY <1>5, NoneOfKind
<1>7. \A kind : TotalOf(t, kind)' = 0 /\ OfTask(t, kind)' = OfTask(t, kind)
  BY <1>6, NothingPosted
<1>8. TaskInv(t)'
  <2>1. allocations'[t].reserved = 0 /\ allocations'[t].paid = 0 /\ allocations'[t].status # "Reserved"
    BY <1>1, <1>2
  <2>2. 0 <= BudgetOf[t]
    BY BudgetIsNumber
  <2>3. QED
    BY <1>5, <1>7, <2>1, <2>2 DEF TaskInv
<1>9. \A u \in Tasks \ {t} : TaskInv(u)'
  BY <1>2, OtherTask DEF LedgerInv
<1>10. QED
  BY <1>3, <1>4, <1>8, <1>9, NothingPosted DEF LedgerInv

\* What is retained is a part of what is paid.
LEMMA RetainedIsPart ==
    ASSUME NEW gross \in Nat, NEW bps \in Nat, bps <= 10000
    PROVE  Retained(gross, bps) \in Nat /\ Retained(gross, bps) <= gross
<1>1. \A a, d \in Nat : a * d >= 0
  OBVIOUS
<1>2. PICK d \in Nat : bps + d = 10000
  <2>1. 10000 - bps \in Nat /\ bps + (10000 - bps) = 10000
    OBVIOUS
  <2>2. QED
    BY <2>1
<1>3. gross * bps \in Nat /\ gross * d \in Nat /\ gross * (bps + d) = gross * bps + gross * d
  BY <1>1
<1>4. \A x, y \in Nat : x + y = gross * 10000 => x \div 10000 \in Nat /\ x \div 10000 <= gross
  OBVIOUS
<1>5. gross * bps + gross * d = gross * 10000
  BY <1>2, <1>3
<1>6. ASSUME NEW x, NEW y, x = gross * bps, y = gross * d
      PROVE  x \div 10000 \in Nat /\ x \div 10000 <= gross
  <2>1. x \in Nat /\ y \in Nat
    BY <1>3, <1>6
  <2>2. x + y = gross * 10000
    BY <1>5, <1>6
  <2>3. QED
    BY <2>1, <2>2, <1>4
<1>7. Retained(gross, bps) = (gross * bps) \div 10000
  BY DEF Retained
<1>8. QED
  BY <1>6, <1>7

-----------------------------------------------------------------------------
(* Postings *)

\* The totals are numbers.
LEMMA TotalsTyped ==
    ASSUME LedgerInv
    PROVE  \A kind : Total(kind) \in Nat /\ \A t : TotalOf(t, kind) \in Nat
BY TotalsOfEntries, TotalsAreNumbers DEF LedgerInv

-----------------------------------------------------------------------------
(* One command at a time *)

\* Funding adds to what is funded and available, and to no Task's entries.
LEMMA FundStep ==
    ASSUME LedgerInv, NEW k \in Keys, NEW n \in Amounts, FundTreasury(k, n)
    PROVE  LedgerInv'
<1>1. /\ Fresh(k) /\ entries' = entries \cup {Entry(k, "TREASURY_FUNDING", n, NoTask)}
      /\ allocations' = allocations /\ n \in Nat /\ NoTask \notin Tasks
  BY LedgerAssumption DEF FundTreasury
<1>2. /\ IsFiniteSet(Units(entries'))
      /\ KindTotal(entries', "TREASURY_FUNDING") = KindTotal(entries, "TREASURY_FUNDING") + n
      /\ \A other : other # "TREASURY_FUNDING" => KindTotal(entries', other) = KindTotal(entries, other)
  <2> DEFINE x == Entry(k, "TREASURY_FUNDING", n, NoTask)
  <2>1. /\ x \notin entries /\ entries' = entries \cup {x}
        /\ x.kind = "TREASURY_FUNDING" /\ x.amount = n /\ x.task = NoTask
    BY <1>1 DEF Fresh, Entry
  <2>2. IsFiniteSet(Units(entries)) /\ x.amount \in Nat
    BY <1>1, <2>1 DEF LedgerInv
  <2> HIDE DEF x
  <2>3. Adds(entries, entries', x)
    <3>1. Adds(entries, entries \cup {x}, x)
      BY <2>1, <2>2, Posted, Zenon
    <3>2. QED
      BY <2>1, <3>1, Zenon
  <2>4. QED
    BY <2>1, <2>3 DEF Adds
<1>3. \A kind : Total(kind) = KindTotal(entries, kind) /\ Total(kind)' = KindTotal(entries', kind)
  BY DEF Total, KindTotal, Of
<1>4. \A u \in Tasks : {e \in entries' : e.task = u} = {e \in entries : e.task = u}
  BY <1>1 DEF Entry
<1>5. account \in Account /\ account' = Booked(n, n, 0, 0, 0)
  BY DEF LedgerInv, LedgerTypeOK, FundTreasury
<1>6. LedgerTypeOK'
  <2>1. account' \in Account
    BY <1>1, <1>5 DEF Booked, Account
  <2>2. Entry(k, "TREASURY_FUNDING", n, NoTask) \in LedgerEntry
    BY <1>1 DEF Entry, LedgerEntry, Kinds
  <2>3. QED
    BY <1>1, <2>1, <2>2 DEF LedgerInv, LedgerTypeOK
<1>7. Healthy'
  <2>1. Healthy /\ \A kind : Total(kind) \in Nat
    BY TotalsTyped DEF LedgerInv
  <2>2. /\ Total("TREASURY_FUNDING")' = Total("TREASURY_FUNDING") + n
        /\ Total("REWARD_RESERVE")' = Total("REWARD_RESERVE")
        /\ Total("REWARD_CANCELLED")' = Total("REWARD_CANCELLED")
        /\ Total("REWARD_PAYMENT")' = Total("REWARD_PAYMENT")
        /\ Total("TREASURY_RETENTION")' = Total("TREASURY_RETENTION")
    BY <1>2, <1>3
  <2>3. n \in Nat /\ account \in Account /\ account' = Booked(n, n, 0, 0, 0)
    BY <1>1, <1>5
  <2>4. QED
    BY <2>1, <2>2, <2>3 DEF Healthy, Calculated, Booked, Account
<1>8. \A u \in Tasks : TaskInv(u)'
  BY <1>1, <1>4, OtherTask DEF LedgerInv
<1>9. IsFiniteSet(Units(entries))'
  BY <1>2 DEF Units
<1>10. QED
  BY <1>9, <1>6, <1>7, <1>8 DEF LedgerInv

\* A command about one Task changes its allocation and posts entries of its own.
LEMMA CommandStep ==
    ASSUME LedgerInv, NEW t \in Tasks, NEW a \in Allocation,
           allocations' = [allocations EXCEPT ![t] = a],
           NEW S, S \subseteq LedgerEntry, \A e \in S : e.task = t,
           entries' = entries \cup S, IsFiniteSet(Units(entries')),
           account' \in Account, Healthy', TaskInv(t)'
    PROVE  LedgerInv'
<1>1. /\ allocations' \in [Tasks -> Allocation]
      /\ \A u \in Tasks \ {t} : allocations'[u] = allocations[u]
  BY OneAllocation DEF LedgerInv
<1>2. LedgerTypeOK'
  BY <1>1 DEF LedgerInv, LedgerTypeOK
<1>3. \A u \in Tasks \ {t} : {e \in entries' : e.task = u} = {e \in entries : e.task = u}
  OBVIOUS
<1>4. \A u \in Tasks \ {t} : TaskInv(u)'
  BY <1>1, <1>3, OtherTask DEF LedgerInv
<1>5. IsFiniteSet(Units(entries))'
  BY DEF Units
<1>6. QED
  BY <1>2, <1>4, <1>5 DEF LedgerInv

\* A first reserve within the budget moves what is available to reserved.
LEMMA ReserveStep ==
    ASSUME LedgerInv, NEW k \in Keys, NEW t \in Tasks, NEW n \in 0..BudgetOf[t],
           ReserveReward(k, t, n)
    PROVE  LedgerInv'
<1> DEFINE a == [status |-> "Reserved", proposed |-> allocations[t].proposed,
                 reserved |-> n, paid |-> allocations[t].paid]
<1>1. Fresh(k) /\ n \in Nat /\ entries' = entries \cup {Entry(k, "REWARD_RESERVE", n, t)}
  BY LedgerAssumption DEF ReserveReward
<1>2. /\ n \in Nat /\ n <= BudgetOf[t] /\ n <= account.available
      /\ account' = Booked(0, -n, n, 0, 0) /\ account \in Account
      /\ allocations' = [allocations EXCEPT ![t] = a]
      /\ allocations[t].status = "Proposed" /\ allocations[t] \in Allocation
  BY LedgerAssumption DEF ReserveReward, Allocated, LedgerInv, LedgerTypeOK
<1>3. a \in Allocation /\ a.status = "Reserved" /\ a.reserved = n /\ a.paid = allocations[t].paid
  BY <1>2 DEF Allocation
<1> HIDE DEF a
<1>4. allocations'[t] = a
  BY <1>2, <1>3, OneAllocation DEF LedgerInv
<1>5. /\ IsFiniteSet(Units(entries'))
      /\ KindTotal(entries', "REWARD_RESERVE") = KindTotal(entries, "REWARD_RESERVE") + n
      /\ TaskTotal(entries', t, "REWARD_RESERVE") = TaskTotal(entries, t, "REWARD_RESERVE") + n
      /\ \A other : other # "REWARD_RESERVE" => KindTotal(entries', other) = KindTotal(entries, other)
      /\ \A other : other # "REWARD_RESERVE" => TaskTotal(entries', t, other) = TaskTotal(entries, t, other)
  <2> DEFINE x == Entry(k, "REWARD_RESERVE", n, t)
  <2>1. /\ x \notin entries /\ entries' = entries \cup {x}
        /\ x.kind = "REWARD_RESERVE" /\ x.amount = n /\ x.task = t
    BY <1>1 DEF Fresh, Entry
  <2>2. IsFiniteSet(Units(entries)) /\ x.amount \in Nat
    BY <1>1, <2>1 DEF LedgerInv
  <2> HIDE DEF x
  <2>3. Adds(entries, entries', x)
    <3>1. Adds(entries, entries \cup {x}, x)
      BY <2>1, <2>2, Posted, Zenon
    <3>2. QED
      BY <2>1, <3>1, Zenon
  <2>4. QED
    BY <2>1, <2>3 DEF Adds
<1>6. /\ \A kind : Total(kind) = KindTotal(entries, kind) /\ Total(kind)' = KindTotal(entries', kind)
      /\ \A kind : TotalOf(t, kind) = TaskTotal(entries, t, kind) /\ TotalOf(t, kind)' = TaskTotal(entries', t, kind)
  BY DEF Total, KindTotal, Of, TotalOf, TaskTotal, OfTask
<1>7. account' \in Account
  BY <1>2 DEF Booked, Account
<1>8. Healthy'
  <2>1. Healthy /\ \A kind : Total(kind) \in Nat
    BY TotalsTyped DEF LedgerInv
  <2>2. QED
    BY <1>2, <1>5, <1>6, <2>1 DEF Healthy, Calculated, Booked, Account
<1>9. TaskInv(t)'
  <2>1. TaskInv(t) /\ \A e \in entries : e.task # t
    BY <1>2 DEF LedgerInv, TaskInv
  <2>2. \A kind : TotalOf(t, kind) = 0
    BY <2>1, NoneOfKind
  <2>3. \A e \in entries' : e.task = t => e = Entry(k, "REWARD_RESERVE", n, t)
    BY <1>1, <2>1
  <2>4. Entry(k, "REWARD_RESERVE", n, t).kind = "REWARD_RESERVE"
    BY DEF Entry
  <2>5. OfTask(t, "REWARD_PAYMENT")' = {}
    BY <2>3, <2>4 DEF OfTask
  <2>6. /\ TotalOf(t, "REWARD_PAYMENT")' = 0 /\ TotalOf(t, "REWARD_RESERVE")' = n
        /\ TotalOf(t, "REWARD_CANCELLED")' = 0 /\ TotalOf(t, "TREASURY_RETENTION")' = 0
    BY <1>2, <1>5, <1>6, <2>2
  <2>7. allocations'[t].reserved = n /\ allocations'[t].paid = 0 /\ allocations'[t].status = "Reserved"
    BY <1>3, <1>4, <2>1, <2>2 DEF TaskInv
  <2>8. BudgetOf[t] \in Nat
    BY BudgetIsNumber
  <2>9. QED
    BY <1>2, <2>3, <2>4, <2>5, <2>6, <2>7, <2>8 DEF TaskInv
<1>10. QED
  <2> DEFINE S == {Entry(k, "REWARD_RESERVE", n, t)}
  <2>1. S \subseteq LedgerEntry /\ \A e \in S : e.task = t
    BY <1>2 DEF Entry, LedgerEntry, Kinds
  <2>2. entries' = entries \cup S
    BY <1>1
  <2> HIDE DEF S
  <2>3. QED
    BY <1>2, <1>3, <1>5, <1>7, <1>8, <1>9, <2>1, <2>2, CommandStep

\* A payment ends what is reserved as paid and retained, in one entry or two.
LEMMA PayStep ==
    ASSUME LedgerInv, NEW k \in Keys, NEW t \in Tasks, NEW bps \in Rates, PayReward(k, t, bps)
    PROVE  LedgerInv'
<1> DEFINE gross == allocations[t].reserved
           retained == Retained(gross, bps)
           net == gross - retained
           P == Entry(k, "REWARD_PAYMENT", net, t)
           R == Entry(k, "TREASURY_RETENTION", retained, t)
           S == {P} \cup (IF retained > 0 THEN {R} ELSE {})
           a == [status |-> "Paid", proposed |-> allocations[t].proposed,
                 reserved |-> 0, paid |-> allocations[t].paid + net]
<1>1. /\ Fresh(k) /\ entries' = entries \cup S
      /\ account' = Booked(0, 0, -gross, net, retained) /\ gross <= account.reserved
      /\ allocations' = [allocations EXCEPT ![t] = a]
      /\ allocations[t].status = "Reserved"
  BY DEF PayReward, Allocated
<1>2. allocations[t] \in Allocation /\ account \in Account /\ gross \in Nat /\ bps \in 0..10000
  <2>1. allocations[t] \in Allocation /\ account \in Account
    BY DEF LedgerInv, LedgerTypeOK
  <2>2. gross \in Nat
    BY <2>1 DEF Allocation
  <2>3. bps \in 0..10000
    BY LedgerAssumption
  <2>4. QED
    BY <2>1, <2>2, <2>3
<1> HIDE DEF gross
<1>3. retained \in Nat /\ retained <= gross
  <2>1. gross \in Nat /\ bps \in Nat /\ bps <= 10000
    BY <1>2
  <2>2. Retained(gross, bps) \in Nat /\ Retained(gross, bps) <= gross
    BY <2>1, RetainedIsPart
  <2>3. QED
    BY <2>2
<1>4. net \in Nat /\ net + retained = gross
  BY <1>2, <1>3
<1>5. /\ a \in Allocation /\ allocations'[t] = a
      /\ a.status = "Paid" /\ a.reserved = 0 /\ a.paid = allocations[t].paid + net
  <2>1. a \in Allocation
    BY <1>2, <1>4 DEF Allocation
  <2>2. QED
    BY <1>1, <2>1, OneAllocation DEF LedgerInv
<1>6. /\ P.task = t /\ P.kind = "REWARD_PAYMENT" /\ P.key = k /\ P.amount = net
      /\ R.task = t /\ R.kind = "TREASURY_RETENTION" /\ R.key = k /\ R.amount = retained
      /\ P \in LedgerEntry /\ R \in LedgerEntry
  BY <1>3, <1>4 DEF Entry, LedgerEntry, Kinds
<1>7. IsFiniteSet(Units(entries)) /\ \A e \in entries : e.key # k
  BY <1>1 DEF LedgerInv, Fresh
<1> HIDE DEF retained, net, a
<1>8. /\ IsFiniteSet(Units(entries'))
      /\ KindTotal(entries', "REWARD_PAYMENT") = KindTotal(entries, "REWARD_PAYMENT") + net
      /\ KindTotal(entries', "TREASURY_RETENTION") = KindTotal(entries, "TREASURY_RETENTION") + retained
      /\ TaskTotal(entries', t, "REWARD_PAYMENT") = TaskTotal(entries, t, "REWARD_PAYMENT") + net
      /\ TaskTotal(entries', t, "TREASURY_RETENTION") = TaskTotal(entries, t, "TREASURY_RETENTION") + retained
      /\ \A other : other \notin {"REWARD_PAYMENT", "TREASURY_RETENTION"} =>
           /\ KindTotal(entries', other) = KindTotal(entries, other)
           /\ TaskTotal(entries', t, other) = TaskTotal(entries, t, other)
  <2> DEFINE A == entries \cup {P}
             B == A \cup {R}
  <2>1. entries' = IF retained > 0 THEN B ELSE A
    BY <1>1
  <2>2. A = entries \cup {P} /\ P \notin entries /\ net \in Nat
    BY <1>4, <1>6, <1>7
  <2>3. B = A \cup {R} /\ R \notin A /\ retained \in Nat
    <3>1. R # P
      BY <1>6
    <3>2. R \notin entries
      BY <1>6, <1>7
    <3>3. QED
      BY <1>3, <3>1, <3>2
  <2> HIDE DEF A, B, P, R, S
  <2>4. Adds(entries, A, P)
    <3>1. P.amount \in Nat
      BY <1>6, <2>2
    <3>2. Adds(entries, entries \cup {P}, P)
      BY <1>7, <2>2, <3>1, Posted, Zenon
    <3>3. QED
      BY <2>2, <3>2, Zenon
  <2>5. Adds(A, B, R)
    <3>1. R.amount \in Nat /\ IsFiniteSet(Units(A))
      BY <1>6, <2>3, <2>4 DEF Adds
    <3>2. Adds(A, A \cup {R}, R)
      BY <2>3, <3>1, Posted, Zenon
    <3>3. QED
      BY <2>3, <3>2, Zenon
  <2>6. \A kind : KindTotal(entries, kind) \in Nat /\ TaskTotal(entries, t, kind) \in Nat
    BY <1>7, TotalsAreNumbers
  <2>7. CASE retained > 0
    <3>1. entries' = B
      BY <2>1, <2>7
    <3>2. QED
      BY <1>6, <2>4, <2>5, <3>1 DEF Adds
  <2>8. CASE ~(retained > 0)
    <3>1. entries' = A /\ retained = 0
      BY <2>1, <2>3, <2>8
    <3>2. QED
      BY <1>6, <2>4, <2>6, <3>1 DEF Adds
  <2>9. QED
    BY <2>7, <2>8
<1>9. /\ \A kind : Total(kind) = KindTotal(entries, kind) /\ Total(kind)' = KindTotal(entries', kind)
      /\ \A kind : TotalOf(t, kind) = TaskTotal(entries, t, kind) /\ TotalOf(t, kind)' = TaskTotal(entries', t, kind)
  BY DEF Total, KindTotal, Of, TotalOf, TaskTotal, OfTask
<1>10. account' \in Account
  BY <1>1, <1>2, <1>3, <1>4 DEF Booked, Account
<1>11. Healthy'
  <2>1. Healthy /\ \A kind : Total(kind) \in Nat
    BY TotalsTyped DEF LedgerInv
  <2>2. /\ Total("TREASURY_FUNDING")' = Total("TREASURY_FUNDING")
        /\ Total("REWARD_RESERVE")' = Total("REWARD_RESERVE")
        /\ Total("REWARD_CANCELLED")' = Total("REWARD_CANCELLED")
        /\ Total("REWARD_PAYMENT")' = Total("REWARD_PAYMENT") + net
        /\ Total("TREASURY_RETENTION")' = Total("TREASURY_RETENTION") + retained
    BY <1>8, <1>9
  <2>3. /\ net \in Nat /\ retained \in Nat /\ net + retained = gross /\ gross \in Nat
        /\ account \in Account /\ account' = Booked(0, 0, -gross, net, retained)
    BY <1>1, <1>2, <1>3, <1>4
  <2>4. account' = [funded |-> account.funded, available |-> account.available,
                    reserved |-> account.reserved - gross, paid |-> account.paid + net,
                    retained |-> account.retained + retained]
    BY <2>3 DEF Booked, Account
  <2>5. QED
    BY <2>1, <2>2, <2>3, <2>4 DEF Healthy, Calculated
<1>12. TaskInv(t)'
  <2>1. TaskInv(t) /\ \A e \in entries : e.task = t => e.kind = "REWARD_RESERVE"
    BY <1>1 DEF LedgerInv, TaskInv
  <2>2. /\ TotalOf(t, "REWARD_PAYMENT") = 0 /\ TotalOf(t, "TREASURY_RETENTION") = 0
        /\ TotalOf(t, "REWARD_CANCELLED") = 0
    BY <2>1, NoneOfKind
  <2>3. /\ TotalOf(t, "REWARD_PAYMENT")' = net /\ TotalOf(t, "TREASURY_RETENTION")' = retained
        /\ TotalOf(t, "REWARD_CANCELLED")' = 0
        /\ TotalOf(t, "REWARD_RESERVE")' = TotalOf(t, "REWARD_RESERVE")
    BY <1>3, <1>4, <1>8, <1>9, <2>2
  <2>4. \A e \in entries' : e.task = t => e \in entries \/ e = P \/ e = R
    BY <1>1
  <2> HIDE DEF P, R, S
  <2>5. \A e, f \in entries' : e.task = t /\ f.task = t /\ e.kind = f.kind => e = f
    BY <1>6, <2>1, <2>4 DEF TaskInv
  <2>6. OfTask(t, "REWARD_CANCELLED")' = {}
    BY <1>6, <2>1, <2>4 DEF OfTask
  <2>7. gross = TotalOf(t, "REWARD_RESERVE") /\ gross <= BudgetOf[t] /\ allocations[t].paid = 0
    <3>1. TotalOf(t, "REWARD_RESERVE") \in Nat
      BY TotalsTyped
    <3>2. QED
      BY <2>1, <2>2, <3>1 DEF TaskInv, gross
  <2>8. allocations'[t].reserved = 0 /\ allocations'[t].paid = net /\ allocations'[t].status = "Paid"
    BY <1>4, <1>5, <2>7
  <2>9. BudgetOf[t] \in Nat
    BY BudgetIsNumber
  <2>10. /\ allocations'[t].reserved = TotalOf(t, "REWARD_RESERVE")' - TotalOf(t, "REWARD_CANCELLED")'
              - TotalOf(t, "REWARD_PAYMENT")' - TotalOf(t, "TREASURY_RETENTION")'
         /\ TotalOf(t, "REWARD_PAYMENT")' + TotalOf(t, "TREASURY_RETENTION")' <= BudgetOf[t]
         /\ allocations'[t].reserved <= BudgetOf[t]
    BY <1>2, <1>3, <1>4, <2>3, <2>7, <2>8, <2>9
  <2>11. QED
    BY <2>3, <2>5, <2>6, <2>8, <2>10 DEF TaskInv
<1>13. S \subseteq LedgerEntry /\ \A e \in S : e.task = t
  BY <1>6
<1> HIDE DEF S
<1>14. QED
  <2>1. IsFiniteSet(Units(entries')) /\ entries' = entries \cup S
    BY <1>1, <1>8
  <2>2. allocations' = [allocations EXCEPT ![t] = a] /\ a \in Allocation
    BY <1>1, <1>5
  <2>3. QED
    BY <1>10, <1>11, <1>12, <1>13, <2>1, <2>2, CommandStep

\* A cancellation gives back what is reserved, in an entry if it is something.
LEMMA CancelStep ==
    ASSUME LedgerInv, NEW k \in Keys, NEW t \in Tasks, CancelReward(k, t)
    PROVE  LedgerInv'
<1> DEFINE n == allocations[t].reserved
           C == Entry(k, "REWARD_CANCELLED", n, t)
           S == IF n > 0 THEN {C} ELSE {}
           a == [status |-> "Cancelled", proposed |-> allocations[t].proposed,
                 reserved |-> 0, paid |-> allocations[t].paid]
<1>1. /\ Fresh(k) /\ entries' = entries \cup S
      /\ account' = Booked(0, n, -n, 0, 0) /\ n <= account.reserved
      /\ allocations' = [allocations EXCEPT ![t] = a]
      /\ allocations[t].status \notin {"None", "Paid", "Cancelled"}
  BY DEF CancelReward, Allocated
<1>2. allocations[t] \in Allocation /\ account \in Account /\ n \in Nat
  BY DEF LedgerInv, LedgerTypeOK, Allocation
<1>3. /\ a \in Allocation /\ allocations'[t] = a
      /\ a.status = "Cancelled" /\ a.reserved = 0 /\ a.paid = allocations[t].paid
  <2>1. a \in Allocation
    BY <1>2 DEF Allocation
  <2>2. QED
    BY <1>1, <2>1, OneAllocation DEF LedgerInv
<1>4. /\ C.task = t /\ C.kind = "REWARD_CANCELLED" /\ C.amount = n
      /\ C \notin entries /\ C \in LedgerEntry
  BY <1>1, <1>2 DEF Fresh, Entry, LedgerEntry, Kinds
<1> HIDE DEF n, a
<1>5. /\ IsFiniteSet(Units(entries'))
      /\ KindTotal(entries', "REWARD_CANCELLED") = KindTotal(entries, "REWARD_CANCELLED") + n
      /\ TaskTotal(entries', t, "REWARD_CANCELLED") = TaskTotal(entries, t, "REWARD_CANCELLED") + n
      /\ \A other : other # "REWARD_CANCELLED" => KindTotal(entries', other) = KindTotal(entries, other)
      /\ \A other : other # "REWARD_CANCELLED" => TaskTotal(entries', t, other) = TaskTotal(entries, t, other)
  <2>1. IsFiniteSet(Units(entries)) /\ C.amount \in Nat
    BY <1>2, <1>4 DEF LedgerInv
  <2>2. CASE n > 0
    <3>1. entries' = entries \cup {C}
      BY <1>1, <2>2
    <3> HIDE DEF C
    <3>2. Adds(entries, entries \cup {C}, C)
      BY <1>4, <2>1, Posted, Zenon
    <3>3. Adds(entries, entries', C)
      BY <3>1, <3>2, Zenon
    <3>4. QED
      BY <1>4, <3>3 DEF Adds
  <2>3. CASE ~(n > 0)
    <3>1. entries' = entries /\ n = 0
      BY <1>1, <1>2, <2>3
    <3>2. \A kind : KindTotal(entries, kind) \in Nat /\ TaskTotal(entries, t, kind) \in Nat
      BY <2>1, TotalsAreNumbers
    <3>3. QED
      BY <2>1, <3>1, <3>2
  <2>4. QED
    BY <2>2, <2>3
<1>6. /\ \A kind : Total(kind) = KindTotal(entries, kind) /\ Total(kind)' = KindTotal(entries', kind)
      /\ \A kind : TotalOf(t, kind) = TaskTotal(entries, t, kind) /\ TotalOf(t, kind)' = TaskTotal(entries', t, kind)
  BY DEF Total, KindTotal, Of, TotalOf, TaskTotal, OfTask
<1>7. account' \in Account
  BY <1>1, <1>2 DEF Booked, Account
<1>8. Healthy'
  <2>1. Healthy /\ \A kind : Total(kind) \in Nat
    BY TotalsTyped DEF LedgerInv
  <2>2. /\ Total("TREASURY_FUNDING")' = Total("TREASURY_FUNDING")
        /\ Total("REWARD_RESERVE")' = Total("REWARD_RESERVE")
        /\ Total("REWARD_CANCELLED")' = Total("REWARD_CANCELLED") + n
        /\ Total("REWARD_PAYMENT")' = Total("REWARD_PAYMENT")
        /\ Total("TREASURY_RETENTION")' = Total("TREASURY_RETENTION")
    BY <1>5, <1>6
  <2>3. account' = [funded |-> account.funded, available |-> account.available + n,
                    reserved |-> account.reserved - n, paid |-> account.paid,
                    retained |-> account.retained]
    BY <1>1, <1>2 DEF Booked, Account
  <2>4. QED
    BY <1>2, <2>1, <2>2, <2>3 DEF Healthy, Calculated
<1>9. TaskInv(t)'
  <2>1. TaskInv(t) /\ \A e \in entries : e.task = t => e.kind = "REWARD_RESERVE"
    BY <1>1, <1>2 DEF LedgerInv, TaskInv, Allocation
  <2>2. /\ TotalOf(t, "REWARD_PAYMENT") = 0 /\ TotalOf(t, "TREASURY_RETENTION") = 0
        /\ TotalOf(t, "REWARD_CANCELLED") = 0
    BY <2>1, NoneOfKind
  <2>3. /\ TotalOf(t, "REWARD_PAYMENT")' = 0 /\ TotalOf(t, "TREASURY_RETENTION")' = 0
        /\ TotalOf(t, "REWARD_CANCELLED")' = n
        /\ TotalOf(t, "REWARD_RESERVE")' = TotalOf(t, "REWARD_RESERVE")
    BY <1>2, <1>5, <1>6, <2>2
  <2>4. \A e \in entries' : e.task = t => e \in entries \/ e = C
    BY <1>1
  <2> HIDE DEF C, S
  <2>5. \A e, f \in entries' : e.task = t /\ f.task = t /\ e.kind = f.kind => e = f
    BY <1>4, <2>1, <2>4 DEF TaskInv
  <2>6. OfTask(t, "REWARD_PAYMENT")' = {}
    BY <1>4, <2>1, <2>4 DEF OfTask
  <2>7. n = TotalOf(t, "REWARD_RESERVE") /\ allocations[t].paid = 0
    <3>1. TotalOf(t, "REWARD_RESERVE") \in Nat
      BY TotalsTyped
    <3>2. QED
      BY <2>1, <2>2, <3>1 DEF TaskInv, n
  <2>8. allocations'[t].reserved = 0 /\ allocations'[t].paid = 0 /\ allocations'[t].status = "Cancelled"
    BY <1>3, <2>7
  <2>9. BudgetOf[t] \in Nat
    BY BudgetIsNumber
  <2>10. /\ allocations'[t].reserved = TotalOf(t, "REWARD_RESERVE")' - TotalOf(t, "REWARD_CANCELLED")'
              - TotalOf(t, "REWARD_PAYMENT")' - TotalOf(t, "TREASURY_RETENTION")'
         /\ TotalOf(t, "REWARD_PAYMENT")' + TotalOf(t, "TREASURY_RETENTION")' <= BudgetOf[t]
         /\ allocations'[t].reserved <= BudgetOf[t]
    BY <1>2, <2>3, <2>7, <2>8, <2>9
  <2>11. QED
    BY <2>3, <2>5, <2>6, <2>8, <2>10 DEF TaskInv
<1>10. S \subseteq LedgerEntry /\ \A e \in S : e.task = t
  BY <1>4
<1> HIDE DEF S
<1>11. QED
  <2>1. IsFiniteSet(Units(entries')) /\ entries' = entries \cup S
    BY <1>1, <1>5
  <2>2. allocations' = [allocations EXCEPT ![t] = a] /\ a \in Allocation
    BY <1>1, <1>3
  <2>3. QED
    BY <1>7, <1>8, <1>9, <1>10, <2>1, <2>2, CommandStep

\* A new allocation has no entries and holds nothing.
LEMMA OpenStep ==
    ASSUME LedgerInv, NEW t \in Tasks, OpenAllocation(t), account' = account, entries' = entries
    PROVE  LedgerInv'
<1>1. /\ allocations[t].status \in {"None", "Pending"}
      /\ allocations' = [allocations EXCEPT ![t] =
            [status |-> "Pending", proposed |-> 0, reserved |-> 0, paid |-> 0]]
  BY DEF OpenAllocation, Pending
<1>2. QED
  BY <1>1, AllocationStep

\* Nothing of the ledger changes.
LEMMA NoStep ==
    ASSUME LedgerInv, UNCHANGED ledgerVars
    PROVE  LedgerInv'
<1>1. LedgerTypeOK' /\ Healthy' /\ IsFiniteSet(Units(entries))'
  BY NothingPosted DEF LedgerInv, ledgerVars, LedgerTypeOK, Healthy, Calculated
<1>2. \A t \in Tasks : TaskInv(t)'
  BY OtherTask DEF LedgerInv, ledgerVars
<1>3. QED
  BY <1>1, <1>2 DEF LedgerInv

\* A proposal reserves nothing.
LEMMA ProposeStep ==
    ASSUME LedgerInv, NEW t \in Tasks, NEW q \in Qualities, ProposeReward(t, q),
           account' = account, entries' = entries
    PROVE  LedgerInv'
<1>1. CASE allocations[t].status = "Pending"
  <2> DEFINE proposed == (BudgetOf[t] * q) \div 100
  <2>1. proposed \in Nat
    <3>1. \A x \in Nat : x \div 100 \in Nat
      OBVIOUS
    <3>2. BudgetOf[t] \in Nat
      BY BudgetIsNumber
    <3>3. q \in 0..100
      BY LedgerAssumption
    <3>4. q \in Nat
      BY <3>3
    <3>5. \A x, y \in Nat : x * y \in Nat
      OBVIOUS
    <3>6. QED
      BY <3>1, <3>2, <3>5, <3>4
  <2>2. allocations' = [allocations EXCEPT ![t] =
            [status |-> "Proposed", proposed |-> proposed, reserved |-> 0, paid |-> 0]]
    BY <1>1 DEF ProposeReward
  <2> HIDE DEF proposed
  <2>3. QED
    BY <1>1, <2>1, <2>2, AllocationStep
<1>2. CASE allocations[t].status # "Pending"
  BY <1>2, NoStep DEF ProposeReward, ledgerVars
<1>3. QED
  BY <1>1, <1>2

-----------------------------------------------------------------------------
(* The theorem *)

\* Every state of the Treasury satisfies the inductive invariant.
LEMMA LedgerInvariant == LedgerSpec => []LedgerInv
<1>1. LedgerInv /\ [LedgerNext]_ledgerVars => LedgerInv'
  <2> SUFFICES ASSUME LedgerInv, [LedgerNext]_ledgerVars PROVE LedgerInv'
    OBVIOUS
  <2>1. CASE \E t \in Tasks : OpenAllocation(t) /\ UNCHANGED <<account, entries>>
    BY <2>1, OpenStep
  <2>2. CASE \E t \in Tasks, q \in Qualities : ProposeReward(t, q) /\ UNCHANGED <<account, entries>>
    BY <2>2, ProposeStep
  <2>3. CASE \E k \in Keys, n \in Amounts : FundTreasury(k, n)
    BY <2>3, FundStep
  <2>4. CASE \E k \in Keys, t \in Tasks : \E n \in 0..BudgetOf[t] : ReserveReward(k, t, n)
    BY <2>4, ReserveStep
  <2>5. CASE \E k \in Keys, t \in Tasks, bps \in Rates : PayReward(k, t, bps)
    BY <2>5, PayStep
  <2>6. CASE \E k \in Keys, t \in Tasks : CancelReward(k, t)
    BY <2>6, CancelStep
  <2>7. CASE UNCHANGED ledgerVars
    BY <2>7, NoStep
  <2>8. QED
    BY <2>1, <2>2, <2>3, <2>4, <2>5, <2>6, <2>7 DEF LedgerNext
<1>2. QED
  BY <1>1, LedgerInitInv, PTL DEF LedgerSpec

\* The books balance after every command, whatever the amounts, budgets and
\* rates; the entries tell every allocation; and a reward ends once.
THEOREM LedgerSafe ==
    LedgerSpec => [](LedgerTypeOK /\ Healthy /\ EntriesTellAllocations /\ RewardEndsOnce)
<1>1. LedgerInv => LedgerTypeOK /\ Healthy /\ EntriesTellAllocations /\ RewardEndsOnce
  BY DEF LedgerInv, TaskInv, EntriesTellAllocations, RewardEndsOnce
<1>2. QED
  BY <1>1, LedgerInvariant, PTL

\* The entries of a Task tell its allocation (_insert_ledger and the updates
\* beside it).
THEOREM EntriesTell == LedgerSpec => []EntriesTellAllocations
BY LedgerSafe, PTL

\* A reward is reserved, paid or cancelled once, whichever key it comes with.
THEOREM RewardsEndOnce == LedgerSpec => []RewardEndsOnce
BY LedgerSafe, PTL

\* No balance and no allocation is ever negative or out of its vocabulary.
THEOREM LedgerTypes == LedgerSpec => []LedgerTypeOK
BY LedgerSafe, PTL

-----------------------------------------------------------------------------
(* The workflow and the ledger *)

\* Moves never lead out of a final status, nor back to a draft.
LEMMA AllowedMoves ==
    ASSUME NEW s \in Statuses, NEW target \in Allowed[s]
    PROVE  /\ target \in Statuses \ {"None", "DRAFT"}
           /\ s \notin {"None", "COMPLETED", "REJECTED", "CANCELLED"}
BY DEF Statuses, Allowed

\* Every workflow step is a command of the ledger, or leaves it alone.
LEMMA WorkflowStepMovesLedger ==
    ASSUME [WorkflowNext]_workflowVars
    PROVE  [LedgerNext]_ledgerVars
<1>1. ASSUME NEW t \in Tasks, NEW a \in Agents, AgentCommand(t, a)
      PROVE  [LedgerNext]_ledgerVars
  <2>1. CASE CreateTask(t, a)
    BY <2>1 DEF CreateTask, LedgerNext
  <2>2. CASE AssignExecutive(t, a) \/ CreateSubtask(t, a) \/ AssignMembership(t, a) \/ LoseMembership(t, a)
    BY <2>2 DEF AssignExecutive, CreateSubtask, AssignMembership, LoseMembership
  <2>3. CASE \E changes \in BOOLEAN : SubmitReview(t, a, changes)
    BY <2>3 DEF SubmitReview
  <2>4. CASE \E result \in {"PASS", "FAIL"} : RecordAudit(t, a, result)
    BY <2>4 DEF RecordAudit
  <2>5. QED
    BY <1>1, <2>1, <2>2, <2>3, <2>4 DEF AgentCommand
<1>2. ASSUME NEW t \in Tasks, NEW who, NEW target, TransitionTask(t, who, target)
      PROVE  [LedgerNext]_ledgerVars
  BY <1>2 DEF TransitionTask
<1>3. ASSUME NEW t \in Tasks, NEW quality \in Qualities, EvaluateTask(t, quality)
      PROVE  [LedgerNext]_ledgerVars
  <2>1. CASE allocations[t].status = "Pending"
    BY <1>3, <2>1 DEF EvaluateTask, LedgerNext
  <2>2. CASE allocations[t].status # "Pending"
    BY <1>3, <2>2 DEF EvaluateTask, ProposeReward, ledgerVars
  <2>3. QED
    BY <2>1, <2>2
<1>4. ASSUME NEW i \in ApprovalIds, NEW decision, DecideCompletion(i, decision)
      PROVE  [LedgerNext]_ledgerVars
  BY <1>4 DEF DecideCompletion
<1>5. ASSUME NEW i \in ApprovalIds, NEW decision, NEW k \in Keys, NEW n \in 0..BudgetOf[i.task],
             DecideReward(i, decision, k, n)
      PROVE  [LedgerNext]_ledgerVars
  <2>1. i.task \in Tasks
    BY DEF ApprovalIds
  <2>2. CASE ReserveReward(k, i.task, n)
    BY <2>1, <2>2 DEF LedgerNext
  <2>3. CASE CancelReward(k, i.task)
    BY <2>1, <2>3 DEF LedgerNext
  <2>4. CASE UNCHANGED ledgerVars
    BY <2>4
  <2>5. QED
    BY <1>5, <2>2, <2>3, <2>4 DEF DecideReward
<1>6. ASSUME NEW k \in Keys, \/ \E n \in Amounts : FundTreasury(k, n)
                             \/ \E t \in Tasks, bps \in Rates : PayReward(k, t, bps)
      PROVE  [LedgerNext]_ledgerVars
  BY <1>6 DEF LedgerNext
<1>7. CASE UNCHANGED workflowVars
  BY <1>7 DEF workflowVars
<1>8. QED
  BY <1>1, <1>2, <1>3, <1>4, <1>5, <1>6, <1>7 DEF WorkflowNext

\* The workflow is a client of the ledger, whatever the order of its commands.
THEOREM WorkflowMovesLedger == WorkflowSpec => OneLedgerCommand
<1>1. WorkflowInit => LedgerInit
  BY DEF WorkflowInit
<1>2. [WorkflowNext]_workflowVars => [LedgerNext]_ledgerVars
  BY WorkflowStepMovesLedger
<1>3. QED
  BY <1>1, <1>2, PTL DEF WorkflowSpec, LedgerSpec, OneLedgerCommand

\* The balances, the allocations and the entries agree in every state of the
\* workflow: it inherits what holds of the ledger.
THEOREM WorkflowKeepsBooks ==
    WorkflowSpec => [](LedgerTypeOK /\ Healthy /\ EntriesTellAllocations /\ RewardEndsOnce)
BY WorkflowMovesLedger, LedgerSafe, PTL DEF OneLedgerCommand

-----------------------------------------------------------------------------
(* The inductive invariant of the workflow.  It connects the tables: an      *)
(* approval exists only for an audit that passed, and what is new about a    *)
(* Task nobody has reviewed, audited or rewarded.                            *)

TaskTypeOK ==
    /\ status \in [Tasks -> Statuses]
    /\ executive \in [Tasks -> Agents \cup {NoAgent}] /\ payee \in [Tasks -> Agents \cup {NoAgent}]
    /\ members \in [Tasks -> SUBSET Agents] /\ reviewers \in [Tasks -> SUBSET Agents]
    /\ audits \in [Tasks -> Seq([auditor : Agents, result : {"PASS", "FAIL"}])]
    /\ evaluated \subseteq Tasks
    /\ approvals \in [ApprovalIds -> Decisions \cup {"None", "OPEN"}]

ApprovalsFollowAudits == \A i \in ApprovalIds : approvals[i] # "None" => Passed(i.task, i.audit)

NewTasksAreNew == \A t \in Tasks :
    /\ status[t] \in {"None", "DRAFT"} => reviewers[t] = {} /\ audits[t] = <<>>
    /\ status[t] = "None" <=> allocations[t].status = "None"
    /\ status[t] = "DRAFT" => allocations[t].status = "Pending"

WorkflowInv ==
    /\ TaskTypeOK /\ ApprovalsFollowAudits /\ NewTasksAreNew
    /\ RewardWasDecided /\ CompletionStands /\ HandsApart

\* Nothing is created yet.
LEMMA WorkflowInitInv == WorkflowInit => WorkflowInv
<1> SUFFICES ASSUME WorkflowInit PROVE WorkflowInv
  OBVIOUS
<1>1. TaskTypeOK
  BY DEF WorkflowInit, TaskTypeOK, Statuses, Allowed
<1>2. ApprovalsFollowAudits
  BY DEF WorkflowInit, ApprovalsFollowAudits
<1>3. NewTasksAreNew
  BY DEF WorkflowInit, NewTasksAreNew, LedgerInit, Unopened
<1>4. RewardWasDecided
  BY DEF WorkflowInit, RewardWasDecided, LedgerInit, Unopened
<1>5. CompletionStands
  BY DEF WorkflowInit, CompletionStands, ApprovalIds, Completion
<1>6. HandsApart
  BY DEF WorkflowInit, HandsApart
<1>7. QED
  BY <1>1, <1>2, <1>3, <1>4, <1>5, <1>6 DEF WorkflowInv

\* The approvals of one audit of one Task.
LEMMA ApprovalIdsOf ==
    ASSUME NEW t \in Tasks, NEW n \in 1..MaxAudits
    PROVE  /\ Completion(t, n) \in ApprovalIds /\ Reward(t, n) \in ApprovalIds
           /\ Completion(t, n).task = t /\ Completion(t, n).audit = n
           /\ Completion(t, n).kind = "TASK_COMPLETION"
           /\ Reward(t, n).task = t /\ Reward(t, n).audit = n /\ Reward(t, n).kind = "REWARD"
BY DEF ApprovalIds, Completion, Reward

\* A Task is created with its Executive, or assigned another while a draft.
LEMMA CreateTaskKeeps ==
    ASSUME WorkflowInv, LedgerTypeOK, NEW t \in Tasks, NEW a \in Agents, CreateTask(t, a)
    PROVE  WorkflowInv'
<1>1. /\ status[t] = "None" /\ status' = [status EXCEPT ![t] = "DRAFT"]
      /\ executive' = [executive EXCEPT ![t] = a] /\ payee' = [payee EXCEPT ![t] = a]
      /\ members' = [members EXCEPT ![t] = {a}]
      /\ allocations' = [allocations EXCEPT ![t] = Pending]
      /\ UNCHANGED <<reviewers, audits, evaluated, approvals>>
  BY DEF CreateTask, Move, OpenAllocation, verdictVars
<1>2. TaskTypeOK'
  BY <1>1 DEF WorkflowInv, TaskTypeOK, Statuses, Allowed
<1>3. ApprovalsFollowAudits'
  BY <1>1 DEF WorkflowInv, ApprovalsFollowAudits, Passed
<1>4. NewTasksAreNew'
  BY <1>1 DEF WorkflowInv, TaskTypeOK, NewTasksAreNew, LedgerTypeOK, Pending
<1>5. RewardWasDecided'
  BY <1>1 DEF WorkflowInv, RewardWasDecided, Passed, LedgerTypeOK, Pending
<1>6. CompletionStands'
  BY <1>1 DEF WorkflowInv, TaskTypeOK, CompletionStands
<1>7. HandsApart'
  BY <1>1 DEF WorkflowInv, TaskTypeOK, HandsApart, NewTasksAreNew
<1>8. QED
  BY <1>2, <1>3, <1>4, <1>5, <1>6, <1>7 DEF WorkflowInv

\* Only a draft is assigned again, so nobody has reviewed or audited it.
LEMMA AssignKeeps ==
    ASSUME WorkflowInv, LedgerTypeOK, NEW t \in Tasks, NEW a \in Agents, AssignExecutive(t, a)
    PROVE  WorkflowInv'
<1>1. /\ status[t] = "DRAFT" /\ executive' = [executive EXCEPT ![t] = a]
      /\ members' = [members EXCEPT ![t] = {a}]
      /\ payee' = IF allocations[t].status = "Pending" THEN [payee EXCEPT ![t] = a] ELSE payee
      /\ UNCHANGED <<status, reviewers, audits, evaluated, approvals, allocations>>
  BY DEF AssignExecutive, verdictVars, ledgerVars
<1>2. TaskTypeOK'
  BY <1>1 DEF WorkflowInv, TaskTypeOK
<1>3. ApprovalsFollowAudits'
  BY <1>1 DEF WorkflowInv, ApprovalsFollowAudits, Passed
<1>4. NewTasksAreNew'
  BY <1>1 DEF WorkflowInv, TaskTypeOK, NewTasksAreNew, LedgerTypeOK
<1>5. RewardWasDecided'
  BY <1>1 DEF WorkflowInv, RewardWasDecided, Passed, LedgerTypeOK
<1>6. CompletionStands'
  BY <1>1 DEF WorkflowInv, TaskTypeOK, CompletionStands
<1>7. HandsApart'
  BY <1>1 DEF WorkflowInv, TaskTypeOK, HandsApart, NewTasksAreNew
<1>8. QED
  BY <1>2, <1>3, <1>4, <1>5, <1>6, <1>7 DEF WorkflowInv

\* Memberships decide who may act, and nothing after it.
LEMMA MembersKeep ==
    ASSUME WorkflowInv, LedgerTypeOK, members' \in [Tasks -> SUBSET Agents],
           UNCHANGED <<status, executive, payee, verdictVars, ledgerVars>>
    PROVE  WorkflowInv'
<1>1. UNCHANGED <<status, executive, payee, reviewers, audits, evaluated, approvals, allocations>>
  BY DEF verdictVars, ledgerVars
<1>2. TaskTypeOK'
  BY <1>1 DEF WorkflowInv, TaskTypeOK
<1>3. ApprovalsFollowAudits'
  BY <1>1 DEF WorkflowInv, ApprovalsFollowAudits, Passed
<1>4. NewTasksAreNew'
  BY <1>1 DEF WorkflowInv, TaskTypeOK, NewTasksAreNew, LedgerTypeOK
<1>5. RewardWasDecided'
  BY <1>1 DEF WorkflowInv, RewardWasDecided, Passed, LedgerTypeOK
<1>6. CompletionStands'
  BY <1>1 DEF WorkflowInv, TaskTypeOK, CompletionStands
<1>7. HandsApart'
  BY <1>1 DEF WorkflowInv, TaskTypeOK, HandsApart, NewTasksAreNew
<1>8. QED
  BY <1>2, <1>3, <1>4, <1>5, <1>6, <1>7 DEF WorkflowInv

\* A move by hand leaves final statuses alone and completes what was evaluated.
LEMMA TransitionKeeps ==
    ASSUME WorkflowInv, LedgerTypeOK, NEW t \in Tasks, NEW who, NEW target,
           TransitionTask(t, who, target)
    PROVE  WorkflowInv'
<1>1. /\ target \in Allowed[status[t]] /\ (target = "COMPLETED" => t \in evaluated)
      /\ status' = [status EXCEPT ![t] = target] /\ status[t] \in Statuses
      /\ UNCHANGED <<executive, payee, members, reviewers, audits, evaluated, approvals, allocations>>
  BY DEF TransitionTask, Move, May, assignVars, verdictVars, ledgerVars, WorkflowInv, TaskTypeOK
<1>2. /\ target \in Statuses \ {"None", "DRAFT"}
      /\ status[t] \notin {"None", "COMPLETED", "REJECTED", "CANCELLED"}
  BY <1>1, AllowedMoves
<1>3. TaskTypeOK'
  BY <1>1, <1>2 DEF WorkflowInv, TaskTypeOK
<1>4. ApprovalsFollowAudits'
  BY <1>1 DEF WorkflowInv, ApprovalsFollowAudits, Passed
<1>5. NewTasksAreNew'
  BY <1>1, <1>2 DEF WorkflowInv, TaskTypeOK, NewTasksAreNew
<1>6. RewardWasDecided'
  BY <1>1 DEF WorkflowInv, RewardWasDecided, Passed, LedgerTypeOK
<1>7. CompletionStands'
  BY <1>1, <1>2 DEF WorkflowInv, TaskTypeOK, CompletionStands
<1>8. HandsApart'
  BY <1>1 DEF WorkflowInv, TaskTypeOK, HandsApart, NewTasksAreNew
<1>9. QED
  BY <1>3, <1>4, <1>5, <1>6, <1>7, <1>8 DEF WorkflowInv

\* A review is not the Executive's.
LEMMA ReviewKeeps ==
    ASSUME WorkflowInv, LedgerTypeOK, NEW t \in Tasks, NEW a \in Agents, NEW changes \in BOOLEAN,
           SubmitReview(t, a, changes)
    PROVE  WorkflowInv'
<1>1. /\ status[t] = "REVIEW" /\ a # executive[t]
      /\ status' = [status EXCEPT ![t] = IF changes THEN "REWORK" ELSE "AUDIT"]
      /\ reviewers' = [reviewers EXCEPT ![t] = @ \cup {a}]
      /\ UNCHANGED <<executive, payee, members, audits, evaluated, approvals, allocations>>
  BY DEF SubmitReview, Independent, Move, assignVars, ledgerVars
<1>2. TaskTypeOK'
  BY <1>1 DEF WorkflowInv, TaskTypeOK, Statuses, Allowed
<1>3. ApprovalsFollowAudits'
  BY <1>1 DEF WorkflowInv, ApprovalsFollowAudits, Passed
<1>4. NewTasksAreNew'
  BY <1>1 DEF WorkflowInv, TaskTypeOK, NewTasksAreNew, LedgerTypeOK
<1>5. RewardWasDecided'
  BY <1>1 DEF WorkflowInv, RewardWasDecided, Passed, LedgerTypeOK
<1>6. CompletionStands'
  BY <1>1 DEF WorkflowInv, TaskTypeOK, CompletionStands
<1>7. HandsApart'
  BY <1>1 DEF WorkflowInv, TaskTypeOK, HandsApart, NewTasksAreNew
<1>8. QED
  BY <1>2, <1>3, <1>4, <1>5, <1>6, <1>7 DEF WorkflowInv

\* One evaluation, of a Task under the Owner's review.
LEMMA EvaluateKeeps ==
    ASSUME WorkflowInv, LedgerTypeOK, NEW t \in Tasks, NEW quality, EvaluateTask(t, quality)
    PROVE  WorkflowInv'
<1>1. /\ status[t] = "OWNER_REVIEW" /\ evaluated' = evaluated \cup {t}
      /\ UNCHANGED <<status, executive, payee, members, reviewers, audits, approvals>>
      /\ ProposeReward(t, quality)
  BY DEF EvaluateTask, assignVars
<1>2. TaskTypeOK'
  BY <1>1 DEF WorkflowInv, TaskTypeOK
<1>3. ApprovalsFollowAudits'
  BY <1>1 DEF WorkflowInv, ApprovalsFollowAudits, Passed
<1>4. NewTasksAreNew'
  BY <1>1 DEF WorkflowInv, TaskTypeOK, NewTasksAreNew, LedgerTypeOK, ProposeReward
<1>5. RewardWasDecided'
  BY <1>1 DEF WorkflowInv, RewardWasDecided, Passed, LedgerTypeOK, ProposeReward
<1>6. CompletionStands'
  BY <1>1 DEF WorkflowInv, TaskTypeOK, CompletionStands
<1>7. HandsApart'
  BY <1>1 DEF WorkflowInv, TaskTypeOK, HandsApart, NewTasksAreNew
<1>8. QED
  BY <1>2, <1>3, <1>4, <1>5, <1>6, <1>7 DEF WorkflowInv

\* An audit is not the Executive's, and only one that passes asks the Owner, under
\* numbers no earlier audit had.
LEMMA AuditKeeps ==
    ASSUME WorkflowInv, LedgerTypeOK, NEW t \in Tasks, NEW a \in Agents,
           NEW result \in {"PASS", "FAIL"}, RecordAudit(t, a, result)
    PROVE  WorkflowInv'
<1>1. SUFFICES ASSUME NEW n, n = Len(audits[t]) + 1
      PROVE  WorkflowInv'
  OBVIOUS
<1> DEFINE x == [auditor |-> a, result |-> result]
<1>2. /\ status[t] = "AUDIT" /\ a # executive[t] /\ n <= MaxAudits
      /\ status' = [status EXCEPT ![t] = IF result = "PASS" THEN "OWNER_REVIEW" ELSE "REWORK"]
      /\ audits' = [audits EXCEPT ![t] = Append(@, x)]
      /\ approvals' = Request(t, n, result)
      /\ UNCHANGED <<executive, payee, members, reviewers, evaluated, allocations>>
  BY <1>1 DEF RecordAudit, Independent, Move, assignVars, ledgerVars
<1>3. /\ audits \in [Tasks -> Seq([auditor : Agents, result : {"PASS", "FAIL"}])]
      /\ x \in [auditor : Agents, result : {"PASS", "FAIL"}]
  BY DEF WorkflowInv, TaskTypeOK
<1>4. /\ Len(audits[t]) \in Nat /\ DOMAIN audits[t] = 1..Len(audits[t])
      /\ audits'[t] = Append(audits[t], x)
      /\ \A u \in Tasks \ {t} : audits'[u] = audits[u]
  BY <1>2, <1>3
<1>5. /\ audits' \in [Tasks -> Seq([auditor : Agents, result : {"PASS", "FAIL"}])]
      /\ DOMAIN audits'[t] = 1..n /\ n \in DOMAIN audits'[t] /\ audits'[t][n] = x
      /\ \A m \in DOMAIN audits[t] : m \in DOMAIN audits'[t] /\ audits'[t][m] = audits[t][m]
  <2>1. audits[t] \in Seq([auditor : Agents, result : {"PASS", "FAIL"}])
    BY <1>3
  <2>2. Append(audits[t], x) \in Seq([auditor : Agents, result : {"PASS", "FAIL"}])
    BY <1>3, <2>1
  <2>3. audits' \in [Tasks -> Seq([auditor : Agents, result : {"PASS", "FAIL"}])]
    BY <1>2, <1>3, <2>2
  <2>4. Len(Append(audits[t], x)) = n /\ DOMAIN Append(audits[t], x) = 1..n
    BY <1>1, <1>3, <2>1
  <2>5. Append(audits[t], x)[n] = x /\ \A m \in 1..Len(audits[t]) : Append(audits[t], x)[m] = audits[t][m]
    BY <1>1, <1>3, <2>1
  <2>6. n \in 1..n /\ \A m \in 1..Len(audits[t]) : m \in 1..n
    BY <1>1, <1>4
  <2>7. QED
    BY <1>4, <2>3, <2>4, <2>5, <2>6
<1>6. n \in 1..MaxAudits
  BY <1>1, <1>2, <1>4, WorkflowAssumption
<1> HIDE DEF x
<1>7. /\ Completion(t, n) \in ApprovalIds /\ Reward(t, n) \in ApprovalIds
      /\ Completion(t, n).task = t /\ Completion(t, n).audit = n
      /\ Reward(t, n).task = t /\ Reward(t, n).audit = n
  BY <1>6, ApprovalIdsOf
<1>8. approvals' \in [ApprovalIds -> Decisions \cup {"None", "OPEN"}]
  BY <1>2, <1>7 DEF WorkflowInv, TaskTypeOK, Request
<1>9. \A i \in ApprovalIds : approvals'[i] # approvals[i] =>
           /\ approvals[i] = "None" /\ approvals'[i] = "OPEN"
           /\ i.task = t /\ i.audit = n /\ result = "PASS"
  <2>1. \A i \in ApprovalIds : i.task = t /\ i.audit = n => approvals[i] = "None"
    <3>1. n \notin DOMAIN audits[t]
      BY <1>1, <1>4
    <3>2. QED
      BY <3>1 DEF WorkflowInv, ApprovalsFollowAudits, Passed
  <2>2. approvals \in [ApprovalIds -> Decisions \cup {"None", "OPEN"}]
    BY DEF WorkflowInv, TaskTypeOK
  <2>3. QED
    BY <1>2, <1>7, <2>1, <2>2 DEF Request
<1>10. \A u \in Tasks : \A m : Passed(u, m) => Passed(u, m)'
  BY <1>4, <1>5 DEF Passed
<1>11. TaskTypeOK'
  BY <1>2, <1>5, <1>8 DEF WorkflowInv, TaskTypeOK, Statuses, Allowed
<1>12. ApprovalsFollowAudits'
  <2>1. result = "PASS" => Passed(t, n)'
    <3>1. x.result = result
      BY DEF x
    <3>2. QED
      BY <1>5, <3>1 DEF Passed
  <2>2. \A i \in ApprovalIds : i.task \in Tasks
    BY DEF ApprovalIds
  <2>3. SUFFICES ASSUME NEW i \in ApprovalIds, approvals'[i] # "None" PROVE Passed(i.task, i.audit)'
    BY DEF ApprovalsFollowAudits
  <2>4. CASE approvals'[i] = approvals[i]
    BY <1>10, <2>2, <2>3, <2>4 DEF WorkflowInv, ApprovalsFollowAudits
  <2>5. CASE approvals'[i] # approvals[i]
    BY <1>9, <2>1, <2>5 DEF Passed
  <2>6. QED
    BY <2>4, <2>5
<1>13. NewTasksAreNew'
  BY <1>2, <1>4 DEF WorkflowInv, TaskTypeOK, NewTasksAreNew
<1>14. RewardWasDecided'
  <2>1. \A u \in Tasks, m \in 1..MaxAudits : approvals[Reward(u, m)] = "APPROVE" => approvals'[Reward(u, m)] = "APPROVE"
    BY <1>9, ApprovalIdsOf
  <2>2. QED
    BY <1>2, <1>10, <2>1 DEF WorkflowInv, RewardWasDecided
<1>15. CompletionStands'
  <2>1. \A u \in Tasks, m \in 1..MaxAudits :
             approvals'[Completion(u, m)] \in {"APPROVE", "REJECT"} =>
             approvals'[Completion(u, m)] = approvals[Completion(u, m)]
    BY <1>9, ApprovalIdsOf
  <2>2. evaluated' = evaluated /\ \A u \in Tasks : status[u] = status'[u] \/
             {status[u], status'[u]} \cap {"COMPLETED", "REJECTED"} = {}
    <3>1. status \in [Tasks -> Statuses] /\ status[t] = "AUDIT" /\ evaluated' = evaluated
      BY <1>2 DEF WorkflowInv, TaskTypeOK
    <3> DEFINE next == IF result = "PASS" THEN "OWNER_REVIEW" ELSE "REWORK"
    <3>2. next \in {"OWNER_REVIEW", "REWORK"} /\ status' = [status EXCEPT ![t] = next]
      BY <1>2
    <3> HIDE DEF next
    <3>3. status'[t] = next /\ \A u \in Tasks \ {t} : status'[u] = status[u]
      BY <3>1, <3>2
    <3>4. {status[t], status'[t]} \cap {"COMPLETED", "REJECTED"} = {}
      BY <3>1, <3>2, <3>3
    <3>5. QED
      BY <3>1, <3>3, <3>4
  <2>3. ASSUME NEW u \in Tasks
        PROVE  status'[u] = "COMPLETED" => u \in evaluated
    BY <2>2 DEF WorkflowInv, CompletionStands
  <2>4. ASSUME NEW u \in Tasks, NEW m \in 1..MaxAudits
        PROVE  /\ approvals'[Completion(u, m)] = "APPROVE" => status'[u] = "COMPLETED"
               /\ approvals'[Completion(u, m)] = "REJECT" => status'[u] = "REJECTED"
    <3>1. /\ approvals[Completion(u, m)] = "APPROVE" => status[u] = "COMPLETED"
          /\ approvals[Completion(u, m)] = "REJECT" => status[u] = "REJECTED"
      BY DEF WorkflowInv, CompletionStands
    <3>2. QED
      BY <2>1, <2>2, <3>1
  <2>5. QED
    BY <2>2, <2>3, <2>4 DEF CompletionStands
<1>16. HandsApart'
  <2>1. \A m \in DOMAIN audits'[t] : m \in DOMAIN audits[t] \/ m = n
    BY <1>1, <1>4, <1>5
  <2>2. x.auditor = a
    BY DEF x
  <2>3. \A m \in DOMAIN audits'[t] : audits'[t][m].auditor # executive[t]
    BY <1>2, <1>5, <2>1, <2>2 DEF WorkflowInv, HandsApart
  <2>4. QED
    BY <1>2, <1>4, <2>3 DEF WorkflowInv, HandsApart
<1>17. QED
  BY <1>11, <1>12, <1>13, <1>14, <1>15, <1>16 DEF WorkflowInv

\* Every approval is that of one audit and one kind.
LEMMA ApprovalIdIs ==
    ASSUME NEW i \in ApprovalIds
    PROVE  /\ i.task \in Tasks /\ i.audit \in 1..MaxAudits
           /\ i.kind = "TASK_COMPLETION" => i = Completion(i.task, i.audit)
           /\ i.kind = "REWARD" => i = Reward(i.task, i.audit)
BY DEF ApprovalIds, Completion, Reward

\* A decision is taken once, on the ground of an audit that passed.
LEMMA DecisionIsNew ==
    ASSUME WorkflowInv, NEW i \in ApprovalIds, NEW decision \in Decisions,
           Undecided(i), Decide(i, decision), audits' = audits
    PROVE  /\ approvals' \in [ApprovalIds -> Decisions \cup {"None", "OPEN"}]
           /\ approvals'[i] = decision
           /\ \A j \in ApprovalIds \ {i} : approvals'[j] = approvals[j]
           /\ Passed(i.task, i.audit) /\ ApprovalsFollowAudits'
           /\ status[i.task] \notin {"None", "DRAFT"}
<1>1. /\ approvals \in [ApprovalIds -> Decisions \cup {"None", "OPEN"}]
      /\ approvals[i] = "OPEN" /\ approvals' = [approvals EXCEPT ![i] = decision]
  BY DEF WorkflowInv, TaskTypeOK, Undecided, Decide
<1>2. Passed(i.task, i.audit)
  BY <1>1 DEF WorkflowInv, ApprovalsFollowAudits
<1>3. ApprovalsFollowAudits'
  BY <1>1 DEF WorkflowInv, ApprovalsFollowAudits, Passed
<1>4. audits[i.task] # <<>>
  BY <1>2 DEF Passed
<1>5. status[i.task] \notin {"None", "DRAFT"}
  BY <1>4, ApprovalIdIs DEF WorkflowInv, NewTasksAreNew
<1>6. QED
  BY <1>1, <1>2, <1>3, <1>5

\* The Owner completes, returns or rejects a Task under review.
LEMMA DecideCompletionKeeps ==
    ASSUME WorkflowInv, LedgerTypeOK, NEW i \in ApprovalIds, NEW decision \in Decisions,
           DecideCompletion(i, decision)
    PROVE  WorkflowInv'
<1>1. SUFFICES ASSUME NEW t \in Tasks, t = i.task
      PROVE  WorkflowInv'
  BY ApprovalIdIs
<1>2. /\ Undecided(i) /\ Decide(i, decision) /\ i.kind = "TASK_COMPLETION"
      /\ status[t] = "OWNER_REVIEW" /\ (decision = "APPROVE" => t \in evaluated)
      /\ UNCHANGED <<executive, payee, members, reviewers, audits, evaluated, allocations>>
  BY <1>1 DEF DecideCompletion, assignVars, ledgerVars
<1>3. /\ status' \in [Tasks -> Statuses]
      /\ \A u \in Tasks \ {t} : status'[u] = status[u]
      /\ status'[t] \in {"OWNER_REVIEW", "COMPLETED", "REWORK", "REJECTED"}
      /\ decision = "APPROVE" <=> status'[t] = "COMPLETED"
      /\ decision = "REJECT" <=> status'[t] = "REJECTED"
  <2>1. status \in [Tasks -> Statuses]
    BY DEF WorkflowInv, TaskTypeOK
  <2>2. status' = [status EXCEPT ![t] = IF decision = "HOLD" THEN status[t] ELSE Verdict[decision]]
    BY <1>1 DEF DecideCompletion, Move
  <2>3. CASE decision = "HOLD"
    BY <1>2, <2>1, <2>2, <2>3
  <2>4. CASE decision = "APPROVE"
    BY <2>1, <2>2, <2>4 DEF Verdict, Statuses, Allowed
  <2>5. CASE decision = "REQUEST_CHANGES"
    BY <2>1, <2>2, <2>5 DEF Verdict, Statuses, Allowed
  <2>6. CASE decision = "REJECT"
    BY <2>1, <2>2, <2>6 DEF Verdict, Statuses, Allowed
  <2>7. QED
    BY <2>3, <2>4, <2>5, <2>6 DEF Decisions
<1>4. /\ approvals' \in [ApprovalIds -> Decisions \cup {"None", "OPEN"}]
      /\ approvals'[i] = decision
      /\ \A j \in ApprovalIds \ {i} : approvals'[j] = approvals[j]
      /\ ApprovalsFollowAudits'
  BY <1>2, DecisionIsNew
<1>5. TaskTypeOK'
  BY <1>2, <1>3, <1>4 DEF WorkflowInv, TaskTypeOK
<1>6. NewTasksAreNew'
  BY <1>2, <1>3 DEF WorkflowInv, NewTasksAreNew
<1>7. RewardWasDecided'
  <2>1. \A u \in Tasks, m \in 1..MaxAudits : Reward(u, m) \in ApprovalIds \ {i}
    BY <1>2, ApprovalIdsOf
  <2>2. \A u \in Tasks, m \in 1..MaxAudits : approvals'[Reward(u, m)] = approvals[Reward(u, m)]
    BY <1>4, <2>1
  <2>3. QED
    BY <1>2, <2>2 DEF WorkflowInv, RewardWasDecided, Passed
<1>8. CompletionStands'
  <2>1. \A u \in Tasks, m \in 1..MaxAudits :
           /\ Completion(u, m) \in ApprovalIds
           /\ Completion(u, m) = i => u = t
    BY <1>1, ApprovalIdsOf
  <2>2. status \in [Tasks -> Statuses]
    BY DEF WorkflowInv, TaskTypeOK
  <2>3. QED
    BY <1>2, <1>3, <1>4, <2>1, <2>2 DEF WorkflowInv, CompletionStands
<1>9. HandsApart'
  BY <1>2 DEF WorkflowInv, HandsApart
<1>10. QED
  BY <1>4, <1>5, <1>6, <1>7, <1>8, <1>9 DEF WorkflowInv

\* The Owner's approval of a reward is what reserves it.
LEMMA DecideRewardKeeps ==
    ASSUME WorkflowInv, LedgerTypeOK, NEW i \in ApprovalIds, NEW decision \in Decisions,
           NEW k \in Keys, NEW n, DecideReward(i, decision, k, n)
    PROVE  WorkflowInv'
<1>1. SUFFICES ASSUME NEW t \in Tasks, t = i.task
      PROVE  WorkflowInv'
  BY ApprovalIdIs
<1>2. /\ Undecided(i) /\ Decide(i, decision) /\ i.kind = "REWARD"
      /\ UNCHANGED <<status, executive, payee, members, reviewers, audits, evaluated>>
  BY DEF DecideReward, assignVars
<1>3. /\ approvals' \in [ApprovalIds -> Decisions \cup {"None", "OPEN"}]
      /\ approvals'[i] = decision
      /\ \A j \in ApprovalIds \ {i} : approvals'[j] = approvals[j]
      /\ Passed(t, i.audit) /\ ApprovalsFollowAudits'
      /\ status[t] \notin {"None", "DRAFT"}
  BY <1>1, <1>2, DecisionIsNew
<1>4. /\ \A u \in Tasks \ {t} : allocations'[u] = allocations[u]
      /\ \/ allocations'[t].status = "Reserved" /\ decision = "APPROVE" /\ t \in evaluated
         \/ allocations'[t].status = "Cancelled"
         \/ allocations'[t] = allocations[t]
  <2>1. CASE decision = "APPROVE" /\ t \in evaluated /\ ReserveReward(k, t, n)
    BY <2>1 DEF ReserveReward, Allocated, LedgerTypeOK
  <2>2. CASE CancelReward(k, t)
    BY <2>2 DEF CancelReward, Allocated, LedgerTypeOK
  <2>3. CASE UNCHANGED ledgerVars
    BY <2>3 DEF ledgerVars
  <2>4. QED
    BY <1>1, <2>1, <2>2, <2>3 DEF DecideReward
<1>5. TaskTypeOK'
  BY <1>2, <1>3 DEF WorkflowInv, TaskTypeOK
<1>6. NewTasksAreNew'
  BY <1>2, <1>3, <1>4 DEF WorkflowInv, NewTasksAreNew
<1>7. RewardWasDecided'
  <2>1. \A u \in Tasks, m \in 1..MaxAudits : Reward(u, m) \in ApprovalIds
    BY ApprovalIdsOf
  <2>2. \A u \in Tasks, m \in 1..MaxAudits :
           approvals[Reward(u, m)] = "APPROVE" => approvals'[Reward(u, m)] = "APPROVE"
    BY <1>2, <1>3, <2>1 DEF Undecided
  <2>3. i = Reward(t, i.audit) /\ i.audit \in 1..MaxAudits
    BY <1>1, <1>2, ApprovalIdIs
  <2>4. SUFFICES ASSUME NEW u \in Tasks, allocations'[u].status \in {"Reserved", "Paid"}
        PROVE  u \in evaluated /\ \E m \in 1..MaxAudits : Passed(u, m) /\ approvals'[Reward(u, m)] = "APPROVE"
    BY <1>2 DEF RewardWasDecided, Passed
  <2>5. CASE allocations'[u] = allocations[u]
    BY <2>2, <2>4, <2>5 DEF WorkflowInv, RewardWasDecided
  <2>6. CASE allocations'[u] # allocations[u]
    BY <1>3, <1>4, <2>3, <2>4, <2>6
  <2>7. QED
    BY <2>5, <2>6
<1>8. CompletionStands'
  <2>1. \A u \in Tasks, m \in 1..MaxAudits : Completion(u, m) \in ApprovalIds \ {i}
    BY <1>2, ApprovalIdsOf
  <2>2. \A u \in Tasks, m \in 1..MaxAudits : approvals'[Completion(u, m)] = approvals[Completion(u, m)]
    BY <1>3, <2>1
  <2>3. QED
    BY <1>2, <2>2 DEF WorkflowInv, CompletionStands
<1>9. HandsApart'
  BY <1>2 DEF WorkflowInv, HandsApart
<1>10. QED
  BY <1>3, <1>5, <1>6, <1>7, <1>8, <1>9 DEF WorkflowInv

\* A payment is of what was reserved, and the other ledger commands change no
\* allocation.
LEMMA LedgerKeeps ==
    ASSUME WorkflowInv, LedgerTypeOK, UNCHANGED taskVars, NEW k \in Keys,
           \/ \E n \in Amounts : FundTreasury(k, n)
           \/ \E t \in Tasks, bps \in Rates : PayReward(k, t, bps)
    PROVE  WorkflowInv'
<1>1. UNCHANGED <<status, executive, payee, members, reviewers, audits, evaluated, approvals>>
  BY DEF taskVars, assignVars, verdictVars
<1>2. \A u \in Tasks : \/ allocations'[u] = allocations[u]
                       \/ allocations[u].status = "Reserved" /\ allocations'[u].status = "Paid"
  <2>1. CASE \E n \in Amounts : FundTreasury(k, n)
    <3>1. allocations' = allocations
      BY <2>1 DEF FundTreasury
    <3>2. QED
      BY <3>1
  <2>2. ASSUME NEW t \in Tasks, NEW bps \in Rates, PayReward(k, t, bps), NEW u \in Tasks
        PROVE  \/ allocations'[u] = allocations[u]
               \/ allocations[u].status = "Reserved" /\ allocations'[u].status = "Paid"
    <3>1. allocations[t].status = "Reserved"
      BY <2>2 DEF PayReward
    <3>2. allocations'[t].status = "Paid" /\ (u # t => allocations'[u] = allocations[u])
      BY <2>2 DEF PayReward, Allocated, LedgerTypeOK
    <3>3. QED
      BY <3>1, <3>2
  <2>3. QED
    BY <2>1, <2>2
<1>3. TaskTypeOK' /\ ApprovalsFollowAudits' /\ CompletionStands' /\ HandsApart'
  BY <1>1 DEF WorkflowInv, TaskTypeOK, ApprovalsFollowAudits, CompletionStands, HandsApart, Passed
<1>4. NewTasksAreNew'
  BY <1>1, <1>2 DEF WorkflowInv, NewTasksAreNew
<1>5. RewardWasDecided'
  BY <1>1, <1>2 DEF WorkflowInv, RewardWasDecided, Passed
<1>6. QED
  BY <1>3, <1>4, <1>5 DEF WorkflowInv

-----------------------------------------------------------------------------
(* The theorem *)

\* A reward was decided before it is reserved or paid, a completion stands, and
\* nobody reviews or audits as Executive, for every team and any number of Tasks.
THEOREM WorkflowSafe ==
    WorkflowSpec => [](WorkflowTypeOK /\ RewardWasDecided /\ CompletionStands /\ HandsApart)
<1>1. WorkflowInv /\ LedgerTypeOK /\ [WorkflowNext]_workflowVars => WorkflowInv'
  <2> SUFFICES ASSUME WorkflowInv, LedgerTypeOK, [WorkflowNext]_workflowVars PROVE WorkflowInv'
    OBVIOUS
  <2>1. ASSUME NEW t \in Tasks, NEW a \in Agents, AgentCommand(t, a) PROVE WorkflowInv'
    <3>1. CASE \/ CreateSubtask(t, a) \/ AssignMembership(t, a) \/ LoseMembership(t, a)
      <4>1. members \in [Tasks -> SUBSET Agents]
        BY DEF WorkflowInv, TaskTypeOK
      <4>2. members' \in [Tasks -> SUBSET Agents]
        BY <3>1, <4>1 DEF CreateSubtask, AssignMembership, LoseMembership
      <4>3. UNCHANGED <<status, executive, payee, verdictVars, ledgerVars>>
        BY <3>1 DEF CreateSubtask, AssignMembership, LoseMembership
      <4>4. QED
        BY <4>2, <4>3, MembersKeep
    <3>2. CASE \E changes \in BOOLEAN : SubmitReview(t, a, changes)
      BY <3>2, ReviewKeeps
    <3>3. CASE \E result \in {"PASS", "FAIL"} : RecordAudit(t, a, result)
      BY <3>3, AuditKeeps
    <3>4. QED
      BY <2>1, <3>1, <3>2, <3>3, CreateTaskKeeps, AssignKeeps DEF AgentCommand
  <2>2. CASE \E t \in Tasks : \E who \in Agents \cup {Owner}, target \in Statuses : TransitionTask(t, who, target)
    BY <2>2, TransitionKeeps
  <2>3. CASE \E t \in Tasks : \E quality \in Qualities : EvaluateTask(t, quality)
    BY <2>3, EvaluateKeeps
  <2>4. CASE \E i \in ApprovalIds, decision \in Decisions : DecideCompletion(i, decision)
    BY <2>4, DecideCompletionKeeps
  <2>5. CASE \E i \in ApprovalIds, decision \in Decisions :
               \E k \in Keys, n \in 0..BudgetOf[i.task] : DecideReward(i, decision, k, n)
    BY <2>5, DecideRewardKeeps
  <2>6. CASE \E k \in Keys :
               /\ \/ \E n \in Amounts : FundTreasury(k, n)
                  \/ \E t \in Tasks, bps \in Rates : PayReward(k, t, bps)
               /\ UNCHANGED taskVars
    BY <2>6, LedgerKeeps
  <2>7. CASE UNCHANGED workflowVars
    <3>1. UNCHANGED <<status, executive, payee, members, reviewers, audits, evaluated, approvals, allocations>>
      BY <2>7 DEF workflowVars, taskVars, assignVars, verdictVars, ledgerVars
    <3>2. \A t, n : Passed(t, n)' <=> Passed(t, n)
      BY <3>1 DEF Passed
    <3>3. TaskTypeOK'
      BY <3>1 DEF WorkflowInv, TaskTypeOK
    <3>4. ApprovalsFollowAudits'
      BY <3>1, <3>2 DEF WorkflowInv, ApprovalsFollowAudits
    <3>5. NewTasksAreNew'
      BY <3>1 DEF WorkflowInv, NewTasksAreNew
    <3>6. RewardWasDecided'
      BY <3>1, <3>2 DEF WorkflowInv, RewardWasDecided
    <3>7. CompletionStands'
      BY <3>1 DEF WorkflowInv, CompletionStands
    <3>8. HandsApart'
      BY <3>1 DEF WorkflowInv, HandsApart
    <3>9. QED
      BY <3>3, <3>4, <3>5, <3>6, <3>7, <3>8 DEF WorkflowInv
  <2>8. QED
    BY <2>1, <2>2, <2>3, <2>4, <2>5, <2>6, <2>7 DEF WorkflowNext
<1>2. WorkflowInv /\ LedgerTypeOK =>
          WorkflowTypeOK /\ RewardWasDecided /\ CompletionStands /\ HandsApart
  BY DEF WorkflowInv, TaskTypeOK, WorkflowTypeOK
<1>3. QED
  BY <1>1, <1>2, WorkflowInitInv, WorkflowKeepsBooks, PTL DEF WorkflowSpec

\* An approved completion stands, whatever decision comes late
\* (decide_owner_approval, record_audit).
THEOREM CompletionsStand == WorkflowSpec => []CompletionStands
BY WorkflowSafe, PTL

\* Nobody reviews or audits a Task as its Executive, whenever the Executive changes.
THEOREM HandsStayApart == WorkflowSpec => []HandsApart
BY WorkflowSafe, PTL
=============================================================================
