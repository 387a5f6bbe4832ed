----------------------------- MODULE VirtualLedger -----------------------------
(***************************************************************************)
(* The virtual Treasury: its account, the reward allocation of each Task and *)
(* the append-only entries (services/rcao/app/virtual_ledger.py).            *)
(*                                                                         *)
(* Every command locks the allocation, then the account, and commits its     *)
(* entry with its changes, so a command is one step.  The key is the one the *)
(* workflow command has claimed; the entries carry it with a suffix each.  A *)
(* command whose key has entries returns the first and changes nothing.      *)
(***************************************************************************)
EXTENDS Integers, FiniteSets

CONSTANTS
    Tasks,      \* Tasks; each has one reward allocation (create_task)
    BudgetOf,   \* BudgetOf[t]: reward_budget_lamports
    Keys,       \* idempotency keys of the commands
    Amounts,    \* amounts the Treasury is funded with
    Qualities,  \* quality scores an evaluation may give, 0..100
    Rates,      \* retention_bps of a payment, 0..10000
    MaxFunds    \* MAX_SIGNED_BIGINT

NoTask == "none"

ASSUME LedgerAssumption ==
    /\ NoTask \notin Tasks
    /\ BudgetOf \in [Tasks -> Nat] /\ Amounts \subseteq Nat
    /\ Qualities \subseteq 0..100 /\ Rates \subseteq 0..10000 /\ MaxFunds \in Nat

VARIABLES
    account,        \* mvp_treasury_accounts: the five balances
    allocations,    \* reward_allocations: per Task its status and amounts
    entries         \* mvp_virtual_ledger_entries

ledgerVars == <<account, allocations, entries>>

Unopened == [status |-> "None", proposed |-> 0, reserved |-> 0, paid |-> 0]
Pending == [status |-> "Pending", proposed |-> 0, reserved |-> 0, paid |-> 0]

LedgerInit ==
    /\ account = [funded |-> 0, available |-> 0, reserved |-> 0, paid |-> 0, retained |-> 0]
    /\ allocations = [t \in Tasks |-> Unopened]
    /\ entries = {}

-----------------------------------------------------------------------------
(* Entries *)

Entry(k, kind, n, t) == [key |-> k, kind |-> kind, amount |-> n, task |-> t]

\* Mutant: no entry is looked up by its key.
AlwaysFresh(k) == TRUE

\* No command used the key yet (_existing_entry, and the UNIQUE key).
Fresh(k) == \A e \in entries : e.key # k

\* What a set of entries adds up to, as the number of its single lamports.
Units(S) == UNION {{e} \X (1..e.amount) : e \in S}
Lamports(S) == Cardinality(Units(S))
Of(kind) == {e \in entries : e.kind = kind}
OfTask(t, kind) == {e \in entries : e.kind = kind /\ e.task = t}
Total(kind) == Lamports(Of(kind))
TotalOf(t, kind) == Lamports(OfTask(t, kind))

-----------------------------------------------------------------------------
(* Commands *)

\* The UPDATE of the account: what it adds to each balance.
Booked(funded, available, reserved, paid, retained) == [
    funded    |-> account.funded + funded,
    available |-> account.available + available,
    reserved  |-> account.reserved + reserved,
    paid      |-> account.paid + paid,
    retained  |-> account.retained + retained]

\* The UPDATE of an allocation.
Allocated(t, status, reserved, paid) == [allocations EXCEPT ![t] =
    [status |-> status, proposed |-> allocations[t].proposed, reserved |-> reserved, paid |-> paid]]

\* The allocation is inserted with its Task.
OpenAllocation(t) ==
    /\ allocations[t].status = "None"
    /\ allocations' = [allocations EXCEPT ![t] = Pending]

\* Only a Pending allocation is proposed, for a share of its budget.
ProposeReward(t, quality) ==
    allocations' = IF allocations[t].status = "Pending"
                   THEN [allocations EXCEPT ![t] = [status |-> "Proposed", reserved |-> 0, paid |-> 0,
                                                    proposed |-> (BudgetOf[t] * quality) \div 100]]
                   ELSE allocations

FundTreasury(k, n) ==
    /\ n > 0 /\ Fresh(k) /\ account.funded <= MaxFunds - n
    /\ account' = Booked(n, n, 0, 0, 0)
    /\ entries' = entries \cup {Entry(k, "TREASURY_FUNDING", n, NoTask)}
    /\ UNCHANGED allocations

\* Mutant: the balance is not compared.
ReserveUncovered(k, t, n) ==
    /\ Fresh(k) /\ allocations[t].status = "Proposed" /\ n <= BudgetOf[t]
    /\ account' = Booked(0, -n, n, 0, 0)
    /\ allocations' = Allocated(t, "Reserved", n, allocations[t].paid)
    /\ entries' = entries \cup {Entry(k, "REWARD_RESERVE", n, t)}

\* Mutant: a reserved allocation is reserved again, under another key.
ReserveAgain(k, t, n) ==
    /\ Fresh(k) /\ allocations[t].status \in {"Proposed", "Reserved"}
    /\ n <= BudgetOf[t] /\ n <= account.available
    /\ account' = Booked(0, -n, n, 0, 0)
    /\ allocations' = Allocated(t, "Reserved", n, allocations[t].paid)
    /\ entries' = entries \cup {Entry(k, "REWARD_RESERVE", n, t)}

ReserveReward(k, t, n) ==
    /\ Fresh(k) /\ allocations[t].status = "Proposed"
    /\ n <= BudgetOf[t] /\ n <= account.available
    /\ account' = Booked(0, -n, n, 0, 0)
    /\ allocations' = Allocated(t, "Reserved", n, allocations[t].paid)
    /\ entries' = entries \cup {Entry(k, "REWARD_RESERVE", n, t)}

\* calculate_retention: what the Treasury keeps is rounded down.
Retained(gross, bps) == (gross * bps) \div 10000

\* Mutant: the allocation records the amount before the retention.
PayGross(k, t, bps) ==
    LET gross == allocations[t].reserved
        retained == Retained(gross, bps)
        net == gross - retained
    IN
    /\ Fresh(k) /\ allocations[t].status = "Reserved" /\ gross <= account.reserved
    /\ account' = Booked(0, 0, -gross, net, retained)
    /\ allocations' = Allocated(t, "Paid", 0, allocations[t].paid + gross)
    /\ entries' = entries \cup {Entry(k, "REWARD_PAYMENT", net, t)}
          \cup (IF retained > 0 THEN {Entry(k, "TREASURY_RETENTION", retained, t)} ELSE {})

PayReward(k, t, bps) ==
    LET gross == allocations[t].reserved
        retained == Retained(gross, bps)
        net == gross - retained
    IN
    /\ Fresh(k) /\ allocations[t].status = "Reserved" /\ gross <= account.reserved
    /\ account' = Booked(0, 0, -gross, net, retained)
    /\ allocations' = Allocated(t, "Paid", 0, allocations[t].paid + net)
    /\ entries' = entries \cup {Entry(k, "REWARD_PAYMENT", net, t)}
          \cup (IF retained > 0 THEN {Entry(k, "TREASURY_RETENTION", retained, t)} ELSE {})

\* Nothing reserved leaves no entry.
CancelReward(k, t) ==
    LET reserved == allocations[t].reserved IN
    /\ Fresh(k) /\ allocations[t].status \notin {"None", "Paid", "Cancelled"}
    /\ reserved <= account.reserved
    /\ account' = Booked(0, reserved, -reserved, 0, 0)
    /\ allocations' = Allocated(t, "Cancelled", 0, allocations[t].paid)
    /\ entries' = entries \cup (IF reserved > 0 THEN {Entry(k, "REWARD_CANCELLED", reserved, t)} ELSE {})

LedgerNext ==
    \/ \E t \in Tasks : \/ OpenAllocation(t) /\ UNCHANGED <<account, entries>>
                        \/ /\ allocations[t].status # "None" /\ UNCHANGED <<account, entries>>
                           /\ \E q \in Qualities : ProposeReward(t, q)
    \/ \E k \in Keys :
         \/ \E n \in Amounts : FundTreasury(k, n)
         \/ \E t \in Tasks : \/ \E n \in 0..BudgetOf[t] : ReserveReward(k, t, n)
                             \/ \E bps \in Rates : PayReward(k, t, bps)
                             \/ CancelReward(k, t)

LedgerSpec == LedgerInit /\ [][LedgerNext]_ledgerVars

-----------------------------------------------------------------------------
(* Properties *)

\* No command writes the last one.
Kinds == {"TREASURY_FUNDING", "REWARD_RESERVE", "REWARD_CANCELLED", "REWARD_PAYMENT",
          "TREASURY_RETENTION", "REWARD_RELEASED"}

Account == [funded : Nat, available : Nat, reserved : Nat, paid : Nat, retained : Nat]
Allocation == [status : {"None", "Pending", "Proposed", "Reserved", "Paid", "Cancelled"},
               proposed : Nat, reserved : Nat, paid : Nat]
LedgerEntry == [key : Keys, kind : Kinds, amount : Nat, task : Tasks \cup {NoTask}]

\* Balances and amounts are natural numbers, statuses and kinds the schema's.
LedgerTypeOK ==
    /\ account \in Account
    /\ allocations \in [Tasks -> Allocation]
    /\ entries \subseteq LedgerEntry

\* reconcile recalculates the balances from the entries.
Calculated == [
    funded    |-> Total("TREASURY_FUNDING"),
    available |-> Total("TREASURY_FUNDING") - Total("REWARD_RESERVE") + Total("REWARD_CANCELLED"),
    reserved  |-> Total("REWARD_RESERVE") - Total("REWARD_CANCELLED")
                    - Total("REWARD_PAYMENT") - Total("TREASURY_RETENTION"),
    paid      |-> Total("REWARD_PAYMENT"),
    retained  |-> Total("TREASURY_RETENTION")]

\* Between two commands the account and the entries tell the same story, and the
\* balances add up to what was funded: reconcile has nothing to find.
Healthy ==
    /\ account = Calculated
    /\ account.available + account.reserved + account.paid + account.retained = account.funded

\* The entries of a Task tell what its allocation holds reserved and has paid.
EntriesTellAllocations == \A t \in Tasks :
    /\ allocations[t].paid = TotalOf(t, "REWARD_PAYMENT")
    /\ allocations[t].reserved = TotalOf(t, "REWARD_RESERVE") - TotalOf(t, "REWARD_CANCELLED")
           - TotalOf(t, "REWARD_PAYMENT") - TotalOf(t, "TREASURY_RETENTION")

\* A reward is reserved once at most and ends once at most, paid, with what is
\* retained, or cancelled; and never costs more than its Task's budget.
RewardEndsOnce == \A t \in Tasks :
    /\ \A e, f \in entries : e.task = t /\ f.task = t /\ e.kind = f.kind => e = f
    /\ OfTask(t, "REWARD_PAYMENT") = {} \/ OfTask(t, "REWARD_CANCELLED") = {}
    /\ TotalOf(t, "REWARD_PAYMENT") + TotalOf(t, "TREASURY_RETENTION") <= BudgetOf[t]
=============================================================================
