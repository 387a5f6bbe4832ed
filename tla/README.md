# R-CAO: specifications of the control plane

TLA+ models of the R-CAO control plane (`src/services/rcao/app`, with the
tables and triggers of `src/db/migrations`), checked with TLC on small instances
and, for the parts named in section 4, proved with TLAPS for every value of the constants. Line numbers below are those of the files under
`src/services/rcao/app` unless another path is given.

R-CAO lets an Owner direct Agents: Tasks with acceptance criteria, review, audit
and a virtual reward; Agents that talk through a message gateway and run behind
a policy; and small payments to paid Services (MPP: a Service answers HTTP 402
with a challenge) that pass a policy, an Owner approval where it is needed, and a
Signer that alone holds keys. Commands are PostgreSQL transactions; the
Signer, the MPP client and the MPP Service are objects with locks in a process.

## 1. Inventory

### Parts that carry a payment

| Part | State | Operations | Hard behaviours | What makes it correct |
|---|---|---|---|---|
| Budget counters and reservations (`mpp_policy.py` 857-1169) | `mvp_mpp_budget_counters` per (Profile, TASK or DAILY scope), `mvp_mpp_budget_reservations` | `current_spend`, `reserve_budget`, `consume_reservation`, `release_reservation` | two rows per move, opposite lock orders, repeated calls, limits that change, midnight | counters equal the reservations behind them, stay within the limit of their row, and no transaction waits for ever |
| Payment life (`payment_boundary.py`, `mpp_policy.py`, `payment_profile.py`) | `mvp_service_payments`, `mvp_mpp_policy_decisions`, `approval_requests`, `mvp_mpp_signer_authorizations`, the Profile row, the stop rows | `propose`, `evaluate`, `decide_owner_approval`, `issue_signer_authorization`, `cancel_payment`, `update`/`set_status`/`rotate` | unlocked reads used later, commands in any order, stops and expiry in between | no authorization past the Owner, a denial stands, units follow payments |
| Signer (`signer.py`) | `_results`, `_request_nonces`, the authorization registry, the Signer ledger, the key store, their locks | `execute`, `rotate_wallet`, `revoke_wallet`, `revoke`, `consume`, `release`, `submit` | many short locks, failure after the submission, lost answers, hooks that raise, rotation in mid-call | a payment is submitted once, a stored success is complete, nothing stays reserved |
| MPP client (`mpp_client.py` 568-1035) | sessions per idempotency key, challenge keys, attempts | `pay`, `pay_challenge`, `resume` | exceptions between storing a session and its result, a lost answer of the provider, resumed twice, a process that restarts | a challenge is paid at most once, only when the gates allow it, and the attempts tell the session |
| MPP Service Agent (`mpp_service.py`) | issued challenges, used receipts and signatures, results | `issue_challenge`, `execute` | retries after expiry, replayed receipts, an executor that raises | one execution per challenge, a receipt pays one challenge |
| Receipts and sessions (`mpp_receipts.py`, `mpp_session.py`) | receipt status; funded, spent and settled units of a session | `transition`; `top_up`, `settle`, `close`, `revoke` | duplicate vouchers, expiry on access | spent <= funded <= ceiling, terminal statuses stay |

### Parts that carry Tasks and rewards

| Part | State | Operations | Hard behaviours | What makes it correct |
|---|---|---|---|---|
| Task workflow (`task_workflow.py`) | `mvp_tasks`, sub tasks, evidence, reviews, audits, `owner_evaluations`, `approval_requests`, `reward_allocations` | `create_task`, `assign_executive`, `create_subtask`, `transition_task`, `submit_evidence`, `submit_review`, `record_audit`, `evaluate_task`, `decide_approval` | evaluations and approvals that outlive a rework, rewards of Tasks that failed, two commands at once | a Task completes only through review, audit and evaluation; one decision per approval |
| Virtual ledger (`virtual_ledger.py`) | the account row, append-only entries, allocations | `fund_treasury`, `reserve_reward`, `pay_reward`, `cancel_reward`, `reconcile` | replay by key, rounding of the retention, unlocked reconciliation | account = sums of entries, funded = available + reserved + paid + retained |
| In-memory store (`mvp.py`) | the same objects in dictionaries | the same commands, and an approval center beside the direct endpoints | decisions carried out on what others change, seeded approvals beside those of an audit, handlers in a thread pool without a lock | the recorded decisions and the reward ledger agree with what became of the records, as far as handlers do not race for one |

### Parts around them

| Part | State and operations | Hard behaviours |
|---|---|---|
| Unit of work, idempotency, Audit, Outbox (`repository.py`, `audit.py`) | `mvp_command_idempotency`, `mvp_audit_logs`, `mvp_outbox_events`; `transaction`, `transition_task`, `replay_task` | two commands with one key, a key that another writer of the Outbox has, rollback at any statement |
| Stop control, telemetry, incidents (`observability.py`) | stop states with versions, incidents; `stop`, `resume`, `acknowledge`, `resolve` | optimistic versions, a checker that reads one target after the other |
| Agent runtime (`agent_runtime.py`) | `mvp_agent_runs`; `run`, `start`, `finish` | timeout, retry, cancellation and stop racing an answer; a crash between start and finish |
| A2A gateway (`a2a.py`, `messages.py`) | `mvp_agent_messages`; `send`, `transition_status` | a message sent twice at once, keys shared with other messages and with commands, racing transitions |
| Agent registry (`agent_registry.py`) | Agents, memberships, delegations; registration and status | scope that changes under a command |
| Evidence and memory (`evidence_memory.py`) | records with status and access; register, revoke, expire, search | two registrations with one key or one id, a revocation racing an expiry |
| Authentication (`auth.py`), migrations (`migrations.py`) | identities and revoked tokens; schema history under an advisory lock | a failing migration |
| HTTP application and Console (`main.py`, `console.py`, `search.py`, `src/src`) | none of their own | one command, one unit of work |
| Tables of policy (`policy.py`, `phase_one.py`, `reward.py`, `task_state.py`, `models.py`) | none | none |

### How they interact

`main.py` opens one `PostgresRepository.transaction()` per command and calls the
repository of the command in it. `propose` calls the policy engine, which calls
the Profile policy, and then `reserve_budget`; an Owner decision arrives either
through `decide_owner_approval` or through the Approval Center
(`task_workflow.decide_approval`, which repeats it for a `POLICY_EXCEPTION`), and
both release reservations; `issue_signer_authorization` writes the row a Signer
request is built from. `decide_approval` on a reward calls the virtual ledger.
The MPP client, in another process, evaluates the same policy, calls the
Signer gateway, and submits the proof to the Service. Stops are rows of
`mvp_stop_controls` for the commands and a `StopController` object for the Signer
and the runtime. Messages, Task commands and Evidence meet in the Audit log and the Outbox, whose
`idempotency_key` is unique over all of them. `main.py` serves either the PostgreSQL repositories or, without a
database, the in-memory store.

## 2. Modules

| Module | Models | State corresponds to |
|---|---|---|
| `MppBudget` | each budget call as one atomic step | `counters`: `mvp_mpp_budget_counters`; `reservations`: `mvp_mpp_budget_reservations` |
| `MppBudgetLocks` | the same calls lock by lock, with commit, rollback and PostgreSQL's deadlock detector; implements `MppBudget` | the budget, the open transactions and who holds or waits for which row |
| `MppPayment` | extends `MppBudget` with every command on a payment | `status`, `decision`, `approval`, `authorization`: the columns of those names; `proposal`: what an open `propose` has read; `profile`, `stops`, `now`: the rows and the clock the commands read |
| `Signer` | one call of the gateway step by step, several callers | `results`, `nonces`, `reserved`, `spent`, `consumed`, `revoked`, `wallet`: the Signer's dictionaries; `sent`: what the network has seen of each caller |
| `VirtualLedger` | the Treasury, one step per command | `account`: `mvp_treasury_accounts`; `allocations`: `reward_allocations`; `entries`: `mvp_virtual_ledger_entries` |
| `TaskWorkflow` | extends `VirtualLedger` with the commands on a Task; implements it | `status`, `executive`: columns of `mvp_tasks`; `payee`: the allocation's Agent; `members`: memberships in force; `reviewers`, `audits`, `evaluated`, `approvals`: the tables of those names |
| `PaidService` | the promise of a paid Service, abstractly | what was paid, which payment a Challenge was served for, who was told |
| `MppService` | the Service's `issue_challenge` and `execute` | `issued`, `results`: the dictionaries of the agent; `effects`, `raised`: what its executor did |
| `MppClient` | extends `MppService` with the client and the network; implements `PaidService` | `session`: `_sessions`; `bound`: `_challenge_keys`; `attempts`: `mvp_mpp_client_attempts`; `call`: who holds the client's lock; `sent`, `wire`: what the Signer and the network have seen |
| `StopControl` | the Owner's stops with their versions | `stops`: `mvp_stop_controls`; `history`: `mvp_stop_control_history`; `ops`: an operation between its read and its write |
| `AgentRun` | extends `StopControl` with runs of the runtime | `row`: `mvp_agent_runs`; `work`: where each worker is; `calls`: calls of the provider; `since`: what has stood against a run since its provider answered |
| `UnitOfWork` | Task commands in concurrent database transactions | `session`: each transaction; `version`, `claimed`, `log`, `outbox`: `mvp_tasks`, `mvp_command_idempotency`, `mvp_audit_logs`, `mvp_outbox_events`; `members`: the registry; `told`, `wronged`: the answers given |
| `EvidenceMemory` | extends `UnitOfWork` with Evidence and Memory | `records`: `mvp_evidence`, `mvp_memory_items` |
| `MessageGateway` | extends `EvidenceMemory` with messages and the clock | `messages`: `mvp_agent_messages` |
| `OwnerStore` | the in-memory store | the dictionaries of `OwnerDirectedStore`; `desk`: what each handler has still to do; `raced`: which records two handlers worked on at once |
| `MppBudget_proofs` (with the locks), `MppPayment_proofs`, `Signer_proofs`, `TaskWorkflow_proofs` (with the ledger), `MppClient_proofs`, `AgentRun_proofs`, `MessageGateway_proofs` (with `UnitOfWork` and `EvidenceMemory`), `OwnerStore_proofs` | theorems | |
| `MC_*` | instances for TLC | |

**`MppBudget`.** One action per public call: `Reserve`, `Consume`, `Release` (also
with `cancelled=True`). A replayed reserve returns the stored row and changes
nothing, so it needs no step. A scope is the Task or the UTC day of a Profile, as
in `current_spend`; `_move_reservation` uses the day stored with the reservation.
`Total` counts a set of payments by the set of its single units, which needs no
recursion and can be proved about.

**`MppBudgetLocks`.** A transaction locks a row per step. `reserve_budget` takes
DAILY, then TASK (the `ORDER BY` of its statement), then the reservation of its
key; `_move_reservation` takes the reservation first. The lock tables, the queue
and the deadlock detector are PostgreSQL's and are marked external in the map. The
refinement mapping is the identity on the two tables, whose changes happen at
commit.

**`MppPayment`.** `ProposeRead` is what `propose` reads without a lock: key and
challenge lookup, stops, Profile, spent units, verdict. `CommitDenied` and
`CommitProposed` are the writes and the commit, guarded by what the database
enforces then: UNIQUE keys, the decision recorded before, the locked counters.
The other commands lock their rows first and are one step. Idempotency key, challenge id and nonce are one
value, `ChallengeOf`; an allowlist violation is membership in `Outside`. `Evaluate`
keeps the order of the engine's checks. `Terms` are the arguments a caller of `propose` may pass (`owner_approval_required`,
`profile_allows`, `service_registered`); `main.py` 506 passes none of them. `Capability` stands for an Agent, Provider
run or MPP status that is not ACTIVE, which the engine asks before the registration of the service, and the stop rows after it.

**`Signer`.** A call has a program counter; a step is one access to a registry under
that registry's own lock, in the code's order. `Reject` is the first `except`
block (nothing to release), `Abort` the second one (release, then store a
failure). A request is its hash; preparing a devnet request with a blockhash gives
another hash. `Expire` and `late` are the clock, read once per call. `MppClient`
itself holds a lock for a whole payment; callers meet in the Signer when several
clients share one, or when the gateway is called directly.

**`VirtualLedger`.** One action per command of the repository; each locks the allocation and
then the account, and commits its entries with them. A command whose key has entries is
a replay and no step. `Booked` and `Allocated` are the two UPDATE statements. A sum of entries is the
number of their single lamports, as in `MppBudget`; `Calculated` is the arithmetic of `reconcile`.

**`TaskWorkflow`.** One action per command: each claims its key, locks the Task or the
approval, and reads the rest under that lock. `members` is what `_require_agent_member` asks
of the registry (an active Agent with an active membership that has not expired), and
`AssignMembership` and `LoseMembership` are all the ways the registry changes it, at any moment.
An audit's two requests are the approvals with its number; `PASS` stands for the two results that
advance a Task and `FAIL` for the two that do not.

**`MppClient`, `MppService`, `PaidService`.** `pay_challenge` and `resume` hold one lock to their end, so one call is
under way; between its steps the Service and the network move. The Policy and the Signer behind the client are
verdicts and results it may get, with every exception caught or not caught as in the code: one raised before the session is stored
leaves the nonce bound (`PaymentInvalid`), one raised by the policy
leaves the session without a result, one raised by the Signer or the provider ends it FAILED. A proof that was sent may arrive any number of times and
in any order, also mixed up with another (`Arriving`), and every answer may be lost. The Service holds its lock through
the executor; one that raises has had its effect and leaves no result. `Restart` ends the process: sessions and bound nonces are
forgotten, the attempts, the proofs and the payments are not, and the same Challenge has another payment in the next life, because the Signer's
request hash contains an authorization id that is drawn anew. `PaidService` knows nothing of keys, sessions or proofs;
the refinement mapping (`Promise`) takes what was sent as paid, the signature stored with a result as what it was paid by,
and a session that SUCCEEDED as told.

**`AgentRun`, `StopControl`.** A worker is an execution of `run`, one step per statement that others may interleave with: the
lookup and the INSERT of `start`, each stop target of a check by itself, the call of the provider and what ends it, `finish`.
What a request or an output fails on, and what a provider raises, is a choice; a stop checker of a caller's own that raises `TimeoutError` is left
out (the code would retry it), as the checkers of `StopController` raise none. `Crash` is the loss of the
process, a cancelled caller (which `run` does not catch), or a `finish` that cannot write. `since` is kept for the property only:
what stood when the answer came and was not lifted since.

**`UnitOfWork`, `EvidenceMemory`, `MessageGateway`.** A database connection runs one transaction at a time, a step
per statement; what an open transaction has inserted or locked follows from the place it has reached (`Doing`), so there are no separate
lock tables. An INSERT waits for an open one of the same unique key and fails on a committed one; FOR UPDATE waits for the row; a
guard that fails is an exception, and `Rollback` can happen anywhere. So with the Outbox, whose keys are unique over all writers: `KeysHeld` are the keys
open transactions have inserted, and a statement goes on when its own is free (`KeyFree`). Reads without a lock
(registry, parent, lookup by key) are steps of their own and may be stale at the INSERT. `members` says for whom every question the registry is asked is answered with
yes, and changes at any time. Both times of a message are read before its transaction begins.
A record is what masking leaves of its registration; the request is compared with the record it finds by id and masked content only, as in the code.

**`OwnerStore`.** The handlers run on a pool of threads and no lock guards the dictionaries, so each is split: it takes a job up after
its checks (`TakeUp`), and writes in later steps, between which any other handler may do the same. A command that is denied changes nothing but
the Audit log. `decide_approval` finds its approval open, calls what the decision asks for (the same jobs as the direct endpoints), and records the decision last.
What writes one field, or a record nobody knows yet, is one step. Proposals and external Actions go through the same steps and are
`Matters`. A seeded Task starts in `OWNER_REVIEW` with approvals whose ids an audit does not reuse, which is how one Task can have two.
`raced` is history: two handlers that hold the same record between check and write may each undo what the other relied on, and
the properties say what still holds then, and what holds of every record that did not see it.

## 3. Runs

| Run | Instance | Shows |
|---|---|---|
| `budget_locks` | 2 payments that exceed the limits together, 2 transactions | the lock protocol refines the atomic budget; counters equal reservations; every transaction ends; a commit holds its locks |
| `payment_race` | 3 payments (two with one challenge, two that fit alone only), 2 proposals in flight, limits that change | a denial stands, units follow payments, limits hold for what no Owner saw |
| `payment_life` | 2 payments of 2 Tasks over 4 days, Profile in automatic, Owner and paused state, 2 stops, a capability that is not active, all terms of a proposal | nothing is authorized without its own approval; an authorized payment is not reopened; the limit of the day holds across Tasks |
| `signer_serial` | 4 requests that share a key, a nonce or an authorization, 1 caller, 3 calls, hooks that raise | one effect per request, nonce and authorization; results never change |
| `signer_concurrent` | 3 requests, two with one key and two with one nonce, 2 callers, 3 calls, lost answers | a stored success is complete; no reservation is left behind; no caller sends a request or its nonce twice |
| `ledger` | 2 Tasks with budgets 3 and 2, at most 4 units of funds, retention of 0, a half and all, 5 commands | account, allocations and entries agree; a reward is reserved once and ends once |
| `task_workflow` | 1 Task, 2 Executives (one a Reviewer by role), 1 Auditor, 2 audits, 3 ledger commands | rewards and completions rest on audit, evaluation and decision; nobody judges the Task it leads; every step is a ledger command or none |
| `client` | 2 Challenges of the Service and 1 of another provider, which shares a key with one and a nonce with the other; 2 lives of the process, 1 executor that raises | a Challenge is paid once in a life and only past the gates; effects, attempts and sessions agree; all of it implements `PaidService` |
| `agent_run` | 1 run, 2 workers, 1 retry, a stop of the run and a global one, 2 Owner operations, 3 versions | the provider is called no more than retries allow; no stop is overlooked; rows and history tell what happened; a run ends |
| `messages` | 2 transactions; 3 messages, one a reply with the key of a command, one with the key of another message; 2 commands for one version; 3 registrations of one Evidence and a Memory of it | nobody is answered with another's row, nobody whose command took effect is told it is stale, and Audit log and Outbox tell one story |
| `owner_store` | 2 handlers; 1 Task, seeded or created, an Executive, a Reviewer, an Auditor who may be suspended, 1 proposal or Action | recorded decisions and the reward ledger agree with what became of the records, apart from what two handlers worked on at once |

One further run, `signer_race`, ends in the violation of a sentence of the repository's documents
(section 6).

**Bounds.** All are constants. `MaxUnits` bounds the amounts of the
instance, `MaxTime` the clock, `MaxCalls` the calls of the Signer, `MaxVersion` the
rotations. Two payments are enough for every pairwise conflict (same counter, same
challenge, same key), the third payment of `payment_race` adds one that holds
units while the other two race. Four days cover a payment reserved, expired and cancelled on
different days. Three calls of the Signer cover a call, its retry and a third party with
the same authorization. `MaxFunds` and the keys of `ledger` bound the Treasury: five commands fund
it, and reserve and end one reward while the other is under way; a retention of a half leaves a remainder of
the odd amounts. `MaxAudits` is two in `task_workflow`, which is what it takes for approvals of an earlier audit to meet a
later one. `MaxLives` and `MaxRaises` of `client` are what it takes for a payment of an earlier life, and a result that was not stored, to meet a later proof. `MaxVersion` of `agent_run` lets a stop be set, lifted and set again during a turn. `messages` leaves out, by a constraint (`RecordsApart`), the states that hold a record beside a message, a completed command or a suspended Agent: records meet the others in the log and the Outbox only, whose keys for them are of another form. `owner_store` leaves out, by a constraint (`Few`), the states after a third decision, those that use Task and proposal together, and those in which handlers have met on the Task as well as on its reward:
the records of one kind are decided alike, and what two handlers did to one record is in `raced` for good. Two connections, or handlers, suffice for every pairwise race. Interchangeable callers, workers and keys are symmetric; no run checks liveness with symmetry.

Deadlock is checked in every run but `ledger`, which really ends when its keys are used up, `client`, which ends when every Challenge has
expired in the last life of the client, and `agent_run`, which ends with its only run and the versions of the stops.

**Fairness.** Two modules have a liveness property. `MppBudgetLocks` assumes strong fairness of the
work of an open transaction and weak fairness of the deadlock detector: a Python process that
has begun a transaction goes on with its next statement, commits or rolls back, and
PostgreSQL grants a row lock in the order of its queue and aborts one of
two transactions that wait for each other after `deadlock_timeout`. Nothing is
assumed about the beginning of transactions. `AgentRun` assumes weak fairness of each worker's next step: `run` is
a coroutine that goes on when it can, and its wait for the provider ends by `timeout_seconds`. That
the wait really ends rests on the adapter, whose `complete` is cancelled and then gathered (1315): one that ignores the cancellation would
hold the run for ever. Crashes, cancellations and operations of the Owner are not fair, and an abandoned run is excepted from `RunEnds`.

## 4. Proofs

Assumptions are the named ones of the modules: `BudgetAssumption` (finitely many payments,
each with a positive amount, a Task and a Profile) and `PaymentAssumption` (the types of
the constants; every clock value has its day), `SignerAssumption` (the domains of the maps, the vocabulary of outcomes), `LedgerAssumption`
(budgets and amounts are numbers, scores and rates are in their ranges), `WorkflowAssumption` (types and
roles are of Agents, the number of audits is a number), `ServiceAssumption` and `ClientAssumption` (domains; a payment
is a Challenge in a life of the process), `RunAssumption` (a scan is a sequence of targets), `CommandAssumption`, `EvidenceAssumption` (the form of
requests; an id is of one kind), `TargetAssumption` (the ids of Tasks, messages and records are different: an Audit row names the type of its target with the id, and
so do the Outbox keys of messages and records; Outbox keys are not assumed different), `LocksAssumption` and `StoreAssumption`.

- `BudgetSafe`: `BudgetSpec => [](BudgetTypeOK /\ Conserved /\ WithinLimit)`. The
  three are inductive together (`BudgetInv`) and none is alone: a release subtracts
  from a counter what `Conserved` says is in it, and `WithinLimit` after it needs the
  same fact. The work is in the lemmas on
  `Total` (`TotalAdd`, `TotalRemove`): adding a payment to the holders of a scope adds
  its amount, for a sum defined as the cardinality of a set.
- `LocksImplementBudget`: the lock protocol implements the atomic budget, for any number of transactions, with a rollback at any
  lock and whatever the detector aborts. What a transaction has read must be what it writes on. `LocksInv` says so place by place
  (`LocksFit`): a reserve past its DAILY lock holds that lock and has the spent units that are still stored, past its TASK lock the
  same of the TASK row, and at its commit the reservation is not there; a move holds its reservation, still open, and the
  counters of the day stored in it. Other transactions cannot disturb this, because they change a row only under its lock
  (`Spares`). So a commit is one `Reserve`, `Consume` or `Release`, and everything else a stutter; the limits come with it
  (`LocksKeepCounters`), and `CommitsHoldLocks` is read off the same invariant. None of the three uses fairness.
- `PaymentsMoveBudget`: every step of the payment commands is a step of the budget or
  a stutter, so `MppPayment` inherits `BudgetSafe`.
- `PaymentTypes`: the type invariant, the budget's half by inheritance and the rest
  (`ControlTypeOK`) by induction.
- `ApprovalGateHolds`, `ReservationsFollow`: the gate, the permanence of denials and
  `BudgetFollowsPayment`, from one inductive invariant `ControlInv`. It adds what connects the tables: a stored payment has a decision
  other than denied, an allowed payment never has an approval request, an open
  proposal that was allowed did fit what it had read, and
  authorized payments are marked. Without those the state in which a denial is
  committed over a stored payment is not excluded.
- `UnapprovedFits`: the limit for payments no Owner looked at, from `Conserved`,
  `WithinLimit` and `BudgetFollowsPayment`: such payments are among the holders of their scope.

- `SignerSafe`: types, `ConfirmedIsComplete` and `NoLeakedReservation` for any number of
  interleaved callers. `CallInv` strengthens them: a call past its submission was
  sent, past the budget has spent, past the authorization has consumed. It carries
  what `StoreSuccess` needs over the steps between, and holds because nothing sent,
  spent or consumed is ever undone (`Grown`); `CallInv` of the other callers
  survives for the same reason (`OthersKeep`).
- `CallersSendOnce`: `EachCallerSendsOnce` for any number of callers and any outcome of the transport, a lost answer included. `OnceInv` adds that
  what was sent has its nonce bound (`SentIsBound`), that a call between its entry and its submission has a nonce its caller has
  not sent (`NonceFresh`), and binds it before it submits (`BoundFirst`). The nonce check at the entry does the rest, since a nonce is never forgotten. The check
  and the binding are two lock sections, so that two callers that overlap can send one request twice, as `signer_race` shows; the
  theorem bounds it: once per caller.

- `LedgerSafe`: types, `Healthy`, `EntriesTellAllocations` and `RewardEndsOnce`. The
  inductive invariant `LedgerInv` is stated Task by Task (`TaskInv`) and adds what the
  entries of a Task can be in each status of its allocation: none before a reserve, only
  reserves while `Reserved`. Without that, nothing excludes a payment beside an
  earlier one. `Posted` says what one entry adds to every sum, `RetainedIsPart`
  that what is retained never exceeds what is paid, whatever the rate; each command
  then has its own lemma (`FundStep`, `ReserveStep`, `PayStep`, `CancelStep`, ...).

- `WorkflowMovesLedger`: every command on a Task is one command of the ledger or leaves
  it alone, so `LedgerSafe` holds of the workflow (`WorkflowKeepsBooks`).
- `WorkflowSafe`: `RewardWasDecided`, `CompletionStands`, `HandsApart` and the types. The
  inductive invariant `WorkflowInv` adds that an approval exists only for an audit that
  passed (`ApprovalsFollowAudits`: the ids of a new audit are unused, so no decision
  is overwritten) and that a draft has no reviews, audits or proposal
  (`NewTasksAreNew`: so a reassignment finds nobody's verdict and moves the payee).

- `SerialResultsAreFinal`: `ResultIsFinal` for one caller, from `KeyIsFresh`: a call under way
  found no result of its key. It needs nothing of the transport.

- `ChallengeIsPaidOnce`, `MoneyWasAllowed`, `EffectsAreAccounted`, `AttemptsKeepPace`, `ClientTypes`: from `ClientInv`. `PaidOnce` is
  not inductive: that the Signer is not called again after a payment needs to know where the call is (`CallFits`: a call
  before the Signer has sent nothing, one after it has), that a session is of its key (`SessionsFit`), that no
  payment of a later life exists (`NotYetPaid`), and `OnlyAllowedIsPaid` itself, which excludes a paid session that still waits.
- `ClientKeepsPromise`: the refinement to `PaidService`. Every step is shown to be one `Pay`, `Serve`, `Tell`, `Forget` or a
  stutter (`PromiseMove`). `Serve` needs `WireIsPaid` (only what was paid is on the wire) and the Service's search for a signature used
  elsewhere; `Tell` needs `CallFits`: a call that got a good answer asked about a Challenge that is served.

- `StopHistoryIsTold`: for any number of Owner operations; `OpsFit` says that an operation whose version still
  stands has the state it read.
- `RunTypes`, `RunCallsAreBounded`, `RunAttemptsAreTold`, `RunHonoursStops`: from `RunInv`, which ties each worker to its row:
  at most one worker executes a run (`Alone`, because the row is inserted once), its place tells how many calls there were
  (`JobsFit`), what has been read of the controls covers what stands since the answer, and what stands since then still stands
  (`SinceStands`). `RunHonoursStops` holds for scans of any length.

- `AppliedCommandsAreAnswered`, `AnswersAreOwn`: for any number of connections, messages, commands and registrations, with
  any rollback. `GatewayInv` says that each request fits its place in the code, that claims of one key exclude each other (`KeysApart`), and that
  what has been inserted and not committed clashes with nothing (`SendsApart`, `RecordingsApart`), so that a commit
  takes no other's place. Each statement has its lemma; those that write nothing share `QuietStep`.

- `StoriesAreTold`: `StoryTold` relates seven variables, five tables and two counts, and no part of it is inductive alone. `StoryInv` adds what makes each commit add
  exactly one Audit row and one Outbox row that were not there. `KeysPending`: the key an open transaction has inserted is
  neither in the Outbox nor another's. `RowsHeld`: the row it has locked is still as it found it (the version it expects, the status it leaves, the record still active)
  and nobody else holds it. `MovesForward`: the status graph has no cycle, so each move goes further (`Rank`) than all that was told of the message, and the
  new row is new. `StoryFinite` lets the rows be counted. The path condition on a message is preserved because a move
  leaves from its current status; that each version of a Task has one command rests on `KeysApart` of `GatewayInv`. What all commits share is stated once
  (`CommitCounts`, `KeyAdded`, `OthersTold`), what a statement before the commit does in `TellsNothing` and `TellsLater`.

- `LedgerAgrees`, `DecisionsStand`: for any number of handlers, with no lock anywhere. The argument of `StoreInv` is one of ownership. `Serial`
  says that two handlers hold one record only if it is in `raced`; of any other record one handler works at most, so that what it checked is
  true until it writes (`Checked`), and a decision about to be recorded has been carried out (`CarriedOut`). That the effect is not taken back
  later rests on the ends of the status graph, and on a reward being cancelled only by a decision on it. Some of it needs no ownership (`Rests`): a handler that approves a reward
  found its Task evaluated, nothing takes an evaluation away, and the row a decision has filed is there when it is recorded.

- `CountersFitLimits`, `PaymentsKeepLimits`, `AuthorizationsStand`, `DenialsStand`, `ReservationsAreReturned`, `LedgerTypes`, `EntriesTell`,
  `RewardsEndOnce`, `CompletionsStand`, `HandsStayApart` state parts of the theorems above by themselves, for the
  properties of the runs.

Every invariant and action property of the passing runs is stated by one of these theorems, but for `EffectIsSingle`, and both refinements are. Only model-checked are the liveness
(`EveryTransactionEnds`, `RunEnds`), which is out of the prover's reach, and `EffectIsSingle`, which holds for one caller and a transport that loses no answer: nothing in
the code gives either, so it is a statement about the run `signer_serial` and no theorem. `ResultIsFinal` is proved for one caller at a time, as the run checks it: with two it is false of the code.

## 5. Not modelled, and why

- Text, hashes, JSON, Ed25519 and Solana message layout, masking and vectors: data
  that no property tells apart.
- The in-memory twins of the budget (`mpp_policy.py` 614-798), of the stop backend and of Evidence: test doubles of the
  repositories under one lock.
- The Signer's SQL persistence (`signer.py` 797-1000) is a hook that may raise; the
  application does not wire it.
- A crash of the Signer's or the Service's process: nothing they hold is restored. The client's restart is modelled, since its attempts are stored.
- Receipts and payment sessions (`mpp_receipts.py`, `mpp_session.py`): objects of one caller that no command stores.
- Delivery of the Outbox: no code in the repository does it. `replay_task` (`repository.py` 374) and the two
  reads of `reconcile` (`virtual_ledger.py` 888) are reads: what they report depends on the times of rows and on commits in between.
- Registration, capabilities and delegations of Agents; what commands ask of the registry is modelled as an answer that may change.
- Searches and visibility of Evidence and Memory: reads.
- In `OwnerStore`: Sub Tasks, memberships, evidence, scope and expiry of external Actions, denied Audit rows.
- In `AgentRun`: a stop checker of the caller that raises `TimeoutError`, which the code would retry (`agent_runtime.py` 1196).
- Migrations, HTTP handlers, authentication, Console, TypeScript, tables of policy: no state of their own, or before the program serves.

## 6. Where documents and code differ

`signer_race` checks the first of these; the others were met while modelling, and the modules have what the code does.

| Sentence | What the code does |
|---|---|
| `SIGNER-BOUNDARY.md:76`, a resend does not run the transport again | two calls at once both find no result (`signer.py` 1206): run `signer_race` |
| the same, a resend returns the stored Result | the Result of a prepared devnet request has another hash, so the resend of the original is a conflict (`signer.py` 1479) |
| `SIGNER-BOUNDARY.md:78`, a failed send releases, only success consumes | a revocation after the submission ends in FAILED and a release (`signer.py` 1292) |
| `MPP-ADOPTION.md:134`, Provider stops are checked | `issue_signer_authorization` leaves PROVIDER out of its list (`mpp_policy.py` 1475) |
| `OWNER-DIRECTED-MVP.md:43`, an audit that failed does not advance to `OWNER_REVIEW` | after a rework an Auditor moves the Task there by `transition_task`, without another audit (`task_workflow.py` 851) |
| `MPP-SERVICE-AGENT.md`, idempotent retries return the original result | not after the Challenge has expired (`mpp_service.py` 253) |
| `AGENT-RUNTIME.md:50`, stop controls cancel the provider task | only the cancellation event does; a stop is read before the call and after its answer (`agent_runtime.py` 1180, 1187) |
| `A2A-MESSAGE-GATEWAY.md`, a retry with the same fingerprint returns the stored message | not after its expiry or the suspension of its sender (`a2a.py` 452), and the second of two sends at once gets a unique violation, as the lookup comes before the INSERT |

Behaviour no document speaks of, which a reader of the models will meet:

- The same Challenge can be paid again by a client that was restarted; the second attempt's row is dropped, as its number is taken (`mpp_client.py` 500).
- A run whose worker was lost stays RUNNING and cannot be asked for again; stored attempts may exceed the calls by one.
- A message may be acknowledged after its expiry, since the time is read before the row lock is granted; a message and a Task command with the same
  key exclude each other in the Outbox.
- A registration that repeats key, id and content with a narrower access scope is answered with the older, wider record (`evidence_memory.py` 951). A Memory may name revoked Evidence as its source.
- A payment the policy allows, without the Owner, can be authorized after it was cancelled (`mpp_policy.py` 1454): only one that needed the Owner is asked for its status.
- In the in-memory store two handlers that find the same approval open record a decision each, as no lock guards it. A decided approval is not asked for again after a rework, a decision by a direct endpoint leaves its approval open, and
  the second approval of a seeded Task can cancel a reward whose ledger row stays.

## 7. What is left

- The times of Audit rows, with `replay_task`, whose answer depends on them.
- The registration of Agents and Profiles, and the in-memory twins, should the code come to rely on more than their locks.
