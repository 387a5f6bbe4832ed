------------------------------ MODULE TaskWorkflow ------------------------------
(***************************************************************************)
(* The commands on an Owner Task, from its draft to its reward               *)
(* (services/rcao/app/task_workflow.py), on top of the Treasury they move.   *)
(*                                                                         *)
(* Each command is one transaction.  It claims its idempotency key, locks    *)
(* the row it decides on (the Task, or the approval and then what it is      *)
(* about), and reads everything else under that lock, so a command is one    *)
(* step, and a replayed key none.                                            *)
(***************************************************************************)
EXTENDS VirtualLedger, Sequences, SequencesExt

CONSTANTS
    Agents,     \* registered Agents
    TypeOf,     \* TypeOf[a]: agent_type
    RoleOf,     \* RoleOf[a]: role
    MaxAudits   \* bound: audits of a Task

ASSUME WorkflowAssumption ==
    DOMAIN TypeOf = Agents /\ DOMAIN RoleOf = Agents /\ MaxAudits \in Nat

VARIABLES
    status,     \* mvp_tasks.status, "None" before the Task is created
    executive,  \* mvp_tasks.assigned_executive_agent_id
    payee,      \* reward_allocations.agent_id
    members,    \* per Task the Agents whose registration and membership are in force
    reviewers,  \* mvp_reviews: the Agents who have reviewed
    audits,     \* mvp_audits: the auditor and the result of each audit
    evaluated,  \* owner_evaluations: the Tasks evaluated
    approvals   \* approval_requests: what the Owner decided, "OPEN" before

assignVars == <<executive, payee, members>>
verdictVars == <<reviewers, audits, evaluated, approvals>>
taskVars == <<status, assignVars, verdictVars>>
workflowVars == <<taskVars, ledgerVars>>

Owner == "Owner"
NoAgent == "none"
Decisions == {"APPROVE", "REJECT", "REQUEST_CHANGES", "HOLD"}

\* One approval of each kind per audit that passed.
ApprovalIds == [task : Tasks, audit : 1..MaxAudits, kind : {"TASK_COMPLETION", "REWARD"}]
Completion(t, n) == [task |-> t, audit |-> n, kind |-> "TASK_COMPLETION"]
Reward(t, n) == [task |-> t, audit |-> n, kind |-> "REWARD"]

WorkflowInit ==
    /\ LedgerInit
    /\ status = [t \in Tasks |-> "None"]
    /\ executive = [t \in Tasks |-> NoAgent] /\ payee = [t \in Tasks |-> NoAgent]
    /\ members = [t \in Tasks |-> {}] /\ reviewers = [t \in Tasks |-> {}]
    /\ audits = [t \in Tasks |-> <<>>]
    /\ evaluated = {}
    /\ approvals = [i \in ApprovalIds |-> "None"]

Allowed == [
    None         |-> {},
    DRAFT        |-> {"APPROVED", "CANCELLED"},
    APPROVED     |-> {"PLANNING", "CANCELLED"},
    PLANNING     |-> {"IN_PROGRESS", "BLOCKED", "CANCELLED"},
    IN_PROGRESS  |-> {"REVIEW", "BLOCKED", "CANCELLED"},
    REVIEW       |-> {"AUDIT", "REWORK", "BLOCKED"},
    AUDIT        |-> {"OWNER_REVIEW", "REWORK", "BLOCKED"},
    OWNER_REVIEW |-> {"COMPLETED", "REWORK", "REJECTED", "BLOCKED"},
    REWORK       |-> {"IN_PROGRESS", "CANCELLED", "BLOCKED"},
    BLOCKED      |-> {"IN_PROGRESS", "CANCELLED"},
    COMPLETED    |-> {}, REJECTED |-> {}, CANCELLED |-> {}]
Statuses == DOMAIN Allowed

-----------------------------------------------------------------------------
(* Who may act *)

\* _require_agent_member
Member(t, who) == who \in members[t]
IsExecutive(t, who) == Member(t, who) /\ who = executive[t] /\ TypeOf[who] = "EXECUTIVE"

\* Mutant: the executor reviews and audits as well.
HasRole(t, who, role) == Member(t, who) /\ RoleOf[who] = role

\* A Reviewer or Auditor who is not the Task's Executive.
Independent(t, who, role) == Member(t, who) /\ RoleOf[who] = role /\ who # executive[t]

\* transition_task: who may move the Task to target.
May(t, who, target) ==
    \/ /\ target \in {"APPROVED", "CANCELLED", "COMPLETED", "REJECTED", "REWORK"} /\ who = Owner
       /\ target = "COMPLETED" => t \in evaluated
    \/ target \in {"PLANNING", "IN_PROGRESS", "REVIEW"} /\ IsExecutive(t, who)
    \/ target = "AUDIT" /\ Independent(t, who, "REVIEWER")
    \/ target = "OWNER_REVIEW" /\ Independent(t, who, "AUDITOR")
    \/ target = "BLOCKED" /\ (who = Owner \/ IsExecutive(t, who) \/ Independent(t, who, "AUDITOR"))

-----------------------------------------------------------------------------
(* Commands *)

Move(t, target) == status' = [status EXCEPT ![t] = target]

CreateTask(t, e) ==
    /\ status[t] = "None" /\ TypeOf[e] = "EXECUTIVE"
    /\ Move(t, "DRAFT")
    /\ executive' = [executive EXCEPT ![t] = e]
    /\ payee' = [payee EXCEPT ![t] = e]
    /\ members' = [members EXCEPT ![t] = {e}]
    /\ OpenAllocation(t)
    /\ UNCHANGED <<verdictVars, account, entries>>

\* Every other membership of the Task ends.
AssignExecutive(t, e) ==
    /\ status[t] = "DRAFT" /\ TypeOf[e] = "EXECUTIVE"
    /\ executive' = [executive EXCEPT ![t] = e]
    /\ members' = [members EXCEPT ![t] = {e}]
    /\ payee' = IF allocations[t].status = "Pending" THEN [payee EXCEPT ![t] = e] ELSE payee
    /\ UNCHANGED <<status, verdictVars, ledgerVars>>

\* In any status of the Task.  A Sub Task of the Owner's makes its Agent a member;
\* one of the Executive's needs a member and changes nothing modelled here.
CreateSubtask(t, a) ==
    /\ status[t] # "None"
    /\ TypeOf[a] = "EXECUTIVE" => a = executive[t]
    /\ members' = [members EXCEPT ![t] = @ \cup {a}]
    /\ UNCHANGED <<status, executive, payee, verdictVars, ledgerVars>>

TransitionTask(t, who, target) ==
    /\ target \in Allowed[status[t]] /\ May(t, who, target)
    /\ Move(t, target)
    /\ UNCHANGED <<assignVars, verdictVars, ledgerVars>>

SubmitReview(t, a, changes) ==
    /\ status[t] = "REVIEW" /\ Independent(t, a, "REVIEWER")
    /\ reviewers' = [reviewers EXCEPT ![t] = @ \cup {a}]
    /\ Move(t, IF changes THEN "REWORK" ELSE "AUDIT")
    /\ UNCHANGED <<assignVars, audits, evaluated, approvals, ledgerVars>>

\* Mutant: the approvals are requested whatever the result is.
RequestAlways(t, n, result) == [approvals EXCEPT ![Completion(t, n)] = "OPEN", ![Reward(t, n)] = "OPEN"]

\* The approvals of audit n, PASS standing for PASS_WITH_CONDITIONS and FAIL for
\* OWNER_REVIEW_REQUIRED as well.
Request(t, n, result) ==
    IF result = "PASS"
    THEN [approvals EXCEPT ![Completion(t, n)] = "OPEN", ![Reward(t, n)] = "OPEN"]
    ELSE approvals

RecordAudit(t, a, result) ==
    LET n == Len(audits[t]) + 1 IN
    /\ n <= MaxAudits
    /\ status[t] = "AUDIT" /\ Independent(t, a, "AUDITOR")
    /\ audits' = [audits EXCEPT ![t] = Append(@, [auditor |-> a, result |-> result])]
    /\ Move(t, IF result = "PASS" THEN "OWNER_REVIEW" ELSE "REWORK")
    /\ approvals' = Request(t, n, result)
    /\ UNCHANGED <<assignVars, reviewers, evaluated, ledgerVars>>

\* One evaluation per Task, before a rework or after it.
EvaluateTask(t, quality) ==
    /\ status[t] = "OWNER_REVIEW" /\ t \notin evaluated
    /\ evaluated' = evaluated \cup {t}
    /\ ProposeReward(t, quality)
    /\ UNCHANGED <<status, assignVars, reviewers, audits, approvals, account, entries>>

Undecided(i) == approvals[i] = "OPEN"
Decide(i, decision) == approvals' = [approvals EXCEPT ![i] = decision]

Verdict == [APPROVE |-> "COMPLETED", REQUEST_CHANGES |-> "REWORK", REJECT |-> "REJECTED"]

\* Mutant: the Task may have left the Owner's review.
CompletionAnytime(i, decision) ==
    LET t == i.task IN
    /\ Undecided(i) /\ i.kind = "TASK_COMPLETION"
    /\ decision = "APPROVE" => t \in evaluated
    /\ Decide(i, decision)
    /\ Move(t, IF decision = "HOLD" THEN status[t] ELSE Verdict[decision])
    /\ UNCHANGED <<assignVars, reviewers, audits, evaluated, ledgerVars>>

\* decide_approval of a TASK_COMPLETION.
DecideCompletion(i, decision) ==
    LET t == i.task IN
    /\ Undecided(i) /\ i.kind = "TASK_COMPLETION"
    /\ status[t] = "OWNER_REVIEW"
    /\ decision = "APPROVE" => t \in evaluated
    /\ Decide(i, decision)
    /\ Move(t, IF decision = "HOLD" THEN status[t] ELSE Verdict[decision])
    /\ UNCHANGED <<assignVars, reviewers, audits, evaluated, ledgerVars>>

\* Mutant: a rejection marks the allocation and leaves the account alone.
RewardMarked(i, decision, k, n) ==
    LET t == i.task IN
    /\ Undecided(i) /\ i.kind = "REWARD"
    /\ \/ decision = "APPROVE" /\ t \in evaluated /\ ReserveReward(k, t, n)
       \/ /\ decision = "REJECT" /\ UNCHANGED <<account, entries>>
          /\ allocations' = [allocations EXCEPT ![t].status = "Cancelled", ![t].reserved = 0]
       \/ decision \in {"REQUEST_CHANGES", "HOLD"} /\ UNCHANGED ledgerVars
    /\ Decide(i, decision)
    /\ UNCHANGED <<status, assignVars, reviewers, audits, evaluated>>

\* decide_approval of a REWARD, in any status of the Task.  The Owner approves
\* what was proposed or names an amount.
DecideReward(i, decision, k, n) ==
    LET t == i.task IN
    /\ Undecided(i) /\ i.kind = "REWARD"
    /\ \/ decision = "APPROVE" /\ t \in evaluated /\ ReserveReward(k, t, n)
       \/ decision = "REJECT" /\ CancelReward(k, t)
       \/ decision \in {"REQUEST_CHANGES", "HOLD"} /\ UNCHANGED ledgerVars
    /\ Decide(i, decision)
    /\ UNCHANGED <<status, assignVars, reviewers, audits, evaluated>>

\* The registry: assign_membership, and a suspension, a retirement or an expiry.
AssignMembership(t, a) ==
    /\ status[t] # "None"
    /\ members' = [members EXCEPT ![t] = @ \cup {a}]
    /\ UNCHANGED <<status, executive, payee, verdictVars, ledgerVars>>

LoseMembership(t, a) ==
    /\ members' = [members EXCEPT ![t] = @ \ {a}]
    /\ UNCHANGED <<status, executive, payee, verdictVars, ledgerVars>>

AgentCommand(t, a) ==
    \/ CreateTask(t, a) \/ AssignExecutive(t, a)
    \/ CreateSubtask(t, a)
    \/ \E changes \in BOOLEAN : SubmitReview(t, a, changes)
    \/ \E result \in {"PASS", "FAIL"} : RecordAudit(t, a, result)
    \/ AssignMembership(t, a) \/ LoseMembership(t, a)

WorkflowNext ==
    \/ \E t \in Tasks :
         \/ \E a \in Agents : AgentCommand(t, a)
         \/ \E who \in Agents \cup {Owner}, target \in Statuses : TransitionTask(t, who, target)
         \/ \E quality \in Qualities : EvaluateTask(t, quality)
    \/ \E i \in ApprovalIds, decision \in Decisions :
         \/ DecideCompletion(i, decision)
         \/ \E k \in Keys, n \in 0..BudgetOf[i.task] : DecideReward(i, decision, k, n)
    \/ \E k \in Keys :
         /\ \/ \E n \in Amounts : FundTreasury(k, n)
            \/ \E t \in Tasks, bps \in Rates : PayReward(k, t, bps)
         /\ UNCHANGED taskVars

WorkflowSpec == WorkflowInit /\ [][WorkflowNext]_workflowVars

-----------------------------------------------------------------------------
(* Properties *)

WorkflowTypeOK ==
    /\ LedgerTypeOK
    /\ status \in [Tasks -> Statuses]
    /\ executive \in [Tasks -> Agents \cup {NoAgent}] /\ payee \in [Tasks -> Agents \cup {NoAgent}]
    /\ members \in [Tasks -> SUBSET Agents] /\ reviewers \in [Tasks -> SUBSET Agents]
    /\ audits \in [Tasks -> Seq([auditor : Agents, result : {"PASS", "FAIL"}])]
    /\ evaluated \subseteq Tasks
    /\ approvals \in [ApprovalIds -> Decisions \cup {"None", "OPEN"}]

Passed(t, n) == n \in DOMAIN audits[t] /\ audits[t][n].result = "PASS"

\* A reward that is reserved or paid was evaluated, and approved by the Owner on
\* the ground of an audit that passed, however often the Task was reworked and
\* whatever happened to it since.
RewardWasDecided == \A t \in Tasks : allocations[t].status \in {"Reserved", "Paid"} =>
    t \in evaluated /\ \E n \in 1..MaxAudits : Passed(t, n) /\ approvals[Reward(t, n)] = "APPROVE"

\* A completed Task was evaluated, and an approved completion stands: the Task
\* is completed and stays so, and no second audit's approval contradicts it.
CompletionStands == \A t \in Tasks :
    /\ status[t] = "COMPLETED" => t \in evaluated
    /\ \A n \in 1..MaxAudits :
         /\ approvals[Completion(t, n)] = "APPROVE" => status[t] = "COMPLETED"
         /\ approvals[Completion(t, n)] = "REJECT" => status[t] = "REJECTED"

\* Nobody reviews or audits a Task as its Executive, through all reassignments,
\* and the reward goes to the Executive.
HandsApart == \A t \in Tasks :
    /\ executive[t] \notin reviewers[t]
    /\ \A n \in DOMAIN audits[t] : audits[t][n].auditor # executive[t]
    /\ payee[t] = executive[t]

\* What a workflow command does to the Treasury, one command of the ledger does
\* (or none): what holds of the ledger holds under every workflow.
OneLedgerCommand == LedgerSpec
=============================================================================
