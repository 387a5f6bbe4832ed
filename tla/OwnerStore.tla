----------------------------- MODULE OwnerStore -----------------------------
(***************************************************************************)
(* The Owner-Directed store that serves the HTTP application when no         *)
(* database is configured: OwnerDirectedStore (services/rcao/app/mvp.py).    *)
(* Its handlers run on a pool of threads without a lock, so each is split    *)
(* between its checks and its writes; the checks of one handler are one      *)
(* step, and so are writes nobody reads apart.                               *)
(***************************************************************************)
EXTENDS Integers

CONSTANTS
    Threads,    \* handlers that run at once
    Agents,
    TypeOf,     \* TypeOf[a]: agent_type
    RoleOf,     \* RoleOf[a]: role
    Suspended,  \* bound: the Agents whose status the Owner changes
    Tasks,
    Matters,    \* Board proposals and external Action requests
    Budget,     \* reward budget of a Task, in units
    MaxReward   \* bound: units of a reward the Owner approves

ASSUME StoreAssumption ==
    /\ DOMAIN TypeOf = Agents /\ DOMAIN RoleOf = Agents /\ Suspended \subseteq Agents
    /\ Budget \in Nat /\ MaxReward \in Nat

VARIABLES
    status, executive,  \* tasks
    active,             \* Agents whose status is ACTIVE
    evaluated,          \* Tasks with an Owner evaluation
    reward,             \* rewards
    booked,             \* reward_ledgers: the amount, or NotBooked
    queue,              \* approvals: OPEN, or the Owner's decision
    verdict,            \* owner_decision of proposals and external Actions
    desk,               \* per thread: what its handler has still to do
    raced               \* history: what two handlers worked on at once

taskVars == <<status, executive>>
rewardVars == <<evaluated, reward, booked>>
storeVars == <<taskVars, active, rewardVars, queue, verdict, desk, raced>>

None == "None"
NotBooked == -1
Decisions == {"APPROVE", "REJECT", "REQUEST_CHANGES", "HOLD"}

\* REQUEST_CHANGES is about Tasks; elsewhere it does what HOLD does.
DecisionsOn(kind) == IF kind = "TASK" THEN Decisions ELSE Decisions \ {"REQUEST_CHANGES"}

\* The seeded approvals have other ids than those record_audit gives.
Items == [kind : {"TASK", "REWARD"}, target : Tasks, by : {"SEED", "AUDIT"}] \cup
         [kind : {"MATTER"}, target : Matters, by : {"CREATE"}]

NoReward == [status |-> "Pending", proposed |-> 0, approved |-> 0]

\* A handler works on one record, for itself or for a decision of the approval
\* center, and carries along what it has read.
Direct == [decision |-> "NONE"]
Free == [pc |-> "free"]
Job(pc, kind, target, to, for) == [pc |-> pc, kind |-> kind, target |-> target, to |-> to, n |-> 0, for |-> for]
AmountJob(pc, target, n, for) == [Job(pc, "REWARD", target, None, for) EXCEPT !.n = n]

\* A Task is created later, or seeded before its Owner with its approvals open.
StoreInit == \E seeded \in SUBSET Tasks, e \in {a \in Agents : TypeOf[a] = "EXECUTIVE"} :
    /\ status = [t \in Tasks |-> IF t \in seeded THEN "OWNER_REVIEW" ELSE None]
    /\ executive = [t \in Tasks |-> e]
    /\ active = Agents /\ evaluated = {}
    /\ reward = [t \in Tasks |-> IF t \in seeded
                     THEN [NoReward EXCEPT !.status = "Proposed", !.proposed = Budget] ELSE NoReward]
    /\ booked = [t \in Tasks |-> NotBooked]
    /\ queue = [i \in Items |-> IF i.by = "SEED" /\ i.target \in seeded THEN "OPEN" ELSE None]
    /\ verdict = [x \in Matters |-> None]
    /\ desk = [h \in Threads |-> Free]
    /\ raced = {}

Allowed == [
    None         |-> {},
    DRAFT        |-> {"APPROVED", "CANCELLED"},
    APPROVED     |-> {"PLANNING", "CANCELLED"},
    PLANNING     |-> {"IN_PROGRESS", "BLOCKED", "CANCELLED"},
    IN_PROGRESS  |-> {"REVIEW", "BLOCKED", "CANCELLED"},
    REVIEW       |-> {"AUDIT", "REWORK", "BLOCKED"},
    AUDIT        |-> {"OWNER_REVIEW", "REWORK", "BLOCKED"},
    OWNER_REVIEW |-> {"COMPLETED", "REWORK", "REJECTED", "BLOCKED"},
    REWORK       |-> {"IN_PROGRESS", "CANCELLED", "BLOCKED"},
    BLOCKED      |-> {"IN_PROGRESS", "CANCELLED"},
    COMPLETED    |-> {}, REJECTED |-> {}, CANCELLED |-> {}]

-----------------------------------------------------------------------------
(* Who may act: everybody else is denied, and nothing changes *)

\* _require_task_executive, with the constitutional policy on START_TASK.
Leads(t, a) ==
    /\ a = executive[t] /\ a \in active /\ TypeOf[a] = "EXECUTIVE"
    /\ RoleOf[a] \in {"STRATEGY", "PRODUCT", "ENGINEERING", "OPERATIONS", "MANAGER"}

Judges(t, a, role) == a \in active /\ RoleOf[a] = role /\ a # executive[t]

Moves(t, target) == target \in Allowed[status[t]]

-----------------------------------------------------------------------------
(* Handlers *)

\* What a handler that passed its checks works on: the record, and the ledger
\* row of a reward it approves.  Approvals are filed with setdefault or under a
\* new id, which disturbs nobody.
Touches(job) ==
    IF job.pc \in {"free", "file", "ask"} THEN {}
    ELSE {<<job.kind, job.target>>} \cup
         (IF job.pc \in {"approve", "row", "keep"} THEN {<<"LEDGER", job.target>>} ELSE {})

\* Take a job up; whoever works on the same is noted, and nothing else happens.
TakeUp(h, job) ==
    /\ desk' = [desk EXCEPT ![h] = job]
    /\ raced' = raced \cup (Touches(job) \cap UNION {Touches(desk[g]) : g \in Threads \ {h}})
    /\ UNCHANGED <<taskVars, active, rewardVars, queue, verdict>>

IsFree(h) == desk[h] = Free
At(h, pc) == desk[h].pc = pc
Goto(h, pc) == desk' = [desk EXCEPT ![h].pc = pc] /\ UNCHANGED raced

\* The handler is done, or back in decide_approval, which records.
Done(h) ==
    /\ desk' = [desk EXCEPT ![h] = IF @.for = Direct THEN Free ELSE [@ EXCEPT !.pc = "record"]]
    /\ UNCHANGED raced

-----------------------------------------------------------------------------
(* Agents and Tasks.  The Owner's updates of one field and the creation of a   *)
(* record nobody knows yet are one step.                                      *)

SetAgentStatus(a) ==
    /\ active' = IF a \in active THEN active \ {a} ELSE active \cup {a}
    /\ UNCHANGED <<taskVars, rewardVars, queue, verdict, desk, raced>>

CreateTask(t, e) ==
    /\ status[t] = None
    /\ e \in active /\ TypeOf[e] = "EXECUTIVE"
    /\ status' = [status EXCEPT ![t] = "DRAFT"]
    /\ executive' = [executive EXCEPT ![t] = e]
    /\ UNCHANGED <<active, rewardVars, queue, verdict, desk, raced>>

\* In any status of the Task.
AssignExecutive(t, e) ==
    /\ status[t] # None
    /\ e \in active /\ TypeOf[e] = "EXECUTIVE"
    /\ executive' = [executive EXCEPT ![t] = e]
    /\ UNCHANGED <<status, active, rewardVars, queue, verdict, desk, raced>>

\* The Owner's targets need no Agent.
MayMove(t, target) ==
    /\ Moves(t, target)
    /\ \/ target \in {"APPROVED", "CANCELLED", "REJECTED", "REWORK", "BLOCKED"}
       \/ target = "COMPLETED" /\ t \in evaluated
       \/ \E a \in Agents :
             \/ target \in {"PLANNING", "IN_PROGRESS", "REVIEW"} /\ Leads(t, a)
             \/ target = "AUDIT" /\ Judges(t, a, "REVIEWER")
             \/ target = "OWNER_REVIEW" /\ Judges(t, a, "AUDITOR")

TransitionTask(h, t, target) ==
    /\ IsFree(h) /\ MayMove(t, target)
    /\ TakeUp(h, Job("move", "TASK", t, target, Direct))

SubmitReview(h, t, changes) ==
    /\ IsFree(h) /\ status[t] = "REVIEW"
    /\ \E a \in Agents : Judges(t, a, "REVIEWER")
    /\ TakeUp(h, Job("move", "TASK", t, IF changes THEN "REWORK" ELSE "AUDIT", Direct))

\* A FAIL leaves the Task where it is.
RecordAudit(h, t) ==
    /\ IsFree(h) /\ status[t] = "AUDIT"
    /\ \E a \in Agents : Judges(t, a, "AUDITOR")
    /\ TakeUp(h, Job("pass", "TASK", t, "OWNER_REVIEW", Direct))

Move(h) ==
    /\ At(h, "move") \/ At(h, "pass")
    /\ status' = [status EXCEPT ![desk[h].target] = desk[h].to]
    /\ IF At(h, "pass") THEN Goto(h, "file") ELSE Done(h)
    /\ UNCHANGED <<executive, active, rewardVars, queue, verdict>>

\* A PASS asks for approvals that are not there yet: one that has been decided
\* is not asked for again.
File(h) ==
    /\ At(h, "file")
    /\ queue' = [i \in Items |->
          IF i.by = "AUDIT" /\ i.target = desk[h].target /\ queue[i] = None THEN "OPEN" ELSE queue[i]]
    /\ Done(h)
    /\ UNCHANGED <<taskVars, active, rewardVars, verdict>>

-----------------------------------------------------------------------------
(* Evaluation and reward *)

EvaluateTask(h, t, n) ==
    /\ IsFree(h) /\ status[t] = "OWNER_REVIEW"
    /\ TakeUp(h, AmountJob("evaluate", t, n, Direct))

\* A later evaluation replaces the earlier one.
Evaluate(h) ==
    /\ At(h, "evaluate")
    /\ evaluated' = evaluated \cup {desk[h].target}
    /\ Goto(h, "look")
    /\ UNCHANGED <<taskVars, active, reward, booked, queue, verdict>>

\* Only a pending reward is proposed.
Look(h) ==
    /\ At(h, "look")
    /\ IF reward[desk[h].target].status = "Pending" THEN Goto(h, "propose") ELSE Done(h)
    /\ UNCHANGED <<taskVars, active, rewardVars, queue, verdict>>

Propose(h) ==
    /\ At(h, "propose")
    /\ reward' = [reward EXCEPT ![desk[h].target].status = "Proposed", ![desk[h].target].proposed = desk[h].n]
    /\ Done(h)
    /\ UNCHANGED <<taskVars, active, evaluated, booked, queue, verdict>>

\* Mutant: a cancelled reward can be approved.
MayApproveAgain(t) == t \in evaluated /\ status[t] \in {"OWNER_REVIEW", "COMPLETED"}

MayApprove(t) ==
    /\ t \in evaluated /\ status[t] \in {"OWNER_REVIEW", "COMPLETED"}
    /\ reward[t].status \in {"Pending", "Proposed"}

\* More than the budget needs a reason, which the Owner may give.
ApproveReward(h, t, n) ==
    /\ IsFree(h) /\ MayApprove(t)
    /\ TakeUp(h, AmountJob("approve", t, n, Direct))

Approve(h) ==
    /\ At(h, "approve")
    /\ reward' = [reward EXCEPT ![desk[h].target].status = "Approved", ![desk[h].target].approved = desk[h].n]
    /\ Goto(h, "row")
    /\ UNCHANGED <<taskVars, active, evaluated, booked, queue, verdict>>

\* Mutant: the row takes the proposed amount.
ReadProposed(h) ==
    /\ At(h, "row")
    /\ desk' = [desk EXCEPT ![h] = AmountJob("keep", @.target, reward[@.target].proposed, @.for)]
    /\ UNCHANGED <<taskVars, active, rewardVars, queue, verdict, raced>>

\* The row is built from the reward, and stored.
ReadAmount(h) ==
    /\ At(h, "row")
    /\ desk' = [desk EXCEPT ![h] = AmountJob("keep", @.target, reward[@.target].approved, @.for)]
    /\ UNCHANGED <<taskVars, active, rewardVars, queue, verdict, raced>>

KeepRow(h) ==
    /\ At(h, "keep")
    /\ booked' = [booked EXCEPT ![desk[h].target] = desk[h].n]
    /\ Done(h)
    /\ UNCHANGED <<taskVars, active, evaluated, reward, queue, verdict>>

-----------------------------------------------------------------------------
(* Proposals and external Actions *)

\* create_proposal, create_external_action: by an active Agent or by the Owner.
CreateMatter(h, x) ==
    /\ IsFree(h) /\ verdict[x] = None
    /\ verdict' = [verdict EXCEPT ![x] = "OPEN"]
    /\ desk' = [desk EXCEPT ![h] = Job("ask", "MATTER", x, None, Direct)]
    /\ UNCHANGED <<taskVars, active, rewardVars, queue, raced>>

Ask(h) ==
    /\ At(h, "ask")
    /\ queue' = [queue EXCEPT ![[kind |-> "MATTER", target |-> desk[h].target, by |-> "CREATE"]] = "OPEN"]
    /\ Done(h)
    /\ UNCHANGED <<taskVars, active, rewardVars, verdict>>

\* decide_proposal and decide_external_action, without the approval center.
DecideDirectly(h, x, decision) ==
    /\ IsFree(h) /\ verdict[x] = "OPEN"
    /\ TakeUp(h, Job("judge", "MATTER", x, decision, Direct))

Judge(h) ==
    /\ At(h, "judge")
    /\ verdict' = [verdict EXCEPT ![desk[h].target] = desk[h].to]
    /\ Done(h)
    /\ UNCHANGED <<taskVars, active, rewardVars, queue>>

-----------------------------------------------------------------------------
(* decide_approval *)

BeginDecision(h, i, decision) ==
    /\ IsFree(h) /\ queue[i] = "OPEN"
    /\ TakeUp(h, Job("carry", i.kind, i.target, None, [item |-> i, decision |-> decision]))

\* The checks of what it calls, when they pass.
CarryOut(h) ==
    LET t == desk[h].target
        kind == desk[h].kind
        d == desk[h].for.decision
        Call(pc, to) == TakeUp(h, Job(pc, kind, t, to, desk[h].for))
    IN
    /\ At(h, "carry")
    /\ \/ /\ kind = "TASK"
          /\ \/ d = "APPROVE" /\ MayMove(t, "COMPLETED") /\ Call("move", "COMPLETED")
             \/ d = "REQUEST_CHANGES" /\ MayMove(t, "REWORK") /\ Call("move", "REWORK")
             \/ d = "REJECT" /\ MayMove(t, "REJECTED") /\ Call("move", "REJECTED")
       \/ /\ kind = "REWARD"
          /\ \/ d = "APPROVE" /\ MayApprove(t) /\ TakeUp(h, AmountJob("approve", t, reward[t].proposed, desk[h].for))
             \/ d = "REJECT" /\ Call("cancel", None)
       \/ kind = "MATTER" /\ verdict[t] = "OPEN" /\ Call("judge", d)
       \/ kind # "MATTER" /\ d = "HOLD" /\ Call("record", None)

\* A rejected reward is cancelled in whatever status it is; its row stays.
CancelReward(h) ==
    /\ At(h, "cancel")
    /\ reward' = [reward EXCEPT ![desk[h].target].status = "Cancelled"]
    /\ Done(h)
    /\ UNCHANGED <<taskVars, active, evaluated, booked, queue, verdict>>

\* What is decided on refuses: the approval stays open.
Raise(h) ==
    /\ At(h, "carry")
    /\ desk' = [desk EXCEPT ![h] = Free]
    /\ UNCHANGED <<taskVars, active, rewardVars, queue, verdict, raced>>

RecordDecision(h) ==
    /\ At(h, "record")
    /\ queue' = [queue EXCEPT ![desk[h].for.item] = desk[h].for.decision]
    /\ desk' = [desk EXCEPT ![h] = Free]
    /\ UNCHANGED <<taskVars, active, rewardVars, verdict, raced>>

-----------------------------------------------------------------------------

OwnerNext ==
    \/ \E a \in Suspended : SetAgentStatus(a)
    \/ \E t \in Tasks, a \in Agents : CreateTask(t, a) \/ AssignExecutive(t, a)

CommandNext(h) ==
    \/ \E t \in Tasks :
          \/ \E target \in DOMAIN Allowed : TransitionTask(h, t, target)
          \/ \E b \in BOOLEAN : SubmitReview(h, t, b)
          \/ RecordAudit(h, t)
          \/ \E n \in 0..Budget : EvaluateTask(h, t, n)
          \/ \E n \in 0..MaxReward : ApproveReward(h, t, n)
    \/ \E x \in Matters : CreateMatter(h, x) \/ \E d \in DecisionsOn("MATTER") : DecideDirectly(h, x, d)
    \/ \E i \in Items : \E d \in DecisionsOn(i.kind) : BeginDecision(h, i, d)

HandlerNext(h) ==
    \/ Move(h) \/ File(h) \/ Evaluate(h) \/ Look(h) \/ Propose(h)
    \/ Approve(h) \/ ReadAmount(h) \/ KeepRow(h) \/ Ask(h) \/ Judge(h)
    \/ CarryOut(h) \/ CancelReward(h) \/ Raise(h) \/ RecordDecision(h)

StoreNext == OwnerNext \/ \E h \in Threads : CommandNext(h) \/ HandlerNext(h)

StoreSpec == StoreInit /\ [][StoreNext]_storeVars

-----------------------------------------------------------------------------
(* Properties *)

Rejected(t) == \E i \in Items : i.kind = "REWARD" /\ i.target = t /\
    (queue[i] = "REJECT" \/ \E h \in Threads : At(h, "record") /\ desk[h].for = [item |-> i, decision |-> "REJECT"])

Alone(kind, t) == <<kind, t>> \notin raced

\* What the approval center records and what became of it agree for good, for
\* any number of handlers, of everything that no two of them worked on at once:
\* a completion it approved or rejected stands, a reward it rejected stays
\* cancelled, and one it approved stays approved unless the second approval of
\* a seeded Task rejected it (decide_approval).
DecisionsHold == \A i \in Items : Alone(i.kind, i.target) =>
    /\ i.kind = "TASK" =>
          /\ queue[i] = "APPROVE" => status[i.target] = "COMPLETED"
          /\ queue[i] = "REJECT" => status[i.target] = "REJECTED"
    /\ i.kind = "REWARD" =>
          /\ queue[i] = "APPROVE" => reward[i.target].status = "Approved" \/ Rejected(i.target)
          /\ queue[i] = "REJECT" => reward[i.target].status = "Cancelled"
    /\ i.kind = "MATTER" => queue[i] \in {None, "OPEN", verdict[i.target]}

Booking(t) == \E h \in Threads : desk[h].pc \in {"row", "keep"} /\ desk[h].target = t

\* Whatever the handlers do at once: a row of the reward ledger rests on an
\* evaluation, a reward that is approved or was approved in the approval center has
\* its row as soon as its handler is done, and the two amounts agree unless two
\* handlers approved that reward at once.
LedgerRests == \A t \in Tasks :
    /\ booked[t] # NotBooked => t \in evaluated
    /\ reward[t].status = "Approved" => booked[t] # NotBooked \/ Booking(t)
    /\ booked[t] # NotBooked /\ Alone("LEDGER", t) => reward[t].approved = booked[t] \/ Booking(t)
    /\ \A i \in Items : i.kind = "REWARD" /\ i.target = t /\ queue[i] = "APPROVE" => booked[t] # NotBooked
=============================================================================
