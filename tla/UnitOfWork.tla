----------------------------- MODULE UnitOfWork -----------------------------
(***************************************************************************)
(* Commands in PostgreSQL units of work (services/rcao/app/repository.py):   *)
(* an idempotency key is claimed, a Task row is moved to its next version,   *)
(* and the Audit and Outbox rows are written, all in one READ COMMITTED      *)
(* transaction that may be rolled back at any statement.  What an open       *)
(* transaction has inserted or locked is told by the place it has reached.   *)
(***************************************************************************)
EXTENDS Integers, FiniteSets

CONSTANTS
    Sessions,  \* database connections
    Tasks,
    Commands   \* transition commands [key, task, expected, actor]; the record is its fingerprint

ASSUME CommandAssumption == \A c \in Commands : c.task \in Tasks /\ c.expected \in Nat \ {0}

VARIABLES
    session,   \* per connection: its transaction
    version,   \* mvp_tasks: version
    claimed,   \* mvp_command_idempotency: completed commands
    log,       \* mvp_audit_logs: [target, before, after]
    outbox,    \* mvp_outbox_events: their unique keys
    members,   \* Agents the registry lets take part
    told,      \* answers given: <<request, what it was answered with>>
    wronged    \* commands refused as stale although they had been applied

rows == <<version, claimed, log, outbox>>
answers == <<told, wronged>>
uowVars == <<session, rows, members, answers>>

Free == [pc |-> "free"]
Open(s) == session[s] # Free
In(s, pc) == session[s].pc = pc
Goto(s, pc) == session' = [session EXCEPT ![s].pc = pc]
Close(s) == session' = [session EXCEPT ![s] = Free]
Doing(pcs) == {session[o].req : o \in {x \in Sessions : session[x].pc \in pcs}}

\* Outbox keys that open transactions have inserted: others wait for them.  A
\* command and a message enqueue their own key, a change of status its own.
KeysHeld == {r.key : r \in Doing({"updated", "inserted"})}
       \cup {<<r.id, r.status>> : r \in Doing({"moved", "retired"})}
       \cup {<<r.id, "ACTIVE">> : r \in Doing({"registered"})}
KeyFree(key) == key \notin KeysHeld /\ key \notin outbox

UowInit ==
    /\ session = [s \in Sessions |-> Free]
    /\ version = [t \in Tasks |-> 1]
    /\ claimed = {} /\ log = {} /\ outbox = {}
    /\ members \in {{c.actor : c \in Commands}}
    /\ told = {} /\ wronged = {}

Refuse(s) == Close(s) /\ UNCHANGED <<rows, members, answers>>

\* ensure_can_participate: registered, active and not expired, within its lists,
\* limits and memberships; members says for whom all of it holds.
MayTakePart(a) == a \in members

\* AuditWriter.append and OutboxWriter.enqueue, in the caller's transaction.
Append(target, before, after) ==
    log' = log \cup {[target |-> target, before |-> before, after |-> after]}
Enqueue(key) == outbox' = outbox \cup {key}

\* Process or connection lost, or a statement raises: everything is undone.
Rollback(s) == Open(s) /\ Refuse(s)

BeginCommand(s, c) ==
    /\ ~Open(s)
    /\ session' = [session EXCEPT ![s] = [pc |-> "claim", req |-> c]]
    /\ UNCHANGED <<rows, members, answers>>

\* Mutant: the key is looked up, and a claim nobody has committed is not seen.
ClaimIfUnseen(s) ==
    LET c == session[s].req
        same == {d \in claimed : d.key = c.key}
    IN
    /\ In(s, "claim") /\ MayTakePart(c.actor)
    /\ IF same = {} THEN Goto(s, "claimed") /\ UNCHANGED told
       ELSE Close(s) /\ told' = IF c \in same THEN told \cup {<<c, c>>} ELSE told
    /\ UNCHANGED <<rows, members, wronged>>

\* INSERT ... ON CONFLICT DO NOTHING waits for an open claim of the key.  A
\* completed command is answered again when it is this request, and a conflict
\* when it is another.
Claim(s) ==
    LET c == session[s].req
        same == {d \in claimed : d.key = c.key}
    IN
    /\ In(s, "claim") /\ MayTakePart(c.actor)
    /\ \A d \in Doing({"claimed", "updated"}) : d.key # c.key
    /\ IF same = {} THEN Goto(s, "claimed") /\ UNCHANGED told
       ELSE Close(s) /\ told' = IF c \in same THEN told \cup {<<c, c>>} ELSE told
    /\ UNCHANGED <<rows, members, wronged>>

\* SELECT ... WHERE version FOR UPDATE waits for the row; the UPDATE, Audit and
\* Outbox rows follow under its lock, and an Outbox key in use is an error.
UpdateTask(s) ==
    LET c == session[s].req IN
    /\ In(s, "claimed")
    /\ \A d \in Doing({"updated"}) : d.task # c.task
    /\ c.key \notin KeysHeld
    /\ IF version[c.task] = c.expected /\ c.key \notin outbox
       THEN Goto(s, "updated") /\ UNCHANGED wronged
       ELSE Close(s) /\ wronged' = IF c \in claimed THEN wronged \cup {c} ELSE wronged
    /\ UNCHANGED <<rows, members, told>>

CommitCommand(s) ==
    LET c == session[s].req IN
    /\ In(s, "updated") /\ Close(s)
    /\ version' = [version EXCEPT ![c.task] = @ + 1]
    /\ claimed' = claimed \cup {c}
    /\ Append(c.task, c.expected, c.expected + 1) /\ Enqueue(c.key)
    /\ told' = told \cup {<<c, c>>}
    /\ UNCHANGED <<members, wronged>>

\* The Owner suspends or restores an Agent, or changes its membership.
ChangeMember(a) ==
    /\ members' = IF a \in members THEN members \ {a} ELSE members \cup {a}
    /\ UNCHANGED <<session, rows, answers>>

CommandStep(s) ==
    (\E c \in Commands : BeginCommand(s, c)) \/ Claim(s) \/ UpdateTask(s) \/ CommitCommand(s)

-----------------------------------------------------------------------------
(* Properties *)

\* The caller of a command that took effect is never told that its version is
\* stale, however its retries race with it: transition_task (repository.py).
AppliedIsAnswered == wronged = {}

\* Each version of a Task has one Audit row and one completed command.
VersionsTold == \A t \in Tasks :
    /\ {l \in log : l.target = t} =
           {[target |-> t, before |-> v, after |-> v + 1] : v \in 1..(version[t] - 1)}
    /\ Cardinality({c \in claimed : c.task = t}) = version[t] - 1
=============================================================================
