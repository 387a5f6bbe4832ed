--------------------------- MODULE MessageGateway ---------------------------
(***************************************************************************)
(* The Agent-to-Agent gateway (services/rcao/app/a2a.py) beside the Task     *)
(* commands and the records of Evidence and Memory: all write the Audit log  *)
(* and the Outbox, whose keys are unique over all.  send checks expiry, registry and parent, looks for an earlier *)
(* message and inserts; transition_status moves a message under its row lock.*)
(***************************************************************************)
EXTENDS EvidenceMemory

CONSTANTS
    Envelopes,  \* requests [id, key, from, nonce, to, task, parent, expiry]
    NoParent,   \* parent of an envelope that has none
    MaxTime     \* bound of the clock

\* An Audit row names the type of its target with its id, and so do the Outbox
\* keys of messages and records: one id stands for one target.
ASSUME TargetAssumption == LET ids == {e.id : e \in Envelopes} IN
    Tasks \cap ids = {} /\ Tasks \cap RecordIds = {} /\ ids \cap RecordIds = {}

VARIABLES
    messages,  \* mvp_agent_messages: by id, the envelope and its status
    clock

gatewayVars == <<uowVars, records, messages, clock>>

Ids == {e.id : e \in Envelopes}
NoMessage == [status |-> "NONE"]
IsStored(i) == messages[i] # NoMessage
Stored == {messages[i].env : i \in {j \in Ids : IsStored(j)}}
Statuses == {"SENT", "DELIVERED", "ACKNOWLEDGED", "CONSUMED", "REJECTED", "EXPIRED"}

\* MESSAGE_STATUS_TRANSITIONS
Successors == [st \in Statuses |->
    IF st = "SENT" THEN {"DELIVERED", "REJECTED", "EXPIRED"}
    ELSE IF st = "DELIVERED" THEN {"ACKNOWLEDGED", "REJECTED", "EXPIRED"}
    ELSE IF st = "ACKNOWLEDGED" THEN {"CONSUMED", "EXPIRED"}
    ELSE {}]

GatewayInit ==
    /\ UowInit /\ EvidenceInit
    /\ messages = [i \in Ids |-> NoMessage]
    /\ clock = 0

\* A key, a sender's nonce and an id are unique.
Clash(e, f) == e.key = f.key \/ (e.from = f.from /\ e.nonce = f.nonce) \/ e.id = f.id

\* Rows a transaction has locked with FOR UPDATE.
Locked(i) == i \in {r.id : r \in Doing({"moved"})}

-----------------------------------------------------------------------------
(* send *)

\* now is taken before the transaction is opened.
BeginSend(s, e) ==
    /\ ~Open(s)
    /\ session' = [session EXCEPT ![s] = [pc |-> "check", req |-> e, now |-> clock]]
    /\ UNCHANGED <<rows, members, answers, messages, clock>>

\* _validate_registry_scope and _validate_parent read without locks.
CheckSend(s) ==
    LET e == session[s].req IN
    /\ In(s, "check")
    /\ session[s].now < e.expiry
    /\ MayTakePart(e.from) /\ MayTakePart(e.to) /\ e.from # e.to
    /\ e.parent # NoParent => \E f \in Stored : f.id = e.parent /\ f.task = e.task
    /\ Goto(s, "lookup")
    /\ UNCHANGED <<rows, members, answers, messages, clock>>

\* Mutant: a message with the key is returned for whatever request.
ReplayByKey(s) ==
    LET e == session[s].req
        found == {f \in Stored : f.key = e.key}
    IN
    /\ In(s, "lookup") /\ found # {}
    /\ Close(s) /\ told' = told \cup {<<e, f>> : f \in found}
    /\ UNCHANGED <<rows, members, wronged, messages, clock>>

\* A stored message of this very request is its answer.
Replay(s) ==
    LET e == session[s].req IN
    /\ In(s, "lookup") /\ e \in Stored /\ ~Locked(e.id)
    /\ Close(s) /\ told' = told \cup {<<e, e>>}
    /\ UNCHANGED <<rows, members, wronged, messages, clock>>

NotFound(s) ==
    /\ In(s, "lookup") /\ \A f \in Stored : ~Clash(session[s].req, f)
    /\ Goto(s, "insert")
    /\ UNCHANGED <<rows, members, answers, messages, clock>>

\* The unique keys wait for open inserts and refuse committed ones.
InsertSend(s) ==
    LET e == session[s].req IN
    /\ In(s, "insert")
    /\ \A f \in Stored \cup Doing({"inserted"}) : ~Clash(e, f)
    /\ KeyFree(e.key)
    /\ Goto(s, "inserted")
    /\ UNCHANGED <<rows, members, answers, messages, clock>>

CommitSend(s) ==
    LET e == session[s].req IN
    /\ In(s, "inserted") /\ Close(s)
    /\ messages' = [messages EXCEPT ![e.id] = [env |-> e, status |-> "SENT"]]
    /\ Append(e.id, "NONE", "SENT") /\ Enqueue(e.key)
    /\ told' = told \cup {<<e, e>>}
    /\ UNCHANGED <<version, claimed, members, wronged, clock>>

-----------------------------------------------------------------------------
(* transition_status *)

\* now is taken before the row is locked.
BeginMove(s, i, st) ==
    /\ ~Open(s) /\ IsStored(i)
    /\ session' = [session EXCEPT ![s] =
                      [pc |-> "fetch", req |-> [id |-> i, status |-> st], now |-> clock]]
    /\ UNCHANGED <<rows, members, answers, messages, clock>>

\* Only an expired message may be marked so, and nothing else may be done with it.
MayMove(m, st, now) ==
    /\ st \in Successors[m.status]
    /\ (st = "EXPIRED") = (m.env.expiry <= now)
    /\ MayTakePart(m.env.to)

FetchAndUpdate(s) ==
    LET r == session[s].req IN
    /\ In(s, "fetch") /\ ~Locked(r.id)
    /\ MayMove(messages[r.id], r.status, session[s].now)
    /\ KeyFree(<<r.id, r.status>>)
    /\ Goto(s, "moved")
    /\ UNCHANGED <<rows, members, answers, messages, clock>>

CommitMove(s) ==
    LET r == session[s].req
        m == messages[r.id]
    IN
    /\ In(s, "moved") /\ Close(s)
    /\ messages' = [messages EXCEPT ![r.id].status = r.status]
    /\ Append(r.id, m.status, r.status) /\ Enqueue(<<r.id, r.status>>)
    /\ UNCHANGED <<version, claimed, members, answers, clock>>

-----------------------------------------------------------------------------
Tick ==
    /\ clock < MaxTime /\ clock' = clock + 1
    /\ UNCHANGED <<uowVars, records, messages>>

MessageStep(s) ==
    \/ \E e \in Envelopes : BeginSend(s, e)
    \/ CheckSend(s) \/ Replay(s) \/ NotFound(s) \/ InsertSend(s) \/ CommitSend(s)
    \/ \E i \in Ids, st \in Statuses \ {"SENT"} : BeginMove(s, i, st)
    \/ FetchAndUpdate(s) \/ CommitMove(s)

\* A guard above that fails is an exception, and so a Rollback; the replay of a
\* status, which writes nothing, is one too.
GatewayNext ==
    \/ \E s \in Sessions : MessageStep(s) /\ UNCHANGED records
    \/ \E s \in Sessions : EvidenceStep(s) /\ UNCHANGED <<messages, clock>>
    \/ /\ \/ \E s \in Sessions : CommandStep(s) \/ Rollback(s)
          \/ \E a \in UNION {{e.from, e.to} : e \in Envelopes} : ChangeMember(a)
       /\ UNCHANGED <<records, messages, clock>>
    \/ Tick

GatewaySpec == GatewayInit /\ [][GatewayNext]_gatewayVars

-----------------------------------------------------------------------------
(* Properties *)

\* A request is only ever answered with what was stored for this very request,
\* a registration with a record of its id and content, and what it was told is
\* stored: send, transition_task, register_evidence and register_memory, with
\* their retries, races and rollbacks.
OwnAnswer == \A a \in told :
    /\ a[2] \in Stored \cup claimed \cup Registered
    /\ a[1] = a[2] \/ (a[2] \in Registered /\ a[1].kind = a[2].kind /\ SameContent(a[1], a[2]))

\* The Audit rows of every message are one path through the status graph that
\* ends in its status, those of Tasks and records tell their versions and
\* statuses; each Audit row has its Outbox row, and there are no others.
StoryTold ==
    /\ VersionsTold /\ RecordsTold
    /\ \A i \in Ids : LET story == {l \in log : l.target = i} IN
          /\ {l.before : l \in story} \cup {messages[i].status} = {l.after : l \in story} \cup {"NONE"}
          /\ Cardinality({l.after : l \in story}) = Cardinality(story)
          /\ \A l \in story : l.before # "NONE" => l.after \in Successors[l.before]
    /\ outbox = {r.key : r \in Stored \cup claimed} \cup
          {<<l.target, l.after>> : l \in {x \in log : x.target \in RecordIds \/
                                                    (x.target \in Ids /\ x.before # "NONE")}}
    /\ Cardinality(outbox) = Cardinality(log)
=============================================================================
