--------------------------- MODULE EvidenceMemory ---------------------------
(***************************************************************************)
(* Evidence and Memory in PostgreSQL (services/rcao/app/evidence_memory.py): *)
(* a registration looks for its key and inserts, a record is revoked or       *)
(* expired once, and each change writes its Audit and Outbox row in the same  *)
(* unit of work.  Searches read and are left out.                            *)
(***************************************************************************)
EXTENDS UnitOfWork

CONSTANTS
    Registrations,  \* requests [kind, id, key, content, scope, source]
    MaskOf,         \* MaskOf[content]: what masking leaves of it, equal to its hash
    NoSource        \* source of Evidence, and of Memory without one

ASSUME EvidenceAssumption ==
    /\ \A r \in Registrations :
          /\ DOMAIN r = {"kind", "id", "key", "content", "scope", "source"}
          /\ r.content \in DOMAIN MaskOf
    /\ \A r, q \in Registrations : r.id = q.id => r.kind = q.kind

VARIABLE
    records  \* mvp_evidence and mvp_memory_items: by id, the record and its status

RecordIds == {r.id : r \in Registrations}
NoRecord == [status |-> "NONE"]
Registered == {records[i].of : i \in {j \in RecordIds : records[j] # NoRecord}}

EvidenceInit == records = [i \in RecordIds |-> NoRecord]

\* from_registration masks before it hashes; nothing else is kept.
FromRegistration(r) == [r EXCEPT !.content = MaskOf[@]]

SameKey(r, q) == r.kind = q.kind /\ r.key = q.key
SameContent(r, q) == r.id = q.id /\ r.content = q.content

\* Records whose row a status change holds.
Held(i) == i \in {q.id : q \in Doing({"retired"})}

-----------------------------------------------------------------------------
(* register_evidence, register_memory *)

BeginRegistration(s, r) ==
    /\ ~Open(s)
    /\ session' = [session EXCEPT ![s] = [pc |-> "seek", req |-> FromRegistration(r)]]
    /\ UNCHANGED <<rows, members, answers, records>>

\* A record with the key answers a request for the same id and content, whose
\* scope, title and correlation are not compared, and is a conflict to another.
AnswerRegistered(s) ==
    LET r == session[s].req IN
    /\ In(s, "seek") /\ Close(s)
    /\ \E q \in Registered :
          /\ SameKey(r, q) /\ ~Held(q.id)
          /\ told' = IF SameContent(r, q) THEN told \cup {<<r, q>>} ELSE told
    /\ UNCHANGED <<rows, members, wronged, records>>

NoneRegistered(s) ==
    /\ In(s, "seek") /\ \A q \in Registered : ~SameKey(session[s].req, q)
    /\ Goto(s, "enter")
    /\ UNCHANGED <<rows, members, answers, records>>

\* The primary and unique keys wait for open inserts and refuse committed ones;
\* the source must be there, in whatever status.
InsertRecord(s) ==
    LET r == session[s].req
        clashes(q) == q.id = r.id \/ SameKey(r, q)
    IN
    /\ In(s, "enter") /\ Goto(s, "registered")
    /\ \A q \in Registered \cup Doing({"registered"}) : ~clashes(q)
    /\ r.source # NoSource => r.source \in {q.id : q \in Registered}
    /\ KeyFree(<<r.id, "ACTIVE">>)
    /\ UNCHANGED <<rows, members, answers, records>>

\* _emit: one Audit and one Outbox row per change.
Emit(i, before, after) ==
    /\ Append(i, before, after) /\ Enqueue(<<i, after>>)
    /\ UNCHANGED <<version, claimed>>

CommitRegistration(s) ==
    LET r == session[s].req IN
    /\ In(s, "registered") /\ Close(s)
    /\ records' = [records EXCEPT ![r.id] = [of |-> r, status |-> "ACTIVE"]]
    /\ Emit(r.id, "NONE", "ACTIVE")
    /\ told' = told \cup {<<r, r>>}
    /\ UNCHANGED <<members, wronged>>

-----------------------------------------------------------------------------
(* set_evidence_status, set_memory_status *)

\* The service expires Evidence only; the record is read without a lock.
BeginRetire(s, i, st) ==
    /\ ~Open(s) /\ records[i].status = "ACTIVE"
    /\ st \in {"REVOKED"} \cup (IF records[i].of.kind = "EVIDENCE" THEN {"EXPIRED"} ELSE {})
    /\ session' = [session EXCEPT ![s] = [pc |-> "retire", req |-> [id |-> i, status |-> st]]]
    /\ UNCHANGED <<rows, members, answers, records>>

\* Mutant: the status is asked when it is read, and not again by the UPDATE.
RetireRead(s) ==
    LET q == session[s].req IN
    /\ In(s, "retire") /\ ~Held(q.id)
    /\ KeyFree(<<q.id, q.status>>)
    /\ Goto(s, "retired")
    /\ UNCHANGED <<rows, members, answers, records>>

\* UPDATE ... WHERE status = 'ACTIVE', after waiting for the row.
Retire(s) ==
    LET q == session[s].req IN
    /\ In(s, "retire") /\ ~Held(q.id)
    /\ records[q.id].status = "ACTIVE"
    /\ KeyFree(<<q.id, q.status>>)
    /\ Goto(s, "retired")
    /\ UNCHANGED <<rows, members, answers, records>>

CommitRetire(s) ==
    LET q == session[s].req IN
    /\ In(s, "retired") /\ Close(s)
    /\ records' = [records EXCEPT ![q.id].status = q.status]
    /\ Emit(q.id, "ACTIVE", q.status)
    /\ UNCHANGED <<members, answers>>

EvidenceStep(s) ==
    \/ \E r \in Registrations : BeginRegistration(s, r)
    \/ AnswerRegistered(s) \/ NoneRegistered(s) \/ InsertRecord(s) \/ CommitRegistration(s)
    \/ \E i \in RecordIds, st \in {"REVOKED", "EXPIRED"} : BeginRetire(s, i, st)
    \/ Retire(s) \/ CommitRetire(s)

-----------------------------------------------------------------------------
\* Part of StoryTold (MessageGateway): a record was registered once and ended
\* once at most, by the row that tells its status.
RecordsTold == \A i \in RecordIds : {l \in log : l.target = i} =
    IF records[i] = NoRecord THEN {}
    ELSE {[target |-> i, before |-> "NONE", after |-> "ACTIVE"]} \cup
         (IF records[i].status = "ACTIVE" THEN {}
          ELSE {[target |-> i, before |-> "ACTIVE", after |-> records[i].status]})
=============================================================================
