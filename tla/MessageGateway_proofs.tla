----------------------- MODULE MessageGateway_proofs ------------------------
(***************************************************************************)
(* What holds of the units of work of Task commands, messages and records    *)
(* for every number of connections and requests, whatever interleaves and    *)
(* is rolled back: no request is answered with what is not its own, no       *)
(* command that took effect is called stale, and the Audit log and the       *)
(* Outbox tell the story of every Task, message and record.                  *)
(***************************************************************************)
EXTENDS MessageGateway, FiniteSetTheorems, TLAPS

CommandPcs == {"claim", "claimed", "updated"}
SendPcs == {"check", "lookup", "insert", "inserted"}
MovePcs == {"fetch", "moved"}
RecordPcs == {"seek", "enter", "registered"}
RetirePcs == {"retire", "retired"}
Pcs == CommandPcs \cup SendPcs \cup MovePcs \cup RecordPcs \cup RetirePcs

Masked == {FromRegistration(r) : r \in Registrations}
Moves == [id : Ids, status : Statuses]
Retirements == [id : RecordIds, status : {"REVOKED", "EXPIRED"}]
Requests == Commands \cup Envelopes \cup Masked \cup Moves \cup Retirements
Transactions == [pc : Pcs, req : Requests] \cup [pc : Pcs, req : Requests, now : Nat]

\* The request of a transaction is of the kind its place in the code handles.
ReqFits(pc, req) ==
    /\ pc \in CommandPcs => req \in Commands
    /\ pc \in SendPcs => req \in Envelopes
    /\ pc \in MovePcs => req \in Moves
    /\ pc \in RecordPcs => req \in Masked
    /\ pc \in RetirePcs => req \in Retirements

SessionsOK ==
    /\ session \in [Sessions -> {Free} \cup Transactions]
    /\ \A s \in Sessions : ReqFits(session[s].pc, session[s].req)
    /\ clock \in Nat

MessagesOK ==
    /\ messages \in [Ids -> {NoMessage} \cup [env : Envelopes, status : Statuses]]
    /\ \A i \in Ids : IsStored(i) => messages[i].env.id = i
    /\ \A s \in Sessions : session[s].pc \in MovePcs => IsStored(session[s].req.id)

RecordsOK ==
    /\ records \in [RecordIds -> {NoRecord} \cup [of : Masked, status : {"ACTIVE", "REVOKED", "EXPIRED"}]]
    /\ \A i \in RecordIds : records[i] # NoRecord => records[i].of.id = i
    /\ \A s \in Sessions : session[s].pc \in RetirePcs => records[session[s].req.id] # NoRecord

\* Past its claim a command has its key for itself.
Claiming == {"claimed", "updated"}
KeysApart == \A s \in Sessions : session[s].pc \in Claiming =>
    /\ \A d \in claimed : d.key # session[s].req.key
    /\ \A o \in Sessions \ {s} : session[o].pc \in Claiming => session[o].req.key # session[s].req.key

\* Past its INSERT a message, or a record, clashes with none.
SendsApart == \A s \in Sessions : session[s].pc = "inserted" =>
    /\ \A f \in Stored : ~Clash(session[s].req, f)
    /\ \A o \in Sessions \ {s} : session[o].pc = "inserted" => ~Clash(session[s].req, session[o].req)

SameRecord(r, q) == q.id = r.id \/ SameKey(r, q)
RecordingsApart == \A s \in Sessions : session[s].pc = "registered" =>
    /\ \A q \in Registered : ~SameRecord(session[s].req, q)
    /\ \A o \in Sessions \ {s} : session[o].pc = "registered" => ~SameRecord(session[s].req, session[o].req)

GatewayInv ==
    /\ SessionsOK /\ MessagesOK /\ RecordsOK
    /\ KeysApart /\ SendsApart /\ RecordingsApart
    /\ AppliedIsAnswered /\ OwnAnswer

-----------------------------------------------------------------------------
(* Transactions *)

\* No connection is in use and nothing is stored at the start.
LEMMA GatewayInvInit == GatewayInit => GatewayInv
<1> SUFFICES ASSUME GatewayInit PROVE GatewayInv
  OBVIOUS
<1> USE DEF GatewayInit, UowInit, EvidenceInit
<1>1. \A s \in Sessions : session[s] = Free /\ session[s].pc = "free"
  BY DEF Free
<1>2. SessionsOK
  BY <1>1 DEF SessionsOK, ReqFits, CommandPcs, SendPcs, MovePcs, RecordPcs, RetirePcs
<1>3. MessagesOK
  BY <1>1 DEF MessagesOK, IsStored, MovePcs
<1>4. RecordsOK
  BY <1>1 DEF RecordsOK, RetirePcs
<1>5. KeysApart /\ SendsApart /\ RecordingsApart
  BY <1>1 DEF KeysApart, SendsApart, RecordingsApart, Claiming
<1>6. AppliedIsAnswered /\ OwnAnswer
  BY DEF AppliedIsAnswered, OwnAnswer
<1>7. QED
  BY <1>2, <1>3, <1>4, <1>5, <1>6 DEF GatewayInv

\* What one session does leaves the others.
Others(s) == \A o \in Sessions \ {s} : session'[o] = session[o]

\* A transaction goes on with its request.
LEMMA GoesOn ==
    ASSUME SessionsOK, NEW s \in Sessions, NEW pc \in Pcs, session[s].pc # "free", Goto(s, pc),
           ReqFits(pc, session[s].req), UNCHANGED clock
    PROVE  /\ session'[s].pc = pc /\ session'[s].req = session[s].req /\ Others(s)
           /\ SessionsOK'
<1> USE DEF SessionsOK
<1>1. session[s] \in Transactions
  BY DEF Free
<1>2. session' = [session EXCEPT ![s] = [session[s] EXCEPT !.pc = pc]]
  BY DEF Goto
<1> DEFINE new == [session[s] EXCEPT !.pc = pc]
<1>3. new \in Transactions /\ new.pc = pc /\ new.req = session[s].req
  BY <1>1 DEF Transactions
<1> HIDE DEF new
<1>4. session'[s] = new /\ Others(s) /\ session' \in [Sessions -> {Free} \cup Transactions]
  BY <1>2, <1>3 DEF Others, new
<1>5. \A o \in Sessions : ReqFits(session'[o].pc, session'[o].req)
  BY <1>3, <1>4 DEF Others
<1>6. QED
  BY <1>3, <1>4, <1>5

\* A transaction ends.
LEMMA Closes ==
    ASSUME SessionsOK, NEW s \in Sessions, Close(s), UNCHANGED clock
    PROVE  session'[s].pc = "free" /\ Others(s) /\ SessionsOK'
<1> USE DEF SessionsOK
<1>1. session'[s] = Free /\ Others(s) /\ session' \in [Sessions -> {Free} \cup Transactions]
  BY DEF Close, Others
<1>2. ReqFits("free", session'[s].req)
  BY DEF ReqFits, CommandPcs, SendPcs, MovePcs, RecordPcs, RetirePcs
<1>3. Free.pc = "free"
  BY DEF Free
<1>4. \A o \in Sessions : ReqFits(session'[o].pc, session'[o].req)
  BY <1>1, <1>2, <1>3 DEF Others
<1>5. QED
  BY <1>1, <1>3, <1>4

\* A transaction begins.
LEMMA Begins ==
    ASSUME SessionsOK, NEW s \in Sessions, NEW x \in Transactions, session' = [session EXCEPT ![s] = x],
           ReqFits(x.pc, x.req), UNCHANGED clock
    PROVE  session'[s] = x /\ Others(s) /\ SessionsOK'
<1> USE DEF SessionsOK
<1>1. session'[s] = x /\ Others(s) /\ session' \in [Sessions -> {Free} \cup Transactions]
  BY DEF Others
<1>2. \A o \in Sessions : ReqFits(session'[o].pc, session'[o].req)
  BY <1>1 DEF Others
<1>3. QED
  BY <1>1, <1>2

-----------------------------------------------------------------------------
(* What a step of one session keeps *)

\* Claims stay apart where no session makes a new one.
LEMMA KeysKept ==
    ASSUME KeysApart, NEW s \in Sessions, Others(s), UNCHANGED claimed,
           session'[s].pc \in Claiming => session[s].pc \in Claiming /\ session'[s].req = session[s].req
    PROVE  KeysApart'
<1> SUFFICES ASSUME NEW q \in Sessions, session'[q].pc \in Claiming
             PROVE  /\ \A d \in claimed : d.key # session'[q].req.key
                    /\ \A o \in Sessions \ {q} : session'[o].pc \in Claiming =>
                           session'[o].req.key # session'[q].req.key
  BY DEF KeysApart, Claiming
<1>1. \A o \in Sessions : session'[o].pc \in Claiming =>
          session[o].pc \in Claiming /\ session'[o].req = session[o].req
  BY DEF Others
<1>2. QED
  BY <1>1 DEF KeysApart

\* Inserted messages stay apart where no session inserts one.
LEMMA SendsKept ==
    ASSUME SendsApart, NEW s \in Sessions, Others(s), Stored' = Stored, session'[s].pc # "inserted"
    PROVE  SendsApart'
<1>1. \A o \in Sessions : session'[o].pc = "inserted" => session'[o] = session[o]
  BY DEF Others
<1>2. QED
  BY <1>1 DEF SendsApart, Clash

\* Inserted records stay apart where no session inserts one.
LEMMA RecordingsKept ==
    ASSUME RecordingsApart, NEW s \in Sessions, Others(s), Registered' = Registered, session'[s].pc # "registered"
    PROVE  RecordingsApart'
<1>1. \A o \in Sessions : session'[o].pc = "registered" => session'[o] = session[o]
  BY DEF Others
<1>2. QED
  BY <1>1 DEF RecordingsApart, SameRecord, SameKey

\* Messages stay what they are where none is written.
LEMMA MessagesKept ==
    ASSUME MessagesOK, NEW s \in Sessions, Others(s), UNCHANGED messages,
           session'[s].pc \in MovePcs => IsStored(session'[s].req.id)
    PROVE  MessagesOK' /\ Stored' = Stored
<1>1. Stored' = Stored
  BY DEF Stored, IsStored
<1>2. \A o \in Sessions : session'[o].pc \in MovePcs => IsStored(session'[o].req.id)
  BY DEF MessagesOK, Others
<1>3. MessagesOK'
  BY <1>2 DEF MessagesOK, IsStored
<1>4. QED
  BY <1>1, <1>3

\* Records stay what they are where none is written.
LEMMA RecordsKept ==
    ASSUME RecordsOK, NEW s \in Sessions, Others(s), UNCHANGED records,
           session'[s].pc \in RetirePcs => records[session'[s].req.id] # NoRecord
    PROVE  RecordsOK' /\ Registered' = Registered
<1>1. Registered' = Registered
  BY DEF Registered
<1>2. \A o \in Sessions : session'[o].pc \in RetirePcs => records[session'[o].req.id] # NoRecord
  BY DEF RecordsOK, Others
<1>3. RecordsOK'
  BY <1>2 DEF RecordsOK
<1>4. QED
  BY <1>1, <1>3

\* An answer that is right.
Right(a) ==
    /\ a[2] \in Stored \cup claimed \cup Registered
    /\ a[1] = a[2] \/ (a[2] \in Registered /\ a[1].kind = a[2].kind /\ SameContent(a[1], a[2]))

\* What was answered rightly stays right, as nothing stored is lost.
LEMMA AnswersKept ==
    ASSUME OwnAnswer, Stored \subseteq Stored', claimed \subseteq claimed', Registered \subseteq Registered',
           \A a \in told' : a \in told \/ Right(a)'
    PROVE  OwnAnswer'
<1>1. \A a \in told : Right(a)
  BY DEF OwnAnswer, Right
<1>2. \A a \in told : Right(a)'
  BY <1>1 DEF Right, SameContent
<1>3. QED
  BY <1>2 DEF OwnAnswer, Right

\* A step that neither writes a row nor inserts one, and answers rightly if it answers.
LEMMA QuietStep ==
    ASSUME GatewayInv, NEW s \in Sessions, SessionsOK', Others(s),
           UNCHANGED <<claimed, messages, records, wronged>>,
           session'[s].pc \in Claiming => session[s].pc \in Claiming /\ session'[s].req = session[s].req,
           session'[s].pc \notin {"inserted", "registered"},
           session'[s].pc \in MovePcs => IsStored(session'[s].req.id),
           session'[s].pc \in RetirePcs => records[session'[s].req.id] # NoRecord,
           \A a \in told' : a \in told \/ Right(a)
    PROVE  GatewayInv'
<1> USE DEF GatewayInv
<1>1. KeysApart'
  BY KeysKept
<1>2. MessagesOK' /\ Stored' = Stored
  BY MessagesKept
<1>3. RecordsOK' /\ Registered' = Registered
  BY RecordsKept
<1>4. SendsApart' /\ RecordingsApart'
  BY <1>2, <1>3, SendsKept, RecordingsKept
<1>5. \A a \in told' : a \in told \/ Right(a)'
  BY <1>2, <1>3 DEF Right, SameContent
<1>6. OwnAnswer'
  BY <1>2, <1>3, <1>5, AnswersKept
<1>7. AppliedIsAnswered'
  BY DEF AppliedIsAnswered
<1>8. QED
  BY <1>1, <1>2, <1>3, <1>4, <1>6, <1>7

-----------------------------------------------------------------------------
(* Task commands *)

\* The places of the code are different.
LEMMA Places ==
    /\ Claiming \subseteq CommandPcs /\ Claiming \cap (SendPcs \cup MovePcs \cup RecordPcs \cup RetirePcs) = {}
    /\ Pcs = CommandPcs \cup SendPcs \cup MovePcs \cup RecordPcs \cup RetirePcs
    /\ "free" \notin Pcs \cup Claiming \cup MovePcs \cup RetirePcs \cup {"inserted", "registered"}
    /\ "claim" \in CommandPcs \ (Claiming \cup MovePcs \cup RetirePcs \cup {"inserted", "registered"})
    /\ {"claimed", "updated"} \subseteq Claiming \ (MovePcs \cup RetirePcs \cup {"inserted", "registered"})
    /\ {"check", "lookup", "insert"} \subseteq SendPcs \ (Claiming \cup MovePcs \cup RetirePcs \cup {"inserted", "registered"})
    /\ "inserted" \in SendPcs \ (Claiming \cup MovePcs \cup RetirePcs \cup {"registered"})
    /\ {"fetch", "moved"} = MovePcs /\ MovePcs \cap (Claiming \cup RetirePcs \cup {"inserted", "registered"}) = {}
    /\ {"seek", "enter"} \subseteq RecordPcs \ (Claiming \cup MovePcs \cup RetirePcs \cup {"inserted", "registered"})
    /\ "registered" \in RecordPcs \ (Claiming \cup MovePcs \cup RetirePcs \cup {"inserted"})
    /\ {"retire", "retired"} = RetirePcs /\ RetirePcs \cap (Claiming \cup MovePcs \cup {"inserted", "registered"}) = {}
BY DEF Pcs, CommandPcs, SendPcs, MovePcs, RecordPcs, RetirePcs, Claiming

\* A transaction that ends without a write.
LEMMA EndQuietly ==
    ASSUME GatewayInv, NEW s \in Sessions, Close(s),
           UNCHANGED <<claimed, messages, records, wronged, clock>>,
           \A a \in told' : a \in told \/ Right(a)
    PROVE  GatewayInv'
<1>1. session'[s].pc = "free" /\ Others(s) /\ SessionsOK'
  BY Closes DEF GatewayInv
<1>2. /\ session'[s].pc \notin Claiming /\ session'[s].pc \notin {"inserted", "registered"}
      /\ session'[s].pc \notin MovePcs /\ session'[s].pc \notin RetirePcs
  BY <1>1, Places
<1>3. QED
  BY <1>1, <1>2, QuietStep

\* A command begins, and claims its key.
LEMMA BeginCommandStep ==
    ASSUME GatewayInv, NEW s \in Sessions, NEW c \in Commands, BeginCommand(s, c),
           UNCHANGED <<records, messages, clock>>
    PROVE  GatewayInv'
<1> DEFINE x == [pc |-> "claim", req |-> c]
<1>1. x \in Transactions /\ x.pc = "claim" /\ ReqFits(x.pc, x.req)
  BY Places DEF Transactions, Requests, ReqFits, SendPcs, MovePcs, RecordPcs, RetirePcs
<1>2. session' = [session EXCEPT ![s] = x] /\ UNCHANGED <<rows, answers>>
  BY DEF BeginCommand
<1> HIDE DEF x
<1>3. session'[s].pc = "claim" /\ Others(s) /\ SessionsOK'
  BY <1>1, <1>2, Begins DEF GatewayInv
<1>4. /\ session'[s].pc \notin Claiming /\ session'[s].pc \notin {"inserted", "registered"}
      /\ session'[s].pc \notin MovePcs /\ session'[s].pc \notin RetirePcs
  BY <1>3, Places
<1>5. UNCHANGED <<claimed, wronged, told>>
  BY <1>2 DEF rows, answers
<1>6. QED
  BY <1>3, <1>4, <1>5, QuietStep

\* A claim waits for every other claim of its key, open or committed.
LEMMA ClaimStep ==
    ASSUME GatewayInv, NEW s \in Sessions, Claim(s), UNCHANGED <<records, messages, clock>>
    PROVE  GatewayInv'
<1> DEFINE c == session[s].req
           same == {d \in claimed : d.key = c.key}
<1> USE DEF GatewayInv
<1>1. session[s].pc = "claim" /\ UNCHANGED <<claimed, wronged, records, messages, clock>>
  BY DEF Claim, In, rows
<1>2. CASE same # {}
  <2>1. Close(s) /\ told' = IF c \in same THEN told \cup {<<c, c>>} ELSE told
    BY <1>2 DEF Claim
  <2>2. \A a \in told' : a \in told \/ Right(a)
    BY <2>1 DEF Right
  <2>3. QED
    BY <1>1, <2>1, <2>2, EndQuietly
<1>3. CASE same = {}
  <2>1. Goto(s, "claimed") /\ UNCHANGED told
    BY <1>3 DEF Claim
  <2>2. c \in Commands
    BY <1>1, Places DEF SessionsOK, ReqFits
  <2>3. ReqFits("claimed", c) /\ "claimed" \in Pcs
    BY <2>2, Places DEF ReqFits
  <2>4. session'[s].pc = "claimed" /\ session'[s].req = c /\ Others(s) /\ SessionsOK'
    BY <1>1, <2>1, <2>3, GoesOn
  <2>5. /\ session'[s].pc \notin {"inserted", "registered"}
        /\ session'[s].pc \notin MovePcs /\ session'[s].pc \notin RetirePcs
    BY <2>4, Places
  <2>6. MessagesOK' /\ Stored' = Stored /\ RecordsOK' /\ Registered' = Registered
    BY <1>1, <2>4, <2>5, MessagesKept, RecordsKept
  <2>7. SendsApart' /\ RecordingsApart'
    BY <2>4, <2>5, <2>6, SendsKept, RecordingsKept
  <2>8. \A o \in Sessions \ {s} : session[o].pc \in Claiming => session[o].req.key # c.key
    BY DEF Claim, Doing, Claiming
  <2>9. KeysApart'
    <3> SUFFICES ASSUME NEW q \in Sessions, session'[q].pc \in Claiming
                 PROVE  /\ \A d \in claimed : d.key # session'[q].req.key
                        /\ \A o \in Sessions \ {q} : session'[o].pc \in Claiming =>
                               session'[o].req.key # session'[q].req.key
      BY <1>1 DEF KeysApart, Claiming
    <3> HIDE DEF c
    <3>1. CASE q = s
      <4>1. \A d \in claimed : d.key # c.key
        BY <1>3
      <4>2. \A o \in Sessions \ {s} : session'[o] = session[o]
        BY <2>4 DEF Others
      <4>3. QED
        BY <3>1, <4>1, <4>2, <2>4, <2>8
    <3>2. CASE q # s
      <4>1. session'[q] = session[q] /\ \A o \in Sessions \ {s} : session'[o] = session[o]
        BY <3>2, <2>4 DEF Others
      <4>2. session[q].req.key # c.key
        BY <3>2, <4>1, <2>8
      <4>3. QED
        BY <3>2, <4>1, <4>2, <2>4 DEF KeysApart
    <3>3. QED
      BY <3>1, <3>2
  <2>10. \A a \in told' : a \in told
    BY <2>1
  <2>11. OwnAnswer'
    BY <1>1, <2>6, <2>10, AnswersKept
  <2>12. AppliedIsAnswered'
    BY <1>1 DEF AppliedIsAnswered
  <2>13. QED
    BY <2>4, <2>6, <2>7, <2>9, <2>11, <2>12
<1>4. QED
  BY <1>2, <1>3

\* A command that finds another version was not applied before: else its claim
\* would have been answered.
LEMMA UpdateTaskStep ==
    ASSUME GatewayInv, NEW s \in Sessions, UpdateTask(s), UNCHANGED <<records, messages, clock>>
    PROVE  GatewayInv'
<1> DEFINE c == session[s].req
<1> USE DEF GatewayInv
<1>1. session[s].pc = "claimed" /\ UNCHANGED <<claimed, told, records, messages, clock>>
  BY DEF UpdateTask, In, rows
<1>2. c \notin claimed
  BY <1>1 DEF KeysApart, Claiming
<1>3. CASE Goto(s, "updated") /\ UNCHANGED wronged
  <2>1. c \in Commands
    BY <1>1, Places DEF SessionsOK, ReqFits
  <2>2. ReqFits("updated", c) /\ "updated" \in Pcs
    BY <2>1, Places DEF ReqFits
  <2>3. session'[s].pc = "updated" /\ session'[s].req = c /\ Others(s) /\ SessionsOK'
    BY <1>1, <1>3, <2>2, GoesOn
  <2>4. /\ session'[s].pc \notin {"inserted", "registered"}
        /\ session'[s].pc \notin MovePcs /\ session'[s].pc \notin RetirePcs
        /\ session[s].pc \in Claiming
    BY <1>1, <2>3, Places DEF Claiming
  <2>5. QED
    BY <1>1, <1>3, <2>3, <2>4, QuietStep
<1>4. CASE Close(s) /\ wronged' = IF c \in claimed THEN wronged \cup {c} ELSE wronged
  BY <1>1, <1>2, <1>4, EndQuietly
<1>5. QED
  BY <1>3, <1>4 DEF UpdateTask

\* The commit of a command makes its key one that no other session is past.
LEMMA CommitCommandStep ==
    ASSUME GatewayInv, NEW s \in Sessions, CommitCommand(s), UNCHANGED <<records, messages, clock>>
    PROVE  GatewayInv'
<1> DEFINE c == session[s].req
<1> USE DEF GatewayInv
<1>1. /\ session[s].pc = "updated" /\ Close(s) /\ claimed' = claimed \cup {c}
      /\ told' = told \cup {<<c, c>>} /\ UNCHANGED <<wronged, records, messages, clock>>
  BY DEF CommitCommand, In
<1>2. session'[s].pc = "free" /\ Others(s) /\ SessionsOK'
  BY <1>1, Closes
<1>3. /\ session'[s].pc \notin Claiming /\ session'[s].pc \notin {"inserted", "registered"}
      /\ session'[s].pc \notin MovePcs /\ session'[s].pc \notin RetirePcs
  BY <1>2, Places
<1>4. MessagesOK' /\ Stored' = Stored /\ RecordsOK' /\ Registered' = Registered
  BY <1>1, <1>2, <1>3, MessagesKept, RecordsKept
<1>5. SendsApart' /\ RecordingsApart'
  BY <1>2, <1>3, <1>4, SendsKept, RecordingsKept
<1>6. KeysApart'
  <2> SUFFICES ASSUME NEW q \in Sessions, session'[q].pc \in Claiming
               PROVE  /\ \A d \in claimed' : d.key # session'[q].req.key
                      /\ \A o \in Sessions \ {q} : session'[o].pc \in Claiming =>
                             session'[o].req.key # session'[q].req.key
    BY DEF KeysApart, Claiming
  <2> HIDE DEF c
  <2>1. q # s /\ \A o \in Sessions \ {s} : session'[o] = session[o]
    BY <1>2, <1>3 DEF Others
  <2>2. c.key # session[q].req.key
    <3>1. session[s].pc \in Claiming
      BY <1>1 DEF Claiming
    <3>2. session[q].pc \in Claiming
      BY <2>1
    <3>3. QED
      BY <2>1, <3>1, <3>2 DEF KeysApart, c
  <2>3. \A d \in claimed : d.key # session[q].req.key
    BY <2>1 DEF KeysApart
  <2>4. \A o \in Sessions \ {q} : session'[o].pc \in Claiming => o # s
    BY <1>3
  <2>5. QED
    BY <1>1, <2>1, <2>2, <2>3, <2>4 DEF KeysApart
<1>7. <<c, c>>[2] \in claimed' /\ <<c, c>>[1] = <<c, c>>[2]
  BY <1>1
<1>8. \A a \in told' : a \in told \/ Right(a)'
  BY <1>1, <1>7 DEF Right
<1>9. OwnAnswer'
  BY <1>1, <1>4, <1>8, AnswersKept
<1>10. AppliedIsAnswered'
  BY <1>1 DEF AppliedIsAnswered
<1>11. QED
  BY <1>2, <1>4, <1>5, <1>6, <1>9, <1>10

-----------------------------------------------------------------------------
(* Messages *)

\* A send or a change of status begins; its clock is read first.
LEMMA BeginMessageStep ==
    ASSUME GatewayInv, NEW s \in Sessions, UNCHANGED records,
           \/ \E e \in Envelopes : BeginSend(s, e)
           \/ \E i \in Ids, st \in Statuses \ {"SENT"} : BeginMove(s, i, st)
    PROVE  GatewayInv'
<1> USE DEF GatewayInv
<1>1. UNCHANGED <<claimed, messages, records, wronged, told, clock>>
  BY DEF BeginSend, BeginMove, rows, answers
<1>2. ASSUME NEW e \in Envelopes, BeginSend(s, e) PROVE GatewayInv'
  <2> DEFINE x == [pc |-> "check", req |-> e, now |-> clock]
  <2>1. x \in Transactions /\ x.pc = "check" /\ ReqFits(x.pc, x.req)
    BY Places DEF Transactions, Requests, ReqFits, CommandPcs, MovePcs, RecordPcs, RetirePcs, SessionsOK
  <2>2. session' = [session EXCEPT ![s] = x]
    BY <1>2 DEF BeginSend
  <2> HIDE DEF x
  <2>3. session'[s].pc = "check" /\ Others(s) /\ SessionsOK'
    BY <1>1, <2>1, <2>2, Begins
  <2>4. /\ session'[s].pc \notin Claiming /\ session'[s].pc \notin {"inserted", "registered"}
        /\ session'[s].pc \notin MovePcs /\ session'[s].pc \notin RetirePcs
    BY <2>3, Places
  <2>5. QED
    BY <1>1, <2>3, <2>4, QuietStep
<1>3. ASSUME NEW i \in Ids, NEW st \in Statuses \ {"SENT"}, BeginMove(s, i, st) PROVE GatewayInv'
  <2> DEFINE m == [id |-> i, status |-> st]
             x == [pc |-> "fetch", req |-> m, now |-> clock]
  <2>1. m \in Moves /\ m.id = i
    BY DEF Moves
  <2> HIDE DEF m
  <2>2. x \in Transactions /\ x.pc = "fetch" /\ x.req = m /\ ReqFits(x.pc, x.req)
    BY <2>1, Places DEF Transactions, Requests, ReqFits, CommandPcs, SendPcs, RecordPcs, RetirePcs, SessionsOK
  <2>3. session' = [session EXCEPT ![s] = x] /\ IsStored(i)
    BY <1>3 DEF BeginMove, m
  <2> HIDE DEF x
  <2>4. session'[s] = x /\ Others(s) /\ SessionsOK'
    BY <1>1, <2>2, <2>3, Begins
  <2>5. session'[s].pc = "fetch" /\ IsStored(session'[s].req.id)
    BY <2>1, <2>2, <2>3, <2>4
  <2>6. /\ session'[s].pc \notin Claiming /\ session'[s].pc \notin {"inserted", "registered"}
        /\ session'[s].pc \notin RetirePcs
    BY <2>5, Places
  <2>7. QED
    BY <1>1, <2>4, <2>5, <2>6, QuietStep
<1>4. QED
  BY <1>2, <1>3

\* The checks and the lookup of a send, and the lock of a status change.
LEMMA ReadMessageStep ==
    ASSUME GatewayInv, NEW s \in Sessions, UNCHANGED records,
           CheckSend(s) \/ NotFound(s) \/ FetchAndUpdate(s)
    PROVE  GatewayInv'
<1> USE DEF GatewayInv
<1>1. UNCHANGED <<claimed, messages, records, wronged, told, clock>>
  BY DEF CheckSend, NotFound, FetchAndUpdate, rows, answers
<1>2. ASSUME NEW pc \in {"lookup", "insert"}, session[s].pc \in {"check", "lookup"}, Goto(s, pc)
      PROVE  GatewayInv'
  <2>1. session[s].req \in Envelopes /\ session[s].pc # "free" /\ pc \in Pcs
    BY <1>2, Places DEF SessionsOK, ReqFits
  <2>2. ReqFits(pc, session[s].req)
    BY <1>2, <2>1, Places DEF ReqFits, CommandPcs, MovePcs, RecordPcs, RetirePcs
  <2>3. session'[s].pc = pc /\ Others(s) /\ SessionsOK'
    BY <1>1, <1>2, <2>1, <2>2, GoesOn
  <2>4. /\ session'[s].pc \notin Claiming /\ session'[s].pc \notin {"inserted", "registered"}
        /\ session'[s].pc \notin MovePcs /\ session'[s].pc \notin RetirePcs
    BY <1>2, <2>3, Places
  <2>5. QED
    BY <1>1, <2>3, <2>4, QuietStep
<1>3. CASE session[s].pc = "fetch" /\ Goto(s, "moved")
  <2>1. session[s].req \in Moves /\ session[s].pc # "free" /\ "moved" \in Pcs /\ session[s].pc \in MovePcs
    BY <1>3, Places DEF SessionsOK, ReqFits
  <2>2. ReqFits("moved", session[s].req)
    BY <2>1, Places DEF ReqFits, CommandPcs, SendPcs, RecordPcs, RetirePcs
  <2>3. session'[s].pc = "moved" /\ session'[s].req = session[s].req /\ Others(s) /\ SessionsOK'
    BY <1>1, <1>3, <2>1, <2>2, GoesOn
  <2>4. IsStored(session'[s].req.id)
    BY <2>1, <2>3 DEF MessagesOK
  <2>5. /\ session'[s].pc \notin Claiming /\ session'[s].pc \notin {"inserted", "registered"}
        /\ session'[s].pc \notin RetirePcs
    BY <2>3, Places
  <2>6. QED
    BY <1>1, <2>3, <2>4, <2>5, QuietStep
<1>4. QED
  BY <1>2, <1>3 DEF CheckSend, NotFound, FetchAndUpdate, In

\* A stored message answers the request that stored it.
LEMMA ReplayStep ==
    ASSUME GatewayInv, NEW s \in Sessions, UNCHANGED records, Replay(s) PROVE GatewayInv'
<1> DEFINE e == session[s].req
<1>1. /\ Close(s) /\ e \in Stored /\ told' = told \cup {<<e, e>>}
      /\ UNCHANGED <<claimed, messages, records, wronged, clock>>
  BY DEF Replay, rows
<1>2. \A a \in told' : a \in told \/ Right(a)
  BY <1>1 DEF Right
<1>3. QED
  BY <1>1, <1>2, EndQuietly

\* Two requests clash, whichever is asked first.
LEMMA ClashBothWays ==
    /\ \A e, f : Clash(e, f) => Clash(f, e)
    /\ \A r, q : SameRecord(r, q) => SameRecord(q, r)
BY DEF Clash, SameRecord, SameKey

\* The INSERT of a message waits for, or fails on, all it clashes with.
LEMMA InsertSendStep ==
    ASSUME GatewayInv, NEW s \in Sessions, UNCHANGED records, InsertSend(s) PROVE GatewayInv'
<1> DEFINE e == session[s].req
<1> USE DEF GatewayInv
<1>1. /\ session[s].pc = "insert" /\ Goto(s, "inserted")
      /\ \A f \in Doing({"inserted"}) : ~Clash(e, f)
      /\ \A f \in Stored : ~Clash(e, f)
      /\ UNCHANGED <<claimed, messages, records, wronged, told, clock>>
  BY DEF InsertSend, In, rows, answers
<1>2. e \in Envelopes /\ session[s].pc # "free" /\ "inserted" \in Pcs
  BY <1>1, Places DEF SessionsOK, ReqFits
<1>3. ReqFits("inserted", e)
  BY <1>2, Places DEF ReqFits, CommandPcs, MovePcs, RecordPcs, RetirePcs
<1>4. session'[s].pc = "inserted" /\ session'[s].req = e /\ Others(s) /\ SessionsOK'
  BY <1>1, <1>2, <1>3, GoesOn
<1>5. /\ session'[s].pc \notin Claiming /\ session'[s].pc # "registered"
      /\ session'[s].pc \notin MovePcs /\ session'[s].pc \notin RetirePcs
  BY <1>4, Places
<1>6. MessagesOK' /\ Stored' = Stored /\ RecordsOK' /\ Registered' = Registered /\ KeysApart'
  BY <1>1, <1>4, <1>5, MessagesKept, RecordsKept, KeysKept
<1>7. RecordingsApart'
  BY <1>4, <1>5, <1>6, RecordingsKept
<1> HIDE DEF e
<1>8. \A o \in Sessions \ {s} : session'[o] = session[o]
  BY <1>4 DEF Others
<1>9. \A o \in Sessions \ {s} : session[o].pc = "inserted" => ~Clash(e, session[o].req)
  BY <1>1 DEF Doing
<1>10. SendsApart'
  <2> SUFFICES ASSUME NEW q \in Sessions, session'[q].pc = "inserted"
               PROVE  /\ \A f \in Stored : ~Clash(session'[q].req, f)
                      /\ \A o \in Sessions \ {q} : session'[o].pc = "inserted" =>
                             ~Clash(session'[q].req, session'[o].req)
    BY <1>6 DEF SendsApart, Clash
  <2>1. CASE q = s
    BY <2>1, <1>1, <1>4, <1>8, <1>9
  <2>2. CASE q # s
    <3>1. session'[q] = session[q] /\ ~Clash(session[q].req, e)
      BY <2>2, <1>8, <1>9, ClashBothWays
    <3>2. QED
      BY <2>2, <3>1, <1>4, <1>8 DEF SendsApart
  <2>3. QED
    BY <2>1, <2>2
<1>11. \A a \in told' : a \in told
  BY <1>1
<1>12. OwnAnswer' /\ AppliedIsAnswered'
  BY <1>1, <1>6, <1>11, AnswersKept DEF AppliedIsAnswered
<1>13. QED
  BY <1>4, <1>6, <1>7, <1>10, <1>12

\* A message that is committed is a new one: the row and the keys were free.
LEMMA SendIsNew ==
    ASSUME GatewayInv, NEW s \in Sessions, CommitSend(s), NEW e, e = session[s].req
    PROVE  /\ e \in Envelopes /\ e.id \in Ids
           /\ messages[e.id] = NoMessage /\ messages'[e.id] = [env |-> e, status |-> "SENT"]
           /\ \A i \in Ids : i # e.id => messages'[i] = messages[i]
           /\ Stored' = Stored \cup {e}
<1> DEFINE new == [env |-> e, status |-> "SENT"]
<1> USE DEF GatewayInv
<1>1. session[s].pc = "inserted" /\ messages' = [messages EXCEPT ![e.id] = new]
  BY DEF CommitSend, In
<1>2. e \in Envelopes /\ e.id \in Ids
  BY <1>1, Places DEF SessionsOK, ReqFits, Ids
<1>3. new.env = e /\ new # NoMessage
  BY DEF NoMessage
<1>4. \A f \in Stored : ~Clash(e, f)
  BY <1>1 DEF SendsApart
<1> HIDE DEF new
<1>5. messages'[e.id] = new /\ \A i \in Ids : i # e.id => messages'[i] = messages[i]
  BY <1>1, <1>2 DEF MessagesOK
<1>6. ~IsStored(e.id)
  <2>1. IsStored(e.id) => messages[e.id].env \in Stored /\ messages[e.id].env.id = e.id
    BY <1>2 DEF Stored, MessagesOK
  <2>2. QED
    BY <2>1, <1>4 DEF Clash
<1>7. Stored' = Stored \cup {e}
  <2>1. \A i \in Ids : IsStored(i) => i # e.id /\ messages'[i] = messages[i]
    BY <1>5, <1>6
  <2>2. Stored \subseteq Stored'
    BY <2>1 DEF Stored, IsStored
  <2>3. e \in Stored'
    BY <1>2, <1>3, <1>5 DEF Stored, IsStored
  <2>4. Stored' \subseteq Stored \cup {e}
    BY <1>3, <1>5 DEF Stored, IsStored
  <2>5. QED
    BY <2>2, <2>3, <2>4
<1>8. QED
  BY <1>2, <1>5, <1>6, <1>7 DEF IsStored, new

\* The commit of a message takes the place of no other.
LEMMA CommitSendStep ==
    ASSUME GatewayInv, NEW s \in Sessions, UNCHANGED records, CommitSend(s) PROVE GatewayInv'
<1> DEFINE e == session[s].req
           new == [env |-> e, status |-> "SENT"]
<1> USE DEF GatewayInv
<1>1. /\ session[s].pc = "inserted" /\ Close(s) /\ messages' = [messages EXCEPT ![e.id] = new]
      /\ told' = told \cup {<<e, e>>} /\ UNCHANGED <<claimed, records, wronged, clock>>
  BY DEF CommitSend, In
<1>2. session'[s].pc = "free" /\ Others(s) /\ SessionsOK'
  BY <1>1, Closes
<1>3. /\ session'[s].pc \notin Claiming /\ session'[s].pc \notin {"inserted", "registered"}
      /\ session'[s].pc \notin MovePcs /\ session'[s].pc \notin RetirePcs
  BY <1>2, Places
<1>4. RecordsOK' /\ Registered' = Registered /\ KeysApart'
  BY <1>1, <1>2, <1>3, RecordsKept, KeysKept
<1>5. RecordingsApart'
  BY <1>2, <1>3, <1>4, RecordingsKept
<1>6. e \in Envelopes /\ e.id \in Ids
  BY <1>1, Places DEF SessionsOK, ReqFits, Ids
<1>7. new \in [env : Envelopes, status : Statuses] /\ new.env = e /\ new # NoMessage
  BY <1>6 DEF Statuses, NoMessage
<1>8. \A f \in Stored : ~Clash(e, f)
  BY <1>1 DEF SendsApart
<1> HIDE DEF e, new
<1>9. messages'[e.id] = new /\ \A i \in Ids : i # e.id => messages'[i] = messages[i]
  BY SendIsNew DEF e, new
<1>11. Stored \subseteq Stored' /\ e \in Stored' /\ Stored' \subseteq Stored \cup {e}
  BY SendIsNew DEF e
<1>12. MessagesOK'
  <2>1. messages' \in [Ids -> {NoMessage} \cup [env : Envelopes, status : Statuses]]
    BY <1>1, <1>7 DEF MessagesOK
  <2>2. \A i \in Ids : messages'[i] # NoMessage => messages'[i].env.id = i
    BY <1>7, <1>9 DEF MessagesOK, IsStored
  <2>3. \A o \in Sessions : session'[o].pc \in MovePcs => session'[o] = session[o] /\ session[o].req.id \in Ids
    BY <1>2, <1>3 DEF Others, SessionsOK, ReqFits, Moves
  <2>4. \A o \in Sessions : session'[o].pc \in MovePcs => messages'[session'[o].req.id] # NoMessage
    BY <2>3, <1>7, <1>9 DEF MessagesOK, IsStored
  <2>5. QED
    BY <2>1, <2>2, <2>4 DEF MessagesOK, IsStored
<1>13. SendsApart'
  <2> SUFFICES ASSUME NEW q \in Sessions, session'[q].pc = "inserted"
               PROVE  /\ \A f \in Stored' : ~Clash(session'[q].req, f)
                      /\ \A o \in Sessions \ {q} : session'[o].pc = "inserted" =>
                             ~Clash(session'[q].req, session'[o].req)
    BY DEF SendsApart, Clash
  <2>1. q # s /\ \A o \in Sessions \ {s} : session'[o] = session[o]
    BY <1>2, <1>3 DEF Others
  <2>2. ~Clash(session[q].req, e)
    BY <1>1, <2>1 DEF SendsApart, e
  <2>3. \A o \in Sessions \ {q} : session'[o].pc = "inserted" => o # s
    BY <1>3
  <2>4. QED
    BY <1>11, <2>1, <2>2, <2>3 DEF SendsApart
<1>14. \A a \in told' : a \in told \/ Right(a)'
  <2>1. <<e, e>>[2] \in Stored' /\ <<e, e>>[1] = <<e, e>>[2]
    BY <1>11
  <2>2. QED
    BY <1>1, <2>1 DEF Right
<1>15. OwnAnswer' /\ AppliedIsAnswered'
  BY <1>1, <1>4, <1>11, <1>14, AnswersKept DEF AppliedIsAnswered
<1>16. QED
  BY <1>2, <1>4, <1>5, <1>12, <1>13, <1>15

\* A move changes the status of its message and nothing else.
LEMMA MoveChangesStatus ==
    ASSUME GatewayInv, NEW s \in Sessions, CommitMove(s), NEW r, r = session[s].req
    PROVE  /\ r.id \in Ids /\ r.status \in Statuses /\ IsStored(r.id) /\ messages[r.id].status \in Statuses
           /\ messages' = [messages EXCEPT ![r.id] = [env |-> messages[r.id].env, status |-> r.status]]
           /\ messages'[r.id] # NoMessage /\ messages'[r.id].status = r.status
           /\ \A i \in Ids : i # r.id => messages'[i] = messages[i]
           /\ \A i \in Ids : (messages'[i] # NoMessage <=> messages[i] # NoMessage)
                             /\ messages'[i].env = messages[i].env
           /\ Stored' = Stored
<1> DEFINE new == [env |-> messages[r.id].env, status |-> r.status]
<1> USE DEF GatewayInv
<1>1. session[s].pc = "moved" /\ messages' = [messages EXCEPT ![r.id].status = r.status]
  BY DEF CommitMove, In
<1>2. r.id \in Ids /\ r.status \in Statuses /\ IsStored(r.id)
  BY <1>1, Places DEF SessionsOK, ReqFits, Moves, MessagesOK
<1>3. messages[r.id] \in [env : Envelopes, status : Statuses]
  BY <1>2 DEF MessagesOK, IsStored
<1>4. messages' = [messages EXCEPT ![r.id] = new]
  <2>1. messages' = [messages EXCEPT ![r.id] = [messages[r.id] EXCEPT !.status = r.status]]
    BY <1>1
  <2>2. [messages[r.id] EXCEPT !.status = r.status] = new
    BY <1>3
  <2>3. QED
    BY <2>1, <2>2
<1>5. new.env = messages[r.id].env /\ new.status = r.status /\ new # NoMessage
  BY <1>2 DEF NoMessage, Statuses
<1> HIDE DEF new
<1>6. messages'[r.id] = new /\ \A i \in Ids : i # r.id => messages'[i] = messages[i]
  BY <1>2, <1>4 DEF MessagesOK
<1>7. \A i \in Ids : (messages'[i] # NoMessage <=> messages[i] # NoMessage)
                     /\ messages'[i].env = messages[i].env
  BY <1>2, <1>5, <1>6 DEF IsStored
<1>8. Stored' = Stored
  <2>1. Stored' = {messages'[i].env : i \in {j \in Ids : messages'[j] # NoMessage}}
    BY DEF Stored, IsStored
  <2>2. Stored = {messages[i].env : i \in {j \in Ids : messages[j] # NoMessage}}
    BY DEF Stored, IsStored
  <2>3. {j \in Ids : messages'[j] # NoMessage} = {j \in Ids : messages[j] # NoMessage}
    BY <1>7
  <2>4. QED
    BY <1>7, <2>1, <2>2, <2>3
<1>9. QED
  BY <1>2, <1>3, <1>4, <1>5, <1>6, <1>7, <1>8 DEF new

\* A change of status leaves the envelope.
LEMMA CommitMoveStep ==
    ASSUME GatewayInv, NEW s \in Sessions, UNCHANGED records, CommitMove(s) PROVE GatewayInv'
<1> DEFINE r == session[s].req
           new == [env |-> messages[r.id].env, status |-> r.status]
<1> USE DEF GatewayInv
<1>1. /\ session[s].pc = "moved" /\ Close(s) /\ messages' = [messages EXCEPT ![r.id].status = r.status]
      /\ UNCHANGED <<claimed, records, wronged, told, clock>>
  BY DEF CommitMove, In, answers
<1>2. session'[s].pc = "free" /\ Others(s) /\ SessionsOK'
  BY <1>1, Closes
<1>3. /\ session'[s].pc \notin Claiming /\ session'[s].pc \notin {"inserted", "registered"}
      /\ session'[s].pc \notin MovePcs /\ session'[s].pc \notin RetirePcs
  BY <1>2, Places
<1>4. RecordsOK' /\ Registered' = Registered /\ KeysApart'
  BY <1>1, <1>2, <1>3, RecordsKept, KeysKept
<1>5. RecordingsApart'
  BY <1>2, <1>3, <1>4, RecordingsKept
<1>6. r.id \in Ids /\ r.status \in Statuses /\ IsStored(r.id)
  BY MoveChangesStatus DEF r
<1>7. messages[r.id] \in [env : Envelopes, status : Statuses] /\ messages[r.id].env.id = r.id
  BY <1>6 DEF MessagesOK, IsStored
<1>8. messages' = [messages EXCEPT ![r.id] = new]
  BY MoveChangesStatus DEF r, new
<1>9. new \in [env : Envelopes, status : Statuses] /\ new.env = messages[r.id].env /\ new # NoMessage
  BY <1>6, <1>7 DEF NoMessage, Statuses
<1> HIDE DEF new, r
<1>11. \A i \in Ids : (messages'[i] # NoMessage <=> messages[i] # NoMessage)
                      /\ messages'[i].env = messages[i].env
  BY MoveChangesStatus
<1>12. Stored' = Stored
  BY MoveChangesStatus
<1>13. MessagesOK'
  <2>1. messages' \in [Ids -> {NoMessage} \cup [env : Envelopes, status : Statuses]]
    BY <1>8, <1>9 DEF MessagesOK
  <2>2. \A i \in Ids : messages'[i] # NoMessage => messages'[i].env.id = i
    BY <1>11 DEF MessagesOK, IsStored
  <2>3. \A o \in Sessions : session'[o].pc \in MovePcs => session'[o] = session[o] /\ session[o].req.id \in Ids
    BY <1>2, <1>3 DEF Others, SessionsOK, ReqFits, Moves
  <2>4. \A o \in Sessions : session'[o].pc \in MovePcs => messages'[session'[o].req.id] # NoMessage
    BY <2>3, <1>11 DEF MessagesOK, IsStored
  <2>5. QED
    BY <2>1, <2>2, <2>4 DEF MessagesOK, IsStored
<1>14. SendsApart'
  BY <1>2, <1>3, <1>12, SendsKept
<1>15. \A a \in told' : a \in told
  BY <1>1
<1>16. OwnAnswer' /\ AppliedIsAnswered'
  BY <1>1, <1>4, <1>12, <1>15, AnswersKept DEF AppliedIsAnswered
<1>17. QED
  BY <1>2, <1>4, <1>5, <1>13, <1>14, <1>16

-----------------------------------------------------------------------------
(* Records *)

\* Masking leaves the id.
LEMMA MaskKeepsId == \A r \in Masked : r.id \in RecordIds
<1> SUFFICES ASSUME NEW q \in Registrations PROVE FromRegistration(q).id = q.id
  BY DEF Masked, RecordIds
<1>1. "id" \in DOMAIN q
  BY EvidenceAssumption
<1>2. QED
  BY <1>1 DEF FromRegistration

\* A registration or a change of status begins.
LEMMA BeginRecordStep ==
    ASSUME GatewayInv, NEW s \in Sessions, UNCHANGED <<messages, clock>>,
           \/ \E r \in Registrations : BeginRegistration(s, r)
           \/ \E i \in RecordIds, st \in {"REVOKED", "EXPIRED"} : BeginRetire(s, i, st)
    PROVE  GatewayInv'
<1> USE DEF GatewayInv
<1>1. UNCHANGED <<claimed, messages, records, wronged, told, clock>>
  BY DEF BeginRegistration, BeginRetire, rows, answers
<1>2. ASSUME NEW r \in Registrations, BeginRegistration(s, r) PROVE GatewayInv'
  <2> DEFINE x == [pc |-> "seek", req |-> FromRegistration(r)]
  <2>1. x \in Transactions /\ x.pc = "seek" /\ ReqFits(x.pc, x.req)
    BY Places DEF Transactions, Requests, ReqFits, CommandPcs, MovePcs, SendPcs, RetirePcs, Masked
  <2>2. session' = [session EXCEPT ![s] = x]
    BY <1>2 DEF BeginRegistration
  <2> HIDE DEF x
  <2>3. session'[s].pc = "seek" /\ Others(s) /\ SessionsOK'
    BY <1>1, <2>1, <2>2, Begins
  <2>4. /\ session'[s].pc \notin Claiming /\ session'[s].pc \notin {"inserted", "registered"}
        /\ session'[s].pc \notin MovePcs /\ session'[s].pc \notin RetirePcs
    BY <2>3, Places
  <2>5. QED
    BY <1>1, <2>3, <2>4, QuietStep
<1>3. ASSUME NEW i \in RecordIds, NEW st \in {"REVOKED", "EXPIRED"}, BeginRetire(s, i, st) PROVE GatewayInv'
  <2> DEFINE m == [id |-> i, status |-> st]
             x == [pc |-> "retire", req |-> m]
  <2>1. m \in Retirements /\ m.id = i
    BY DEF Retirements
  <2> HIDE DEF m
  <2>2. x \in Transactions /\ x.pc = "retire" /\ x.req = m /\ ReqFits(x.pc, x.req)
    BY <2>1, Places DEF Transactions, Requests, ReqFits, CommandPcs, SendPcs, RecordPcs, MovePcs
  <2>3. session' = [session EXCEPT ![s] = x] /\ records[i] # NoRecord
    BY <1>3 DEF BeginRetire, m, NoRecord
  <2> HIDE DEF x
  <2>4. session'[s] = x /\ Others(s) /\ SessionsOK'
    BY <1>1, <2>2, <2>3, Begins
  <2>5. session'[s].pc = "retire" /\ records[session'[s].req.id] # NoRecord
    BY <2>1, <2>2, <2>3, <2>4
  <2>6. /\ session'[s].pc \notin Claiming /\ session'[s].pc \notin {"inserted", "registered"}
        /\ session'[s].pc \notin MovePcs
    BY <2>5, Places
  <2>7. QED
    BY <1>1, <2>4, <2>5, <2>6, QuietStep
<1>4. QED
  BY <1>2, <1>3

\* The lookup of a registration, and the lock of a change of status.
LEMMA ReadRecordStep ==
    ASSUME GatewayInv, NEW s \in Sessions, UNCHANGED <<messages, clock>>,
           NoneRegistered(s) \/ Retire(s)
    PROVE  GatewayInv'
<1> USE DEF GatewayInv
<1>1. UNCHANGED <<claimed, messages, records, wronged, told, clock>>
  BY DEF NoneRegistered, Retire, rows, answers
<1>2. CASE session[s].pc = "seek" /\ Goto(s, "enter")
  <2>1. session[s].req \in Masked /\ session[s].pc # "free" /\ "enter" \in Pcs
    BY <1>2, Places DEF SessionsOK, ReqFits
  <2>2. ReqFits("enter", session[s].req)
    BY <2>1, Places DEF ReqFits, CommandPcs, MovePcs, SendPcs, RetirePcs
  <2>3. session'[s].pc = "enter" /\ Others(s) /\ SessionsOK'
    BY <1>1, <1>2, <2>1, <2>2, GoesOn
  <2>4. /\ session'[s].pc \notin Claiming /\ session'[s].pc \notin {"inserted", "registered"}
        /\ session'[s].pc \notin MovePcs /\ session'[s].pc \notin RetirePcs
    BY <2>3, Places
  <2>5. QED
    BY <1>1, <2>3, <2>4, QuietStep
<1>3. CASE session[s].pc = "retire" /\ Goto(s, "retired")
  <2>1. /\ session[s].req \in Retirements /\ session[s].pc # "free" /\ "retired" \in Pcs
        /\ session[s].pc \in RetirePcs
    BY <1>3, Places DEF SessionsOK, ReqFits
  <2>2. ReqFits("retired", session[s].req)
    BY <2>1, Places DEF ReqFits, CommandPcs, SendPcs, RecordPcs, MovePcs
  <2>3. session'[s].pc = "retired" /\ session'[s].req = session[s].req /\ Others(s) /\ SessionsOK'
    BY <1>1, <1>3, <2>1, <2>2, GoesOn
  <2>4. records[session'[s].req.id] # NoRecord
    BY <2>1, <2>3 DEF RecordsOK
  <2>5. /\ session'[s].pc \notin Claiming /\ session'[s].pc \notin {"inserted", "registered"}
        /\ session'[s].pc \notin MovePcs
    BY <2>3, Places
  <2>6. QED
    BY <1>1, <2>3, <2>4, <2>5, QuietStep
<1>4. QED
  BY <1>2, <1>3 DEF NoneRegistered, Retire, In

\* A record with the key of the request answers it when id and content agree.
LEMMA AnswerRegisteredStep ==
    ASSUME GatewayInv, NEW s \in Sessions, UNCHANGED <<messages, clock>>, AnswerRegistered(s)
    PROVE  GatewayInv'
<1> DEFINE r == session[s].req
<1>1. PICK q \in Registered :
          /\ SameKey(r, q)
          /\ told' = IF SameContent(r, q) THEN told \cup {<<r, q>>} ELSE told
  BY DEF AnswerRegistered
<1>2. Close(s) /\ UNCHANGED <<claimed, messages, records, wronged, clock>>
  BY DEF AnswerRegistered, rows
<1>3. SameContent(r, q) => Right(<<r, q>>)
  BY <1>1 DEF Right, SameKey
<1>4. \A a \in told' : a \in told \/ Right(a)
  BY <1>1, <1>3
<1>5. QED
  BY <1>2, <1>4, EndQuietly

\* The INSERT of a record waits for, or fails on, all it clashes with.
LEMMA InsertRecordStep ==
    ASSUME GatewayInv, NEW s \in Sessions, UNCHANGED <<messages, clock>>, InsertRecord(s)
    PROVE  GatewayInv'
<1> DEFINE r == session[s].req
<1> USE DEF GatewayInv
<1>1. /\ session[s].pc = "enter" /\ Goto(s, "registered")
      /\ \A q \in Registered \cup Doing({"registered"}) : ~SameRecord(r, q)
      /\ UNCHANGED <<claimed, messages, records, wronged, told, clock>>
  BY DEF InsertRecord, In, rows, answers, SameRecord
<1>2. r \in Masked /\ session[s].pc # "free" /\ "registered" \in Pcs
  BY <1>1, Places DEF SessionsOK, ReqFits
<1>3. ReqFits("registered", r)
  BY <1>2, Places DEF ReqFits, CommandPcs, SendPcs, MovePcs, RetirePcs
<1>4. session'[s].pc = "registered" /\ session'[s].req = r /\ Others(s) /\ SessionsOK'
  BY <1>1, <1>2, <1>3, GoesOn
<1>5. /\ session'[s].pc \notin Claiming /\ session'[s].pc # "inserted"
      /\ session'[s].pc \notin MovePcs /\ session'[s].pc \notin RetirePcs
  BY <1>4, Places
<1>6. MessagesOK' /\ Stored' = Stored /\ RecordsOK' /\ Registered' = Registered /\ KeysApart'
  BY <1>1, <1>4, <1>5, MessagesKept, RecordsKept, KeysKept
<1>7. SendsApart'
  BY <1>4, <1>5, <1>6, SendsKept
<1> HIDE DEF r
<1>8. \A o \in Sessions \ {s} : session'[o] = session[o]
  BY <1>4 DEF Others
<1>9. \A o \in Sessions \ {s} : session[o].pc = "registered" => ~SameRecord(r, session[o].req)
  BY <1>1 DEF Doing
<1>10. RecordingsApart'
  <2> SUFFICES ASSUME NEW q \in Sessions, session'[q].pc = "registered"
               PROVE  /\ \A f \in Registered : ~SameRecord(session'[q].req, f)
                      /\ \A o \in Sessions \ {q} : session'[o].pc = "registered" =>
                             ~SameRecord(session'[q].req, session'[o].req)
    BY <1>6 DEF RecordingsApart, SameRecord, SameKey
  <2>1. CASE q = s
    BY <2>1, <1>1, <1>4, <1>8, <1>9
  <2>2. CASE q # s
    <3>1. session'[q] = session[q] /\ ~SameRecord(session[q].req, r)
      BY <2>2, <1>8, <1>9, ClashBothWays
    <3>2. QED
      BY <2>2, <3>1, <1>4, <1>8 DEF RecordingsApart
  <2>3. QED
    BY <2>1, <2>2
<1>11. \A a \in told' : a \in told
  BY <1>1
<1>12. OwnAnswer' /\ AppliedIsAnswered'
  BY <1>1, <1>6, <1>11, AnswersKept DEF AppliedIsAnswered
<1>13. QED
  BY <1>4, <1>6, <1>7, <1>10, <1>12

\* A record that is committed is a new one.
LEMMA RecordIsNew ==
    ASSUME GatewayInv, NEW s \in Sessions, CommitRegistration(s), NEW r, r = session[s].req
    PROVE  /\ r \in Masked /\ r.id \in RecordIds
           /\ records[r.id] = NoRecord /\ records'[r.id] = [of |-> r, status |-> "ACTIVE"]
           /\ \A i \in RecordIds : i # r.id => records'[i] = records[i]
<1> DEFINE new == [of |-> r, status |-> "ACTIVE"]
<1> USE DEF GatewayInv
<1>1. session[s].pc = "registered" /\ records' = [records EXCEPT ![r.id] = new]
  BY DEF CommitRegistration, In
<1>2. r \in Masked /\ r.id \in RecordIds
  BY <1>1, Places, MaskKeepsId DEF SessionsOK, ReqFits
<1>3. \A q \in Registered : ~SameRecord(r, q)
  BY <1>1 DEF RecordingsApart
<1> HIDE DEF new
<1>4. records'[r.id] = new /\ \A i \in RecordIds : i # r.id => records'[i] = records[i]
  BY <1>1, <1>2 DEF RecordsOK
<1>5. records[r.id] = NoRecord
  <2>1. records[r.id] # NoRecord => records[r.id].of \in Registered /\ records[r.id].of.id = r.id
    BY <1>2 DEF Registered, RecordsOK
  <2>2. QED
    BY <2>1, <1>3 DEF SameRecord
<1>6. QED
  BY <1>2, <1>4, <1>5 DEF new

\* The commit of a registration takes the place of no other record.
LEMMA CommitRegistrationStep ==
    ASSUME GatewayInv, NEW s \in Sessions, UNCHANGED <<messages, clock>>, CommitRegistration(s)
    PROVE  GatewayInv'
<1> DEFINE r == session[s].req
           new == [of |-> r, status |-> "ACTIVE"]
           Kinds == [of : Masked, status : {"ACTIVE", "REVOKED", "EXPIRED"}]
<1> USE DEF GatewayInv
<1>1. /\ session[s].pc = "registered" /\ Close(s) /\ records' = [records EXCEPT ![r.id] = new]
      /\ told' = told \cup {<<r, r>>} /\ UNCHANGED <<claimed, wronged>>
  BY DEF CommitRegistration, In, Emit
<1>2. session'[s].pc = "free" /\ Others(s) /\ SessionsOK'
  BY <1>1, Closes
<1>3. /\ session'[s].pc \notin Claiming /\ session'[s].pc \notin {"inserted", "registered"}
      /\ session'[s].pc \notin MovePcs /\ session'[s].pc \notin RetirePcs
  BY <1>2, Places
<1>4. MessagesOK' /\ Stored' = Stored /\ KeysApart'
  BY <1>1, <1>2, <1>3, MessagesKept, KeysKept
<1>5. SendsApart'
  BY <1>2, <1>3, <1>4, SendsKept
<1>6. r \in Masked /\ r.id \in RecordIds
  BY <1>1, Places, MaskKeepsId DEF SessionsOK, ReqFits
<1>7. new \in Kinds /\ new.of = r /\ new # NoRecord
  BY <1>6 DEF NoRecord
<1>8. \A q \in Registered : ~SameRecord(r, q)
  BY <1>1 DEF RecordingsApart
<1> HIDE DEF r, new
<1>9. records'[r.id] = new /\ \A i \in RecordIds : i # r.id => records'[i] = records[i]
  BY RecordIsNew DEF r, new
<1>10. records[r.id] = NoRecord
  BY RecordIsNew DEF r
<1>11. Registered \subseteq Registered' /\ r \in Registered' /\ Registered' \subseteq Registered \cup {r}
  <2>1. \A i \in RecordIds : records[i] # NoRecord => i # r.id /\ records'[i] = records[i]
    BY <1>9, <1>10
  <2>2. Registered \subseteq Registered'
    BY <2>1 DEF Registered
  <2>3. r \in Registered'
    BY <1>6, <1>7, <1>9 DEF Registered
  <2>4. Registered' \subseteq Registered \cup {r}
    BY <1>7, <1>9 DEF Registered
  <2>5. QED
    BY <2>2, <2>3, <2>4
<1>12. RecordsOK'
  <2>1. records' \in [RecordIds -> {NoRecord} \cup Kinds]
    BY <1>1, <1>7 DEF RecordsOK
  <2>2. \A i \in RecordIds : records'[i] # NoRecord => records'[i].of.id = i
    BY <1>7, <1>9 DEF RecordsOK
  <2>3. \A o \in Sessions : session'[o].pc \in RetirePcs =>
            session'[o] = session[o] /\ session[o].req.id \in RecordIds
    BY <1>2, <1>3 DEF Others, SessionsOK, ReqFits, Retirements
  <2>4. \A o \in Sessions : session'[o].pc \in RetirePcs => records'[session'[o].req.id] # NoRecord
    BY <2>3, <1>7, <1>9 DEF RecordsOK
  <2>5. QED
    BY <2>1, <2>2, <2>4 DEF RecordsOK
<1>13. RecordingsApart'
  <2> SUFFICES ASSUME NEW q \in Sessions, session'[q].pc = "registered"
               PROVE  /\ \A f \in Registered' : ~SameRecord(session'[q].req, f)
                      /\ \A o \in Sessions \ {q} : session'[o].pc = "registered" =>
                             ~SameRecord(session'[q].req, session'[o].req)
    BY DEF RecordingsApart, SameRecord, SameKey
  <2>1. q # s /\ \A o \in Sessions \ {s} : session'[o] = session[o]
    BY <1>2, <1>3 DEF Others
  <2>2. ~SameRecord(session[q].req, r)
    BY <1>1, <2>1 DEF RecordingsApart, r
  <2>3. \A o \in Sessions \ {q} : session'[o].pc = "registered" => o # s
    BY <1>3
  <2>4. QED
    BY <1>11, <2>1, <2>2, <2>3 DEF RecordingsApart
<1>14. \A a \in told' : a \in told \/ Right(a)'
  <2>1. <<r, r>>[2] \in Registered' /\ <<r, r>>[1] = <<r, r>>[2]
    BY <1>11
  <2>2. QED
    BY <1>1, <2>1 DEF Right
<1>15. OwnAnswer' /\ AppliedIsAnswered'
  BY <1>1, <1>4, <1>11, <1>14, AnswersKept DEF AppliedIsAnswered
<1>16. QED
  BY <1>2, <1>4, <1>5, <1>12, <1>13, <1>15

\* A change of status leaves what is recorded.
LEMMA CommitRetireStep ==
    ASSUME GatewayInv, NEW s \in Sessions, UNCHANGED <<messages, clock>>, CommitRetire(s)
    PROVE  GatewayInv'
<1> DEFINE q == session[s].req
           Kinds == [of : Masked, status : {"ACTIVE", "REVOKED", "EXPIRED"}]
           new == [of |-> records[q.id].of, status |-> q.status]
<1> USE DEF GatewayInv
<1>1. /\ session[s].pc = "retired" /\ Close(s) /\ records' = [records EXCEPT ![q.id].status = q.status]
      /\ UNCHANGED <<claimed, wronged, told>>
  BY DEF CommitRetire, In, Emit, answers
<1>2. session'[s].pc = "free" /\ Others(s) /\ SessionsOK'
  BY <1>1, Closes
<1>3. /\ session'[s].pc \notin Claiming /\ session'[s].pc \notin {"inserted", "registered"}
      /\ session'[s].pc \notin MovePcs /\ session'[s].pc \notin RetirePcs
  BY <1>2, Places
<1>4. MessagesOK' /\ Stored' = Stored /\ KeysApart'
  BY <1>1, <1>2, <1>3, MessagesKept, KeysKept
<1>5. SendsApart'
  BY <1>2, <1>3, <1>4, SendsKept
<1>6. session[s].pc \in RetirePcs
  BY <1>1, Places
<1>7. q.id \in RecordIds /\ q.status \in {"REVOKED", "EXPIRED"} /\ records[q.id] # NoRecord
  BY <1>6 DEF SessionsOK, ReqFits, Retirements, RecordsOK
<1>8. records[q.id] \in Kinds /\ records[q.id].of.id = q.id
  BY <1>7 DEF RecordsOK
<1>9. records' = [records EXCEPT ![q.id] = new]
  <2>1. records' = [records EXCEPT ![q.id] = [records[q.id] EXCEPT !.status = q.status]]
    BY <1>1
  <2>2. [records[q.id] EXCEPT !.status = q.status] = new
    BY <1>8
  <2>3. QED
    BY <2>1, <2>2
<1>10. new \in Kinds /\ new.of = records[q.id].of /\ new # NoRecord
  BY <1>7, <1>8 DEF NoRecord
<1> HIDE DEF new, q
<1>11. records'[q.id] = new /\ \A i \in RecordIds : i # q.id => records'[i] = records[i]
  BY <1>7, <1>9 DEF RecordsOK
<1>12. \A i \in RecordIds : (records'[i] # NoRecord <=> records[i] # NoRecord)
                            /\ records'[i].of = records[i].of
  BY <1>7, <1>10, <1>11
<1>13. Registered' = Registered
  BY <1>12 DEF Registered
<1>14. RecordsOK'
  <2>1. records' \in [RecordIds -> {NoRecord} \cup Kinds]
    BY <1>9, <1>10 DEF RecordsOK
  <2>2. \A i \in RecordIds : records'[i] # NoRecord => records'[i].of.id = i
    BY <1>12 DEF RecordsOK
  <2>3. \A o \in Sessions : session'[o].pc \in RetirePcs =>
            session'[o] = session[o] /\ session[o].req.id \in RecordIds
    BY <1>2, <1>3 DEF Others, SessionsOK, ReqFits, Retirements
  <2>4. \A o \in Sessions : session'[o].pc \in RetirePcs => records'[session'[o].req.id] # NoRecord
    BY <2>3, <1>12 DEF RecordsOK
  <2>5. QED
    BY <2>1, <2>2, <2>4 DEF RecordsOK
<1>15. RecordingsApart'
  BY <1>2, <1>3, <1>13, RecordingsKept
<1>16. \A a \in told' : a \in told
  BY <1>1
<1>17. OwnAnswer' /\ AppliedIsAnswered'
  BY <1>1, <1>4, <1>13, <1>16, AnswersKept DEF AppliedIsAnswered
<1>18. QED
  BY <1>2, <1>4, <1>5, <1>14, <1>15, <1>17

-----------------------------------------------------------------------------
(* The theorems *)

\* What changes no transaction and no row leaves the invariant.
LEMMA IdleStep ==
    ASSUME GatewayInv, UNCHANGED <<session, rows, answers, records, messages>>, clock' \in Nat
    PROVE  GatewayInv'
<1> USE DEF GatewayInv
<1>1. UNCHANGED <<claimed, told, wronged>> /\ Stored' = Stored /\ Registered' = Registered
  BY DEF rows, answers, Stored, IsStored, Registered
<1>2. SessionsOK'
  BY DEF SessionsOK
<1>3. MessagesOK' /\ RecordsOK'
  BY DEF MessagesOK, RecordsOK, IsStored
<1>4. KeysApart'
  BY <1>1 DEF KeysApart
<1>5. SendsApart' /\ RecordingsApart'
  BY <1>1 DEF SendsApart, RecordingsApart, Clash, SameRecord, SameKey
<1>6. AppliedIsAnswered' /\ OwnAnswer'
  BY <1>1, AnswersKept DEF AppliedIsAnswered
<1>7. QED
  BY <1>2, <1>3, <1>4, <1>5, <1>6

\* Every step keeps the invariant.
LEMMA GatewayInvStep == GatewayInv /\ [GatewayNext]_gatewayVars => GatewayInv'
<1> SUFFICES ASSUME GatewayInv, [GatewayNext]_gatewayVars PROVE GatewayInv'
  OBVIOUS
<1>1. ASSUME NEW s \in Sessions, MessageStep(s), UNCHANGED records PROVE GatewayInv'
  BY <1>1, BeginMessageStep, ReadMessageStep, ReplayStep, InsertSendStep, CommitSendStep,
     CommitMoveStep DEF MessageStep
<1>2. ASSUME NEW s \in Sessions, EvidenceStep(s), UNCHANGED <<messages, clock>> PROVE GatewayInv'
  BY <1>2, BeginRecordStep, ReadRecordStep, AnswerRegisteredStep, InsertRecordStep,
     CommitRegistrationStep, CommitRetireStep DEF EvidenceStep
<1>3. ASSUME NEW s \in Sessions, CommandStep(s), UNCHANGED <<records, messages, clock>> PROVE GatewayInv'
  BY <1>3, BeginCommandStep, ClaimStep, UpdateTaskStep, CommitCommandStep DEF CommandStep
<1>4. ASSUME NEW s \in Sessions, Rollback(s), UNCHANGED <<records, messages, clock>> PROVE GatewayInv'
  <2>1. Close(s) /\ UNCHANGED <<claimed, messages, records, wronged, clock, told>>
    BY <1>4 DEF Rollback, Refuse, rows, answers
  <2>2. \A a \in told' : a \in told
    BY <2>1
  <2>3. QED
    BY <2>1, <2>2, EndQuietly
<1>5. ASSUME NEW a, ChangeMember(a), UNCHANGED <<records, messages, clock>> PROVE GatewayInv'
  <2>1. clock' \in Nat
    BY <1>5 DEF GatewayInv, SessionsOK
  <2>2. QED
    BY <1>5, <2>1, IdleStep DEF ChangeMember
<1>6. CASE Tick
  <2>1. clock' \in Nat /\ UNCHANGED <<session, rows, answers, records, messages>>
    BY <1>6 DEF Tick, GatewayInv, SessionsOK, uowVars
  <2>2. QED
    BY <2>1, IdleStep
<1>7. CASE UNCHANGED gatewayVars
  <2>1. clock' \in Nat /\ UNCHANGED <<session, rows, answers, records, messages>>
    BY <1>7 DEF gatewayVars, GatewayInv, SessionsOK, uowVars
  <2>2. QED
    BY <2>1, IdleStep
<1>8. QED
  BY <1>1, <1>2, <1>3, <1>4, <1>5, <1>6, <1>7 DEF GatewayNext

\* The invariant holds of every behaviour.
LEMMA GatewayKeepsInv == GatewaySpec => []GatewayInv
BY GatewayInvInit, GatewayInvStep, PTL DEF GatewaySpec

\* A command that took effect is never called stale, whatever races with its
\* retries: the key is claimed before the version is asked.
THEOREM AppliedCommandsAreAnswered == GatewaySpec => []AppliedIsAnswered
<1>1. GatewayInv => AppliedIsAnswered
  BY DEF GatewayInv
<1>2. QED
  BY <1>1, GatewayKeepsInv, PTL

\* No message, command or registration is answered with the row of another
\* request, for any number of connections and with any rollback.
THEOREM AnswersAreOwn == GatewaySpec => []OwnAnswer
<1>1. GatewayInv => OwnAnswer
  BY DEF GatewayInv
<1>2. QED
  BY <1>1, GatewayKeepsInv, PTL

-----------------------------------------------------------------------------
(* The story the Audit log and the Outbox tell.  A transaction that has      *)
(* written holds its row and its Outbox key until it ends; so its commit adds *)
(* one Audit row and one Outbox row that were not there.                     *)

Writing == {"updated", "inserted", "moved", "registered", "retired"}

\* The Outbox key that session s has inserted.
KeyOf(s) ==
    IF session[s].pc \in {"updated", "inserted"} THEN session[s].req.key
    ELSE IF session[s].pc = "registered" THEN <<session[s].req.id, "ACTIVE">>
    ELSE <<session[s].req.id, session[s].req.status>>

KeysPending == \A s \in Sessions : session[s].pc \in Writing =>
    /\ KeyOf(s) \notin outbox
    /\ \A o \in Sessions \ {s} : session[o].pc \in Writing => KeyOf(o) # KeyOf(s)

\* What a transaction has found in the row it holds is there.
WriteFits(s) ==
    /\ session[s].pc = "updated" => version[session[s].req.task] = session[s].req.expected
    /\ session[s].pc = "moved" =>
          session[s].req.status \in Successors[messages[session[s].req.id].status]
    /\ session[s].pc = "retired" => records[session[s].req.id].status = "ACTIVE"

\* Two transactions do not hold one row.
SameRow(s, o) == session[o].pc = session[s].pc /\
    \/ session[s].pc = "updated" /\ session[o].req.task = session[s].req.task
    \/ session[s].pc \in {"moved", "retired"} /\ session[o].req.id = session[s].req.id
RowsHeld == \A s \in Sessions : WriteFits(s) /\ \A o \in Sessions \ {s} : ~SameRow(s, o)

\* How far a message has come: every move goes further.
Rank(st) == IF st = "NONE" THEN 0 ELSE IF st = "SENT" THEN 1 ELSE IF st = "DELIVERED" THEN 2
            ELSE IF st = "ACKNOWLEDGED" THEN 3 ELSE 4
MovesForward == \A l \in log : l.target \in Ids =>
    l.after \in Statuses /\ Rank(l.after) <= Rank(messages[l.target].status)

StoryFinite == IsFiniteSet(log) /\ IsFiniteSet(outbox) /\ IsFiniteSet(claimed)
               /\ version \in [Tasks -> Nat \ {0}]

StoryInv == RowsHeld /\ KeysPending /\ MovesForward /\ StoryFinite /\ StoryTold

\* The parts of the story: of a Task, of a message, of a record, of the keys.
Story(i) == {l \in log : l.target = i}
Befores(i) == {l.before : l \in Story(i)}
Afters(i) == {l.after : l \in Story(i)}

VersionTold(t) ==
    /\ Story(t) = {[target |-> t, before |-> v, after |-> v + 1] : v \in 1..(version[t] - 1)}
    /\ Cardinality({c \in claimed : c.task = t}) = version[t] - 1
RecordTold(i) == Story(i) =
    IF records[i] = NoRecord THEN {}
    ELSE {[target |-> i, before |-> "NONE", after |-> "ACTIVE"]} \cup
         (IF records[i].status = "ACTIVE" THEN {}
          ELSE {[target |-> i, before |-> "ACTIVE", after |-> records[i].status]})
MessageTold(i) ==
    /\ Befores(i) \cup {messages[i].status} = Afters(i) \cup {"NONE"}
    /\ Cardinality(Afters(i)) = Cardinality(Story(i))
    /\ \A l \in Story(i) : l.before # "NONE" => l.after \in Successors[l.before]

\* The Audit rows whose Outbox key is made of their target and status.
Noted == {l \in log : l.target \in RecordIds \/ (l.target \in Ids /\ l.before # "NONE")}
Keyed == outbox = {r.key : r \in Stored \cup claimed} \cup {<<l.target, l.after>> : l \in Noted}
Counted == Cardinality(outbox) = Cardinality(log)

LEMMA StoryParts ==
    StoryTold <=> /\ \A t \in Tasks : VersionTold(t)
                  /\ \A i \in RecordIds : RecordTold(i)
                  /\ \A i \in Ids : MessageTold(i)
                  /\ Keyed /\ Counted
BY DEF StoryTold, VersionsTold, RecordsTold, VersionTold, RecordTold, MessageTold, Story, Befores,
       Afters, Noted, Keyed, Counted

\* What one Audit row adds.
LEMMA RowAdded ==
    ASSUME NEW x, log' = log \cup {x}, NEW i
    PROVE  Story(i)' = IF x.target = i THEN Story(i) \cup {x} ELSE Story(i)
BY DEF Story

\* The story of what a step does not touch stays.
LEMMA VersionToldOn ==
    ASSUME NEW t, VersionTold(t), Story(t)' = Story(t), version'[t] = version[t],
           {c \in claimed : c.task = t}' = {c \in claimed : c.task = t}
    PROVE  VersionTold(t)'
BY DEF VersionTold

LEMMA RecordToldOn ==
    ASSUME NEW i, RecordTold(i), Story(i)' = Story(i), records'[i] = records[i]
    PROVE  RecordTold(i)'
BY DEF RecordTold

LEMMA MessageToldOn ==
    ASSUME NEW i, MessageTold(i), Story(i)' = Story(i), messages'[i].status = messages[i].status
    PROVE  MessageTold(i)'
<1>1. Befores(i)' = Befores(i) /\ Afters(i)' = Afters(i)
  BY DEF Befores, Afters
<1>2. QED
  BY <1>1 DEF MessageTold, Successors

-----------------------------------------------------------------------------
(* Steps before the commit *)

\* The keys that are held are the keys of the sessions that have written.
LEMMA KeysOfWriters == KeysHeld = {KeyOf(o) : o \in {u \in Sessions : session[u].pc \in Writing}}
<1>1. ASSUME NEW k \in KeysHeld PROVE k \in {KeyOf(o) : o \in {u \in Sessions : session[u].pc \in Writing}}
  BY DEF KeysHeld, Doing, KeyOf, Writing
<1>2. ASSUME NEW o \in Sessions, session[o].pc \in Writing PROVE KeyOf(o) \in KeysHeld
  <2>1. CASE session[o].pc \in {"updated", "inserted"}
    BY <2>1 DEF KeysHeld, Doing, KeyOf
  <2>2. CASE session[o].pc = "registered"
    BY <2>2 DEF KeysHeld, Doing, KeyOf
  <2>3. CASE session[o].pc \in {"moved", "retired"}
    BY <2>3 DEF KeysHeld, Doing, KeyOf
  <2>4. QED
    BY <1>2, <2>1, <2>2, <2>3 DEF Writing
<1>3. QED
  BY <1>1, <1>2

\* The story does not depend on the transactions.
LEMMA StoryUntouched ==
    ASSUME StoryInv, UNCHANGED <<rows, messages, records>>
    PROVE  MovesForward' /\ StoryFinite' /\ StoryTold'
<1>1. UNCHANGED <<version, claimed, log, outbox, messages, records>>
  BY DEF rows
<1>2. MovesForward' /\ StoryFinite'
  BY <1>1 DEF StoryInv, MovesForward, StoryFinite, Rank
<1>3. Stored' = Stored
  BY <1>1 DEF Stored, IsStored
<1>4. StoryTold'
  BY <1>1, <1>3 DEF StoryInv, StoryTold, VersionsTold, RecordsTold, Successors
<1>5. QED
  BY <1>2, <1>4

\* The others keep what they hold, when the rows they hold are left.
LEMMA OthersHold ==
    ASSUME RowsHeld, NEW s \in Sessions, Others(s), session'[s].pc \notin Writing,
           \A o \in Sessions \ {s} :
              /\ session[o].pc = "updated" => version'[session[o].req.task] = version[session[o].req.task]
              /\ session[o].pc = "moved" =>
                    messages'[session[o].req.id].status = messages[session[o].req.id].status
              /\ session[o].pc = "retired" =>
                    records'[session[o].req.id].status = records[session[o].req.id].status
    PROVE  RowsHeld'
<1>1. \A o \in Sessions \ {s} : session'[o] = session[o]
  BY DEF Others
<1>2. WriteFits(s)' /\ \A o \in Sessions : ~SameRow(s, o)' /\ ~SameRow(o, s)'
  BY DEF WriteFits, SameRow, Writing
<1>3. \A o \in Sessions \ {s} : WriteFits(o)'
  BY <1>1 DEF RowsHeld, WriteFits, Successors
<1>4. \A o, q \in Sessions \ {s} : o # q => ~SameRow(o, q)'
  BY <1>1 DEF RowsHeld, SameRow
<1>5. QED
  BY <1>2, <1>3, <1>4 DEF RowsHeld

\* A step that neither writes nor has written.
LEMMA TellsNothing ==
    ASSUME StoryInv, NEW s \in Sessions, Others(s), UNCHANGED <<rows, messages, records>>,
           session'[s].pc \notin Writing
    PROVE  StoryInv'
<1>1. MovesForward' /\ StoryFinite' /\ StoryTold'
  BY StoryUntouched
<1>2. UNCHANGED <<version, outbox>>
  BY DEF rows
<1>3. RowsHeld'
  BY <1>2, OthersHold DEF StoryInv
<1>4. KeysPending'
  <2>1. \A o \in Sessions : session'[o].pc \in Writing => session'[o] = session[o] /\ KeyOf(o)' = KeyOf(o)
    BY DEF Others, KeyOf
  <2>2. QED
    BY <1>2, <2>1 DEF StoryInv, KeysPending
<1>5. QED
  BY <1>1, <1>3, <1>4 DEF StoryInv

\* A step that writes: it finds its row as it needs it, held by nobody else, and
\* its Outbox key free.
LEMMA TellsLater ==
    ASSUME StoryInv, NEW s \in Sessions, Others(s), UNCHANGED <<rows, messages, records>>,
           session'[s].pc \in Writing, session[s].pc \notin Writing, WriteFits(s)',
           \A o \in Sessions \ {s} : ~SameRow(s, o)' /\ ~SameRow(o, s)',
           KeyOf(s)' \notin outbox, KeyOf(s)' \notin KeysHeld
    PROVE  StoryInv'
<1>1. MovesForward' /\ StoryFinite' /\ StoryTold'
  BY StoryUntouched
<1>2. UNCHANGED <<version, outbox>> /\ \A o \in Sessions \ {s} : session'[o] = session[o]
  BY DEF rows, Others
<1>3. RowsHeld'
  <2>1. \A o \in Sessions \ {s} : WriteFits(o)'
    BY <1>2 DEF StoryInv, RowsHeld, WriteFits, Successors
  <2>2. \A o, q \in Sessions \ {s} : o # q => ~SameRow(o, q)'
    BY <1>2 DEF StoryInv, RowsHeld, SameRow
  <2>3. QED
    BY <2>1, <2>2 DEF RowsHeld
<1>4. KeysPending'
  <2>1. \A o \in Sessions \ {s} : KeyOf(o)' = KeyOf(o)
    BY <1>2 DEF KeyOf
  <2>2. \A o \in Sessions \ {s} : session[o].pc \in Writing => KeyOf(o) # KeyOf(s)' /\ KeyOf(o) \notin outbox
    BY KeysOfWriters DEF StoryInv, KeysPending
  <2>3. QED
    BY <1>2, <2>1, <2>2 DEF StoryInv, KeysPending
<1>5. QED
  BY <1>1, <1>3, <1>4 DEF StoryInv

\* What every commit does: one Audit row and one Outbox row more.
LEMMA CommitCounts ==
    ASSUME StoryInv, NEW s \in Sessions, Others(s), session[s].pc \in Writing, session'[s].pc \notin Writing,
           NEW x, x \notin log, log' = log \cup {x}, outbox' = outbox \cup {KeyOf(s)}
    PROVE  KeysPending' /\ Counted' /\ IsFiniteSet(log') /\ IsFiniteSet(outbox')
<1>1. \A o \in Sessions \ {s} : session'[o] = session[o] /\ KeyOf(o)' = KeyOf(o)
  BY DEF Others, KeyOf
<1>2. KeyOf(s) \notin outbox /\ \A o \in Sessions \ {s} : session[o].pc \in Writing => KeyOf(o) # KeyOf(s)
  BY DEF StoryInv, KeysPending
<1>3. KeysPending'
  BY <1>1, <1>2 DEF StoryInv, KeysPending
<1>4. /\ IsFiniteSet(log') /\ Cardinality(log') = Cardinality(log) + 1
      /\ IsFiniteSet(outbox') /\ Cardinality(outbox') = Cardinality(outbox) + 1
  BY <1>2, FS_AddElement DEF StoryInv, StoryFinite
<1>5. Counted'
  BY <1>4, StoryParts DEF StoryInv, Counted
<1>6. QED
  BY <1>3, <1>4, <1>5

-----------------------------------------------------------------------------
(* The steps of the code that write no row *)

\* A transaction goes to another place of its code.
LEMMA GoesTo ==
    ASSUME SessionsOK, NEW s \in Sessions, NEW pc, session[s].pc # "free", Goto(s, pc)
    PROVE  session'[s].pc = pc /\ session'[s].req = session[s].req /\ Others(s)
<1>1. session[s] \in Transactions
  BY DEF SessionsOK, Free
<1>2. session' = [session EXCEPT ![s] = [session[s] EXCEPT !.pc = pc]]
  BY DEF Goto
<1> DEFINE new == [session[s] EXCEPT !.pc = pc]
<1>3. new.pc = pc /\ new.req = session[s].req
  BY <1>1 DEF Transactions
<1> HIDE DEF new
<1>4. session'[s] = new /\ Others(s)
  BY <1>2 DEF SessionsOK, Others, new
<1>5. QED
  BY <1>3, <1>4

LEMMA GoesQuietly ==
    ASSUME SessionsOK, StoryInv, NEW s \in Sessions, NEW pc, session[s].pc # "free", Goto(s, pc),
           pc \notin Writing, UNCHANGED <<rows, messages, records>>
    PROVE  StoryInv'
BY GoesTo, TellsNothing

LEMMA ClosesQuietly ==
    ASSUME SessionsOK, StoryInv, NEW s \in Sessions, Close(s), UNCHANGED <<rows, messages, records>>
    PROVE  StoryInv'
<1>1. session'[s].pc = "free" /\ Others(s)
  BY DEF SessionsOK, Close, Others, Free
<1>2. QED
  BY <1>1, TellsNothing DEF Writing

\* A transaction begins.
LEMMA BeginsQuietly ==
    ASSUME SessionsOK, StoryInv, NEW s \in Sessions, NEW x, x.pc \notin Writing,
           session' = [session EXCEPT ![s] = x], UNCHANGED <<rows, messages, records>>
    PROVE  StoryInv'
<1>1. session'[s] = x /\ Others(s)
  BY DEF SessionsOK, Others
<1>2. QED
  BY <1>1, TellsNothing

LEMMA BeginTells ==
    ASSUME SessionsOK, StoryInv, NEW s \in Sessions,
           \/ \E c \in Commands : BeginCommand(s, c) /\ UNCHANGED <<messages, records>>
           \/ \E e \in Envelopes : BeginSend(s, e) /\ UNCHANGED records
           \/ \E i \in Ids, st \in Statuses \ {"SENT"} : BeginMove(s, i, st) /\ UNCHANGED records
           \/ \E r \in Registrations : BeginRegistration(s, r) /\ UNCHANGED messages
           \/ \E i \in RecordIds, st \in {"REVOKED", "EXPIRED"} : BeginRetire(s, i, st) /\ UNCHANGED messages
    PROVE  StoryInv'
<1>1. UNCHANGED <<rows, messages, records>>
  BY DEF BeginCommand, BeginSend, BeginMove, BeginRegistration, BeginRetire
<1>2. PICK pc \in {"claim", "check", "fetch", "seek", "retire"} : \E x : x.pc = pc /\ session' = [session EXCEPT ![s] = x]
  BY DEF BeginCommand, BeginSend, BeginMove, BeginRegistration, BeginRetire
<1>3. QED
  BY <1>1, <1>2, BeginsQuietly DEF Writing

\* The checks, the lookups and the claim.
LEMMA ReadTells ==
    ASSUME SessionsOK, StoryInv, NEW s \in Sessions, UNCHANGED <<messages, records>>,
           \/ Claim(s) \/ CheckSend(s) \/ NotFound(s) \/ Replay(s)
           \/ NoneRegistered(s) \/ AnswerRegistered(s) \/ Rollback(s)
    PROVE  StoryInv'
<1>1. UNCHANGED rows
  BY DEF Claim, CheckSend, NotFound, Replay, NoneRegistered, AnswerRegistered, Rollback, Refuse
<1>2. \/ Close(s)
      \/ \E pc \in {"claimed", "lookup", "insert", "enter"} : Goto(s, pc) /\ session[s].pc # "free"
  BY DEF Claim, CheckSend, NotFound, Replay, NoneRegistered, AnswerRegistered, Rollback, Refuse, In
<1>3. QED
  BY <1>1, <1>2, ClosesQuietly, GoesQuietly DEF Writing

-----------------------------------------------------------------------------
(* The steps that write and wait for the commit *)

LEMMA UpdateTells ==
    ASSUME SessionsOK, StoryInv, NEW s \in Sessions, UpdateTask(s), UNCHANGED <<messages, records>>
    PROVE  StoryInv'
<1> DEFINE c == session[s].req
<1>1. session[s].pc = "claimed" /\ UNCHANGED <<rows, version>>
  BY DEF UpdateTask, In, rows
<1>2. CASE Close(s)
  BY <1>1, <1>2, ClosesQuietly
<1>3. CASE ~Close(s)
  <2>1. /\ Goto(s, "updated") /\ version[c.task] = c.expected
        /\ c.key \notin outbox /\ c.key \notin KeysHeld
        /\ \A o \in Sessions : session[o].pc = "updated" => session[o].req.task # c.task
    BY <1>3 DEF UpdateTask, Doing
  <2> HIDE DEF c
  <2>2. session'[s].pc = "updated" /\ session'[s].req = c /\ Others(s)
    BY <1>1, <2>1, GoesTo DEF c
  <2>3. WriteFits(s)' /\ KeyOf(s)' = c.key
    BY <1>1, <2>1, <2>2 DEF WriteFits, KeyOf
  <2>4. \A o \in Sessions \ {s} : ~SameRow(s, o)' /\ ~SameRow(o, s)'
    BY <2>1, <2>2 DEF SameRow, Others
  <2>5. QED
    BY <1>1, <2>1, <2>2, <2>3, <2>4, TellsLater DEF Writing
<1>4. QED
  BY <1>2, <1>3

LEMMA InsertTells ==
    ASSUME SessionsOK, StoryInv, NEW s \in Sessions, UNCHANGED <<messages, records>>,
           InsertSend(s) \/ InsertRecord(s)
    PROVE  StoryInv'
<1> DEFINE r == session[s].req
           pc == IF session[s].pc = "insert" THEN "inserted" ELSE "registered"
           key == IF session[s].pc = "insert" THEN r.key ELSE <<r.id, "ACTIVE">>
<1>1. session[s].pc \in {"insert", "enter"} /\ Goto(s, pc) /\ UNCHANGED rows /\ KeyFree(key)
  BY DEF InsertSend, InsertRecord, In
<1>2. pc \in {"inserted", "registered"} /\ (pc = "inserted" => key = r.key)
      /\ (pc = "registered" => key = <<r.id, "ACTIVE">>)
  BY <1>1
<1> HIDE DEF r, pc, key
<1>3. session'[s].pc = pc /\ session'[s].req = r /\ Others(s)
  BY <1>1, GoesTo DEF r
<1>4. WriteFits(s)' /\ KeyOf(s)' = key
  BY <1>2, <1>3 DEF WriteFits, KeyOf
<1>5. \A o \in Sessions \ {s} : ~SameRow(s, o)' /\ ~SameRow(o, s)'
  BY <1>2, <1>3 DEF SameRow
<1>6. QED
  BY <1>1, <1>2, <1>3, <1>4, <1>5, TellsLater DEF Writing, KeyFree

LEMMA MoveTells ==
    ASSUME SessionsOK, StoryInv, NEW s \in Sessions, UNCHANGED <<messages, records>>,
           FetchAndUpdate(s) \/ Retire(s)
    PROVE  StoryInv'
<1> DEFINE r == session[s].req
           pc == IF session[s].pc = "fetch" THEN "moved" ELSE "retired"
<1>1. session[s].pc \in {"fetch", "retire"} /\ Goto(s, pc) /\ UNCHANGED rows /\ KeyFree(<<r.id, r.status>>)
  BY DEF FetchAndUpdate, Retire, In
<1>2. /\ pc \in {"moved", "retired"}
      /\ pc = "moved" => r.status \in Successors[messages[r.id].status]
      /\ pc = "retired" => records[r.id].status = "ACTIVE"
      /\ \A o \in Sessions : session[o].pc = pc => session[o].req.id # r.id
  BY DEF FetchAndUpdate, Retire, In, MayMove, Locked, Held, Doing
<1> HIDE DEF r, pc
<1>3. session'[s].pc = pc /\ session'[s].req = r /\ Others(s)
  BY <1>1, GoesTo DEF r
<1>4. WriteFits(s)' /\ KeyOf(s)' = <<r.id, r.status>>
  BY <1>2, <1>3 DEF WriteFits, KeyOf, Successors
<1>5. \A o \in Sessions \ {s} : ~SameRow(s, o)' /\ ~SameRow(o, s)'
  BY <1>2, <1>3 DEF SameRow, Others
<1>6. QED
  BY <1>1, <1>2, <1>3, <1>4, <1>5, TellsLater DEF Writing, KeyFree

-----------------------------------------------------------------------------
(* The commits: each tells one row more of its own target *)

\* Tasks, messages and records are different targets.
LEMMA TargetsApart == Tasks \cap Ids = {} /\ Tasks \cap RecordIds = {} /\ Ids \cap RecordIds = {}
BY TargetAssumption DEF Ids

\* The Outbox key that goes with the Audit row.
LEMMA KeyAdded ==
    ASSUME Keyed, NEW x, NEW k, log' = log \cup {x}, outbox' = outbox \cup {k},
           \/ /\ x.target \in RecordIds \/ (x.target \in Ids /\ x.before # "NONE")
              /\ k = <<x.target, x.after>> /\ Stored' \cup claimed' = Stored \cup claimed
           \/ /\ x.target \notin RecordIds /\ (x.target \in Ids => x.before = "NONE")
              /\ \E r : r.key = k /\ Stored' \cup claimed' = Stored \cup claimed \cup {r}
    PROVE  Keyed'
<1>1. CASE x.target \in RecordIds \/ (x.target \in Ids /\ x.before # "NONE")
  <2>1. Noted' = Noted \cup {x}
    BY <1>1 DEF Noted
  <2>2. k = <<x.target, x.after>> /\ Stored' \cup claimed' = Stored \cup claimed
    BY <1>1
  <2>3. QED
    BY <2>1, <2>2 DEF Keyed
<1>2. CASE x.target \notin RecordIds /\ (x.target \in Ids => x.before = "NONE")
  <2>1. Noted' = Noted
    BY <1>2 DEF Noted
  <2>2. PICK r : r.key = k /\ Stored' \cup claimed' = Stored \cup claimed \cup {r}
    BY <1>2
  <2>3. QED
    BY <2>1, <2>2 DEF Keyed
<1>3. QED
  BY <1>1, <1>2

\* The stories of the other targets stay.
LEMMA OthersTold ==
    ASSUME StoryInv, NEW x, log' = log \cup {x},
           \A t \in Tasks : t # x.target => version'[t] = version[t]
               /\ {c \in claimed' : c.task = t} = {c \in claimed : c.task = t},
           \A i \in RecordIds : i # x.target => records'[i] = records[i],
           \A i \in Ids : i # x.target => messages'[i] = messages[i]
    PROVE  /\ \A t \in Tasks : t # x.target => VersionTold(t)'
           /\ \A i \in RecordIds : i # x.target => RecordTold(i)'
           /\ \A i \in Ids : i # x.target => MessageTold(i)'
<1>1. \A i : i # x.target => Story(i)' = Story(i)
  BY RowAdded
<1>2. /\ \A t \in Tasks : VersionTold(t)
      /\ \A i \in RecordIds : RecordTold(i)
      /\ \A i \in Ids : MessageTold(i)
  BY StoryParts DEF StoryInv
<1>3. ASSUME NEW t \in Tasks, t # x.target PROVE VersionTold(t)'
  BY <1>1, <1>2, <1>3, VersionToldOn
<1>4. ASSUME NEW i \in RecordIds, i # x.target PROVE RecordTold(i)'
  BY <1>1, <1>2, <1>4, RecordToldOn
<1>5. ASSUME NEW i \in Ids, i # x.target PROVE MessageTold(i)'
  BY <1>1, <1>2, <1>5, MessageToldOn
<1>6. QED
  BY <1>3, <1>4, <1>5

\* The target of a commit is a Task, a message or a record; when its own story is
\* told, all is.
LEMMA CommitTold ==
    ASSUME Keyed', Counted', NEW x,
           /\ \A t \in Tasks : t # x.target => VersionTold(t)'
           /\ \A i \in RecordIds : i # x.target => RecordTold(i)'
           /\ \A i \in Ids : i # x.target => MessageTold(i)',
           \/ x.target \in Tasks /\ VersionTold(x.target)'
           \/ x.target \in RecordIds /\ RecordTold(x.target)'
           \/ x.target \in Ids /\ MessageTold(x.target)'
    PROVE  StoryTold'
<1>1. /\ \A t \in Tasks : VersionTold(t)'
      /\ \A i \in RecordIds : RecordTold(i)'
      /\ \A i \in Ids : MessageTold(i)'
  BY TargetsApart
<1>2. (\A t \in Tasks : VersionTold(t))' /\ (\A i \in RecordIds : RecordTold(i))'
      /\ (\A i \in Ids : MessageTold(i))'
  BY <1>1
<1>3. QED
  BY <1>2, StoryParts, PTL

\* A command that commits tells the version it found and the next, and is the
\* first command completed at that version.
LEMMA CommitCommandTells ==
    ASSUME GatewayInv, StoryInv, NEW s \in Sessions, CommitCommand(s), UNCHANGED <<records, messages>>
    PROVE  StoryInv'
<1>. PICK c : c = session[s].req
  OBVIOUS
<1> DEFINE v == c.expected
           x == [target |-> c.task, before |-> v, after |-> v + 1]
<1>1. /\ session[s].pc = "updated" /\ Close(s) /\ version' = [version EXCEPT ![c.task] = @ + 1]
      /\ claimed' = claimed \cup {c} /\ log' = log \cup {x} /\ outbox' = outbox \cup {c.key}
  BY DEF CommitCommand, In, Append, Enqueue
<1>2. c \in Commands /\ c.task \in Tasks /\ v \in Nat \ {0}
  BY <1>1, Places, CommandAssumption DEF GatewayInv, SessionsOK, ReqFits
<1>3. session'[s].pc \notin Writing /\ Others(s)
  BY <1>1 DEF GatewayInv, SessionsOK, Close, Others, Free, Writing
<1>4. KeyOf(s) = c.key /\ version[c.task] = v /\ c \notin claimed
  <2>1. KeyOf(s) = c.key
    BY <1>1 DEF KeyOf
  <2>2. version[c.task] = v
    BY <1>1 DEF StoryInv, RowsHeld, WriteFits
  <2>3. \A d \in claimed : d.key # c.key
    BY <1>1 DEF GatewayInv, KeysApart, Claiming
  <2>4. QED
    BY <2>1, <2>2, <2>3
<1>5. /\ version'[c.task] = v + 1 /\ \A t \in Tasks : t # c.task => version'[t] = version[t]
      /\ version' \in [Tasks -> Nat \ {0}]
  BY <1>1, <1>2, <1>4 DEF StoryInv, StoryFinite
<1>6. x.target = c.task /\ x.target \notin Ids /\ x.target \notin RecordIds
  BY <1>2, TargetsApart
<1>7. VersionTold(c.task)
  BY <1>2, StoryParts DEF StoryInv
<1>8. x \notin log
  <2>1. \A y \in Story(c.task) : y.before \in 1..(v - 1)
    BY <1>4, <1>7 DEF VersionTold
  <2>2. x \notin Story(c.task)
    BY <1>2, <2>1
  <2>3. QED
    BY <2>2 DEF Story
<1>9. Story(c.task)' = Story(c.task) \cup {x}
  BY <1>1, RowAdded
<1> HIDE DEF x, v
<1>10. KeysPending' /\ Counted' /\ IsFiniteSet(log') /\ IsFiniteSet(outbox')
  BY <1>1, <1>3, <1>4, <1>8, CommitCounts DEF Writing
<1>11. RowsHeld'
  <2>1. \A o \in Sessions \ {s} : session[o].pc = "updated" =>
            session[o].req.task \in Tasks /\ session[o].req.task # c.task
    BY <1>1, Places, CommandAssumption
       DEF StoryInv, RowsHeld, SameRow, GatewayInv, SessionsOK, ReqFits
  <2>2. QED
    BY <1>3, <1>5, <2>1, OthersHold DEF StoryInv
<1>12. Keyed'
  <2>1. Stored' \cup claimed' = Stored \cup claimed \cup {c}
    BY <1>1 DEF Stored, IsStored
  <2>2. Keyed
    BY StoryParts DEF StoryInv
  <2>3. QED
    BY <1>1, <1>6, <2>1, <2>2, KeyAdded
<1>13. VersionTold(c.task)'
  <2>1. Story(c.task)' = {[target |-> c.task, before |-> u, after |-> u + 1] : u \in 1..(v + 1 - 1)}
    <3>1. Story(c.task) = {[target |-> c.task, before |-> u, after |-> u + 1] : u \in 1..(v - 1)}
      BY <1>4, <1>7 DEF VersionTold
    <3>2. 1..(v + 1 - 1) = 1..(v - 1) \cup {v}
      BY <1>2
    <3>3. QED
      BY <1>9, <3>1, <3>2 DEF x, v
  <2> DEFINE D == {d \in claimed : d.task = c.task}
  <2>2. D' = D \cup {c} /\ c \notin D
    BY <1>1, <1>4
  <2>3. Cardinality(D) = v - 1
    BY <1>4, <1>7 DEF VersionTold
  <2>4. IsFiniteSet(D)
    BY FS_Subset DEF StoryInv, StoryFinite
  <2>5. Cardinality(D') = v + 1 - 1
    <3>1. Cardinality(D \cup {c}) = Cardinality(D) + 1
      <4> HIDE DEF D
      <4>1. QED
        BY <2>2, <2>4, FS_AddElement
    <3>2. QED
      BY <1>2, <2>2, <2>3, <3>1
  <2>6. version'[c.task] - 1 = v + 1 - 1
    BY <1>2, <1>5
  <2>7. QED
    BY <2>1, <2>5, <2>6 DEF VersionTold
<1>14. StoryTold'
  <2>1. \A t \in Tasks : t # x.target => version'[t] = version[t]
            /\ {d \in claimed' : d.task = t} = {d \in claimed : d.task = t}
    BY <1>1, <1>5, <1>6
  <2>2. QED
    BY <1>1, <1>2, <1>6, <1>10, <1>12, <1>13, <2>1, OthersTold, CommitTold
<1>15. MovesForward'
  BY <1>1, <1>6 DEF StoryInv, MovesForward, Rank
<1>16. StoryFinite'
  BY <1>1, <1>5, <1>10, FS_AddElement DEF StoryInv, StoryFinite
<1>17. QED
  BY <1>10, <1>11, <1>14, <1>15, <1>16 DEF StoryInv

\* A message that commits is the first that is told of its id.
LEMMA CommitSendTells ==
    ASSUME GatewayInv, StoryInv, NEW s \in Sessions, CommitSend(s), UNCHANGED records
    PROVE  StoryInv'
<1>. PICK e : e = session[s].req
  OBVIOUS
<1> DEFINE x == [target |-> e.id, before |-> "NONE", after |-> "SENT"]
<1>1. /\ session[s].pc = "inserted" /\ Close(s) /\ UNCHANGED <<version, claimed>>
      /\ log' = log \cup {x} /\ outbox' = outbox \cup {e.key}
  BY DEF CommitSend, In, Append, Enqueue
<1>2. /\ e \in Envelopes /\ e.id \in Ids
      /\ messages[e.id].status = "NONE" /\ messages'[e.id].status = "SENT" /\ ~IsStored(e.id)
      /\ \A i \in Ids : i # e.id => messages'[i] = messages[i]
      /\ Stored' = Stored \cup {e}
  <2>1. messages[e.id] = NoMessage /\ messages'[e.id] = [env |-> e, status |-> "SENT"]
    BY SendIsNew
  <2>2. messages[e.id].status = "NONE" /\ messages'[e.id].status = "SENT" /\ ~IsStored(e.id)
    BY <2>1 DEF NoMessage, IsStored
  <2>3. QED
    BY <2>2, SendIsNew
<1>3. session'[s].pc \notin Writing /\ Others(s) /\ KeyOf(s) = e.key
  BY <1>1 DEF GatewayInv, SessionsOK, Close, Others, Free, Writing, KeyOf
<1>4. Story(e.id) = {} /\ x \notin log /\ Story(e.id)' = {x}
  <2>1. \A l \in log : l.target # e.id
    BY <1>2 DEF StoryInv, MovesForward, Statuses, Rank
  <2>2. Story(e.id) = {} /\ x \notin log
    BY <2>1 DEF Story
  <2>3. Story(e.id)' = Story(e.id) \cup {x}
    BY <1>1, RowAdded
  <2>4. QED
    BY <2>2, <2>3
<1>5. x.target = e.id /\ x.before = "NONE" /\ x.after = "SENT" /\ e.id \notin RecordIds /\ e.id \notin Tasks
  BY <1>2, TargetsApart
<1> HIDE DEF x
<1>6. KeysPending' /\ Counted' /\ IsFiniteSet(log') /\ IsFiniteSet(outbox')
  BY <1>1, <1>3, <1>4, CommitCounts DEF Writing
<1>7. RowsHeld'
  <2>1. \A o \in Sessions \ {s} : session[o].pc = "moved" =>
            session[o].req.id \in Ids /\ session[o].req.id # e.id
    BY <1>2, Places DEF GatewayInv, MessagesOK, SessionsOK, ReqFits, Moves
  <2>2. QED
    BY <1>1, <1>2, <1>3, <2>1, OthersHold DEF StoryInv
<1>8. Keyed'
  <2>1. Stored' \cup claimed' = Stored \cup claimed \cup {e}
    BY <1>1, <1>2
  <2>2. Keyed
    BY StoryParts DEF StoryInv
  <2>3. QED
    BY <1>1, <1>5, <2>1, <2>2, KeyAdded
<1>9. MessageTold(e.id)'
  <2>1. Befores(e.id)' = {"NONE"} /\ Afters(e.id)' = {"SENT"}
    BY <1>4, <1>5 DEF Befores, Afters
  <2>2. Cardinality(Story(e.id)') = 1 /\ Cardinality(Afters(e.id)') = 1
    BY <1>4, <2>1, FS_Singleton
  <2>3. \A l \in Story(e.id)' : l.before = "NONE"
    BY <1>4, <1>5
  <2>4. QED
    BY <1>2, <2>1, <2>2, <2>3 DEF MessageTold
<1>10. StoryTold'
  BY <1>1, <1>2, <1>5, <1>6, <1>8, <1>9, OthersTold, CommitTold
<1>11. MovesForward'
  <2>1. \A l \in log : l.target # e.id
    BY <1>4 DEF Story
  <2>2. x.after \in Statuses /\ Rank(x.after) <= Rank(messages'[e.id].status)
    BY <1>2, <1>5 DEF Statuses, Rank
  <2>3. \A l \in log' : l.target \in Ids =>
            l.after \in Statuses /\ Rank(l.after) <= Rank(messages'[l.target].status)
    BY <1>1, <1>2, <1>5, <2>1, <2>2 DEF StoryInv, MovesForward
  <2>4. QED
    BY <2>3 DEF MovesForward, Rank
<1>12. StoryFinite'
  BY <1>1, <1>6 DEF StoryInv, StoryFinite
<1>13. QED
  BY <1>6, <1>7, <1>10, <1>11, <1>12 DEF StoryInv

\* A record that commits is the first that is told of its id.
LEMMA CommitRegistrationTells ==
    ASSUME GatewayInv, StoryInv, NEW s \in Sessions, CommitRegistration(s), UNCHANGED messages
    PROVE  StoryInv'
<1>. PICK r : r = session[s].req
  OBVIOUS
<1> DEFINE x == [target |-> r.id, before |-> "NONE", after |-> "ACTIVE"]
           key == <<r.id, "ACTIVE">>
<1>1. /\ session[s].pc = "registered" /\ Close(s) /\ UNCHANGED <<version, claimed>>
      /\ log' = log \cup {x} /\ outbox' = outbox \cup {key}
  BY DEF CommitRegistration, In, Emit, Append, Enqueue
<1>2. /\ r \in Masked /\ r.id \in RecordIds
      /\ records[r.id] = NoRecord /\ records'[r.id] # NoRecord /\ records'[r.id].status = "ACTIVE"
      /\ \A i \in RecordIds : i # r.id => records'[i] = records[i]
  <2>1. records[r.id] = NoRecord /\ records'[r.id] = [of |-> r, status |-> "ACTIVE"]
    BY RecordIsNew
  <2>2. records'[r.id].status = "ACTIVE" /\ records'[r.id] # NoRecord
    BY <2>1 DEF NoRecord
  <2>3. QED
    BY <2>1, <2>2, RecordIsNew
<1>3. session'[s].pc \notin Writing /\ Others(s) /\ KeyOf(s) = key
  BY <1>1 DEF GatewayInv, SessionsOK, Close, Others, Free, Writing, KeyOf
<1>4. Story(r.id) = {} /\ x \notin log /\ Story(r.id)' = {x}
  <2>1. Story(r.id) = {}
    BY <1>2, StoryParts DEF StoryInv, RecordTold
  <2>2. x \notin log
    BY <2>1 DEF Story
  <2>3. Story(r.id)' = Story(r.id) \cup {x}
    BY <1>1, RowAdded
  <2>4. QED
    BY <2>1, <2>2, <2>3
<1>5. x.target = r.id /\ x.after = "ACTIVE" /\ r.id \notin Ids /\ r.id \notin Tasks
  BY <1>2, TargetsApart
<1>6. RecordTold(r.id)'
  BY <1>2, <1>4 DEF RecordTold
<1> HIDE DEF x, key
<1>7. KeysPending' /\ Counted' /\ IsFiniteSet(log') /\ IsFiniteSet(outbox')
  BY <1>1, <1>3, <1>4, CommitCounts DEF Writing
<1>8. RowsHeld'
  <2>1. \A o \in Sessions \ {s} : session[o].pc = "retired" =>
            session[o].req.id \in RecordIds /\ session[o].req.id # r.id
    BY <1>2, Places DEF GatewayInv, RecordsOK, SessionsOK, ReqFits, Retirements
  <2>2. QED
    BY <1>1, <1>2, <1>3, <2>1, OthersHold DEF StoryInv
<1>9. Keyed'
  <2>1. Stored' \cup claimed' = Stored \cup claimed
    BY <1>1 DEF Stored, IsStored
  <2>2. Keyed
    BY StoryParts DEF StoryInv
  <2>3. QED
    BY <1>1, <1>2, <1>5, <2>1, <2>2, KeyAdded DEF key
<1>10. StoryTold'
  BY <1>1, <1>2, <1>5, <1>6, <1>7, <1>9, OthersTold, CommitTold
<1>11. MovesForward'
  BY <1>1, <1>5 DEF StoryInv, MovesForward, Rank
<1>12. StoryFinite'
  BY <1>1, <1>7 DEF StoryInv, StoryFinite
<1>13. QED
  BY <1>7, <1>8, <1>10, <1>11, <1>12 DEF StoryInv

\* A record that ends was active until now, and ends once.
LEMMA CommitRetireTells ==
    ASSUME GatewayInv, StoryInv, NEW s \in Sessions, CommitRetire(s), UNCHANGED messages
    PROVE  StoryInv'
<1>. PICK q : q = session[s].req
  OBVIOUS
<1> DEFINE x == [target |-> q.id, before |-> "ACTIVE", after |-> q.status]
           key == <<q.id, q.status>>
<1>1. /\ session[s].pc = "retired" /\ Close(s) /\ UNCHANGED <<version, claimed>>
      /\ records' = [records EXCEPT ![q.id].status = q.status]
      /\ log' = log \cup {x} /\ outbox' = outbox \cup {key}
  BY DEF CommitRetire, In, Emit, Append, Enqueue
<1>2. /\ q.id \in RecordIds /\ q.status \in {"REVOKED", "EXPIRED"}
      /\ records[q.id] # NoRecord /\ records[q.id].status = "ACTIVE"
  BY <1>1, Places DEF GatewayInv, SessionsOK, ReqFits, Retirements, RecordsOK, StoryInv, RowsHeld, WriteFits
<1>3. /\ records'[q.id].status = q.status /\ records'[q.id] # NoRecord
      /\ \A i \in RecordIds : i # q.id => records'[i] = records[i]
  BY <1>1, <1>2 DEF GatewayInv, RecordsOK, NoRecord
<1>4. session'[s].pc \notin Writing /\ Others(s) /\ KeyOf(s) = key
  BY <1>1 DEF GatewayInv, SessionsOK, Close, Others, Free, Writing, KeyOf
<1>5. Story(q.id) = {[target |-> q.id, before |-> "NONE", after |-> "ACTIVE"]}
  BY <1>2, StoryParts DEF StoryInv, RecordTold
<1>6. x \notin log
  BY <1>5 DEF Story
<1>7. RecordTold(q.id)'
  <2>1. Story(q.id)' = Story(q.id) \cup {x}
    BY <1>1, RowAdded
  <2>2. QED
    BY <1>2, <1>3, <1>5, <2>1 DEF RecordTold
<1>8. x.target = q.id /\ x.after = q.status /\ q.id \notin Ids /\ q.id \notin Tasks
  BY <1>2, TargetsApart
<1> HIDE DEF x, key
<1>9. KeysPending' /\ Counted' /\ IsFiniteSet(log') /\ IsFiniteSet(outbox')
  BY <1>1, <1>4, <1>6, CommitCounts DEF Writing
<1>10. RowsHeld'
  <2>1. \A o \in Sessions \ {s} : session[o].pc = "retired" =>
            session[o].req.id \in RecordIds /\ session[o].req.id # q.id
    BY <1>1, Places DEF GatewayInv, SessionsOK, ReqFits, Retirements, StoryInv, RowsHeld, SameRow
  <2>2. QED
    BY <1>1, <1>3, <1>4, <2>1, OthersHold DEF StoryInv
<1>11. Keyed'
  <2>1. Stored' \cup claimed' = Stored \cup claimed
    BY <1>1 DEF Stored, IsStored
  <2>2. Keyed
    BY StoryParts DEF StoryInv
  <2>3. QED
    BY <1>1, <1>2, <1>8, <2>1, <2>2, KeyAdded DEF key
<1>12. StoryTold'
  BY <1>1, <1>2, <1>3, <1>7, <1>8, <1>9, <1>11, OthersTold, CommitTold
<1>13. MovesForward'
  BY <1>1, <1>8 DEF StoryInv, MovesForward, Rank
<1>14. StoryFinite'
  BY <1>1, <1>9 DEF StoryInv, StoryFinite
<1>15. QED
  BY <1>9, <1>10, <1>12, <1>13, <1>14 DEF StoryInv

\* There are six statuses.
LEMMA StatusesFinite == IsFiniteSet(Statuses)
<1>1. Statuses = {} \cup {"SENT"} \cup {"DELIVERED"} \cup {"ACKNOWLEDGED"} \cup {"CONSUMED"}
                 \cup {"REJECTED"} \cup {"EXPIRED"}
  BY DEF Statuses
<1>2. QED
  BY <1>1, FS_EmptySet, FS_AddElement

\* A message that moves goes further than all that is told of it, from the
\* status in which it is.
LEMMA CommitMoveTells ==
    ASSUME GatewayInv, StoryInv, NEW s \in Sessions, CommitMove(s), UNCHANGED records
    PROVE  StoryInv'
<1>. PICK r : r = session[s].req
  OBVIOUS
<1>. PICK b : b = messages[r.id].status
  OBVIOUS
<1> DEFINE x == [target |-> r.id, before |-> b, after |-> r.status]
           key == <<r.id, r.status>>
<1>1. /\ session[s].pc = "moved" /\ Close(s) /\ UNCHANGED <<version, claimed>>
      /\ log' = log \cup {x} /\ outbox' = outbox \cup {key}
  BY DEF CommitMove, In, Append, Enqueue
<1>2. /\ r.id \in Ids /\ r.status \in Statuses /\ b \in Statuses
      /\ messages'[r.id].status = r.status /\ \A i \in Ids : i # r.id => messages'[i] = messages[i]
      /\ Stored' = Stored
  BY MoveChangesStatus
<1>3. r.status \in Successors[b]
  BY <1>1 DEF StoryInv, RowsHeld, WriteFits
<1>4. Rank(b) < Rank(r.status) /\ b # "NONE"
  BY <1>2, <1>3 DEF Successors, Statuses, Rank
<1>5. session'[s].pc \notin Writing /\ Others(s) /\ KeyOf(s) = key
  BY <1>1 DEF GatewayInv, SessionsOK, Close, Others, Free, Writing, KeyOf
<1>6. x.target = r.id /\ x.before = b /\ x.after = r.status /\ r.id \notin RecordIds /\ r.id \notin Tasks
  BY <1>2, TargetsApart
<1>7. Story(r.id)' = Story(r.id) \cup {x}
  BY <1>1, <1>6, RowAdded
<1> HIDE DEF x, key
<1>8. \A l \in log : l.target = r.id => l.after \in Statuses /\ Rank(l.after) <= Rank(b)
  BY <1>2 DEF StoryInv, MovesForward
<1>9. r.status \notin Afters(r.id) /\ x \notin log
  <2>1. ASSUME NEW l \in log, l.target = r.id PROVE l.after # r.status
    <3>1. Rank(l.after) <= Rank(b) /\ Rank(l.after) \in Nat /\ Rank(b) \in Nat /\ Rank(r.status) \in Nat
      BY <1>8, <2>1 DEF Rank
    <3>2. QED
      BY <1>4, <3>1
  <2>2. QED
    BY <1>6, <2>1 DEF Afters, Story
<1>10. KeysPending' /\ Counted' /\ IsFiniteSet(log') /\ IsFiniteSet(outbox')
  BY <1>1, <1>5, <1>9, CommitCounts DEF Writing
<1>11. RowsHeld'
  <2>1. \A o \in Sessions \ {s} : session[o].pc = "moved" =>
            session[o].req.id \in Ids /\ session[o].req.id # r.id
    BY <1>1, Places DEF GatewayInv, SessionsOK, ReqFits, Moves, StoryInv, RowsHeld, SameRow
  <2>2. QED
    BY <1>1, <1>2, <1>5, <2>1, OthersHold DEF StoryInv
<1>12. Keyed'
  <2>1. Stored' \cup claimed' = Stored \cup claimed
    BY <1>1, <1>2
  <2>2. Keyed
    BY StoryParts DEF StoryInv
  <2>3. QED
    BY <1>1, <1>2, <1>4, <1>6, <2>1, <2>2, KeyAdded DEF key
<1>13. MessageTold(r.id)'
  <2>1. MessageTold(r.id)
    BY <1>2, StoryParts DEF StoryInv
  <2>2. Befores(r.id)' = Befores(r.id) \cup {b} /\ Afters(r.id)' = Afters(r.id) \cup {r.status}
    BY <1>6, <1>7 DEF Befores, Afters
  <2>3. Befores(r.id)' \cup {r.status} = Afters(r.id)' \cup {"NONE"}
    BY <2>1, <2>2 DEF MessageTold
  <2>4. IsFiniteSet(Story(r.id)) /\ x \notin Story(r.id)
    BY <1>9, FS_Subset DEF StoryInv, StoryFinite, Story
  <2>5. IsFiniteSet(Afters(r.id))
    <3>1. Afters(r.id) \subseteq Statuses
      BY <1>8 DEF Afters, Story
    <3>2. IsFiniteSet(Statuses)
      BY StatusesFinite
    <3>3. QED
      BY <3>1, <3>2, FS_Subset
  <2>6. Cardinality(Afters(r.id)') = Cardinality(Story(r.id)')
    <3>1. Cardinality(Afters(r.id) \cup {r.status}) = Cardinality(Afters(r.id)) + 1
      BY <1>9, <2>5, FS_AddElement
    <3>2. Cardinality(Story(r.id) \cup {x}) = Cardinality(Story(r.id)) + 1
      BY <2>4, FS_AddElement
    <3>3. QED
      BY <1>7, <2>1, <2>2, <3>1, <3>2 DEF MessageTold
  <2>7. \A l \in Story(r.id)' : l.before # "NONE" => l.after \in Successors[l.before]
    BY <1>3, <1>6, <1>7, <2>1 DEF MessageTold
  <2>8. QED
    BY <1>2, <2>3, <2>6, <2>7 DEF MessageTold, Successors
<1>14. StoryTold'
  BY <1>1, <1>2, <1>6, <1>10, <1>12, <1>13, OthersTold, CommitTold
<1>15. MovesForward'
  <2>1. ASSUME NEW l \in log', l.target \in Ids
        PROVE  l.after \in Statuses /\ Rank(l.after) <= Rank(messages'[l.target].status)
    <3>1. CASE l.target # r.id
      BY <1>1, <1>2, <1>6, <2>1, <3>1 DEF StoryInv, MovesForward
    <3>2. CASE l = x
      BY <1>2, <1>6, <3>2 DEF Rank
    <3>3. CASE l.target = r.id /\ l # x
      <4>1. l.after \in Statuses /\ Rank(l.after) <= Rank(b)
        BY <1>1, <1>8, <3>3
      <4>2. Rank(l.after) \in Nat /\ Rank(b) \in Nat /\ Rank(r.status) \in Nat
        BY DEF Rank
      <4>3. QED
        BY <1>2, <1>4, <3>3, <4>1, <4>2
    <3>4. QED
      BY <3>1, <3>2, <3>3
  <2>2. QED
    BY <2>1 DEF MovesForward, Rank
<1>16. StoryFinite'
  BY <1>1, <1>10 DEF StoryInv, StoryFinite
<1>17. QED
  BY <1>10, <1>11, <1>14, <1>15, <1>16 DEF StoryInv

-----------------------------------------------------------------------------
(* The theorem *)

\* Nothing is told of anything at the start.
LEMMA StoryInvInit == GatewayInit => StoryInv
<1> SUFFICES ASSUME GatewayInit PROVE StoryInv
  OBVIOUS
<1> USE DEF GatewayInit, UowInit, EvidenceInit
<1>1. \A s \in Sessions : session[s].pc \notin Writing
  BY DEF Free, Writing
<1>2. RowsHeld /\ KeysPending
  BY <1>1 DEF RowsHeld, KeysPending, WriteFits, SameRow, Writing
<1>3. MovesForward /\ StoryFinite
  BY FS_EmptySet DEF MovesForward, StoryFinite
<1>4. \A i : Story(i) = {} /\ Befores(i) = {} /\ Afters(i) = {}
  BY DEF Story, Befores, Afters
<1>5. \A t \in Tasks : VersionTold(t)
  <2> SUFFICES ASSUME NEW t \in Tasks PROVE VersionTold(t)
    OBVIOUS
  <2>1. version[t] = 1 /\ 1..(version[t] - 1) = {} /\ {c \in claimed : c.task = t} = {}
    OBVIOUS
  <2>2. QED
    BY <1>4, <2>1, FS_EmptySet DEF VersionTold
<1>6. \A i \in RecordIds : RecordTold(i)
  BY <1>4 DEF RecordTold
<1>7. \A i \in Ids : MessageTold(i)
  BY <1>4 DEF MessageTold, NoMessage
<1>8. Keyed /\ Counted
  BY FS_EmptySet DEF Keyed, Counted, Noted, Stored, IsStored
<1>9. QED
  BY <1>2, <1>3, <1>5, <1>6, <1>7, <1>8, StoryParts DEF StoryInv

\* What changes no transaction and no row leaves the story.
LEMMA IdleTells ==
    ASSUME StoryInv, UNCHANGED <<session, rows, messages, records>>
    PROVE  StoryInv'
<1>1. MovesForward' /\ StoryFinite' /\ StoryTold'
  BY StoryUntouched
<1>2. UNCHANGED <<version, outbox>>
  BY DEF rows
<1>3. RowsHeld'
  <2>1. \A s \in Sessions : WriteFits(s)'
    BY <1>2 DEF StoryInv, RowsHeld, WriteFits, Successors
  <2>2. \A s, o \in Sessions : SameRow(s, o)' <=> SameRow(s, o)
    BY DEF SameRow
  <2>3. QED
    BY <2>1, <2>2 DEF StoryInv, RowsHeld
<1>4. KeysPending'
  <2>1. \A s \in Sessions : KeyOf(s)' = KeyOf(s)
    BY DEF KeyOf
  <2>2. QED
    BY <1>2, <2>1 DEF StoryInv, KeysPending
<1>5. QED
  BY <1>1, <1>3, <1>4 DEF StoryInv

\* Every step tells the story on.
LEMMA StoryInvStep == GatewayInv /\ StoryInv /\ [GatewayNext]_gatewayVars => StoryInv'
<1> SUFFICES ASSUME GatewayInv, StoryInv, [GatewayNext]_gatewayVars PROVE StoryInv'
  OBVIOUS
<1>0. SessionsOK
  BY DEF GatewayInv
<1>1. ASSUME NEW s \in Sessions, MessageStep(s), UNCHANGED records PROVE StoryInv'
  <2>1. CASE \/ \E e \in Envelopes : BeginSend(s, e)
             \/ \E i \in Ids, st \in Statuses \ {"SENT"} : BeginMove(s, i, st)
    BY <1>0, <1>1, <2>1, BeginTells
  <2>2. CASE CheckSend(s) \/ NotFound(s) \/ Replay(s)
    BY <1>0, <1>1, <2>2, ReadTells DEF CheckSend, NotFound, Replay
  <2>3. CASE InsertSend(s) \/ FetchAndUpdate(s)
    BY <1>0, <1>1, <2>3, InsertTells, MoveTells DEF InsertSend, FetchAndUpdate
  <2>4. CASE CommitSend(s) \/ CommitMove(s)
    BY <1>1, <2>4, CommitSendTells, CommitMoveTells
  <2>5. QED
    BY <1>1, <2>1, <2>2, <2>3, <2>4 DEF MessageStep
<1>2. ASSUME NEW s \in Sessions, EvidenceStep(s), UNCHANGED <<messages, clock>> PROVE StoryInv'
  <2>1. CASE \/ \E r \in Registrations : BeginRegistration(s, r)
             \/ \E i \in RecordIds, st \in {"REVOKED", "EXPIRED"} : BeginRetire(s, i, st)
    BY <1>0, <1>2, <2>1, BeginTells
  <2>2. CASE AnswerRegistered(s) \/ NoneRegistered(s)
    BY <1>0, <1>2, <2>2, ReadTells DEF AnswerRegistered, NoneRegistered
  <2>3. CASE InsertRecord(s) \/ Retire(s)
    BY <1>0, <1>2, <2>3, InsertTells, MoveTells DEF InsertRecord, Retire
  <2>4. CASE CommitRegistration(s) \/ CommitRetire(s)
    BY <1>2, <2>4, CommitRegistrationTells, CommitRetireTells
  <2>5. QED
    BY <1>2, <2>1, <2>2, <2>3, <2>4 DEF EvidenceStep
<1>3. ASSUME NEW s \in Sessions, CommandStep(s) \/ Rollback(s), UNCHANGED <<records, messages, clock>>
      PROVE  StoryInv'
  <2>1. CASE \E c \in Commands : BeginCommand(s, c)
    BY <1>0, <1>3, <2>1, BeginTells
  <2>2. CASE Claim(s) \/ Rollback(s)
    BY <1>0, <1>3, <2>2, ReadTells
  <2>3. QED
    BY <1>0, <1>3, <2>1, <2>2, UpdateTells, CommitCommandTells DEF CommandStep
<1>4. ASSUME NEW a, ChangeMember(a), UNCHANGED <<records, messages, clock>> PROVE StoryInv'
  BY <1>4, IdleTells DEF ChangeMember
<1>5. CASE Tick
  BY <1>5, IdleTells DEF Tick, uowVars
<1>6. CASE UNCHANGED gatewayVars
  BY <1>6, IdleTells DEF gatewayVars, uowVars
<1>7. QED
  BY <1>1, <1>2, <1>3, <1>4, <1>5, <1>6 DEF GatewayNext

\* The Audit log tells the story of every Task, message and record, and the
\* Outbox has one row for each of its rows, for any number of connections and
\* requests and with a rollback at any statement.
THEOREM StoriesAreTold == GatewaySpec => []StoryTold
<1>1. GatewayInit => StoryInv
  BY StoryInvInit
<1>2. GatewayInv /\ StoryInv /\ [GatewayNext]_gatewayVars => StoryInv'
  BY StoryInvStep
<1>3. StoryInv => StoryTold
  BY DEF StoryInv
<1>4. QED
  BY <1>1, <1>2, <1>3, GatewayKeepsInv, PTL DEF GatewaySpec
=============================================================================
