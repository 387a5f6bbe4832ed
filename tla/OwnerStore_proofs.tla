------------------------- MODULE OwnerStore_proofs --------------------------
(***************************************************************************)
(* What holds of the Owner-Directed store for every set of Tasks, Agents and *)
(* proposals and any number of handlers that share it without a lock.        *)
(*                                                                         *)
(* The argument is one of ownership.  Two handlers that work on the same     *)
(* record at once are in "raced"; of any other record at most one handler    *)
(* works on it, so what that handler checked stays true until it writes.     *)
(***************************************************************************)
EXTENDS OwnerStore, TLAPS

RewardStatuses == {"Pending", "Proposed", "Approved", "Cancelled"}
Rewards == [status : RewardStatuses, proposed : Nat, approved : Nat]
Serving == [item : Items, decision : Decisions]
Pcs == {"move", "pass", "file", "evaluate", "look", "propose", "approve", "row", "keep",
        "ask", "judge", "carry", "cancel", "record"}

\* The status a decision moves its Task to.
Goal(d) == IF d = "APPROVE" THEN "COMPLETED" ELSE IF d = "REJECT" THEN "REJECTED" ELSE "REWORK"

\* What a decision calls is about what its approval is about.
Serves(j) ==
    /\ j.for \in Serving /\ j.for.item.kind = j.kind /\ j.for.item.target = j.target
    /\ j.pc \in {"carry", "move", "approve", "row", "keep", "judge", "cancel", "record"}
    /\ j.pc = "move" => j.to = Goal(j.for.decision)
    /\ j.pc \in {"approve", "row", "keep"} => j.for.decision = "APPROVE"
    /\ j.pc = "cancel" => j.for.decision = "REJECT"
    /\ j.pc = "judge" => j.to = j.for.decision

Shaped(j) ==
    /\ j.kind \in {"TASK", "REWARD"} => j.target \in Tasks
    /\ j.kind = "MATTER" => j.target \in Matters
    /\ j.pc \in {"move", "pass", "file"} => j.kind = "TASK"
    /\ j.pc \in {"evaluate", "look", "propose", "approve", "row", "keep", "cancel"} => j.kind = "REWARD"
    /\ j.pc \in {"ask", "judge"} => j.kind = "MATTER"
    /\ j.pc \in {"move", "pass"} => j.to \in DOMAIN Allowed
    /\ j.pc = "judge" => j.to \in Decisions
    /\ j.for = Direct => j.pc \notin {"carry", "cancel", "record"}
    /\ j.for # Direct => Serves(j)

Jobs == {j \in [pc : Pcs, kind : {"TASK", "REWARD", "MATTER"}, target : Tasks \cup Matters,
                to : {None} \cup DOMAIN Allowed \cup Decisions, n : Nat, for : {Direct} \cup Serving] : Shaped(j)}

BooksOK ==
    /\ status \in [Tasks -> DOMAIN Allowed]
    /\ reward \in [Tasks -> Rewards]
    /\ booked \in [Tasks -> Nat \cup {NotBooked}]
    /\ queue \in [Items -> {None, "OPEN"} \cup Decisions]
    /\ verdict \in [Matters -> {None, "OPEN"} \cup Decisions]

StoreTypeOK == BooksOK /\ desk \in [Threads -> {Free} \cup Jobs]

\* Two handlers on one record have raced.
Serial == \A g, h \in Threads : g # h => Touches(desk[g]) \cap Touches(desk[h]) \subseteq raced

\* What has become of what job j decides on, when it is about to be recorded.
CarriedOut(j) ==
    /\ j.kind = "TASK" => /\ j.for.decision = "APPROVE" => status[j.target] = "COMPLETED"
                          /\ j.for.decision = "REJECT" => status[j.target] = "REJECTED"
    /\ j.kind = "REWARD" => /\ j.for.decision = "APPROVE" => reward[j.target].status = "Approved"
                            /\ j.for.decision = "REJECT" => reward[j.target].status = "Cancelled"
    /\ j.kind = "MATTER" => verdict[j.target] = j.for.decision

\* What a handler has checked on a record it has for itself still holds.
Checked(j) ==
    /\ j.pc \in {"move", "pass"} => j.to \in Allowed[status[j.target]]
    /\ j.pc = "propose" => reward[j.target].status = "Pending"
    /\ j.pc = "approve" => reward[j.target].status \in {"Pending", "Proposed"}
    /\ j.pc \in {"row", "keep"} => reward[j.target].status = "Approved"
    /\ j.pc = "judge" => verdict[j.target] = "OPEN"
    /\ j.pc = "record" => CarriedOut(j)
    /\ j.for # Direct => queue[j.for.item] = "OPEN"

\* ... and what holds of every handler, whoever works beside it.
Rests(j) ==
    /\ j.pc \in {"approve", "row", "keep"} => j.target \in evaluated
    /\ j.pc = "keep" /\ Alone("LEDGER", j.target) => j.n = reward[j.target].approved
    /\ j.pc = "record" /\ j.kind = "REWARD" /\ j.for.decision = "APPROVE" => booked[j.target] # NotBooked

Fits(j) == Rests(j) /\ (Alone(j.kind, j.target) => Checked(j))
DeskFits == \A h \in Threads : desk[h] # Free => Fits(desk[h])

\* What DecisionsHold says of an approval that holds d, and LedgerRests of a Task.
Agrees(i, d) ==
    /\ i.kind = "TASK" =>
          /\ d = "APPROVE" => status[i.target] = "COMPLETED"
          /\ d = "REJECT" => status[i.target] = "REJECTED"
    /\ i.kind = "REWARD" =>
          /\ d = "APPROVE" => reward[i.target].status = "Approved" \/ Rejected(i.target)
          /\ d = "REJECT" => reward[i.target].status = "Cancelled"
    /\ i.kind = "MATTER" => d \in {None, "OPEN", verdict[i.target]}

ItemFits(i) == Alone(i.kind, i.target) => Agrees(i, queue[i])

LedgerFits(t) ==
    /\ booked[t] # NotBooked => t \in evaluated
    /\ reward[t].status = "Approved" => booked[t] # NotBooked \/ Booking(t)
    /\ booked[t] # NotBooked /\ Alone("LEDGER", t) => reward[t].approved = booked[t] \/ Booking(t)
    /\ \A i \in Items : i.kind = "REWARD" /\ i.target = t /\ queue[i] = "APPROVE" => booked[t] # NotBooked

LEMMA PropertiesByPart ==
    /\ DecisionsHold <=> \A i \in Items : ItemFits(i)
    /\ LedgerRests <=> \A t \in Tasks : LedgerFits(t)
BY DEF DecisionsHold, ItemFits, Agrees, LedgerRests, LedgerFits

StoreInv == StoreTypeOK /\ Serial /\ DeskFits /\ DecisionsHold /\ LedgerRests

-----------------------------------------------------------------------------
(* Facts on jobs *)

\* An approval is about a Task, its reward, or a proposal or Action.
LEMMA ItemKinds ==
    /\ \A i \in Items : \/ i.kind \in {"TASK", "REWARD"} /\ i.target \in Tasks /\ i.by \in {"SEED", "AUDIT"}
                        \/ i.kind = "MATTER" /\ i.target \in Matters /\ i.by = "CREATE"
    /\ \A x \in Matters : [kind |-> "MATTER", target |-> x, by |-> "CREATE"] \in Items
    /\ \A i \in Items : DecisionsOn(i.kind) \subseteq Decisions
BY DEF Items, DecisionsOn

\* The status graph: its ends, and what the commands ask of it.
LEMMA StatusGraph ==
    /\ \A st \in DOMAIN Allowed : Allowed[st] \subseteq DOMAIN Allowed
    /\ Allowed["COMPLETED"] = {} /\ Allowed["REJECTED"] = {} /\ Allowed[None] = {}
    /\ {None, "DRAFT", "OWNER_REVIEW"} \subseteq DOMAIN Allowed
    /\ {"REWORK", "AUDIT"} \subseteq Allowed["REVIEW"] /\ "OWNER_REVIEW" \in Allowed["AUDIT"]
    /\ {"REWORK", "AUDIT", "COMPLETED", "REJECTED"} \subseteq DOMAIN Allowed
    /\ None \notin {"COMPLETED", "REJECTED", "DRAFT"}
BY DEF Allowed, None

LEMMA DirectServesNothing == Direct \notin Serving /\ Direct.decision = "NONE" /\ Free.pc = "free"
BY DEF Direct, Serving, Decisions, Free

\* A handler that is not free has a job.
LEMMA HasJob ==
    ASSUME StoreTypeOK, NEW h \in Threads, desk[h].pc # "free"
    PROVE  desk[h] \in Jobs /\ desk[h] # Free /\ Shaped(desk[h]) /\ desk[h].pc \in Pcs
BY DEF StoreTypeOK, Free, Jobs

LEMMA JobKinds == \A j \in Jobs :
    \/ j.kind \in {"TASK", "REWARD"} /\ j.target \in Tasks
    \/ j.kind = "MATTER" /\ j.target \in Matters
<1> TAKE j \in Jobs
<1>1. Shaped(j) /\ j.kind \in {"TASK", "REWARD", "MATTER"}
  BY DEF Jobs
<1>2. QED
  BY <1>1 DEF Shaped

LEMMA JobIsBusy == \A j \in Jobs : j # Free /\ j.pc # "free"
BY DEF Jobs, Pcs, Free

-----------------------------------------------------------------------------
(* What a step leaves of the records it does not work on *)

SameTask(t) == status'[t] = status[t] \/ status[t] = None
SameReward(t) == reward'[t] = reward[t]
SameMatter(x) == verdict'[x] = verdict[x] \/ verdict[x] = None
SameItem(i) ==
    \/ queue'[i] = queue[i]
    \/ queue'[i] = "OPEN" /\ (i.kind = "MATTER" \/ queue[i] = None)

\* No step takes back an evaluation, a row of the ledger or a race.
Grows ==
    /\ raced \subseteq raced' /\ evaluated \subseteq evaluated'
    /\ \A t \in Tasks : booked[t] # NotBooked => booked'[t] # NotBooked

\* Nothing happens to the record of kind k about t, nor to its approvals.
Left(k, t) ==
    /\ k = "TASK" => SameTask(t)
    /\ k = "REWARD" => SameReward(t)
    /\ k = "MATTER" => SameMatter(t)
    /\ \A i \in Items : i.kind = k /\ i.target = t => SameItem(i)

\* The amount of a reward whose row nobody touches.
LeftAmount(t) == reward'[t].approved = reward[t].approved

\* A job on a record that is left goes on to fit.
LEMMA FitsOn ==
    ASSUME StoreTypeOK, Grows, NEW j \in Jobs, Fits(j),
           Alone(j.kind, j.target)' => Left(j.kind, j.target),
           j.pc = "keep" /\ Alone("LEDGER", j.target)' => LeftAmount(j.target)
    PROVE  Fits(j)'
<1>1. Shaped(j) /\ j.kind \in {"TASK", "REWARD", "MATTER"} /\ j.pc \in Pcs
  BY DEF Jobs
<1>2. \A k, t : Alone(k, t)' => Alone(k, t)
  BY DEF Grows, Alone
<1>3. Rests(j)'
  BY <1>1, <1>2 DEF Fits, Rests, Grows, LeftAmount, Shaped
<1>4. ASSUME Alone(j.kind, j.target)' PROVE Checked(j)'
  <2>1. Checked(j) /\ Left(j.kind, j.target)
    BY <1>2, <1>4 DEF Fits
  <2>2. CASE j.kind = "TASK"
    <3>1. SameTask(j.target) /\ j.target \in Tasks /\ j.pc \notin {"propose", "approve", "row", "keep", "judge"}
      BY <1>1, <2>1, <2>2 DEF Left, Shaped
    <3>2. j.pc \in {"move", "pass"} => j.to \in Allowed[status'[j.target]]
      BY <2>1, <3>1, StatusGraph DEF Checked, SameTask
    <3>3. j.pc = "record" => CarriedOut(j)'
      BY <2>1, <2>2, <3>1, StatusGraph DEF Checked, CarriedOut, SameTask
    <3>4. j.for # Direct => queue'[j.for.item] = "OPEN"
      BY <1>1, <2>1 DEF Left, Checked, SameItem, Shaped, Serves, Serving
    <3>5. QED
      BY <3>1, <3>2, <3>3, <3>4 DEF Checked
  <2>3. CASE j.kind = "REWARD"
    <3>1. SameReward(j.target) /\ j.pc \notin {"move", "pass", "judge"}
      BY <1>1, <2>1, <2>3 DEF Left, Shaped
    <3>2. j.for # Direct => queue'[j.for.item] = "OPEN"
      BY <1>1, <2>1 DEF Left, Checked, SameItem, Shaped, Serves, Serving
    <3>3. QED
      BY <2>1, <2>3, <3>1, <3>2 DEF Checked, CarriedOut, SameReward
  <2>4. CASE j.kind = "MATTER"
    <3>1. SameMatter(j.target) /\ j.pc \notin {"move", "pass", "propose", "approve", "row", "keep"}
      BY <1>1, <2>1, <2>4 DEF Left, Shaped
    <3>2. j.for # Direct => queue'[j.for.item] = "OPEN"
      BY <1>1, <2>1 DEF Left, Checked, SameItem, Shaped, Serves, Serving
    <3>3. j.pc = "record" => j.for.decision # None
      BY <1>1, DirectServesNothing DEF Shaped, Serves, Serving, Decisions, None
    <3>4. QED
      BY <2>1, <2>4, <3>1, <3>2, <3>3 DEF Checked, CarriedOut, SameMatter, None
  <2>5. QED
    BY <1>1, <2>2, <2>3, <2>4
<1>5. QED
  BY <1>3, <1>4 DEF Fits

\* An approval of a record that is left goes on to agree.
LEMMA ItemOn ==
    ASSUME StoreTypeOK, Grows, NEW i \in Items, ItemFits(i), Left(i.kind, i.target),
           i.kind = "REWARD" /\ Rejected(i.target) => Rejected(i.target)'
    PROVE  ItemFits(i)'
<1> SUFFICES ASSUME Alone(i.kind, i.target)' PROVE Agrees(i, queue[i])'
  BY DEF ItemFits
<1>1. Agrees(i, queue[i]) /\ SameItem(i)
  BY DEF ItemFits, Grows, Alone, Left
<1>2. CASE i.kind = "TASK"
  BY <1>1, <1>2, StatusGraph DEF Agrees, Left, SameTask, SameItem
<1>3. CASE i.kind = "REWARD"
  BY <1>1, <1>3 DEF Agrees, Left, SameReward, SameItem
<1>4. CASE i.kind = "MATTER"
  BY <1>1, <1>4 DEF Agrees, Left, SameMatter, SameItem, None
<1>5. QED
  BY <1>2, <1>3, <1>4, ItemKinds

\* The ledger of a reward that is left goes on to fit.
LEMMA LedgerOn ==
    ASSUME Grows, NEW t \in Tasks, LedgerFits(t), Booking(t) => Booking(t)',
           SameReward(t), booked'[t] = booked[t],
           \A i \in Items : i.kind = "REWARD" /\ i.target = t => SameItem(i)
    PROVE  LedgerFits(t)'
BY DEF LedgerFits, Grows, SameReward, SameItem, Alone

-----------------------------------------------------------------------------
(* The two kinds of steps of a handler *)

\* A step that changes nothing but who works on what leaves every record.
LEMMA NothingWritten ==
    ASSUME UNCHANGED <<taskVars, rewardVars, queue, verdict>>, raced \subseteq raced'
    PROVE  /\ Grows /\ \A k, t : Left(k, t)
           /\ \A t : LeftAmount(t) /\ SameReward(t) /\ booked'[t] = booked[t]
BY DEF taskVars, rewardVars, Grows, Left, LeftAmount, SameTask, SameReward, SameMatter, SameItem

\* A job is taken up after its checks: what the others have is theirs, or raced.
LEMMA TakenUp ==
    ASSUME StoreInv, NEW h \in Threads, NEW j \in Jobs, TakeUp(h, j), Fits(j),
           desk[h].pc \in {"free", "carry"}
    PROVE  StoreInv'
<1> USE DEF StoreInv
<1>1. /\ desk' = [desk EXCEPT ![h] = j]
      /\ raced' = raced \cup (Touches(j) \cap UNION {Touches(desk[g]) : g \in Threads \ {h}})
      /\ UNCHANGED <<taskVars, active, rewardVars, queue, verdict>>
  BY DEF TakeUp
<1>2. raced \subseteq raced' /\ desk'[h] = j /\ \A g \in Threads \ {h} : desk'[g] = desk[g]
  BY <1>1 DEF StoreTypeOK
<1>3. /\ Grows /\ \A k, t : Left(k, t)
      /\ \A t : LeftAmount(t) /\ SameReward(t) /\ booked'[t] = booked[t]
  BY <1>1, <1>2, NothingWritten
<1>4. StoreTypeOK'
  BY <1>1 DEF StoreTypeOK, BooksOK, taskVars, rewardVars
<1>5. Serial'
  <2>1. \A g \in Threads \ {h} : Touches(j) \cap Touches(desk[g]) \subseteq raced'
    BY <1>1
  <2> SUFFICES ASSUME NEW f \in Threads, NEW g \in Threads, f # g
               PROVE  Touches(desk'[f]) \cap Touches(desk'[g]) \subseteq raced'
    BY DEF Serial, Touches
  <2>2. CASE f # h /\ g # h
    BY <1>2, <2>2 DEF Serial
  <2>3. CASE f = h
    BY <1>2, <2>1, <2>3
  <2>4. CASE g = h
    BY <1>2, <2>1, <2>4
  <2>5. QED
    BY <2>2, <2>3, <2>4
<1>6. DeskFits'
  <2>1. Fits(j)'
    BY <1>3, FitsOn
  <2>2. ASSUME NEW g \in Threads \ {h}, desk[g] # Free PROVE Fits(desk[g])'
    <3>1. PICK k : k = desk[g]
      OBVIOUS
    <3>2. k \in Jobs /\ Fits(k)
      BY <2>2, <3>1 DEF StoreTypeOK, DeskFits
    <3>3. Fits(k)'
      BY <1>3, <3>2, FitsOn
    <3>4. QED
      BY <1>2, <3>1, <3>3 DEF Fits, Rests, Checked, CarriedOut
  <2>3. Fits(desk[h])'
    BY <1>2, <2>1 DEF Fits, Rests, Checked, CarriedOut
  <2>4. QED
    BY <1>2, <2>2, <2>3 DEF DeskFits
<1>7. \A t : /\ Rejected(t) => Rejected(t)'
             /\ Booking(t) => Booking(t)'
  BY <1>1, <1>2 DEF Rejected, Booking, At
<1>8. ASSUME NEW i \in Items PROVE ItemFits(i)'
  BY <1>3, <1>7, PropertiesByPart, ItemOn
<1>9. ASSUME NEW t \in Tasks PROVE LedgerFits(t)'
  <2>1. \A i \in Items : SameItem(i)
    BY <1>1 DEF SameItem
  <2>2. QED
    BY <1>3, <1>7, <2>1, PropertiesByPart, LedgerOn
<1>10. DecisionsHold' /\ LedgerRests'
  BY <1>8, <1>9 DEF DecisionsHold, ItemFits, Agrees, LedgerRests, LedgerFits
<1>11. QED
  BY <1>4, <1>5, <1>6, <1>10

\* What handler h does not touch is left.
LeavesRest(h) ==
    /\ \A t \in Tasks : /\ <<"TASK", t>> \notin Touches(desk[h]) => Left("TASK", t)
                        /\ <<"REWARD", t>> \notin Touches(desk[h]) => Left("REWARD", t)
                        /\ <<"LEDGER", t>> \notin Touches(desk[h]) => LeftAmount(t) /\ booked'[t] = booked[t]
    /\ \A x \in Matters : <<"MATTER", x>> \notin Touches(desk[h]) => Left("MATTER", x)

\* A handler goes on with its job: it keeps the records it touches in order, and
\* what the others have checked is not disturbed.
LEMMA WentOn ==
    ASSUME StoreInv, NEW h \in Threads, NEW x \in {Free} \cup Jobs, desk' = [desk EXCEPT ![h] = x],
           BooksOK', Grows, UNCHANGED raced, Touches(x) \subseteq Touches(desk[h]), LeavesRest(h),
           x # Free => Fits(x)',
           desk[h].pc = "record" => queue'[desk[h].for.item] = desk[h].for.decision,
           \A i \in Items : <<i.kind, i.target>> \in Touches(desk[h]) => ItemFits(i)',
           \A t \in Tasks : <<"REWARD", t>> \in Touches(desk[h]) => LedgerFits(t)'
    PROVE  StoreInv'
<1> USE DEF StoreInv
<1>1. desk'[h] = x /\ \A g \in Threads \ {h} : desk'[g] = desk[g]
  BY DEF StoreTypeOK
<1>2. StoreTypeOK'
  BY DEF StoreTypeOK
<1>3. Serial'
  <2> SUFFICES ASSUME NEW f \in Threads, NEW g \in Threads, f # g
               PROVE  Touches(desk'[f]) \cap Touches(desk'[g]) \subseteq raced'
    BY DEF Serial, Touches
  <2>1. \A e \in Threads : Touches(desk'[e]) \subseteq Touches(desk[e])
    BY <1>1
  <2>2. Touches(desk[f]) \cap Touches(desk[g]) \subseteq raced
    BY DEF Serial
  <2>3. QED
    BY <2>1, <2>2
<1>4. DeskFits'
  <2>1. ASSUME NEW g \in Threads \ {h}, desk[g] # Free PROVE Fits(desk[g])'
    <3>1. PICK k : k = desk[g]
      OBVIOUS
    <3>2. k \in Jobs /\ Fits(k) /\ Touches(desk[h]) \cap Touches(k) \subseteq raced
      BY <2>1, <3>1 DEF StoreTypeOK, DeskFits, Serial
    <3>3. CASE k.pc \in {"file", "ask"}
      <4>1. k.for = Direct
        BY <3>2, <3>3 DEF Jobs, Shaped, Serves
      <4>2. Fits(k)'
        BY <3>3, <4>1 DEF Fits, Rests, Checked
      <4>3. QED
        BY <1>1, <3>1, <4>2 DEF Fits, Rests, Checked, CarriedOut
    <3>4. CASE k.pc \notin {"file", "ask"}
      <4>1. <<k.kind, k.target>> \in Touches(k) /\ (k.pc = "keep" => <<"LEDGER", k.target>> \in Touches(k))
        BY <3>2, <3>4, JobIsBusy DEF Touches
      <4>2. \/ k.kind \in {"TASK", "REWARD"} /\ k.target \in Tasks
            \/ k.kind = "MATTER" /\ k.target \in Matters
        BY <3>2, JobKinds
      <4>3. Alone(k.kind, k.target)' => Left(k.kind, k.target)
        BY <3>2, <4>1, <4>2 DEF Alone, LeavesRest
      <4>4. k.pc = "keep" => k.target \in Tasks
        BY <3>2 DEF Jobs, Shaped
      <4>5. k.pc = "keep" /\ Alone("LEDGER", k.target)' => LeftAmount(k.target)
        BY <3>2, <4>1, <4>4 DEF Alone, LeavesRest
      <4>6. Fits(k)'
        BY <3>2, <4>3, <4>5, FitsOn
      <4>7. QED
        BY <1>1, <3>1, <4>6 DEF Fits, Rests, Checked, CarriedOut
    <3>5. QED
      BY <3>3, <3>4
  <2>2. x # Free => Fits(desk[h])'
    BY <1>1 DEF Fits, Rests, Checked, CarriedOut
  <2>3. QED
    BY <1>1, <2>1, <2>2 DEF DeskFits
<1>5. ASSUME NEW i \in Items PROVE ItemFits(i)'
  <2>1. CASE <<i.kind, i.target>> \in Touches(desk[h])
    BY <2>1
  <2>2. CASE <<i.kind, i.target>> \notin Touches(desk[h])
    <3>1. Left(i.kind, i.target)
      BY <2>2, ItemKinds DEF LeavesRest
    <3>2. ASSUME i.kind = "REWARD", Rejected(i.target) PROVE Rejected(i.target)'
      <4>1. PICK e \in Items : /\ e.kind = "REWARD" /\ e.target = i.target
                               /\ \/ queue[e] = "REJECT"
                                  \/ \E g \in Threads : At(g, "record") /\ desk[g].for = [item |-> e, decision |-> "REJECT"]
        BY <3>2 DEF Rejected
      <4>2. CASE queue[e] = "REJECT"
        <5>1. queue'[e] = "REJECT"
          BY <3>1, <3>2, <4>1, <4>2 DEF Left, SameItem, None
        <5>2. QED
          BY <4>1, <5>1 DEF Rejected
      <4>3. ASSUME NEW g \in Threads, At(g, "record"), desk[g].for = [item |-> e, decision |-> "REJECT"]
            PROVE  Rejected(i.target)'
        <5>1. desk'[g] = desk[g] \/ queue'[e] = "REJECT"
          BY <1>1, <4>3 DEF At
        <5>2. QED
          BY <4>1, <4>3, <5>1 DEF Rejected, At
      <4>4. QED
        BY <4>1, <4>2, <4>3
    <3>3. QED
      BY <3>1, <3>2, PropertiesByPart, ItemOn
  <2>3. QED
    BY <2>1, <2>2
<1>6. ASSUME NEW t \in Tasks PROVE LedgerFits(t)'
  <2>1. CASE <<"REWARD", t>> \in Touches(desk[h])
    BY <2>1
  <2>2. CASE <<"REWARD", t>> \notin Touches(desk[h])
    <3>1. Left("REWARD", t)
      BY <2>2 DEF LeavesRest
    <3>2. <<"LEDGER", t>> \notin Touches(desk[h]) /\ ~(desk[h].pc \in {"row", "keep"} /\ desk[h].target = t)
      <4>1. desk[h].pc # "free" =>
               desk[h].kind # "LEDGER" /\ (desk[h].pc \in {"approve", "row", "keep"} => desk[h].kind = "REWARD")
        BY HasJob, JobKinds DEF Shaped
      <4>2. QED
        BY <2>2, <4>1 DEF Touches
    <3>3. booked'[t] = booked[t] /\ SameReward(t) /\ \A i \in Items : i.kind = "REWARD" /\ i.target = t => SameItem(i)
      BY <3>1, <3>2 DEF LeavesRest, Left
    <3>4. Booking(t) => Booking(t)'
      BY <1>1, <3>2 DEF Booking
    <3>5. QED
      BY <3>3, <3>4, PropertiesByPart, LedgerOn
  <2>3. QED
    BY <2>1, <2>2
<1>7. DecisionsHold' /\ LedgerRests'
  BY <1>5, <1>6 DEF DecisionsHold, ItemFits, Agrees, LedgerRests, LedgerFits
<1>8. QED
  BY <1>2, <1>3, <1>4, <1>7

-----------------------------------------------------------------------------
(* Taking up *)

\* The commands on Tasks and rewards, and decisions without the approval center.
LEMMA CommandTakenUp ==
    ASSUME StoreInv, NEW h \in Threads,
           \/ \E t \in Tasks :
                 \/ \E target \in DOMAIN Allowed : TransitionTask(h, t, target)
                 \/ \E b \in BOOLEAN : SubmitReview(h, t, b)
                 \/ RecordAudit(h, t)
                 \/ \E n \in 0..Budget : EvaluateTask(h, t, n)
                 \/ \E n \in 0..MaxReward : ApproveReward(h, t, n)
           \/ \E x \in Matters, d \in DecisionsOn("MATTER") : DecideDirectly(h, x, d)
    PROVE  StoreInv'
<1>1. ASSUME NEW j \in Jobs, TakeUp(h, j), Fits(j), IsFree(h) PROVE StoreInv'
  BY <1>1, TakenUp, DirectServesNothing DEF IsFree
<1>2. ASSUME NEW t \in Tasks, NEW pc \in {"move", "pass"}, NEW target \in DOMAIN Allowed, Moves(t, target), IsFree(h),
             TakeUp(h, Job(pc, "TASK", t, target, Direct))
      PROVE  StoreInv'
  <2>1. PICK j : j = Job(pc, "TASK", t, target, Direct)
    OBVIOUS
  <2>2. j \in Jobs
    BY <2>1 DEF Job, Jobs, Shaped, Pcs
  <2>3. Fits(j)
    BY <1>2, <2>1 DEF Job, Fits, Rests, Checked, Moves
  <2>4. QED
    BY <1>1, <1>2, <2>1, <2>2, <2>3
<1>3. ASSUME NEW t \in Tasks, NEW pc \in {"evaluate", "approve"}, NEW n \in Nat, IsFree(h),
             pc = "approve" => MayApprove(t), TakeUp(h, AmountJob(pc, t, n, Direct))
      PROVE  StoreInv'
  <2>1. PICK j : j = AmountJob(pc, t, n, Direct)
    OBVIOUS
  <2>2. j = [pc |-> pc, kind |-> "REWARD", target |-> t, to |-> None, n |-> n, for |-> Direct]
    BY <2>1 DEF AmountJob, Job
  <2>3. j \in Jobs
    BY <2>2 DEF Jobs, Shaped, Pcs
  <2>4. Fits(j)
    BY <1>3, <2>2 DEF Fits, Rests, Checked, MayApprove
  <2>5. QED
    BY <1>1, <1>3, <2>1, <2>3, <2>4
<1>4. ASSUME NEW x \in Matters, NEW d \in DecisionsOn("MATTER"), DecideDirectly(h, x, d)
      PROVE  StoreInv'
  <2>1. PICK j : j = Job("judge", "MATTER", x, d, Direct)
    OBVIOUS
  <2>2. j \in Jobs
    BY <2>1 DEF Job, Jobs, Shaped, Pcs, DecisionsOn
  <2>3. Fits(j)
    BY <1>4, <2>1 DEF DecideDirectly, Job, Fits, Rests, Checked
  <2>4. QED
    BY <1>1, <1>4, <2>1, <2>2, <2>3 DEF DecideDirectly
<1>5. 0..Budget \subseteq Nat /\ 0..MaxReward \subseteq Nat
  OBVIOUS
<1>6. ASSUME NEW t \in Tasks, NEW target \in DOMAIN Allowed, TransitionTask(h, t, target) PROVE StoreInv'
  BY <1>2, <1>6 DEF TransitionTask, MayMove
<1>7. ASSUME NEW t \in Tasks, NEW b \in BOOLEAN, SubmitReview(h, t, b) PROVE StoreInv'
  <2>1. PICK target : target = IF b THEN "REWORK" ELSE "AUDIT"
    OBVIOUS
  <2>2. target \in DOMAIN Allowed /\ Moves(t, target)
    BY <1>7, <2>1, StatusGraph DEF SubmitReview, Moves
  <2>3. QED
    BY <1>2, <1>7, <2>1, <2>2 DEF SubmitReview
<1>8. ASSUME NEW t \in Tasks, RecordAudit(h, t) PROVE StoreInv'
  BY <1>2, <1>8, StatusGraph DEF RecordAudit, Moves
<1>9. ASSUME NEW t \in Tasks, NEW n \in Nat, EvaluateTask(h, t, n) \/ ApproveReward(h, t, n) PROVE StoreInv'
  BY <1>3, <1>9 DEF EvaluateTask, ApproveReward
<1>10. QED
  BY <1>4, <1>5, <1>6, <1>7, <1>8, <1>9

\* A decision is taken up on an open approval.
LEMMA DecisionTakenUp ==
    ASSUME StoreInv, NEW h \in Threads, NEW i \in Items, NEW d \in DecisionsOn(i.kind), BeginDecision(h, i, d)
    PROVE  StoreInv'
<1>1. PICK j : j = Job("carry", i.kind, i.target, None, [item |-> i, decision |-> d])
  OBVIOUS
<1>2. d \in Decisions /\ [item |-> i, decision |-> d] \in Serving
  BY ItemKinds DEF Serving
<1>3. j = [pc |-> "carry", kind |-> i.kind, target |-> i.target, to |-> None, n |-> 0,
           for |-> [item |-> i, decision |-> d]]
  BY <1>1 DEF Job
<1>4. j.for # Direct
  BY <1>2, <1>3, DirectServesNothing
<1>5. Shaped(j)
  BY <1>2, <1>3, <1>4, ItemKinds DEF Shaped, Serves
<1>6. j \in Jobs
  BY <1>2, <1>3, <1>5, ItemKinds DEF Jobs, Pcs
<1>7. Fits(j)
  BY <1>3 DEF BeginDecision, Fits, Rests, Checked
<1>8. QED
  BY <1>1, <1>6, <1>7, TakenUp, DirectServesNothing DEF BeginDecision, IsFree

\* ... and calls what it is a decision on, with the decision in hand.
LEMMA DecisionCarriedOut ==
    ASSUME StoreInv, NEW h \in Threads, CarryOut(h)
    PROVE  StoreInv'
<1> USE DEF StoreInv
<1>1. PICK c : c = desk[h]
  OBVIOUS
<1>2. PICK t, kind, d, f : t = c.target /\ kind = c.kind /\ f = c.for /\ d = f.decision
  OBVIOUS
<1>3. c \in Jobs /\ Shaped(c) /\ c.pc = "carry" /\ c # Free
  BY <1>1, HasJob DEF CarryOut, At
<1>4. /\ f \in Serving /\ f # Direct /\ f.item.kind = kind /\ f.item.target = t /\ d \in Decisions
      /\ (kind \in {"TASK", "REWARD"} /\ t \in Tasks) \/ (kind = "MATTER" /\ t \in Matters)
      /\ Alone(kind, t) => queue[f.item] = "OPEN"
  <2>1. Serves(c) /\ f # Direct
    BY <1>2, <1>3 DEF Shaped
  <2>2. Fits(c)
    BY <1>1, <1>3 DEF DeskFits
  <2>3. f \in Serving /\ f.item.kind = kind /\ f.item.target = t
    BY <1>2, <2>1 DEF Serves
  <2>4. d \in Decisions
    BY <1>2, <2>3 DEF Serving
  <2>5. Alone(kind, t) => queue[f.item] = "OPEN"
    BY <1>2, <2>1, <2>2 DEF Fits, Checked
  <2>6. (kind \in {"TASK", "REWARD"} /\ t \in Tasks) \/ (kind = "MATTER" /\ t \in Matters)
    BY <1>2, <1>3, JobKinds
  <2>7. QED
    BY <2>1, <2>3, <2>4, <2>5, <2>6
<1>5. ASSUME NEW j, Fits(j), TakeUp(h, j), NEW pc \in Pcs, NEW to \in {None} \cup DOMAIN Allowed \cup Decisions, NEW n \in Nat,
             j = [pc |-> pc, kind |-> kind, target |-> t, to |-> to, n |-> n, for |-> f], Shaped(j)
      PROVE  StoreInv'
  <2>1. j \in Jobs
    BY <1>4, <1>5 DEF Jobs
  <2>2. QED
    BY <1>1, <1>3, <1>5, <2>1, TakenUp
<1>6. ASSUME kind = "TASK", NEW to \in DOMAIN Allowed, to = Goal(d), MayMove(t, to),
             TakeUp(h, Job("move", kind, t, to, f))
      PROVE  StoreInv'
  <2>1. PICK j : j = [pc |-> "move", kind |-> kind, target |-> t, to |-> to, n |-> 0, for |-> f]
    OBVIOUS
  <2>2. Shaped(j)
    BY <1>2, <1>4, <1>6, <2>1 DEF Shaped, Serves
  <2>3. Fits(j)
    BY <1>4, <1>6, <2>1 DEF Fits, Rests, Checked, MayMove, Moves
  <2>4. QED
    BY <1>5, <1>6, <2>1, <2>2, <2>3 DEF Job, Pcs
<1>7. ASSUME kind = "REWARD", d = "APPROVE", MayApprove(t), NEW n \in Nat, n = reward[t].proposed,
             TakeUp(h, AmountJob("approve", t, n, f))
      PROVE  StoreInv'
  <2>1. PICK j : j = [pc |-> "approve", kind |-> kind, target |-> t, to |-> None, n |-> n, for |-> f]
    OBVIOUS
  <2>2. Shaped(j)
    BY <1>2, <1>4, <1>7, <2>1 DEF Shaped, Serves, Serving
  <2>3. Fits(j)
    BY <1>4, <1>7, <2>1 DEF Fits, Rests, Checked, MayApprove
  <2>4. j = AmountJob("approve", t, n, f)
    BY <1>7, <2>1 DEF AmountJob, Job
  <2>5. QED
    BY <1>5, <1>7, <2>1, <2>2, <2>3, <2>4 DEF Pcs
<1>8. ASSUME kind = "REWARD", d = "REJECT", TakeUp(h, Job("cancel", kind, t, None, f)) PROVE StoreInv'
  <2>1. PICK j : j = [pc |-> "cancel", kind |-> kind, target |-> t, to |-> None, n |-> 0, for |-> f]
    OBVIOUS
  <2>2. Shaped(j)
    BY <1>2, <1>4, <1>8, <2>1 DEF Shaped, Serves, Serving
  <2>3. Fits(j)
    BY <1>4, <2>1 DEF Fits, Rests, Checked
  <2>4. QED
    BY <1>5, <1>8, <2>1, <2>2, <2>3 DEF Job, Pcs
<1>9. ASSUME kind = "MATTER", verdict[t] = "OPEN", TakeUp(h, Job("judge", kind, t, d, f)) PROVE StoreInv'
  <2>1. PICK j : j = [pc |-> "judge", kind |-> kind, target |-> t, to |-> d, n |-> 0, for |-> f]
    OBVIOUS
  <2>2. Shaped(j)
    BY <1>2, <1>4, <1>9, <2>1 DEF Shaped, Serves, Serving
  <2>3. Fits(j)
    BY <1>4, <1>9, <2>1 DEF Fits, Rests, Checked
  <2>4. QED
    BY <1>4, <1>5, <1>9, <2>1, <2>2, <2>3 DEF Job, Pcs
<1>10. ASSUME kind # "MATTER", d = "HOLD", TakeUp(h, Job("record", kind, t, None, f)) PROVE StoreInv'
  <2>1. PICK j : j = [pc |-> "record", kind |-> kind, target |-> t, to |-> None, n |-> 0, for |-> f]
    OBVIOUS
  <2>2. Shaped(j)
    BY <1>2, <1>4, <1>10, <2>1 DEF Shaped, Serves, Serving
  <2>3. Fits(j)
    BY <1>2, <1>4, <1>10, <2>1 DEF Fits, Rests, Checked, CarriedOut
  <2>4. QED
    BY <1>5, <1>10, <2>1, <2>2, <2>3 DEF Job, Pcs
<1>11. kind = "REWARD" => reward[t].proposed \in Nat
  BY <1>4 DEF StoreTypeOK, BooksOK, Rewards
<1>12. /\ Goal("APPROVE") = "COMPLETED" /\ Goal("REJECT") = "REJECTED" /\ Goal("REQUEST_CHANGES") = "REWORK"
       /\ {"COMPLETED", "REJECTED", "REWORK"} \subseteq DOMAIN Allowed
  BY StatusGraph DEF Goal
<1>13. QED
  BY <1>1, <1>2, <1>6, <1>7, <1>8, <1>9, <1>10, <1>11, <1>12 DEF CarryOut

-----------------------------------------------------------------------------
(* Going on: where a job goes *)

Renamed(j, pc) == [pc |-> pc, kind |-> j.kind, target |-> j.target, to |-> j.to, n |-> j.n, for |-> j.for]

\* What a job that is done leaves on the desk.
Over(j) == IF j.for = Direct THEN Free ELSE Renamed(j, "record")

LEMMA JobGoes ==
    ASSUME StoreTypeOK, NEW h \in Threads, NEW j \in Jobs, j = desk[h]
    PROVE  /\ \A pc \in Pcs : Goto(h, pc) => desk' = [desk EXCEPT ![h] = Renamed(j, pc)] /\ UNCHANGED raced
           /\ Done(h) => desk' = [desk EXCEPT ![h] = Over(j)] /\ UNCHANGED raced
<1>1. \A pc \in Pcs : [j EXCEPT !.pc = pc] = Renamed(j, pc)
  BY DEF Jobs, Renamed
<1>2. ASSUME NEW pc \in Pcs, Goto(h, pc) PROVE desk' = [desk EXCEPT ![h] = Renamed(j, pc)] /\ UNCHANGED raced
  BY <1>1, <1>2 DEF Goto
<1>3. ASSUME Done(h) PROVE desk' = [desk EXCEPT ![h] = Over(j)] /\ UNCHANGED raced
  <2>1. "record" \in Pcs
    BY DEF Pcs
  <2>2. [j EXCEPT !.pc = "record"] = Renamed(j, "record")
    BY <1>1, <2>1
  <2>3. QED
    BY <1>3, <2>2 DEF Done, Over
<1>4. QED
  BY <1>2, <1>3

\* A job that is done leaves a thread free, or a decision to be recorded.
LEMMA JobDone ==
    ASSUME NEW j \in Jobs, j.pc \notin {"file", "ask"} \/ j.for = Direct
    PROVE  /\ Over(j) \in {Free} \cup Jobs /\ Touches(Over(j)) \subseteq Touches(j)
           /\ Over(j) # Free => /\ j.for # Direct /\ Serves(j) /\ Over(j) = Renamed(j, "record")
<1>1. Shaped(j) /\ j \in [pc : Pcs, kind : {"TASK", "REWARD", "MATTER"}, target : Tasks \cup Matters,
                          to : {None} \cup DOMAIN Allowed \cup Decisions, n : Nat, for : {Direct} \cup Serving]
  BY DEF Jobs
<1>2. CASE j.for = Direct
  BY <1>2, DirectServesNothing DEF Over, Touches
<1>3. CASE j.for # Direct
  <2>1. Serves(j)
    BY <1>1, <1>3 DEF Shaped
  <2>2. PICK k : k = Renamed(j, "record")
    OBVIOUS
  <2>3. Shaped(k)
    BY <1>1, <1>3, <2>1, <2>2 DEF Renamed, Shaped, Serves
  <2>4. k \in Jobs
    BY <1>1, <2>2, <2>3 DEF Jobs, Renamed, Pcs
  <2>5. Touches(k) = {<<j.kind, j.target>>}
    BY <2>2 DEF Renamed, Touches
  <2>6. j.pc # "free"
    BY <1>1 DEF Pcs
  <2>7. Touches(k) \subseteq Touches(j)
    BY <1>3, <2>5, <2>6 DEF Touches
  <2>8. QED
    BY <1>3, <2>1, <2>2, <2>4, <2>7 DEF Over
<1>4. QED
  BY <1>2, <1>3

\* A step that is done with its job.
LEMMA DoneWith ==
    ASSUME StoreInv, NEW h \in Threads, NEW j \in Jobs, j = desk[h], Done(h), j.pc # "record",
           j.pc \notin {"file", "ask"} \/ j.for = Direct,
           BooksOK', Grows, LeavesRest(h),
           j.for # Direct /\ Alone(j.kind, j.target) => CarriedOut(j)' /\ UNCHANGED queue,
           j.for # Direct /\ j.kind = "REWARD" /\ j.for.decision = "APPROVE" => booked'[j.target] # NotBooked,
           \A i \in Items : <<i.kind, i.target>> \in Touches(desk[h]) => ItemFits(i)',
           \A t \in Tasks : <<"REWARD", t>> \in Touches(desk[h]) => LedgerFits(t)'
    PROVE  StoreInv'
<1>1. desk' = [desk EXCEPT ![h] = Over(j)] /\ UNCHANGED raced
  BY JobGoes DEF StoreInv
<1>2. PICK x : x = Over(j)
  OBVIOUS
<1>3. x \in {Free} \cup Jobs /\ Touches(x) \subseteq Touches(desk[h])
  BY <1>2, JobDone
<1>4. x # Free => j.for # Direct /\ x = Renamed(j, "record")
  BY <1>2, JobDone
<1>5. Fits(j)
  BY JobIsBusy DEF StoreInv, DeskFits
<1>6. ASSUME x # Free PROVE Fits(x)'
  <2>1. j.for # Direct /\ x = Renamed(j, "record")
    BY <1>4, <1>6
  <2>2. x.pc = "record" /\ x.kind = j.kind /\ x.target = j.target /\ x.for = j.for
    BY <2>1 DEF Renamed
  <2>3. Rests(x)'
    BY <2>1, <2>2 DEF Rests
  <2>4. ASSUME Alone(x.kind, x.target)' PROVE Checked(x)'
    <3>1. Alone(j.kind, j.target)
      BY <1>1, <2>2, <2>4 DEF Alone
    <3>2. CarriedOut(j)' /\ UNCHANGED queue /\ queue[j.for.item] = "OPEN"
      BY <1>5, <2>1, <3>1 DEF Fits, Checked
    <3>3. CarriedOut(x)'
      BY <2>2, <3>2 DEF CarriedOut
    <3>4. QED
      BY <2>2, <3>2, <3>3 DEF Checked
  <2>5. QED
    BY <2>3, <2>4 DEF Fits
<1>7. QED
  BY <1>1, <1>2, <1>3, <1>6, WentOn

\* A rejection that is recorded, or about to be, is not lost meanwhile.
LEMMA RejectedKept ==
    ASSUME StoreTypeOK, NEW h \in Threads, NEW x, desk' = [desk EXCEPT ![h] = x], desk[h].pc # "record", NEW t,
           \A i \in Items : i.kind = "REWARD" /\ i.target = t => SameItem(i), Rejected(t)
    PROVE  Rejected(t)'
<1>1. \A g \in Threads \ {h} : desk'[g] = desk[g]
  BY DEF StoreTypeOK
<1>2. PICK i \in Items : /\ i.kind = "REWARD" /\ i.target = t
                         /\ \/ queue[i] = "REJECT"
                            \/ \E g \in Threads : At(g, "record") /\ desk[g].for = [item |-> i, decision |-> "REJECT"]
  BY DEF Rejected
<1>3. queue[i] = "REJECT" => queue'[i] = "REJECT"
  BY <1>2 DEF SameItem, None
<1>4. \A g \in Threads : At(g, "record") => desk'[g] = desk[g]
  BY <1>1 DEF At
<1>5. QED
  BY <1>2, <1>3, <1>4 DEF Rejected, At

\* A row on its way stays on its way.
LEMMA BookingKept ==
    ASSUME StoreTypeOK, NEW h \in Threads, NEW x, desk' = [desk EXCEPT ![h] = x], NEW t, Booking(t),
           desk[h].pc \in {"row", "keep"} => x.pc \in {"row", "keep"} /\ x.target = desk[h].target
    PROVE  Booking(t)'
BY DEF StoreTypeOK, Booking

-----------------------------------------------------------------------------
(* The writes on a Task *)

LEMMA MoveKeeps == ASSUME StoreInv, NEW h \in Threads, Move(h) PROVE StoreInv'
<1> USE DEF StoreInv
<1>1. PICK j, t : j = desk[h] /\ t = j.target
  OBVIOUS
<1>2. /\ j \in Jobs /\ Shaped(j) /\ Fits(j) /\ j.pc \in {"move", "pass"}
      /\ j.kind = "TASK" /\ t \in Tasks /\ j.to \in DOMAIN Allowed
  <2>1. j.pc \in {"move", "pass"}
    BY <1>1 DEF Move, At
  <2>2. j \in Jobs /\ Shaped(j) /\ desk[h] # Free
    BY <1>1, <2>1, HasJob
  <2>3. QED
    BY <1>1, <2>1, <2>2 DEF Shaped, DeskFits
<1>3. /\ status' = [status EXCEPT ![t] = j.to]
      /\ UNCHANGED <<executive, active, rewardVars, queue, verdict>>
  BY <1>1 DEF Move
<1>4. UNCHANGED <<evaluated, reward, booked>>
  BY <1>3 DEF rewardVars
<1>5. BooksOK' /\ status'[t] = j.to /\ \A u \in Tasks \ {t} : status'[u] = status[u]
  BY <1>2, <1>3, <1>4 DEF StoreTypeOK, BooksOK
<1>6. Touches(desk[h]) = {<<"TASK", t>>}
  BY <1>1, <1>2 DEF Touches
<1>7. Alone("TASK", t) => j.to \in Allowed[status[t]]
  BY <1>1, <1>2 DEF Fits, Checked
<1>8. Grows /\ UNCHANGED raced
  BY <1>3, <1>4 DEF Move, Goto, Done, Grows
<1>9. LeavesRest(h)
  BY <1>3, <1>4, <1>5, <1>6
     DEF LeavesRest, Left, LeftAmount, SameTask, SameReward, SameMatter, SameItem
<1>10. ASSUME NEW i \in Items, <<i.kind, i.target>> \in Touches(desk[h]) PROVE ItemFits(i)'
  <2>1. i.kind = "TASK" /\ i.target = t
    BY <1>6, <1>10
  <2>2. Alone("TASK", t) => queue[i] \notin {"APPROVE", "REJECT"}
    BY <1>7, <2>1, PropertiesByPart, StatusGraph DEF ItemFits, Agrees
  <2>3. QED
    BY <1>3, <1>8, <2>1, <2>2 DEF ItemFits, Agrees, Alone
<1>11. \A u \in Tasks : <<"REWARD", u>> \notin Touches(desk[h])
  BY <1>6
<1>12. CASE j.pc = "move"
  <2>1. Done(h)
    BY <1>1, <1>12 DEF Move, At
  <2>2. j.for # Direct => CarriedOut(j)'
    BY <1>1, <1>2, <1>5, <1>12 DEF CarriedOut, Shaped, Serves, Goal
  <2>3. QED
    BY <1>1, <1>2, <1>3, <1>5, <1>8, <1>9, <1>10, <1>11, <1>12, <2>1, <2>2, DoneWith
<1>13. CASE j.pc = "pass"
  <2>1. Goto(h, "file") /\ j.for = Direct
    BY <1>1, <1>2, <1>13 DEF Move, At, Shaped, Serves
  <2>2. PICK x : x = Renamed(j, "file")
    OBVIOUS
  <2>3. x \in Jobs
    BY <1>1, <1>2, <2>1, <2>2 DEF Jobs, Pcs, Renamed, Shaped
  <2>4. desk' = [desk EXCEPT ![h] = x]
    BY <1>1, <1>2, <2>1, <2>2, JobGoes DEF Pcs
  <2>5. Touches(x) = {} /\ Fits(x)'
    BY <2>1, <2>2 DEF Renamed, Touches, Fits, Rests, Checked
  <2>6. QED
    BY <1>1, <1>5, <1>8, <1>9, <1>10, <1>11, <1>13, <2>3, <2>4, <2>5, WentOn
<1>14. QED
  BY <1>2, <1>12, <1>13

LEMMA FileKeeps == ASSUME StoreInv, NEW h \in Threads, File(h) PROVE StoreInv'
<1> USE DEF StoreInv
<1>1. PICK j : j = desk[h]
  OBVIOUS
<1>2. j \in Jobs /\ j.pc = "file" /\ j.for = Direct
  <2>1. j.pc = "file" /\ j \in Jobs /\ Shaped(j)
    BY <1>1, HasJob DEF File, At
  <2>2. QED
    BY <2>1 DEF Shaped, Serves
<1>3. /\ Done(h) /\ UNCHANGED <<taskVars, active, rewardVars, verdict>>
      /\ queue' = [i \in Items |->
            IF i.by = "AUDIT" /\ i.target = j.target /\ queue[i] = None THEN "OPEN" ELSE queue[i]]
  BY <1>1 DEF File
<1>4. UNCHANGED <<status, evaluated, reward, booked>> /\ UNCHANGED raced
  BY <1>3 DEF taskVars, rewardVars, Done
<1>5. \A i \in Items : SameItem(i)
  BY <1>3 DEF SameItem
<1>6. BooksOK'
  BY <1>3, <1>4 DEF StoreTypeOK, BooksOK
<1>7. Grows /\ LeavesRest(h)
  BY <1>3, <1>4, <1>5 DEF Grows, LeavesRest, Left, LeftAmount, SameTask, SameReward, SameMatter
<1>8. Touches(desk[h]) = {}
  BY <1>1, <1>2 DEF Touches
<1>9. QED
  BY <1>1, <1>2, <1>3, <1>6, <1>7, <1>8, DoneWith

-----------------------------------------------------------------------------
(* The writes on a reward *)

LEMMA RewardJob ==
    ASSUME StoreInv, NEW h \in Threads, NEW j, j = desk[h],
           j.pc \in {"evaluate", "look", "propose", "approve", "row", "keep", "cancel"}
    PROVE  /\ j \in Jobs /\ Shaped(j) /\ Fits(j) /\ j.kind = "REWARD" /\ j.target \in Tasks /\ j.n \in Nat
           /\ j.pc \in {"evaluate", "look", "propose"} => j.for = Direct
           /\ reward[j.target] \in Rewards
           /\ Touches(desk[h]) = {<<"REWARD", j.target>>} \cup
                 (IF j.pc \in {"approve", "row", "keep"} THEN {<<"LEDGER", j.target>>} ELSE {})
<1>1. j \in Jobs /\ Shaped(j) /\ desk[h] # Free
  BY HasJob DEF StoreInv
<1>2. j.kind = "REWARD" /\ j.target \in Tasks /\ j.n \in Nat
  BY <1>1 DEF Shaped, Jobs
<1>3. j.pc \in {"evaluate", "look", "propose"} => j.for = Direct
  BY <1>1 DEF Shaped, Serves
<1>4. Fits(j) /\ reward[j.target] \in Rewards
  BY <1>1, <1>2 DEF StoreInv, DeskFits, StoreTypeOK, BooksOK
<1>5. QED
  BY <1>1, <1>2, <1>3, <1>4 DEF Touches

\* A step on a reward that writes to the reward of t alone leaves the rest.
LEMMA RewardLeaves ==
    ASSUME NEW h \in Threads, NEW t \in Tasks,
           UNCHANGED <<taskVars, active, queue, verdict>>, <<"REWARD", t>> \in Touches(desk[h]),
           \A u \in Tasks \ {t} : reward'[u] = reward[u] /\ booked'[u] = booked[u],
           <<"LEDGER", t>> \notin Touches(desk[h]) => LeftAmount(t) /\ booked'[t] = booked[t]
    PROVE  LeavesRest(h)
BY DEF LeavesRest, Left, LeftAmount, SameTask, SameReward, SameMatter, SameItem, taskVars

\* A step that leaves the reward of t keeps its approvals and its ledger.
LEMMA RewardUntouched ==
    ASSUME StoreInv, Grows, NEW h \in Threads, NEW x, desk' = [desk EXCEPT ![h] = x], desk[h].pc # "record", NEW t \in Tasks,
           reward'[t] = reward[t], UNCHANGED queue,
           desk[h].pc \in {"row", "keep"} => x.pc \in {"row", "keep"} /\ x.target = desk[h].target
    PROVE  /\ \A i \in Items : i.kind = "REWARD" /\ i.target = t => ItemFits(i)'
           /\ booked'[t] = booked[t] => LedgerFits(t)'
<1> USE DEF StoreInv
<1>1. \A i \in Items : SameItem(i)
  BY DEF SameItem
<1>2. (Rejected(t) => Rejected(t)') /\ (Booking(t) => Booking(t)')
  BY <1>1, RejectedKept, BookingKept
<1>3. SameReward(t) /\ Left("REWARD", t)
  BY <1>1 DEF SameReward, Left
<1>4. \A i \in Items : i.kind = "REWARD" /\ i.target = t => ItemFits(i)'
  BY <1>2, <1>3, PropertiesByPart, ItemOn
<1>5. booked'[t] = booked[t] => LedgerFits(t)'
  BY <1>1, <1>2, <1>3, PropertiesByPart, LedgerOn
<1>6. QED
  BY <1>4, <1>5

LEMMA EvaluateKeeps == ASSUME StoreInv, NEW h \in Threads, Evaluate(h) \/ Look(h) PROVE StoreInv'
<1> USE DEF StoreInv
<1>1. PICK j, t : j = desk[h] /\ t = j.target
  OBVIOUS
<1>2. /\ j \in Jobs /\ Shaped(j) /\ Fits(j) /\ j.kind = "REWARD" /\ t \in Tasks /\ j.n \in Nat
      /\ j.for = Direct /\ j.pc \in {"evaluate", "look"} /\ Touches(desk[h]) = {<<"REWARD", t>>}
  BY <1>1, RewardJob DEF Evaluate, Look, At
<1>3. UNCHANGED <<status, reward, booked, queue, verdict, raced>> /\ evaluated \subseteq evaluated'
  BY DEF Evaluate, Look, Goto, Done, taskVars, rewardVars
<1>4. UNCHANGED <<taskVars, active>>
  BY DEF Evaluate, Look
<1>5. BooksOK' /\ Grows
  BY <1>3 DEF StoreTypeOK, BooksOK, Grows
<1>6. LeavesRest(h)
  BY <1>2, <1>3, <1>4, RewardLeaves DEF LeftAmount
<1>7. ASSUME NEW x, desk' = [desk EXCEPT ![h] = x]
      PROVE  /\ \A i \in Items : <<i.kind, i.target>> \in Touches(desk[h]) => ItemFits(i)'
             /\ \A u \in Tasks : <<"REWARD", u>> \in Touches(desk[h]) => LedgerFits(u)'
  <2>1. desk[h].pc \notin {"record", "row", "keep"}
    BY <1>1, <1>2
  <2>2. \A i \in Items : i.kind = "REWARD" /\ i.target = t => ItemFits(i)'
    BY <1>2, <1>3, <1>5, <1>7, <2>1, RewardUntouched
  <2>3. LedgerFits(t)'
    BY <1>2, <1>3, <1>5, <1>7, <2>1, RewardUntouched
  <2>4. QED
    BY <1>2, <2>2, <2>3
<1>8. ASSUME NEW pc \in {"look", "propose"}, Goto(h, pc), pc = "propose" => reward[t].status = "Pending"
      PROVE  StoreInv'
  <2>1. PICK x : x = Renamed(j, pc)
    OBVIOUS
  <2>2. x \in Jobs
    BY <1>2, <2>1, <1>1 DEF Jobs, Pcs, Renamed, Shaped
  <2>3. desk' = [desk EXCEPT ![h] = x]
    BY <1>1, <1>2, <1>8, <2>1, JobGoes DEF Pcs
  <2>4. Touches(x) \subseteq Touches(desk[h]) /\ Fits(x)'
    BY <1>1, <1>2, <1>3, <1>8, <2>1 DEF Renamed, Touches, Fits, Rests, Checked
  <2>5. QED
    BY <1>1, <1>2, <1>3, <1>5, <1>6, <1>7, <2>2, <2>3, <2>4, WentOn
<1>9. ASSUME Done(h) PROVE StoreInv'
  <2>1. desk' = [desk EXCEPT ![h] = Over(j)]
    BY <1>1, <1>2, <1>9, JobGoes
  <2>2. QED
    BY <1>1, <1>2, <1>5, <1>6, <1>7, <1>9, <2>1, DoneWith
<1>10. QED
  BY <1>1, <1>8, <1>9 DEF Evaluate, Look

LEMMA ProposeKeeps == ASSUME StoreInv, NEW h \in Threads, Propose(h) PROVE StoreInv'
<1> USE DEF StoreInv
<1>1. PICK j, t : j = desk[h] /\ t = j.target
  OBVIOUS
<1>2. /\ j \in Jobs /\ Shaped(j) /\ Fits(j) /\ j.kind = "REWARD" /\ t \in Tasks /\ j.n \in Nat
      /\ j.for = Direct /\ j.pc = "propose" /\ Touches(desk[h]) = {<<"REWARD", t>>} /\ reward[t] \in Rewards
  BY <1>1, RewardJob DEF Propose, At
<1>3. /\ reward' = [reward EXCEPT ![t].status = "Proposed", ![t].proposed = j.n] /\ Done(h)
      /\ UNCHANGED <<taskVars, active, evaluated, booked, queue, verdict, raced>>
  BY <1>1 DEF Propose, Done
<1>4. PICK r : r = [reward[t] EXCEPT !.status = "Proposed", !.proposed = j.n]
  OBVIOUS
<1>5. r \in Rewards /\ r.status = "Proposed" /\ r.approved = reward[t].approved
  BY <1>2, <1>4 DEF Rewards, RewardStatuses
<1>6. reward' = [reward EXCEPT ![t] = r]
  BY <1>2, <1>3, <1>4 DEF StoreTypeOK, BooksOK
<1>7. reward' \in [Tasks -> Rewards] /\ reward'[t] = r /\ \A u \in Tasks \ {t} : reward'[u] = reward[u]
  BY <1>2, <1>5, <1>6 DEF StoreTypeOK, BooksOK
<1>8. BooksOK' /\ Grows
  BY <1>3, <1>7 DEF StoreTypeOK, BooksOK, Grows, taskVars
<1>9. LeavesRest(h)
  BY <1>2, <1>3, <1>5, <1>7, RewardLeaves DEF LeftAmount
<1>10. desk' = [desk EXCEPT ![h] = Over(j)]
  BY <1>1, <1>2, <1>3, JobGoes
<1>11. ASSUME NEW i \in Items, i.kind = "REWARD", i.target = t, Alone("REWARD", t)
       PROVE  queue[i] \notin {"APPROVE", "REJECT"}
  <2>1. reward[t].status = "Pending" /\ \A e \in Items : e.kind = "REWARD" /\ e.target = t => Agrees(e, queue[e])
    BY <1>1, <1>2, <1>11, PropertiesByPart DEF Fits, Checked, ItemFits
  <2>2. \A e \in Items : e.kind = "REWARD" /\ e.target = t => queue[e] # "REJECT"
    BY <2>1 DEF Agrees
  <2>3. ASSUME NEW g \in Threads, At(g, "record"), desk[g].for.item.kind = "REWARD", desk[g].for.item.target = t
        PROVE  FALSE
    <3>1. Serves(desk[g]) /\ desk[g].pc = "record" /\ g # h
      BY <1>1, <1>2, <2>3, HasJob DEF At, Shaped
    <3>2. <<"REWARD", t>> \in Touches(desk[g])
      BY <2>3, <3>1 DEF Serves, Touches
    <3>3. QED
      BY <1>2, <1>11, <3>1, <3>2 DEF Serial, Alone
  <2>4. ~Rejected(t)
    <3> SUFFICES ASSUME NEW e \in Items, e.kind = "REWARD", e.target = t, NEW g \in Threads, At(g, "record"),
                        desk[g].for = [item |-> e, decision |-> "REJECT"]
                 PROVE  FALSE
      BY <2>2 DEF Rejected
    <3>1. desk[g].for.item = e
      OBVIOUS
    <3>2. QED
      BY <2>3, <3>1
  <2>5. QED
    BY <1>11, <2>1, <2>2, <2>4 DEF Agrees
<1>12. ASSUME NEW i \in Items, <<i.kind, i.target>> \in Touches(desk[h]) PROVE ItemFits(i)'
  <2>1. i.kind = "REWARD" /\ i.target = t
    BY <1>2, <1>12
  <2>2. QED
    BY <1>3, <1>11, <2>1 DEF ItemFits, Agrees, Alone
<1>13. LedgerFits(t)'
  <2>1. Booking(t) => Booking(t)'
    BY <1>1, <1>2, <1>10, BookingKept
  <2>2. LedgerFits(t)
    BY <1>2, PropertiesByPart
  <2>3. QED
    BY <1>3, <1>5, <1>7, <2>1, <2>2 DEF LedgerFits, Alone
<1>14. QED
  BY <1>1, <1>2, <1>3, <1>8, <1>9, <1>12, <1>13, DoneWith

LEMMA ApproveKeeps == ASSUME StoreInv, NEW h \in Threads, Approve(h) PROVE StoreInv'
<1> USE DEF StoreInv
<1>1. PICK j, t : j = desk[h] /\ t = j.target
  OBVIOUS
<1>2. /\ j \in Jobs /\ Shaped(j) /\ Fits(j) /\ j.kind = "REWARD" /\ t \in Tasks /\ j.n \in Nat
      /\ j.pc = "approve" /\ Touches(desk[h]) = {<<"REWARD", t>>, <<"LEDGER", t>>} /\ reward[t] \in Rewards
  BY <1>1, RewardJob DEF Approve, At
<1>3. /\ reward' = [reward EXCEPT ![t].status = "Approved", ![t].approved = j.n] /\ Goto(h, "row")
      /\ UNCHANGED <<taskVars, active, evaluated, booked, queue, verdict, raced>>
  BY <1>1 DEF Approve, Goto
<1>4. PICK r : r = [reward[t] EXCEPT !.status = "Approved", !.approved = j.n]
  OBVIOUS
<1>5. r \in Rewards /\ r.status = "Approved"
  BY <1>2, <1>4 DEF Rewards, RewardStatuses
<1>6. reward' = [reward EXCEPT ![t] = r]
  BY <1>2, <1>3, <1>4 DEF StoreTypeOK, BooksOK
<1>7. reward' \in [Tasks -> Rewards] /\ reward'[t] = r /\ \A u \in Tasks \ {t} : reward'[u] = reward[u]
  BY <1>2, <1>5, <1>6 DEF StoreTypeOK, BooksOK
<1>8. BooksOK' /\ Grows
  BY <1>3, <1>7 DEF StoreTypeOK, BooksOK, Grows, taskVars
<1>9. LeavesRest(h)
  BY <1>2, <1>3, <1>7, RewardLeaves
<1>10. PICK x : x = Renamed(j, "row")
  OBVIOUS
<1>11. x \in Jobs /\ desk' = [desk EXCEPT ![h] = x] /\ Touches(x) \subseteq Touches(desk[h])
  <2>1. Shaped(x)
    BY <1>1, <1>2, <1>10 DEF Renamed, Shaped, Serves
  <2>2. x \in Jobs
    BY <1>2, <1>10, <2>1 DEF Jobs, Pcs, Renamed
  <2>3. desk' = [desk EXCEPT ![h] = x]
    BY <1>1, <1>2, <1>3, <1>10, JobGoes DEF Pcs
  <2>4. Touches(x) \subseteq Touches(desk[h])
    BY <1>1, <1>2, <1>10 DEF Renamed, Touches
  <2>5. QED
    BY <2>2, <2>3, <2>4
<1>12. Fits(x)'
  <2>1. x.pc = "row" /\ x.kind = "REWARD" /\ x.target = t /\ x.for = j.for
    BY <1>1, <1>2, <1>10 DEF Renamed
  <2>2. t \in evaluated /\ (Alone("REWARD", t) /\ j.for # Direct => queue[j.for.item] = "OPEN")
    BY <1>1, <1>2 DEF Fits, Rests, Checked
  <2>3. QED
    BY <1>3, <1>5, <1>7, <2>1, <2>2 DEF Fits, Rests, Checked, Alone
<1>13. ASSUME NEW i \in Items, <<i.kind, i.target>> \in Touches(desk[h]) PROVE ItemFits(i)'
  <2>1. i.kind = "REWARD" /\ i.target = t
    BY <1>2, <1>13, ItemKinds
  <2>2. Alone("REWARD", t) => reward[t].status \in {"Pending", "Proposed"} /\ Agrees(i, queue[i])
    BY <1>1, <1>2, <2>1, PropertiesByPart DEF Fits, Checked, ItemFits
  <2>3. QED
    BY <1>3, <1>5, <1>7, <2>1, <2>2 DEF ItemFits, Agrees, Alone
<1>14. LedgerFits(t)'
  <2>1. desk'[h] = x /\ x.pc = "row" /\ x.target = t
    BY <1>1, <1>10, <1>11 DEF StoreTypeOK, Renamed
  <2>2. Booking(t)'
    BY <2>1 DEF Booking
  <2>3. LedgerFits(t)
    BY <1>2, PropertiesByPart
  <2>4. QED
    BY <1>3, <2>2, <2>3 DEF LedgerFits
<1>15. \A u \in Tasks : <<"REWARD", u>> \in Touches(desk[h]) => LedgerFits(u)'
  BY <1>2, <1>14
<1>16. QED
  BY <1>1, <1>2, <1>3, <1>8, <1>9, <1>11, <1>12, <1>13, <1>15, WentOn

LEMMA ReadKeeps == ASSUME StoreInv, NEW h \in Threads, ReadAmount(h) PROVE StoreInv'
<1> USE DEF StoreInv
<1>1. PICK j, t : j = desk[h] /\ t = j.target
  OBVIOUS
<1>2. /\ j \in Jobs /\ Shaped(j) /\ Fits(j) /\ j.kind = "REWARD" /\ t \in Tasks /\ j.n \in Nat
      /\ j.pc = "row" /\ Touches(desk[h]) = {<<"REWARD", t>>, <<"LEDGER", t>>} /\ reward[t] \in Rewards
  BY <1>1, RewardJob DEF ReadAmount, At
<1>3. /\ desk' = [desk EXCEPT ![h] = AmountJob("keep", t, reward[t].approved, j.for)]
      /\ UNCHANGED <<taskVars, active, rewardVars, queue, verdict, raced>>
  BY <1>1 DEF ReadAmount
<1>4. UNCHANGED <<status, evaluated, reward, booked>>
  BY <1>3 DEF taskVars, rewardVars
<1>5. PICK x : x = [pc |-> "keep", kind |-> "REWARD", target |-> t, to |-> None, n |-> reward[t].approved, for |-> j.for]
  OBVIOUS
<1>6. x \in Jobs /\ desk' = [desk EXCEPT ![h] = x] /\ Touches(x) \subseteq Touches(desk[h])
  <2>1. Shaped(x)
    BY <1>1, <1>2, <1>5 DEF Shaped, Serves
  <2>2. reward[t].approved \in Nat
    BY <1>2 DEF Rewards
  <2>3. x \in Jobs
    BY <1>1, <1>2, <1>5, <2>1, <2>2 DEF Jobs, Pcs
  <2>4. x = AmountJob("keep", t, reward[t].approved, j.for)
    BY <1>5 DEF AmountJob, Job
  <2>5. desk' = [desk EXCEPT ![h] = x]
    BY <1>3, <2>4
  <2>6. Touches(x) \subseteq Touches(desk[h])
    BY <1>2, <1>5 DEF Touches
  <2>7. QED
    BY <2>3, <2>5, <2>6
<1>7. Fits(x)'
  <2>1. t \in evaluated
    BY <1>1, <1>2 DEF Fits, Rests
  <2>2. Alone("REWARD", t) => reward[t].status = "Approved" /\ (j.for # Direct => queue[j.for.item] = "OPEN")
    BY <1>1, <1>2 DEF Fits, Checked
  <2>3. QED
    BY <1>3, <1>4, <1>5, <2>1, <2>2 DEF Fits, Rests, Checked, Alone
<1>8. BooksOK' /\ Grows
  BY <1>3, <1>4 DEF StoreTypeOK, BooksOK, Grows
<1>9. LeavesRest(h)
  BY <1>2, <1>3, <1>4, RewardLeaves
<1>10. /\ \A i \in Items : i.kind = "REWARD" /\ i.target = t => ItemFits(i)'
       /\ LedgerFits(t)'
  <2>1. x.pc \in {"row", "keep"} /\ x.target = desk[h].target
    BY <1>1, <1>5
  <2>2. QED
    BY <1>1, <1>2, <1>3, <1>4, <1>6, <1>8, <2>1, RewardUntouched
<1>11. /\ \A i \in Items : <<i.kind, i.target>> \in Touches(desk[h]) => ItemFits(i)'
       /\ \A u \in Tasks : <<"REWARD", u>> \in Touches(desk[h]) => LedgerFits(u)'
  BY <1>2, <1>10, ItemKinds
<1>12. QED
  BY <1>1, <1>2, <1>3, <1>6, <1>7, <1>8, <1>9, <1>11, WentOn

LEMMA KeepRowKeeps == ASSUME StoreInv, NEW h \in Threads, KeepRow(h) PROVE StoreInv'
<1> USE DEF StoreInv
<1>1. PICK j, t : j = desk[h] /\ t = j.target
  OBVIOUS
<1>2. /\ j \in Jobs /\ Shaped(j) /\ Fits(j) /\ j.kind = "REWARD" /\ t \in Tasks /\ j.n \in Nat
      /\ j.pc = "keep" /\ Touches(desk[h]) = {<<"REWARD", t>>, <<"LEDGER", t>>}
  BY <1>1, RewardJob DEF KeepRow, At
<1>3. /\ booked' = [booked EXCEPT ![t] = j.n] /\ Done(h)
      /\ UNCHANGED <<taskVars, active, evaluated, reward, queue, verdict, raced>>
  BY <1>1 DEF KeepRow, Done
<1>4. j.n # NotBooked /\ booked'[t] = j.n /\ \A u \in Tasks \ {t} : booked'[u] = booked[u]
  BY <1>2, <1>3 DEF StoreTypeOK, BooksOK, NotBooked
<1>5. BooksOK' /\ Grows
  BY <1>2, <1>3, <1>4 DEF StoreTypeOK, BooksOK, Grows, taskVars
<1>6. LeavesRest(h)
  BY <1>2, <1>3, <1>4, RewardLeaves
<1>7. desk' = [desk EXCEPT ![h] = Over(j)]
  BY <1>1, <1>2, <1>3, JobGoes
<1>8. \A i \in Items : SameItem(i)
  BY <1>3 DEF SameItem
<1>9. ASSUME NEW i \in Items, <<i.kind, i.target>> \in Touches(desk[h]) PROVE ItemFits(i)'
  <2>1. i.kind = "REWARD" /\ i.target = t
    BY <1>2, <1>9, ItemKinds
  <2>2. Rejected(t) => Rejected(t)'
    BY <1>1, <1>2, <1>7, <1>8, RejectedKept
  <2>3. Left("REWARD", t)
    BY <1>3, <1>8 DEF Left, SameReward
  <2>4. QED
    BY <1>5, <2>1, <2>2, <2>3, PropertiesByPart, ItemOn
<1>10. LedgerFits(t)'
  <2>1. t \in evaluated /\ (Alone("LEDGER", t) => j.n = reward[t].approved)
    BY <1>1, <1>2 DEF Fits, Rests
  <2>2. QED
    BY <1>3, <1>4, <2>1 DEF LedgerFits, Alone
<1>11. \A u \in Tasks : <<"REWARD", u>> \in Touches(desk[h]) => LedgerFits(u)'
  BY <1>2, <1>10
<1>12. j.for # Direct /\ Alone(j.kind, j.target) => CarriedOut(j)' /\ UNCHANGED queue
  BY <1>1, <1>2, <1>3 DEF Shaped, Serves, Fits, Checked, CarriedOut
<1>13. QED
  BY <1>1, <1>2, <1>3, <1>4, <1>5, <1>6, <1>9, <1>11, <1>12, DoneWith

LEMMA CancelKeeps == ASSUME StoreInv, NEW h \in Threads, CancelReward(h) PROVE StoreInv'
<1> USE DEF StoreInv
<1>1. PICK j, t : j = desk[h] /\ t = j.target
  OBVIOUS
<1>2. /\ j \in Jobs /\ Shaped(j) /\ Fits(j) /\ j.kind = "REWARD" /\ t \in Tasks
      /\ j.pc = "cancel" /\ Touches(desk[h]) = {<<"REWARD", t>>} /\ reward[t] \in Rewards
  BY <1>1, RewardJob DEF CancelReward, At
<1>3. /\ reward' = [reward EXCEPT ![t].status = "Cancelled"] /\ Done(h)
      /\ UNCHANGED <<taskVars, active, evaluated, booked, queue, verdict, raced>>
  BY <1>1 DEF CancelReward, Done
<1>4. /\ j.for # Direct /\ j.for \in Serving /\ j.for.decision = "REJECT"
      /\ j.for.item.kind = "REWARD" /\ j.for.item.target = t
  BY <1>1, <1>2 DEF Shaped, Serves
<1>5. PICK r : r = [reward[t] EXCEPT !.status = "Cancelled"]
  OBVIOUS
<1>6. r \in Rewards /\ r.status = "Cancelled" /\ r.approved = reward[t].approved
  BY <1>2, <1>5 DEF Rewards, RewardStatuses
<1>7. reward' = [reward EXCEPT ![t] = r]
  BY <1>2, <1>3, <1>5 DEF StoreTypeOK, BooksOK
<1>8. reward' \in [Tasks -> Rewards] /\ reward'[t] = r /\ \A u \in Tasks \ {t} : reward'[u] = reward[u]
  BY <1>2, <1>6, <1>7 DEF StoreTypeOK, BooksOK
<1>9. BooksOK' /\ Grows
  BY <1>3, <1>8 DEF StoreTypeOK, BooksOK, Grows, taskVars
<1>10. LeavesRest(h)
  BY <1>2, <1>3, <1>6, <1>8, RewardLeaves DEF LeftAmount
<1>11. desk' = [desk EXCEPT ![h] = Renamed(j, "record")]
  BY <1>1, <1>2, <1>3, <1>4, JobGoes DEF Over
<1>12. Rejected(t)'
  <2>1. j.for.item \in Items /\ j.for = [item |-> j.for.item, decision |-> "REJECT"]
    BY <1>4 DEF Serving
  <2>2. desk'[h].pc = "record" /\ desk'[h].for = j.for
    BY <1>11 DEF StoreTypeOK, Renamed
  <2>3. QED
    BY <1>4, <2>1, <2>2 DEF Rejected, At
<1>13. ASSUME NEW i \in Items, <<i.kind, i.target>> \in Touches(desk[h]) PROVE ItemFits(i)'
  <2>1. i.kind = "REWARD" /\ i.target = t
    BY <1>2, <1>13
  <2>2. QED
    BY <1>6, <1>8, <1>12, <2>1 DEF ItemFits, Agrees
<1>14. LedgerFits(t)'
  <2>1. Booking(t) => Booking(t)'
    BY <1>1, <1>2, <1>11, BookingKept
  <2>2. LedgerFits(t)
    BY <1>2, PropertiesByPart
  <2>3. QED
    BY <1>3, <1>6, <1>8, <2>1, <2>2 DEF LedgerFits, Alone
<1>15. \A u \in Tasks : <<"REWARD", u>> \in Touches(desk[h]) => LedgerFits(u)'
  BY <1>2, <1>14
<1>16. CarriedOut(j)' /\ UNCHANGED queue
  BY <1>1, <1>2, <1>3, <1>4, <1>6, <1>8 DEF CarriedOut
<1>17. QED
  BY <1>1, <1>2, <1>3, <1>4, <1>9, <1>10, <1>13, <1>15, <1>16, DoneWith

-----------------------------------------------------------------------------
(* Proposals and Actions, and the end of a decision *)

LEMMA JudgeKeeps == ASSUME StoreInv, NEW h \in Threads, Judge(h) PROVE StoreInv'
<1> USE DEF StoreInv
<1>1. PICK j, x : j = desk[h] /\ x = j.target
  OBVIOUS
<1>2. j \in Jobs /\ Shaped(j) /\ Fits(j) /\ j.pc = "judge" /\ j.kind = "MATTER" /\ x \in Matters /\ j.to \in Decisions
  <2>1. j.pc = "judge" /\ j \in Jobs /\ Shaped(j) /\ desk[h] # Free
    BY <1>1, HasJob DEF Judge, At
  <2>2. QED
    BY <1>1, <2>1 DEF Shaped, DeskFits
<1>3. /\ verdict' = [verdict EXCEPT ![x] = j.to] /\ Done(h)
      /\ UNCHANGED <<taskVars, active, rewardVars, queue, raced>>
  BY <1>1 DEF Judge, Done
<1>4. UNCHANGED <<status, evaluated, reward, booked>>
  BY <1>3 DEF taskVars, rewardVars
<1>5. BooksOK' /\ Grows /\ verdict'[x] = j.to /\ \A y \in Matters \ {x} : verdict'[y] = verdict[y]
  BY <1>2, <1>3, <1>4 DEF StoreTypeOK, BooksOK, Grows
<1>6. Touches(desk[h]) = {<<"MATTER", x>>}
  BY <1>1, <1>2 DEF Touches
<1>7. LeavesRest(h)
  BY <1>3, <1>4, <1>5, <1>6 DEF LeavesRest, Left, LeftAmount, SameTask, SameReward, SameMatter, SameItem
<1>8. ASSUME NEW i \in Items, <<i.kind, i.target>> \in Touches(desk[h]) PROVE ItemFits(i)'
  <2>1. i.kind = "MATTER" /\ i.target = x
    BY <1>6, <1>8
  <2>2. Alone("MATTER", x) => queue[i] \in {None, "OPEN"}
    BY <1>1, <1>2, <2>1, PropertiesByPart DEF Fits, Checked, ItemFits, Agrees
  <2>3. QED
    BY <1>3, <2>1, <2>2 DEF ItemFits, Agrees, Alone
<1>9. j.for # Direct => CarriedOut(j)' /\ UNCHANGED queue /\ j.kind # "REWARD"
  BY <1>1, <1>2, <1>3, <1>5 DEF Shaped, Serves, CarriedOut
<1>10. \A t \in Tasks : <<"REWARD", t>> \notin Touches(desk[h])
  BY <1>6
<1>11. QED
  BY <1>1, <1>2, <1>3, <1>5, <1>7, <1>8, <1>9, <1>10, DoneWith

LEMMA AskKeeps == ASSUME StoreInv, NEW h \in Threads, Ask(h) PROVE StoreInv'
<1> USE DEF StoreInv
<1>1. PICK j, x : j = desk[h] /\ x = [kind |-> "MATTER", target |-> j.target, by |-> "CREATE"]
  OBVIOUS
<1>2. j \in Jobs /\ Shaped(j) /\ j.pc = "ask" /\ j.for = Direct /\ x \in Items /\ x.kind = "MATTER"
  <2>1. j.pc = "ask" /\ j \in Jobs /\ Shaped(j)
    BY <1>1, HasJob DEF Ask, At
  <2>2. QED
    BY <1>1, <2>1, ItemKinds DEF Shaped, Serves
<1>3. /\ queue' = [queue EXCEPT ![x] = "OPEN"] /\ Done(h)
      /\ UNCHANGED <<taskVars, active, rewardVars, verdict, raced>>
  BY <1>1 DEF Ask, Done
<1>4. UNCHANGED <<status, evaluated, reward, booked>>
  BY <1>3 DEF taskVars, rewardVars
<1>5. \A i \in Items : SameItem(i)
  BY <1>2, <1>3 DEF SameItem, StoreTypeOK, BooksOK
<1>6. BooksOK' /\ Grows
  BY <1>2, <1>3, <1>4 DEF StoreTypeOK, BooksOK, Grows
<1>7. Touches(desk[h]) = {}
  BY <1>1, <1>2 DEF Touches
<1>8. LeavesRest(h)
  BY <1>3, <1>4, <1>5 DEF LeavesRest, Left, LeftAmount, SameTask, SameReward, SameMatter
<1>9. QED
  BY <1>1, <1>2, <1>3, <1>6, <1>7, <1>8, DoneWith

\* A refused decision changes no record.
LEMMA RaiseKeeps == ASSUME StoreInv, NEW h \in Threads, Raise(h) PROVE StoreInv'
<1> USE DEF StoreInv
<1>1. /\ desk[h].pc = "carry" /\ desk' = [desk EXCEPT ![h] = Free]
      /\ UNCHANGED <<taskVars, active, rewardVars, queue, verdict, raced>>
  BY DEF Raise, At
<1>2. /\ Grows /\ \A k, t : Left(k, t)
      /\ \A t : LeftAmount(t) /\ SameReward(t) /\ booked'[t] = booked[t]
  BY <1>1, NothingWritten
<1>3. BooksOK' /\ LeavesRest(h) /\ Touches(Free) \subseteq Touches(desk[h])
  BY <1>1, <1>2 DEF StoreTypeOK, BooksOK, taskVars, rewardVars, LeavesRest, Touches, Free
<1>4. \A i \in Items : SameItem(i)
  BY <1>1 DEF SameItem
<1>5. \A t : (Rejected(t) => Rejected(t)') /\ (Booking(t) => Booking(t)')
  BY <1>1, <1>4, RejectedKept, BookingKept
<1>6. ASSUME NEW i \in Items PROVE ItemFits(i)'
  BY <1>2, <1>5, PropertiesByPart, ItemOn
<1>7. ASSUME NEW t \in Tasks PROVE LedgerFits(t)'
  BY <1>2, <1>4, <1>5, PropertiesByPart, LedgerOn
<1>8. QED
  BY <1>1, <1>2, <1>3, <1>6, <1>7, WentOn

\* A decision is recorded when it has been carried out.
LEMMA RecordKeeps == ASSUME StoreInv, NEW h \in Threads, RecordDecision(h) PROVE StoreInv'
<1> USE DEF StoreInv
<1>1. PICK j, e, d : j = desk[h] /\ e = j.for.item /\ d = j.for.decision
  OBVIOUS
<1>2. /\ j \in Jobs /\ Fits(j) /\ j.pc = "record" /\ j.for # Direct /\ j.for \in Serving
      /\ e.kind = j.kind /\ e.target = j.target /\ e \in Items /\ d \in Decisions
  <2>1. j.pc = "record" /\ j \in Jobs /\ Shaped(j) /\ desk[h] # Free
    BY <1>1, HasJob DEF RecordDecision, At
  <2>2. Serves(j) /\ j.for # Direct
    BY <2>1 DEF Shaped
  <2>3. QED
    BY <1>1, <2>1, <2>2 DEF Serves, Serving, DeskFits
<1>3. /\ queue' = [queue EXCEPT ![e] = d] /\ desk' = [desk EXCEPT ![h] = Free]
      /\ UNCHANGED <<taskVars, active, rewardVars, verdict, raced>>
  BY <1>1 DEF RecordDecision
<1>4. UNCHANGED <<status, evaluated, reward, booked>>
  BY <1>3 DEF taskVars, rewardVars
<1>5. queue'[e] = d /\ \A i \in Items \ {e} : queue'[i] = queue[i]
  BY <1>2, <1>3 DEF StoreTypeOK, BooksOK
<1>6. BooksOK' /\ Grows
  BY <1>2, <1>3, <1>4 DEF StoreTypeOK, BooksOK, Grows
<1>7. Touches(desk[h]) = {<<j.kind, j.target>>} /\ Touches(Free) = {}
  BY <1>1, <1>2, DirectServesNothing DEF Touches
<1>8. \A i \in Items : <<i.kind, i.target>> \notin Touches(desk[h]) => SameItem(i)
  BY <1>2, <1>5, <1>7 DEF SameItem
<1>9. LeavesRest(h)
  BY <1>3, <1>4, <1>8 DEF LeavesRest, Left, LeftAmount, SameTask, SameReward, SameMatter
<1>10. Alone(j.kind, j.target) => CarriedOut(j) /\ queue[e] = "OPEN"
  BY <1>1, <1>2 DEF Fits, Checked
<1>11. j.kind = "REWARD" /\ d = "APPROVE" => booked[j.target] # NotBooked
  BY <1>1, <1>2 DEF Fits, Rests
<1>12. ASSUME queue[e] = "OPEN", NEW t, Rejected(t) PROVE Rejected(t)'
  <2>1. PICK i \in Items : /\ i.kind = "REWARD" /\ i.target = t
                           /\ \/ queue[i] = "REJECT"
                              \/ \E g \in Threads : At(g, "record") /\ desk[g].for = [item |-> i, decision |-> "REJECT"]
    BY <1>12 DEF Rejected
  <2>2. CASE queue[i] = "REJECT"
    BY <1>5, <1>12, <2>1, <2>2 DEF Rejected
  <2>3. ASSUME NEW g \in Threads, At(g, "record"), desk[g].for = [item |-> i, decision |-> "REJECT"]
        PROVE  Rejected(t)'
    <3>1. CASE g = h
      <4>1. e = i /\ d = "REJECT"
        BY <1>1, <2>3, <3>1
      <4>2. QED
        BY <1>5, <2>1, <4>1 DEF Rejected
    <3>2. CASE g # h
      <4>1. desk'[g] = desk[g]
        BY <1>3, <3>2 DEF StoreTypeOK
      <4>2. QED
        BY <2>1, <2>3, <4>1 DEF Rejected, At
    <3>3. QED
      BY <3>1, <3>2
  <2>4. QED
    BY <2>1, <2>2, <2>3
<1>13. ASSUME NEW i \in Items, <<i.kind, i.target>> \in Touches(desk[h]) PROVE ItemFits(i)'
  <2>1. i.kind = j.kind /\ i.target = j.target
    BY <1>7, <1>13
  <2> SUFFICES ASSUME Alone(i.kind, i.target)' PROVE Agrees(i, queue[i])'
    BY DEF ItemFits
  <2>2. CarriedOut(j) /\ queue[e] = "OPEN" /\ Agrees(i, queue[i])
    BY <1>3, <1>10, <2>1, PropertiesByPart DEF Alone, ItemFits
  <2>3. CASE i = e
    BY <1>1, <1>3, <1>4, <1>5, <2>1, <2>2, <2>3 DEF CarriedOut, Agrees
  <2>4. CASE i # e
    BY <1>3, <1>4, <1>5, <1>12, <2>2, <2>4 DEF Agrees
  <2>5. QED
    BY <2>3, <2>4
<1>14. ASSUME NEW t \in Tasks, <<"REWARD", t>> \in Touches(desk[h]) PROVE LedgerFits(t)'
  <2>1. j.kind = "REWARD" /\ j.target = t
    BY <1>7, <1>14
  <2>2. Booking(t) => Booking(t)'
    BY <1>1, <1>2, <1>3, BookingKept
  <2>3. LedgerFits(t)
    BY PropertiesByPart
  <2>4. \A i \in Items : i.kind = "REWARD" /\ i.target = t /\ queue'[i] = "APPROVE" => booked[t] # NotBooked
    BY <1>5, <1>11, <2>1, <2>3 DEF LedgerFits
  <2>5. QED
    BY <1>3, <1>4, <2>2, <2>3, <2>4 DEF LedgerFits, Alone
<1>15. desk[h].pc = "record" => queue'[desk[h].for.item] = desk[h].for.decision
  BY <1>1, <1>5
<1>16. QED
  BY <1>3, <1>6, <1>7, <1>9, <1>13, <1>14, <1>15, WentOn

\* A proposal nobody knows yet is created, and its approval is still to be filed.
LEMMA CreateMatterKeeps ==
    ASSUME StoreInv, NEW h \in Threads, NEW x \in Matters, CreateMatter(h, x)
    PROVE  StoreInv'
<1> USE DEF StoreInv
<1>1. PICK j : j = [pc |-> "ask", kind |-> "MATTER", target |-> x, to |-> None, n |-> 0, for |-> Direct]
  OBVIOUS
<1>2. /\ desk[h] = Free /\ verdict[x] = None /\ verdict' = [verdict EXCEPT ![x] = "OPEN"]
      /\ desk' = [desk EXCEPT ![h] = j]
      /\ UNCHANGED <<taskVars, active, rewardVars, queue, raced>>
  BY <1>1 DEF CreateMatter, IsFree, Job
<1>3. j \in Jobs /\ Touches(j) = {}
  BY <1>1 DEF Jobs, Pcs, Shaped, Touches
<1>4. Fits(j)'
  BY <1>1 DEF Fits, Rests, Checked
<1>5. UNCHANGED <<status, evaluated, reward, booked>>
  BY <1>2 DEF taskVars, rewardVars
<1>6. BooksOK' /\ Grows /\ \A y \in Matters : verdict'[y] = verdict[y] \/ verdict[y] = None
  BY <1>2, <1>5 DEF StoreTypeOK, BooksOK, Grows
<1>7. LeavesRest(h)
  BY <1>2, <1>5, <1>6 DEF LeavesRest, Left, LeftAmount, SameTask, SameReward, SameMatter, SameItem
<1>8. Touches(desk[h]) = {} /\ desk[h].pc # "record"
  BY <1>2, DirectServesNothing DEF Touches
<1>9. QED
  BY <1>2, <1>3, <1>4, <1>6, <1>7, <1>8, WentOn

-----------------------------------------------------------------------------
(* The steps without a handler *)

LEMMA OwnerKeeps ==
    ASSUME StoreInv, BooksOK', \A t \in Tasks : SameTask(t),
           UNCHANGED <<rewardVars, queue, verdict, desk, raced>>
    PROVE  StoreInv'
<1> USE DEF StoreInv
<1>1. UNCHANGED <<evaluated, reward, booked>>
  BY DEF rewardVars
<1>2. \A i \in Items : SameItem(i)
  BY DEF SameItem
<1>3. /\ Grows /\ \A t : LeftAmount(t) /\ SameReward(t) /\ booked'[t] = booked[t]
      /\ \A k, t : k # "TASK" \/ t \in Tasks => Left(k, t)
  BY <1>1, <1>2 DEF Grows, LeftAmount, SameReward, SameMatter, Left
<1>4. DeskFits'
  <2> SUFFICES ASSUME NEW g \in Threads, desk[g] # Free PROVE Fits(desk[g])'
    BY DEF DeskFits
  <2>1. PICK k : k = desk[g]
    OBVIOUS
  <2>2. k \in Jobs /\ Fits(k)
    BY <2>1 DEF StoreTypeOK, DeskFits
  <2>3. Left(k.kind, k.target)
    BY <1>3, <2>2, JobKinds
  <2>4. Fits(k)'
    BY <1>3, <2>2, <2>3, FitsOn
  <2>5. QED
    BY <2>1, <2>4 DEF Fits, Rests, Checked, CarriedOut
<1>5. StoreTypeOK' /\ Serial'
  BY DEF StoreTypeOK, Serial, Touches
<1>6. \A t : (Rejected(t) => Rejected(t)') /\ (Booking(t) => Booking(t)')
  BY DEF Rejected, Booking, At
<1>7. ASSUME NEW i \in Items PROVE ItemFits(i)'
  <2>1. Left(i.kind, i.target)
    BY <1>3, ItemKinds
  <2>2. QED
    BY <1>3, <1>6, <2>1, PropertiesByPart, ItemOn
<1>8. ASSUME NEW t \in Tasks PROVE LedgerFits(t)'
  BY <1>2, <1>3, <1>6, PropertiesByPart, LedgerOn
<1>9. DecisionsHold' /\ LedgerRests'
  BY <1>7, <1>8 DEF DecisionsHold, ItemFits, Agrees, LedgerRests, LedgerFits
<1>10. QED
  BY <1>4, <1>5, <1>9

-----------------------------------------------------------------------------
(* The theorems *)

LEMMA StoreInvInit == StoreInit => StoreInv
<1> SUFFICES ASSUME StoreInit PROVE StoreInv
  OBVIOUS
<1>1. PICK seeded \in SUBSET Tasks :
         /\ status = [t \in Tasks |-> IF t \in seeded THEN "OWNER_REVIEW" ELSE None]
         /\ evaluated = {} /\ raced = {}
         /\ reward = [t \in Tasks |-> IF t \in seeded
                          THEN [NoReward EXCEPT !.status = "Proposed", !.proposed = Budget] ELSE NoReward]
         /\ booked = [t \in Tasks |-> NotBooked]
         /\ queue = [i \in Items |-> IF i.by = "SEED" /\ i.target \in seeded THEN "OPEN" ELSE None]
         /\ verdict = [x \in Matters |-> None]
         /\ desk = [h \in Threads |-> Free]
  BY DEF StoreInit
<1>2. NoReward \in Rewards /\ NoReward.status # "Approved"
  BY DEF NoReward, Rewards, RewardStatuses
<1>3. /\ [NoReward EXCEPT !.status = "Proposed", !.proposed = Budget] \in Rewards
      /\ [NoReward EXCEPT !.status = "Proposed", !.proposed = Budget].status # "Approved"
  BY StoreAssumption DEF NoReward, Rewards, RewardStatuses
<1>4. reward \in [Tasks -> Rewards] /\ \A t \in Tasks : reward[t].status # "Approved"
  BY <1>1, <1>2, <1>3
<1>5. StoreTypeOK
  BY <1>1, <1>4, StatusGraph DEF StoreTypeOK, BooksOK, NotBooked
<1>6. Serial /\ DeskFits
  BY <1>1 DEF Serial, DeskFits, Touches, Free
<1>7. \A i \in Items : queue[i] \in {None, "OPEN"}
  BY <1>1
<1>8. DecisionsHold
  BY <1>7 DEF DecisionsHold, None
<1>9. LedgerRests
  BY <1>1, <1>4, <1>7 DEF LedgerRests, None
<1>10. QED
  BY <1>5, <1>6, <1>8, <1>9 DEF StoreInv

LEMMA StoreInvStep == StoreInv /\ [StoreNext]_storeVars => StoreInv'
<1> SUFFICES ASSUME StoreInv, [StoreNext]_storeVars PROVE StoreInv'
  OBVIOUS
<1>1. BooksOK /\ StoreTypeOK
  BY DEF StoreInv, StoreTypeOK
<1>2. CASE OwnerNext
  <2>1. ASSUME NEW a \in Suspended, SetAgentStatus(a) PROVE StoreInv'
    BY <1>1, <2>1, OwnerKeeps DEF SetAgentStatus, BooksOK, SameTask, taskVars, rewardVars
  <2>2. ASSUME NEW t \in Tasks, NEW a \in Agents, CreateTask(t, a) PROVE StoreInv'
    <3>1. BooksOK' /\ \A u \in Tasks : SameTask(u)
      BY <1>1, <2>2, StatusGraph DEF CreateTask, BooksOK, SameTask, rewardVars
    <3>2. QED
      BY <2>2, <3>1, OwnerKeeps DEF CreateTask
  <2>3. ASSUME NEW t \in Tasks, NEW a \in Agents, AssignExecutive(t, a) PROVE StoreInv'
    BY <1>1, <2>3, OwnerKeeps DEF AssignExecutive, BooksOK, SameTask, rewardVars
  <2>4. QED
    BY <1>2, <2>1, <2>2, <2>3 DEF OwnerNext
<1>3. ASSUME NEW h \in Threads, CommandNext(h) PROVE StoreInv'
  <2>1. ASSUME NEW x \in Matters, CreateMatter(h, x) PROVE StoreInv'
    BY <2>1, CreateMatterKeeps
  <2>2. ASSUME NEW i \in Items, NEW d \in DecisionsOn(i.kind), BeginDecision(h, i, d) PROVE StoreInv'
    BY <2>2, DecisionTakenUp
  <2>3. QED
    BY <1>3, <2>1, <2>2, CommandTakenUp DEF CommandNext
<1>4. ASSUME NEW h \in Threads, HandlerNext(h) PROVE StoreInv'
  BY <1>4, MoveKeeps, FileKeeps, EvaluateKeeps, ProposeKeeps, ApproveKeeps, ReadKeeps, KeepRowKeeps, AskKeeps,
     JudgeKeeps, DecisionCarriedOut, CancelKeeps, RaiseKeeps, RecordKeeps DEF HandlerNext
<1>5. CASE UNCHANGED storeVars
  BY <1>1, <1>5, OwnerKeeps DEF storeVars, taskVars, rewardVars, BooksOK, SameTask
<1>6. QED
  BY <1>2, <1>3, <1>4, <1>5 DEF StoreNext

LEMMA StoreInvHolds == StoreSpec => []StoreInv
BY StoreInvInit, StoreInvStep, PTL DEF StoreSpec

\* Whatever any number of handlers do at once without a lock, a row of the reward
\* ledger rests on an evaluation, an approved reward has its row, and the amounts
\* agree unless two handlers approved that reward at once (approve_reward).
THEOREM LedgerAgrees == StoreSpec => []LedgerRests
BY StoreInvHolds, PTL DEF StoreInv

\* Whatever any number of handlers do at once without a lock, the approval center
\* agrees with every record that no two of them worked on at once: two decisions
\* on one approval, or a decision beside the direct endpoint, part only what
\* they raced for (decide_approval).
THEOREM DecisionsStand == StoreSpec => []DecisionsHold
BY StoreInvHolds, PTL DEF StoreInv
=============================================================================
