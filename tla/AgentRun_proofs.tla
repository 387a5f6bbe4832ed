--------------------------- MODULE AgentRun_proofs ---------------------------
(***************************************************************************)
(* What holds of Agent runs and stop controls for every number of workers,  *)
(* runs, targets, operators and retries, in every order of their steps.      *)
(***************************************************************************)
EXTENDS AgentRun, TLAPS

-----------------------------------------------------------------------------
(* Stop controls *)

OpRecords == [action : {"STOP", "RESUME"}, target : Targets, version : Nat]

StopTypeOK ==
    /\ stops \in [Targets -> [version : Nat, stopped : BOOLEAN]]
    /\ history \subseteq [target : Targets, version : Nat, action : {"STOP", "RESUME"}]
    /\ ops \in [Operators -> {NoOp} \cup OpRecords]

\* An operation between its read and its write would turn the state its
\* version tells.
OpsFit == \A o \in Operators : ops[o] # NoOp =>
    (ops[o].action = "STOP") = (ops[o].version % 2 = 0)

StopInv == StopTypeOK /\ OpsFit /\ HistoryTold

\* One operation of the Owner, at either of its two steps.
StopStep ==
    \/ \E o \in Operators, t \in Targets, a \in {"STOP", "RESUME"} : Read(o, t, a)
    \/ \E o \in Operators : Apply(o)

\* No operation is under way at the start, and nothing was ever stopped.
LEMMA StopInvInit == StopInit => StopInv
<1> SUFFICES ASSUME StopInit PROVE StopInv
  OBVIOUS
<1> USE DEF StopInit, Never, NoOp
<1>1. StopTypeOK
  BY DEF StopTypeOK
<1>2. OpsFit
  BY DEF OpsFit
<1>3. \A t \in Targets : stops[t].version = 0 /\ stops[t].stopped = FALSE
  OBVIOUS
<1>4. HistoryTold
  <2>1. 1..0 = {} /\ 0 % 2 # 1
    OBVIOUS
  <2>2. QED
    BY <1>3, <2>1 DEF HistoryTold, Stopped
<1>5. QED
  BY <1>1, <1>2, <1>4 DEF StopInv

\* stop and resume read a state that allows them.
LEMMA ReadStep ==
    ASSUME StopInv, NEW o \in Operators, NEW t \in Targets, NEW a \in {"STOP", "RESUME"}, Read(o, t, a)
    PROVE  StopInv'
<1> USE DEF StopInv
<1>1. StopTypeOK'
  BY DEF Read, StopTypeOK, OpRecords
<1>2. OpsFit'
  <2> SUFFICES ASSUME NEW q \in Operators, ops'[q] # NoOp
               PROVE  (ops'[q].action = "STOP") = (ops'[q].version % 2 = 0)
    BY DEF OpsFit
  <2>1. CASE q # o
    BY <2>1 DEF Read, OpsFit, StopTypeOK
  <2>2. CASE q = o
    <3>1. ops'[q].action = a /\ ops'[q].version = stops[t].version
      BY <2>2 DEF Read, StopTypeOK
    <3>2. stops[t].stopped = (stops[t].version % 2 = 1)
      BY DEF HistoryTold, Stopped
    <3>3. stops[t].stopped = (a = "RESUME")
      BY DEF Read, Stopped
    <3>4. stops[t].version \in Nat
      BY DEF StopTypeOK
    <3>5. QED
      BY <3>1, <3>2, <3>3, <3>4
  <2>3. QED
    BY <2>1, <2>2
<1>3. HistoryTold'
  BY DEF HistoryTold, Read, Stopped
<1>4. QED
  BY <1>1, <1>2, <1>3

\* The write of an operation whose version still stands adds the next row of
\* the history; the write of any other changes nothing.
LEMMA ApplyStep ==
    ASSUME StopInv, NEW o \in Operators, Apply(o)
    PROVE  StopInv'
<1> DEFINE op == ops[o]
<1> USE DEF StopInv
<1>1. op \in OpRecords
  BY DEF Apply, StopTypeOK
<1>2. /\ op.target \in Targets /\ op.version \in Nat
      /\ (op.action = "STOP") = (op.version % 2 = 0)
      /\ op.action \in {"STOP", "RESUME"}
  BY <1>1 DEF Apply, OpsFit, OpRecords
<1>3. OpsFit'
  BY DEF OpsFit, Apply, StopTypeOK
<1>4. CASE stops[op.target].version # op.version
  <2>1. stops' = stops /\ history' = history /\ StopTypeOK'
    BY <1>4 DEF Apply, StopTypeOK
  <2>2. HistoryTold'
    BY <2>1 DEF HistoryTold, Stopped
  <2>3. QED
    BY <2>1, <2>2, <1>3
<1>5. CASE stops[op.target].version = op.version
  <2>1. /\ stops' = [stops EXCEPT ![op.target] =
                        [version |-> op.version + 1, stopped |-> op.action = "STOP"]]
        /\ history' = history \cup
              {[target |-> op.target, version |-> op.version + 1, action |-> op.action]}
        /\ ops' = [ops EXCEPT ![o] = NoOp]
    BY <1>5 DEF Apply
  <2>2. StopTypeOK'
    BY <2>1, <1>2 DEF StopTypeOK
  <2>3. (op.version + 1) % 2 = 1 <=> op.action = "STOP"
    BY <1>2
  <2>4. HistoryTold'
    <3> SUFFICES ASSUME NEW t \in Targets
                 PROVE  /\ \A v \in 1..stops'[t].version : \E h \in history' : h.target = t /\ h.version = v
                        /\ \A h \in history' : h.target = t =>
                              /\ h.version <= stops'[t].version
                              /\ h.action = IF h.version % 2 = 1 THEN "STOP" ELSE "RESUME"
                        /\ stops'[t].stopped = (stops'[t].version % 2 = 1)
      BY DEF HistoryTold, Stopped
    <3>1. CASE t # op.target
      BY <3>1, <2>1, <1>2 DEF HistoryTold, Stopped, StopTypeOK
    <3>2. CASE t = op.target
      <4>1. stops'[t].version = op.version + 1 /\ stops'[t].stopped = (op.action = "STOP")
        BY <3>2, <2>1, <1>2 DEF StopTypeOK
      <4>2. \A v \in 1..op.version : \E h \in history : h.target = t /\ h.version = v
        BY <3>2, <1>5 DEF HistoryTold
      <4>3. \A h \in history : h.target = t =>
                /\ h.version <= op.version
                /\ h.action = IF h.version % 2 = 1 THEN "STOP" ELSE "RESUME"
        BY <3>2, <1>5 DEF HistoryTold
      <4>4. \A v \in 1..(op.version + 1) : v = op.version + 1 \/ v \in 1..op.version
        BY <1>2
      <4>5. \A v \in 1..stops'[t].version : \E h \in history' : h.target = t /\ h.version = v
        <5> DEFINE new == [target |-> op.target, version |-> op.version + 1, action |-> op.action]
        <5>1. new \in history' /\ new.target = t /\ new.version = op.version + 1
          BY <2>1, <3>2
        <5>2. history \subseteq history'
          BY <2>1
        <5> HIDE DEF new
        <5>3. QED
          BY <4>1, <4>2, <4>4, <5>1, <5>2
      <4>6. \A h \in history : h.target = t => h.version <= op.version + 1
        BY <4>3, <1>2 DEF StopTypeOK
      <4>7. QED
        BY <4>1, <4>3, <4>5, <4>6, <2>1, <2>3, <1>2
    <3>3. QED
      BY <3>1, <3>2
  <2>5. QED
    BY <2>2, <2>4, <1>3
<1>6. QED
  BY <1>4, <1>5

-----------------------------------------------------------------------------
(* Runs *)

JobRecords ==
    [pc : Checks \cup {"insert", "validate", "calling", "ending"}, run : Runs,
     attempts : Nat, read : Nat, status : Ended \cup {"NONE"}]

Exec(w) == work[w].pc \notin {"free", "insert"}

\* What a job that is past its row knows, after n calls, with s standing
\* since the last answer.
JobFits(job, n, s) ==
    /\ job.pc \in {"validate", "entry"} => job.attempts = 0 /\ n = 0
    /\ job.pc = "gate" => job.attempts = n + 1 /\ n <= MaxRetries
    /\ job.pc \in {"calling", "after"} => job.attempts = n
    /\ job.pc = "after" /\ job.read >= 1 =>
          /\ Cancel \notin s
          /\ \A i \in 1..(job.read - 1) : ScanOf[job.run][i] \notin s
    /\ job.pc = "ending" =>
          /\ job.status \in Ended /\ job.attempts \in {n, n + 1}
          /\ job.status = "SUCCEEDED" => job.attempts = n /\ s = {}

RowFits(stored, n, s) ==
    /\ n <= MaxRetries + 1
    /\ stored.status = "NONE" => n = 0
    /\ stored.status \in Ended => stored.attempts \in {n, n + 1}
    /\ stored.status = "SUCCEEDED" => stored.attempts = n /\ s = {}

JobsFit == \A w \in Workers : Exec(w) =>
    /\ row[work[w].run].status = "RUNNING"
    /\ JobFits(work[w], calls[work[w].run], since[work[w].run])
JobsOpen == \A w \in Workers :
    /\ work[w].pc \notin {"free", "ending"} => work[w].status = "NONE"
    /\ work[w].pc = "insert" => work[w].attempts = 0
Alone == \A v, w \in Workers : Exec(v) /\ Exec(w) /\ work[v].run = work[w].run => v = w
RowsFit == \A r \in Runs : RowFits(row[r], calls[r], since[r])
SinceStands == \A r \in Runs : since[r] \subseteq Standing(r)

RunInv == RunTypeOK /\ JobsFit /\ JobsOpen /\ Alone /\ RowsFit /\ SinceStands

\* Nobody executes anything at the start.
LEMMA RunInvInit == RunInit => RunInv
<1> SUFFICES ASSUME RunInit PROVE RunInv
  OBVIOUS
<1> USE DEF RunInit
<1>1. RunTypeOK
  BY DEF RunTypeOK, NoRow
<1>2. \A w \in Workers : work[w].pc = "free"
  BY DEF Free
<1>3. JobsFit /\ JobsOpen /\ Alone
  BY <1>2 DEF JobsFit, JobsOpen, Alone, Exec
<1>4. RowsFit
  BY RunAssumption DEF RowsFit, RowFits, NoRow, Ended
<1>5. SinceStands
  BY DEF SinceStands
<1>6. QED
  BY <1>1, <1>3, <1>4, <1>5 DEF RunInv

\* The worker of a run takes a step of its turn: it alone may change what the
\* run has called and what stands against it.
LEMMA TurnStep ==
    ASSUME RunInv, NEW w \in Workers, Exec(w), NEW j \in JobRecords, NEW n \in Nat,
           NEW s \in SUBSET (Targets \cup {Cancel}),
           j.run = work[w].run, j.pc # "insert", j.pc = "ending" \/ j.status = "NONE",
           work' = [work EXCEPT ![w] = j],
           calls' = [calls EXCEPT ![j.run] = n], since' = [since EXCEPT ![j.run] = s],
           UNCHANGED <<row, cancelled, abandoned, stopVars>>,
           n <= MaxRetries + 1, s \subseteq Standing(j.run), JobFits(j, n, s)
    PROVE  RunInv'
<1> USE DEF RunInv
<1> DEFINE r == j.run
<1>0. r \in Runs
  BY DEF JobRecords
<1>1. RunTypeOK'
  BY <1>0 DEF RunTypeOK, JobRecords, stopVars
<1>2. /\ work'[w] = j /\ calls'[r] = n /\ since'[r] = s /\ row' = row
      /\ \A v \in Workers : v # w => work'[v] = work[v]
      /\ \A q \in Runs : q # r => calls'[q] = calls[q] /\ since'[q] = since[q]
  BY <1>0 DEF RunTypeOK
<1>3. \A v \in Workers : v # w /\ Exec(v) => work[v].run # r /\ work[v].run \in Runs
  BY DEF Alone, Exec, RunTypeOK, Free
<1>4. JobsFit'
  <2> SUFFICES ASSUME NEW v \in Workers, Exec(v)'
               PROVE  /\ row'[work'[v].run].status = "RUNNING"
                      /\ JobFits(work'[v], calls'[work'[v].run], since'[work'[v].run])
    BY DEF JobsFit, JobFits
  <2>1. CASE v = w
    BY <2>1, <1>2 DEF JobsFit
  <2>2. CASE v # w
    <3>1. work'[v] = work[v] /\ Exec(v)
      BY <2>2, <1>2 DEF Exec
    <3>2. work[v].run # r /\ work[v].run \in Runs
      BY <2>2, <3>1, <1>3
    <3>3. calls'[work[v].run] = calls[work[v].run] /\ since'[work[v].run] = since[work[v].run]
      BY <3>2, <1>2
    <3>4. QED
      BY <3>1, <3>3, <1>2 DEF JobsFit
  <2>3. QED
    BY <2>1, <2>2
<1>5. JobsOpen'
  BY <1>2 DEF JobsOpen
<1>6. Alone'
  BY <1>2, <1>3 DEF Alone, Exec
<1>7. RowsFit'
  <2>1. row[r].status = "RUNNING"
    BY DEF JobsFit
  <2>2. RowFits(row[r], n, s)
    BY <2>1 DEF RowFits, Ended
  <2>3. QED
    BY <2>2, <1>2 DEF RowsFit, RowFits
<1>8. SinceStands'
  BY <1>0, <1>2 DEF SinceStands, Standing, Stopped, stopVars
<1>9. QED
  BY <1>1, <1>4, <1>5, <1>6, <1>7, <1>8

\* A worker of a run goes on without a call or an answer.
LEMMA MoveStep ==
    ASSUME RunInv, NEW w \in Workers, Exec(w), NEW j \in JobRecords,
           j.run = work[w].run, j.pc # "insert", j.pc = "ending" \/ j.status = "NONE",
           work' = [work EXCEPT ![w] = j],
           UNCHANGED <<row, calls, since, cancelled, abandoned, stopVars>>,
           JobFits(j, calls[j.run], since[j.run])
    PROVE  RunInv'
<1>1. j.run \in Runs
  BY DEF JobRecords
<1>2. /\ calls[j.run] \in Nat /\ since[j.run] \in SUBSET (Targets \cup {Cancel})
      /\ calls' = [calls EXCEPT ![j.run] = calls[j.run]]
      /\ since' = [since EXCEPT ![j.run] = since[j.run]]
  BY <1>1 DEF RunInv, RunTypeOK
<1>3. calls[j.run] <= MaxRetries + 1 /\ since[j.run] \subseteq Standing(j.run)
  BY <1>1 DEF RunInv, RowsFit, RowFits, SinceStands
<1>4. QED
  BY <1>2, <1>3, TurnStep

\* What a job in hand is, to a step that has its pc.
LEMMA InHand ==
    ASSUME RunInv, NEW w \in Workers, Exec(w)
    PROVE  /\ work[w] \in JobRecords /\ work[w].run \in Runs /\ work[w].attempts \in Nat
           /\ work[w].read \in Nat
           /\ row[work[w].run].status = "RUNNING"
           /\ JobFits(work[w], calls[work[w].run], since[work[w].run])
           /\ calls[work[w].run] \in Nat /\ calls[work[w].run] <= MaxRetries + 1
           /\ since[work[w].run] \in SUBSET (Targets \cup {Cancel})
           /\ since[work[w].run] \subseteq Standing(work[w].run)
<1> USE DEF RunInv
<1>1. work[w] \in JobRecords
  BY DEF RunTypeOK, Exec, Free, JobRecords
<1>2. work[w].run \in Runs /\ work[w].attempts \in Nat /\ work[w].read \in Nat
  BY <1>1 DEF JobRecords
<1>3. QED
  BY <1>1, <1>2 DEF JobsFit, RunTypeOK, RowsFit, RowFits, SinceStands

\* A worker gives its run up, or leaves it to the one that has it: what is
\* stored of the run stays.
LEMMA LeaveStep ==
    ASSUME RunInv, NEW w \in Workers, work' = [work EXCEPT ![w] = Free],
           UNCHANGED <<row, calls, since, cancelled, stopVars>>, abandoned' \subseteq Runs
    PROVE  RunInv'
<1> USE DEF RunInv
<1>1. RunTypeOK'
  BY DEF RunTypeOK
<1>2. work'[w].pc = "free" /\ \A v \in Workers : v # w => work'[v] = work[v]
  BY DEF RunTypeOK, Free
<1>3. JobsFit' /\ Alone'
  BY <1>2 DEF JobsFit, JobFits, Alone, Exec
<1>4. JobsOpen'
  BY <1>2 DEF JobsOpen
<1>5. RowsFit'
  BY DEF RowsFit, RowFits
<1>6. SinceStands'
  BY DEF SinceStands, Standing, Stopped, stopVars
<1>7. QED
  BY <1>1, <1>3, <1>4, <1>5, <1>6

\* The first of several workers that asked for a run gets it.
LEMMA InsertStep ==
    ASSUME RunInv, NEW w \in Workers, Insert(w) PROVE RunInv'
<1> DEFINE r == work[w].run
           j == Job("validate", r, work[w].attempts)
<1> USE DEF RunInv
<1>0. /\ At(w, "insert") /\ r \in Runs /\ work[w].attempts \in Nat
      /\ UNCHANGED <<calls, since, cancelled, abandoned, stopVars>>
  BY DEF Insert, RunTypeOK, At, Free
<1>1. CASE row[r] # NoRow
  <2>1. work' = [work EXCEPT ![w] = Free] /\ UNCHANGED row
    BY <1>1 DEF Insert
  <2>2. abandoned' \subseteq Runs
    BY <1>0 DEF RunTypeOK
  <2>3. QED
    BY <1>0, <2>1, <2>2, LeaveStep
<1>2. CASE row[r] = NoRow
  <2>1. row' = [row EXCEPT ![r] = Running] /\ work' = [work EXCEPT ![w] = j]
    BY <1>2 DEF Insert, Goto
  <2>2. j \in JobRecords /\ j.pc = "validate" /\ j.run = r /\ j.status = "NONE"
    BY <1>0 DEF Job, JobRecords
  <2>3. RunTypeOK'
    BY <1>0, <2>1, <2>2 DEF RunTypeOK, JobRecords, Running
  <2>4. /\ work'[w] = j /\ row'[r] = Running
        /\ \A v \in Workers : v # w => work'[v] = work[v]
        /\ \A q \in Runs : q # r => row'[q] = row[q]
    BY <1>0, <2>1 DEF RunTypeOK
  <2>5. \A v \in Workers : v # w /\ Exec(v) => work[v].run # r /\ work[v].run \in Runs
    BY <1>2 DEF JobsFit, NoRow, Exec, RunTypeOK, Free
  <2>6. calls[r] = 0
    BY <1>0, <1>2 DEF RowsFit, RowFits, NoRow
  <2>7. work[w].attempts = 0
    BY <1>0 DEF JobsOpen, At
  <2>8. JobsFit'
    <3>1. JobFits(j, calls[r], since[r])
      BY <2>2, <2>6, <2>7 DEF JobFits, Job
    <3> SUFFICES ASSUME NEW v \in Workers, Exec(v)'
                 PROVE  /\ row'[work'[v].run].status = "RUNNING"
                        /\ JobFits(work'[v], calls'[work'[v].run], since'[work'[v].run])
      BY DEF JobsFit, JobFits
    <3> HIDE DEF j
    <3>2. CASE v = w
      BY <3>1, <3>2, <2>2, <2>4, <1>0 DEF Running
    <3>3. CASE v # w
      <4>1. work'[v] = work[v] /\ Exec(v) /\ row'[work[v].run] = row[work[v].run]
        BY <3>3, <2>4, <2>5 DEF Exec
      <4>2. QED
        BY <4>1, <1>0 DEF JobsFit
    <3>4. QED
      BY <3>2, <3>3
  <2>9. JobsOpen' /\ Alone'
    <3> HIDE DEF j
    <3>1. QED
      BY <2>2, <2>4, <2>5 DEF JobsOpen, Alone, Exec
  <2>10. RowsFit'
    <3>1. RowFits(row'[r], calls[r], since[r])
      BY <1>0, <2>4, <2>6 DEF RowFits, Running, Ended, RowsFit
    <3>2. QED
      BY <3>1, <2>4, <1>0 DEF RowsFit, RowFits
  <2>11. SinceStands'
    BY <1>0 DEF SinceStands, Standing, Stopped, stopVars
  <2>12. QED
    BY <2>3, <2>8, <2>9, <2>10, <2>11
<1>3. QED
  BY <1>1, <1>2

\* A run that has ended tells its attempts and what stood against it.
LEMMA FinishStep ==
    ASSUME RunInv, NEW w \in Workers, Finish(w) PROVE RunInv'
<1> DEFINE r == work[w].run
           n == ResultOf(work[w])
<1> USE DEF RunInv
<1>0. Exec(w) /\ work[w].pc = "ending"
  BY DEF Finish, At, Exec
<1>1. /\ work[w] \in JobRecords /\ r \in Runs /\ work[w].attempts \in Nat
      /\ JobFits(work[w], calls[r], since[r]) /\ calls[r] <= MaxRetries + 1
  BY <1>0, InHand
<1>2. /\ row' = [row EXCEPT ![r] = n] /\ work' = [work EXCEPT ![w] = Free]
      /\ UNCHANGED <<calls, since, cancelled, abandoned, stopVars>>
  BY DEF Finish
<1>3. n.status \in Ended /\ n.attempts = work[w].attempts /\ n.status = work[w].status
      /\ n \in [status : Ended \cup {"RUNNING"}, attempts : Nat]
  BY <1>0, <1>1 DEF ResultOf, JobFits
<1>4. /\ row'[r] = n /\ work'[w].pc = "free"
      /\ \A v \in Workers : v # w => work'[v] = work[v]
      /\ \A q \in Runs : q # r => row'[q] = row[q]
  BY <1>1, <1>2 DEF RunTypeOK, Free
<1>5. RunTypeOK'
  BY <1>1, <1>2, <1>3 DEF RunTypeOK
<1>6. \A v \in Workers : v # w /\ Exec(v) => work[v].run # r /\ work[v].run \in Runs
  BY <1>0 DEF Alone, Exec, RunTypeOK, Free
<1> HIDE DEF n
<1>7. JobsFit'
  <2> SUFFICES ASSUME NEW v \in Workers, Exec(v)'
               PROVE  /\ row'[work'[v].run].status = "RUNNING"
                      /\ JobFits(work'[v], calls'[work'[v].run], since'[work'[v].run])
    BY DEF JobsFit
  <2>1. v # w /\ work'[v] = work[v] /\ Exec(v)
    BY <1>4 DEF Exec
  <2>2. work[v].run # r /\ work[v].run \in Runs
    BY <1>6, <2>1
  <2>3. row[work[v].run].status = "RUNNING" /\ JobFits(work[v], calls[work[v].run], since[work[v].run])
    BY <2>1 DEF JobsFit
  <2>4. row'[work[v].run] = row[work[v].run] /\ calls' = calls /\ since' = since
    BY <1>2, <1>4, <2>2
  <2>5. QED
    BY <2>1, <2>3, <2>4
<1>8. JobsOpen' /\ Alone'
  BY <1>4 DEF JobsOpen, Alone, Exec
<1>9. RowsFit'
  <2>1. RowFits(n, calls[r], since[r])
    BY <1>0, <1>1, <1>3 DEF RowFits, JobFits, Ended
  <2>2. QED
    BY <2>1, <1>2, <1>4 DEF RowsFit, RowFits
<1>10. SinceStands'
  BY <1>2 DEF SinceStands, Standing, Stopped, stopVars
<1>11. QED
  BY <1>5, <1>7, <1>8, <1>9, <1>10

\* A job ends in any way but a success.
LEMMA EndsBadly ==
    ASSUME RunInv, NEW w \in Workers, NEW x \in Ended \ {"SUCCEEDED"},
           work[w].pc \notin {"free", "insert", "ending"}, End(w, x),
           UNCHANGED <<row, calls, since, cancelled, abandoned, stopVars>>
    PROVE  RunInv'
<1> DEFINE j == [Job("ending", work[w].run, work[w].attempts) EXCEPT !.status = x]
<1>1. Exec(w)
  BY DEF Exec
<1>2. /\ work[w] \in JobRecords /\ work[w].run \in Runs /\ work[w].attempts \in Nat
      /\ JobFits(work[w], calls[work[w].run], since[work[w].run])
      /\ calls[work[w].run] \in Nat
  BY <1>1, InHand
<1>3. work' = [work EXCEPT ![w] = j]
  BY DEF End
<1>4. /\ j \in JobRecords /\ j.pc = "ending" /\ j.run = work[w].run
      /\ j.status = x /\ j.attempts = work[w].attempts
  BY <1>2 DEF Job, JobRecords
<1> HIDE DEF j
<1>5. work[w].pc \in {"validate", "entry", "gate", "calling", "after"}
  BY <1>2 DEF JobRecords, Checks
<1>6. work[w].attempts \in {calls[work[w].run], calls[work[w].run] + 1}
  BY <1>2, <1>5 DEF JobFits
<1>7. JobFits(j, calls[j.run], since[j.run])
  BY <1>4, <1>6 DEF JobFits
<1>8. QED
  BY <1>1, <1>3, <1>4, <1>7, MoveStep

\* A new round of the loop: the attempt is counted, its call is not made yet.
LEMMA RoundStep ==
    ASSUME RunInv, NEW w \in Workers, NextAttempt(w),
           \/ work[w].pc = "entry"
           \/ work[w].pc = "calling" /\ work[w].attempts <= MaxRetries,
           UNCHANGED <<row, calls, since, cancelled, abandoned, stopVars>>
    PROVE  RunInv'
<1> DEFINE j == Job("gate", work[w].run, work[w].attempts + 1)
<1>1. Exec(w)
  BY DEF Exec
<1>2. /\ work[w].run \in Runs /\ work[w].attempts \in Nat
      /\ JobFits(work[w], calls[work[w].run], since[work[w].run])
      /\ calls[work[w].run] \in Nat
  BY <1>1, InHand
<1>3. work' = [work EXCEPT ![w] = j]
  BY DEF NextAttempt
<1>4. /\ j \in JobRecords /\ j.pc = "gate" /\ j.run = work[w].run
      /\ j.status = "NONE" /\ j.attempts = work[w].attempts + 1
  BY <1>2 DEF Job, JobRecords, Checks
<1> HIDE DEF j
<1>5. calls[work[w].run] = work[w].attempts /\ calls[work[w].run] <= MaxRetries
  BY <1>2, RunAssumption DEF JobFits
<1>6. JobFits(j, calls[j.run], since[j.run])
  BY <1>4, <1>5, <1>2 DEF JobFits
<1>7. QED
  BY <1>1, <1>3, <1>4, <1>6, MoveStep

\* The next control is read and does not stand against the run.
LEMMA ReadOnStep ==
    ASSUME RunInv, NEW w \in Workers, work[w].pc \in Checks,
           work' = [work EXCEPT ![w].read = work[w].read + 1],
           work[w].pc = "after" =>
              \/ work[w].read = 0 /\ Cancel \notin since[work[w].run]
              \/ work[w].read > 0 /\ ScanOf[work[w].run][work[w].read] \notin since[work[w].run],
           UNCHANGED <<row, calls, since, cancelled, abandoned, stopVars>>
    PROVE  RunInv'
<1> DEFINE j == [work[w] EXCEPT !.read = work[w].read + 1]
<1>1. Exec(w)
  BY DEF Exec, Checks
<1>2. /\ work[w] \in JobRecords /\ work[w].read \in Nat
      /\ JobFits(work[w], calls[work[w].run], since[work[w].run])
  BY <1>1, InHand
<1>3. work' = [work EXCEPT ![w] = j]
  OBVIOUS
<1>4. work[w].status = "NONE"
  BY DEF RunInv, JobsOpen, Checks
<1>5. /\ j \in JobRecords /\ j.pc = work[w].pc /\ j.run = work[w].run
      /\ j.status = "NONE" /\ j.attempts = work[w].attempts /\ j.read = work[w].read + 1
  BY <1>2, <1>4 DEF JobRecords
<1> HIDE DEF j
<1>6. ASSUME work[w].pc = "after"
      PROVE  Cancel \notin since[j.run] /\ \A i \in 1..(j.read - 1) : ScanOf[j.run][i] \notin since[j.run]
  <2>1. CASE work[w].read = 0
    BY <1>5, <1>6, <2>1
  <2>2. CASE work[w].read > 0
    <3>1. \A i \in 1..(work[w].read - 1) : ScanOf[j.run][i] \notin since[j.run]
      BY <1>2, <1>5, <1>6, <2>2 DEF JobFits
    <3>2. \A i \in 1..(j.read - 1) : i \in 1..(work[w].read - 1) \/ i = work[w].read
      BY <1>2, <1>5
    <3>3. Cancel \notin since[j.run]
      BY <1>2, <1>5, <1>6, <2>2 DEF JobFits
    <3>4. ScanOf[j.run][work[w].read] \notin since[j.run]
      BY <1>5, <1>6, <2>2
    <3>5. QED
      BY <3>1, <3>2, <3>3, <3>4
  <2>3. QED
    BY <1>2, <2>1, <2>2
<1>7. JobFits(j, calls[j.run], since[j.run])
  BY <1>2, <1>5, <1>6 DEF JobFits, Checks
<1>8. QED
  BY <1>1, <1>3, <1>5, <1>7, MoveStep DEF Checks

\* The cancellation event: it is seen, or does not stand against the run.
LEMMA CheckCancelledStep ==
    ASSUME RunInv, NEW w \in Workers, CheckCancelled(w) PROVE RunInv'
<1>0. /\ work[w].pc \in Checks /\ work[w].read = 0
      /\ UNCHANGED <<row, calls, since, cancelled, abandoned, stopVars>>
  BY DEF CheckCancelled
<1>1. CASE work[w].run \in cancelled
  <2>1. End(w, "CANCELLED")
    BY <1>1 DEF CheckCancelled
  <2>2. work[w].pc \notin {"free", "insert", "ending"} /\ "CANCELLED" \in Ended \ {"SUCCEEDED"}
    BY <1>0 DEF Checks, Ended
  <2>3. QED
    BY <1>0, <2>1, <2>2, EndsBadly
<1>2. CASE work[w].run \notin cancelled
  <2>1. work' = [work EXCEPT ![w].read = work[w].read + 1]
    BY <1>0, <1>2 DEF CheckCancelled
  <2>2. Exec(w)
    BY <1>0 DEF Exec, Checks
  <2>3. since[work[w].run] \subseteq Standing(work[w].run) /\ work[w].run \in Runs
    BY <2>2, InHand
  <2>4. \A i \in 1..Len(ScanOf[work[w].run]) : ScanOf[work[w].run][i] # Cancel
    BY <2>3, RunAssumption
  <2>5. Cancel \notin since[work[w].run]
    BY <1>2, <2>3, <2>4 DEF Standing
  <2>6. QED
    BY <1>0, <2>1, <2>5, ReadOnStep
<1>3. QED
  BY <1>1, <1>2

\* One stop target: it is stopped, or does not stand against the run.
LEMMA ReadStopStep ==
    ASSUME RunInv, NEW w \in Workers, ReadStop(w) PROVE RunInv'
<1> DEFINE i == work[w].read
           scan == ScanOf[work[w].run]
<1>0. /\ work[w].pc \in Checks /\ i \in 1..Len(scan)
      /\ UNCHANGED <<row, calls, since, cancelled, abandoned, stopVars>>
  BY DEF ReadStop
<1>1. CASE Stopped(scan[i])
  <2>1. End(w, "STOPPED")
    BY <1>1 DEF ReadStop
  <2>2. work[w].pc \notin {"free", "insert", "ending"} /\ "STOPPED" \in Ended \ {"SUCCEEDED"}
    BY <1>0 DEF Checks, Ended
  <2>3. QED
    BY <1>0, <2>1, <2>2, EndsBadly
<1>2. CASE ~Stopped(scan[i])
  <2>1. work' = [work EXCEPT ![w].read = work[w].read + 1]
    BY <1>2 DEF ReadStop
  <2>2. Exec(w)
    BY <1>0 DEF Exec, Checks
  <2>3. since[work[w].run] \subseteq Standing(work[w].run) /\ work[w].run \in Runs
    BY <2>2, InHand
  <2>4. scan[i] # Cancel
    BY <1>0, <2>3, RunAssumption
  <2>5. scan[i] \notin since[work[w].run] /\ work[w].read > 0
    BY <1>0, <1>2, <2>3, <2>4 DEF Standing
  <2>6. QED
    BY <1>0, <2>1, <2>5, ReadOnStep
<1>3. QED
  BY <1>1, <1>2

\* Validation enters the turn or rejects the request.
LEMMA ValidateStep ==
    ASSUME RunInv, NEW w \in Workers, Validate(w) PROVE RunInv'
<1>0. /\ work[w].pc = "validate"
      /\ UNCHANGED <<row, calls, since, cancelled, abandoned, stopVars>>
  BY DEF Validate, At
<1>1. CASE Goto(w, "entry")
  <2> DEFINE j == Job("entry", work[w].run, work[w].attempts)
  <2>1. Exec(w)
    BY <1>0 DEF Exec
  <2>2. /\ work[w].run \in Runs /\ work[w].attempts \in Nat
        /\ JobFits(work[w], calls[work[w].run], since[work[w].run])
    BY <2>1, InHand
  <2>3. work' = [work EXCEPT ![w] = j]
    BY <1>1 DEF Goto
  <2>4. /\ j \in JobRecords /\ j.pc = "entry" /\ j.run = work[w].run
        /\ j.status = "NONE" /\ j.attempts = work[w].attempts
    BY <2>2 DEF Job, JobRecords, Checks
  <2> HIDE DEF j
  <2>5. JobFits(j, calls[j.run], since[j.run])
    BY <1>0, <2>2, <2>4 DEF JobFits
  <2>6. QED
    BY <1>0, <2>1, <2>3, <2>4, <2>5, MoveStep
<1>2. CASE End(w, "REJECTED")
  <2>1. work[w].pc \notin {"free", "insert", "ending"} /\ "REJECTED" \in Ended \ {"SUCCEEDED"}
    BY <1>0 DEF Ended
  <2>2. QED
    BY <1>0, <1>2, <2>1, EndsBadly
<1>3. QED
  BY <1>1, <1>2 DEF Validate

\* The provider is called once for the attempt that was counted.
LEMMA CallStep ==
    ASSUME RunInv, NEW w \in Workers, CallProvider(w) PROVE RunInv'
<1> DEFINE r == work[w].run
           j == Job("calling", r, work[w].attempts)
           n == calls[r] + 1
           s == since[r]
<1>0. /\ work[w].pc = "gate" /\ Exec(w)
      /\ UNCHANGED <<row, since, cancelled, abandoned, stopVars>>
  BY DEF CallProvider, Cleared, At, Exec
<1>1. /\ r \in Runs /\ work[w].attempts \in Nat /\ calls[r] \in Nat
      /\ JobFits(work[w], calls[r], s)
      /\ s \in SUBSET (Targets \cup {Cancel}) /\ s \subseteq Standing(r)
  BY <1>0, InHand
<1>2. work' = [work EXCEPT ![w] = j] /\ calls' = [calls EXCEPT ![r] = n]
  BY DEF CallProvider, Goto
<1>3. since' = [since EXCEPT ![r] = s]
  BY <1>0, <1>1 DEF RunInv, RunTypeOK
<1>4. /\ j \in JobRecords /\ j.pc = "calling" /\ j.run = r
      /\ j.status = "NONE" /\ j.attempts = work[w].attempts
  BY <1>1 DEF Job, JobRecords
<1>5. n \in Nat /\ n <= MaxRetries + 1 /\ work[w].attempts = n
  BY <1>0, <1>1, RunAssumption DEF JobFits
<1> HIDE DEF j, n
<1>6. JobFits(j, n, s)
  BY <1>4, <1>5 DEF JobFits
<1>7. QED
  BY <1>0, <1>1, <1>2, <1>3, <1>4, <1>5, <1>6, TurnStep

\* The provider answers; what stands against the run then is noted.
LEMMA AnswerStep ==
    ASSUME RunInv, NEW w \in Workers, Answer(w) PROVE RunInv'
<1> DEFINE r == work[w].run
           j == Job("after", r, work[w].attempts)
<1>0. /\ work[w].pc = "calling" /\ Exec(w)
      /\ UNCHANGED <<row, calls, cancelled, abandoned, stopVars>>
  BY DEF Answer, At, Exec
<1>1. /\ r \in Runs /\ work[w].attempts \in Nat /\ calls[r] \in Nat /\ calls[r] <= MaxRetries + 1
      /\ JobFits(work[w], calls[r], since[r])
  BY <1>0, InHand
<1>2. CASE Goto(w, "after") /\ since' = [since EXCEPT ![r] = Standing(r)]
  <2>1. work' = [work EXCEPT ![w] = j]
    BY <1>2 DEF Goto
  <2>2. calls' = [calls EXCEPT ![r] = calls[r]]
    BY <1>0, <1>1 DEF RunInv, RunTypeOK
  <2>3. Standing(r) \in SUBSET (Targets \cup {Cancel})
    BY <1>1, RunAssumption DEF Standing
  <2>4. /\ j \in JobRecords /\ j.pc = "after" /\ j.run = r /\ j.read = 0
        /\ j.status = "NONE" /\ j.attempts = work[w].attempts
    BY <1>1 DEF Job, JobRecords, Checks
  <2> HIDE DEF j
  <2>5. JobFits(j, calls[r], Standing(r))
    BY <1>0, <1>1, <2>4 DEF JobFits
  <2>6. QED
    BY <1>0, <1>1, <1>2, <2>1, <2>2, <2>3, <2>4, <2>5, TurnStep
<1>3. CASE End(w, "CANCELLED") /\ UNCHANGED since
  <2>1. work[w].pc \notin {"free", "insert", "ending"} /\ "CANCELLED" \in Ended \ {"SUCCEEDED"}
    BY <1>0 DEF Ended
  <2>2. QED
    BY <1>0, <1>3, <2>1, EndsBadly
<1>4. QED
  BY <1>2, <1>3 DEF Answer

\* A provider that does not answer is called again while retries are left.
LEMMA TimeOutStep ==
    ASSUME RunInv, NEW w \in Workers, TimeOut(w) PROVE RunInv'
<1>0. /\ work[w].pc = "calling" /\ work[w].pc \notin {"free", "insert", "ending"}
      /\ UNCHANGED <<row, calls, since, cancelled, abandoned, stopVars>>
      /\ {"TIMED_OUT", "FAILED"} \subseteq Ended \ {"SUCCEEDED"}
  BY DEF TimeOut, At, Ended
<1>1. CASE MayRetry(w) /\ NextAttempt(w)
  BY <1>0, <1>1, RoundStep DEF MayRetry
<1>2. CASE End(w, "TIMED_OUT") \/ End(w, "FAILED")
  BY <1>0, <1>2, EndsBadly
<1>3. QED
  BY <1>1, <1>2 DEF TimeOut

\* An answer whose controls were all read and lifted may be a success.
LEMMA OutputStep ==
    ASSUME RunInv, NEW w \in Workers, ValidateOutput(w) PROVE RunInv'
<1> DEFINE r == work[w].run
           j == [Job("ending", r, work[w].attempts) EXCEPT !.status = "SUCCEEDED"]
<1>0. /\ work[w].pc = "after" /\ Exec(w) /\ work[w].read > Len(ScanOf[r])
      /\ UNCHANGED <<row, calls, since, cancelled, abandoned, stopVars>>
      /\ work[w].pc \notin {"free", "insert", "ending"}
      /\ {"REJECTED", "FAILED"} \subseteq Ended \ {"SUCCEEDED"}
  BY DEF ValidateOutput, Cleared, At, Exec, Ended
<1>1. CASE End(w, "SUCCEEDED")
  <2>1. /\ r \in Runs /\ work[w].attempts \in Nat /\ work[w].read \in Nat
        /\ JobFits(work[w], calls[r], since[r]) /\ since[r] \subseteq Standing(r)
    BY <1>0, InHand
  <2>2. work' = [work EXCEPT ![w] = j]
    BY <1>1 DEF End
  <2>3. /\ j \in JobRecords /\ j.pc = "ending" /\ j.run = r
        /\ j.status = "SUCCEEDED" /\ j.attempts = work[w].attempts
    BY <2>1 DEF Job, JobRecords, Ended
  <2> HIDE DEF j
  <2>4. Len(ScanOf[r]) \in Nat
    BY <2>1, RunAssumption
  <2>5. \A i \in 1..Len(ScanOf[r]) : i \in 1..(work[w].read - 1)
    BY <1>0, <2>1, <2>4
  <2>6. work[w].read >= 1
    BY <1>0, <2>1, <2>4
  <2>7. Cancel \notin since[r] /\ \A i \in 1..(work[w].read - 1) : ScanOf[r][i] \notin since[r]
    BY <1>0, <2>1, <2>6 DEF JobFits
  <2>8. since[r] = {}
    BY <2>1, <2>5, <2>7 DEF Standing
  <2>9. JobFits(j, calls[j.run], since[j.run])
    BY <1>0, <2>1, <2>3, <2>8 DEF JobFits, Ended
  <2>10. QED
    BY <1>0, <2>2, <2>3, <2>9, MoveStep
<1>2. CASE End(w, "REJECTED") \/ End(w, "FAILED")
  BY <1>0, <1>2, EndsBadly
<1>3. QED
  BY <1>1, <1>2 DEF ValidateOutput

\* Whatever raises ends the run.
LEMMA RaiseStep ==
    ASSUME RunInv, NEW w \in Workers, Raise(w) PROVE RunInv'
<1>1. /\ work[w].pc \notin {"free", "insert", "ending"}
      /\ {"REJECTED", "FAILED"} \subseteq Ended \ {"SUCCEEDED"}
      /\ UNCHANGED <<row, calls, since, cancelled, abandoned, stopVars>>
  BY DEF Raise, Checks, Ended
<1>2. QED
  BY <1>1, EndsBadly DEF Raise

\* Another worker asks for a run that has no row yet.
LEMMA LookupStep ==
    ASSUME RunInv, NEW w \in Workers, NEW r \in Runs, Lookup(w, r) PROVE RunInv'
<1> DEFINE j == Job("insert", r, 0)
<1> USE DEF RunInv
<1>0. /\ work' = [work EXCEPT ![w] = j]
      /\ UNCHANGED <<row, calls, cancelled, since, abandoned, stopVars>>
  BY DEF Lookup
<1>1. j \in JobRecords /\ j.pc = "insert" /\ j.status = "NONE" /\ j.attempts = 0
  BY DEF Job, JobRecords
<1> HIDE DEF j
<1>2. work'[w] = j /\ \A v \in Workers : v # w => work'[v] = work[v]
  BY <1>0 DEF RunTypeOK
<1>3. RunTypeOK'
  BY <1>0, <1>1 DEF RunTypeOK, JobRecords
<1>4. JobsFit' /\ Alone'
  BY <1>0, <1>1, <1>2 DEF JobsFit, JobFits, Alone, Exec
<1>5. JobsOpen'
  BY <1>1, <1>2 DEF JobsOpen
<1>6. RowsFit'
  BY <1>0 DEF RowsFit, RowFits
<1>7. SinceStands'
  BY <1>0 DEF SinceStands, Standing, Stopped, stopVars
<1>8. QED
  BY <1>3, <1>4, <1>5, <1>6, <1>7

\* A process dies and leaves the row of its run.
LEMMA CrashStep ==
    ASSUME RunInv, NEW w \in Workers, Crash(w) PROVE RunInv'
<1>1. work[w].pc # "free" => work[w].run \in Runs
  BY DEF RunInv, RunTypeOK, Free
<1>2. abandoned' \subseteq Runs
  BY <1>1 DEF Crash, RunInv, RunTypeOK, At
<1>3. QED
  BY <1>2, LeaveStep DEF Crash

\* More stands against a run when it is cancelled, nothing of what did is lifted.
LEMMA CancelStep ==
    ASSUME RunInv, NEW r \in Runs, SetCancel(r) PROVE RunInv'
<1> USE DEF RunInv
<1>1. /\ cancelled' = cancelled \cup {r}
      /\ UNCHANGED <<row, work, calls, since, abandoned, stopVars>>
  BY DEF SetCancel
<1>2. RunTypeOK'
  BY <1>1 DEF RunTypeOK
<1>3. JobsFit' /\ JobsOpen' /\ Alone' /\ RowsFit'
  BY <1>1 DEF JobsFit, JobFits, JobsOpen, Alone, Exec, RowsFit, RowFits
<1>4. \A q \in Runs : Standing(q) \subseteq Standing(q)'
  BY <1>1 DEF Standing, Stopped, stopVars
<1>5. SinceStands'
  BY <1>1, <1>4 DEF SinceStands
<1>6. QED
  BY <1>2, <1>3, <1>5

\* A stop that is lifted no longer stands; a new one did not stand before.
LEMMA ChangeStopStep ==
    ASSUME RunInv, ChangeStop PROVE RunInv'
<1> USE DEF RunInv
<1>1. /\ since' = [r \in Runs |-> {t \in since[r] : t = Cancel \/ (t \in Targets /\ stops'[t].stopped)}]
      /\ UNCHANGED <<row, work, calls, cancelled, abandoned>>
  BY DEF ChangeStop
<1>2. \A r \in Runs : since'[r] \subseteq since[r]
  BY <1>1
<1>3. RunTypeOK'
  BY <1>1 DEF RunTypeOK
<1>4. \A r \in Runs : RowFits(row[r], calls[r], since'[r])
  <2> SUFFICES ASSUME NEW r \in Runs PROVE RowFits(row[r], calls[r], since'[r])
    OBVIOUS
  <2>1. RowFits(row[r], calls[r], since[r]) /\ since'[r] \subseteq since[r]
    BY <1>2 DEF RowsFit
  <2>2. QED
    BY <2>1 DEF RowFits
<1>5. JobsFit'
  <2> SUFFICES ASSUME NEW w \in Workers, Exec(w)
               PROVE  /\ row[work[w].run].status = "RUNNING"
                      /\ JobFits(work[w], calls[work[w].run], since'[work[w].run])
    BY <1>1 DEF JobsFit, JobFits, Exec
  <2> DEFINE r == work[w].run
  <2>1. /\ r \in Runs /\ row[r].status = "RUNNING" /\ JobFits(work[w], calls[r], since[r])
    BY InHand
  <2>2. since'[r] \subseteq since[r]
    BY <1>2, <2>1
  <2>3. JobFits(work[w], calls[r], since'[r])
    BY <2>1, <2>2 DEF JobFits
  <2>4. QED
    BY <2>1, <2>3
<1>6. SinceStands'
  <2> SUFFICES ASSUME NEW r \in Runs, NEW t \in since'[r] PROVE t \in Standing(r)'
    BY DEF SinceStands
  <2>1. t \in since[r] /\ (t = Cancel \/ (t \in Targets /\ stops'[t].stopped))
    BY <1>1
  <2>2. t \in Standing(r)
    BY <2>1 DEF SinceStands
  <2>3. CASE t = Cancel
    <3>1. \A i \in 1..Len(ScanOf[r]) : ScanOf[r][i] # Cancel
      BY RunAssumption
    <3>2. r \in cancelled
      BY <2>2, <2>3, <3>1 DEF Standing
    <3>3. QED
      BY <1>1, <2>3, <3>2 DEF Standing
  <2>4. CASE t # Cancel
    <3>1. stops'[t].stopped /\ \E i \in 1..Len(ScanOf[r]) : t = ScanOf[r][i]
      BY <2>1, <2>2, <2>4 DEF Standing
    <3>2. QED
      BY <3>1 DEF Standing, Stopped
  <2>5. QED
    BY <2>3, <2>4
<1>7. RowsFit' /\ JobsOpen' /\ Alone'
  BY <1>1, <1>4 DEF RowsFit, RowFits, JobsOpen, Alone, Exec
<1>8. QED
  BY <1>3, <1>5, <1>6, <1>7

\* Every step of every worker, of the Owner and of the callers.
LEMMA RunInvStep == RunInv /\ [RunNext]_runVars => RunInv'
<1> SUFFICES ASSUME RunInv, [RunNext]_runVars PROVE RunInv'
  OBVIOUS
<1>1. CASE UNCHANGED runVars
  <2>1. UNCHANGED <<row, work, calls, cancelled, since, abandoned, stops>>
    BY <1>1 DEF runVars, runState, stopVars
  <2>2. RunTypeOK'
    BY <2>1 DEF RunInv, RunTypeOK
  <2>3. JobsFit' /\ JobsOpen' /\ Alone'
    BY <2>1 DEF RunInv, JobsFit, JobFits, JobsOpen, Alone, Exec
  <2>4. RowsFit'
    BY <2>1 DEF RunInv, RowsFit, RowFits
  <2>5. SinceStands'
    BY <2>1 DEF RunInv, SinceStands, Standing, Stopped
  <2>6. QED
    BY <2>2, <2>3, <2>4, <2>5 DEF RunInv
<1>2. ASSUME NEW w \in Workers, Step(w) PROVE RunInv'
  <2>1. CASE Insert(w) \/ Finish(w) \/ Validate(w)
    BY <2>1, InsertStep, FinishStep, ValidateStep
  <2>2. CASE CheckCancelled(w) \/ ReadStop(w)
    BY <2>2, CheckCancelledStep, ReadStopStep
  <2>3. CASE EnterLoop(w)
    BY <2>3, RoundStep DEF EnterLoop, Cleared, At
  <2>4. CASE CallProvider(w) \/ Answer(w) \/ TimeOut(w)
    BY <2>4, CallStep, AnswerStep, TimeOutStep
  <2>5. CASE ValidateOutput(w) \/ Raise(w)
    BY <2>5, OutputStep, RaiseStep
  <2>6. QED
    BY <1>2, <2>1, <2>2, <2>3, <2>4, <2>5 DEF Step
<1>3. ASSUME NEW w \in Workers, Crash(w) \/ \E r \in Runs : Lookup(w, r) PROVE RunInv'
  BY <1>3, CrashStep, LookupStep
<1>4. CASE \E r \in Runs : SetCancel(r)
  BY <1>4, CancelStep
<1>5. CASE ChangeStop
  BY <1>5, ChangeStopStep
<1>6. QED
  BY <1>1, <1>2, <1>3, <1>4, <1>5 DEF RunNext

\* Stop controls change only by the Owner's operations.
LEMMA StopInvStep == StopInv /\ [RunNext]_runVars => StopInv'
<1> SUFFICES ASSUME StopInv, [RunNext]_runVars PROVE StopInv'
  OBVIOUS
<1>1. CASE UNCHANGED stopVars
  BY <1>1 DEF StopInv, StopTypeOK, OpsFit, HistoryTold, Stopped, stopVars
<1>2. CASE ChangeStop
  BY <1>2, ReadStep, ApplyStep DEF ChangeStop
<1>3. UNCHANGED stopVars \/ ChangeStop
  <2>1. ASSUME NEW w \in Workers, Step(w) PROVE UNCHANGED stopVars
    BY <2>1 DEF Step, Insert, Finish, Validate, CheckCancelled, ReadStop, EnterLoop,
                CallProvider, Answer, TimeOut, ValidateOutput, Raise
  <2>2. QED
    BY <2>1 DEF RunNext, Crash, Lookup, SetCancel, runVars
<1>4. QED
  BY <1>1, <1>2, <1>3

-----------------------------------------------------------------------------
(* What the runs are for *)

\* Nothing but these two invariants is needed of any state.
LEMMA RunsKeepInv == RunSpec => [](RunInv /\ StopInv)
<1>1. RunInit => RunInv /\ StopInv
  BY RunInvInit, StopInvInit DEF RunInit
<1>2. RunInv /\ StopInv /\ [RunNext]_runVars => RunInv' /\ StopInv'
  BY RunInvStep, StopInvStep
<1>3. QED
  BY <1>1, <1>2, PTL DEF RunSpec

\* The history of a stop control tells its state, whatever operations of the
\* Owner race for a version (PostgresStopBackend.apply).
THEOREM StopHistoryIsTold == RunSpec => []HistoryTold
<1>1. StopInv => HistoryTold
  BY DEF StopInv
<1>2. QED
  BY <1>1, RunsKeepInv, PTL

\* The types of the run store and its workers.
THEOREM RunTypes == RunSpec => []RunTypeOK
<1>1. RunInv => RunTypeOK
  BY DEF RunInv
<1>2. QED
  BY <1>1, RunsKeepInv, PTL

\* However many workers are asked for one run, and crash, the provider is
\* called at most once more than the request has retries.
THEOREM RunCallsAreBounded == RunSpec => []CallsBounded
<1>1. RunInv => CallsBounded
  BY DEF RunInv, RowsFit, RowFits, CallsBounded
<1>2. QED
  BY <1>1, RunsKeepInv, PTL

\* A stored run tells the calls it made (finish of the run store).
THEOREM RunAttemptsAreTold == RunSpec => []AttemptsTold
<1>1. RunInv => AttemptsTold
  BY DEF RunInv, RowsFit, RowFits, AttemptsTold
<1>2. QED
  BY <1>1, RunsKeepInv, PTL

\* No success is stored over a stop or a cancellation that stood when the
\* provider answered and still stands (_check_controls after the answer).
THEOREM RunHonoursStops == RunSpec => []StopHonoured
<1>1. RunInv => StopHonoured
  <2> SUFFICES ASSUME RunInv, NEW r \in Runs, Succeeding(r) PROVE since[r] = {}
    BY DEF StopHonoured
  <2>1. CASE row[r].status = "SUCCEEDED"
    BY <2>1 DEF RunInv, RowsFit, RowFits
  <2>2. CASE \E w \in Workers : ~At(w, "free") /\ work[w].run = r /\ work[w].status = "SUCCEEDED"
    <3>1. PICK w \in Workers : ~At(w, "free") /\ work[w].run = r /\ work[w].status = "SUCCEEDED"
      BY <2>2
    <3>2. work[w].pc = "ending"
      BY <3>1 DEF RunInv, JobsOpen, At
    <3>3. QED
      BY <3>1, <3>2 DEF RunInv, JobsFit, JobFits, Exec
  <2>3. QED
    BY <2>1, <2>2 DEF Succeeding
<1>2. QED
  BY <1>1, RunsKeepInv, PTL
=============================================================================
