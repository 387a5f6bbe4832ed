------------------------------ MODULE AgentRun ------------------------------
(***************************************************************************)
(* One provider turn of an Agent: PolicyBoundAgentRuntime.run over the       *)
(* persistent run store (services/rcao/app/agent_runtime.py), under the      *)
(* Owner's stop controls.  Workers of several processes may be asked for one *)
(* run; the controls are read one target at a time, and stops, cancellations *)
(* and crashes happen between any two steps.                                *)
(***************************************************************************)
EXTENDS StopControl, Sequences

CONSTANTS
    Workers,     \* tasks that execute runs
    Runs,        \* run requests: a run_id and its idempotency key
    ScanOf,      \* ScanOf[r]: the stop targets its checker reads, in order
    MaxRetries   \* max_retries of the requests

\* The cancellation event, among what may stand against a run.
Cancel == "CANCEL"

ASSUME RunAssumption ==
    /\ ScanOf \in [Runs -> Seq(Targets)]
    /\ MaxRetries \in Nat
    /\ Cancel \notin Targets

VARIABLES
    row,        \* mvp_agent_runs: status and attempts
    work,       \* per worker: the run it executes and where it is
    calls,      \* per run: calls of the provider
    cancelled,  \* runs whose cancellation event is set
    since,      \* per run: what has stood against it since the provider answered
    abandoned   \* runs whose worker crashed, or could not store the end

runState == <<row, work, calls, cancelled, since, abandoned>>
runVars == <<runState, stopVars>>

NoRow == [status |-> "NONE", attempts |-> 0]
Running == [status |-> "RUNNING", attempts |-> 0]
ResultOf(job) == [status |-> job.status, attempts |-> job.attempts]
Ended == {"SUCCEEDED", "CANCELLED", "STOPPED", "TIMED_OUT", "REJECTED", "FAILED"}
Free == [pc |-> "free"]
Checks == {"entry", "gate", "after"}

RunInit ==
    /\ StopInit
    /\ row = [r \in Runs |-> NoRow]
    /\ work = [w \in Workers |-> Free]
    /\ calls = [r \in Runs |-> 0]
    /\ cancelled = {} /\ abandoned = {}
    /\ since = [r \in Runs |-> {}]

Job(pc, r, n) == [pc |-> pc, run |-> r, attempts |-> n, read |-> 0, status |-> "NONE"]
At(w, pc) == work[w].pc = pc
Goto(w, pc) == work' = [work EXCEPT ![w] = Job(pc, @.run, @.attempts)]
End(w, status) == work' = [work EXCEPT ![w] = [Job("ending", @.run, @.attempts) EXCEPT !.status = status]]

-----------------------------------------------------------------------------
(* The row *)

\* start: SELECT ... FOR UPDATE locks nothing while there is no row; a row of
\* any status is a conflict and changes nothing.
Lookup(w, r) ==
    /\ At(w, "free") /\ row[r] = NoRow
    /\ work' = [work EXCEPT ![w] = Job("insert", r, 0)]
    /\ UNCHANGED <<row, calls, cancelled, since, abandoned, stopVars>>

\* Mutant: the loser of the race for the row goes on.
InsertOrJoin(w) ==
    LET r == work[w].run IN
    /\ At(w, "insert")
    /\ row' = [row EXCEPT ![r] = Running]
    /\ Goto(w, "validate")
    /\ UNCHANGED <<calls, cancelled, since, abandoned, stopVars>>

\* The unique key lets one of the workers in; the others raise.
Insert(w) ==
    LET r == work[w].run IN
    /\ At(w, "insert")
    /\ \/ /\ row[r] = NoRow
          /\ row' = [row EXCEPT ![r] = Running]
          /\ Goto(w, "validate")
       \/ /\ row[r] # NoRow /\ UNCHANGED row
          /\ work' = [work EXCEPT ![w] = Free]
    /\ UNCHANGED <<calls, cancelled, since, abandoned, stopVars>>

\* Mutant: the end of a run leaves its attempts as they were.
FinishStatusOnly(w) ==
    LET job == work[w] IN
    /\ At(w, "ending") /\ row[job.run].status = "RUNNING"
    /\ row' = [row EXCEPT ![job.run].status = job.status]
    /\ work' = [work EXCEPT ![w] = Free]
    /\ UNCHANGED <<calls, cancelled, since, abandoned, stopVars>>

\* finish: UPDATE ... WHERE status = 'RUNNING'
Finish(w) ==
    LET job == work[w] IN
    /\ At(w, "ending") /\ row[job.run].status = "RUNNING"
    /\ row' = [row EXCEPT ![job.run] = ResultOf(job)]
    /\ work' = [work EXCEPT ![w] = Free]
    /\ UNCHANGED <<calls, cancelled, since, abandoned, stopVars>>

-----------------------------------------------------------------------------
(* The turn *)

\* _validate_request, then the first check of the controls.
Validate(w) ==
    /\ At(w, "validate")
    /\ Goto(w, "entry") \/ End(w, "REJECTED")
    /\ UNCHANGED <<row, calls, cancelled, since, abandoned, stopVars>>

\* Mutant: the cancellation leaves run as an exception nobody catches.
CheckCancelledEscapes(w) ==
    /\ work[w].pc \in Checks /\ work[w].read = 0
    /\ work' = [work EXCEPT ![w] = IF @.run \in cancelled THEN Free ELSE [@ EXCEPT !.read = 1]]
    /\ UNCHANGED <<row, calls, cancelled, since, abandoned, stopVars>>

\* _check_controls looks at the cancellation event, then at the stop targets.
CheckCancelled(w) ==
    /\ work[w].pc \in Checks /\ work[w].read = 0
    /\ IF work[w].run \in cancelled
       THEN End(w, "CANCELLED")
       ELSE work' = [work EXCEPT ![w].read = 1]
    /\ UNCHANGED <<row, calls, cancelled, since, abandoned, stopVars>>

ReadStop(w) ==
    LET i == work[w].read
        scan == ScanOf[work[w].run]
    IN
    /\ work[w].pc \in Checks /\ i \in 1..Len(scan)
    /\ IF Stopped(scan[i])
       THEN End(w, "STOPPED")
       ELSE work' = [work EXCEPT ![w].read = i + 1]
    /\ UNCHANGED <<row, calls, cancelled, since, abandoned, stopVars>>

Cleared(w, pc) == At(w, pc) /\ work[w].read > Len(ScanOf[work[w].run])

\* A new round of the loop counts as an attempt before its controls are read.
NextAttempt(w) == work' = [work EXCEPT ![w] = Job("gate", @.run, @.attempts + 1)]

EnterLoop(w) ==
    /\ Cleared(w, "entry") /\ NextAttempt(w)
    /\ UNCHANGED <<row, calls, cancelled, since, abandoned, stopVars>>

CallProvider(w) ==
    /\ Cleared(w, "gate") /\ Goto(w, "calling")
    /\ calls' = [calls EXCEPT ![work[w].run] = @ + 1]
    /\ UNCHANGED <<row, cancelled, since, abandoned, stopVars>>

\* What stands against a run now.
Standing(r) ==
    {t \in {ScanOf[r][i] : i \in 1..Len(ScanOf[r])} : Stopped(t)} \cup
    (IF r \in cancelled THEN {Cancel} ELSE {})

\* Mutant: the controls are not read again after the answer.
AnswerTrusted(w) ==
    LET r == work[w].run IN
    /\ At(w, "calling") /\ End(w, "SUCCEEDED")
    /\ since' = [since EXCEPT ![r] = Standing(r)]
    /\ UNCHANGED <<row, calls, cancelled, abandoned, stopVars>>

\* _invoke returns the provider's answer; a cancellation that is seen with it
\* wins.
Answer(w) ==
    LET r == work[w].run IN
    /\ At(w, "calling")
    /\ \/ Goto(w, "after") /\ since' = [since EXCEPT ![r] = Standing(r)]
       \/ r \in cancelled /\ End(w, "CANCELLED") /\ UNCHANGED since
    /\ UNCHANGED <<row, calls, cancelled, abandoned, stopVars>>

MayRetry(w) == work[w].attempts <= MaxRetries

\* A timeout or a transient failure of the provider.
TimeOut(w) ==
    /\ At(w, "calling")
    /\ \/ MayRetry(w) /\ NextAttempt(w)
       \/ ~MayRetry(w) /\ (End(w, "TIMED_OUT") \/ End(w, "FAILED"))
    /\ UNCHANGED <<row, calls, cancelled, since, abandoned, stopVars>>

ValidateOutput(w) ==
    /\ Cleared(w, "after")
    /\ End(w, "SUCCEEDED") \/ End(w, "REJECTED") \/ End(w, "FAILED")
    /\ UNCHANGED <<row, calls, cancelled, since, abandoned, stopVars>>

\* Everything inside the try may raise: no adapter or the wrong one, a network
\* scope that is missing, a provider error, a stop checker that cannot read.
\* A checker that raises TimeoutError itself would be retried; the checkers the
\* StopController hands out read a state in memory or a row, and raise none.
Raise(w) ==
    /\ work[w].pc \in Checks \cup {"calling"}
    /\ End(w, "FAILED") \/ End(w, "REJECTED")
    /\ UNCHANGED <<row, calls, cancelled, since, abandoned, stopVars>>

-----------------------------------------------------------------------------
(* Around it *)

\* The process dies, the caller's task is cancelled, or finish cannot write:
\* the row stays as it is, and no other worker may take the run.
Crash(w) ==
    /\ ~At(w, "free")
    /\ work' = [work EXCEPT ![w] = Free]
    /\ abandoned' = IF At(w, "insert") THEN abandoned ELSE abandoned \cup {work[w].run}
    /\ UNCHANGED <<row, calls, cancelled, since, stopVars>>

SetCancel(r) ==
    /\ r \notin cancelled /\ cancelled' = cancelled \cup {r}
    /\ UNCHANGED <<row, work, calls, since, abandoned, stopVars>>

\* A stop state changes; what is lifted no longer stands against a run.
ChangeStop ==
    /\ \/ \E o \in Operators, t \in Targets, a \in {"STOP", "RESUME"} : Read(o, t, a)
       \/ \E o \in Operators : Apply(o)
    /\ since' = [r \in Runs |-> {t \in since[r] : t = Cancel \/ (t \in Targets /\ stops'[t].stopped)}]
    /\ UNCHANGED <<row, work, calls, cancelled, abandoned>>

Step(w) ==
    \/ Insert(w) \/ Finish(w) \/ Validate(w) \/ CheckCancelled(w) \/ ReadStop(w)
    \/ EnterLoop(w) \/ CallProvider(w) \/ Answer(w) \/ TimeOut(w) \/ ValidateOutput(w) \/ Raise(w)

RunNext ==
    \/ \E w \in Workers : Step(w) \/ Crash(w) \/ \E r \in Runs : Lookup(w, r)
    \/ \E r \in Runs : SetCancel(r)
    \/ ChangeStop

\* A worker goes on: its call of the provider ends by the timeout at the latest.
RunSpec == RunInit /\ [][RunNext]_runVars /\ \A w \in Workers : WF_runVars(Step(w))

-----------------------------------------------------------------------------
(* Properties *)

RunTypeOK ==
    /\ row \in [Runs -> {NoRow} \cup [status : Ended \cup {"RUNNING"}, attempts : Nat]]
    /\ work \in [Workers -> {Free} \cup
          [pc : Checks \cup {"insert", "validate", "calling", "ending"}, run : Runs,
           attempts : Nat, read : Nat, status : Ended \cup {"NONE"}]]
    /\ calls \in [Runs -> Nat]
    /\ cancelled \subseteq Runs /\ abandoned \subseteq Runs
    /\ since \in [Runs -> SUBSET (Targets \cup {Cancel})]

\* However many workers are asked for a run, and crash, its provider is called
\* no more often than its retries allow.
CallsBounded == \A r \in Runs : calls[r] <= MaxRetries + 1

\* A run succeeds only if every stop and cancellation that stood when its
\* provider answered has been lifted since: nobody's stop is overlooked because
\* the controls are read one by one.
Succeeding(r) ==
    \/ row[r].status = "SUCCEEDED"
    \/ \E w \in Workers : ~At(w, "free") /\ work[w].run = r /\ work[w].status = "SUCCEEDED"
StopHonoured == \A r \in Runs : Succeeding(r) => since[r] = {}

\* A stored run tells its attempts: every call of the provider was one, and at
\* most the last one ended before its call; a success counts its calls.
AttemptsTold == \A r \in Runs : row[r].status \in Ended =>
    /\ row[r].attempts \in {calls[r], calls[r] + 1}
    /\ row[r].status = "SUCCEEDED" => row[r].attempts = calls[r]

\* A run that has started ends, unless its worker was lost.
RunEnds == \A r \in Runs :
    row[r].status = "RUNNING" ~> row[r].status \in Ended \/ r \in abandoned
=============================================================================
