---------------------------- MODULE StopControl -----------------------------
(***************************************************************************)
(* The Owner's stop controls: StopController over the persistent backend     *)
(* (services/rcao/app/observability.py).  An operation reads the state of    *)
(* its target and then applies the next one if the version is still the one  *)
(* it read; two operations interleave between the two.                       *)
(***************************************************************************)
EXTENDS Integers

CONSTANTS
    Targets,    \* what may be stopped: GLOBAL, a run, an Agent, a provider
    Operators,  \* Owner requests under way at once
    MaxVersion  \* bound: versions of a stop state

VARIABLES
    stops,    \* mvp_stop_controls: version and stopped, version 0 when there is no row
    history,  \* mvp_stop_control_history: target, version, action
    ops       \* per operator: the operation between its read and its write

stopVars == <<stops, history, ops>>

NoOp == [action |-> "NONE"]
Never == [version |-> 0, stopped |-> FALSE]

StopInit ==
    /\ stops = [t \in Targets |-> Never]
    /\ history = {}
    /\ ops = [o \in Operators |-> NoOp]

Stopped(t) == stops[t].stopped

\* stop() refuses a target that is stopped, resume() one that is not.
Read(o, t, action) ==
    /\ ops[o] = NoOp /\ stops[t].version < MaxVersion
    /\ Stopped(t) = (action = "RESUME")
    /\ ops' = [ops EXCEPT ![o] = [action |-> action, target |-> t, version |-> stops[t].version]]
    /\ UNCHANGED <<stops, history>>

\* Mutant: the version read is not compared.
ApplyBlindly(o) ==
    LET op == ops[o] IN
    /\ op # NoOp
    /\ ops' = [ops EXCEPT ![o] = NoOp]
    /\ stops' = [stops EXCEPT ![op.target] =
                    [version |-> op.version + 1, stopped |-> op.action = "STOP"]]
    /\ history' = history \cup
          {[target |-> op.target, version |-> op.version + 1, action |-> op.action]}

\* apply: INSERT ... ON CONFLICT DO NOTHING, UPDATE ... WHERE version; another
\* version is a conflict, and nothing is written.
Apply(o) ==
    LET op == ops[o] IN
    /\ op # NoOp
    /\ ops' = [ops EXCEPT ![o] = NoOp]
    /\ IF stops[op.target].version = op.version
       THEN /\ stops' = [stops EXCEPT ![op.target] =
                            [version |-> op.version + 1, stopped |-> op.action = "STOP"]]
            /\ history' = history \cup
                  {[target |-> op.target, version |-> op.version + 1, action |-> op.action]}
       ELSE UNCHANGED <<stops, history>>

\* The history has one row per version of a state, STOP and RESUME in turn, and
\* the state is the one its last row tells, whatever operations race.
HistoryTold == \A t \in Targets :
    /\ \A v \in 1..stops[t].version : \E h \in history : h.target = t /\ h.version = v
    /\ \A h \in history : h.target = t =>
          /\ h.version <= stops[t].version
          /\ h.action = IF h.version % 2 = 1 THEN "STOP" ELSE "RESUME"
    /\ Stopped(t) = (stops[t].version % 2 = 1)
=============================================================================
