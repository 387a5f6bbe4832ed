--------------------------- MODULE MC_OwnerStore ----------------------------
(* Two handlers on one Task, seeded or created, and one proposal.            *)
EXTENDS OwnerStore, FiniteSets, TLC

CONSTANTS theo, astra, iris, t1, x1, h1, h2

MCTypeOf == theo :> "EXECUTIVE" @@ astra :> "AUDIT" @@ iris :> "AUDIT"
MCRoleOf == theo :> "ENGINEERING" @@ astra :> "REVIEWER" @@ iris :> "AUDITOR"
HandlerSymmetry == Permutations(Threads)

\* Bounds of the run: two decisions, or one that decides nothing; no Agent is
\* suspended after the first; handlers meet on the Task or on its reward, not on
\* both; the proposal and the Task are not used together.
Decided(D) == Cardinality({i \in Items : queue[i] \in D})
Few ==
    /\ Decided(Decisions) <= IF Decided({"HOLD", "REQUEST_CHANGES"}) > 0 THEN 1 ELSE 2
    /\ Decided(Decisions) > 0 => active = Agents
    /\ \A t \in Tasks : Alone("TASK", t) \/ Alone("REWARD", t)
    /\ (\A x \in Matters : verdict[x] = None) \/ (\A t \in Tasks : status[t] = None)
=============================================================================
