---------------------------- MODULE MC_TaskWorkflow ----------------------------
(* One Task, an Executive, an Executive with the role of a Reviewer, an Auditor *)
EXTENDS TaskWorkflow, TLC

CONSTANTS t1, exec, rev, aud

MCBudgetOf == t1 :> 1
MCTypeOf == exec :> "EXECUTIVE" @@ rev :> "EXECUTIVE" @@ aud :> "AUDIT"
MCRoleOf == exec :> "MANAGER" @@ rev :> "REVIEWER" @@ aud :> "AUDITOR"
KeySymmetry == Permutations(Keys)
=============================================================================
