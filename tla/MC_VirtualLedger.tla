---------------------------- MODULE MC_VirtualLedger ----------------------------
(* Two Tasks whose budgets together exceed what the Treasury can be funded with *)
EXTENDS VirtualLedger, TLC

CONSTANTS t1, t2

MCBudgetOf == t1 :> 3 @@ t2 :> 2
KeySymmetry == Permutations(Keys)
=============================================================================
