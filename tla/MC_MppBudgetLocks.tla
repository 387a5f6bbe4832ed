------------------------- MODULE MC_MppBudgetLocks -------------------------
(* Two payments that together exceed the narrow limits of one Profile, drawn *)
(* on by two or three transactions at once.                                  *)
EXTENDS MppBudgetLocks, TLC

CONSTANTS p1, p2, f1, t1

MCAmount    == (p1 :> 1) @@ (p2 :> 2)
MCProfileOf == (p1 :> f1) @@ (p2 :> f1)
MCTaskOf    == (p1 :> t1) @@ (p2 :> t1)
MCLimits    == {[perPayment |-> 2, perTask |-> 2, daily |-> 2]}
=============================================================================
