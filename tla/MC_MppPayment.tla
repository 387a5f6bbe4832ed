--------------------------- MODULE MC_MppPayment ---------------------------
(* Three payments on one Profile and one Task.  p1 and p2 carry the same     *)
(* challenge; p1 and p3 fit the limits alone, not together; p3 is above the  *)
(* automatic limit of one unit, not above the generous one.                  *)
EXTENDS MppPayment, TLC

CONSTANTS p1, p2, p3, f1, t1, t2, c1, c2, w1, w2

Three(x, y, z) == [p \in Payments |-> ((p1 :> x) @@ (p2 :> y) @@ (p3 :> z))[p]]
MCAmount      == Three(1, 1, 2)
MCProfileOf   == Three(f1, f1, f1)
MCTaskOf      == Three(t1, t1, t1)
TwoTasks      == Three(t1, t1, t2)
MCChallengeOf == Three(c1, c1, c2)
MCExpires     == Three(3, 2, 2)
Narrow        == [perPayment |-> 2, perTask |-> 2, daily |-> 2]
Wide          == [perPayment |-> 2, perTask |-> 3, daily |-> 3]
OneLimit      == {Narrow}
TwoLimits     == {Narrow, Wide}

Auto          == [active |-> TRUE, mode |-> "AUTO", auto |-> 1, limits |-> Narrow]
Generous      == [Auto EXCEPT !.limits = Wide, !.auto = 2]
Owned         == [Auto EXCEPT !.mode = "OWNER_APPROVAL"]
Paused        == [Auto EXCEPT !.active = FALSE]
LimitChanges  == {Auto, Generous}
StateChanges  == {Auto, Owned, Paused}
WorkerSymmetry == Permutations({w1, w2})
=============================================================================
