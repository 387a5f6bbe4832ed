---------------------------- MODULE MC_AgentRun -----------------------------
(* Two workers are asked for one run, which is covered by a stop of its own   *)
(* and by the global one.                                                    *)
EXTENDS AgentRun, TLC

CONSTANTS r1, global, w1, w2, o1, o2

MCScanOf == r1 :> <<global, r1>>
=============================================================================
