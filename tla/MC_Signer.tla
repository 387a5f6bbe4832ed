----------------------------- MODULE MC_Signer -----------------------------
(***************************************************************************)
(* Requests for Signer: "pay" and the ways a later request can share         *)
(* something with it.  "again" is another request under pay's idempotency    *)
(* key; "rebind" has a key and an authorization of its own but pay's nonce;  *)
(* "reuse" has a key and a nonce of its own but pay's authorization.         *)
(***************************************************************************)
EXTENDS Signer, TLC

SomeKey == [r \in Requests |-> IF r = "again" THEN "pay" ELSE r]
SomeNonce == [r \in Requests |-> IF r = "rebind" THEN "pay" ELSE r]
SomeAuth == [r \in Requests |-> IF r \in {"again", "reuse"} THEN "pay" ELSE r]

CallerSymmetry == Permutations(Threads)
=============================================================================
