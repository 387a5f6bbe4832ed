---------------------------- MODULE MC_MppClient ----------------------------
(* Two Challenges of the Service and one of another provider, which carries  *)
(* the key of the first and the nonce of the second; the process may restart *)
(* once.                                                                     *)
EXTENDS MppClient, TLC

CONSTANTS c1, c2, c3, k1, k2, n1, n2

Three(x, y, z) == (c1 :> x) @@ (c2 :> y) @@ (c3 :> z)
MCKeyOf    == Three(k1, k2, k1)
MCNonceOf  == Three(n1, n2, n2)
MCPayments == Challenges \X (1..MaxLives)
=============================================================================
