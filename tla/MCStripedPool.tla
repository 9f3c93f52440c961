--------------------------- MODULE MCStripedPool ---------------------------
(***************************************************************************)
(* Instances of StripedPool for TLC.                                       *)
(***************************************************************************)
EXTENDS StripedPool, TLC

CONSTANTS t1, t2, t3, k

(* t1 and t2 carry the key k; t3 has none, and the counter may put it on   *)
(* the stripe of k or on another one.                                      *)
OneKey  == (t1 :> k) @@ (t2 :> k)
OddHash == (k :> 3)
=============================================================================
