--------------------------- MODULE MCStripedRoute ---------------------------
(***************************************************************************)
(* Instances of StripedRoute for TLC.                                      *)
(***************************************************************************)
EXTENDS StripedRoute, TLC

CONSTANTS t1, t2, t3, t4, k

(* t1 and t2 come through the dispatcher with messages of key k; t3 and t4 *)
(* are submitted directly, under that key.                                 *)
TwoArrivals == <<t1, t2>>
OneMsgKey   == (t1 :> k) @@ (t2 :> k)
OneKey      == (t3 :> k) @@ (t4 :> k)
OddHash     == (k :> 3)
=============================================================================
