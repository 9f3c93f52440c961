---------------------------- MODULE MCWeightedRR ----------------------------
(***************************************************************************)
(* Instances of WeightedRR for TLC: two and three pools under all small    *)
(* weights, those the code has to sort out included.                       *)
(***************************************************************************)
EXTENDS WeightedRR, TLC

CONSTANTS p1, p2, p3, k1

Pools2 == {[pools |-> <<p1, p2>>, weights |-> ws] : ws \in {<<1, 2>>, <<2, 4>>, <<2, 1>>, <<4, 0>>, <<0, 0>>}}
Pools3 == {[pools |-> <<p1, p2, p3>>, weights |-> ws] :
             ws \in {<<2, -1, 4>>, <<2, 4, 6>>, <<1, 2, 3>>, <<0, 3, 3>>}}
Odd    == {[pools |-> <<p1, NoPool>>, weights |-> <<1, 1>>],
           [pools |-> <<p1, p2>>, weights |-> <<1>>],
           [pools |-> <<p1, p2, p1>>, weights |-> <<1, 1, 2>>],
           [pools |-> <<>>, weights |-> <<>>]}
Configs == Pools2 \cup Pools3 \cup Odd

Hashes == k1 :> 9
=============================================================================
