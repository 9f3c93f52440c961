---------------------------- MODULE MCScheduler ----------------------------
(***************************************************************************)
(* Instances of Scheduler for TLC. p1 is a FixedPool with four workers and *)
(* p2 one with a single worker, p3 is a StripedPool, and p4 is not         *)
(* registered with the runtime.                                            *)
(***************************************************************************)
EXTENDS Scheduler, TLC

CONSTANTS a, b, p1, p2, p3, p4

Crews == (p1 :> 4) @@ (p2 :> 1) @@ (p3 :> 4)

(* The last load of p1 is that of a pool that has replaced another of its  *)
(* name: its count has wrapped around.                                     *)
Idle    == [depth |-> 0, before |-> 0, now |-> 0]
Blocked == [depth |-> 40, before |-> 1, now |-> 2]
Renewed == [depth |-> 3, before |-> 6, now |-> 0]
Loads   == (p1 :> {Idle, Blocked, Renewed}) @@ (p2 :> {Idle, Blocked}) @@ (p3 :> {Idle, Blocked})

Wide  == [pools |-> <<p1, p2>>, weights |-> <<3, 7>>]
Low   == [pools |-> <<p2, p1>>, weights |-> <<3, 1>>]
Stray == [pools |-> <<p1, p4, p3>>, weights |-> <<3, 0, 3>>]
Shut  == [pools |-> <<p2>>, weights |-> <<0>>]
Binds == {Wide, Low, Stray, Shut}

(* NewPressureRebalanceStrategy *)
Defaults == [epsRate |-> 1, minPressureDelta |-> 2, baseStep |-> 1, maxStep |-> 5,
             minWeight |-> 1, maxFrac |-> 20, paceRate |-> 5]

(* The default policy allows a maxStep of 1, but a has parameters of its   *)
(* own, and a cooldown; b is disabled.                                     *)
On(cd)      == [enabled |-> TRUE, enabledSet |-> TRUE, strategy |-> "", cooldown |-> cd,
                params |-> NoParams]
Off         == [On(0) EXCEPT !.enabled = FALSE]
DefaultOn   == [On(0) EXCEPT !.strategy = "pressure_rebalance", !.params = [maxStep |-> 1]]
SlowAOffB   == (a :> [On(2) EXCEPT !.params = [minWeight |-> 2]]) @@ (b :> Off)
TwoStreams  == (a :> Wide) @@ (b :> Low)
=============================================================================
