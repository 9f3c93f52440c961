----------------------------- MODULE MCRuntime -----------------------------
(***************************************************************************)
(* Instances of Runtime for TLC: p1 and p3 have one goroutine and p2 two.  *)
(***************************************************************************)
EXTENDS Runtime, TLC

CONSTANTS s1, s2, p1, p2, p3

Sizes == [p \in Pool |-> IF p = p2 THEN 2 ELSE 1]

(* p3 has the name of p1, everything else a name of its own. *)
Slots == [x \in Item |-> IF x = p3 THEN p1 ELSE x]

(* Two messages of s1, the first for either pool and the second for p2,    *)
(* and one of s2, for p1.                                                  *)
FewMsgs    == (s1 :> 2) @@ (s2 :> 1)
FewRoutes  == (<<s1, 1>> :> {p1, p2}) @@ (<<s1, 2>> :> {p2})
                @@ (<<s2, 1>> :> {p1})

FirstMsg   == {<<s1, 1>>}
SecondMsg  == {<<s1, 2>>}

(* The first message of s1 is stuck in p3, the second with its dispatcher, *)
(* which goes for p1 too, and the third in the buffer; the fourth is       *)
(* dropped. When the first has no route, p1 handles the others, the second *)
(* with a handler that reads the metrics.                                  *)
FillMsgs   == s1 :> 4
FillRoutes == [m \in {s1} \X (1 .. 4) |->
                 IF m \in FirstMsg THEN {p3, NoPool} ELSE {p1}]
=============================================================================
