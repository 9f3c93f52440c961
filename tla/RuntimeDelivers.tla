---------------------------- MODULE RuntimeDelivers ----------------------------
(***************************************************************************)
(* The proof that the runtime implements Delivery: how far a message has   *)
(* come follows from the station at which the invariant of RuntimeProofs   *)
(* finds it, and every step moves at most one message on.                  *)
(***************************************************************************)
EXTENDS RuntimeProofs

Gone(m) == \A p \in Pool, k \in Station : ~Here(m, k, p)

(* The refinement mapping of Runtime, station by station.                  *)
StatusFacts ==
  \A m \in Msg :
    /\ m[2] > received[m[1]] => MsgStatus(m) = "new"
    /\ (m[2] <= received[m[1]] /\ m[2] > Behind(m[1])) => MsgStatus(m) = "received"
    /\ m[2] > Behind(m[1]) => MsgPool(m) = NoPool
    /\ \A p \in Pool :
         /\ \A k \in Station : Here(m, k, p) => MsgPool(m) = p /\ m[2] <= Behind(m[1])
         /\ Here(m, 1, p) => MsgStatus(m) = IF m \in handled THEN "handled" ELSE "fetched"
         /\ Here(m, 2, p) => MsgStatus(m) = "accepted"
         /\ Here(m, 3, p) \/ Here(m, 4, p) => MsgStatus(m) = "taken"
    /\ Gone(m) => MsgPool(m) = NoPool
    /\ (Gone(m) /\ m[2] <= Behind(m[1])) => MsgStatus(m) = "lost"

LEMMA StatusIs == IInv => StatusFacts
<1> SUFFICES ASSUME IInv, NEW m \in Msg
             PROVE  /\ m[2] > received[m[1]] => MsgStatus(m) = "new"
                    /\ (m[2] <= received[m[1]] /\ m[2] > Behind(m[1])) => MsgStatus(m) = "received"
                    /\ m[2] > Behind(m[1]) => MsgPool(m) = NoPool
                    /\ \A p \in Pool :
                         /\ \A k \in Station :
                              Here(m, k, p) => MsgPool(m) = p /\ m[2] <= Behind(m[1])
                         /\ Here(m, 1, p) =>
                              MsgStatus(m) = IF m \in handled THEN "handled" ELSE "fetched"
                         /\ Here(m, 2, p) => MsgStatus(m) = "accepted"
                         /\ Here(m, 3, p) \/ Here(m, 4, p) => MsgStatus(m) = "taken"
                    /\ Gone(m) => MsgPool(m) = NoPool
                    /\ (Gone(m) /\ m[2] <= Behind(m[1])) => MsgStatus(m) = "lost"
  BY DEF StatusFacts
<1>1. Types /\ Line /\ Work
  BY DEF IInv, Order
<1>2. /\ m[1] \in Source /\ m[2] \in Nat \ {0} /\ m = <<m[1], m[2]>>
      /\ received[m[1]] \in Nat /\ Behind(m[1]) \in Nat /\ Behind(m[1]) <= received[m[1]]
  BY <1>1, Messages, BehindIs
<1>3. /\ m[2] > Behind(m[1]) /\ m[2] <= received[m[1]]
           <=> m = Current(m[1]) /\ src[m[1]] \in {"route", "try"}
  BY <1>2 DEF Behind, Current
<1>4. \A p \in Pool, k \in Station : Here(m, k, p) => m[2] <= Behind(m[1])
  BY <1>1 DEF Line, Seen
<1>5. \A p, q \in Pool, k, l \in Station : Here(m, k, p) /\ Here(m, l, q) => p = q
  BY <1>1 DEF Line, OnePool
<1>6. \A p \in Pool, k, l \in Station : Here(m, k, p) /\ Here(m, l, p) => k = l
  BY <1>1, <1>2, Numbers DEF Line, Staged
<1>7. m \in handled => \E p \in Pool : Here(m, 1, p)
  BY <1>1 DEF Work
<1>8. /\ At(m) = {p \in Pool : Here(m, 3, p) \/ Here(m, 4, p)}
      /\ Within(m) = {p \in Pool : Here(m, 2, p)}
      /\ Ran(m) = {p \in Pool : Here(m, 1, p)}
  BY Stations DEF At, Within, Ran
<1>9. ASSUME Gone(m) PROVE MsgPool(m) = NoPool
  BY <1>8, <1>9, Numbers DEF Gone, MsgPool
<1>10. ASSUME NEW p \in Pool, NEW k \in Station, Here(m, k, p)
       PROVE  MsgPool(m) = p
  <2> DEFINE where == At(m) \cup Within(m) \cup Ran(m)
  <2>1. where = {p}
    <3>1. p \in where
      BY <1>8, <1>10, Numbers
    <3>2. \A q \in where : q = p
      BY <1>5, <1>8, <1>10, Numbers
    <3> QED
      BY <3>1, <3>2
  <2>2. MsgPool(m) = IF where = {} THEN NoPool ELSE CHOOSE q \in where : TRUE
    BY DEF MsgPool
  <2> HIDE DEF where
  <2> QED
    BY <2>1, <2>2
<1>11. m[2] > Behind(m[1]) => Gone(m)
  BY <1>2, <1>4 DEF Gone
<1>12. Gone(m) => m \notin handled /\ Ran(m) = {} /\ At(m) = {} /\ Within(m) = {}
  BY <1>7, <1>8, Numbers DEF Gone
<1>13. (m[2] > received[m[1]] => MsgStatus(m) = "new")
       /\ ((m[2] <= received[m[1]] /\ m[2] > Behind(m[1])) => MsgStatus(m) = "received")
  <2>1. CASE m[2] > received[m[1]]
    <3>1. Gone(m) /\ ~(m = Current(m[1]) /\ src[m[1]] \in {"route", "try"})
      BY <1>2, <1>3, <1>11, <2>1
    <3>2. MsgStatus(m) = "new"
      BY <1>12, <2>1, <3>1 DEF MsgStatus
    <3> QED
      BY <1>2, <2>1, <3>2
  <2>2. CASE m[2] <= received[m[1]] /\ m[2] > Behind(m[1])
    <3>1. /\ Gone(m) /\ m = Current(m[1]) /\ src[m[1]] \in {"route", "try"}
          /\ ~(m[2] > received[m[1]])
      BY <1>2, <1>3, <1>11, <2>2
    <3>2. MsgStatus(m) = "received"
      BY <1>12, <3>1 DEF MsgStatus
    <3> QED
      BY <3>1, <3>2
  <2> QED
    BY <2>1, <2>2
<1>14. ASSUME m[2] <= Behind(m[1])
       PROVE  MsgStatus(m) =
                CASE m \in handled -> "handled"
                  [] m \notin handled /\ Ran(m) # {} -> "fetched"
                  [] At(m) # {} -> "taken"
                  [] Within(m) # {} -> "accepted"
                  [] OTHER -> "lost"
  <2>1. ~(m[2] > received[m[1]]) /\ ~(m = Current(m[1]) /\ src[m[1]] \in {"route", "try"})
    BY <1>2, <1>3, <1>14
  <2> QED
    BY <2>1 DEF MsgStatus
<1>15. ASSUME NEW p \in Pool, Here(m, 1, p)
       PROVE  MsgStatus(m) = IF m \in handled THEN "handled" ELSE "fetched"
  <2>1. Ran(m) # {} /\ At(m) = {} /\ Within(m) = {}
    BY <1>5, <1>6, <1>8, <1>15, Numbers
  <2> QED
    BY <1>4, <1>14, <1>15, <2>1, Numbers
<1>16. ASSUME NEW p \in Pool, Here(m, 2, p) PROVE MsgStatus(m) = "accepted"
  <2>1. m \notin handled /\ Ran(m) = {} /\ At(m) = {} /\ Within(m) # {}
    BY <1>5, <1>6, <1>7, <1>8, <1>16, Numbers
  <2> QED
    BY <1>4, <1>14, <1>16, <2>1, Numbers
<1>17. ASSUME NEW p \in Pool, Here(m, 3, p) \/ Here(m, 4, p) PROVE MsgStatus(m) = "taken"
  <2>1. m \notin handled /\ Ran(m) = {} /\ At(m) # {} /\ Within(m) = {}
    BY <1>5, <1>6, <1>7, <1>8, <1>17, Numbers
  <2> QED
    BY <1>4, <1>14, <1>17, <2>1, Numbers
<1>18. ASSUME Gone(m), m[2] <= Behind(m[1]) PROVE MsgStatus(m) = "lost"
  <2>1. m \notin handled /\ Ran(m) = {} /\ At(m) = {} /\ Within(m) = {}
    BY <1>12, <1>18
  <2> QED
    BY <1>14, <1>18, <2>1
<1> QED
  BY <1>4, <1>9, <1>10, <1>11, <1>13, <1>15, <1>16, <1>17, <1>18

-----------------------------------------------------------------------------
(* Steps *)

(* What a step of Delivery sees: message m is as far as it was.            *)
Unmoved(m) == MsgStatus(m)' = MsgStatus(m) /\ MsgPool(m)' = MsgPool(m)

LEMMA SameStatus ==
  ASSUME Types, Types', StatusFacts, StatusFacts', NEW m \in Msg, Stays(m),
         (m[2] > received[m[1]])' <=> m[2] > received[m[1]],
         (m[2] > Behind(m[1]))' <=> m[2] > Behind(m[1]),
         m \in handled' <=> m \in handled
  PROVE  Unmoved(m)
<1>1. m[1] \in Source /\ m[2] \in Nat
  BY Messages
<1>2. /\ received[m[1]] \in Nat /\ Behind(m[1]) \in Nat
      /\ received'[m[1]] \in Nat /\ Behind(m[1])' \in Nat
  <2>1. received'[m[1]] \in Nat /\ Behind(m[1])' \in Nat
    <3>1. received' \in [Source -> Nat]
          /\ \A x \in Source : src'[x] \in {"route", "try"} => received'[x] # 0
      BY DEF Types, TypeOK, Placed
    <3> QED
      BY <1>1, <3>1 DEF Behind
  <2> QED
    BY <1>1, <2>1, BehindIs
<1>3. CASE m[2] > Behind(m[1])
  BY <1>1, <1>2, <1>3 DEF StatusFacts, Unmoved
<1>4. CASE ~(m[2] > Behind(m[1])) /\ Gone(m)
  <2>1. Gone(m)'
    <3>1. \A p \in Pool : ~Here(m, 1, p)' /\ ~Here(m, 2, p)' /\ ~Here(m, 3, p)' /\ ~Here(m, 4, p)'
      BY <1>4, Numbers DEF Gone, Stays
    <3> QED
      BY <3>1, Numbers DEF Gone
  <2> QED
    BY <1>1, <1>2, <1>4, <2>1 DEF StatusFacts, Unmoved
<1>5. CASE ~Gone(m)
  <2>1. PICK p \in Pool : Here(m, 1, p) \/ Here(m, 2, p) \/ Here(m, 3, p) \/ Here(m, 4, p)
    BY <1>5, Numbers DEF Gone
  <2>2. CASE Here(m, 1, p)
    BY <2>2, Numbers DEF StatusFacts, Unmoved, Stays
  <2>3. CASE Here(m, 2, p)
    BY <2>3, Numbers DEF StatusFacts, Unmoved, Stays
  <2>4. CASE Here(m, 3, p) \/ Here(m, 4, p)
    BY <2>4, Numbers DEF StatusFacts, Unmoved, Stays
  <2> QED
    BY <2>1, <2>2, <2>3, <2>4
<1> QED
  BY <1>3, <1>4, <1>5

(* A step of Delivery that moves message m0, and one that moves none.      *)
LEMMA BecomesIs ==
  ASSUME NEW m0 \in Msg, \A m \in Msg \ {m0} : Unmoved(m), ctxDone' = ctxDone
  PROVE  D!Becomes(m0, MsgStatus(m0)', MsgPool(m0)')
BY DEF D!Becomes, Unmoved

LEMMA StuttersIs ==
  ASSUME \A m \in Msg : Unmoved(m), ctxDone' = ctxDone
  PROVE  UNCHANGED D!vars
BY DEF D!vars, Unmoved

LEMMA StopIs ==
  ASSUME \A m \in Msg : Unmoved(m), ~ctxDone, ctxDone' = TRUE
  PROVE  D!Stop
BY DEF D!Stop, Unmoved

LEMMA NoneMoves ==
  ASSUME IInv, IInv', StatusFacts, StatusFacts', \A m \in Msg : Stays(m),
         \A s \in Source : received'[s] = received[s] /\ Behind(s)' = Behind(s),
         handled' = handled
  PROVE  \A m \in Msg : Unmoved(m)
<1> SUFFICES ASSUME NEW m \in Msg PROVE Unmoved(m)
  OBVIOUS
<1>1. m[1] \in Source
  BY Messages
<1>2. received'[m[1]] = received[m[1]] /\ Behind(m[1])' = Behind(m[1])
  BY <1>1
<1>3. /\ (m[2] > received[m[1]])' <=> m[2] > received[m[1]]
      /\ (m[2] > Behind(m[1]))' <=> m[2] > Behind(m[1])
  BY <1>2
<1> QED
  BY <1>3, SameStatus DEF IInv

LEMMA OtherSteps ==
  ASSUME IInv, IInv', StatusFacts, StatusFacts',
         \/ (\E x \in Later : Register(x)) \/ WriterGoes \/ UNCHANGED vars
         \/ StartCall \/ StartStep \/ CancelStart
         \/ \E c \in Stopper : StopCall(c) \/ StopStep(c)
  PROVE  [D!Next]_D!vars
<1> USE DEF cfgVars, startVars, srcVars, dispVars, poolVars, stopVars
<1>1. /\ UNCHANGED <<received, handled>>
      /\ ctxDone' = ctxDone \/ ctxDone' = TRUE
      /\ \/ UNCHANGED src
         \/ \E s \in Source : src[s] = "none" /\ src' = [src EXCEPT ![s] = "config"]
  <2>1. CASE (\E x \in Later : Register(x)) \/ WriterGoes \/ UNCHANGED vars
    BY <2>1 DEF Register, WriterGoes, vars
  <2>2. CASE \E s \in Source : StartSource(s)
    BY <2>2 DEF StartSource, StartGoto, IInv, Types, StartedOnce
  <2>3. CASE StartCall \/ StartLoop \/ StartWait \/ StartReturn \/ CancelStart
    BY <2>3 DEF StartCall, CancelStart, StartLoop, StartWait, StartReturn, StartGoto
  <2>4. CASE \E c \in Stopper : StopCall(c) \/ StopStep(c)
    BY <2>4 DEF StopCall, StopStep, StopSources, StopSnapshot, StopDispatchers, StopPool,
       StopDrained, StopTimeout, StopReturn, StopGoto
  <2> QED
    BY <2>1, <2>2, <2>3, <2>4 DEF StartStep
<1>2. \A s \in Source : src'[s] \in {"route", "try"} <=> src[s] \in {"route", "try"}
  BY <1>1 DEF IInv, Types, TypeOK
<1>3. \A s \in Source : received'[s] = received[s] /\ Behind(s)' = Behind(s)
  BY <1>1, <1>2 DEF Behind
<1>4. \A m \in Msg : Stays(m)
  BY OthersOrder DEF IInv
<1>5. \A m \in Msg : Unmoved(m)
  BY <1>1, <1>3, <1>4, NoneMoves
<1>6. CASE ctxDone' = ctxDone
  BY <1>5, <1>6, StuttersIs
<1>7. CASE ctxDone' # ctxDone
  <2>1. ~ctxDone /\ ctxDone' = TRUE
    BY <1>1, <1>7 DEF IInv, Types, TypeOK
  <2> QED
    BY <1>5, <2>1, StopIs DEF D!Next
<1> QED
  BY <1>6, <1>7

(* A message that its source is done with is neither new nor received.     *)
LEMMA Behinds ==
  ASSUME IInv, StatusFacts, NEW m \in Msg, m[2] <= Behind(m[1])
  PROVE  MsgStatus(m) \notin {"new", "received"}
<1>1. CASE Gone(m)
  BY <1>1 DEF StatusFacts
<1>2. CASE ~Gone(m)
  <2>1. PICK p \in Pool : Here(m, 1, p) \/ Here(m, 2, p) \/ Here(m, 3, p) \/ Here(m, 4, p)
    BY <1>2, Numbers DEF Gone
  <2> QED
    BY <2>1 DEF StatusFacts
<1> QED
  BY <1>1, <1>2

(* When a source is done with its message, only that message may move.     *)
LEMMA OthersUnmoved ==
  ASSUME Types, Types', StatusFacts, StatusFacts', NEW s \in Source, NEW m0 \in Msg,
         m0 = Current(s), \A m \in Msg \ {m0} : Stays(m),
         received' = received, handled' = handled,
         Behind(s) = received[s] - 1, Behind(s)' = received[s],
         \A x \in Source \ {s} : src'[x] = src[x]
  PROVE  \A m \in Msg \ {m0} : Unmoved(m)
<1> SUFFICES ASSUME NEW m \in Msg, m # m0 PROVE Unmoved(m)
  OBVIOUS
<1>1. /\ m[1] \in Source /\ m[2] \in Nat /\ (m[1] = s => m[2] # received[s])
      /\ received[s] \in Nat
  BY Messages DEF Current, Types, TypeOK
<1>2. (m[2] > Behind(m[1]))' <=> m[2] > Behind(m[1])
  <2>1. CASE m[1] = s
    BY <1>1, <2>1
  <2>2. CASE m[1] # s
    BY <1>1, <2>2 DEF Behind
  <2> QED
    BY <2>1, <2>2
<1> QED
  BY <1>2, SameStatus

(* A source that receives, drops or hands over a message; the rest it does *)
(* unseen.                                                                 *)
LEMMA SourceSteps ==
  ASSUME IInv, IInv', StatusFacts, StatusFacts',
         NEW s \in Source, Recv(s) \/ RecvError(s) \/ Forward(s)
  PROVE  [D!Next]_D!vars
<1> USE DEF SourceGoto, cfgVars, startVars, srcVars, dispVars, poolVars, stopVars
<1>1. /\ UNCHANGED <<ctxDone, handled>>
      /\ \A x \in Source \ {s} : src'[x] = src[x] /\ received'[x] = received[x]
  <2>1. src \in [Source -> {"none", "config", "recv", "route", "try", "exited"}]
        /\ received \in [Source -> Nat]
    BY DEF IInv, Types, TypeOK
  <2>2. CASE Recv(s)
    BY <2>1, <2>2 DEF Recv
  <2>3. CASE RecvError(s)
    BY <2>1, <2>3 DEF RecvError
  <2>4. CASE Configure(s)
    BY <2>1, <2>4 DEF Configure
  <2>5. CASE NoRoute(s)
    BY <2>1, <2>5 DEF NoRoute
  <2>6. ASSUME NEW p \in Pool, RouteTo(s, p)
        PROVE  /\ UNCHANGED <<ctxDone, handled>>
               /\ \A x \in Source \ {s} : src'[x] = src[x] /\ received'[x] = received[x]
    BY <2>1, <2>6 DEF RouteTo
  <2>7. CASE TrySubmit(s)
    BY <2>1, <2>7 DEF TrySubmit
  <2> QED
    BY <2>2, <2>3, <2>4, <2>5, <2>6, <2>7 DEF Forward
<1>2. \A x \in Source \ {s} : Behind(x)' = Behind(x)
  BY <1>1 DEF Behind
<1>3. received[s] \in Nat /\ received[s] <= Msgs[s] /\ Msgs[s] \in Nat
  <2>1. received[s] \in Nat /\ received[s] <= Msgs[s]
    BY DEF IInv, Types, TypeOK, Placed
  <2>2. Msgs[s] \in Nat
    BY RuntimeAssumption
  <2> QED
    BY <2>1, <2>2
<1>4. /\ Types /\ Types' /\ Seen
      /\ \/ \A m \in Msg : Stays(m)
         \/ /\ TrySubmit(s)
            /\ \E m0 \in Msg, p0 \in Pool :
                 m0 = Current(s) /\ Here(m0, 4, p0)' /\ \A m \in Msg \ {m0} : Stays(m)
  BY SourcesOrder DEF IInv, Order, Line
<1>5. CASE RecvError(s) \/ Configure(s) \/ \E p \in Pool : RouteTo(s, p)
  <2>1. /\ received' = received
        /\ src'[s] \in {"route", "try"} <=> src[s] \in {"route", "try"}
    <3>1. src \in [Source -> {"none", "config", "recv", "route", "try", "exited"}]
      BY DEF IInv, Types, TypeOK
    <3>2. CASE RecvError(s)
      BY <3>1, <3>2 DEF RecvError
    <3>3. CASE Configure(s)
      BY <3>1, <3>3 DEF Configure
    <3>4. ASSUME NEW p \in Pool, RouteTo(s, p)
          PROVE  /\ received' = received
                 /\ src'[s] \in {"route", "try"} <=> src[s] \in {"route", "try"}
      BY <3>1, <3>4 DEF RouteTo
    <3> QED
      BY <1>5, <3>2, <3>3, <3>4
  <2>2. \A x \in Source : received'[x] = received[x] /\ Behind(x)' = Behind(x)
    BY <1>2, <2>1 DEF Behind
  <2>3. \A m \in Msg : Stays(m)
    BY <1>4, <1>5 DEF RecvError, Configure, RouteTo, TrySubmit
  <2> QED
    BY <1>1, <2>2, <2>3, NoneMoves, StuttersIs
<1>6. CASE Recv(s)
  <2>1. /\ received[s] < Msgs[s] /\ src[s] = "recv" /\ src'[s] = "route"
        /\ received'[s] = received[s] + 1
    BY <1>4, <1>6 DEF Recv, Types, TypeOK
  <2>2. Behind(s) = received[s] /\ Behind(s)' = received[s]
    BY <1>3, <2>1 DEF Behind
  <2>3. PICK m0 \in Msg : m0 = <<s, received[s] + 1>>
    <3>1. received[s] + 1 \in Nat \ {0} /\ received[s] + 1 <= Msgs[s]
      BY <1>3, <2>1
    <3> QED
      BY <3>1, Messages
  <2>4. \A m \in Msg : Stays(m)
    BY <1>4, <1>6 DEF Recv, TrySubmit
  <2>5. m0[1] = s /\ m0[2] = received[s] + 1
    BY <2>3
  <2>6. ASSUME NEW m \in Msg \ {m0} PROVE Unmoved(m)
    <3>1. m[1] \in Source /\ m[2] \in Nat /\ (m[1] = s => m[2] # received[s] + 1)
      BY <2>3, <2>6, Messages
    <3>2. Behind(m[1])' = Behind(m[1])
      BY <1>2, <2>2, <3>1
    <3>3. m[2] > received'[m[1]] <=> m[2] > received[m[1]]
      <4>1. CASE m[1] = s
        BY <1>3, <2>1, <3>1, <4>1
      <4>2. CASE m[1] # s
        BY <1>1, <3>1, <4>2
      <4> QED
        BY <4>1, <4>2
    <3>4. /\ (m[2] > received[m[1]])' <=> m[2] > received[m[1]]
          /\ (m[2] > Behind(m[1]))' <=> m[2] > Behind(m[1])
      BY <3>2, <3>3
    <3> QED
      BY <1>1, <1>4, <2>4, <3>4, SameStatus
  <2>7. MsgStatus(m0) = "new" /\ MsgStatus(m0)' = "received" /\ MsgPool(m0)' = NoPool
    <3>1. m0[2] > received[s] /\ m0[2] <= received'[s] /\ m0[2] > Behind(s)'
      BY <1>3, <2>1, <2>2, <2>5
    <3>2. m0[2] > received[m0[1]] /\ m0[2] <= received'[m0[1]] /\ m0[2] > Behind(m0[1])'
      BY <2>5, <3>1
    <3> QED
      BY <3>2 DEF StatusFacts
  <2>8. ASSUME NEW o \in Msg, o[1] = m0[1], o[2] < m0[2]
        PROVE  MsgStatus(o) \notin {"new", "received"}
    <3>1. o[1] = s /\ o[2] \in Nat /\ o[2] <= Behind(s)
      BY <1>3, <2>2, <2>5, <2>8, Messages
    <3> QED
      BY <3>1, Behinds
  <2>9. D!Becomes(m0, "received", NoPool)
    BY <1>1, <2>6, <2>7, BecomesIs
  <2>10. D!Receive(m0)
    BY <2>7, <2>8, <2>9 DEF D!Receive, D!Earlier
  <2> QED
    BY <2>10 DEF D!Next
<1>7. CASE NoRoute(s)
  <2>1. src[s] = "route" /\ src'[s] = "recv" /\ received' = received /\ received[s] # 0
    <3>1. /\ src \in [Source -> {"none", "config", "recv", "route", "try", "exited"}]
          /\ src[s] = "route" => received[s] # 0
      BY DEF IInv, Types, TypeOK, Placed
    <3> QED
      BY <1>7, <3>1 DEF NoRoute
  <2>2. Behind(s) = received[s] - 1 /\ Behind(s)' = received[s]
    BY <2>1 DEF Behind
  <2>3. PICK m0 \in Msg : m0 = Current(s)
    BY <1>3, <2>1, Messages DEF Current
  <2>4. \A m \in Msg : Stays(m)
    BY <1>4, <2>1 DEF TrySubmit
  <2>5. m0[1] = s /\ m0[2] = received[s]
    BY <2>3 DEF Current
  <2>6. \A m \in Msg \ {m0} : Unmoved(m)
    BY <1>1, <1>3, <1>4, <2>1, <2>2, <2>3, <2>4, OthersUnmoved
  <2>7. Gone(m0)'
    <3>1. ~(m0[2] <= Behind(m0[1]))
      BY <1>3, <2>2, <2>5
    <3>2. \A p \in Pool : ~Here(m0, 1, p) /\ ~Here(m0, 2, p) /\ ~Here(m0, 3, p) /\ ~Here(m0, 4, p)
      BY <1>4, <3>1, Numbers DEF Seen
    <3>3. \A p \in Pool : ~Here(m0, 1, p)' /\ ~Here(m0, 2, p)' /\ ~Here(m0, 3, p)' /\ ~Here(m0, 4, p)'
      BY <2>4, <3>2 DEF Stays
    <3> QED
      BY <3>3, Numbers DEF Gone
  <2>8. MsgStatus(m0) = "received" /\ MsgStatus(m0)' = "lost" /\ MsgPool(m0)' = NoPool
    <3>1. m0[2] <= received[m0[1]] /\ m0[2] > Behind(m0[1]) /\ m0[2] <= Behind(m0[1])'
      BY <1>3, <2>2, <2>5
    <3> QED
      BY <2>7, <3>1 DEF StatusFacts
  <2>9. D!Drop(m0)
    BY <1>1, <2>6, <2>8, BecomesIs DEF D!Drop
  <2> QED
    BY <2>9 DEF D!Next
<1>8. CASE TrySubmit(s)
  <2>1. src[s] = "try" /\ src'[s] = "recv" /\ received' = received /\ received[s] # 0
    BY <1>4, <1>8 DEF TrySubmit, Types, TypeOK, Placed
  <2>2. Behind(s) = received[s] - 1 /\ Behind(s)' = received[s]
    BY <2>1 DEF Behind
  <2>3. PICK m0 \in Msg : m0 = Current(s)
    BY <1>3, <2>1, Messages DEF Current
  <2>4. /\ \A m \in Msg \ {m0} : Stays(m)
        /\ (\A m \in Msg : Stays(m)) \/ \E p0 \in Pool : Here(m0, 4, p0)'
    BY <1>4, <2>3
  <2>5. m0[1] = s /\ m0[2] = received[s]
    BY <2>3 DEF Current
  <2>6. \A m \in Msg \ {m0} : Unmoved(m)
    BY <1>1, <1>3, <1>4, <2>1, <2>2, <2>3, <2>4, OthersUnmoved
  <2>7. m0[2] <= received[m0[1]] /\ m0[2] > Behind(m0[1]) /\ m0[2] <= Behind(m0[1])'
    BY <1>3, <2>2, <2>5
  <2>8. MsgStatus(m0) = "received"
    BY <2>7 DEF StatusFacts
  <2>9. CASE \E p0 \in Pool : Here(m0, 4, p0)'
    <3>1. PICK p0 \in Pool : Here(m0, 4, p0)'
      BY <2>9
    <3>2. MsgStatus(m0)' = "taken" /\ MsgPool(m0)' = p0
      BY <3>1, Numbers DEF StatusFacts
    <3>3. D!Take(m0, p0)
      BY <1>1, <2>6, <2>8, <3>2, BecomesIs DEF D!Take
    <3> QED
      BY <3>3 DEF D!Next
  <2>10. CASE \A m \in Msg : Stays(m)
    <3>1. Gone(m0)'
      <4>1. \A p \in Pool : ~Here(m0, 1, p) /\ ~Here(m0, 2, p) /\ ~Here(m0, 3, p) /\ ~Here(m0, 4, p)
        BY <1>4, <2>7, <2>5, <2>2, <1>3, Numbers DEF Seen
      <4>2. \A p \in Pool : ~Here(m0, 1, p)' /\ ~Here(m0, 2, p)' /\ ~Here(m0, 3, p)' /\ ~Here(m0, 4, p)'
        BY <2>10, <4>1 DEF Stays
      <4> QED
        BY <4>2, Numbers DEF Gone
    <3>2. MsgStatus(m0)' = "lost" /\ MsgPool(m0)' = NoPool
      BY <2>7, <3>1 DEF StatusFacts
    <3>3. D!Drop(m0)
      BY <1>1, <2>6, <2>8, <3>2, BecomesIs DEF D!Drop
    <3> QED
      BY <3>3 DEF D!Next
  <2> QED
    BY <2>4, <2>9, <2>10
<1> QED
  BY <1>5, <1>6, <1>7, <1>8 DEF Forward

(* Beyond the sources, a message that stays where it is does not move.     *)
LEMMA StaysIs ==
  ASSUME IInv, IInv', StatusFacts, StatusFacts', UNCHANGED srcVars, NEW m \in Msg,
         Stays(m), m \in handled' <=> m \in handled
  PROVE  Unmoved(m)
<1>1. m[1] \in Source /\ received' = received /\ src' = src
  BY Messages DEF srcVars
<1>2. Behind(m[1])' = Behind(m[1])
  BY <1>1 DEF Behind
<1>3. /\ (m[2] > received[m[1]])' <=> m[2] > received[m[1]]
      /\ (m[2] > Behind(m[1]))' <=> m[2] > Behind(m[1])
  BY <1>1, <1>2
<1> QED
  BY <1>3, SameStatus DEF IInv

(* An earlier message of the same source, on its way into the same pool,   *)
(* that is at none of the stations before the last was taken off the       *)
(* channel.                                                                *)
LEMMA EarlierAhead ==
  ASSUME IInv, StatusFacts, NEW m0 \in Msg, NEW o \in Msg, NEW p \in Pool, NEW k \in Station,
         Here(m0, k, p), k \in {2, 3}, o[1] = m0[1], o[2] < m0[2], MsgPool(o) = p,
         \A l \in Station : Here(o, l, p) => l < 2
  PROVE  MsgStatus(o) \notin {"taken", "accepted"}
<1>1. /\ o[1] \in Source /\ o[2] \in Nat /\ m0[2] \in Nat
      /\ Behind(o[1]) \in Nat /\ m0[2] <= Behind(o[1])
  BY Messages, BehindIs DEF IInv, Order, Line, Seen
<1>2. o[2] <= Behind(o[1])
  BY <1>1
<1>3. ~Gone(o)
  BY RuntimeAssumption DEF StatusFacts
<1>4. PICK q \in Pool, l \in Station : Here(o, l, q)
  BY <1>3 DEF Gone
<1>5. q = p
  BY <1>4 DEF StatusFacts
<1>6. l = 1
  BY <1>4, <1>5, Numbers
<1> QED
  BY <1>4, <1>6 DEF StatusFacts

(* A dispatcher submits one message at a time.                             *)
LEMMA OneHolder ==
  ASSUME NEW m \in Msg, NEW o \in Msg, NEW p \in Pool, Here(m, 3, p), Here(o, 3, p), m[1] = o[1]
  PROVE  m = o
<1>1. held[<<m[1], p>>] = m
  BY Stations
<1>2. held[<<o[1], p>>] = o
  BY Stations
<1> QED
  BY <1>1, <1>2

LEMMA DispatcherSteps ==
  ASSUME IInv, IInv', StatusFacts, StatusFacts', NEW r \in Route, DispatcherStep(r)
  PROVE  [D!Next]_D!vars
<1> USE DEF cfgVars, startVars, poolVars, stopVars
<1>1. UNCHANGED srcVars /\ ctxDone' = ctxDone /\ handled' = handled
  BY DEF DispatcherStep, DispatcherTake, DispatcherExit, SubmitSend, SubmitError, DispatcherGoto
<1>2. \A m \in Msg : Stays(m) => Unmoved(m)
  BY <1>1, StaysIs
<1>3. Types /\ Types' /\ Order /\ Stopping
  BY DEF IInv
<1>4. CASE DispatcherTake(r)
  BY <1>1, <1>2, <1>3, <1>4, TakeOrder, StuttersIs
<1>5. CASE DispatcherExit(r) \/ SubmitError(r)
  <2>1. /\ ctxDone
        /\ \/ \A m \in Msg : Stays(m)
           \/ \E m0 \in Msg, p0 \in Pool :
                /\ Here(m0, 3, p0) /\ \A p \in Pool, k \in Station : ~Here(m0, k, p)'
                /\ \A m \in Msg \ {m0} : Stays(m)
    BY <1>3, <1>5, ErrorOrder
  <2>2. CASE \A m \in Msg : Stays(m)
    BY <1>1, <1>2, <2>2, StuttersIs
  <2>3. ASSUME NEW m0 \in Msg, NEW p0 \in Pool, Here(m0, 3, p0),
               \A p \in Pool, k \in Station : ~Here(m0, k, p)',
               \A m \in Msg \ {m0} : Stays(m)
        PROVE  D!Lose(m0)
    <3>1. MsgStatus(m0) = "taken" /\ m0[2] <= Behind(m0[1])
      BY <2>3, Numbers DEF StatusFacts
    <3>2. Gone(m0)' /\ m0[2] <= Behind(m0[1])'
      <4>1. Behind(m0[1])' = Behind(m0[1])
        BY <1>1 DEF Behind, srcVars
      <4>2. Gone(m0)'
        BY <2>3 DEF Gone
      <4> QED
        BY <3>1, <4>1, <4>2
    <3>3. MsgStatus(m0)' = "lost" /\ MsgPool(m0)' = NoPool
      BY <3>2 DEF StatusFacts
    <3>4. D!Becomes(m0, "lost", NoPool)
      BY <1>1, <1>2, <2>3, <3>3, BecomesIs
    <3> QED
      BY <2>1, <3>1, <3>4 DEF D!Lose
  <2> QED
    BY <2>1, <2>2, <2>3 DEF D!Next
<1>6. CASE SubmitSend(r)
  <2>1. PICK m0 \in Msg, p0 \in Pool :
          /\ Here(m0, 3, p0)
          /\ Here(m0, 2, p0)' \/ (Here(m0, 1, p0)' /\ \A m \in Msg : ~Here(m, 2, p0))
          /\ \A m \in Msg \ {m0} : Stays(m)
    BY <1>3, <1>6, SendOrder
  <2>2. \A m \in Msg \ {m0} : Unmoved(m)
    BY <1>2, <2>1
  <2>3. MsgStatus(m0) = "taken" /\ MsgPool(m0) = p0
    BY <2>1, Numbers DEF StatusFacts
  <2>4. CASE Here(m0, 2, p0)'
    <3>1. MsgStatus(m0)' = "accepted" /\ MsgPool(m0)' = p0
      BY <2>4, Numbers DEF StatusFacts
    <3>2. D!Becomes(m0, "accepted", p0)
      BY <1>1, <2>2, <3>1, BecomesIs
    <3>3. D!Accept(m0)
      BY <2>3, <3>2 DEF D!Accept
    <3> QED
      BY <3>3 DEF D!Next
  <2>5. CASE Here(m0, 1, p0)' /\ \A m \in Msg : ~Here(m, 2, p0)
    <3>1. MsgStatus(m0)' = "fetched" /\ MsgPool(m0)' = p0
      <4>1. m0 \notin handled
        BY <1>3, <2>1, Numbers, Unfetched
      <4> QED
        BY <1>1, <2>5, <4>1, Numbers DEF StatusFacts
    <3>2. ASSUME NEW o \in Msg, o[1] = m0[1], o[2] < m0[2], MsgPool(o) = p0
          PROVE  MsgStatus(o) \notin {"taken", "accepted"}
      <4>1. ASSUME NEW l \in Station, Here(o, l, p0) PROVE l < 2
        <5>1. l # 2
          BY <2>5, <4>1
        <5>2. l # 3
          <6>1. o # m0
            BY <3>2, Messages
          <6>2. ~Here(o, 3, p0)
            BY <2>1, <3>2, <6>1, OneHolder
          <6> QED
            BY <4>1, <6>2
        <5>3. l # 4
          <6>1. ~(o[2] < m0[2]) \/ ~(m0[2] < o[2])
            BY Messages
          <6> QED
            BY <1>3, <2>1, <3>2, <4>1, <6>1, Numbers DEF Order, Line, Staged
        <5> QED
          BY <5>1, <5>2, <5>3, Numbers
      <4> QED
        BY <2>1, <3>2, <4>1, Numbers, EarlierAhead
    <3>3. D!Becomes(m0, "fetched", p0)
      BY <1>1, <2>2, <3>1, BecomesIs
    <3>4. D!Fetch(m0)
      BY <2>3, <3>2, <3>3 DEF D!Fetch, D!Earlier
    <3> QED
      BY <3>4 DEF D!Next
  <2> QED
    BY <2>1, <2>4, <2>5
<1> QED
  BY <1>4, <1>5, <1>6 DEF DispatcherStep

LEMMA PoolSteps ==
  ASSUME IInv, IInv', StatusFacts, StatusFacts', NEW p \in Pool,
         Fetch(p) \/ \E m \in Msg : Finish(p, m)
  PROVE  [D!Next]_D!vars
<1> USE DEF cfgVars, startVars, dispVars, stopVars
<1>1. UNCHANGED srcVars /\ ctxDone' = ctxDone
  BY DEF Fetch, Finish
<1>2. \A m \in Msg : Stays(m) /\ (m \in handled' <=> m \in handled) => Unmoved(m)
  BY <1>1, StaysIs
<1>3. Types /\ Types' /\ Order
  BY DEF IInv
<1>4. CASE Fetch(p)
  <2>1. PICK m0 \in Msg :
          /\ Here(m0, 2, p) /\ Here(m0, 1, p)'
          /\ \A m \in Msg \ {m0} :
               Stays(m) /\ (Here(m, 2, p) /\ m[1] = m0[1] => m0[2] < m[2])
    BY <1>3, <1>4, FetchKeepsOrder
  <2>2. handled' = handled
    BY <1>4 DEF Fetch
  <2>3. \A m \in Msg \ {m0} : Unmoved(m)
    BY <1>2, <2>1, <2>2
  <2>4. MsgStatus(m0) = "accepted" /\ MsgPool(m0) = p
    BY <2>1, Numbers DEF StatusFacts
  <2>5. MsgStatus(m0)' = "fetched" /\ MsgPool(m0)' = p
    <3>1. m0 \notin handled
      BY <1>3, <2>1, Numbers, Unfetched
    <3> QED
      BY <2>1, <2>2, <3>1, Numbers DEF StatusFacts
  <2>6. ASSUME NEW o \in Msg, o[1] = m0[1], o[2] < m0[2], MsgPool(o) = p
        PROVE  MsgStatus(o) \notin {"taken", "accepted"}
    <3>1. ~(m0[2] < o[2]) /\ o # m0
      BY <2>6, Messages
    <3>2. \A l \in Station : Here(o, l, p) => ~(2 < l) /\ l # 2
      BY <1>3, <2>1, <2>6, <3>1, Numbers DEF Order, Line, Staged
    <3>3. \A l \in Station : Here(o, l, p) => l < 2
      BY <3>2, Numbers
    <3> QED
      BY <2>1, <2>6, <3>3, Numbers, EarlierAhead
  <2>7. D!Becomes(m0, "fetched", p)
    BY <1>1, <2>3, <2>5, BecomesIs
  <2>8. D!Fetch(m0)
    BY <2>4, <2>6, <2>7 DEF D!Fetch, D!Earlier
  <2> QED
    BY <2>8 DEF D!Next
<1>5. ASSUME NEW m0 \in Msg, Finish(p, m0) PROVE D!Finish(m0)
  <2>1. (\A m \in Msg : Stays(m)) /\ m0 \notin handled /\ Here(m0, 1, p)
    BY <1>3, <1>5, FinishKeepsOrder
  <2>2. handled' = handled \cup {m0}
    BY <1>5 DEF Finish
  <2>3. \A m \in Msg \ {m0} : Unmoved(m)
    BY <1>2, <2>1, <2>2
  <2>4. Here(m0, 1, p)'
    BY <2>1 DEF Stays
  <2>5. MsgStatus(m0) = "fetched" /\ MsgPool(m0) = p
    BY <2>1, Numbers DEF StatusFacts
  <2>6. MsgStatus(m0)' = "handled" /\ MsgPool(m0)' = p
    BY <2>2, <2>4, Numbers DEF StatusFacts
  <2>7. D!Becomes(m0, "handled", p)
    BY <1>1, <2>3, <2>6, BecomesIs
  <2> QED
    BY <2>5, <2>7 DEF D!Finish
<1> QED
  BY <1>4, <1>5 DEF D!Next

-----------------------------------------------------------------------------
(* The refinement *)

LEMMA InitMaps == Init => D!Init
<1> SUFFICES ASSUME Init PROVE D!Init
  OBVIOUS
<1>1. StatusFacts
  BY InitEstablishes, StatusIs
<1>2. \A m \in Msg : received[m[1]] = 0 /\ Behind(m[1]) = 0 /\ m[2] > 0
  BY Messages DEF Init, Behind
<1>3. \A m \in Msg : MsgStatus(m) = "new" /\ MsgPool(m) = NoPool
  BY <1>1, <1>2 DEF StatusFacts
<1>4. ctxDone = FALSE
  BY DEF Init
<1> QED
  BY <1>3, <1>4 DEF D!Init

LEMMA StepMaps == IInv /\ IInv' /\ StatusFacts /\ StatusFacts' /\ [Next]_vars => [D!Next]_D!vars
<1> SUFFICES ASSUME IInv, IInv', StatusFacts, StatusFacts', [Next]_vars PROVE [D!Next]_D!vars
  OBVIOUS
<1>1. CASE \/ (\E x \in Later : Register(x)) \/ WriterGoes \/ UNCHANGED vars
           \/ StartCall \/ StartStep \/ CancelStart
           \/ \E c \in Stopper : StopCall(c) \/ StopStep(c)
  BY <1>1, OtherSteps
<1>2. CASE \E s \in Source : Recv(s) \/ RecvError(s) \/ Forward(s)
  BY <1>2, SourceSteps
<1>3. CASE \E r \in Route : DispatcherStep(r)
  BY <1>3, DispatcherSteps
<1>4. CASE \E p \in Pool : Fetch(p) \/ \E m \in Msg : Finish(p, m)
  BY <1>4, PoolSteps
<1> QED
  BY <1>1, <1>2, <1>3, <1>4 DEF Next

(* The runtime implements Delivery, for any sources, pools, buffers,       *)
(* queues, registrations and Stop calls: a message is handled at most once,*)
(* is fetched by a goroutine of its pool after those of its source that go *)
(* to the same pool, and is lost only when it comes out of its source or,  *)
(* once the runtime is stopping, on the way from its dispatcher to the     *)
(* pool.                                                                   *)
THEOREM ImplementsDelivery == Spec => Delivers
<1>1. Spec => [](IInv /\ StatusFacts)
  BY Invariance, StatusIs, PTL
<1>2. (IInv /\ StatusFacts) /\ (IInv /\ StatusFacts)' /\ [Next]_vars => [D!Next]_D!vars
  BY StepMaps
<1> QED
  BY <1>1, <1>2, InitMaps, PTL DEF Spec, Delivers, D!Spec
=============================================================================
