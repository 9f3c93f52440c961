------------------------- MODULE StripedRouteProofs -------------------------
(***************************************************************************)
(* Proofs about StripedRoute: behind a dispatcher, too, the pool does what *)
(* StripedPool says, and with one stripe it keeps the order of the source. *)
(***************************************************************************)
EXTENDS StripedRoute, StripedPoolProofs

(* The source hands over t before u.                                       *)
Ahead(t, u) == \E i, j \in DOMAIN Arrivals : i < j /\ t = Arrivals[i] /\ u = Arrivals[j]

Arrived(t) == \E i \in DOMAIN Arrivals : i <= arrived /\ t = Arrivals[i]
Buffered(t) == \E a \in DOMAIN buffer : buffer[a] = t

RouteTypes == arrived \in Nat /\ buffer \in Seq(Task)

(* A task is submitted once it has arrived and left the buffer.            *)
Coming ==
  \A t \in Routed : (~Arrived(t) \/ Buffered(t)) => submit[t] = "idle" /\ t \notin held

(* The buffer is in the order of the source, and behind what is held.      *)
InBuffer ==
  /\ \A a \in DOMAIN buffer : Arrived(buffer[a])
  /\ \A a, b \in DOMAIN buffer : a < b => Ahead(buffer[a], buffer[b])

(* One call at a time is made, which has not returned.                     *)
InHand ==
  /\ held \subseteq Routed
  /\ \A t, u \in held : t = u
  /\ \A t \in held : submit[t] \notin SubmitReturns
  /\ \A t \in held : \A a \in DOMAIN buffer : Ahead(t, buffer[a])

(* What was sent came before what is held or buffered.                     *)
SentBefore ==
  \A t \in Routed : IsSent(t) =>
    /\ \A u \in held : Ahead(t, u)
    /\ \A a \in DOMAIN buffer : Ahead(t, buffer[a])

(* The pool was sent the tasks in the order of the source.                 *)
SentInOrder == \A i, j \in DOMAIN sent : Ahead(sent[i], sent[j]) => i < j

RouteInv == RouteTypes /\ Coming /\ InBuffer /\ InHand /\ SentBefore /\ SentInOrder

-----------------------------------------------------------------------------
(* The order of the source *)

LEMMA AheadIs ==
  /\ \A i \in DOMAIN Arrivals : Arrivals[i] \in Task /\ Arrivals[i] \in Routed /\ i \in Nat \ {0}
  /\ Routed \subseteq Task
  /\ DOMAIN Arrivals = 1 .. Len(Arrivals) /\ Len(Arrivals) \in Nat
  /\ \A i, j \in DOMAIN Arrivals : Arrivals[i] = Arrivals[j] => i = j
  /\ \A i, j \in DOMAIN Arrivals : Ahead(Arrivals[i], Arrivals[j]) => i < j
  /\ \A t, u : Ahead(t, u) => t \in Routed /\ u \in Routed /\ t # u /\ ~Ahead(u, t)
<1>1. /\ DOMAIN Arrivals = 1 .. Len(Arrivals) /\ Len(Arrivals) \in Nat
      /\ \A i \in DOMAIN Arrivals : Arrivals[i] \in Task
  BY RouteAssumption, LenProperties, ElementOfSeq
<1>2. \A i, j \in DOMAIN Arrivals : Arrivals[i] = Arrivals[j] => i = j
  BY RouteAssumption
<1>3. \A i, j \in DOMAIN Arrivals : Ahead(Arrivals[i], Arrivals[j]) => i < j
  BY <1>1, <1>2 DEF Ahead
<1>4. \A t, u : Ahead(t, u) => t \in Routed /\ u \in Routed /\ t # u /\ ~Ahead(u, t)
  <2> SUFFICES ASSUME NEW t, NEW u, Ahead(t, u)
               PROVE  t \in Routed /\ u \in Routed /\ t # u /\ ~Ahead(u, t)
    OBVIOUS
  <2>1. PICK i \in DOMAIN Arrivals, j \in DOMAIN Arrivals :
          i < j /\ t = Arrivals[i] /\ u = Arrivals[j]
    BY DEF Ahead
  <2>2. i \in Nat /\ j \in Nat
    BY <1>1
  <2> QED
    BY <1>2, <1>3, <2>1, <2>2 DEF Routed
<1> QED
  BY <1>1, <1>2, <1>3, <1>4 DEF Routed

LEMMA ArrivedAhead ==
  ASSUME RouteTypes, NEW t, Arrived(t), arrived < Len(Arrivals)
  PROVE  Ahead(t, Arrivals[arrived + 1])
<1>1. arrived + 1 \in DOMAIN Arrivals /\ \A i \in DOMAIN Arrivals : i \in Nat
  BY AheadIs DEF RouteTypes
<1> QED
  BY <1>1 DEF Arrived, Ahead, RouteTypes

-----------------------------------------------------------------------------
(* What the steps of the pool do to the calls *)

LEMMA CallDoes ==
  ASSUME TypeOK, NEW t \in Task, SubmitCheck(t) \/ Submit(t) \/ SubmitCtx(t)
  PROVE  /\ submit[t] \notin SubmitReturns
         /\ \A u \in Task \ {t} : submit'[u] = submit[u]
         /\ \/ submit'[t] = "ok" /\ sent' = Append(sent, t)
            \/ submit'[t] # "ok" /\ sent' = sent
<1>1. CASE SubmitCheck(t)
  BY <1>1 DEF SubmitCheck, Return, Choose, TypeOK, SubmitReturns, logVars
<1>2. CASE SubmitChoose(t) \/ SubmitCount(t)
  BY <1>2 DEF SubmitChoose, SubmitCount, Return, Choose, TypeOK, SubmitReturns, logVars
<1>3. CASE SubmitSend(t)
  BY <1>3 DEF SubmitSend, Sent, Return, TypeOK, SubmitReturns
<1>4. CASE SubmitPanic(t) \/ SubmitStopped(t) \/ SubmitCtx(t)
  BY <1>4 DEF SubmitPanic, SubmitStopped, SubmitCtx, SubmitFails, Return, TypeOK, SubmitReturns,
     logVars
<1> QED
  BY <1>1, <1>2, <1>3, <1>4 DEF Submit

LEMMA PoolDoes == PoolStep => UNCHANGED <<submit, sent>>
BY DEF PoolStep, Start, CancelParent, StripeStep, StripeTake, ExecuteTask, StripeReturn,
   CancelDrain, DrainCall, PollStripe, DrainStep, PollDone, CloseQueue, CancelStripe, DrainReturn,
   DrainGoto, callVars, logVars

-----------------------------------------------------------------------------
(* The dispatcher makes calls as StripedPool lets anybody make them.       *)
LEMMA StepIsStep == [RouteNext]_allVars => [Next]_vars
<1>1. ASSUME NEW t \in Task, Direct(t) PROVE Next
  BY <1>1 DEF Direct, Next
<1>2. ASSUME NEW t \in Routed, Submitting(t) PROVE Next
  BY <1>2, AheadIs DEF Submitting, Next
<1>3. CASE TrySubmit \/ Take \/ Exit \/ EndRoute
  BY <1>3 DEF TrySubmit, Take, Exit, EndRoute
<1>4. CASE PoolStep
  BY <1>4 DEF Next
<1>5. CASE UNCHANGED allVars
  BY <1>5 DEF allVars
<1> QED
  BY <1>1, <1>2, <1>3, <1>4, <1>5 DEF RouteNext

(* Behind a dispatcher a StripedPool is a StripedPool: every theorem about *)
(* Spec holds of RouteSpec.                                                *)
THEOREM RouteIsPool == RouteSpec => Spec
<1>1. RouteInit => Init
  BY DEF RouteInit
<1> QED
  BY <1>1, StepIsStep, PTL DEF RouteSpec, Spec

-----------------------------------------------------------------------------
(* The order behind the dispatcher *)

LEMMA RouteInitIs == RouteInit => RouteInv
<1> SUFFICES ASSUME RouteInit PROVE RouteInv
  OBVIOUS
<1>1. /\ arrived = 0 /\ buffer = <<>> /\ held = {} /\ sent = <<>>
      /\ \A t \in Task : submit[t] = "idle"
      /\ DOMAIN buffer = {} /\ DOMAIN sent = {} /\ <<>> \in Seq(Task)
  BY EmptySeq DEF RouteInit, Init
<1>2. \A t \in Routed : t \in Task /\ ~IsSent(t)
  BY <1>1, AheadIs DEF IsSent
<1>3. RouteTypes /\ Coming /\ InHand
  BY <1>1, <1>2 DEF RouteTypes, Coming, InHand
<1>4. InBuffer /\ SentBefore /\ SentInOrder
  BY <1>1, <1>2 DEF InBuffer, SentBefore, SentInOrder
<1> QED
  BY <1>3, <1>4 DEF RouteInv

(* The tasks that the source hands over are the only ones it knows of.     *)
LEMMA OthersKeepRoute ==
  ASSUME TypeOK, TypeOK', RouteInv,
         \/ PoolStep /\ UNCHANGED routeVars
         \/ (\E t \in Task \ Routed : Direct(t)) /\ UNCHANGED routeVars
         \/ Exit \/ EndRoute \/ UNCHANGED allVars
  PROVE  RouteInv'
<1>1. UNCHANGED <<arrived, buffer, held>>
  BY DEF Exit, EndRoute, routeVars, allVars
<1>2. /\ \A u \in Routed : submit'[u] = submit[u]
      /\ sent' = sent \/ \E t \in Task \ Routed : sent' = Append(sent, t)
  <2>1. CASE \E t \in Task \ Routed : Direct(t)
    BY <2>1, CallDoes, AheadIs DEF Direct
  <2>2. CASE PoolStep \/ Exit \/ EndRoute \/ UNCHANGED allVars
    BY <2>2, PoolDoes DEF Exit, EndRoute, allVars, vars, callVars, logVars
  <2> QED
    BY <2>1, <2>2
<1>3. \A t : (Arrived(t)' <=> Arrived(t)) /\ (Buffered(t)' <=> Buffered(t))
  BY <1>1 DEF Arrived, Buffered
<1>4. RouteTypes' /\ InBuffer' /\ Coming'
  BY <1>1, <1>2, <1>3 DEF RouteInv, RouteTypes, InBuffer, Coming
<1>5. InHand' /\ SentBefore'
  BY <1>1, <1>2 DEF RouteInv, InHand, SentBefore, IsSent
<1>6. SentInOrder'
  <2>1. CASE sent' = sent
    BY <2>1 DEF RouteInv, SentInOrder
  <2>2. ASSUME NEW t \in Task \ Routed, sent' = Append(sent, t) PROVE SentInOrder'
    <3>1. /\ DOMAIN sent = 1 .. Len(sent) /\ Len(sent) \in Nat
          /\ DOMAIN sent' = 1 .. Len(sent) + 1
          /\ sent'[Len(sent) + 1] = t /\ \A i \in DOMAIN sent : sent'[i] = sent[i]
      <4>1. sent \in Seq(Task)
        BY DEF TypeOK
      <4> QED
        BY <2>2, <4>1, AppendProperties, LenProperties
    <3>2. \A i \in DOMAIN sent' : sent'[i] \in Routed => i \in DOMAIN sent
      BY <3>1
    <3> QED
      BY <3>1, <3>2, AheadIs DEF RouteInv, SentInOrder
  <2> QED
    BY <1>2, <2>1, <2>2
<1> QED
  BY <1>4, <1>5, <1>6 DEF RouteInv

(* A task that arrives comes after all others.                             *)
LEMMA TrySubmitKeepsRoute ==
  ASSUME TypeOK, RouteInv, TrySubmit
  PROVE  RouteInv'
<1> DEFINE m == arrived + 1
           new == Arrivals[m]
<1>1. /\ arrived \in Nat /\ m \in DOMAIN Arrivals /\ new \in Task /\ new \in Routed
      /\ arrived' = m /\ UNCHANGED <<vars, held>>
      /\ buffer' = buffer \/ buffer' = Append(buffer, new)
      /\ arrived < Len(Arrivals)
  BY AheadIs, SMTT(30) DEF TrySubmit, RouteInv, RouteTypes
<1>2. UNCHANGED <<submit, sent>>
  BY <1>1 DEF vars, callVars, logVars
<1>3. \A t : Arrived(t) => Ahead(t, new)
  BY <1>1, ArrivedAhead DEF RouteInv
<1>4. \A t : Arrived(t)' <=> Arrived(t) \/ t = new
  <2>1. \A i \in DOMAIN Arrivals : i \in Nat /\ (i <= m <=> i <= arrived \/ i = m)
    BY <1>1, AheadIs
  <2> QED
    BY <1>1, <2>1 DEF Arrived
<1>5. ~Arrived(new)
  BY <1>3, AheadIs
<1>6. submit[new] = "idle" /\ new \notin held
  BY <1>1, <1>5 DEF RouteInv, Coming
<1>7. \A t \in held : Arrived(t)
  BY DEF RouteInv, Coming, InHand
<1>8. \A t \in Routed : IsSent(t) => Arrived(t)
  BY DEF RouteInv, Coming, IsSent
<1>9. CASE buffer' = buffer
  <2>1. RouteTypes' /\ Coming' /\ InBuffer'
    BY <1>1, <1>2, <1>4, <1>9 DEF RouteInv, RouteTypes, Coming, InBuffer, Buffered
  <2>2. InHand' /\ SentBefore' /\ SentInOrder'
    BY <1>1, <1>2, <1>9 DEF RouteInv, InHand, SentBefore, SentInOrder, IsSent
  <2> QED
    BY <2>1, <2>2 DEF RouteInv
<1>10. CASE buffer' = Append(buffer, new)
  <2> HIDE DEF m, new
  <2>1. /\ DOMAIN buffer = 1 .. Len(buffer) /\ Len(buffer) \in Nat /\ buffer' \in Seq(Task)
        /\ DOMAIN buffer' = 1 .. Len(buffer) + 1
        /\ buffer'[Len(buffer) + 1] = new /\ \A a \in DOMAIN buffer : buffer'[a] = buffer[a]
    BY <1>1, <1>10, AppendProperties, LenProperties DEF RouteInv, RouteTypes
  <2>2. \A a \in DOMAIN buffer' : /\ a = Len(buffer) + 1 \/ a \in DOMAIN buffer
                                  /\ a \in Nat
    BY <2>1
  <2>3. \A t : Buffered(t)' <=> Buffered(t) \/ t = new
    BY <2>1, <2>2 DEF Buffered
  <2>4. RouteTypes' /\ Coming'
    BY <1>1, <1>2, <1>4, <1>6, <2>1, <2>3 DEF RouteInv, RouteTypes, Coming
  <2>5. InBuffer'
    <3>1. \A a \in DOMAIN buffer' : Arrived(buffer'[a]) \/ buffer'[a] = new
      BY <2>1, <2>2 DEF RouteInv, InBuffer
    <3>2. ASSUME NEW a \in DOMAIN buffer', NEW b \in DOMAIN buffer', a < b
          PROVE  Ahead(buffer'[a], buffer'[b])
      <4>1. a \in DOMAIN buffer
        BY <2>1, <2>2, <3>2
      <4> QED
        BY <1>3, <2>1, <2>2, <3>2, <4>1 DEF RouteInv, InBuffer
    <3> QED
      BY <1>4, <3>1, <3>2 DEF InBuffer, Ahead
  <2>6. InHand'
    <3>1. \A t \in held : \A a \in DOMAIN buffer' : Ahead(t, buffer'[a])
      BY <1>3, <1>7, <2>1, <2>2 DEF RouteInv, InHand
    <3> QED
      BY <1>1, <1>2, <3>1 DEF RouteInv, InHand, Ahead
  <2>7. SentBefore'
    <3>1. \A t \in Routed : IsSent(t) => \A a \in DOMAIN buffer' : Ahead(t, buffer'[a])
      BY <1>3, <1>8, <2>1, <2>2 DEF RouteInv, SentBefore
    <3> QED
      BY <1>1, <1>2, <3>1 DEF RouteInv, SentBefore, Ahead, IsSent
  <2>8. SentInOrder'
    BY <1>2 DEF RouteInv, SentInOrder, Ahead
  <2> QED
    BY <2>4, <2>5, <2>6, <2>7, <2>8 DEF RouteInv
<1> QED
  BY <1>1, <1>9, <1>10

LEMMA TakeKeepsRoute ==
  ASSUME TypeOK, RouteInv, Take
  PROVE  RouteInv'
<1> DEFINE first == Head(buffer)
<1>1. /\ held = {} /\ held' = {first} /\ buffer' = Tail(buffer) /\ UNCHANGED <<vars, arrived>>
      /\ buffer # <<>> /\ buffer \in Seq(Task)
  BY DEF Take, Free, RouteInv, RouteTypes
<1>2. UNCHANGED <<submit, sent>>
  BY <1>1 DEF vars, callVars, logVars
<1>3. /\ Len(buffer) \in Nat \ {0} /\ DOMAIN buffer = 1 .. Len(buffer) /\ first = buffer[1]
      /\ buffer' \in Seq(Task) /\ DOMAIN buffer' = 1 .. Len(buffer) - 1
      /\ \A a \in DOMAIN buffer' : buffer'[a] = buffer[a + 1]
  BY <1>1, HeadTailProperties, EmptySeq, LenProperties
<1> HIDE DEF first
<1>4. /\ \A a \in DOMAIN buffer' : a \in Nat /\ a + 1 \in DOMAIN buffer /\ 1 < a + 1
      /\ 1 \in DOMAIN buffer /\ Buffered(first)
  BY <1>3 DEF Buffered
<1>5. /\ \A a \in DOMAIN buffer' : Arrived(buffer'[a]) /\ Ahead(first, buffer'[a])
      /\ Arrived(first) /\ first \in Routed
  BY <1>3, <1>4 DEF RouteInv, InBuffer, Arrived, Routed
<1>6. \A t : (Arrived(t)' <=> Arrived(t)) /\ (Buffered(t)' => Buffered(t) /\ t # first)
  <2>1. \A t : Arrived(t)' <=> Arrived(t)
    BY <1>1 DEF Arrived
  <2>2. \A t : Buffered(t)' => Buffered(t) /\ t # first
    BY <1>3, <1>4, <1>5, AheadIs DEF Buffered
  <2> QED
    BY <2>1, <2>2
<1>7. RouteTypes' /\ Coming'
  BY <1>1, <1>2, <1>3, <1>5, <1>6 DEF RouteInv, RouteTypes, Coming
<1>8. InBuffer'
  <2>1. \A a, b \in DOMAIN buffer' : a < b => Ahead(buffer'[a], buffer'[b])
    <3> SUFFICES ASSUME NEW a \in DOMAIN buffer', NEW b \in DOMAIN buffer', a < b
                 PROVE  Ahead(buffer'[a], buffer'[b])
      OBVIOUS
    <3>1. a + 1 < b + 1
      BY <1>4
    <3> QED
      BY <1>3, <1>4, <3>1 DEF RouteInv, InBuffer
  <2> QED
    BY <1>5, <1>6, <2>1 DEF InBuffer, Ahead
<1>9. InHand'
  <2>1. submit[first] = "idle"
    BY <1>4, <1>5 DEF RouteInv, Coming
  <2> QED
    BY <1>1, <1>2, <1>5, <2>1 DEF InHand, Ahead, SubmitReturns
<1>10. SentBefore'
  <2>1. \A t \in Routed : IsSent(t) => Ahead(t, first) /\ \A a \in DOMAIN buffer' : Ahead(t, buffer'[a])
    BY <1>3, <1>4 DEF RouteInv, SentBefore
  <2> QED
    BY <1>1, <1>2, <2>1 DEF SentBefore, Ahead, IsSent
<1>11. SentInOrder'
  BY <1>2 DEF RouteInv, SentInOrder, Ahead
<1> QED
  BY <1>7, <1>8, <1>9, <1>10, <1>11 DEF RouteInv

(* What is sent comes after all that was sent before.                      *)
LEMMA SubmittingKeepsRoute ==
  ASSUME TypeOK, TypeOK', RouteInv, SentOnce, NEW t \in Routed, Submitting(t)
  PROVE  RouteInv'
<1>1. /\ t \in Task /\ t \in held /\ UNCHANGED <<arrived, buffer>>
      /\ held' = IF submit'[t] \in SubmitReturns THEN held \ {t} ELSE held
  BY AheadIs DEF Submitting
<1>2. /\ \A u \in Task \ {t} : submit'[u] = submit[u]
      /\ \/ submit'[t] = "ok" /\ sent' = Append(sent, t)
         \/ submit'[t] # "ok" /\ sent' = sent
  BY <1>1, CallDoes DEF Submitting
<1>3. held = {t} /\ Routed \subseteq Task
  BY <1>1, AheadIs DEF RouteInv, InHand
<1>4. /\ \A u : (Arrived(u)' <=> Arrived(u)) /\ (Buffered(u)' <=> Buffered(u))
      /\ Arrived(t) /\ ~Buffered(t)
  BY <1>1 DEF Arrived, Buffered, RouteInv, Coming
<1>5. RouteTypes' /\ Coming' /\ InBuffer'
  BY <1>1, <1>2, <1>3, <1>4 DEF RouteInv, RouteTypes, Coming, InBuffer
<1>6. InHand'
  BY <1>1, <1>2, <1>3 DEF RouteInv, InHand
<1>7. CASE submit'[t] # "ok" /\ sent' = sent
  <2>1. SentBefore'
    BY <1>1, <1>2, <1>3, <1>7 DEF RouteInv, SentBefore, IsSent
  <2>2. SentInOrder'
    BY <1>7 DEF RouteInv, SentInOrder
  <2> QED
    BY <1>5, <1>6, <2>1, <2>2 DEF RouteInv
<1>8. CASE submit'[t] = "ok" /\ sent' = Append(sent, t)
  <2>1. held' = {}
    BY <1>1, <1>3, <1>8 DEF SubmitReturns
  <2>2. SentBefore'
    <3>1. \A u \in Routed : IsSent(u)' => IsSent(u) \/ u = t
      BY <1>2, <1>3 DEF IsSent
    <3>2. \A u \in Routed : IsSent(u)' => \A a \in DOMAIN buffer : Ahead(u, buffer[a])
      BY <1>3, <3>1 DEF RouteInv, SentBefore, InHand
    <3> QED
      BY <1>1, <2>1, <3>2 DEF SentBefore, Ahead
  <2>3. SentInOrder'
    <3>1. /\ DOMAIN sent = 1 .. Len(sent) /\ Len(sent) \in Nat
          /\ DOMAIN sent' = 1 .. Len(sent) + 1
          /\ sent'[Len(sent) + 1] = t
          /\ \A i \in DOMAIN sent : sent'[i] = sent[i] /\ sent[i] \in Task
      <4>1. sent \in Seq(Task)
        BY DEF TypeOK
      <4>2. \A i \in DOMAIN sent : sent[i] \in Task
        BY <4>1, ElementOfSeq, LenProperties
      <4> QED
        BY <1>1, <1>8, <4>1, <4>2, AppendProperties, LenProperties
    <3>2. \A i \in DOMAIN sent : ~Ahead(t, sent[i])
      BY <1>3, <3>1, AheadIs DEF RouteInv, SentBefore, SentOnce
    <3>3. ~Ahead(t, t)
      BY AheadIs
    <3> SUFFICES ASSUME NEW i \in DOMAIN sent', NEW j \in DOMAIN sent', Ahead(sent'[i], sent'[j])
                 PROVE  i < j
      BY DEF SentInOrder, Ahead
    <3>4. i \in DOMAIN sent
      BY <3>1, <3>2, <3>3
    <3> QED
      BY <3>1, <3>4 DEF RouteInv, SentInOrder
  <2> QED
    BY <1>5, <1>6, <2>2, <2>3 DEF RouteInv
<1> QED
  BY <1>2, <1>7, <1>8

THEOREM RouteInvariance == RouteSpec => []RouteInv
<1>1. RouteInv /\ IInv /\ IInv' /\ [RouteNext]_allVars => RouteInv'
  <2> SUFFICES ASSUME RouteInv, IInv, IInv', [RouteNext]_allVars PROVE RouteInv'
    OBVIOUS
  <2>1. TypeOK /\ TypeOK' /\ SentOnce
    BY DEF IInv, Ordered
  <2>2. CASE TrySubmit
    BY <2>1, <2>2, TrySubmitKeepsRoute
  <2>3. CASE Take
    BY <2>1, <2>3, TakeKeepsRoute
  <2>4. CASE \E t \in Routed : Submitting(t)
    BY <2>1, <2>4, SubmittingKeepsRoute
  <2> QED
    BY <2>1, <2>2, <2>3, <2>4, OthersKeepRoute DEF RouteNext
<1> QED
  BY <1>1, RouteInitIs, RouteIsPool, Invariance, PTL DEF RouteSpec

(* With one stripe the pool behind a dispatcher takes the messages of a    *)
(* key in the order in which the source handed them over and, if it was    *)
(* started once, handles them one by one.                                  *)
THEOREM RouteInOrder ==
  ASSUME N = 1
  PROVE  RouteSpec => []RouteOrder
<1>1. IInv /\ RouteInv => RouteOrder
  <2> SUFFICES ASSUME IInv, RouteInv, NEW i \in DOMAIN Arrivals, NEW j \in DOMAIN Arrivals, i < j,
                      Fetched(Arrivals[j]), IsSent(Arrivals[i])
               PROVE  Fetched(Arrivals[i]) /\ (started = 1 => Arrivals[i] \in done)
    BY DEF RouteOrder
  <2> DEFINE a == Arrivals[i]
             b == Arrivals[j]
  <2>1. a \in Task /\ b \in Task /\ Ahead(a, b)
    BY AheadIs DEF Ahead
  <2> HIDE DEF a, b
  <2>2. IsSent(a) /\ IsSent(b) /\ Fetched(b)
    BY <2>1 DEF a, b, Fetched, IInv, Ordered, InPlace
  <2>3. PICK x \in DOMAIN sent, y \in DOMAIN sent : sent[x] = a /\ sent[y] = b
    BY <2>1, <2>2 DEF IInv, Ordered, SentOnce
  <2>4. x < y
    BY <2>1, <2>3 DEF RouteInv, SentInOrder
  <2>5. idx[a] = idx[b]
    BY <2>1 DEF IInv, TypeOK, Stripe
  <2> QED
    BY <2>2, <2>3, <2>4, <2>5 DEF a, IInv, Ordered, StripeOrder
<1> QED
  BY <1>1, RouteInvariance, RouteIsPool, Invariance, PTL
=============================================================================
