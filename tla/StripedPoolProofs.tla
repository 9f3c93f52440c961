-------------------------- MODULE StripedPoolProofs --------------------------
(***************************************************************************)
(* Proofs about StripedPool, for any tasks and keys, any number of         *)
(* stripes, starts and DrainAndStop calls, and any capacity of the queues. *)
(***************************************************************************)
EXTENDS StripedPool, FiniteSetTheorems, SequenceTheorems, TLAPS

(* A call with a key never reads the counter, and is on the key's stripe.  *)
KeyedOnStripe ==
  \A t \in Keyed : /\ submit[t] # "choose"
                   /\ submit[t] \notin {"idle", "closed"} => idx[t] = ByKey(t)

(* A stripe has as many goroutines as there were starts, or fewer.         *)
RunningBounded == \A s \in Stripe : running[s] <= started

(* The calls whose task was counted and neither queued nor executed.       *)
Outstanding(s) ==
  {t \in Task : idx[t] = s /\ submit[t] \in {"select", "ctxErr", "stopped", "panic"}}

Finite == \A s \in Stripe : IsFiniteSet(job[s]) /\ IsFiniteSet(Outstanding(s))

(* What was sent is what was accepted, each task once.                     *)
SentOnce ==
  /\ \A t \in Task : IsSent(t) <=> \E i \in DOMAIN sent : sent[i] = t
  /\ \A i, j \in DOMAIN sent : sent[i] = sent[j] => i = j

(* A stripe executes and queues tasks that were sent to it, and what is    *)
(* queued was taken by no goroutine.                                       *)
InPlace ==
  /\ \A t \in done : IsSent(t)
  /\ \A s \in Stripe : \A t \in job[s] : IsSent(t) /\ idx[t] = s /\ t \notin done
  /\ \A s \in Stripe : \A a \in DOMAIN queue[s] :
       LET t == queue[s][a] IN IsSent(t) /\ idx[t] = s /\ ~Fetched(t)

(* What was sent and not taken is queued.                                  *)
NothingLost ==
  \A t \in Task : IsSent(t) =>
    Fetched(t) \/ \E a \in DOMAIN queue[idx[t]] : queue[idx[t]][a] = t

(* A queue is in the order in which its tasks were sent.                   *)
QueueInOrder ==
  \A s \in Stripe : \A a, b \in DOMAIN queue[s] : \A i, j \in DOMAIN sent :
    (a < b /\ sent[i] = queue[s][a] /\ sent[j] = queue[s][b]) => i < j

(* A stripe takes its tasks in the order in which they were sent, and with *)
(* one goroutine ends one before it takes the next.                        *)
StripeOrder ==
  \A i, j \in DOMAIN sent :
    (i < j /\ idx[sent[i]] = idx[sent[j]] /\ Fetched(sent[j])) =>
      Fetched(sent[i]) /\ (started = 1 => sent[i] \in done)

(* Nothing is taken before the pool is started.                            *)
StartedFirst == started = 0 => done = {} /\ \A s \in Stripe : job[s] = {}

(* The loops of DrainAndStop run in the one call that closed the pool.     *)
OneDrainer ==
  /\ closed <=> drainer # NoStopper
  /\ closed => drain[drainer] \notin {"idle", "already"}
  /\ \A d \in Stopper : drain[d] \notin {"idle", "already"} => d = drainer
  /\ ~closed => scan = 0
  /\ \A d \in Stopper : drain[d] \in {"close", "cancel"} => scan < N

OnlyLate(s) == \A a \in DOMAIN queue[s] : queue[s][a] \in late

(* A stripe that was found empty only gets late tasks, and all were found  *)
(* empty unless the context of the call ended.                             *)
PolledEmpty ==
  closed =>
    IF drain[drainer] = "poll" THEN \A s \in Stripe : s < scan => OnlyLate(s)
    ELSE drainer \in ctxDone \/ \A s \in Stripe : OnlyLate(s)

(* Success is reported when all goroutines have left.                      *)
AllLeft == \A d \in Stopper : drain[d] = "ok" => AllGone

Ordered == SentOnce /\ InPlace /\ NothingLost /\ QueueInOrder /\ StripeOrder /\ StartedFirst
Drained == OneDrainer /\ PolledEmpty /\ AllLeft

IInv ==
  /\ TypeOK /\ KeyedOnStripe /\ RunningBounded /\ Finite
  /\ Ordered
  /\ CountersBalance
  /\ Drained

-----------------------------------------------------------------------------
(* Initially nothing has happened. *)
LEMMA InitEstablishes == Init => IInv
<1> SUFFICES ASSUME Init PROVE IInv
  OBVIOUS
<1> USE DEF Init
<1>1. /\ \A s \in Stripe : job[s] = {} /\ Outstanding(s) = {} /\ queue[s] = <<>>
      /\ IsFiniteSet({}) /\ Cardinality({}) = 0
      /\ Len(<<>>) = 0 /\ DOMAIN sent = {} /\ \A s \in Stripe : DOMAIN queue[s] = {}
      /\ <<>> \in Seq(Task)
  BY FS_EmptySet, EmptySeq DEF Outstanding
<1>2. 0 \in Stripe /\ 0 \in 0 .. Starts /\ 0 \in 0 .. N
  BY StripedAssumption DEF Stripe
<1>3. TypeOK
  BY <1>1, <1>2, StripedAssumption DEF TypeOK
<1>4. KeyedOnStripe
  BY StripedAssumption DEF KeyedOnStripe
<1>5. RunningBounded /\ Finite
  <2>1. \A s \in Stripe : IsFiniteSet(job[s]) /\ IsFiniteSet(Outstanding(s))
    BY <1>1
  <2> QED
    BY <2>1 DEF RunningBounded, Finite
<1>6. Ordered
  BY <1>1 DEF Ordered, SentOnce, InPlace, NothingLost, QueueInOrder, StripeOrder,
     StartedFirst, IsSent, Fetched
<1>7. CountersBalance
  <2> SUFFICES ASSUME NEW s \in Stripe
               PROVE  submitted[s] = processed[s] + panics[s] + Len(queue[s])
                                       + Cardinality(job[s]) + Cardinality(Outstanding(s))
    BY DEF CountersBalance, Outstanding
  <2>1. submitted[s] = 0 /\ processed[s] = 0 /\ panics[s] = 0
    OBVIOUS
  <2>2. Cardinality(job[s]) = 0 /\ Cardinality(Outstanding(s)) = 0 /\ Len(queue[s]) = 0
    BY <1>1
  <2> QED
    BY <2>1, <2>2
<1>8. Drained
  BY StripedAssumption DEF Drained, OneDrainer, PolledEmpty, AllLeft
<1> QED
  BY <1>3, <1>4, <1>5, <1>6, <1>7, <1>8 DEF IInv

(* The numbers that CountersBalance speaks of.                             *)
LEMMA Numbers ==
  ASSUME IInv, NEW s \in Stripe
  PROVE  /\ submitted[s] \in Nat /\ processed[s] \in Nat /\ panics[s] \in Nat
         /\ Len(queue[s]) \in Nat /\ running[s] \in Nat
         /\ Cardinality(job[s]) \in Nat /\ Cardinality(Outstanding(s)) \in Nat
         /\ submitted[s] = processed[s] + panics[s] + Len(queue[s])
                             + Cardinality(job[s]) + Cardinality(Outstanding(s))
<1>1. queue[s] \in Seq(Task) /\ IsFiniteSet(job[s]) /\ IsFiniteSet(Outstanding(s))
  BY DEF IInv, TypeOK, Finite
<1>2. Len(queue[s]) \in Nat /\ Cardinality(job[s]) \in Nat
      /\ Cardinality(Outstanding(s)) \in Nat
  BY <1>1, FS_CardinalityType, LenProperties
<1>3. running[s] \in Nat
  BY StripedAssumption DEF IInv, TypeOK
<1> QED
  BY <1>2, <1>3 DEF IInv, TypeOK, CountersBalance, Outstanding

-----------------------------------------------------------------------------
(* Submit and SubmitWithKey *)

(* A call that does not get its task in changes neither the order nor what *)
(* DrainAndStop has seen.                                                  *)
LEMMA CallKeeps ==
  ASSUME IInv, NEW t \in Task, NEW r, submit[t] # "ok", r # "ok",
         submit' = [submit EXCEPT ![t] = r],
         \A u \in Task \ {t} : idx'[u] = idx[u],
         Elsewhere, UNCHANGED <<logVars, queue>>
  PROVE  Ordered' /\ Drained' /\ RunningBounded'
<1> USE DEF Elsewhere, stripeVars, drainVars, startVars, logVars
<1>1. \A u \in Task : IsSent(u)' <=> IsSent(u)
  BY DEF IInv, TypeOK, IsSent
<1>2. \A u \in Task : IsSent(u) => idx'[u] = idx[u]
  BY DEF IsSent
<1>3. \A u : Fetched(u)' <=> Fetched(u)
  BY DEF Fetched
<1>4. \A i \in DOMAIN sent : sent[i] \in Task /\ IsSent(sent[i])
  BY ElementOfSeq, LenProperties DEF IInv, TypeOK, Ordered, SentOnce
<1>5. \A s \in Stripe : \A a \in DOMAIN queue[s] : queue[s][a] \in Task
  BY ElementOfSeq, LenProperties DEF IInv, TypeOK
<1>6. SentOnce'
  BY <1>1 DEF IInv, Ordered, SentOnce
<1>7. InPlace'
  BY <1>1, <1>2, <1>3, <1>5 DEF IInv, TypeOK, Ordered, InPlace
<1>8. NothingLost'
  BY <1>1, <1>2, <1>3 DEF IInv, Ordered, NothingLost
<1>9. QueueInOrder' /\ StartedFirst'
  BY DEF IInv, Ordered, QueueInOrder, StartedFirst
<1>10. StripeOrder'
  BY <1>2, <1>3, <1>4 DEF IInv, Ordered, StripeOrder
<1>11. Drained' /\ RunningBounded'
  BY DEF IInv, Drained, OneDrainer, PolledEmpty, OnlyLate, AllLeft, AllGone, RunningBounded
<1> QED
  BY <1>6, <1>7, <1>8, <1>9, <1>10, <1>11 DEF Ordered

(* The stripe that is chosen exists.                                       *)
LEMMA StripeChosen ==
  ASSUME IInv
  PROVE  /\ totalSubmitted % N \in Stripe
         /\ \A t \in Keyed : ByKey(t) \in Stripe
<1>1. \A n \in Nat : n % N \in Stripe
  BY StripedAssumption DEF Stripe
<1> QED
  BY <1>1, StripedAssumption DEF IInv, TypeOK, ByKey

LEMMA CheckKeeps ==
  ASSUME IInv, NEW t \in Task, SubmitCheck(t) \/ SubmitChoose(t)
  PROVE  IInv'
<1> USE DEF SubmitCheck, SubmitChoose, Choose, Return
<1> USE DEF Elsewhere, stripeVars, drainVars, startVars, logVars, countVars
<1>1. PICK r \in {"closed", "choose", "count"} :
        /\ submit' = [submit EXCEPT ![t] = r]
        /\ r = "choose" => t \notin Keyed
        /\ r = "count" /\ t \in Keyed => idx'[t] = ByKey(t)
  <2>1. CASE SubmitChoose(t)
    <3>1. t \notin Keyed
      BY <2>1 DEF IInv, KeyedOnStripe
    <3> QED
      BY <2>1, <3>1
  <2>2. CASE SubmitCheck(t)
    BY <2>2 DEF IInv, TypeOK
  <2> QED
    BY <2>1, <2>2
<1>2. idx' \in [Task -> Stripe] /\ \A u \in Task \ {t} : idx'[u] = idx[u]
  BY StripeChosen, ZenonT(30) DEF IInv, TypeOK
<1>3. submit[t] \in {"idle", "choose"} /\ UNCHANGED <<logVars, queue, countVars>>
  OBVIOUS
<1>4. TypeOK'
  BY <1>1, <1>2, ZenonT(30) DEF IInv, TypeOK, SubmitReturns
<1>5. KeyedOnStripe'
  BY <1>1, <1>2, StripedAssumption DEF IInv, TypeOK, KeyedOnStripe
<1>6. \A s \in Stripe : Outstanding(s)' = Outstanding(s)
  BY <1>1, <1>2, <1>3 DEF IInv, TypeOK, Outstanding
<1>7. Finite' /\ CountersBalance'
  BY <1>6 DEF IInv, Finite, CountersBalance, Outstanding
<1>8. Ordered' /\ Drained' /\ RunningBounded'
  BY <1>1, <1>2, <1>3, CallKeeps
<1> QED
  BY <1>4, <1>5, <1>7, <1>8 DEF IInv

LEMMA CountKeeps ==
  ASSUME IInv, NEW t \in Task, SubmitCount(t)
  PROVE  IInv'
<1> USE DEF SubmitCount, Return
<1> USE DEF Elsewhere, stripeVars, drainVars, startVars, logVars
<1>1. /\ idx[t] \in Stripe
      /\ \A s \in Stripe : submitted'[s] = IF s = idx[t] THEN submitted[s] + 1 ELSE submitted[s]
      /\ submitted' \in [Stripe -> Nat] /\ totalSubmitted' \in Nat
  BY DEF IInv, TypeOK
<1>2. TypeOK'
  BY <1>1 DEF IInv, TypeOK, SubmitReturns
<1>3. KeyedOnStripe'
  BY StripedAssumption DEF IInv, TypeOK, KeyedOnStripe
<1>4. Ordered' /\ Drained' /\ RunningBounded'
  BY CallKeeps
<1>5. \A s \in Stripe :
        /\ t \notin Outstanding(s)
        /\ Outstanding(s)' = IF s = idx[t] THEN Outstanding(s) \cup {t} ELSE Outstanding(s)
  BY DEF IInv, TypeOK, Outstanding
<1>6. \A s \in Stripe :
        /\ IsFiniteSet(Outstanding(s)')
        /\ Cardinality(Outstanding(s)') =
             IF s = idx[t] THEN Cardinality(Outstanding(s)) + 1 ELSE Cardinality(Outstanding(s))
  <2> TAKE s \in Stripe
  <2>1. IsFiniteSet(Outstanding(s))
    BY DEF IInv, Finite
  <2> QED
    BY <1>5, <2>1, FS_AddElement
<1>7. Finite'
  BY <1>6 DEF IInv, Finite
<1>8. CountersBalance'
  <2> SUFFICES ASSUME NEW s \in Stripe
               PROVE  submitted'[s] = processed[s] + panics[s] + Len(queue[s])
                                        + Cardinality(job[s]) + Cardinality(Outstanding(s)')
    BY DEF CountersBalance, Outstanding
  <2>1. /\ submitted[s] = processed[s] + panics[s] + Len(queue[s])
                           + Cardinality(job[s]) + Cardinality(Outstanding(s))
        /\ processed[s] \in Nat /\ panics[s] \in Nat /\ Len(queue[s]) \in Nat
        /\ Cardinality(job[s]) \in Nat /\ Cardinality(Outstanding(s)) \in Nat
    BY Numbers
  <2>2. CASE s = idx[t]
    <3>1. submitted'[s] = submitted[s] + 1
      BY <1>1, <2>2
    <3>2. Cardinality(Outstanding(s)') = Cardinality(Outstanding(s)) + 1
      BY <1>6, <2>2
    <3> DEFINE all     == submitted[s]
               waiting == Len(queue[s])
               atHand == Cardinality(job[s])
               open    == Cardinality(Outstanding(s))
               openNow == Cardinality(Outstanding(s)')
    <3>3. /\ all = processed[s] + panics[s] + waiting + atHand + open
          /\ processed[s] \in Nat /\ panics[s] \in Nat /\ waiting \in Nat
          /\ atHand \in Nat /\ open \in Nat /\ openNow = open + 1
      BY <2>1, <3>2
    <3> HIDE DEF SubmitCount, all, waiting, atHand, open, openNow
    <3>4. all + 1 = processed[s] + panics[s] + waiting + atHand + openNow
      BY <3>3
    <3> QED
      BY <3>1, <3>4 DEF all, waiting, atHand, openNow
  <2>3. CASE s # idx[t]
    BY <1>1, <1>6, <2>1, <2>3
  <2> QED
    BY <2>2, <2>3
<1> QED
  BY <1>2, <1>3, <1>4, <1>7, <1>8 DEF IInv

(* A call that fails leaves its count behind.                              *)
LEMMA FailKeeps ==
  ASSUME IInv, NEW t \in Task, NEW r \in {"panic", "stopped", "ctxErr"}, SubmitFails(t, r)
  PROVE  IInv'
<1> USE DEF SubmitFails, Return
<1> USE DEF Elsewhere, stripeVars, drainVars, startVars, logVars, countVars
<1>1. TypeOK'
  BY DEF IInv, TypeOK, SubmitReturns
<1>2. KeyedOnStripe'
  BY StripedAssumption DEF IInv, TypeOK, KeyedOnStripe
<1>3. Ordered' /\ Drained' /\ RunningBounded'
  BY CallKeeps
<1>4. \A s \in Stripe : Outstanding(s)' = Outstanding(s)
  BY DEF IInv, TypeOK, Outstanding
<1>5. Finite' /\ CountersBalance'
  BY <1>4 DEF IInv, Finite, CountersBalance, Outstanding
<1> QED
  BY <1>1, <1>2, <1>3, <1>5 DEF IInv

LEMMA SentTypes ==
  ASSUME IInv
  PROVE  /\ sent \in Seq(Task) /\ Len(sent) \in Nat /\ DOMAIN sent = 1 .. Len(sent)
         /\ \A i \in DOMAIN sent : i \in Nat /\ sent[i] \in Task /\ IsSent(sent[i])
<1>1. sent \in Seq(Task)
  BY DEF IInv, TypeOK
<1>2. Len(sent) \in Nat /\ DOMAIN sent = 1 .. Len(sent)
  BY <1>1, LenProperties
<1>3. \A i \in DOMAIN sent : i \in Nat /\ sent[i] \in Task
  BY <1>1, <1>2, ElementOfSeq
<1> QED
  BY <1>1, <1>2, <1>3 DEF IInv, Ordered, SentOnce

(* What a task that is sent adds to the order.                             *)
LEMMA SendAppends ==
  ASSUME IInv, NEW t \in Task, submit[t] = "select", Sent(t)
  PROVE  /\ sent' \in Seq(Task)
         /\ DOMAIN sent' = DOMAIN sent \cup {Len(sent) + 1}
         /\ Len(sent) + 1 \notin DOMAIN sent
         /\ sent'[Len(sent) + 1] = t
         /\ \A i \in DOMAIN sent : /\ sent'[i] = sent[i] /\ sent[i] # t /\ i < Len(sent) + 1
                                   /\ sent[i] \in Task /\ IsSent(sent[i])
         /\ \A u \in Task : IsSent(u)' <=> IsSent(u) \/ u = t
         /\ SentOnce' /\ ~IsSent(t) /\ ~Fetched(t)
<1> DEFINE n == Len(sent)
<1> USE DEF Sent, Return
<1>1. ~IsSent(t) /\ \A u \in Task : IsSent(u)' <=> IsSent(u) \/ u = t
  BY DEF IInv, TypeOK, IsSent
<1>2. /\ sent \in Seq(Task) /\ n \in Nat
      /\ sent' \in Seq(Task) /\ Len(sent') = n + 1
      /\ DOMAIN sent = 1 .. n /\ DOMAIN sent' = 1 .. n + 1
      /\ sent'[n + 1] = t
      /\ \A i \in 1 .. n : sent'[i] = sent[i]
  BY AppendProperties, LenProperties DEF IInv, TypeOK
<1>3. DOMAIN sent' = DOMAIN sent \cup {n + 1} /\ n + 1 \notin DOMAIN sent
      /\ \A i \in DOMAIN sent : i < n + 1
  BY <1>2
<1>4. \A i \in DOMAIN sent : sent[i] \in Task /\ IsSent(sent[i]) /\ sent[i] # t
  BY <1>1, <1>2, ElementOfSeq DEF IInv, Ordered, SentOnce
<1>5. SentOnce'
  BY <1>1, <1>2, <1>3, <1>4 DEF IInv, Ordered, SentOnce
<1>6. ~Fetched(t)
  BY <1>1 DEF IInv, Ordered, InPlace, Fetched
<1> QED
  BY <1>1, <1>2, <1>3, <1>4, <1>5, <1>6

(* Where a goroutine of a stripe waits, the pool was started, and if only  *)
(* once, nothing else is executed there.                                   *)
LEMMA WaitingAlone ==
  ASSUME IInv, NEW s \in Stripe, Waiting(s)
  PROVE  started # 0 /\ (started = 1 => job[s] = {})
<1>1. started \in Nat
  BY StripedAssumption DEF IInv, TypeOK
<1>2. running[s] <= started /\ IsFiniteSet(job[s])
  BY DEF IInv, RunningBounded, Finite
<1>3. running[s] \in Nat /\ Cardinality(job[s]) \in Nat
  BY Numbers
<1>4. started # 0 /\ (started = 1 => Cardinality(job[s]) = 0)
  BY <1>1, <1>2, <1>3 DEF Waiting
<1> QED
  BY <1>2, <1>4, FS_EmptySet

(* A task that is sent moves out of Outstanding.                           *)
LEMMA SendCounts ==
  ASSUME IInv, NEW t \in Task, submit[t] = "select", Sent(t)
  PROVE  \A s \in Stripe :
           /\ IsFiniteSet(Outstanding(s)')
           /\ Cardinality(Outstanding(s)') =
                IF s = idx[t] THEN Cardinality(Outstanding(s)) - 1
                              ELSE Cardinality(Outstanding(s))
<1> TAKE s \in Stripe
<1>1. Outstanding(s)' = IF s = idx[t] THEN Outstanding(s) \ {t} ELSE Outstanding(s)
  BY DEF IInv, TypeOK, Outstanding, Sent, Return
<1>2. s = idx[t] => t \in Outstanding(s)
  BY DEF Outstanding
<1>3. IsFiniteSet(Outstanding(s))
  BY DEF IInv, Finite
<1> QED
  BY <1>1, <1>2, <1>3, FS_RemoveElement

(* The task goes to the end of the queue.                                  *)
LEMMA QueueKeeps ==
  ASSUME IInv, NEW t \in Task, submit[t] = "select", Sent(t),
         Len(queue[idx[t]]) < QueueSize,
         queue' = [queue EXCEPT ![idx[t]] = Append(@, t)],
         UNCHANGED <<stripeVars, countVars, drainVars, startVars>>
  PROVE  IInv'
<1> DEFINE s == idx[t]
           n == Len(sent)
           m == Len(queue[s])
<1> USE DEF stripeVars, countVars, drainVars, startVars
<1>1. s \in Stripe /\ idx' = idx /\ submit' = [submit EXCEPT ![t] = "ok"]
      /\ late' = (IF closed THEN late \cup {t} ELSE late)
  BY DEF IInv, TypeOK, Sent, Return
<1>2. /\ queue[s] \in Seq(Task) /\ m \in Nat
      /\ Append(queue[s], t) \in Seq(Task) /\ Len(Append(queue[s], t)) = m + 1
      /\ DOMAIN queue[s] = 1 .. m /\ DOMAIN Append(queue[s], t) = 1 .. m + 1
      /\ Append(queue[s], t)[m + 1] = t
      /\ \A a \in 1 .. m : Append(queue[s], t)[a] = queue[s][a]
  BY <1>1, AppendProperties, LenProperties DEF IInv, TypeOK
<1>3. /\ \A x \in Stripe \ {s} : queue'[x] = queue[x]
      /\ queue'[s] = Append(queue[s], t)
      /\ DOMAIN queue'[s] = DOMAIN queue[s] \cup {m + 1} /\ m + 1 \notin DOMAIN queue[s]
      /\ queue'[s][m + 1] = t
      /\ \A a \in DOMAIN queue[s] : queue'[s][a] = queue[s][a] /\ a < m + 1
  <2>1. queue' = [queue EXCEPT ![s] = Append(queue[s], t)] /\ DOMAIN queue = Stripe
    BY DEF IInv, TypeOK
  <2> HIDE DEF s, m
  <2> QED
    BY <1>1, <1>2, <2>1
<1>4. \A x \in Stripe : \A a \in DOMAIN queue[x] :
        queue[x][a] \in Task /\ queue[x][a] # t /\ IsSent(queue[x][a])
  <2> TAKE x \in Stripe
  <2>1. queue[x] \in Seq(Task) /\ DOMAIN queue[x] = 1 .. Len(queue[x])
    BY LenProperties DEF IInv, TypeOK
  <2> TAKE a \in DOMAIN queue[x]
  <2>2. queue[x][a] \in Task
    BY <2>1, ElementOfSeq
  <2>3. IsSent(queue[x][a])
    BY DEF IInv, Ordered, InPlace
  <2> QED
    BY <2>2, <2>3, SendAppends
<1>5. \A u : Fetched(u)' <=> Fetched(u)
  BY DEF Fetched
<1>6. TypeOK'
  <2>1. queue' \in [Stripe -> Seq(Task)]
    BY <1>1, <1>2 DEF IInv, TypeOK
  <2>2. \A x \in Stripe \ {s} : Len(queue'[x]) <= QueueSize
    BY <1>3 DEF IInv, TypeOK
  <2>3. Len(queue'[s]) <= QueueSize
    <3>1. m < QueueSize /\ QueueSize \in Nat
      BY StripedAssumption
    <3> QED
      BY <1>2, <1>3, <3>1
  <2>4. submit' \in [Task -> {"idle", "choose", "count", "select"} \cup SubmitReturns]
        /\ late' \subseteq Task
    BY <1>1 DEF IInv, TypeOK, SubmitReturns
  <2> QED
    BY <1>1, <2>1, <2>2, <2>3, <2>4, SendAppends DEF IInv, TypeOK
<1>7. KeyedOnStripe' /\ RunningBounded'
  BY <1>1, StripedAssumption DEF IInv, TypeOK, KeyedOnStripe, RunningBounded
<1>8. InPlace'
  <2>1. \A u \in done : IsSent(u)'
    BY SendAppends DEF IInv, TypeOK, Ordered, InPlace
  <2>2. \A x \in Stripe : \A u \in job[x] : IsSent(u)' /\ idx[u] = x /\ u \notin done
    BY SendAppends DEF IInv, TypeOK, Ordered, InPlace
  <2>3. ASSUME NEW x \in Stripe, NEW a \in DOMAIN queue'[x]
        PROVE  LET u == queue'[x][a] IN submit'[u] = "ok" /\ idx[u] = x /\ ~Fetched(u)
    <3>1. CASE a \in DOMAIN queue[x]
      <4>1. queue'[x][a] = queue[x][a]
        BY <1>3, <3>1
      <4>2. IsSent(queue[x][a]) /\ idx[queue[x][a]] = x /\ ~Fetched(queue[x][a])
        BY <3>1 DEF IInv, Ordered, InPlace
      <4> QED
        BY <1>4, <3>1, <4>1, <4>2, SendAppends DEF IsSent
    <3>2. CASE a \notin DOMAIN queue[x]
      <4>1. x = s /\ queue'[x][a] = t
        BY <1>3, <3>2
      <4>2. submit'[t] = "ok"
        BY SendAppends DEF IsSent
      <4> QED
        BY <4>1, <4>2, SendAppends
    <3> QED
      BY <3>1, <3>2
  <2> QED
    BY <1>1, <1>5, <2>1, <2>2, <2>3 DEF InPlace, IsSent
<1>9. NothingLost'
  <2> SUFFICES ASSUME NEW u \in Task, IsSent(u)', ~Fetched(u)
               PROVE  \E a \in DOMAIN queue'[idx[u]] : queue'[idx[u]][a] = u
    BY <1>1, <1>5 DEF NothingLost
  <2>1. CASE u = t
    BY <1>3, <2>1
  <2>2. CASE u # t
    <3>1. PICK a \in DOMAIN queue[idx[u]] : queue[idx[u]][a] = u
      BY <2>2, SendAppends DEF IInv, Ordered, NothingLost
    <3>2. idx[u] \in Stripe
      BY DEF IInv, TypeOK
    <3> QED
      BY <1>3, <3>1, <3>2
  <2> QED
    BY <2>1, <2>2
<1>10. QueueInOrder'
  <2> SUFFICES ASSUME NEW x \in Stripe, NEW a \in DOMAIN queue'[x], NEW b \in DOMAIN queue'[x],
                      NEW i \in DOMAIN sent', NEW j \in DOMAIN sent',
                      a < b, sent'[i] = queue'[x][a], sent'[j] = queue'[x][b]
               PROVE  i < j
    BY DEF QueueInOrder
  <2>1. a \in DOMAIN queue[x] /\ queue'[x][a] = queue[x][a]
    BY <1>2, <1>3
  <2>2. i \in DOMAIN sent /\ sent[i] = queue[x][a]
    BY <1>4, <2>1, SendAppends
  <2>3. CASE b \in DOMAIN queue[x]
    <3>1. queue'[x][b] = queue[x][b]
      BY <1>3, <2>3
    <3>2. j \in DOMAIN sent /\ sent[j] = queue[x][b]
      BY <1>4, <2>3, <3>1, SendAppends
    <3> QED
      BY <2>1, <2>2, <2>3, <3>2 DEF IInv, Ordered, QueueInOrder
  <2>4. CASE b \notin DOMAIN queue[x]
    <3>1. sent'[j] = t
      BY <1>3, <2>4
    <3>2. j = Len(sent) + 1
      BY <3>1, SendAppends
    <3> QED
      BY <2>2, <3>2, SendAppends
  <2> QED
    BY <2>3, <2>4
<1>11. StripeOrder' /\ StartedFirst'
  <2> SUFFICES ASSUME NEW i \in DOMAIN sent', NEW j \in DOMAIN sent', i < j,
                      idx[sent'[i]] = idx[sent'[j]], Fetched(sent'[j])
               PROVE  Fetched(sent'[i]) /\ (started = 1 => sent'[i] \in done)
    BY <1>1, <1>5 DEF StripeOrder, IInv, Ordered, StartedFirst
  <2>1. j \in DOMAIN sent
    BY SendAppends
  <2>2. i \in DOMAIN sent
    <3>1. sent \in Seq(Task)
      BY DEF IInv, TypeOK
    <3>2. j \in 1 .. Len(sent) /\ Len(sent) \in Nat
      BY <2>1, <3>1, LenProperties
    <3> QED
      BY <3>2, SendAppends
  <2> QED
    BY <2>1, <2>2, SendAppends DEF IInv, Ordered, StripeOrder
<1>12. Ordered'
  BY <1>8, <1>9, <1>10, <1>11, SendAppends DEF Ordered
<1>13. Finite'
  BY SendCounts DEF IInv, Finite
<1>14. CountersBalance'
  <2> SUFFICES ASSUME NEW x \in Stripe
               PROVE  submitted[x] = processed[x] + panics[x] + Len(queue'[x])
                                        + Cardinality(job[x]) + Cardinality(Outstanding(x)')
    BY <1>1 DEF CountersBalance, Outstanding
  <2>1. /\ submitted[x] = processed[x] + panics[x] + Len(queue[x])
                           + Cardinality(job[x]) + Cardinality(Outstanding(x))
        /\ processed[x] \in Nat /\ panics[x] \in Nat /\ Len(queue[x]) \in Nat
        /\ Cardinality(job[x]) \in Nat /\ Cardinality(Outstanding(x)) \in Nat
    BY Numbers
  <2>2. Cardinality(Outstanding(x)') = IF x = s THEN Cardinality(Outstanding(x)) - 1
                                                ELSE Cardinality(Outstanding(x))
    BY SendCounts
  <2>3. Len(queue'[x]) = IF x = s THEN Len(queue[x]) + 1 ELSE Len(queue[x])
    BY <1>2, <1>3
  <2>4. CASE x = s
    <3> DEFINE waiting == Len(queue[x])
               next    == Len(queue'[x])
               atHand  == Cardinality(job[x])
               open    == Cardinality(Outstanding(x))
               openNow == Cardinality(Outstanding(x)')
    <3>1. /\ openNow = open - 1 /\ next = waiting + 1
          /\ submitted[x] = processed[x] + panics[x] + waiting + atHand + open
          /\ processed[x] \in Nat /\ panics[x] \in Nat /\ waiting \in Nat
          /\ atHand \in Nat /\ open \in Nat
      BY <2>1, <2>2, <2>3, <2>4
    <3> HIDE DEF waiting, next, atHand, open, openNow
    <3>2. submitted[x] = processed[x] + panics[x] + next + atHand + openNow
      BY <3>1, SMTT(30)
    <3> QED
      BY <3>2 DEF next, atHand, openNow
  <2>5. CASE x # s
    BY <2>1, <2>2, <2>3, <2>5
  <2> QED
    BY <2>4, <2>5
<1>15. Drained'
  <2>1. closed => t \in late' /\ late \subseteq late'
    BY <1>1
  <2>2. ASSUME NEW x \in Stripe, closed, OnlyLate(x) PROVE OnlyLate(x)'
    BY <1>3, <2>1, <2>2 DEF OnlyLate
  <2>3. PolledEmpty'
    BY <2>2 DEF IInv, Drained, PolledEmpty
  <2> QED
    BY <2>3 DEF IInv, Drained, OneDrainer, AllLeft, AllGone
<1> QED
  BY <1>6, <1>7, <1>12, <1>13, <1>14, <1>15 DEF IInv

(* What a stripe took has ended when its only goroutine waits.             *)
LEMMA FetchedHasEnded ==
  ASSUME IInv, NEW s \in Stripe, Waiting(s), started = 1,
         NEW u \in Task, Fetched(u), idx[u] = s
  PROVE  u \in done
<1>1. job[s] = {}
  BY WaitingAlone
<1> QED
  BY <1>1 DEF Fetched, IInv, Ordered, InPlace

(* Adding a task to those a stripe executes.                               *)
LEMMA JobAdds ==
  ASSUME IInv, NEW s \in Stripe, Waiting(s), NEW u \in Task, u \notin job[s],
         job' = [job EXCEPT ![s] = @ \cup {u}], UNCHANGED <<running, done>>
  PROVE  /\ job' \in [Stripe -> SUBSET Task]
         /\ \A x \in Stripe :
              /\ IsFiniteSet(job'[x]) /\ Cardinality(job'[x]) <= running[x]
              /\ Cardinality(job'[x]) =
                   IF x = s THEN Cardinality(job[x]) + 1 ELSE Cardinality(job[x])
         /\ \A v : Fetched(v)' <=> Fetched(v) \/ v = u
<1>1. /\ job' \in [Stripe -> SUBSET Task]
      /\ \A x \in Stripe : job'[x] = IF x = s THEN job[x] \cup {u} ELSE job[x]
  BY DEF IInv, TypeOK
<1>2. ASSUME NEW x \in Stripe
      PROVE  /\ IsFiniteSet(job'[x])
             /\ Cardinality(job'[x]) =
                  IF x = s THEN Cardinality(job[x]) + 1 ELSE Cardinality(job[x])
  <2>1. IsFiniteSet(job[x])
    BY DEF IInv, Finite
  <2> QED
    BY <1>1, <2>1, FS_AddElement
<1>3. ASSUME NEW x \in Stripe PROVE Cardinality(job'[x]) <= running[x]
  <2>1. Cardinality(job[x]) \in Nat /\ running[x] \in Nat /\ Cardinality(job[x]) <= running[x]
    BY Numbers DEF IInv, TypeOK
  <2> QED
    BY <1>2, <2>1, SMTT(30) DEF Waiting
<1>4. \A v : Fetched(v)' <=> Fetched(v) \/ v = u
  BY <1>1 DEF Fetched
<1> QED
  BY <1>1, <1>2, <1>3, <1>4

(* The task goes to a goroutine that waits at the empty queue.             *)
LEMMA HandoffKeeps ==
  ASSUME IInv, NEW t \in Task, submit[t] = "select", Sent(t),
         Empty(idx[t]), Waiting(idx[t]),
         job' = [job EXCEPT ![idx[t]] = @ \cup {t}],
         UNCHANGED <<running, processed, panics, done, countVars, drainVars, startVars, queue>>
  PROVE  IInv'
<1> DEFINE s == idx[t]
<1> USE DEF countVars, drainVars, startVars
<1>1. s \in Stripe /\ idx' = idx /\ submit' = [submit EXCEPT ![t] = "ok"]
      /\ late' = (IF closed THEN late \cup {t} ELSE late)
  BY DEF IInv, TypeOK, Sent, Return
<1>2. t \notin job[s] /\ t \notin done
  BY <1>1, SendAppends DEF Fetched
<1>3. /\ job' \in [Stripe -> SUBSET Task]
      /\ \A x \in Stripe :
           /\ IsFiniteSet(job'[x]) /\ Cardinality(job'[x]) <= running[x]
           /\ Cardinality(job'[x]) =
                IF x = s THEN Cardinality(job[x]) + 1 ELSE Cardinality(job[x])
      /\ \A v : Fetched(v)' <=> Fetched(v) \/ v = t
  BY <1>1, <1>2, JobAdds
<1>4. DOMAIN queue[s] = {}
  BY <1>1, EmptySeq, LenProperties DEF Empty, IInv, TypeOK
<1>5. \A x \in Stripe : \A a \in DOMAIN queue[x] : queue[x][a] \in Task /\ queue[x][a] # t
  <2> TAKE x \in Stripe
  <2>1. queue[x] \in Seq(Task) /\ DOMAIN queue[x] = 1 .. Len(queue[x])
    BY LenProperties DEF IInv, TypeOK
  <2> TAKE a \in DOMAIN queue[x]
  <2>2. queue[x][a] \in Task
    BY <2>1, ElementOfSeq
  <2>3. IsSent(queue[x][a])
    BY DEF IInv, Ordered, InPlace
  <2> QED
    BY <2>2, <2>3, SendAppends
<1>6. TypeOK'
  <2>1. submit' \in [Task -> {"idle", "choose", "count", "select"} \cup SubmitReturns]
        /\ late' \subseteq Task
    BY <1>1 DEF IInv, TypeOK, SubmitReturns
  <2> QED
    BY <1>1, <1>3, <2>1, SendAppends DEF IInv, TypeOK
<1>7. KeyedOnStripe' /\ RunningBounded'
  BY <1>1, StripedAssumption DEF IInv, TypeOK, KeyedOnStripe, RunningBounded
<1>8. InPlace'
  <2>1. \A u \in done : submit'[u] = "ok"
    BY SendAppends DEF IInv, TypeOK, Ordered, InPlace, IsSent
  <2>2. \A x \in Stripe : \A u \in job'[x] : submit'[u] = "ok" /\ idx[u] = x /\ u \notin done
    <3>1. \A x \in Stripe : job'[x] = IF x = s THEN job[x] \cup {t} ELSE job[x]
      BY DEF IInv, TypeOK
    <3>2. \A x \in Stripe : \A u \in job[x] : u \in Task /\ IsSent(u) /\ idx[u] = x /\ u \notin done
      BY DEF IInv, TypeOK, Ordered, InPlace
    <3> QED
      BY <1>2, <3>1, <3>2, SendAppends DEF IsSent
  <2>3. ASSUME NEW x \in Stripe, NEW a \in DOMAIN queue[x]
        PROVE  LET u == queue[x][a] IN submit'[u] = "ok" /\ idx[u] = x /\ ~Fetched(u)'
    BY <1>3, <1>5, SendAppends DEF IInv, Ordered, InPlace, IsSent
  <2> QED
    BY <1>1, <2>1, <2>2, <2>3 DEF InPlace, IsSent
<1>9. NothingLost'
  BY <1>1, <1>3, SendAppends DEF IInv, Ordered, NothingLost
<1>10. QueueInOrder'
  <2> SUFFICES ASSUME NEW x \in Stripe, NEW a \in DOMAIN queue[x], NEW b \in DOMAIN queue[x],
                      NEW i \in DOMAIN sent', NEW j \in DOMAIN sent',
                      a < b, sent'[i] = queue[x][a], sent'[j] = queue[x][b]
               PROVE  i < j
    BY DEF QueueInOrder
  <2>1. i \in DOMAIN sent /\ sent[i] = queue[x][a] /\ j \in DOMAIN sent /\ sent[j] = queue[x][b]
    BY <1>5, SendAppends
  <2> QED
    BY <2>1 DEF IInv, Ordered, QueueInOrder
<1>11. StripeOrder'
  <2> SUFFICES ASSUME NEW i \in DOMAIN sent', NEW j \in DOMAIN sent', i < j,
                      idx[sent'[i]] = idx[sent'[j]], Fetched(sent'[j]) \/ sent'[j] = t
               PROVE  (Fetched(sent'[i]) \/ sent'[i] = t) /\ (started = 1 => sent'[i] \in done)
    BY <1>1, <1>3 DEF StripeOrder
  <2>1. sent \in Seq(Task) /\ Len(sent) \in Nat /\ DOMAIN sent = 1 .. Len(sent)
    BY LenProperties DEF IInv, TypeOK
  <2>2. i \in DOMAIN sent /\ sent'[i] = sent[i] /\ sent[i] \in Task /\ IsSent(sent[i])
    BY <2>1, SendAppends
  <2>3. CASE j \in DOMAIN sent
    <3>1. Fetched(sent[j]) /\ sent'[j] = sent[j]
      BY <2>3, SendAppends
    <3> QED
      BY <2>2, <2>3, <3>1 DEF IInv, Ordered, StripeOrder
  <2>4. CASE j \notin DOMAIN sent
    <3>1. idx[sent[i]] = s
      BY <2>2, <2>4, SendAppends
    <3>2. Fetched(sent[i])
      BY <1>4, <2>2, <3>1 DEF IInv, Ordered, NothingLost
    <3> QED
      BY <1>1, <2>2, <3>1, <3>2, FetchedHasEnded
  <2> QED
    BY <2>3, <2>4
<1>12. StartedFirst'
  BY <1>1, WaitingAlone DEF StartedFirst
<1>13. Ordered'
  BY <1>8, <1>9, <1>10, <1>11, <1>12, SendAppends DEF Ordered
<1>14. Finite'
  BY <1>3, SendCounts DEF IInv, Finite
<1>15. CountersBalance'
  <2> SUFFICES ASSUME NEW x \in Stripe
               PROVE  submitted[x] = processed[x] + panics[x] + Len(queue[x])
                                        + Cardinality(job'[x]) + Cardinality(Outstanding(x)')
    BY <1>1 DEF CountersBalance, Outstanding
  <2>1. /\ submitted[x] = processed[x] + panics[x] + Len(queue[x])
                           + Cardinality(job[x]) + Cardinality(Outstanding(x))
        /\ processed[x] \in Nat /\ panics[x] \in Nat /\ Len(queue[x]) \in Nat
        /\ Cardinality(job[x]) \in Nat /\ Cardinality(Outstanding(x)) \in Nat
    BY Numbers
  <2>2. CASE x = s
    <3> DEFINE waiting == Len(queue[x])
               atHand  == Cardinality(job[x])
               next    == Cardinality(job'[x])
               open    == Cardinality(Outstanding(x))
               openNow == Cardinality(Outstanding(x)')
    <3>1. /\ openNow = open - 1 /\ next = atHand + 1
          /\ submitted[x] = processed[x] + panics[x] + waiting + atHand + open
          /\ processed[x] \in Nat /\ panics[x] \in Nat /\ waiting \in Nat
          /\ atHand \in Nat /\ open \in Nat
      BY <1>3, <2>1, <2>2, SendCounts
    <3> HIDE DEF waiting, atHand, next, open, openNow
    <3>2. submitted[x] = processed[x] + panics[x] + waiting + next + openNow
      BY <3>1
    <3> QED
      BY <3>2 DEF waiting, next, openNow
  <2>3. CASE x # s
    BY <1>3, <2>1, <2>3, SendCounts
  <2> QED
    BY <2>2, <2>3
<1>16. Drained'
  <2>1. late \subseteq late'
    BY <1>1
  <2>2. ASSUME NEW x \in Stripe, OnlyLate(x) PROVE OnlyLate(x)'
    BY <2>1, <2>2 DEF OnlyLate
  <2>3. PolledEmpty'
    BY <2>2 DEF IInv, Drained, PolledEmpty
  <2> QED
    BY <2>3 DEF IInv, Drained, OneDrainer, AllLeft, AllGone
<1> QED
  BY <1>6, <1>7, <1>13, <1>14, <1>15, <1>16 DEF IInv

LEMMA SendKeeps ==
  ASSUME IInv, NEW t \in Task, SubmitSend(t)
  PROVE  IInv'
<1>1. CASE /\ Len(queue[idx[t]]) < QueueSize
           /\ queue' = [queue EXCEPT ![idx[t]] = Append(@, t)]
           /\ UNCHANGED job
  BY <1>1, QueueKeeps DEF SubmitSend, stripeVars
<1>2. CASE Empty(idx[t]) /\ Waiting(idx[t]) /\ job' = [job EXCEPT ![idx[t]] = @ \cup {t}]
           /\ UNCHANGED queue
  BY <1>2, HandoffKeeps DEF SubmitSend
<1> QED
  BY <1>1, <1>2 DEF SubmitSend

-----------------------------------------------------------------------------
(* The stripes *)

(* The oldest task of the queue is the next to be taken.                   *)
LEMMA TakeKeeps ==
  ASSUME IInv, NEW s \in Stripe, StripeTake(s)
  PROVE  IInv'
<1> DEFINE h == Head(queue[s])
           m == Len(queue[s])
<1> USE DEF StripeTake, callVars, countVars, logVars, drainVars, startVars
<1>1. /\ queue[s] \in Seq(Task) /\ m \in Nat \ {0} /\ h \in Task /\ h = queue[s][1]
      /\ Tail(queue[s]) \in Seq(Task) /\ Len(Tail(queue[s])) = m - 1
      /\ DOMAIN queue[s] = 1 .. m /\ DOMAIN Tail(queue[s]) = 1 .. m - 1
      /\ \A a \in 1 .. m - 1 : Tail(queue[s])[a] = queue[s][a + 1]
  BY HeadTailProperties, EmptySeq, LenProperties DEF IInv, TypeOK
<1>2. /\ \A x \in Stripe \ {s} : queue'[x] = queue[x]
      /\ queue'[s] = Tail(queue[s])
      /\ queue' \in [Stripe -> Seq(Task)]
      /\ \A x \in Stripe : job'[x] = IF x = s THEN job[x] \cup {h} ELSE job[x]
  BY <1>1 DEF IInv, TypeOK
<1>3. IsSent(h) /\ idx[h] = s /\ ~Fetched(h) /\ h \notin job[s] /\ h \notin done
  <2>1. IsSent(h) /\ idx[h] = s /\ ~Fetched(h)
    BY <1>1 DEF IInv, Ordered, InPlace
  <2> QED
    BY <2>1 DEF Fetched
<1>4. /\ job' \in [Stripe -> SUBSET Task]
      /\ \A x \in Stripe :
           /\ IsFiniteSet(job'[x]) /\ Cardinality(job'[x]) <= running[x]
           /\ Cardinality(job'[x]) =
                IF x = s THEN Cardinality(job[x]) + 1 ELSE Cardinality(job[x])
      /\ \A v : Fetched(v)' <=> Fetched(v) \/ v = h
  BY <1>1, <1>3, JobAdds
<1>5. PICK k \in DOMAIN sent : sent[k] = h
  BY <1>1, <1>3 DEF IInv, Ordered, SentOnce
<1>6. \A a \in DOMAIN queue[s] : queue[s][a] = h => a = 1
  <2> SUFFICES ASSUME NEW a \in DOMAIN queue[s], queue[s][a] = h, a # 1 PROVE FALSE
    OBVIOUS
  <2>1. 1 \in DOMAIN queue[s] /\ 1 < a
    BY <1>1
  <2>2. k < k
    BY <1>1, <1>5, <2>1 DEF IInv, Ordered, QueueInOrder
  <2>3. k \in Nat
    BY SentTypes
  <2> QED
    BY <2>2, <2>3
<1>7. TypeOK'
  <2>1. \A x \in Stripe : Len(queue'[x]) <= QueueSize
    BY <1>1, <1>2, StripedAssumption DEF IInv, TypeOK
  <2> QED
    BY <1>2, <1>4, <2>1 DEF IInv, TypeOK
<1>8. KeyedOnStripe' /\ RunningBounded'
  BY DEF IInv, KeyedOnStripe, RunningBounded
<1>9. SentOnce' /\ StartedFirst'
  BY WaitingAlone DEF IInv, Ordered, SentOnce, IsSent, StartedFirst
<1>10. InPlace'
  <2>1. \A x \in Stripe : \A u \in job'[x] : IsSent(u) /\ idx[u] = x /\ u \notin done
    BY <1>2, <1>3 DEF IInv, Ordered, InPlace
  <2>2. ASSUME NEW x \in Stripe, NEW a \in DOMAIN queue'[x]
        PROVE  LET u == queue'[x][a] IN IsSent(u) /\ idx[u] = x /\ ~Fetched(u) /\ u # h
    <3>1. CASE x = s
      <4>1. a + 1 \in DOMAIN queue[s] /\ queue'[s][a] = queue[s][a + 1] /\ a + 1 # 1
        BY <1>1, <1>2, <3>1
      <4> QED
        BY <1>6, <3>1, <4>1 DEF IInv, Ordered, InPlace
    <3>2. CASE x # s
      BY <1>2, <1>3, <3>2 DEF IInv, Ordered, InPlace
    <3> QED
      BY <3>1, <3>2
  <2> QED
    BY <1>4, <2>1, <2>2 DEF IInv, Ordered, InPlace, IsSent
<1>11. NothingLost'
  <2> SUFFICES ASSUME NEW u \in Task, IsSent(u), ~Fetched(u), u # h
               PROVE  \E a \in DOMAIN queue'[idx[u]] : queue'[idx[u]][a] = u
    BY <1>4 DEF NothingLost, IsSent
  <2>1. PICK a \in DOMAIN queue[idx[u]] : queue[idx[u]][a] = u
    BY DEF IInv, Ordered, NothingLost
  <2>2. CASE idx[u] = s
    <3>1. a - 1 \in DOMAIN queue'[s] /\ queue'[s][a - 1] = u
      BY <1>1, <1>2, <2>1, <2>2
    <3> QED
      BY <2>2, <3>1
  <2>3. CASE idx[u] # s
    <3>1. idx[u] \in Stripe
      BY DEF IInv, TypeOK
    <3> QED
      BY <1>2, <2>1, <2>3, <3>1
  <2> QED
    BY <2>2, <2>3
<1>12. QueueInOrder'
  <2> SUFFICES ASSUME NEW x \in Stripe, NEW a \in DOMAIN queue'[x], NEW b \in DOMAIN queue'[x],
                      NEW i \in DOMAIN sent, NEW j \in DOMAIN sent,
                      a < b, sent[i] = queue'[x][a], sent[j] = queue'[x][b]
               PROVE  i < j
    BY DEF QueueInOrder
  <2>1. CASE x = s
    <3>1. /\ a + 1 \in DOMAIN queue[s] /\ b + 1 \in DOMAIN queue[s] /\ a + 1 < b + 1
          /\ sent[i] = queue[s][a + 1] /\ sent[j] = queue[s][b + 1]
      BY <1>1, <1>2, <2>1
    <3> QED
      BY <3>1 DEF IInv, Ordered, QueueInOrder
  <2>2. CASE x # s
    BY <1>2, <2>2 DEF IInv, Ordered, QueueInOrder
  <2> QED
    BY <2>1, <2>2
<1>13. StripeOrder'
  <2> SUFFICES ASSUME NEW i \in DOMAIN sent, NEW j \in DOMAIN sent, i < j,
                      idx[sent[i]] = idx[sent[j]], Fetched(sent[j]) \/ sent[j] = h
               PROVE  (Fetched(sent[i]) \/ sent[i] = h) /\ (started = 1 => sent[i] \in done)
    BY <1>4 DEF StripeOrder
  <2>1. CASE Fetched(sent[j])
    BY <2>1 DEF IInv, Ordered, StripeOrder
  <2>2. CASE sent[j] = h
    <3>1. sent[i] \in Task /\ IsSent(sent[i]) /\ i \in Nat /\ k \in Nat
      BY SentTypes
    <3>2. j = k /\ idx[sent[i]] = s
      BY <1>3, <1>5, <2>2 DEF IInv, Ordered, SentOnce
    <3>3. Fetched(sent[i])
      <4> SUFFICES ASSUME NEW a \in DOMAIN queue[s], queue[s][a] = sent[i] PROVE FALSE
        BY <3>1, <3>2 DEF IInv, Ordered, NothingLost
      <4>1. CASE a = 1
        <5>1. i = k
          BY <1>1, <1>5, <4>1 DEF IInv, Ordered, SentOnce
        <5> QED
          BY <3>1, <3>2, <5>1
      <4>2. CASE a # 1
        <5>1. 1 \in DOMAIN queue[s] /\ 1 < a
          BY <1>1, <4>2
        <5>2. k < i
          BY <1>1, <1>5, <5>1 DEF IInv, Ordered, QueueInOrder
        <5> QED
          BY <3>1, <3>2, <5>2
      <4> QED
        BY <4>1, <4>2
    <3> QED
      BY <3>1, <3>2, <3>3, FetchedHasEnded
  <2> QED
    BY <2>1, <2>2
<1>14. Ordered'
  BY <1>9, <1>10, <1>11, <1>12, <1>13 DEF Ordered
<1>15. \A x \in Stripe : Outstanding(x)' = Outstanding(x)
  BY DEF Outstanding
<1>16. Finite'
  BY <1>4, <1>15 DEF IInv, Finite
<1>17. CountersBalance'
  <2> SUFFICES ASSUME NEW x \in Stripe
               PROVE  submitted[x] = processed[x] + panics[x] + Len(queue'[x])
                                        + Cardinality(job'[x]) + Cardinality(Outstanding(x))
    BY <1>15 DEF CountersBalance, Outstanding
  <2> DEFINE before == Len(queue[x])
             after  == Len(queue'[x])
  <2>1. /\ submitted[x] = processed[x] + panics[x] + before
                           + Cardinality(job[x]) + Cardinality(Outstanding(x))
        /\ processed[x] \in Nat /\ panics[x] \in Nat /\ before \in Nat
        /\ Cardinality(job[x]) \in Nat /\ Cardinality(Outstanding(x)) \in Nat
    BY Numbers
  <2>2. CASE x = s
    <3>1. after \in Nat /\ before = after + 1
      BY <1>1, <1>2, <2>2
    <3>2. Cardinality(job'[x]) = Cardinality(job[x]) + 1
      BY <1>4, <2>2
    <3> HIDE DEF StripeTake, before, after
    <3>3. submitted[x] = processed[x] + panics[x] + after
                           + Cardinality(job'[x]) + Cardinality(Outstanding(x))
      BY <2>1, <3>1, <3>2
    <3> QED
      BY <3>3 DEF after
  <2>3. CASE x # s
    BY <1>2, <1>4, <2>1, <2>3
  <2> QED
    BY <2>2, <2>3
<1>18. Drained'
  <2>1. ASSUME NEW x \in Stripe, OnlyLate(x) PROVE OnlyLate(x)'
    <3>1. CASE x = s
      <4>1. \A a \in DOMAIN queue'[s] :
              a + 1 \in DOMAIN queue[s] /\ queue'[s][a] = queue[s][a + 1]
        BY <1>1, <1>2
      <4> QED
        BY <2>1, <3>1, <4>1 DEF OnlyLate
    <3>2. CASE x # s
      BY <1>2, <2>1, <3>2 DEF OnlyLate
    <3> QED
      BY <3>1, <3>2
  <2>2. PolledEmpty'
    BY <2>1 DEF IInv, Drained, PolledEmpty
  <2> QED
    BY <2>2 DEF IInv, Drained, OneDrainer, AllLeft, AllGone
<1> QED
  BY <1>7, <1>8, <1>14, <1>16, <1>17, <1>18 DEF IInv

(* A task that ends, with or without a panic, was taken.                   *)
LEMMA ExecuteKeeps ==
  ASSUME IInv, NEW s \in Stripe, NEW t \in Task, ExecuteTask(s, t)
  PROVE  IInv'
<1> USE DEF ExecuteTask, Recovers, Completes
<1> USE DEF callVars, countVars, logVars, drainVars, startVars
<1>1. /\ job' \in [Stripe -> SUBSET Task] /\ running' = running
      /\ \A x \in Stripe : job'[x] = IF x = s THEN job[x] \ {t} ELSE job[x]
      /\ processed' \in [Stripe -> Nat] /\ panics' \in [Stripe -> Nat]
      /\ \A x \in Stripe \ {s} : processed'[x] = processed[x] /\ panics'[x] = panics[x]
      /\ \/ processed'[s] = processed[s] + 1 /\ panics'[s] = panics[s]
         \/ processed'[s] = processed[s] /\ panics'[s] = panics[s] + 1
  <2>1. job' \in [Stripe -> SUBSET Task] /\ running' = running
        /\ \A x \in Stripe : job'[x] = IF x = s THEN job[x] \ {t} ELSE job[x]
    BY DEF IInv, TypeOK
  <2>2. /\ processed \in [Stripe -> Nat] /\ panics \in [Stripe -> Nat]
        /\ processed[s] + 1 \in Nat /\ panics[s] + 1 \in Nat
    <3> HIDE DEF ExecuteTask, Recovers, Completes
    <3>1. processed \in [Stripe -> Nat] /\ panics \in [Stripe -> Nat]
      BY DEF IInv, TypeOK
    <3> QED
      BY <3>1
  <2>3. CASE t \in Faulty
    <3>1. panics' = [panics EXCEPT ![s] = panics[s] + 1] /\ processed' = processed
      BY <2>3
    <3> HIDE DEF ExecuteTask
    <3> QED
      BY <2>1, <2>2, <3>1
  <2>4. CASE t \notin Faulty
    <3>1. processed' = [processed EXCEPT ![s] = processed[s] + 1] /\ panics' = panics
      BY <2>4
    <3> HIDE DEF ExecuteTask
    <3> QED
      BY <2>1, <2>2, <3>1
  <2> QED
    BY <2>3, <2>4
<1>2. \A v : Fetched(v)' <=> Fetched(v)
  BY <1>1 DEF Fetched
<1>3. IsSent(t) /\ idx[t] = s /\ \A x \in Stripe : t \notin job'[x]
  BY <1>1 DEF IInv, Ordered, InPlace
<1>4. ASSUME NEW x \in Stripe
      PROVE  /\ IsFiniteSet(job'[x]) /\ Cardinality(job'[x]) <= running[x]
             /\ Cardinality(job'[x]) =
                  IF x = s THEN Cardinality(job[x]) - 1 ELSE Cardinality(job[x])
  <2>1. IsFiniteSet(job[x]) /\ Cardinality(job[x]) <= running[x]
        /\ Cardinality(job[x]) \in Nat /\ running[x] \in Nat
    BY Numbers DEF IInv, Finite, TypeOK
  <2>2. CASE x = s
    <3>1. IsFiniteSet(job'[x]) /\ Cardinality(job'[x]) = Cardinality(job[x]) - 1
      BY <1>1, <2>1, <2>2, FS_RemoveElement
    <3> QED
      BY <2>1, <2>2, <3>1
  <2>3. CASE x # s
    BY <1>1, <2>1, <2>3
  <2> QED
    BY <2>2, <2>3
<1>5. TypeOK'
  BY <1>1, <1>4 DEF IInv, TypeOK
<1>6. KeyedOnStripe' /\ RunningBounded'
  BY <1>1 DEF IInv, KeyedOnStripe, RunningBounded
<1>7. InPlace'
  <2>1. \A x \in Stripe : \A u \in job'[x] : IsSent(u) /\ idx[u] = x /\ u \notin done'
    BY <1>1, <1>3 DEF IInv, Ordered, InPlace
  <2>2. \A u \in done' : IsSent(u)
    BY <1>3 DEF IInv, Ordered, InPlace
  <2> QED
    BY <1>2, <2>1, <2>2 DEF IInv, Ordered, InPlace, IsSent
<1>8. SentOnce' /\ NothingLost' /\ QueueInOrder' /\ StripeOrder'
  BY <1>2 DEF IInv, Ordered, SentOnce, IsSent, NothingLost, QueueInOrder, StripeOrder
<1>9. StartedFirst'
  BY DEF IInv, Ordered, StartedFirst
<1>10. \A x \in Stripe : Outstanding(x)' = Outstanding(x)
  BY DEF Outstanding
<1>11. Finite'
  BY <1>4, <1>10 DEF IInv, Finite
<1>12. CountersBalance'
  <2> SUFFICES ASSUME NEW x \in Stripe
               PROVE  submitted[x] = processed'[x] + panics'[x] + Len(queue[x])
                                        + Cardinality(job'[x]) + Cardinality(Outstanding(x))
    BY <1>10 DEF CountersBalance, Outstanding
  <2> DEFINE queued == Len(queue[x])
  <2>1. /\ submitted[x] = processed[x] + panics[x] + queued
                           + Cardinality(job[x]) + Cardinality(Outstanding(x))
        /\ processed[x] \in Nat /\ panics[x] \in Nat /\ queued \in Nat
        /\ Cardinality(job[x]) \in Nat /\ Cardinality(Outstanding(x)) \in Nat
    BY Numbers
  <2> HIDE DEF queued
  <2>2. CASE x = s
    <3>1. Cardinality(job'[x]) \in Nat /\ Cardinality(job[x]) = Cardinality(job'[x]) + 1
      <4>1. IsFiniteSet(job'[x]) /\ Cardinality(job'[x]) = Cardinality(job[x]) - 1
        BY <1>4, <2>2
      <4>2. Cardinality(job'[x]) \in Nat
        BY <4>1, FS_CardinalityType
      <4> QED
        BY <2>1, <4>1, <4>2
    <3>2. \/ processed'[x] = processed[x] + 1 /\ panics'[x] = panics[x]
          \/ processed'[x] = processed[x] /\ panics'[x] = panics[x] + 1
      BY <1>1, <2>2
    <3> HIDE DEF ExecuteTask
    <3>3. submitted[x] = processed'[x] + panics'[x] + queued
                           + Cardinality(job'[x]) + Cardinality(Outstanding(x))
      BY <2>1, <3>1, <3>2
    <3> QED
      BY <3>3 DEF queued
  <2>3. CASE x # s
    BY <1>1, <1>4, <2>1, <2>3 DEF queued
  <2> QED
    BY <2>2, <2>3
<1>13. Drained'
  BY <1>1 DEF IInv, Drained, OneDrainer, PolledEmpty, OnlyLate, AllLeft, AllGone
<1> QED
  BY <1>5, <1>6, <1>7, <1>8, <1>9, <1>11, <1>12, <1>13 DEF IInv, Ordered

(* A goroutine that leaves was waiting.                                    *)
LEMMA ReturnKeeps ==
  ASSUME IInv, NEW s \in Stripe, StripeReturn(s)
  PROVE  IInv'
<1> USE DEF StripeReturn, callVars, countVars, logVars, drainVars, startVars
<1>1. /\ running[s] \in Nat /\ Cardinality(job[s]) \in Nat
      /\ Cardinality(job[s]) < running[s] /\ running[s] \in 0 .. Starts
  BY Numbers DEF Waiting, IInv, TypeOK
<1>2. running' \in [Stripe -> 0 .. Starts]
      /\ \A x \in Stripe : running'[x] = IF x = s THEN running[x] - 1 ELSE running[x]
  <2>1. running \in [Stripe -> 0 .. Starts] /\ running' = [running EXCEPT ![s] = running[s] - 1]
    BY DEF IInv, TypeOK
  <2>2. Starts \in Nat
    BY StripedAssumption
  <2> HIDE DEF StripeReturn
  <2>3. running[s] - 1 \in 0 .. Starts
    BY <1>1, <2>2
  <2> QED
    BY <2>1, <2>3
<1>3. TypeOK'
  <2>1. \A x \in Stripe : Cardinality(job[x]) <= running'[x]
    BY <1>1, <1>2 DEF IInv, TypeOK
  <2> QED
    BY <1>2, <2>1 DEF IInv, TypeOK
<1>4. KeyedOnStripe' /\ Finite' /\ CountersBalance'
  BY DEF IInv, KeyedOnStripe, Finite, CountersBalance, Outstanding
<1>5. RunningBounded'
  BY <1>1, <1>2, StripedAssumption DEF IInv, TypeOK, RunningBounded
<1>6. Ordered'
  BY DEF IInv, Ordered, SentOnce, InPlace, NothingLost, QueueInOrder, StripeOrder,
     StartedFirst, IsSent, Fetched
<1>7. \A d \in Stopper : drain[d] # "ok"
  BY <1>1 DEF IInv, Drained, AllLeft, AllGone
<1>8. Drained'
  BY <1>7 DEF IInv, Drained, OneDrainer, PolledEmpty, OnlyLate, AllLeft
<1> QED
  BY <1>3, <1>4, <1>5, <1>6, <1>8 DEF IInv

-----------------------------------------------------------------------------
(* Start, DrainAndStop and the contexts *)

(* No pool is started again that has been closed.                          *)
LEMMA StartKeeps ==
  ASSUME IInv, Start
  PROVE  IInv'
<1> USE DEF Start, callVars, countVars, logVars, drainVars
<1>1. /\ started \in Nat /\ started' = started + 1 /\ started' \in 0 .. Starts
      /\ \A x \in Stripe : /\ running[x] \in Nat /\ running[x] <= started
                           /\ running'[x] = running[x] + 1
                           /\ Cardinality(job[x]) \in Nat
  <2>1. /\ started \in Nat /\ started' = started + 1 /\ started' \in 0 .. Starts
    BY StripedAssumption DEF IInv, TypeOK
  <2>2. \A x \in Stripe : running[x] <= started /\ running'[x] = running[x] + 1
    BY DEF IInv, TypeOK, RunningBounded
  <2>3. \A x \in Stripe : running[x] \in Nat /\ Cardinality(job[x]) \in Nat
    BY Numbers
  <2> QED
    BY <2>1, <2>2, <2>3
<1>2. running' \in [Stripe -> 0 .. Starts]
  BY <1>1, StripedAssumption
<1>3. TypeOK'
  BY <1>1, <1>2, SMTT(30) DEF IInv, TypeOK
<1>4. KeyedOnStripe' /\ Finite' /\ CountersBalance'
  BY DEF IInv, KeyedOnStripe, Finite, CountersBalance, Outstanding
<1>5. RunningBounded'
  BY <1>1 DEF RunningBounded
<1>6. SentOnce' /\ InPlace' /\ NothingLost' /\ QueueInOrder'
  BY DEF IInv, Ordered, SentOnce, InPlace, NothingLost, QueueInOrder, IsSent, Fetched
<1>7. started' = 1 => \A u : ~Fetched(u)
  BY <1>1 DEF IInv, Ordered, StartedFirst, Fetched
<1>8. \A u : Fetched(u)' <=> Fetched(u)
  BY DEF Fetched
<1>9. StripeOrder'
  BY <1>7, <1>8 DEF IInv, Ordered, StripeOrder
<1>10. StartedFirst'
  BY <1>1 DEF StartedFirst
<1>11. \A d \in Stopper : drain[d] # "ok"
  BY StripedAssumption DEF IInv, Drained, OneDrainer
<1>12. Drained'
  BY <1>11 DEF IInv, Drained, OneDrainer, PolledEmpty, AllLeft
<1> QED
  BY <1>3, <1>4, <1>5, <1>6, <1>9, <1>10, <1>12 DEF IInv, Ordered

(* The stripes and the calls do not notice a step of DrainAndStop.         *)
LEMMA DrainFrame ==
  ASSUME IInv, UNCHANGED <<callVars, countVars, logVars, stripeVars, queue, started>>
  PROVE  /\ KeyedOnStripe' /\ RunningBounded' /\ Finite' /\ Ordered' /\ CountersBalance'
         /\ UNCHANGED <<job, running, late, queue>>
         /\ \A s \in Stripe : OnlyLate(s)' <=> OnlyLate(s)
         /\ AllGone' <=> AllGone
<1> USE DEF callVars, countVars, logVars, stripeVars
<1>1. KeyedOnStripe' /\ RunningBounded' /\ Finite' /\ CountersBalance'
  BY DEF IInv, KeyedOnStripe, RunningBounded, Finite, CountersBalance, Outstanding
<1>2. Ordered'
  BY DEF IInv, Ordered, SentOnce, InPlace, NothingLost, QueueInOrder, StripeOrder,
     StartedFirst, IsSent, Fetched
<1>3. (\A s \in Stripe : OnlyLate(s)' <=> OnlyLate(s)) /\ (AllGone' <=> AllGone)
  BY DEF OnlyLate, AllGone
<1> QED
  BY <1>1, <1>2, <1>3

LEMMA DrainKeeps ==
  ASSUME IInv, NEW d \in Stopper,
         CancelDrain(d) \/ DrainCall(d) \/ PollStripe(d) \/ DrainStep(d)
  PROVE  IInv'
<1>1. UNCHANGED <<callVars, countVars, logVars, stripeVars, queue, startVars>>
  BY DEF CancelDrain, DrainCall, PollStripe, DrainStep, PollDone, CloseQueue, CancelStripe,
     DrainReturn, DrainGoto
<1>2. started' = started /\ parentDone' = parentDone
  BY <1>1 DEF startVars
<1>3. /\ KeyedOnStripe' /\ RunningBounded' /\ Finite' /\ Ordered' /\ CountersBalance'
      /\ UNCHANGED <<job, running, late, queue>>
      /\ \A s \in Stripe : OnlyLate(s)' <=> OnlyLate(s)
      /\ AllGone' <=> AllGone
  BY <1>1, <1>2, DrainFrame
<1>4. /\ N \in Nat \ {0} /\ scan \in 0 .. N /\ Stripe = 0 .. N - 1
      /\ drain \in [Stopper -> {"idle", "poll", "close", "cancel", "wait"} \cup DrainReturns]
      /\ drainer \in Stopper \cup {NoStopper} /\ closed \in BOOLEAN
      /\ OneDrainer /\ PolledEmpty /\ AllLeft
  BY StripedAssumption DEF IInv, TypeOK, Stripe, Drained
<1>5. ASSUME /\ drain' \in [Stopper -> {"idle", "poll", "close", "cancel", "wait"}
                                         \cup DrainReturns]
             /\ drainer' \in Stopper \cup {NoStopper} /\ scan' \in 0 .. N
             /\ closed' \in BOOLEAN /\ ctxDone' \subseteq Cancellable \cap Stopper
             /\ queueClosed' \subseteq Stripe /\ cancelled' \subseteq Stripe
      PROVE  TypeOK'
  BY <1>1, <1>2, <1>5 DEF IInv, TypeOK, callVars, countVars, logVars, stripeVars
<1>6. ASSUME TypeOK', OneDrainer', PolledEmpty', AllLeft' PROVE IInv'
  BY <1>3, <1>6 DEF IInv, Drained
<1>7. CASE CancelDrain(d)
  <2> USE <1>7 DEF CancelDrain
  <2>1. TypeOK'
    BY <1>4, <1>5 DEF IInv, TypeOK
  <2>2. OneDrainer' /\ PolledEmpty' /\ AllLeft'
    BY <1>3, <1>4 DEF OneDrainer, PolledEmpty, AllLeft
  <2> QED
    BY <1>6, <2>1, <2>2
<1>8. CASE DrainCall(d)
  <2> USE <1>8 DEF DrainCall, DrainGoto
  <2>1. TypeOK'
    BY <1>4, <1>5 DEF IInv, TypeOK, DrainReturns
  <2>2. OneDrainer'
    BY <1>4, StripedAssumption DEF OneDrainer
  <2>3. AllLeft'
    BY <1>3, <1>4 DEF AllLeft
  <2>4. PolledEmpty'
    <3>1. CASE closed
      <4>1. drainer \in Stopper \ {d} /\ closed' /\ UNCHANGED <<drainer, scan, ctxDone>>
        BY <1>4, <3>1 DEF OneDrainer
      <4>2. drain'[drainer] = drain[drainer]
        BY <1>4, <4>1
      <4> QED
        BY <1>3, <1>4, <3>1, <4>1, <4>2 DEF PolledEmpty
    <3>2. CASE ~closed
      <4>1. drainer' = d /\ drain'[d] = "poll" /\ scan' = 0
        BY <1>4, <3>2 DEF OneDrainer
      <4> QED
        BY <1>4, <4>1 DEF PolledEmpty
    <3> QED
      BY <3>1, <3>2
  <2> QED
    BY <1>6, <2>1, <2>2, <2>3, <2>4
<1>9. ASSUME drain[d] \in {"poll", "close", "cancel", "wait"}
      PROVE  closed /\ drainer = d
  BY <1>4, <1>9, StripedAssumption DEF OneDrainer
<1>10. CASE PollStripe(d)
  <2> USE <1>10 DEF PollStripe, DrainGoto
  <2>1. closed /\ drainer = d /\ drain' = drain /\ scan < N
    BY <1>4, <1>9
  <2>2. scan' \in 0 .. N
    BY <1>4, <2>1
  <2>3. TypeOK'
    BY <1>4, <1>5, <2>1, <2>2 DEF IInv, TypeOK
  <2>4. OneDrainer' /\ AllLeft'
    BY <1>3, <1>4, <2>1 DEF OneDrainer, AllLeft
  <2>5. Empty(scan) => OnlyLate(scan)
    BY EmptySeq, LenProperties DEF Empty, OnlyLate
  <2>6. \A s \in Stripe : s < scan' => OnlyLate(s)
    BY <1>4, <2>1, <2>5 DEF PolledEmpty
  <2>7. PolledEmpty'
    BY <1>3, <2>1, <2>6 DEF PolledEmpty
  <2> QED
    BY <1>6, <2>3, <2>4, <2>7
<1>11. CASE PollDone(d)
  <2> USE <1>11 DEF PollDone, DrainGoto
  <2>1. closed /\ drainer = d /\ drain[d] = "poll" /\ drain'[d] = "close"
    BY <1>4, <1>9
  <2>2. TypeOK'
    <3>1. drain' \in [Stopper -> {"idle", "poll", "close", "cancel", "wait"} \cup DrainReturns]
          /\ scan' \in 0 .. N
      BY <1>4
    <3> QED
      BY <1>4, <1>5, <3>1 DEF IInv, TypeOK
  <2>3. OneDrainer' /\ AllLeft'
    BY <1>3, <1>4, <2>1 DEF OneDrainer, AllLeft
  <2>4. PolledEmpty'
    BY <1>3, <1>4, <2>1 DEF PolledEmpty
  <2> QED
    BY <1>6, <2>2, <2>3, <2>4
<1>12. CASE CloseQueue(d) \/ CancelStripe(d)
  <2> USE DEF CloseQueue, CancelStripe, DrainGoto
  <2>1. closed /\ drainer = d /\ drain[d] \in {"close", "cancel"} /\ scan < N
    BY <1>4, <1>9, <1>12 DEF OneDrainer
  <2>2. scan \in Stripe /\ scan' \in Stripe /\ scan' < N /\ scan' \in 0 .. N
    <3>1. scan' = (scan + 1) % N
      BY <1>12
    <3> QED
      BY <1>4, <2>1, <3>1
  <2>3. drain' = [drain EXCEPT ![d] = drain'[d]] /\ drain'[d] \in {"close", "cancel", "wait"}
        /\ UNCHANGED <<drainer, closed, ctxDone>>
    BY <1>4, <1>12
  <2>4. queueClosed' \subseteq Stripe /\ cancelled' \subseteq Stripe
    BY <1>12, <2>2 DEF IInv, TypeOK
  <2>5. TypeOK'
    BY <1>4, <1>5, <2>2, <2>3, <2>4 DEF IInv, TypeOK
  <2>6. OneDrainer' /\ AllLeft'
    BY <1>3, <1>4, <2>1, <2>2, <2>3 DEF OneDrainer, AllLeft
  <2>7. PolledEmpty'
    BY <1>3, <1>4, <2>1, <2>3 DEF PolledEmpty
  <2> QED
    BY <1>6, <2>5, <2>6, <2>7
<1>13. CASE DrainReturn(d)
  <2> USE <1>13 DEF DrainReturn, DrainGoto
  <2>1. closed /\ drainer = d /\ drain[d] = "wait" /\ UNCHANGED <<drainer, scan, closed, ctxDone>>
    BY <1>4, <1>9
  <2>2. drain' = [drain EXCEPT ![d] = drain'[d]] /\ drain'[d] \in {"ok", "ctxErr"}
        /\ drain'[d] = "ok" => AllGone
    BY <1>4
  <2>3. TypeOK'
    BY <1>4, <1>5, <2>1, <2>2 DEF IInv, TypeOK, DrainReturns
  <2>4. OneDrainer'
    BY <1>4, <2>1, <2>2 DEF OneDrainer
  <2>5. AllLeft'
    BY <1>3, <1>4, <2>2 DEF AllLeft
  <2>6. PolledEmpty'
    BY <1>3, <1>4, <2>1, <2>2 DEF PolledEmpty
  <2> QED
    BY <1>6, <2>3, <2>4, <2>5, <2>6
<1> QED
  BY <1>7, <1>8, <1>10, <1>11, <1>12, <1>13 DEF DrainStep

-----------------------------------------------------------------------------
(* Nobody but the stripes notices the end of the context of Start, and     *)
(* they lose nothing by it: they only leave.                               *)
LEMMA ParentKeeps ==
  ASSUME IInv, CancelParent \/ UNCHANGED vars
  PROVE  IInv'
<1> USE DEF CancelParent, vars, startVars, callVars, countVars, logVars, stripeVars, drainVars
<1>1. /\ UNCHANGED <<callVars, countVars, logVars, stripeVars, drainVars, queue, started>>
      /\ parentDone' \in {parentDone, TRUE}
  OBVIOUS
<1>2. KeyedOnStripe' /\ RunningBounded' /\ Finite' /\ Ordered' /\ CountersBalance'
  BY <1>1, DrainFrame
<1>3. TypeOK'
  BY <1>1 DEF IInv, TypeOK
<1>4. Drained'
  BY <1>1 DEF IInv, Drained, OneDrainer, PolledEmpty, OnlyLate, AllLeft, AllGone
<1> QED
  BY <1>2, <1>3, <1>4 DEF IInv

LEMMA NextKeeps == IInv /\ [Next]_vars => IInv'
<1> SUFFICES ASSUME IInv, [Next]_vars PROVE IInv'
  OBVIOUS
<1>1. CASE PoolStep
  <2>1. CASE Start
    BY <2>1, StartKeeps
  <2>2. CASE CancelParent
    BY <2>2, ParentKeeps
  <2>3. CASE \E s \in Stripe : StripeStep(s)
    BY <2>3, TakeKeeps, ExecuteKeeps, ReturnKeeps DEF StripeStep
  <2>4. CASE \E d \in Stopper : CancelDrain(d) \/ DrainCall(d) \/ PollStripe(d) \/ DrainStep(d)
    BY <2>4, DrainKeeps
  <2> QED
    BY <1>1, <2>1, <2>2, <2>3, <2>4 DEF PoolStep
<1>2. ASSUME NEW t \in Task, SubmitCheck(t) \/ Submit(t) \/ SubmitCtx(t)
      PROVE  IInv'
  <2>1. CASE SubmitCheck(t) \/ SubmitChoose(t)
    BY <2>1, CheckKeeps
  <2>2. CASE SubmitCount(t)
    BY <2>2, CountKeeps
  <2>3. CASE SubmitSend(t)
    BY <2>3, SendKeeps
  <2>4. CASE SubmitPanic(t) \/ SubmitStopped(t) \/ SubmitCtx(t)
    BY <2>4, FailKeeps DEF SubmitPanic, SubmitStopped, SubmitCtx
  <2> QED
    BY <1>2, <2>1, <2>2, <2>3, <2>4 DEF Submit
<1>3. CASE UNCHANGED vars
  BY <1>3, ParentKeeps
<1> QED
  BY <1>1, <1>2, <1>3 DEF Next

(* What the proofs of the properties below rest on, in every reachable     *)
(* state.                                                                  *)
THEOREM Invariance == Spec => []IInv
<1> QED
  BY InitEstablishes, NextKeeps, PTL DEF Spec

-----------------------------------------------------------------------------
(* The variables have their types: no queue holds more than QueueSize, no  *)
(* stripe executes more tasks than it has goroutines.                      *)
THEOREM TypeCorrect == Spec => []TypeOK
<1>1. IInv => TypeOK
  BY DEF IInv
<1> QED
  BY <1>1, Invariance, PTL

(* SubmitWithKey keeps the order of a key, whatever panics, is cancelled   *)
(* or is drained, and with one Start its tasks run one at a time.          *)
THEOREM KeysInOrder == Spec => []KeyOrder
<1>1. IInv => KeyOrder
  <2> SUFFICES ASSUME IInv, NEW i \in DOMAIN sent, NEW j \in DOMAIN sent, i < j,
                      sent[i] \in Keyed, sent[j] \in Keyed,
                      KeyOf[sent[i]] = KeyOf[sent[j]], Fetched(sent[j])
               PROVE  Fetched(sent[i]) /\ (started = 1 => sent[i] \in done)
    BY DEF KeyOrder
  <2>1. IsSent(sent[i]) /\ IsSent(sent[j])
    BY SentTypes
  <2>2. idx[sent[i]] = ByKey(sent[i]) /\ idx[sent[j]] = ByKey(sent[j])
    BY <2>1 DEF IInv, KeyedOnStripe, IsSent
  <2>3. idx[sent[i]] = idx[sent[j]]
    BY <2>2 DEF ByKey
  <2> QED
    BY <2>3 DEF IInv, Ordered, StripeOrder
<1> QED
  BY <1>1, Invariance, PTL

(* The counters of a stripe account for every task it ever counted.        *)
THEOREM CountersAlwaysBalance == Spec => []CountersBalance
<1>1. IInv => CountersBalance
  BY DEF IInv
<1> QED
  BY <1>1, Invariance, PTL

(* Where all goroutines have left, no task is being executed.              *)
LEMMA GoneIsIdle ==
  ASSUME IInv, AllGone, NEW s \in Stripe
  PROVE  job[s] = {} /\ ~Waiting(s)
<1>1. IsFiniteSet(job[s]) /\ Cardinality(job[s]) \in Nat /\ running[s] = 0
      /\ Cardinality(job[s]) <= running[s]
  BY Numbers DEF IInv, Finite, TypeOK, AllGone
<1>2. Cardinality(job[s]) = 0
  BY <1>1
<1> QED
  BY <1>1, <1>2, FS_EmptySet DEF Waiting

(* A DrainAndStop that succeeds before its context ends has seen the end   *)
(* of every task that was accepted before it was called.                   *)
THEOREM InTimeDone == Spec => []InTimeIsDone
<1>1. IInv => InTimeIsDone
  <2> SUFFICES ASSUME IInv, drainer # NoStopper, drain[drainer] = "ok", drainer \notin ctxDone,
                      NEW t \in Task, IsSent(t), t \notin late
               PROVE  t \in done
    BY DEF InTimeIsDone
  <2>1. closed /\ drainer \in Stopper /\ idx[t] \in Stripe
    BY DEF IInv, TypeOK, Drained, OneDrainer
  <2>2. \A s \in Stripe : OnlyLate(s)
    BY <2>1 DEF IInv, Drained, PolledEmpty
  <2>3. AllGone
    BY <2>1 DEF IInv, Drained, AllLeft
  <2>4. \A s \in Stripe : job[s] = {}
    BY <2>3, GoneIsIdle
  <2>5. Fetched(t)
    BY <2>1, <2>2 DEF OnlyLate, IInv, Ordered, NothingLost
  <2> QED
    BY <2>4, <2>5 DEF Fetched
<1> QED
  BY <1>1, Invariance, PTL

(* After that report nothing is executed any more: no goroutine is left to *)
(* take a task or to be handed one, and no Start makes a new one.          *)
THEOREM QuietAfterDrain == Spec => QuietOnceDrained
<1>1. ASSUME IInv, [Next]_vars, drainer # NoStopper, drain[drainer] = "ok"
      PROVE  UNCHANGED <<job, done>>
  <2>1. AllGone
    BY <1>1 DEF IInv, TypeOK, Drained, AllLeft
  <2>2. \A s \in Stripe : job[s] = {} /\ ~Waiting(s)
    BY <1>1, <2>1, GoneIsIdle
  <2> USE DEF callVars, countVars, logVars, stripeVars, drainVars, startVars
  <2>3. CASE \E s \in Stripe : StripeStep(s)
    BY <2>2, <2>3 DEF StripeStep, StripeTake, ExecuteTask, StripeReturn
  <2>4. CASE Start \/ CancelParent \/ UNCHANGED vars
    BY <2>4 DEF Start, CancelParent, vars
  <2>5. CASE \E d \in Stopper : CancelDrain(d) \/ DrainCall(d) \/ PollStripe(d) \/ DrainStep(d)
    BY <2>5 DEF CancelDrain, DrainCall, PollStripe, DrainStep, PollDone, CloseQueue,
       CancelStripe, DrainReturn, DrainGoto
  <2>6. ASSUME NEW t \in Task, SubmitCheck(t) \/ Submit(t) \/ SubmitCtx(t)
        PROVE  UNCHANGED <<job, done>>
    <3>1. CASE SubmitSend(t)
      <4>1. idx[t] \in Stripe
        BY <1>1 DEF IInv, TypeOK
      <4> QED
        BY <2>2, <3>1, <4>1 DEF SubmitSend
    <3> QED
      BY <2>6, <3>1 DEF Submit, SubmitCheck, SubmitChoose, SubmitCount, SubmitPanic,
         SubmitStopped, SubmitCtx, SubmitFails, Elsewhere
  <2> QED
    BY <1>1, <2>3, <2>4, <2>5, <2>6 DEF Next, PoolStep
<1> QED
  BY <1>1, Invariance, PTL DEF Spec, QuietOnceDrained
=============================================================================
