--------------------------- MODULE FixedPoolProofs ---------------------------
(***************************************************************************)
(* Proofs about FixedPool, for any number of tasks, workers, stoppers and  *)
(* any capacity of the queue.                                              *)
(***************************************************************************)
EXTENDS FixedPool, FiniteSetTheorems, SequenceTheorems, TLAPS

(* A nil closure never reaches the select. *)
NilRefused == \A t \in NilTask : submit[t] \in {"idle", "nilTask"}

(* A worker holds a task exactly while it runs or counts it. *)
HeldWhileBusy == \A w \in Worker : job[w] = NoTask <=> pc[w] \in {"range", "exited"}

(* A task is in one place of the queue or with one worker. *)
OnePlace ==
  /\ \A i, j \in 1 .. Len(tasks) : tasks[i] = tasks[j] => i = j
  /\ \A v, w \in Worker : job[v] = job[w] /\ job[v] # NoTask => v = w
  /\ \A i \in 1 .. Len(tasks), w \in Worker : tasks[i] # job[w]

(* It is accepted as soon as it is there, and has run once its worker      *)
(* counts it.                                                              *)
PlaceTells ==
  /\ \A i \in 1 .. Len(tasks) : submit[tasks[i]] = "ok" /\ runs[tasks[i]] = 0
  /\ \A w \in Worker :
       /\ pc[w] = "run" => submit[job[w]] = "ok" /\ runs[job[w]] = 0
       /\ pc[w] = "count" => submit[job[w]] = "ok" /\ runs[job[w]] = 1

(* What is accepted and has not run is somewhere. *)
NothingLost ==
  \A t \in Task :
    submit[t] = "ok" /\ runs[t] = 0 =>
      \/ \E i \in 1 .. Len(tasks) : tasks[i] = t
      \/ \E w \in Worker : pc[w] = "run" /\ job[w] = t

(* Workers leave an empty queue that is closed, and success is reported    *)
(* when they all have.                                                     *)
LeftEmpty ==
  /\ \A w \in Worker : pc[w] = "exited" => closed /\ tasks = <<>>
  /\ \A d \in Stopper : drain[d] = "ok" => \A w \in Worker : pc[w] = "exited"

Counted == {t \in Task : runs[t] = 1 /\ \A w \in Worker : job[w] # t}

(* The counter lags behind the tasks that have run by those in "count". *)
CounterExact == processed = Cardinality(Counted)

IInv ==
  /\ TypeOK
  /\ NilRefused
  /\ HeldWhileBusy
  /\ OnePlace
  /\ PlaceTells
  /\ RunOnlyIfAccepted
  /\ NothingLost
  /\ LeftEmpty
  /\ CounterExact

-----------------------------------------------------------------------------
(* Initially nothing has happened. *)
LEMMA InitEstablishes == Init => IInv
<1> SUFFICES ASSUME Init PROVE IInv
  OBVIOUS
<1>1. TypeOK
  <2>1. tasks \in Seq(Task \ NilTask) /\ Len(tasks) <= Queue
    BY PoolAssumption, EmptySeq DEF Init
  <2> QED
    BY <2>1 DEF Init, TypeOK
<1>2. NilRefused /\ HeldWhileBusy /\ OnePlace /\ PlaceTells /\ RunOnlyIfAccepted
      /\ NothingLost /\ LeftEmpty
  BY PoolAssumption DEF Init, NilRefused, HeldWhileBusy, OnePlace, PlaceTells,
     RunOnlyIfAccepted, Accepted, NothingLost, LeftEmpty
<1>3. Counted = {}
  BY DEF Init, Counted
<1>4. CounterExact
  BY <1>3, FS_EmptySet DEF Init, CounterExact
<1> QED
  BY <1>1, <1>2, <1>4 DEF IInv

-----------------------------------------------------------------------------
(* A call that does not get its task in changes nothing the invariant ties *)
(* together.                                                               *)
LEMMA SubmitRefuses ==
  ASSUME IInv, NEW t \in Task, NEW r \in {"select", "nilTask", "closed", "ctxErr"},
         submit[t] \in {"idle", "select"},
         t \in NilTask => r = "nilTask",
         Return(t, r),
         UNCHANGED <<workerVars, chanVars>>
  PROVE  IInv'
<1> USE DEF Return, workerVars, chanVars
<1>1. TypeOK'
  BY DEF IInv, TypeOK, SubmitReturns
<1>2. NilRefused'
  BY PoolAssumption DEF IInv, TypeOK, NilRefused
<1>3. HeldWhileBusy' /\ OnePlace' /\ LeftEmpty'
  BY DEF IInv, HeldWhileBusy, OnePlace, LeftEmpty
<1>4. PlaceTells'
  BY DEF IInv, TypeOK, PlaceTells
<1>5. RunOnlyIfAccepted' /\ NothingLost'
  BY DEF IInv, TypeOK, RunOnlyIfAccepted, Accepted, NothingLost
<1>6. CounterExact'
  BY DEF IInv, CounterExact, Counted
<1> QED
  BY <1>1, <1>2, <1>3, <1>4, <1>5, <1>6 DEF IInv

(* A step of DrainAndStop leaves workers and queue alone; it may report    *)
(* success only when the workers have left.                                *)
LEMMA DrainKeeps ==
  ASSUME IInv, NEW d \in Stopper,
         NEW where \in {"once", "closing", "wait"} \cup DrainReturns,
         DrainGoto(d, where),
         where = "ok" => \A w \in Worker : pc[w] = "exited",
         UNCHANGED <<workerVars, tasks>>,
         closed => closed', closed' \in BOOLEAN, stopped' \in BOOLEAN
  PROVE  IInv'
<1> USE DEF DrainGoto, workerVars
<1>1. TypeOK'
  BY DEF IInv, TypeOK
<1>2. NilRefused' /\ HeldWhileBusy' /\ OnePlace' /\ PlaceTells' /\ RunOnlyIfAccepted'
      /\ NothingLost'
  BY DEF IInv, NilRefused, HeldWhileBusy, OnePlace, PlaceTells, RunOnlyIfAccepted,
     Accepted, NothingLost
<1>3. LeftEmpty'
  BY DEF IInv, TypeOK, LeftEmpty
<1>4. CounterExact'
  BY DEF IInv, CounterExact, Counted
<1> QED
  BY <1>1, <1>2, <1>3, <1>4 DEF IInv

-----------------------------------------------------------------------------
(* A task sent to the queue goes to its end. *)
LEMMA SendKeeps ==
  ASSUME IInv, NEW t \in Task, SubmitSend(t)
  PROVE  IInv'
<1> USE DEF SubmitSend, Return, workerVars
<1>1. t \in Task \ NilTask
  BY DEF IInv, NilRefused
<1>2. /\ tasks \in Seq(Task \ NilTask)
      /\ tasks' \in Seq(Task \ NilTask)
      /\ Len(tasks') = Len(tasks) + 1
      /\ Len(tasks) \in Nat
      /\ \A i \in 1 .. Len(tasks') : tasks'[i] = IF i = Len(tasks) + 1 THEN t ELSE tasks[i]
  BY <1>1, AppendProperties DEF IInv, TypeOK
<1>3. TypeOK'
  BY <1>2, PoolAssumption DEF IInv, TypeOK, SubmitReturns
<1>4. NilRefused'
  BY <1>1, PoolAssumption DEF IInv, TypeOK, NilRefused
<1>5. HeldWhileBusy'
  BY DEF IInv, HeldWhileBusy
<1>6. \A i \in 1 .. Len(tasks) : tasks[i] # t
  BY DEF IInv, PlaceTells
<1>7. \A w \in Worker : job[w] # t
  BY <1>1, PoolAssumption DEF IInv, TypeOK, PlaceTells, HeldWhileBusy
<1>8. OnePlace'
  BY <1>2, <1>6, <1>7 DEF IInv, OnePlace
<1>9. runs[t] = 0
  BY SMTT(30) DEF IInv, TypeOK, RunOnlyIfAccepted, Accepted
<1>10. PlaceTells'
  BY <1>1, <1>2, <1>6, <1>9 DEF IInv, TypeOK, PlaceTells
<1>11. RunOnlyIfAccepted'
  BY <1>9 DEF IInv, TypeOK, RunOnlyIfAccepted, Accepted
<1>12. NothingLost'
  <2> SUFFICES ASSUME NEW u \in Task, submit'[u] = "ok", runs[u] = 0
               PROVE  \/ \E i \in 1 .. Len(tasks') : tasks'[i] = u
                      \/ \E w \in Worker : pc[w] = "run" /\ job[w] = u
    BY DEF NothingLost
  <2>1. CASE u = t
    BY <1>2, <2>1
  <2>2. CASE u # t
    BY <1>2, <2>2 DEF IInv, TypeOK, NothingLost
  <2> QED
    BY <2>1, <2>2
<1>13. LeftEmpty'
  BY DEF IInv, LeftEmpty
<1>14. CounterExact'
  BY DEF IInv, CounterExact, Counted
<1> QED
  BY <1>3, <1>4, <1>5, <1>8, <1>10, <1>11, <1>12, <1>13, <1>14 DEF IInv

(* A task may also go straight to a waiting worker. *)
LEMMA HandoffKeeps ==
  ASSUME IInv, NEW t \in Task, NEW w \in Worker, SubmitHandoff(t, w)
  PROVE  IInv'
<1> USE DEF SubmitHandoff, Return, chanVars
<1>1. t \in Task \ NilTask /\ t # NoTask
  BY PoolAssumption DEF IInv, NilRefused
<1>2. Len(tasks) = 0
  BY DEF IInv, TypeOK
<1>3. \A v \in Worker : job[v] # t
  BY <1>1 DEF IInv, TypeOK, PlaceTells, HeldWhileBusy
<1>4. TypeOK'
  BY <1>1 DEF IInv, TypeOK, SubmitReturns
<1>5. NilRefused'
  BY <1>1, PoolAssumption DEF IInv, TypeOK, NilRefused
<1>6. HeldWhileBusy'
  BY <1>1 DEF IInv, TypeOK, HeldWhileBusy
<1>7. OnePlace'
  BY <1>2, <1>3 DEF IInv, TypeOK, OnePlace
<1>8. runs[t] = 0
  BY DEF IInv, TypeOK, RunOnlyIfAccepted, Accepted
<1>9. PlaceTells'
  BY <1>1, <1>2, <1>3, <1>8 DEF IInv, TypeOK, PlaceTells
<1>10. RunOnlyIfAccepted'
  BY <1>8 DEF IInv, TypeOK, RunOnlyIfAccepted, Accepted
<1>11. NothingLost'
  BY <1>2 DEF IInv, TypeOK, NothingLost
<1>12. LeftEmpty'
  BY DEF IInv, TypeOK, LeftEmpty
<1>13. Counted' = Counted
  BY <1>8, <1>3, <1>1, PoolAssumption DEF IInv, TypeOK, Counted, HeldWhileBusy
<1>14. CounterExact'
  BY <1>13 DEF IInv, CounterExact
<1> QED
  BY <1>4, <1>5, <1>6, <1>7, <1>9, <1>10, <1>11, <1>12, <1>14 DEF IInv

-----------------------------------------------------------------------------
(* A worker takes the oldest task. *)
LEMMA TakeKeeps ==
  ASSUME IInv, NEW w \in Worker, WorkerTake(w)
  PROVE  IInv'
<1> DEFINE h == Head(tasks)
<1> USE DEF WorkerTake, callVars
<1>1. /\ h \in Task \ NilTask
      /\ Len(tasks) \in Nat \ {0}
      /\ h = tasks[1]
      /\ tasks' \in Seq(Task \ NilTask)
      /\ Len(tasks') = Len(tasks) - 1
      /\ \A i \in 1 .. Len(tasks') : tasks'[i] = tasks[i + 1]
  BY HeadTailProperties, EmptySeq DEF IInv, TypeOK
<1>2. h # NoTask /\ submit[h] = "ok" /\ runs[h] = 0
  BY <1>1, PoolAssumption DEF IInv, PlaceTells
<1>3. \A v \in Worker : job[v] # h
  BY <1>1 DEF IInv, OnePlace
<1>4. TypeOK'
  BY <1>1, PoolAssumption DEF IInv, TypeOK
<1>5. NilRefused'
  BY DEF IInv, NilRefused
<1>6. HeldWhileBusy'
  BY <1>2 DEF IInv, TypeOK, HeldWhileBusy
<1>7. OnePlace'
  BY <1>1, <1>3 DEF IInv, TypeOK, OnePlace
<1>8. PlaceTells'
  BY <1>1, <1>2 DEF IInv, TypeOK, PlaceTells
<1>9. RunOnlyIfAccepted'
  BY DEF IInv, RunOnlyIfAccepted, Accepted
<1>10. NothingLost'
  <2> SUFFICES ASSUME NEW u \in Task, submit[u] = "ok", runs[u] = 0
               PROVE  \/ \E i \in 1 .. Len(tasks') : tasks'[i] = u
                      \/ \E v \in Worker : pc'[v] = "run" /\ job'[v] = u
    BY DEF NothingLost
  <2>1. CASE \E v \in Worker : pc[v] = "run" /\ job[v] = u
    BY <2>1 DEF IInv, TypeOK
  <2>2. CASE \E i \in 1 .. Len(tasks) : tasks[i] = u
    <3>1. PICK i \in 1 .. Len(tasks) : tasks[i] = u
      BY <2>2
    <3>2. CASE i = 1
      BY <1>1, <3>1, <3>2 DEF IInv, TypeOK
    <3>3. CASE i # 1
      <4>1. i - 1 \in 1 .. Len(tasks') /\ tasks'[i - 1] = u
        BY <1>1, <3>1, <3>3
      <4> QED
        BY <4>1
    <3> QED
      BY <3>2, <3>3
  <2> QED
    BY <2>1, <2>2 DEF IInv, NothingLost
<1>11. LeftEmpty'
  BY DEF IInv, TypeOK, LeftEmpty
<1>12. Counted' = Counted
  BY <1>1, <1>2, PoolAssumption DEF IInv, TypeOK, Counted, HeldWhileBusy
<1>13. CounterExact'
  BY <1>12 DEF IInv, CounterExact
<1> QED
  BY <1>4, <1>5, <1>6, <1>7, <1>8, <1>9, <1>10, <1>11, <1>13 DEF IInv

(* It runs it once. *)
LEMMA ReturnKeeps ==
  ASSUME IInv, NEW w \in Worker, WorkerReturn(w)
  PROVE  IInv'
<1> DEFINE t == job[w]
<1> USE DEF WorkerReturn, callVars, chanVars
<1>1. t \in Task /\ t # NoTask /\ submit[t] = "ok" /\ runs[t] = 0
  BY PoolAssumption DEF IInv, TypeOK, HeldWhileBusy, PlaceTells
<1>2. TypeOK'
  BY <1>1 DEF IInv, TypeOK
<1>3. NilRefused' /\ OnePlace'
  BY DEF IInv, NilRefused, OnePlace
<1>4. HeldWhileBusy'
  BY <1>1 DEF IInv, TypeOK, HeldWhileBusy
<1>5. \A v \in Worker \ {w} : job[v] # t
  BY <1>1 DEF IInv, OnePlace
<1>6. \A i \in 1 .. Len(tasks) : tasks[i] # t
  BY DEF IInv, OnePlace
<1>7. PlaceTells'
  BY <1>1, <1>5, <1>6 DEF IInv, TypeOK, PlaceTells
<1>8. RunOnlyIfAccepted'
  BY <1>1 DEF IInv, TypeOK, RunOnlyIfAccepted, Accepted
<1>9. NothingLost'
  <2> SUFFICES ASSUME NEW u \in Task, submit[u] = "ok", runs'[u] = 0
               PROVE  \/ \E i \in 1 .. Len(tasks) : tasks[i] = u
                      \/ \E v \in Worker : pc'[v] = "run" /\ job[v] = u
    BY DEF NothingLost
  <2>1. u # t /\ runs[u] = 0
    BY <1>1 DEF IInv, TypeOK
  <2> QED
    BY <2>1 DEF IInv, TypeOK, NothingLost
<1>10. LeftEmpty'
  BY DEF IInv, TypeOK, LeftEmpty
<1>11. Counted' = Counted
  BY <1>1 DEF IInv, TypeOK, Counted
<1>12. CounterExact'
  BY <1>11 DEF IInv, CounterExact
<1> QED
  BY <1>2, <1>3, <1>4, <1>7, <1>8, <1>9, <1>10, <1>12 DEF IInv

(* It counts the task when it has run it. *)
LEMMA CountKeeps ==
  ASSUME IInv, NEW w \in Worker, WorkerCount(w)
  PROVE  IInv'
<1> DEFINE t == job[w]
<1> USE DEF WorkerCount, callVars, chanVars
<1>1. t \in Task /\ t # NoTask /\ submit[t] = "ok" /\ runs[t] = 1
  BY PoolAssumption DEF IInv, TypeOK, HeldWhileBusy, PlaceTells
<1>2. TypeOK'
  BY DEF IInv, TypeOK
<1>3. NilRefused'
  BY DEF IInv, NilRefused
<1>4. HeldWhileBusy'
  BY DEF IInv, TypeOK, HeldWhileBusy
<1>5. \A i \in 1 .. Len(tasks) : tasks[i] \in Task
  BY ElementOfSeq DEF IInv, TypeOK
<1>6. OnePlace'
  BY <1>5, PoolAssumption DEF IInv, TypeOK, OnePlace
<1>7. PlaceTells'
  BY DEF IInv, TypeOK, PlaceTells
<1>8. RunOnlyIfAccepted'
  BY DEF IInv, RunOnlyIfAccepted, Accepted
<1>9. NothingLost'
  BY DEF IInv, TypeOK, NothingLost
<1>10. LeftEmpty'
  BY DEF IInv, TypeOK, LeftEmpty
<1>11. Counted' = Counted \cup {t} /\ t \notin Counted
  <2>1. \A v \in Worker : job'[v] = IF v = w THEN NoTask ELSE job[v]
    BY DEF IInv, TypeOK
  <2>2. \A v \in Worker \ {w} : job[v] # t
    BY <1>1 DEF IInv, OnePlace
  <2>3. \A u \in Task : u \in Counted' <=> u \in Counted \cup {t}
    BY <1>1, <2>1, <2>2, PoolAssumption DEF Counted
  <2> QED
    BY <1>1, <2>3 DEF Counted
<1>12. IsFiniteSet(Counted)
  BY PoolAssumption, FS_Subset DEF Counted
<1>13. CounterExact'
  BY <1>11, <1>12, FS_AddElement DEF IInv, CounterExact
<1> QED
  BY <1>2, <1>3, <1>4, <1>6, <1>7, <1>8, <1>9, <1>10, <1>13 DEF IInv

(* It leaves when there is nothing left to take. *)
LEMMA ExitKeeps ==
  ASSUME IInv, NEW w \in Worker, WorkerExit(w)
  PROVE  IInv'
<1> USE DEF WorkerExit, callVars, chanVars
<1>1. TypeOK'
  BY DEF IInv, TypeOK
<1>2. NilRefused' /\ OnePlace' /\ RunOnlyIfAccepted'
  BY DEF IInv, NilRefused, OnePlace, RunOnlyIfAccepted, Accepted
<1>3. HeldWhileBusy' /\ PlaceTells'
  BY DEF IInv, TypeOK, HeldWhileBusy, PlaceTells
<1>4. NothingLost' /\ LeftEmpty'
  BY DEF IInv, TypeOK, NothingLost, LeftEmpty
<1>5. CounterExact'
  BY DEF IInv, CounterExact, Counted
<1> QED
  BY <1>1, <1>2, <1>3, <1>4, <1>5 DEF IInv

-----------------------------------------------------------------------------
(* Every step keeps the invariant. *)
LEMMA NextKeeps == IInv /\ [Next]_vars => IInv'
<1> SUFFICES ASSUME IInv, [Next]_vars PROVE IInv'
  OBVIOUS
<1>1. ASSUME NEW t \in Task, SubmitCall(t) PROVE IInv'
  BY <1>1, SubmitRefuses DEF SubmitCall
<1>2. ASSUME NEW t \in Task, Submit(t) \/ SubmitCtx(t) PROVE IInv'
  <2>1. CASE SubmitSend(t)
    BY <2>1, SendKeeps
  <2>2. CASE \E w \in Worker : SubmitHandoff(t, w)
    BY <2>2, HandoffKeeps
  <2>3. CASE SubmitSendClosed(t) \/ SubmitStopped(t) \/ SubmitCtx(t)
    <3>1. submit[t] = "select" /\ UNCHANGED <<workerVars, chanVars>>
      BY <2>3 DEF SubmitSendClosed, SubmitStopped, SubmitCtx
    <3>2. t \notin NilTask
      BY <3>1 DEF IInv, NilRefused
    <3>3. CASE Return(t, "closed")
      BY <3>1, <3>2, <3>3, SubmitRefuses
    <3>4. CASE Return(t, "ctxErr")
      BY <3>1, <3>2, <3>4, SubmitRefuses
    <3> QED
      BY <2>3, <3>3, <3>4 DEF SubmitSendClosed, SubmitStopped, SubmitCtx
  <2> QED
    BY <1>2, <2>1, <2>2, <2>3 DEF Submit
<1>3. ASSUME NEW w \in Worker, WorkerStep(w) PROVE IInv'
  BY <1>3, TakeKeeps, ReturnKeeps, CountKeeps, ExitKeeps DEF WorkerStep
<1>4. ASSUME NEW d \in Stopper, DrainCall(d) \/ DrainStep(d) \/ DrainCtx(d) PROVE IInv'
  <2>1. closed \in BOOLEAN /\ stopped \in BOOLEAN
    BY DEF IInv, TypeOK
  <2>2. CASE DrainCall(d)
    BY <2>1, <2>2, DrainKeeps DEF DrainCall, chanVars
  <2>3. CASE DrainCloseStopped(d)
    BY <2>1, <2>3, DrainKeeps DEF DrainCloseStopped
  <2>4. CASE DrainCloseTasks(d)
    BY <2>1, <2>4, DrainKeeps DEF DrainCloseTasks
  <2>5. CASE DrainOnceDone(d)
    BY <2>1, <2>5, DrainKeeps DEF DrainOnceDone, chanVars
  <2>6. CASE DrainDone(d)
    BY <2>1, <2>6, DrainKeeps DEF DrainDone, chanVars, DrainReturns
  <2>7. CASE DrainCtx(d)
    BY <2>1, <2>7, DrainKeeps DEF DrainCtx, chanVars, DrainReturns
  <2> QED
    BY <1>4, <2>2, <2>3, <2>4, <2>5, <2>6, <2>7 DEF DrainStep
<1>5. CASE UNCHANGED vars
  BY <1>5 DEF vars, callVars, workerVars, chanVars, IInv, TypeOK, NilRefused, HeldWhileBusy,
     OnePlace, PlaceTells, RunOnlyIfAccepted, Accepted, NothingLost, LeftEmpty,
     CounterExact, Counted
<1> QED
  BY <1>1, <1>2, <1>3, <1>4, <1>5 DEF Next

(* The inductive invariant holds in every reachable state. *)
THEOREM Invariance == Spec => []IInv
<1> QED
  BY InitEstablishes, NextKeeps, PTL DEF Spec

-----------------------------------------------------------------------------
(* The state stays well formed: the queue within its capacity and no nil   *)
(* closure in it or with a worker, which makes the worker's nil check      *)
(* redundant.                                                              *)
THEOREM TypeCorrect == Spec => []TypeOK
<1>1. IInv => TypeOK
  BY DEF IInv
<1> QED
  BY <1>1, Invariance, PTL

(* A task runs at most once, and only if its Submit returned nil.          *)
THEOREM AtMostOnce == Spec => []RunOnlyIfAccepted
<1>1. IInv => RunOnlyIfAccepted
  BY DEF IInv
<1> QED
  BY <1>1, Invariance, PTL

(* Once the workers have left, every accepted task has run and was         *)
(* counted.                                                                *)
LEMMA WorkersGone ==
  ASSUME IInv, \A w \in Worker : pc[w] = "exited"
  PROVE  /\ closed
         /\ \A t \in Task : Accepted(t) <=> runs[t] = 1
         /\ processed = Cardinality({t \in Task : Accepted(t)})
<1>1. closed /\ tasks = <<>>
  BY PoolAssumption DEF IInv, LeftEmpty
<1>2. \A t \in Task : Accepted(t) <=> runs[t] = 1
  <2> SUFFICES ASSUME NEW t \in Task PROVE Accepted(t) <=> runs[t] = 1
    OBVIOUS
  <2>1. runs[t] \in Nat /\ runs[t] <= (IF Accepted(t) THEN 1 ELSE 0)
    BY DEF IInv, TypeOK, RunOnlyIfAccepted
  <2>2. Len(tasks) = 0
    BY <1>1
  <2>3. Accepted(t) => runs[t] # 0
    BY <2>2 DEF IInv, NothingLost, Accepted
  <2> QED
    BY <2>1, <2>3
<1>3. \A w \in Worker : job[w] = NoTask
  BY DEF IInv, HeldWhileBusy
<1>4. Counted = {t \in Task : Accepted(t)}
  BY <1>2, <1>3, PoolAssumption DEF Counted
<1> QED
  BY <1>1, <1>2, <1>4 DEF IInv, CounterExact

(* When any DrainAndStop call has returned nil, every task any Submit ever *)
(* accepted has run, those accepted while the pool was being stopped       *)
(* included, and the processed counter agrees.                             *)
THEOREM DrainComplete == Spec => []DrainedMeansAllRun
<1>1. IInv => DrainedMeansAllRun
  BY WorkersGone DEF DrainedMeansAllRun, IInv, LeftEmpty
<1> QED
  BY <1>1, Invariance, PTL

-----------------------------------------------------------------------------
(* FixedPool implements WorkerPool: Mapped is what the refinement mapping  *)
(* gives for the variable status.                                          *)
Mapped == [t \in Task |-> TaskStatus(t)]

LEMMA InitMaps == Init => WP!Init
<1> SUFFICES ASSUME Init PROVE WP!Init
  OBVIOUS
<1>1. \A t \in Task : TaskStatus(t) = "new"
  BY DEF Init, TaskStatus
<1>2. \A d \in Stopper : drain[d] # "ok"
  BY DEF Init
<1> QED
  BY <1>1, <1>2 DEF Init, WP!Init

(* A step that moves neither a Submit call to another status nor a count   *)
(* of runs is no step of the abstract pool, unless it closes or drains.    *)
LEMMA StatusKept ==
  ASSUME UNCHANGED <<submit, runs>>
  PROVE  Mapped' = Mapped
<1>1. \A t \in Task : TaskStatus(t)' = TaskStatus(t)
  BY DEF TaskStatus
<1> QED
  BY <1>1 DEF Mapped

(* A Submit call that changes changes the status of its task alone. *)
LEMMA StatusMoves ==
  ASSUME IInv, NEW t \in Task, NEW r,
         submit' = [submit EXCEPT ![t] = r], UNCHANGED runs
  PROVE  Mapped' = [Mapped EXCEPT ![t] = TaskStatus(t)']
<1>1. \A u \in Task \ {t} : TaskStatus(u)' = TaskStatus(u)
  BY DEF IInv, TypeOK, TaskStatus
<1> QED
  BY <1>1 DEF Mapped

LEMMA NextMaps == IInv /\ [Next]_vars => [WP!Next]_(WP!vars)
<1> SUFFICES ASSUME IInv, [Next]_vars PROVE [WP!Next]_(WP!vars)
  OBVIOUS
<1> DEFINE drained == \E d \in Stopper : drain[d] = "ok"
<1> USE DEF Mapped
<1>1. ASSUME NEW t \in Task, submit[t] \in {"idle", "select"},
             NEW r \in {"select", "nilTask", "closed", "ctxErr"},
             Return(t, r), UNCHANGED <<workerVars, chanVars>>
      PROVE  [WP!Next]_(WP!vars)
  <2>1. Mapped' = [Mapped EXCEPT ![t] = TaskStatus(t)']
    BY <1>1, StatusMoves DEF Return, workerVars
  <2>2. TaskStatus(t) = "new" /\ TaskStatus(t)' = IF r = "select" THEN "new" ELSE "refused"
    BY <1>1 DEF Return, IInv, TypeOK, TaskStatus
  <2>3. UNCHANGED <<closed, drained>>
    BY <1>1 DEF Return, chanVars
  <2>4. CASE r = "select"
    BY <2>1, <2>2, <2>3, <2>4 DEF WP!vars
  <2>5. CASE r # "select"
    BY <2>1, <2>2, <2>3, <2>5 DEF WP!Next, WP!Refuse
  <2> QED
    BY <2>4, <2>5
<1>2. ASSUME NEW t \in Task, submit[t] = "select", ~closed, Return(t, "ok"),
             UNCHANGED <<runs, closed>>
      PROVE  [WP!Next]_(WP!vars)
  <2>1. Mapped' = [Mapped EXCEPT ![t] = TaskStatus(t)']
    BY <1>2, StatusMoves DEF Return
  <2>2. runs[t] = 0
    <3>1. runs[t] \in Nat /\ submit[t] # "ok"
      BY <1>2 DEF IInv, TypeOK
    <3>2. runs[t] <= 0
      BY <3>1 DEF IInv, RunOnlyIfAccepted, Accepted
    <3> QED
      BY <3>1, <3>2
  <2>3. TaskStatus(t) = "new" /\ TaskStatus(t)' = "accepted"
    BY <1>2, <2>2 DEF Return, IInv, TypeOK, TaskStatus
  <2>4. UNCHANGED drained
    BY <1>2 DEF Return
  <2> QED
    BY <1>2, <2>1, <2>3, <2>4 DEF WP!Next, WP!Accept
<1>3. ASSUME NEW w \in Worker, WorkerReturn(w) PROVE [WP!Next]_(WP!vars)
  <2> DEFINE t == job[w]
  <2>1. t \in Task /\ submit[t] = "ok" /\ runs[t] = 0
    BY <1>3, PoolAssumption, SMTT(30) DEF WorkerReturn, IInv, TypeOK, HeldWhileBusy, PlaceTells
  <2>2. \A u \in Task : TaskStatus(u)' = IF u = t THEN "done" ELSE TaskStatus(u)
    BY <1>3, <2>1 DEF WorkerReturn, callVars, IInv, TypeOK, TaskStatus
  <2>3. TaskStatus(t) = "accepted"
    BY <2>1 DEF TaskStatus
  <2>4. UNCHANGED <<closed, drained>>
    BY <1>3 DEF WorkerReturn, callVars, chanVars
  <2>5. Mapped' = [Mapped EXCEPT ![t] = "done"]
    BY <2>2
  <2> QED
    BY <2>1, <2>3, <2>4, <2>5 DEF WP!Next, WP!Run
<1>4. ASSUME UNCHANGED <<submit, runs, closed, drain>> PROVE [WP!Next]_(WP!vars)
  <2>1. Mapped' = Mapped /\ UNCHANGED <<closed, drained>>
    BY <1>4, StatusKept
  <2> QED
    BY <2>1 DEF WP!vars
<1>5. ASSUME NEW d \in Stopper, NEW where, where # "ok", drain[d] # "ok",
             DrainGoto(d, where), UNCHANGED runs
      PROVE  Mapped' = Mapped /\ UNCHANGED drained
  <2>1. UNCHANGED drained
    BY <1>5 DEF DrainGoto, IInv, TypeOK
  <2> QED
    BY <1>5, <2>1, StatusKept DEF DrainGoto
<1>6. ASSUME NEW d \in Stopper, DrainCall(d) \/ DrainCloseStopped(d) \/ DrainOnceDone(d)
                                \/ DrainCtx(d)
      PROVE  [WP!Next]_(WP!vars)
  <2>1. UNCHANGED <<closed, runs>>
    BY <1>6 DEF DrainCall, DrainCloseStopped, DrainOnceDone, DrainCtx, chanVars, workerVars
  <2>2. Mapped' = Mapped /\ UNCHANGED drained
    BY <1>5, <1>6, <2>1 DEF DrainCall, DrainCloseStopped, DrainOnceDone, DrainCtx
  <2> QED
    BY <2>1, <2>2 DEF WP!vars
<1>7. ASSUME NEW d \in Stopper, DrainCloseTasks(d) PROVE [WP!Next]_(WP!vars)
  <2>1. closed' = TRUE /\ UNCHANGED runs
    BY <1>7 DEF DrainCloseTasks, workerVars
  <2>2. Mapped' = Mapped /\ UNCHANGED drained
    BY <1>5, <1>7, <2>1 DEF DrainCloseTasks
  <2>3. CASE closed
    BY <2>1, <2>2, <2>3 DEF IInv, TypeOK, WP!vars
  <2>4. CASE ~closed
    BY <2>1, <2>2, <2>4 DEF WP!Next, WP!Close
  <2> QED
    BY <2>3, <2>4
<1>8. ASSUME NEW d \in Stopper, DrainDone(d) PROVE [WP!Next]_(WP!vars)
  <2>1. closed /\ \A t \in Task : Accepted(t) <=> runs[t] = 1
    BY <1>8, WorkersGone DEF DrainDone
  <2>2. \A t \in Task : TaskStatus(t) # "accepted"
    BY <2>1 DEF TaskStatus, Accepted
  <2>3. Mapped' = Mapped /\ UNCHANGED closed
    BY <1>8, StatusKept DEF DrainDone, DrainGoto, workerVars, chanVars
  <2>4. drained'
    BY <1>8 DEF DrainDone, DrainGoto, IInv, TypeOK
  <2> QED
    BY <2>1, <2>2, <2>3, <2>4 DEF WP!Next, WP!ReportDrained
<1>9. CASE UNCHANGED vars
  BY <1>4, <1>9 DEF vars, callVars, workerVars, chanVars
<1>10. ASSUME NEW t \in Task, SubmitCall(t) \/ Submit(t) \/ SubmitCtx(t)
       PROVE  [WP!Next]_(WP!vars)
  <2>1. CASE SubmitCall(t)
    BY <1>1, <2>1 DEF SubmitCall
  <2>2. CASE SubmitSend(t)
    BY <1>2, <2>2 DEF SubmitSend, workerVars
  <2>3. CASE \E w \in Worker : SubmitHandoff(t, w)
    BY <1>2, <2>3 DEF SubmitHandoff, chanVars
  <2>4. CASE SubmitSendClosed(t) \/ SubmitStopped(t) \/ SubmitCtx(t)
    BY <1>1, <2>4 DEF SubmitSendClosed, SubmitStopped, SubmitCtx
  <2> QED
    BY <1>10, <2>1, <2>2, <2>3, <2>4 DEF Submit
<1>11. ASSUME NEW w \in Worker, WorkerStep(w) PROVE [WP!Next]_(WP!vars)
  <2>1. CASE WorkerReturn(w)
    BY <1>3, <2>1
  <2>2. CASE WorkerTake(w) \/ WorkerCount(w) \/ WorkerExit(w)
    BY <1>4, <2>2 DEF WorkerTake, WorkerCount, WorkerExit, callVars, chanVars
  <2> QED
    BY <1>11, <2>1, <2>2 DEF WorkerStep
<1> QED
  BY <1>6, <1>7, <1>8, <1>9, <1>10, <1>11 DEF Next, DrainStep

(* A FixedPool is a WorkerPool: it never accepts once its channel is       *)
(* closed, never runs what it refused, runs what it accepted once, and     *)
(* reports that it is drained only when nothing is outstanding.            *)
THEOREM Refinement == Spec => Implements
<1> QED
  BY InitMaps, NextMaps, Invariance, PTL DEF Spec, Implements, WP!Spec

-----------------------------------------------------------------------------
(* FixedPool implements TaskQueue. *)

(* It counts as FixedPool does. *)
LEMMA SameCount == \A S : TQ!Cardinality(S) = Cardinality(S)
BY DEF TQ!Cardinality, Cardinality

Working(w) == pc[w] \in {"run", "count"}

(* Who works holds a task, its own. *)
LEMMA BusyIs ==
  ASSUME IInv
  PROVE  /\ \A w \in Worker : ~Working(w) <=> pc[w] \in {"range", "exited"}
         /\ \A w \in Worker : Working(w) => job[w] \in Task \ NilTask /\ job[w] \in Busy
         /\ \A t \in Busy : \E w \in Worker : Working(w) /\ job[w] = t
         /\ \A v, w \in Worker : Working(v) /\ Working(w) /\ job[v] = job[w] => v = w
<1>1. \A w \in Worker : ~Working(w) <=> pc[w] \in {"range", "exited"}
  BY DEF IInv, TypeOK, Working
<1>2. \A w \in Worker : Working(w) => job[w] # NoTask
  BY <1>1 DEF IInv, HeldWhileBusy
<1>3. \A w \in Worker : Working(w) => job[w] \in Task \ NilTask
  BY <1>2 DEF IInv, TypeOK
<1> QED
  BY <1>1, <1>2, <1>3 DEF IInv, OnePlace, Working, Busy

(* A worker that waits leaves room for one task more. *)
LEMMA IdleLeavesRoom ==
  ASSUME IInv, NEW w \in Worker, pc[w] = "range"
  PROVE  TQ!Free
<1> DEFINE others == Worker \ {w}
           active == {v \in Worker : Working(v)}
           taken  == [v \in active |-> job[v]]
<1>1. /\ IsFiniteSet(others) /\ Cardinality(others) = Cardinality(Worker) - 1
      /\ Cardinality(Worker) \in Nat
  BY PoolAssumption, FS_RemoveElement, FS_CardinalityType
<1>2. active \subseteq others
  BY DEF Working
<1>3. /\ IsFiniteSet(active) /\ Cardinality(active) <= Cardinality(others)
      /\ Cardinality(active) \in Nat
  BY <1>1, <1>2, FS_Subset, FS_CardinalityType
<1>4. taken \in Surjection(active, Busy)
  BY BusyIs DEF Surjection, Busy, Working
<1>5. /\ IsFiniteSet(Busy) /\ Cardinality(Busy) <= Cardinality(active)
      /\ Cardinality(Busy) \in Nat
  BY <1>3, <1>4, FS_Surjection, FS_CardinalityType
<1> HIDE DEF active, others
<1>6. Cardinality(Busy) < Cardinality(Worker)
  BY <1>1, <1>3, <1>5
<1> QED
  BY <1>6, SameCount DEF TQ!Free

(* A call that is still in its select has its task nowhere in the pool. *)
LEMMA UnsentIsNew ==
  ASSUME IInv, NEW t \in Task, submit[t] = "select"
  PROVE  TQ!New(t)
<1>1. \A i \in 1 .. Len(tasks) : tasks[i] # t
  BY DEF IInv, PlaceTells
<1>2. DOMAIN tasks = 1 .. Len(tasks)
  BY DEF IInv, TypeOK
<1>3. t \notin Busy
  BY BusyIs DEF IInv, PlaceTells, Working
<1> QED
  BY <1>1, <1>2, <1>3 DEF TQ!New

(* Who is busy depends on the places of the workers alone. *)
LEMMA BusyKept ==
  ASSUME UNCHANGED <<pc, job>>
  PROVE  Busy' = Busy
BY DEF Busy

(* A worker that takes a task adds it to the busy ones. *)
LEMMA BusyTakes ==
  ASSUME IInv, NEW w \in Worker, NEW t, pc[w] = "range",
         pc' = [pc EXCEPT ![w] = "run"], job' = [job EXCEPT ![w] = t]
  PROVE  Busy' = Busy \cup {t}
<1>1. \A v \in Worker : /\ pc'[v] = IF v = w THEN "run" ELSE pc[v]
                        /\ job'[v] = IF v = w THEN t ELSE job[v]
  BY DEF IInv, TypeOK
<1> QED
  BY <1>1 DEF Busy

LEMMA StepsQueue == IInv /\ [Next]_vars => [TQ!Next]_(TQ!vars)
<1> SUFFICES ASSUME IInv, [Next]_vars PROVE [TQ!Next]_(TQ!vars)
  OBVIOUS
<1>1. ASSUME UNCHANGED <<tasks, closed, pc, job>> PROVE [TQ!Next]_(TQ!vars)
  BY <1>1, BusyKept DEF TQ!vars
<1>2. ASSUME NEW t \in Task, SubmitSend(t) PROVE [TQ!Next]_(TQ!vars)
  <2>1. TQ!Enqueue(t)
    BY <1>2, UnsentIsNew, BusyKept DEF SubmitSend, workerVars, TQ!Enqueue
  <2> QED
    BY <2>1 DEF TQ!Next
<1>3. ASSUME NEW t \in Task, NEW w \in Worker, SubmitHandoff(t, w)
      PROVE  [TQ!Next]_(TQ!vars)
  <2>1. TQ!Handoff(t)
    BY <1>3, UnsentIsNew, IdleLeavesRoom, BusyTakes DEF SubmitHandoff, chanVars, TQ!Handoff
  <2> QED
    BY <2>1 DEF TQ!Next
<1>4. ASSUME NEW w \in Worker, WorkerTake(w) PROVE [TQ!Next]_(TQ!vars)
  <2>1. TQ!Fetch
    BY <1>4, IdleLeavesRoom, BusyTakes DEF WorkerTake, TQ!Fetch
  <2> QED
    BY <2>1 DEF TQ!Next
<1>5. ASSUME NEW w \in Worker, WorkerReturn(w) PROVE [TQ!Next]_(TQ!vars)
  <2>1. \A v \in Worker : (pc'[v] \in {"run", "count"}) <=> (pc[v] \in {"run", "count"})
    BY <1>5 DEF WorkerReturn, IInv, TypeOK
  <2>2. Busy' = Busy
    BY <1>5, <2>1 DEF WorkerReturn, Busy
  <2> QED
    BY <1>5, <2>2 DEF WorkerReturn, chanVars, TQ!vars
<1>6. ASSUME NEW w \in Worker, WorkerCount(w) PROVE [TQ!Next]_(TQ!vars)
  <2>1. job[w] \in Task /\ job[w] \in Busy
    BY <1>6, BusyIs DEF WorkerCount, Working
  <2>2. \A v \in Worker : /\ pc'[v] = IF v = w THEN "range" ELSE pc[v]
                          /\ v # w => job'[v] = job[v]
    BY <1>6 DEF WorkerCount, IInv, TypeOK
  <2>3. \A v \in Worker \ {w} : Working(v) => job[v] # job[w]
    BY <1>6, BusyIs DEF WorkerCount, Working
  <2>4. Busy' = Busy \ {job[w]}
    BY <2>2, <2>3 DEF Busy, Working
  <2>5. TQ!Finish(job[w])
    BY <1>6, <2>1, <2>4 DEF WorkerCount, chanVars, TQ!Finish
  <2> QED
    BY <2>1, <2>5 DEF TQ!Next
<1>7. ASSUME NEW w \in Worker, WorkerExit(w) PROVE [TQ!Next]_(TQ!vars)
  <2>1. \A v \in Worker : (pc'[v] \in {"run", "count"}) <=> (pc[v] \in {"run", "count"})
    BY <1>7 DEF WorkerExit, IInv, TypeOK
  <2>2. Busy' = Busy
    BY <1>7, <2>1 DEF WorkerExit, Busy
  <2> QED
    BY <1>7, <2>2 DEF WorkerExit, chanVars, TQ!vars
<1>8. ASSUME NEW d \in Stopper, DrainCloseTasks(d) PROVE [TQ!Next]_(TQ!vars)
  <2>1. TQ!Close
    BY <1>8, BusyKept DEF DrainCloseTasks, workerVars, TQ!Close
  <2> QED
    BY <2>1 DEF TQ!Next
<1>9. ASSUME NEW t \in Task, SubmitCall(t) \/ Submit(t) \/ SubmitCtx(t)
      PROVE  [TQ!Next]_(TQ!vars)
  <2>1. CASE SubmitCall(t) \/ SubmitSendClosed(t) \/ SubmitStopped(t) \/ SubmitCtx(t)
    BY <1>1, <2>1 DEF SubmitCall, SubmitSendClosed, SubmitStopped, SubmitCtx, workerVars,
       chanVars
  <2> QED
    BY <1>2, <1>3, <1>9, <2>1 DEF Submit
<1>10. ASSUME NEW d \in Stopper, DrainCall(d) \/ DrainStep(d) \/ DrainCtx(d)
       PROVE  [TQ!Next]_(TQ!vars)
  <2>1. CASE \/ DrainCall(d) \/ DrainCloseStopped(d) \/ DrainOnceDone(d) \/ DrainDone(d)
             \/ DrainCtx(d)
    BY <1>1, <2>1 DEF DrainCall, DrainCloseStopped, DrainOnceDone, DrainDone, DrainCtx,
       workerVars, chanVars
  <2> QED
    BY <1>8, <1>10, <2>1 DEF DrainStep
<1>11. CASE UNCHANGED vars
  BY <1>1, <1>11 DEF vars, workerVars, chanVars
<1> QED
  BY <1>4, <1>5, <1>6, <1>7, <1>9, <1>10, <1>11 DEF Next, WorkerStep

LEMMA InitQueue == Init => TQ!Init
<1> SUFFICES ASSUME Init PROVE TQ!Init
  OBVIOUS
<1>1. Busy = {}
  BY DEF Init, Busy
<1> QED
  BY <1>1 DEF Init, TQ!Init

(* The workers of a FixedPool take its tasks in the order in which it has  *)
(* accepted them, each one at a time; none enters it after its channel was *)
(* closed, and its DrainAndStop answers nil only when none is left.  This  *)
(* is all that Runtime takes its pools to be.                              *)
THEOREM QueueRefinement == Spec => ActsAsQueue
<1>1. IInv => (\A d \in Stopper : drain[d] = "ok" => TQ!Drained)
  <2> SUFFICES ASSUME IInv, NEW d \in Stopper, drain[d] = "ok" PROVE TQ!Drained
    OBVIOUS
  <2>1. \A w \in Worker : pc[w] = "exited"
    BY DEF IInv, LeftEmpty
  <2>2. Busy = {}
    BY <2>1 DEF Busy
  <2> QED
    BY <2>1, <2>2, PoolAssumption DEF IInv, LeftEmpty, TQ!Drained
<1> QED
  BY <1>1, InitQueue, StepsQueue, Invariance, PTL DEF Spec, ActsAsQueue, TQ!Spec
=============================================================================
