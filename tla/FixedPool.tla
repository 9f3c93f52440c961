------------------------------ MODULE FixedPool ------------------------------
(***************************************************************************)
(* FixedPool (pkg/pool/fixed_pool.go): Worker goroutines that range over   *)
(* one bounded channel of tasks, concurrent Submit calls that send to it,  *)
(* and concurrent DrainAndStop calls that close it and wait.               *)
(*                                                                         *)
(* A Go select is one action per case: a case that is ready may be chosen  *)
(* whichever of the others are ready too, and a select with none ready     *)
(* waits.  Sending to a closed channel is a ready case that panics.        *)
(***************************************************************************)
EXTENDS Naturals, Sequences, FiniteSets

CONSTANTS
  Task,      \* one element per Submit call: the closure it is given
  NilTask,   \* the calls whose closure is nil
  NoTask,    \* not a task: what an idle worker holds
  Worker,    \* the goroutines NewFixedPool starts
  Queue,     \* capacity of the tasks channel
  Stopper,   \* the DrainAndStop calls
  Cancellable \* the calls whose context may end; the others' is Background

(* NewFixedPool makes size at least 1 and the capacity at least 0. *)
ASSUME PoolAssumption ==
  /\ IsFiniteSet(Task)
  /\ NilTask \subseteq Task
  /\ NoTask \notin Task
  /\ Task \cap Stopper = {}
  /\ Worker # {} /\ IsFiniteSet(Worker)
  /\ Queue \in Nat
  /\ Cancellable \subseteq Task \cup Stopper

VARIABLES
  tasks,      \* the tasks channel's buffer
  closed,     \* the tasks channel is closed
  stopped,    \* the stopped channel is closed
  pc,         \* pc[w]: where worker w is
  job,        \* job[w]: the task it took and has not finished with
  processed,  \* the processed counter
  submit,     \* submit[t]: where the Submit call for t is, or what it returned
  drain,      \* drain[d]: the same for a DrainAndStop call
  runs        \* history: how many times t has been run to its end

callVars   == <<submit, drain>>
workerVars == <<pc, job, processed, runs>>
chanVars   == <<tasks, closed, stopped>>
vars       == <<callVars, workerVars, chanVars>>

SubmitReturns == {"ok", "nilTask", "closed", "ctxErr"}
DrainReturns  == {"ok", "ctxErr"}

TypeOK ==
  /\ tasks \in Seq(Task \ NilTask)
  /\ Len(tasks) <= Queue
  /\ closed \in BOOLEAN
  /\ stopped \in BOOLEAN
  /\ pc \in [Worker -> {"range", "run", "count", "exited"}]
  /\ job \in [Worker -> (Task \ NilTask) \cup {NoTask}]
  /\ processed \in Nat
  /\ submit \in [Task -> {"idle", "select"} \cup SubmitReturns]
  /\ drain \in [Stopper -> {"idle", "once", "closing", "wait"} \cup DrainReturns]
  /\ runs \in [Task -> Nat]

Init ==
  /\ tasks = <<>>
  /\ closed = FALSE
  /\ stopped = FALSE
  /\ pc = [w \in Worker |-> "range"]
  /\ job = [w \in Worker |-> NoTask]
  /\ processed = 0
  /\ submit = [t \in Task |-> "idle"]
  /\ drain = [d \in Stopper |-> "idle"]
  /\ runs = [t \in Task |-> 0]

-----------------------------------------------------------------------------
(* Submit *)

Return(t, result) ==
  /\ submit' = [submit EXCEPT ![t] = result]
  /\ UNCHANGED drain

(* A mutant: a nil closure is not refused. *)
SubmitCallAny(t) ==
  /\ submit[t] = "idle"
  /\ Return(t, "select")
  /\ UNCHANGED <<workerVars, chanVars>>

SubmitCall(t) ==
  /\ submit[t] = "idle"
  /\ Return(t, IF t \in NilTask THEN "nilTask" ELSE "select")
  /\ UNCHANGED <<workerVars, chanVars>>

(* The send case is ready when the buffer has room. *)
SubmitSend(t) ==
  /\ submit[t] = "select"
  /\ ~closed
  /\ Len(tasks) < Queue
  /\ tasks' = Append(tasks, t)
  /\ Return(t, "ok")
  /\ UNCHANGED <<closed, stopped, workerVars>>

(* It is also ready when a worker waits at an empty channel: the task goes *)
(* straight to the worker.  A pool with queue 0 works by this alone.       *)
SubmitHandoff(t, w) ==
  /\ submit[t] = "select"
  /\ ~closed
  /\ tasks = <<>>
  /\ pc[w] = "range"
  /\ pc' = [pc EXCEPT ![w] = "run"]
  /\ job' = [job EXCEPT ![w] = t]
  /\ Return(t, "ok")
  /\ UNCHANGED <<chanVars, processed, runs>>

(* The send case on a closed channel panics; the deferred recover turns    *)
(* the panic into ErrPoolClosed.                                           *)
SubmitSendClosed(t) ==
  /\ submit[t] = "select"
  /\ closed
  /\ Return(t, "closed")
  /\ UNCHANGED <<workerVars, chanVars>>

(* A mutant: the task is sent first and the stopped channel is looked at   *)
(* only then.                                                              *)
SubmitStoppedLate(t) ==
  /\ submit[t] = "select"
  /\ stopped /\ ~closed
  /\ Len(tasks) < Queue
  /\ tasks' = Append(tasks, t)
  /\ Return(t, "closed")
  /\ UNCHANGED <<closed, stopped, workerVars>>

SubmitStopped(t) ==
  /\ submit[t] = "select"
  /\ stopped
  /\ Return(t, "closed")
  /\ UNCHANGED <<workerVars, chanVars>>

(* Nothing but this case looks at the context of the call: it has ended    *)
(* some time before.                                                       *)
SubmitCtx(t) ==
  /\ submit[t] = "select"
  /\ t \in Cancellable
  /\ Return(t, "ctxErr")
  /\ UNCHANGED <<workerVars, chanVars>>

Submit(t) ==
  \/ SubmitSend(t)
  \/ \E w \in Worker : SubmitHandoff(t, w)
  \/ SubmitSendClosed(t)
  \/ SubmitStopped(t)

-----------------------------------------------------------------------------
(* The workers: for t := range p.tasks { t(); processed++ } *)

(* A mutant: the newest task is taken. *)
WorkerTakeNewest(w) ==
  /\ pc[w] = "range"
  /\ tasks # <<>>
  /\ pc' = [pc EXCEPT ![w] = "run"]
  /\ job' = [job EXCEPT ![w] = tasks[Len(tasks)]]
  /\ tasks' = SubSeq(tasks, 1, Len(tasks) - 1)
  /\ UNCHANGED <<closed, stopped, processed, runs, callVars>>

WorkerTake(w) ==
  /\ pc[w] = "range"
  /\ tasks # <<>>
  /\ pc' = [pc EXCEPT ![w] = "run"]
  /\ job' = [job EXCEPT ![w] = Head(tasks)]
  /\ tasks' = Tail(tasks)
  /\ UNCHANGED <<closed, stopped, processed, runs, callVars>>

WorkerReturn(w) ==
  /\ pc[w] = "run"
  /\ pc' = [pc EXCEPT ![w] = "count"]
  /\ runs' = [runs EXCEPT ![job[w]] = @ + 1]
  /\ UNCHANGED <<job, processed, chanVars, callVars>>

WorkerCount(w) ==
  /\ pc[w] = "count"
  /\ pc' = [pc EXCEPT ![w] = "range"]
  /\ job' = [job EXCEPT ![w] = NoTask]
  /\ processed' = processed + 1
  /\ UNCHANGED <<runs, chanVars, callVars>>

(* A mutant: the worker leaves as soon as the channel is closed, as it     *)
(* would if it also selected on the stopped channel.                       *)
WorkerExitEarly(w) ==
  /\ pc[w] = "range"
  /\ closed
  /\ pc' = [pc EXCEPT ![w] = "exited"]
  /\ UNCHANGED <<job, processed, runs, chanVars, callVars>>

(* The range ends once the channel is closed and empty; wg.Done follows. *)
WorkerExit(w) ==
  /\ pc[w] = "range"
  /\ closed
  /\ tasks = <<>>
  /\ pc' = [pc EXCEPT ![w] = "exited"]
  /\ UNCHANGED <<job, processed, runs, chanVars, callVars>>

WorkerStep(w) ==
  WorkerTake(w) \/ WorkerReturn(w) \/ WorkerCount(w) \/ WorkerExit(w)

-----------------------------------------------------------------------------
(* DrainAndStop *)

DrainGoto(d, where) ==
  /\ drain' = [drain EXCEPT ![d] = where]
  /\ UNCHANGED submit

DrainCall(d) ==
  /\ drain[d] = "idle"
  /\ DrainGoto(d, "once")
  /\ UNCHANGED <<workerVars, chanVars>>

(* The first caller to enter once.Do closes stopped, then tasks. *)
DrainCloseStopped(d) ==
  /\ drain[d] = "once"
  /\ ~stopped
  /\ stopped' = TRUE
  /\ DrainGoto(d, "closing")
  /\ UNCHANGED <<tasks, closed, workerVars>>

(* A mutant: the tasks channel is left open. *)
DrainCloseNothing(d) ==
  /\ drain[d] = "closing"
  /\ DrainGoto(d, "wait")
  /\ UNCHANGED <<workerVars, chanVars>>

DrainCloseTasks(d) ==
  /\ drain[d] = "closing"
  /\ closed' = TRUE
  /\ DrainGoto(d, "wait")
  /\ UNCHANGED <<tasks, stopped, workerVars>>

(* A mutant: a later caller does not wait for the first one's once.Do. *)
DrainOnceDoneEarly(d) ==
  /\ drain[d] = "once"
  /\ stopped
  /\ DrainGoto(d, "ok")
  /\ UNCHANGED <<workerVars, chanVars>>

(* Every other caller waits until the function given to once.Do returned. *)
DrainOnceDone(d) ==
  /\ drain[d] = "once"
  /\ closed
  /\ DrainGoto(d, "wait")
  /\ UNCHANGED <<workerVars, chanVars>>

(* A mutant: success is reported when the queue is empty, not when the     *)
(* workers are gone.                                                       *)
DrainDoneEmpty(d) ==
  /\ drain[d] = "wait"
  /\ tasks = <<>>
  /\ DrainGoto(d, "ok")
  /\ UNCHANGED <<workerVars, chanVars>>

(* done is closed once wg.Wait returns: every worker has left. *)
DrainDone(d) ==
  /\ drain[d] = "wait"
  /\ \A w \in Worker : pc[w] = "exited"
  /\ DrainGoto(d, "ok")
  /\ UNCHANGED <<workerVars, chanVars>>

DrainCtx(d) ==
  /\ drain[d] = "wait"
  /\ d \in Cancellable
  /\ DrainGoto(d, "ctxErr")
  /\ UNCHANGED <<workerVars, chanVars>>

DrainStep(d) ==
  \/ DrainCloseStopped(d)
  \/ DrainCloseTasks(d)
  \/ DrainOnceDone(d)
  \/ DrainDone(d)

-----------------------------------------------------------------------------
Next ==
  \/ \E t \in Task : SubmitCall(t) \/ Submit(t) \/ SubmitCtx(t)
  \/ \E w \in Worker : WorkerStep(w)
  \/ \E d \in Stopper : DrainCall(d) \/ DrainStep(d) \/ DrainCtx(d)

Spec == Init /\ [][Next]_vars

(* Every goroutine that can go on does: Go's scheduler is preemptive, and  *)
(* the task bodies are assumed to return.  Nobody has to call Submit or    *)
(* DrainAndStop, and no context has to end.                                *)
Fairness ==
  /\ \A t \in Task : WF_vars(Submit(t))
  /\ \A w \in Worker : WF_vars(WorkerStep(w))
  /\ \A d \in Stopper : WF_vars(DrainStep(d))

FairSpec == Spec /\ Fairness

-----------------------------------------------------------------------------
(* Properties *)

Accepted(t) == submit[t] = "ok"

(* A task runs at most once, and only if its Submit returned nil: a call   *)
(* that answered ErrPoolClosed (the panic recovered on a closed channel    *)
(* included), a context error or "nil task" never has its task run, not    *)
(* even when the pool was being stopped while it waited in its select.     *)
RunOnlyIfAccepted ==
  \A t \in Task : runs[t] <= IF Accepted(t) THEN 1 ELSE 0

(* When any DrainAndStop call has returned nil, every task any Submit ever *)
(* accepted has run, those accepted between the closing of the stopped     *)
(* channel and that of the tasks channel included, and the processed       *)
(* counter agrees.                                                         *)
DrainedMeansAllRun ==
  (\E d \in Stopper : drain[d] = "ok") =>
    /\ \A t \in Task : Accepted(t) => runs[t] = 1
    /\ processed = Cardinality({t \in Task : Accepted(t)})

(* FixedPool keeps the promise of WorkerPool. *)
TaskStatus(t) ==
  CASE submit[t] \in {"idle", "select"}  -> "new"
    [] submit[t] = "ok" /\ runs[t] = 0   -> "accepted"
    [] submit[t] = "ok" /\ runs[t] # 0   -> "done"
    [] OTHER                             -> "refused"

WP == INSTANCE WorkerPool WITH
        status  <- [t \in Task |-> TaskStatus(t)],
        open    <- ~closed,
        drained <- \E d \in Stopper : drain[d] = "ok"

Implements == WP!Spec

(* The tasks the workers have taken and not counted. *)
Busy == {job[w] : w \in {v \in Worker : pc[v] \in {"run", "count"}}}

TQ == INSTANCE TaskQueue WITH
        Size  <- Cardinality(Worker),
        queue <- tasks,
        busy  <- Busy

(* However Submit and DrainAndStop calls, workers and hand-offs            *)
(* interleave, tasks are taken off the channel in the order in which they  *)
(* were accepted, no more of them are with the workers than there are of   *)
(* these, and none enters a pool that is closed. DrainAndStop answers nil  *)
(* only when nothing is left.                                              *)
ActsAsQueue == TQ!Spec /\ [](\A d \in Stopper : drain[d] = "ok" => TQ!Drained)

(* What Submit accepts is run in the end, with or without a DrainAndStop,  *)
(* and also when that DrainAndStop has given up on its context.            *)
AcceptedRuns == \A t \in Task \ NilTask : Accepted(t) ~> runs[t] = 1

(* A DrainAndStop call comes back, and the Submit calls it finds waiting   *)
(* at a full queue do too: neither waits for the other.                    *)
CallsReturn ==
  /\ \A d \in Stopper : drain[d] = "once" ~> drain[d] \in DrainReturns
  /\ \A t \in Task \ NilTask : submit[t] = "select" ~> submit[t] \in SubmitReturns
=============================================================================
