----------------------------- MODULE StripedPool -----------------------------
(***************************************************************************)
(* StripedPool (pkg/pool/striped_pool.go): N stripes, each a bounded       *)
(* channel and the one goroutine that consumes it; SubmitWithKey sends     *)
(* every task of a key to the same stripe, Submit spreads its tasks by a   *)
(* counter, and DrainAndStop polls the queues until they look empty, then  *)
(* closes them and cancels the stripes.                                    *)
(*                                                                         *)
(* As in FixedPool a select is one action per case.  A Submit that panics  *)
(* is a call that ended with outcome "panic"; the model goes on as if its  *)
(* caller recovered.                                                       *)
(***************************************************************************)
EXTENDS Naturals, Sequences, FiniteSets

CONSTANTS
  Task,         \* one element per Submit or SubmitWithKey call
  Keyed,        \* the calls with a key; the others use the counter
  KeyOf,        \* KeyOf[t]: the key of a call in Keyed
  Hash,         \* Hash[k]: FNV-1a of a key, as a number
  Starts,       \* bound on the number of times Start is called
  N,            \* number of stripes
  QueueSize,    \* capacity of one stripe's queue
  Faulty,       \* the tasks whose body panics
  Stopper,      \* the DrainAndStop calls
  NoStopper,    \* nobody is draining
  Cancellable   \* the calls whose context may end; the others' is Background

(* NewStripedPool makes N at least 1 and QueueSize at least 0. *)
ASSUME StripedAssumption ==
  /\ N \in Nat \ {0}
  /\ Starts \in Nat
  /\ QueueSize \in Nat
  /\ Keyed \subseteq Task
  /\ \A t \in Keyed : Hash[KeyOf[t]] \in Nat
  /\ Faulty \subseteq Task
  /\ NoStopper \notin Stopper
  /\ Cancellable \subseteq Task \cup Stopper

Stripe == 0 .. N - 1

VARIABLES
  started,      \* how often Start was called before the pool was closed
  parentDone,   \* the context given to Start has ended
  closed,       \* the closed flag and the stopped channel, set under mu
  queue,        \* queue[s]: the buffer of stripe s's channel
  queueClosed,  \* the stripes whose channel is closed
  cancelled,    \* the stripes whose cancel was called
  running,      \* running[s]: goroutines of stripe s, one per Start
  job,          \* job[s]: the tasks they are executing
  submitted,    \* submitted[s]: the stripe's counter
  processed,    \* processed[s]: likewise
  panics,       \* panics[s]: likewise
  totalSubmitted,
  submit,       \* submit[t]: where the call for t is, or its outcome
  idx,          \* idx[t]: the stripe the call has chosen
  drain,        \* drain[d]: where a DrainAndStop call is, or its outcome
  drainer,      \* the call that set the closed flag
  scan,         \* its position in the loop over the stripes
  ctxDone,      \* the DrainAndStop calls whose context has ended
  sent,         \* history: the accepted tasks in the order they were sent
  late,         \* history: those sent after the closed flag was set
  done          \* history: the tasks whose execution has ended

callVars   == <<submit, idx>>
countVars  == <<submitted, totalSubmitted>>
logVars    == <<sent, late>>
stripeVars == <<running, job, processed, panics, done>>
drainVars  == <<drain, drainer, scan, ctxDone, closed, queueClosed, cancelled>>
startVars  == <<started, parentDone>>
vars == <<callVars, countVars, logVars, stripeVars, drainVars, startVars, queue>>

(* "closed" and "stopped" are both ErrStripedPoolClosed, from the flag and *)
(* from the channel.                                                       *)
SubmitReturns == {"ok", "ctxErr", "closed", "stopped", "panic"}
DrainReturns  == {"ok", "already", "ctxErr"}

TypeOK ==
  /\ started \in 0 .. Starts /\ parentDone \in BOOLEAN /\ closed \in BOOLEAN
  /\ queue \in [Stripe -> Seq(Task)]
  /\ \A s \in Stripe : Len(queue[s]) <= QueueSize
  /\ queueClosed \subseteq Stripe /\ cancelled \subseteq Stripe
  /\ running \in [Stripe -> 0 .. Starts]
  /\ job \in [Stripe -> SUBSET Task]
  /\ \A s \in Stripe : Cardinality(job[s]) <= running[s]
  /\ submitted \in [Stripe -> Nat] /\ totalSubmitted \in Nat
  /\ processed \in [Stripe -> Nat] /\ panics \in [Stripe -> Nat]
  /\ submit \in [Task -> {"idle", "choose", "count", "select"} \cup SubmitReturns]
  /\ idx \in [Task -> Stripe]
  /\ drain \in [Stopper -> {"idle", "poll", "close", "cancel", "wait"} \cup DrainReturns]
  /\ drainer \in Stopper \cup {NoStopper}
  /\ scan \in 0 .. N
  /\ ctxDone \subseteq Cancellable \cap Stopper
  /\ sent \in Seq(Task) /\ late \subseteq Task /\ done \subseteq Task

Init ==
  /\ started = 0 /\ parentDone = FALSE /\ closed = FALSE
  /\ queue = [s \in Stripe |-> <<>>]
  /\ queueClosed = {} /\ cancelled = {}
  /\ running = [s \in Stripe |-> 0]
  /\ job = [s \in Stripe |-> {}]
  /\ submitted = [s \in Stripe |-> 0] /\ totalSubmitted = 0
  /\ processed = [s \in Stripe |-> 0] /\ panics = [s \in Stripe |-> 0]
  /\ submit = [t \in Task |-> "idle"]
  /\ idx = [t \in Task |-> 0]
  /\ drain = [d \in Stopper |-> "idle"]
  /\ drainer = NoStopper
  /\ scan = 0
  /\ ctxDone = {}
  /\ sent = <<>> /\ late = {} /\ done = {}

-----------------------------------------------------------------------------
(* Contexts, and Start *)

(* The context of a DrainAndStop call, which it looks at more than once.   *)
CancelDrain(d) ==
  /\ d \in Cancellable \ ctxDone
  /\ drain[d] \notin DrainReturns
  /\ ctxDone' = ctxDone \cup {d}
  /\ UNCHANGED <<drain, drainer, scan, closed, queueClosed, cancelled, callVars, countVars,
                 logVars, stripeVars, startVars, queue>>

CancelParent ==
  /\ started > 0 /\ ~parentDone
  /\ parentDone' = TRUE
  /\ UNCHANGED <<started, callVars, countVars, logVars, stripeVars, drainVars, queue>>

(* Every call starts a goroutine per stripe, also when there is one, and   *)
(* replaces its context; one that finds the pool closed starts nothing.    *)
Start ==
  /\ started < Starts /\ ~closed
  /\ started' = started + 1
  /\ running' = [s \in Stripe |-> running[s] + 1]
  /\ UNCHANGED <<parentDone, job, processed, panics, done, callVars, countVars,
                 logVars, drainVars, queue>>

-----------------------------------------------------------------------------
(* Submit and SubmitWithKey *)

Return(t, result) ==
  /\ submit' = [submit EXCEPT ![t] = result]
  /\ UNCHANGED idx

Elsewhere == UNCHANGED <<stripeVars, drainVars, startVars>>

(* A mutant: the key is ignored and the counter used for every call. *)
ByCounter(t) == totalSubmitted % N

(* A mutant: the hash is not reduced to the number of stripes. *)
ByHash(t) == Hash[KeyOf[t]]

(* selectStripe for a call with a key. *)
ByKey(t) == Hash[KeyOf[t]] % N

Choose(t, s) ==
  /\ submit' = [submit EXCEPT ![t] = "count"]
  /\ idx' = [idx EXCEPT ![t] = s]

(* The closed flag is read under mu, which is released before the send. *)
SubmitCheck(t) ==
  /\ submit[t] = "idle"
  /\ \/ closed /\ Return(t, "closed")
     \/ ~closed /\ t \in Keyed /\ Choose(t, ByKey(t))
     \/ ~closed /\ t \notin Keyed /\ Return(t, "choose")
  /\ Elsewhere /\ UNCHANGED <<countVars, logVars, queue>>

(* A call without a key reads the counter, which submitToStripe increments *)
(* only later.                                                             *)
SubmitChoose(t) ==
  /\ submit[t] = "choose"
  /\ Choose(t, totalSubmitted % N)
  /\ Elsewhere /\ UNCHANGED <<countVars, logVars, queue>>

SubmitCount(t) ==
  /\ submit[t] = "count"
  /\ submitted' = [submitted EXCEPT ![idx[t]] = @ + 1]
  /\ totalSubmitted' = totalSubmitted + 1
  /\ Return(t, "select")
  /\ Elsewhere /\ UNCHANGED <<logVars, queue>>

(* A mutant: only the first stripe's queue is looked at. *)
EmptyFirst(s) == queue[0] = <<>>

(* A mutant: the counters are compared instead of the queue. *)
EmptyByCounters(s) == submitted[s] = processed[s]

(* A mutant: nobody looks at the queue. *)
EmptyAlways(s) == TRUE

Empty(s) == queue[s] = <<>>

Waiting(s) == Cardinality(job[s]) < running[s]

Sent(t) ==
  /\ sent' = Append(sent, t)
  /\ late' = IF closed THEN late \cup {t} ELSE late
  /\ Return(t, "ok")

(* The task goes to the queue or, when a goroutine of the stripe waits at  *)
(* the empty queue, to it.                                                 *)
SubmitSend(t) ==
  LET s == idx[t] IN
  /\ submit[t] = "select"
  /\ s \notin queueClosed
  /\ \/ /\ Len(queue[s]) < QueueSize
        /\ queue' = [queue EXCEPT ![s] = Append(@, t)]
        /\ UNCHANGED job
     \/ /\ Empty(s) /\ Waiting(s)
        /\ job' = [job EXCEPT ![s] = @ \cup {t}]
        /\ UNCHANGED queue
  /\ Sent(t)
  /\ UNCHANGED <<running, processed, panics, done, countVars, drainVars, startVars>>

SubmitFails(t, result) ==
  /\ submit[t] = "select"
  /\ Return(t, result)
  /\ Elsewhere /\ UNCHANGED <<countVars, logVars, queue>>

(* Nothing recovers from the send on a closed queue. *)
SubmitPanic(t) == idx[t] \in queueClosed /\ SubmitFails(t, "panic")

SubmitStopped(t) == closed /\ SubmitFails(t, "stopped")

(* Nothing but this case looks at the context of the call: it has ended    *)
(* some time before.                                                       *)
SubmitCtx(t) == t \in Cancellable /\ SubmitFails(t, "ctxErr")

Submit(t) ==
  SubmitChoose(t) \/ SubmitCount(t) \/ SubmitSend(t) \/ SubmitPanic(t) \/ SubmitStopped(t)

-----------------------------------------------------------------------------
(* The stripes *)

StripeTake(s) ==
  /\ Waiting(s) /\ queue[s] # <<>>
  /\ job' = [job EXCEPT ![s] = @ \cup {Head(queue[s])}]
  /\ queue' = [queue EXCEPT ![s] = Tail(@)]
  /\ UNCHANGED <<running, processed, panics, done, callVars, countVars, logVars,
                 drainVars, startVars>>

(* A mutant: the panic is not recovered and ends the stripe's goroutine. *)
RecoversNone(t) == t \notin Faulty

(* The deferred function of executeTask recovers from every panic. *)
Recovers(t) == TRUE

(* A mutant: the deferred function counts every task as processed. *)
CompletesAll(t) == TRUE

Completes(t) == t \notin Faulty

(* executeTask counts a task as processed, or its panic as recovered. *)
ExecuteTask(s, t) ==
  /\ t \in job[s]
  /\ job' = [job EXCEPT ![s] = @ \ {t}]
  /\ done' = done \cup {t}
  /\ running' = IF Recovers(t) THEN running ELSE [running EXCEPT ![s] = @ - 1]
  /\ panics' = IF t \in Faulty THEN [panics EXCEPT ![s] = @ + 1] ELSE panics
  /\ processed' = IF Completes(t) THEN [processed EXCEPT ![s] = @ + 1] ELSE processed
  /\ UNCHANGED <<callVars, countVars, logVars, drainVars, startVars, queue>>

(* The context case is as good as the queue case, whatever is queued.  A   *)
(* goroutine may look at the context of an older Start, which nobody       *)
(* cancels, but then it goes on as in StripeTake or StripeClosed.          *)
StripeReturn(s) ==
  /\ Waiting(s)
  /\ \/ s \in cancelled \/ parentDone
     \/ s \in queueClosed /\ Empty(s)
  /\ running' = [running EXCEPT ![s] = @ - 1]
  /\ UNCHANGED <<job, processed, panics, done, callVars, countVars, logVars,
                 drainVars, startVars, queue>>

StripeStep(s) == StripeTake(s) \/ (\E t \in Task : ExecuteTask(s, t)) \/ StripeReturn(s)

-----------------------------------------------------------------------------
(* DrainAndStop *)

DrainGoto(d, from, to) ==
  /\ drain[d] = from
  /\ drain' = [drain EXCEPT ![d] = to]
  /\ UNCHANGED <<ctxDone, callVars, countVars, logVars, stripeVars, startVars, queue>>

(* A later caller returns nil at once, drained or not. *)
DrainCall(d) ==
  /\ \/ /\ ~closed
        /\ closed' = TRUE /\ drainer' = d
        /\ DrainGoto(d, "idle", "poll")
     \/ /\ closed
        /\ DrainGoto(d, "idle", "already")
        /\ UNCHANGED <<closed, drainer>>
  /\ UNCHANGED <<scan, queueClosed, cancelled>>

(* One stripe is looked at after the other. *)
PollStripe(d) ==
  /\ scan < N
  /\ scan' = IF Empty(scan) THEN scan + 1 ELSE 0
  /\ DrainGoto(d, "poll", "poll")
  /\ UNCHANGED <<drainer, closed, queueClosed, cancelled>>

PollDone(d) ==
  /\ scan = N \/ d \in ctxDone
  /\ scan' = 0
  /\ DrainGoto(d, "poll", "close")
  /\ UNCHANGED <<drainer, closed, queueClosed, cancelled>>

CloseQueue(d) ==
  /\ queueClosed' = queueClosed \cup {scan}
  /\ scan' = (scan + 1) % N
  /\ DrainGoto(d, "close", IF scan + 1 < N THEN "close" ELSE "cancel")
  /\ UNCHANGED <<drainer, closed, cancelled>>

(* The stripe's last context is cancelled; there is none when Start never  *)
(* ran.                                                                    *)
CancelStripe(d) ==
  /\ cancelled' = IF started > 0 THEN cancelled \cup {scan} ELSE cancelled
  /\ scan' = (scan + 1) % N
  /\ DrainGoto(d, "cancel", IF scan + 1 < N THEN "cancel" ELSE "wait")
  /\ UNCHANGED <<drainer, closed, queueClosed>>

(* A mutant: success without waiting for the goroutines. *)
AllGoneAtOnce == TRUE

(* A mutant: one goroutine per stripe is waited for. *)
AllGoneButOne == \A s \in Stripe : running[s] < started

(* Every stripe's wait group is at zero. *)
AllGone == \A s \in Stripe : running[s] = 0

DrainReturn(d) ==
  /\ \/ AllGone /\ DrainGoto(d, "wait", "ok")
     \/ d \in ctxDone /\ DrainGoto(d, "wait", "ctxErr")
  /\ UNCHANGED <<drainer, scan, closed, queueClosed, cancelled>>

(* What DrainAndStop does next in its caller's goroutine; PollStripe is    *)
(* the goroutine it starts.                                                *)
DrainStep(d) == PollDone(d) \/ CloseQueue(d) \/ CancelStripe(d) \/ DrainReturn(d)

-----------------------------------------------------------------------------
(* What happens without a new call of Submit or SubmitWithKey. *)
PoolStep ==
  \/ Start \/ CancelParent
  \/ \E s \in Stripe : StripeStep(s)
  \/ \E d \in Stopper : CancelDrain(d) \/ DrainCall(d) \/ PollStripe(d) \/ DrainStep(d)

Next ==
  \/ PoolStep
  \/ \E t \in Task : SubmitCheck(t) \/ Submit(t) \/ SubmitCtx(t)

Spec == Init /\ [][Next]_vars

(* Every goroutine that can go on does; tasks return or panic.  Nobody has *)
(* to start or stop the pool, to submit, or to end a context.              *)
Fairness ==
  /\ \A t \in Task : WF_vars(Submit(t))
  /\ \A s \in Stripe : WF_vars(StripeStep(s))
  /\ \A d \in Stopper : WF_vars(PollStripe(d)) /\ WF_vars(DrainStep(d))

FairSpec == Spec /\ Fairness

-----------------------------------------------------------------------------
(* Properties *)

IsSent(t)  == submit[t] = "ok"

(* A goroutine of its stripe has taken it.                                 *)
Fetched(t) == t \in done \/ \E s \in Stripe : t \in job[s]

(* The tasks of one key are taken off the queue in the order in which      *)
(* their calls were accepted, also while the pool is drained, when a body  *)
(* panics and when a stripe gives up its queue: what is lost then is never *)
(* followed by a task of the same key that runs. If the pool was started   *)
(* once, one has ended before the next is taken, so that their bodies run  *)
(* in that order; a second Start gives every stripe a second goroutine,    *)
(* and the bodies may then start in another order and overlap.             *)
KeyOrder ==
  \A i, j \in DOMAIN sent :
    (/\ i < j
     /\ {sent[i], sent[j]} \subseteq Keyed
     /\ KeyOf[sent[i]] = KeyOf[sent[j]]
     /\ Fetched(sent[j])) => /\ Fetched(sent[i])
                             /\ started = 1 => sent[i] \in done

(* The metrics balance on every stripe: what was counted as submitted is   *)
(* processed, panicked, queued, running, still in its select, or was given *)
(* an error by its call (which does not take the count back).              *)
CountersBalance ==
  \A s \in Stripe :
    submitted[s] =
         processed[s] + panics[s] + Len(queue[s])
         + Cardinality(job[s])
         + Cardinality({t \in Task : /\ idx[t] = s
                                     /\ submit[t] \in {"select", "ctxErr", "stopped", "panic"}})

(* When the call that closed the pool reports success, its context not     *)
(* having ended, every task accepted before it was called has been         *)
(* executed, even if the context given to Start ended in between.          *)
InTimeIsDone ==
  (/\ drainer # NoStopper
   /\ drain[drainer] = "ok"
   /\ drainer \notin ctxDone) => \A t \in Task : IsSent(t) /\ t \notin late => t \in done

(* After that report no task of the pool starts or ends any more. *)
QuietOnceDrained ==
  [][(drainer # NoStopper /\ drain[drainer] = "ok") => UNCHANGED <<job, done>>]_vars

(* Once the pool is started, every task accepted before it was closed is   *)
(* executed in the end, unless the context of Start or of DrainAndStop     *)
(* ends: a panic on its stripe does not stop it, nor does a second Start.  *)
(* (Tasks are accepted finitely often, and what is done stays done.)       *)
InTimeRuns ==
  []<>(\/ started = 0 \/ parentDone
       \/ drainer # NoStopper /\ drainer \in ctxDone
       \/ \A t \in Task : IsSent(t) /\ t \notin late => t \in done)

(* Closing the pool releases all the calls that wait at a full queue, and  *)
(* DrainAndStop itself comes back if the pool was started, unless the      *)
(* context of Start ended with tasks queued.                               *)
CallsReturn ==
  closed ~> /\ \A t \in Task : submit[t] \in {"idle"} \cup SubmitReturns
            /\ \/ started = 0 \/ parentDone
               \/ \A d \in Stopper : drain[d] \in {"idle"} \cup DrainReturns

-----------------------------------------------------------------------------
(* What the comments promise and the code does not keep *)

(* A call that cannot be served returns an error (pool.go:8), whatever the *)
(* moment at which the pool is closed: it does not panic.                  *)
SubmitNeverPanics == \A t \in Task : submit[t] # "panic"

(* DrainAndStop "waits until all submitted tasks have been executed"       *)
(* (striped_pool.go:238): when it reports success nothing accepted is      *)
(* outstanding, if the pool was started and no context has ended.          *)
DrainedMeansAllRun ==
  started > 0 /\ (\E d \in Stopper : drain[d] = "ok") /\ ctxDone = {} /\ ~parentDone
    => \A t \in Task : IsSent(t) => t \in done
=============================================================================
