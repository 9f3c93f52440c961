# LoadFlow in TLA+

LoadFlow moves messages from sources through a router to worker pools, and a
scheduler shifts routing weights between the pools. This directory holds TLA+
modules for its concurrent core, TLC configurations that check them on small
instances, and proofs, checked by TLAPS, about the pools, the runtime, the router
and the scheduler for every number of tasks, goroutines, messages, pools and
streams.

## The system

| Component | Code | State | Operations |
|---|---|---|---|
| FixedPool | `pkg/pool/fixed_pool.go` | a channel of tasks, `stopped`, a wait group, a counter | `Submit`, `DrainAndStop`, the workers |
| StripedPool | `pkg/pool/striped_pool.go` | a queue, goroutine, context and counters per stripe; `closed`, `stopped` | `Start`, `Submit`, `SubmitWithKey`, `DrainAndStop`, the stripes |
| Runtime | `pkg/runtime/runtime.go` | the maps of sources and pools, the router, codec and key function, `started`, the map of dispatchers, `rtMu` | `RegisterSource`, `RegisterPool`, `UseRouter` and the other setters, `Start`, `Stop`, `DumpMetrics`, one goroutine per source |
| RouteDispatcher | `pkg/runtime/dispatcher.go` | a bounded buffer and a goroutine per stream and pool | `Start`, `TrySubmit`, `Stop` |
| WeightedRRRouter | `pkg/flow/router/weighted_rr.go` | per stream an entry: targets, table, ring, cursor | `Bind`, `BindMany`, `SetMany`, `RouteWithKey` |
| inMemory router | `pkg/flow/router/inmemory.go` | one pool per stream | `Bind`, `Route` |
| Controller | `pkg/scheduler/controller.go` | `lastApply` per stream | `Run` |
| PressureRebalance | `pkg/scheduler/strategy_pressure_rebalance.go` | none | `DecideStream` |
| Policies | `pkg/scheduler/policy.go` | per stream and default policies | `Get` |
| BindingRegistry, RouterApplier | `pkg/scheduler/applier_router.go` | a `Binding` per stream | `Set`, `Get`, `Apply` |
| RuntimeMetricsProvider | `pkg/scheduler/provider_runtime.go` | previous count per pool | `Sample` |
| ChanSource, codec, handler, exporter, demo | `pkg/flow/source`, `pkg/message`, `pkg/consumer`, `pkg/metrics`, `cmd` | a channel; none | I/O and conversion |

How they interact. A source goroutine of the runtime receives a message, asks
the router for a pool and hands the task to the dispatcher of that stream and
pool, which it creates if there is none. `TrySubmit` never waits: a full buffer
drops the message. The dispatcher's goroutine calls `Submit` of the pool, which
waits at a full queue. `Stop` cancels the runtime's context, waits for the
sources, stops the dispatchers and drains the pools in turn. The controller
samples the pools once a tick, and rewrites the weights in the registry and in
the router, which goroutines of sources are reading.

What is hard. Closing: a Go channel that is closed under a sender panics, a
select with several ready cases chooses at random, and every `DrainAndStop` and
`Stop` has calls waiting in such selects. Order: one goroutine per stripe and
per dispatcher is all that keeps messages in order. Stale readings: `closed` in
StripedPool, the router's entry, the registry's binding and the snapshot are all
used after the lock that protected the reading is gone. Time: cooldowns and
rates are checked against a clock that moves on during a tick. What is correct:

* pools: an accepted task runs exactly once, a refused one never; a nil from
  `DrainAndStop` means that everything accepted has run; tasks of a key run in
  order; nobody waits for ever;
* runtime: the messages of a source leave the channel of a pool in order, and are
  handled in order by a pool of one goroutine (one of several gives no order, as
  `fixed_pool.go:25-27` says); no message forgotten while it runs, pools closed
  after everything that submits to them, `Stop` comes back and leaves quiet;
* router: exact shares, no traffic for pools without weight, keys that stay;
* scheduler: bounded steps that keep floors and totals, cooldowns, policies
  obeyed, router and registry in agreement.

## The modules

| Module | Models | Run by |
|---|---|---|
| `WorkerPool` | the promise of the `WorkerPool` interface | refined by FixedPool |
| `TaskQueue` | how a pool with one queue works | refined by FixedPool, used by Runtime |
| `FixedPool` | `fixed_pool.go` | `FixedPool.cfg` |
| `FixedPoolProofs` | theorems about FixedPool | TLAPS |
| `StripedPoolProofs`, `StripedRouteProofs` | theorems about StripedPool and StripedRoute | TLAPS |
| `RuntimeProofs`, `RuntimeDelivers` | theorems about Runtime; that it implements Delivery | TLAPS |
| `WeightedRRProofs` | theorems about WeightedRR | TLAPS |
| `SchedulerDecides`, `SchedulerProofs` | lemmas about `Decide`; theorems about Scheduler | TLAPS |
| `StripedPool`, `MCStripedPool` | `striped_pool.go` | `StripedPool*.cfg` |
| `StripedRoute`, `MCStripedRoute` | a dispatcher (`dispatcher.go`) in front of a `StripedPool` | `StripedRoute*.cfg` |
| `Delivery` | what the runtime promises about a message | refined by Runtime |
| `Runtime`, `MCRuntime` | `runtime.go`, `dispatcher.go`, over pools that work as a TaskQueue | `Runtime*.cfg` |
| `StreamRoute` | what a router promises for one stream | refined by WeightedRR |
| `WeightedRR`, `MCWeightedRR` | `weighted_rr.go` | `WeightedRR.cfg` |
| `Scheduler`, `MCScheduler` | the package `scheduler` | `Scheduler.cfg` |

State and actions follow the code: a goroutine has a place (`pc`, `submit`,
`drain`, `src`, `disp`, `stop`), and a step is what the code does between two
points at which another goroutine can interfere. A `select` is one action per
case, and any ready case may be chosen; a send to a waiting receiver is a
hand-off of its own, which is how a queue of 0 works. A closed channel makes the
send case ready, and choosing it panics: FixedPool recovers and answers
`ErrPoolClosed`, StripedPool does not recover. Contexts that may end are
constants or flags of their own. A task is an element of a set, and so is a
message: what it does is to return, to panic (StripedPool) or never to
return (`Stuck` in Runtime).

`WorkerPool` says what a pool promises: a call's task is accepted or refused
while the pool is open, an accepted task runs once, and the pool may report that
it is drained when it is closed and nothing is left. `FixedPool` shows, with the
mapping `WP`, that it does this; its closed send, its second `DrainAndStop` and
its counter are steps that change nothing the promise speaks of.

`TaskQueue` says how such a pool works inside: tasks wait in the order of acceptance
and leave the channel in it, no more are with the goroutines than there are
goroutines, and none enters once the pool is closed. A goroutine takes a task off
the channel (`Fetch`, `WorkerTake`, `StripeTake`), calls it some time later, and is
done with it (`Finish`). When the handler starts is no state of the modules: with
several goroutines it may start before that of a task taken earlier, and no property
says anything else. "Taken" and `fetched` always mean off the channel; what is said
of the order of handlers is said for one goroutine, which has finished one task
before it takes the next. `FixedPool` implements it with the mapping `TQ`
(`ActsAsQueue`). `Runtime` keeps a queue and a set of busy tasks per pool, and each
of them is used as a `TaskQueue` (`PoolsAreQueues`, mapping `Q`): no dispatcher or
`Stop` does to a pool what the code of the pool would not do.

`StripedPool` may be started up to `Starts` times: every call gives each stripe
another goroutine (`running`) and replaces its context, as the code does. What
holds for one goroutine per stripe only says so (`started = 1`).

`StripedRoute` extends `StripedPool` with the dispatcher of one source: its
buffer, its goroutine, and the context it passes to `Submit`. The tasks of the
source are submitted by that goroutine alone and without their key; other tasks
are submitted directly. Every action of the pool is taken over as it is.

`Runtime` takes the pools as a `TaskQueue` with `Size[p]` goroutines. What
the router answers is any pool that `Routes` allows for the message, which
covers both routers and whatever a codec or a key function makes of it. `rtMu`
is a `sync.RWMutex`: only `Start`'s loop and `Stop` while it drains the pools
hold it over more than one step, for reading; a writer that comes then waits
(`pending`) and keeps all later readers out, a source goroutine that copies its
configuration and a handler that calls `DumpMetrics` (`Callback`) among them.

Sources and pools are registered under their names, and a second one of a name
overwrites the first in the map, as the router and the settings are overwritten
(`Put`; `Slot[x]` is where `x` is kept, `Later` what is registered at any moment and
any number of times, `replaced` what has lost its place). Who has a pool already
goes on using it: the router answers what it was given, a dispatcher submits to the
pool it was made for. Dispatchers are kept by names too, so that a message for a
pool whose name another dispatcher of the stream has goes through that one, to its
pool (`Via`). `Stop` drains what is in the map.

`Delivery` follows a message instead of the goroutines: received, taken by a
dispatcher, accepted by a pool, taken by a goroutine of the pool (`fetched`),
handled, or lost. `Runtime` shows with the mapping `D` that it keeps to it:
`MsgStatus` finds a message in the buffers, hands and queues, and calls it lost when
it is nowhere. A message taken by a dispatcher that vanishes while the runtime runs,
is handled twice, or overtakes another of its source is then a step `Delivery` does
not have.

`StreamRoute` knows no tables and cursors. `SetMany` gives a stream new weights; a
call goes by the weights that were in force when it looked, even if they have been
replaced since; messages without a key are spread so that no pool is ever more
than a round ahead of another, measured by its weight; a key keeps its pool.
`WeightedRR` shows with the mapping `SR` that it does this (`RoutesByWeight`). That a
key stays is a guard of `Keep`, so the run checks it there; `KeySticky` states it by
itself and is proved.

`Scheduler` computes pressures as exact quotients and compares the square root in
the step by squaring, so rounding of float64 is left out; parameters are whole
numbers, `maxFrac` in percent, and each policy may bring its own. A rate comes from
the difference of two unsigned counts, modulo `Counts`. A pool of `Striped` reports
neither workers nor a count. A `Binding` that a user has replaced is still written
by an `Apply` that looked it up before (`held.live`). The router refuses weights
none of which is positive (`Accepts`), a user's own as well, which the registry
takes. Its times are counted in units up to `MaxAge`, from where on they stand
still; no cooldown is longer than that. It starts as `setupScheduler` of
`cmd/demo-channel` leaves it: registry and router with the same weights. `raced`
names the streams that a user has rebound between a plan and its `MarkApplied`, or
whose plan was made between a user's two writes, until the user rebinds them again.

Operators named as mutants (`WorkerExitEarly`, `ShareWhole`, ...) are no part
of a specification. Each is a plausible bug in the operator that follows it, and
shows that some property would notice.

## The runs

| Run | Instance | What it shows |
|---|---|---|
| `FixedPool.cfg` | 3 tasks and a nil one, 2 workers, queue 2, 2 stoppers, of which one and one task can have their context end | types, at most once and only if accepted, complete drain, refinement of WorkerPool and of TaskQueue, accepted tasks run, calls return |
| `StripedPoolSafety.cfg` | 2 stripes, up to 2 starts, 3 tasks, 2 of them of one key, one that panics | order per key, the counters, a drain that is complete for what was accepted before it, quiet after it |
| `StripedRoute.cfg` | 1 stripe, up to 2 starts, a dispatcher with a buffer of 1 and two messages of one key, of which the first panics, and a task with a key submitted directly; fairness | order on the way into and out of the pool's queue, and of the handlers with one start; accepted tasks run although one panics, calls return, the dispatcher leaves |
| `StripedPoolPanic.cfg` | as safety, 1 start | finding: `Submit` can panic |
| `StripedPoolLost.cfg` | as safety, 1 start | finding: `DrainAndStop` can answer nil with an accepted task unrun |
| `StripedRouteOrder.cfg` | as `StripedRoute`, 2 stripes, 1 start | finding: no order per key behind the runtime |
| `RuntimeSafety.cfg` | 2 sources (one registered late), 2 pools of 1 and 2 goroutines, 3 messages, buffers and queues of 1, a handler that calls `DumpMetrics` | order off the channel, and of the handlers in a pool of one goroutine; nothing forgotten, pools closed last, whom a waiting writer of `rtMu` keeps out, pools used as TaskQueue |
| `RuntimeLive.cfg` | 1 source, 2 pools of one name and without queue, of which the second takes the place of the first at any time, 4 messages of which the first has no route or a handler that never returns, and the second one that calls `DumpMetrics`; fairness | pools that were not replaced are quiet after `Stop`, refinement of Delivery, sources never wait, `Stop` with a deadline comes back, writers of `rtMu` get in |
| `RuntimeBuffers.cfg` | two sources, no handler that calls back | finding: `Stop` drops what dispatchers have buffered |
| `RuntimeStartStop.cfg` | the same | finding: a `Stop` that overtakes `Start` does not wait for the sources |
| `WeightedRR.cfg` | 3 pools, 13 configurations, 2 entries, 2 callers, 1 key, 6 calls per entry | exact shares, weights obeyed, equal ratios give equal rings, keys stay, refinement of StreamRoute |
| `Scheduler.cfg` | 2 streams (one disabled), 2 fixed pools of 4 and 1 workers, a striped one, one that is not registered, 4 bindings, of which the router refuses one, 3 loads (one of them of a replaced pool), default parameters with a `minWeight` of the stream's own, cooldowns 1 and 2 | bounded plans, plans when they are due, floors, agreement of registry and router, cooldowns, nothing for striped pools, disabled streams left alone |

Why the bounds are enough. Every race in the pools is between two calls and one
worker or stripe: three tasks let one be run, one be queued and one wait at a full
queue of 1 (StripedPool), or be run and two queued in order, or two wait in the full
queue of 2 for the nil task to be rejected beside them (FixedPool), and a second
worker, stripe or start lets them overtake each other. Two stoppers are one that
closes and one that finds the pool closing. Two messages before the dispatcher are
one in its hands and one in its buffer, and with the third task the pool is full.
Three messages of two sources reach all the combinations of a held, a buffered and a
dropped one, and two of them may meet in a pool of two goroutines. The instance of
`RuntimeLive` has one message more than a stuck pool, its dispatcher and its buffer
can hold; its messages are for both pools of the name, the first for one and the
others for the other, so that the dispatcher of the first goes for both, whichever
pool is in the map. One writer that waits is as good as several: the first keeps
every reader out. The router's entries share nothing but the map: two of them are an
old and a new one; 6 calls are a whole round of the longest tables, and several of
the shorter ones. In the scheduler the bindings differ in length, order and total,
so that a plan can land on the wrong one in each way the code lets through or
refuses, and one of them has no weight; the loads give pressures of 0, near the
threshold, far above it, and next to 0 where a count has wrapped around; `Counts`
stands for 2^64 and only has to be large against the other counts.

Where a system may stop (all work done, or bounds reached) the configurations
switch the deadlock check off; the liveness properties say what may not be left
waiting.

### Fairness

`FairSpec` asks for weak fairness of every step of a goroutine that can go on:
Go's scheduler is preemptive. Nobody has to call anything, and no context has to
end, except that `Stop` in Runtime is given a context with a deadline. Strong
fairness is asked of a select's case for an ended context in the dispatchers and
in `ChanSource.Recv`: the select chooses at random among its ready cases, so a
case that is ready again and again is chosen in the end. Handlers return, but
for those of `Stuck`.

## The findings

1. `Submit` and `SubmitWithKey` of StripedPool panic in the caller when
   `DrainAndStop` closes the queue they send to (`striped_pool.go:229`, `:286`).
2. `DrainAndStop` of StripedPool answers nil although an accepted task is left in
   a closed queue: the stripe chose its ended context (`striped_pool.go:121`,
   `:290`). What was accepted before `DrainAndStop` began is safe
   (`InTimeIsDone`).
3. Dispatchers leave with tasks in their buffers, which two comments deny
   (`dispatcher.go:52`, `runtime.go:286`).
4. `Stop` may find nothing to wait for while `Start` is about to start the sources
   (`runtime.go:165`, `:283`). The properties of a proper stop hold otherwise
   (`early` names the calls that came too soon).
5. A StripedPool behind the runtime gives no order per key: dispatchers call
   `Submit` and never `SubmitWithKey` (`dispatcher.go:57`), although the
   documentation of strategy 3 shows the latter. With one stripe the order holds
   (`RouteOrder` in `StripedRoute.cfg`).

The usage example of `StaticPolicyProvider` (`policy.go:53-73`) sets no
`EnabledSet`, and does not do what it says: `normalizePolicy` takes `Enabled`
only from a policy with `EnabledSet`, so `stream_b`, "disabled" by
`{Enabled: false}` on line 70, inherits `Default` and is scheduled, while
streams without a policy of their own are not, `Default`'s `Enabled` being lost
on line 85. `DisabledStaysPut` is stated for policies with `EnabledSet`, which is
what `cmd/demo-channel` uses.

More behaviours that a user should know:

- A second `DrainAndStop` of a StripedPool returns nil at once; one whose parent
  context has ended before, or that was never started, polls for ever without a
  deadline. A second `Start` of it gives up that the tasks of a key run one at a
  time: they still leave the queue in order, but the second may start before the
  first.
- `Stop` of the runtime with `context.Background()`, which is how
  `cmd/demo-channel` calls it, can wait for ever: a handler that calls
  `DumpMetrics` waits behind a writer that waits for `Stop`. `LockWaits` says that
  the circle closes through such a handler only; with a deadline for `Stop` it
  opens again (`WritersGetIn`).
- A pool that is registered under the name of another takes its place in the map
  (`runtime.go:95`), and `Stop` drains what is in the map (`:302`): it returns nil
  while the replaced pool, which the router and its dispatchers go on using, has
  tasks waiting and handlers running. The comments on lines 265 and 298 speak of
  all tasks and all pools. `StopQuiesces` therefore excludes replaced pools.
- A dispatcher is found by the names of stream and pool (`runtime.go:119`): a
  message for a pool goes to another that has, or had, the same name, if the
  stream has a dispatcher for that one. A new pool of an old name may so never
  get a message.
- `Apply` looks the binding up anew and compares only lengths
  (`applier_router.go:95-101`). When a user has rebound the stream since the plan
  was made, the plan lands on other pools, or on the same ones in another order:
  made for `[p, q, r]` with weights 1, 5, 5 and a `minWeight` of 2, the plan 1, 4, 6
  applied to `[q, p, r]` with 5, 5, 5 leaves `q` at 1. The repository's `README.md:52` and
  `strategy_pressure_rebalance.go:27` promise the minimum for each pool;
  `FloorKept` says that it holds where no user has interfered.
- When a user rebinds a stream in the middle of an `Apply`, router and registry can
  stay apart until the next change; so they do when a user sets weights that the
  router refuses (`InSync` excludes both by name).
- `maxFrac` does not bound a step of 1. Weight that leaves a StripedPool never
  comes back by the scheduler's hand (`StripedOnlyLoses`), and `Params` of a policy
  replaces those of `Default` as a whole.

## The proofs

The theorems hold for all values of the constants. What they assume of them is
what the `ASSUME`s of the modules say, which TLC evaluates in every run, and for
three theorems one more hypothesis, which is named in the statement.

An invariant a run checks is seldom inductive. Each component has an `IInv`
that is, proved from three facts: `Init` establishes it, every step keeps it,
and it implies what the run checks. Steps have a lemma each; steps that touch
nothing a part of `IInv` speaks of share one. The strengthened invariants were
checked by TLC on the instances of the runs before they were proved.

### FixedPool (`FixedPoolProofs`, from `PoolAssumption`)

Finite sets of tasks and of workers, at least one worker, a queue of any capacity.

| Theorem | Says |
|---|---|
| `Invariance`, `TypeCorrect` | `Spec => []IInv`, `Spec => []TypeOK` |
| `AtMostOnce` | `Spec => []RunOnlyIfAccepted` |
| `DrainComplete` | `Spec => []DrainedMeansAllRun` |
| `Refinement` | `Spec => Implements`, FixedPool implements WorkerPool |
| `QueueRefinement` | `Spec => ActsAsQueue`, FixedPool implements TaskQueue, and is drained when `DrainAndStop` says so |

`DrainedMeansAllRun` is not inductive: that the workers have left says nothing
by itself about the queue or the counter. `IInv` adds that an accepted task is
in exactly one place, in the queue, with one worker or run to its end
(`OnePlace`, `PlaceTells`, `NothingLost`), that a worker holds a task exactly
while it is busy (`HeldWhileBusy`), that a worker leaves only a closed and empty
queue, which then stays empty (`LeftEmpty`), and that the counter and the tasks
that have run differ by the workers that have not counted yet (`CounterExact`).
`Refinement` takes `IInv` as an invariant of the step: `WP`'s report that the
pool is drained needs `DrainedMeansAllRun` in the state in which it is made.
`QueueRefinement` counts the busy tasks: an idle worker leaves room for one more
(`IdleLeavesRoom`), which is what a hand-off and a worker's receive need; a task
that is counted is busy with nobody else, as no two workers have the same one
(`OnePlace`).

### StripedPool (`StripedPoolProofs`, from `StripedAssumption`)

| Theorem | Says |
|---|---|
| `Invariance`, `TypeCorrect` | `Spec => []IInv`, `Spec => []TypeOK` |
| `KeysInOrder` | `Spec => []KeyOrder` |
| `CountersAlwaysBalance` | `Spec => []CountersBalance` |
| `InTimeDone` | `Spec => []InTimeIsDone` |
| `QuietAfterDrain` | `Spec => QuietOnceDrained` |

The heart of `IInv` is `Ordered`: every sent task is finished, at hand or queued
on its stripe and in one of these only (`InPlace`, `NothingLost`), each queue is
in the order of `sent` (`QueueInOrder`), and on each stripe what is finished or
at hand was sent before what is queued (`StripeOrder`). `KeyOrder` follows as the
tasks of a key have one stripe (`KeyedOnStripe`). `CountersBalance` is kept task
by task: one that panics is finished and counted. `Drained` says what a
`DrainAndStop` that polls has seen: a stripe whose context has ended holds only
what came late (`PolledEmpty`), and after `ok` every goroutine has left
(`AllLeft`). The sums of the counters are folds over the stripes; that one stripe
more by 1 makes the sum more by 1 is the fact all the counting steps use.

### StripedRoute (`StripedRouteProofs`, from `RouteAssumption`)

| Theorem | Says |
|---|---|
| `RouteIsPool` | `RouteSpec => Spec`: the theorems about the pool carry over |
| `RouteInvariance` | `RouteSpec => []RouteInv` |
| `RouteInOrder` | `N = 1 => (RouteSpec => []RouteOrder)` |

`RouteInv` gives each arrived message its place: lost, sent, in the dispatcher's
hand or in its buffer, where what is further on arrived earlier. `N = 1` is not a
convenience: with two stripes the order is lost (finding 5). Behind `Submit` the
pool's `IInv` takes over: on a single stripe all tasks are taken in the order of
`sent`, and with one start each has finished before the next is taken.

### Runtime (`RuntimeProofs`, `RuntimeDelivers`, from `RuntimeAssumption`)

| Theorem | Says |
|---|---|
| `Invariance`, `TypeCorrect` | `Spec => []IInv`, `Spec => []TypeOK` |
| `HandledInOrder` | `Spec => []HandlerOrder` |
| `NoneForgotten` | `Spec => []NothingForgotten` |
| `PoolsAreClosedLast` | `Spec => []PoolsCloseLast` |
| `QuietAfterStop` | `Spec => []StopQuiesces` |
| `WritersKeepOutHandlersOnly` | `Spec => []LockWaits` |
| `PoolsWorkAsQueues` | `Spec => PoolsAreQueues` |
| `PoolsAreFree` | where TaskQueue may take what a dispatcher offers, fetch or finish a task, `Runtime` has the step that does so |
| `ImplementsDelivery` | `Spec => Delivers`, Runtime implements Delivery |

`IInv` has four parts. `Types` adds to `TypeOK` what a stage of `Start` or of a
source says about its variables. `Order` numbers the stations of a message, from the
buffer over the hand of the dispatcher and the queue to the goroutines of the pool,
and says that of two messages of a source for one pool the earlier is never behind
the later (`Line`), that within a buffer or queue they are in order (`Rows`), and
that what was taken and not lost is at a station (`Work`, `Kept`). `OneByOne` says
that a pool of one goroutine has handled all it has taken, but for the last.
`Stopping` says what the stages of `Stop` have waited for: past the sources no
source runs, past the dispatchers none of them, and only then is a pool closed,
unless the call came too early (finding 4); and of the pools that were there from
the beginning and keep their place in the map (`Lasting`) each is on the list of a
`Stop` that drains or has been drained. In `RuntimeDelivers` the status of a message
follows from its station, every step moves at most one message, and what it does to
the message is a step of `Delivery`; the guard that it overtakes none is `Line`.

`PoolsWorkAsQueues` rests on `Order`: a message that a dispatcher offers is at no
later station, so it is new to the pool (`HeldIsNew`). Together with
`QueueRefinement` it says that what `Runtime` does to a pool is what a `FixedPool`
does, and `PoolsAreFree` that it leaves nothing out: a specification that never let
a pool take a task would satisfy the first and not the second. It is a statement
about one step from any state of `TypeOK`, where only the pool and what the pool
tells its callers may change.

### WeightedRR (`WeightedRRProofs`, from `RouterAssumption`)

The assumption types the hashes and the arguments of `BindMany` and `SetMany`:
sequences of pools, nil among them, and of any integers. A cursor is a natural
number, where the code's wraps after 2^64 calls.

| Theorem | Says |
|---|---|
| `Invariance`, `TypeCorrect` | `Spec => []IInv`, `Spec => []TypeOK` |
| `SharesAreExact` | `Spec => []Proportional` |
| `WeightedAlone` | `Spec => []OnlyWeighted` |
| `KeysStay` | `Spec => KeySticky` |
| `SameRatioMovesNoKey` | `Spec => []SameRatioSameRing` |
| `RouteRefinement` | `Spec => RoutesByWeight`, WeightedRR implements StreamRoute |

Most of the module is about what `Build` returns. Euclid's step keeps the common
divisors of two numbers, so the divisor found divides every weight, and it scales
when all of them do, which is why equal ratios give equal tables (`ScaledSame`,
`BuildSame`). A pool has as many places in the table as its scaled weights add up to
(`TableSum`), and the positions that are dropped have a weight that counts as 0
(`KeptSum`). Together (`IsEntry`, `EntryIs`): for some `g >= 1` the weight of every
pool is `g` times its places, and the sum of weights `g` times the length of the
table. `IInv` says that an entry stays what its arguments made it (`BuiltOnce`),
that the pool of a key is the one at its hash (`Hashed`), and that the messages of a
pool are its places in the rounds that are complete plus those that the cursor has
passed in the current one (`Counted`). With `n` the length, `S` the places and
`extra <= S` those passed after `r` messages of a round, what a pool has got and
what it was due differ by `g * (extra * n - r * S)`: nothing when `r = 0`, and
always less than a round. From the same count follows `RoundsAreLevel`, the guard of
`StreamRoute`'s `Spread`: after `n` messages pool `p` has got at most what another
`q` has, and one round more. `RouteRefinement` needs one more fact than `IInv`, that
the published entry is the last one built (`Latest`): a `SetMany` that fails leaves
nothing behind.

### Scheduler (`SchedulerDecides`, `SchedulerProofs`)

From `SchedulerAssumption`, `ParamsAssumption` and `AgeAssumption`: finite loads
and bindings with as many weights as pools, parameters that are natural numbers,
cooldowns from 1 to `MaxAge`. A binding may ask for negative weights.

| Theorem | Says |
|---|---|
| `Invariance`, `TypeCorrect` | `Spec => []IInv`, `Spec => []TypeOK` |
| `PlanIsBounded` | `Spec => []PlanBounded` |
| `PressureIsServed` | `StepsArePositive => (Spec => []PressedIsServed)` |
| `FloorIsKept` | `Spec => FloorKept` |
| `RouterFollowsRegistry` | `Spec => []InSync` |
| `PlansGoThrough` | `WeightsSuffice => (Spec => [](plan # NoPlan => Accepts(plan.new)))` |
| `CooldownIsKept` | `Spec => CooldownKept` |
| `StripedPoolsLose` | `Spec => StripedOnlyLoses` |
| `DisabledIsLeftAlone` | `Spec => DisabledStaysPut` |

`SchedulerDecides` says what `Decide` returns, for any snapshot and binding: a
plan that moves `step` from one reported pool to another, where the step is at
least 1 and within `maxStep`, `maxFrac` and the floor. Its lemmas are about
the parts: the first of the best by a strict weak order (`hot` and `cool`), exact
quotients compared by products, the total of weights, the step. `IInv` is about
the controller's stages: what it holds while it applies a plan is what `Decide`
makes of some binding (`Tables`, `AtStream`); `lastApply` is never before the
last `SetMany` (`Cooling`); and the registry is ahead of the router by the plan
that is being applied, the binding a user is setting or weights that the router
has refused, unless a user's rebinding overlapped an `Apply` (`Synced`). `FloorKept`
needs what `Synced` says of the plan, that it was made from the weights the router
still has, and that the Binding that was looked up is still the stream's own. Where
a user has interfered nothing of it is left but a floor place by place
(`KeepsFloor`), whatever pools these are.

Two hypotheses are conditions on the configuration. `StepsArePositive`:
`baseStep` and `maxStep` are at least 1; with a `maxStep` of 0 the strategy moves
nothing at all. `WeightsSuffice`: every `minWeight` is positive or no binding
has a negative weight. Without it a plan may take the last positive weight from a
pool beside a negative one, and `Apply` writes it to the registry before it calls
`SetMany` (`applier_router.go`), which refuses it. `PlansGoThrough` says that it
takes no less than that: with `WeightsSuffice`, which every configuration with a
floor satisfies, the case that `InSync` excludes is a user's own doing and never
the controller's. `InSync` itself needs no hypothesis.

### How the proofs do without induction theorems

The induction theorems of the library take an operator as a parameter, which
none of the provers can instantiate. Where a sum, a fold or a position needs
induction, it is done in the form of a set: a nonempty set of natural numbers has
a least element (`Least`, from `WFMin`), and the set of counterexamples has none.
What a recursive function returns is proved in this form too (`TotalIs`,
`Recursion`): there is a function that satisfies its equation, and it has the
type of its steps. Euclid's loop, whose arguments do not count down by one, is
handled by the least second argument at which it would fail (`Descent`).

### Only model-checked

* Liveness (`AcceptedRuns`, `CallsReturn`, `InTimeRuns`, `DispatcherLeaves`,
  `StopComesBack`, `SourcesNeverWait`, `WritersGetIn`): the prover does not reach
  fairness. All safety properties and refinements that the passing runs check are
  proved, `RouteOrder` and `PressedIsServed` under the hypothesis of their theorems.

## Not modelled

The in-memory router (a map under a lock; its answers are among those `Routes`
allows, and the weighted router with one pool promises the same), the codec, the
event sink, the Prometheus exporter, and of the programs in `cmd` and `examples` all
but the wiring of the scheduler: conversion and I/O that no modelled component reads
back. The message generator of the demo only decides when messages arrive, which
`Runtime` leaves open; a model of it in front of the runtime would show nothing but
that it waits at a full channel. Of modelled components: names with a `:`, a nil
router given to `UseRouter`, 32-bit integers, the rounding of float64, and
parameters of a policy that are negative, zero where the strategy divides, or no
whole numbers.

## The plan

Done, in this order: `WorkerPool`, `FixedPool`, its proofs, `StripedPool`,
`Runtime`, `WeightedRR`, `Scheduler`; then a second `Start`, `StripedRoute`,
`rtMu` and its waiting writers, the scheduler's parameters, striped and
replaced pools, and `Delivery`; then the proofs for `StripedPool`,
`StripedRoute`, `Runtime` with its refinement, `Scheduler` and `WeightedRR`; then
`TaskQueue` between `FixedPool` and `Runtime`, and `StreamRoute`. Next:

1. `StreamRoute`, one instance per stream, in place of `Scheduler`'s `table`, so that
   plans and messages are seen together.
