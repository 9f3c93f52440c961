------------------------------ MODULE Scheduler ------------------------------
(***************************************************************************)
(* The scheduler (pkg/scheduler): a Controller that at every tick samples  *)
(* the pools, lets PressureRebalanceStrategy decide for each stream        *)
(* whether to move weight from its most to its least pressed pool, and     *)
(* has RouterApplier write the plan to the BindingRegistry and the router, *)
(* while a user may rebind a stream by hand.                               *)
(*                                                                         *)
(* The strategy computes with float64; here its quotients are pairs        *)
(* [n, d], n over d, and its square root is compared by squaring.          *)
(***************************************************************************)
EXTENDS Integers, Sequences, FiniteSetsExt

CONSTANTS
  Stream,          \* the streams with a binding
  NoStream,        \* not a stream
  Pool,            \* the pools of the runtime: DumpMetrics lists them
  Striped,         \* those of them that are StripedPools: their metrics have
                   \* neither a WorkerCount nor a ProcessedCount
  Crew,            \* Crew[p]: the goroutines of pool p
  Load,            \* Load[p]: what pool p may report: [depth, before, now],
                   \* before being the tasks processed by the previous sample
  Counts,          \* 2^64 in Go: a count is a uint64
  Binding,         \* the bindings a user may set: [pools, weights]
  Rebound,         \* bound for TLC: the streams a user rebinds
  First,           \* First[s]: the binding stream s starts with
  Default, Per,    \* the StaticPolicyProvider: a policy, and one per stream
  DefaultCooldown, \* Controller.cooldown
  MaxAge,          \* bound for TLC: times are counted up to here
  DefaultParams,   \* the strategy's parameters, whole numbers, maxFrac in percent
  NoParams         \* the nil Params of a policy

ASSUME SchedulerAssumption ==
  /\ NoStream \notin Stream
  /\ Striped \subseteq Pool /\ Crew \in [Pool -> Nat]
  /\ Counts \in Nat \ {0}
  /\ DOMAIN Load = Pool
  /\ \A p \in Pool : \A load \in Load[p] :
       load.depth \in Nat /\ {load.before, load.now} \subseteq 0 .. Counts - 1
  /\ First \in [Stream -> Binding] /\ Rebound \subseteq Stream
  /\ \A b \in Binding : /\ b.pools # <<>> /\ DOMAIN b.pools = 1 .. Len(b.pools)
                         /\ b.weights \in Seq(Int) /\ Len(b.weights) = Len(b.pools)
  /\ \A s \in Stream : \E i \in DOMAIN First[s].weights : First[s].weights[i] > 0
  /\ DefaultCooldown \in Nat \ {0}
  /\ MaxAge \in Nat

-----------------------------------------------------------------------------
(* Policies *)

(* A mutant: what is off is off, and what is on is inherited. *)
EnabledUnset(v, def) == def.enabled

(* Only a policy that says so has set Enabled. *)
Enabled(v, def) == IF v.enabledSet THEN v.enabled ELSE def.enabled

(* normalizePolicy: what is set in v overrides def, Params as a whole. *)
Normalize(v, def) ==
  [enabled    |-> Enabled(v, def),
   enabledSet |-> def.enabledSet \/ v.enabledSet,
   strategy   |-> IF v.strategy # "" THEN v.strategy ELSE def.strategy,
   cooldown   |-> IF v.cooldown > 0 THEN v.cooldown ELSE def.cooldown,
   params     |-> IF v.params # NoParams THEN v.params ELSE def.params]

ZeroPolicy == [enabled |-> FALSE, enabledSet |-> FALSE, strategy |-> "",
               cooldown |-> 0, params |-> NoParams]

PolicyOf(s) ==
  IF s \in DOMAIN Per THEN Normalize(Per[s], Default) ELSE Normalize(Default, ZeroPolicy)

CooldownOf(s) ==
  IF PolicyOf(s).cooldown > 0 THEN PolicyOf(s).cooldown ELSE DefaultCooldown

(* getParam: the policy's own value, or the strategy's default. *)
ParamsOf(s) ==
  LET own == PolicyOf(s).params IN
  [key \in DOMAIN DefaultParams |->
     IF own # NoParams /\ key \in DOMAIN own THEN own[key] ELSE DefaultParams[key]]

ASSUME ParamsAssumption ==
  /\ DOMAIN DefaultParams = {"epsRate", "minPressureDelta", "baseStep", "maxStep",
                             "minWeight", "maxFrac", "paceRate"}
  /\ \A s \in Stream :
       /\ ParamsOf(s).epsRate \in Nat \ {0} /\ ParamsOf(s).paceRate \in Nat \ {0}
       /\ \A key \in DOMAIN DefaultParams : ParamsOf(s)[key] \in Nat

(* Counted up to MaxAge, time is told apart as far as any cooldown looks. *)
ASSUME AgeAssumption == \A s \in Stream : CooldownOf(s) \in 1 .. MaxAge

(* "" stands for the one strategy there is; the registry may lack others. *)
Scheduled(s) ==
  PolicyOf(s).enabled /\ PolicyOf(s).strategy \in {"", "pressure_rebalance"}

-----------------------------------------------------------------------------
(* DecideStream *)

Reported(p) == IF p \in Striped THEN 0 ELSE Crew[p]

(* The difference of two uint64 counts: of a StripedPool, 0 less 0; of a   *)
(* pool that has replaced another of its name, wrapped around.             *)
Done(p, load) == IF p \in Striped THEN 0 ELSE (load.now - load.before) % Counts

(* A sampled pool: its rate is done over dt, and 0 in its first sample and *)
(* when two samples fall on the same instant.                              *)
Stat(p, load, dt) == [depth |-> load.depth, done |-> IF dt > 0 THEN Done(p, load) ELSE 0,
                      dt |-> IF dt > 0 THEN dt ELSE 1]

Stats(p, dt) == {Stat(p, load, dt) : load \in Load[p]}

(* Queue depth over rate, the rate being at least eps. *)
Pressure(stat, eps) ==
  IF stat.done < eps * stat.dt
    THEN [n |-> stat.depth, d |-> eps]
    ELSE [n |-> stat.depth * stat.dt, d |-> stat.done]

(* The pressures at the positions of b that were sampled. *)
Pressures(now, b, eps) ==
  [i \in {j \in DOMAIN b.pools : b.pools[j] \in DOMAIN now} |-> Pressure(now[b.pools[i]], eps)]

Minus(a, b) == [n |-> a.n * b.d - b.n * a.d, d |-> a.d * b.d]
Above(a, b) == Minus(a, b).n > 0

(* The first of the positions with the greatest pressure, or the least. *)
Hottest(press) ==
  CHOOSE i \in DOMAIN press : \A j \in DOMAIN press \ {i} :
    Above(press[i], press[j]) \/ (~ Above(press[j], press[i]) /\ i < j)
Coolest(press) ==
  CHOOSE i \in DOMAIN press : \A j \in DOMAIN press \ {i} :
    Above(press[j], press[i]) \/ (~ Above(press[i], press[j]) /\ i < j)

(* A mutant: a pool that reports no workers counts as one. *)
WithinPaceOfOne(n, base, to, from) == n * n * Max({1, from}) <= base * base * Max({1, to})

(* The base step, scaled by the root of the ratio of workers at the        *)
(* receiving and the giving end: what a step of n may not exceed.          *)
WithinPace(n, base, to, from) == n * n * Max({1, from}) <= base * base * to

(* The giving pool keeps its minimum; first a mutant, where it need not. *)
Unfloored(n, weight, minimum) == TRUE
Floored(n, weight, minimum) == n <= weight - minimum

Total(ws) ==
  LET sum[i \in 0 .. Len(ws)] == IF i = 0 THEN 0 ELSE sum[i - 1] + ws[i]
  IN  sum[Len(ws)]

(* maxFrac of the total weight, but at least 1; first two mutants, in      *)
(* which it may be 0, or is all of it.                                     *)
ShareRounded(total, frac) == (total * frac) \div 100
ShareWhole(total, frac) == Max({1, total})
Share(total, frac) == Max({1, (total * frac) \div 100})

NoPlan == [old |-> <<>>, new |-> <<>>]

(* No plan when fewer than two positions were sampled apart, the pressures *)
(* are close, the hot pool is at its minimum or the step comes out as 0.   *)
Decide(now, b, params) ==
  LET press == Pressures(now, b, params.epsRate)
      hot   == Hottest(press)
      cool  == Coolest(press)
      over  == Minus(press[hot], press[cool])
      spare == over.n - params.minPressureDelta * over.d
      mult  == 1 + spare \div (params.paceRate * over.d)
      step  == Max({n \in 0 .. params.maxStep :
                 /\ WithinPace(n, mult * params.baseStep,
                               Reported(b.pools[cool]), Reported(b.pools[hot]))
                 /\ n = 0 \/ Floored(n, b.weights[hot], params.minWeight)
                 /\ n <= Share(Total(b.weights), params.maxFrac)})
  IN  IF \/ DOMAIN press = {} \/ hot = cool \/ spare < 0
         \/ b.weights[hot] <= params.minWeight \/ step = 0
        THEN NoPlan
        ELSE [old |-> b.weights,
              new |-> [b.weights EXCEPT ![hot] = @ - step, ![cool] = @ + step]]

-----------------------------------------------------------------------------
VARIABLES
  pc,       \* where the controller is
  todo,     \* the streams of this tick it has not come to
  cur,      \* the stream it is at
  snap,     \* the snapshot: a stat per sampled pool
  plan,     \* the plan for cur
  held,     \* the Binding Apply has looked up: its pools, and whether it is
            \* still the one in the registry
  age,      \* age[s]: time since lastApply[s]
  sampled,  \* time since the last sample, or Never
  reg,      \* reg[s]: the binding in the registry
  table,    \* table[s]: what the router was last told by SetMany
  user,     \* the stream a user is rebinding, and to what
  raced,    \* history: the streams whose last rebinding overlapped a plan
  quiet     \* history: quiet[s]: time since the controller's last SetMany

tickVars  == <<pc, todo, cur, snap, plan, held>>
clockVars == <<age, sampled, quiet>>
bindVars  == <<reg, table>>
userVars  == <<user, raced>>
vars == <<tickVars, clockVars, bindVars, userVars>>

Never   == -1
NoUser  == [stream |-> NoStream, to |-> First[CHOOSE s \in Stream : TRUE]]
NotHeld == [pools |-> <<>>, live |-> FALSE]

Stages == {"wait", "streams", "cooldown", "lookup", "write", "route", "mark", "returned"}

TypeOK ==
  /\ pc \in Stages
  /\ todo \subseteq Stream
  /\ cur \in Stream \cup {NoStream}
  /\ age \in [Stream -> 0 .. MaxAge] /\ quiet \in [Stream -> 0 .. MaxAge]
  /\ sampled \in {Never} \cup 0 .. MaxAge
  /\ raced \subseteq Stream
  /\ DOMAIN reg = Stream /\ DOMAIN table = Stream
  /\ \A s \in Stream : \A b \in {reg[s], table[s]} :
       /\ DOMAIN b.weights = DOMAIN b.pools
       /\ \A i \in DOMAIN b.weights : b.weights[i] \in Int
  /\ Len(plan.old) = Len(plan.new)

(* Nothing was applied yet: no cooldown holds. *)
Init ==
  /\ pc = "wait" /\ todo = {} /\ cur = NoStream /\ snap = <<>>
  /\ plan = NoPlan /\ held = NotHeld
  /\ age = [s \in Stream |-> MaxAge] /\ quiet = [s \in Stream |-> MaxAge]
  /\ sampled = Never
  /\ reg = First /\ table = First
  /\ user = NoUser /\ raced = {}

-----------------------------------------------------------------------------
(* Time passes between any two steps. *)

Older(t) == IF t < MaxAge THEN t + 1 ELSE MaxAge

Pass ==
  /\ age' = [s \in Stream |-> Older(age[s])]
  /\ quiet' = [s \in Stream |-> Older(quiet[s])]
  /\ sampled' = IF sampled = Never THEN Never ELSE Older(sampled)
  /\ UNCHANGED <<tickVars, bindVars, userVars>>
-----------------------------------------------------------------------------
(* The controller *)

(* A tick: RuntimeMetricsProvider.Sample, then the streams, in the order   *)
(* of a map, that is in any.                                               *)
Sample ==
  /\ pc = "wait"
  /\ snap' \in {now \in [Pool -> UNION {Stats(p, sampled) : p \in Pool}] :
                  \A p \in Pool : now[p] \in Stats(p, sampled)}
  /\ sampled' = 0
  /\ pc' = "streams" /\ todo' = Stream
  /\ UNCHANGED <<cur, plan, held, age, quiet, bindVars, userVars>>

EndTick ==
  /\ pc = "streams" /\ todo = {}
  /\ pc' = "wait" /\ snap' = <<>>
  /\ UNCHANGED <<todo, cur, plan, held, clockVars, bindVars, userVars>>

(* Run looks at its context only between two ticks. *)
Return ==
  /\ pc = "wait"
  /\ pc' = "returned"
  /\ UNCHANGED <<todo, cur, snap, plan, held, clockVars, bindVars, userVars>>

(* The policy of the stream, or its strategy, wants no plan. *)
Skip(s) ==
  /\ pc = "streams" /\ s \in todo
  /\ ~ Scheduled(s)
  /\ todo' = todo \ {s}
  /\ UNCHANGED <<pc, cur, snap, plan, held, clockVars, bindVars, userVars>>

(* The registry is read once, under its lock, and the plan made from a     *)
(* copy.                                                                   *)
DecideStream(s) ==
  LET made == Decide(snap, reg[s], ParamsOf(s)) IN
  /\ pc = "streams" /\ s \in todo
  /\ Scheduled(s)
  /\ todo' = todo \ {s}
  /\ IF made = NoPlan
       THEN UNCHANGED <<pc, cur, plan, raced>>
       ELSE /\ plan' = made /\ cur' = s /\ pc' = "cooldown"
            /\ raced' = IF user.stream = s THEN raced \cup {s} ELSE raced
  /\ UNCHANGED <<snap, held, clockVars, bindVars, user>>

Leave ==
  /\ pc' = "streams" /\ cur' = NoStream /\ plan' = NoPlan /\ held' = NotHeld
  /\ UNCHANGED <<todo, snap>>

Goto(stage) == pc' = stage /\ UNCHANGED <<todo, cur, snap, plan>>

(* A mutant: the cooldown of the stream's policy is not looked at. *)
InCooldownDefault(s) == age[s] < DefaultCooldown

InCooldown(s) == age[s] < CooldownOf(s)

CheckCooldown ==
  /\ pc = "cooldown"
  /\ IF InCooldown(cur) THEN Leave ELSE Goto("lookup") /\ UNCHANGED held
  /\ UNCHANGED <<clockVars, bindVars, userVars>>

(* As many weights as pools; first a mutant, that does not look. *)
FitsAny(weights, pools) == TRUE
Fits(weights, pools) == Len(weights) = Len(pools)

(* Apply looks the Binding up, which need not be the one the plan was made *)
(* from.                                                                   *)
Lookup ==
  /\ pc = "lookup"
  /\ IF Fits(plan.new, reg[cur].pools)
       THEN held' = [pools |-> reg[cur].pools, live |-> TRUE] /\ Goto("write")
       ELSE Leave
  /\ UNCHANGED <<clockVars, bindVars, userVars>>

(* The weights are written through the pointer: to the registry if the     *)
(* Binding is still there, and else to one that nobody reads. First a      *)
(* mutant, that sends the plan to the router alone.                        *)
Unwritten(b) == b
Written(b) == IF held.live THEN [pools |-> b.pools, weights |-> plan.new] ELSE b

WriteWeights ==
  /\ pc = "write"
  /\ reg' = [reg EXCEPT ![cur] = Written(@)]
  /\ Goto("route")
  /\ UNCHANGED <<held, clockVars, table, userVars>>

(* The router refuses weights none of which is positive. *)
Accepts(weights) == \E i \in DOMAIN weights : weights[i] > 0

RouterSetMany ==
  /\ pc = "route"
  /\ IF Accepts(plan.new)
       THEN /\ table' = [table EXCEPT ![cur] = [pools |-> held.pools, weights |-> plan.new]]
            /\ quiet' = [quiet EXCEPT ![cur] = 0]
            /\ Goto("mark") /\ UNCHANGED held
       ELSE UNCHANGED <<table, quiet>> /\ Leave
  /\ UNCHANGED <<age, sampled, reg, userVars>>

MarkApplied ==
  /\ pc = "mark"
  /\ age' = [age EXCEPT ![cur] = 0]
  /\ Leave
  /\ UNCHANGED <<sampled, quiet, bindVars, userVars>>

-----------------------------------------------------------------------------
(* A user rebinds a stream: first in the registry, whatever the weights,   *)
(* then in the router, which may refuse them.                              *)

(* Set replaces the Binding object. *)
RegistrySet(s, b) ==
  /\ user = NoUser
  /\ reg' = [reg EXCEPT ![s] = b]
  /\ held' = IF cur = s THEN [held EXCEPT !.live = FALSE] ELSE held
  /\ user' = [stream |-> s, to |-> b]
  /\ raced' = IF cur = s THEN raced \cup {s} ELSE raced \ {s}
  /\ UNCHANGED <<pc, todo, cur, snap, plan, clockVars, table>>

ManualSetMany ==
  /\ user # NoUser
  /\ table' = IF Accepts(user.to.weights) THEN [table EXCEPT ![user.stream] = user.to]
                                          ELSE table
  /\ user' = NoUser
  /\ UNCHANGED <<tickVars, clockVars, reg, raced>>

-----------------------------------------------------------------------------
Next ==
  \/ Pass
  \/ Sample \/ EndTick \/ Return
  \/ \E s \in Stream : Skip(s) \/ DecideStream(s)
  \/ CheckCooldown \/ Lookup \/ WriteWeights \/ RouterSetMany \/ MarkApplied
  \/ \E s \in Rebound, b \in Binding : RegistrySet(s, b)
  \/ ManualSetMany

Spec == Init /\ [][Next]_vars

-----------------------------------------------------------------------------
(* Properties *)

(* A plan moves weight from exactly one pool to one other and loses none,  *)
(* by the parameters of the stream's own policy: the giving pool keeps its *)
(* minimum, and the step is at most maxStep and, but for a step of 1, at   *)
(* most maxFrac of the total. A pool whose count has wrapped around        *)
(* changes none of it.                                                     *)
PlanBounded ==
  plan # NoPlan =>
    \E from, to \in DOMAIN plan.old :
      LET step == plan.old[from] - plan.new[from] IN
      /\ step \in 1 .. ParamsOf(cur).maxStep
      /\ plan.new = [plan.old EXCEPT ![from] = @ - step, ![to] = @ + step]
      /\ plan.new[from] >= ParamsOf(cur).minWeight
      /\ step = 1 \/ step * 100 <= Total(plan.old) * ParamsOf(cur).maxFrac

(* When a pool is pressed harder than all others, by the threshold or more *)
(* over another, pressed least, has weight to give, and the other at least *)
(* as many workers, then weight moves between the two: none of the limits  *)
(* a step is cut to brings it down to nothing, however small the total.    *)
PressedIsServed ==
  pc = "streams" =>
    \A s \in {t \in todo : Scheduled(t)} :
      LET old    == reg[s]
          params == ParamsOf(s)
          press  == Pressures(snap, old, params.epsRate)
          made   == Decide(snap, old, params)
      IN \A hot, cool \in DOMAIN press :
           /\ hot # cool
           /\ \A i \in DOMAIN press \ {hot} : Above(press[hot], press[i])
           /\ \A i \in DOMAIN press \ {cool} : Above(press[i], press[cool])
           /\ Minus(press[hot], press[cool]).n
                >= params.minPressureDelta * press[hot].d * press[cool].d
           /\ old.weights[hot] > params.minWeight
           /\ Reported(old.pools[cool]) >= Max({1, Reported(old.pools[hot])})
           => /\ made # NoPlan
              /\ made.new[hot] < old.weights[hot] /\ made.new[cool] > old.weights[cool]

(* The pools are as before, and none has been brought below the least      *)
(* weight.                                                                 *)
KeepsAbove(least, old, new) ==
  /\ new.pools = old.pools
  /\ \A i \in DOMAIN old.weights : new.weights[i] < old.weights[i] => new.weights[i] >= least

(* The controller, whose plan is some steps old when it is written, and    *)
(* the pools of which are looked up anew, brings no pool of the stream     *)
(* below its minWeight, neither in the registry nor in the router, and     *)
(* leaves the pools themselves alone; unless a user has rebound the stream *)
(* at the same time: then a plan for the same number of pools is applied   *)
(* to whatever pools it meets, and nothing keeps them at their minimum.    *)
FloorKept ==
  [][\A s \in Stream \ raced : user' = user =>
       /\ KeepsAbove(ParamsOf(s).minWeight, reg[s], reg'[s])
       /\ KeepsAbove(ParamsOf(s).minWeight, table[s], table'[s])]_vars

(* When neither the controller nor a user is at a stream, the router does  *)
(* what the registry says, unless the two have been at it at the same      *)
(* time, or the registry holds weights that the router refuses.            *)
InSync ==
  \A s \in Stream :
    (/\ s \notin raced /\ cur # s /\ user.stream # s
     /\ Accepts(reg[s].weights)) => table[s] = reg[s]

(* Between two changes of a stream's weights by the controller lies at     *)
(* least the cooldown of the stream, however long a tick takes and         *)
(* whatever a user does meanwhile.                                         *)
CooldownKept ==
  [][(pc = "route" /\ pc' = "mark") => quiet[cur] >= CooldownOf(cur)]_vars

(* A StripedPool never gains weight in the router by the controller's      *)
(* hand: it reports no workers, so the step towards it is always 0. Only a *)
(* user, or a plan that met a user's rebinding, gives it any.              *)
StripedOnlyLoses ==
  [][\A s \in Stream \ raced : \A i \in DOMAIN table[s].pools :
       table[s].pools[i] \in Striped /\ user' = user /\ table'[s].pools = table[s].pools
         => table'[s].weights[i] <= table[s].weights[i]]_vars

(* A stream whose own policy sets Enabled to false is left alone whatever  *)
(* the default policy says: only a user changes what the router does with  *)
(* it. (A policy that says false without EnabledSet is not left alone.)    *)
DisabledStaysPut ==
  [][\A s \in Stream \cap DOMAIN Per :
       Per[s].enabledSet /\ ~ Per[s].enabled /\ table'[s] # table[s]
         => user.stream = s /\ table'[s] = user.to]_vars
=============================================================================
