--------------------------- MODULE SchedulerProofs ---------------------------
(***************************************************************************)
(* Proofs about Scheduler: its invariants and what its steps may do, for   *)
(* any policies, bindings and loads. What Decide decides is proved in      *)
(* SchedulerDecides.                                                       *)
(***************************************************************************)
EXTENDS SchedulerDecides

-----------------------------------------------------------------------------
(* The inductive invariant *)

(* The stages in which the controller is at a stream, with a plan.         *)
Busy == {"cooldown", "lookup", "write", "route", "mark"}

(* Place by place, below the minimum only where a binding as long is, of   *)
(* whatever pools: all that is left of the minimum where a user has        *)
(* interfered, and enough to say which weights the router accepts.         *)
KeepsFloor(s, ws) ==
  \A i \in DOMAIN ws :
    \/ ws[i] >= ParamsOf(s).minWeight
    \/ \E b \in Binding : DOMAIN b.weights = DOMAIN ws /\ b.weights[i] <= ws[i]

(* A plan for s: what PlanBounded says, of any stream's plan.              *)
IsPlan(s, made) ==
  /\ made.old \in Seq(Int) /\ made.new \in Seq(Int) /\ Len(made.new) = Len(made.old)
  /\ KeepsFloor(s, made.old)
  /\ \E from, to \in DOMAIN made.old :
       LET step == made.old[from] - made.new[from] IN
       /\ step \in 1 .. ParamsOf(s).maxStep
       /\ made.new = [made.old EXCEPT ![from] = @ - step, ![to] = @ + step]
       /\ made.new[from] >= ParamsOf(s).minWeight
       /\ step = 1 \/ step * 100 <= Total(made.old) * ParamsOf(s).maxFrac

Types ==
  /\ pc \in Stages /\ todo \subseteq Stream /\ raced \subseteq Stream
  /\ age \in [Stream -> 0 .. MaxAge] /\ quiet \in [Stream -> 0 .. MaxAge]
  /\ sampled \in {Never} \cup 0 .. MaxAge
  /\ IsSnapshot(snap)
  /\ user = NoUser \/ (user.stream \in Stream /\ user.to \in Binding)

Tables ==
  /\ DOMAIN reg = Stream /\ DOMAIN table = Stream
  /\ \A s \in Stream : \A b \in {reg[s], table[s]} : IsBinding(b) /\ KeepsFloor(s, b.weights)

(* What the controller holds while it is at a stream: a plan for it and,   *)
(* once it has looked the Binding up, as many pools; they are those of the *)
(* registry unless the Binding was replaced.                               *)
AtStream ==
  /\ pc \in Busy => cur \in Stream /\ Scheduled(cur) /\ IsPlan(cur, plan)
  /\ pc \notin Busy => cur = NoStream /\ plan = NoPlan
  /\ DOMAIN held = {"pools", "live"}
  /\ pc \in {"write", "route"} =>
       /\ DOMAIN held.pools = 1 .. Len(held.pools) /\ Len(held.pools) = Len(plan.new)
       /\ held.live => held.pools = reg[cur].pools

(* lastApply is never before the last SetMany, but for the moment between  *)
(* the two.                                                                *)
Cooling ==
  /\ pc \in {"lookup", "write", "route"} => age[cur] >= CooldownOf(cur)
  /\ \A s \in Stream : age[s] <= quiet[s] \/ (pc = "mark" /\ cur = s)

(* The router accepts every plan: its minimum is positive, or no binding   *)
(* has a negative weight.                                                  *)
WeightsSuffice ==
  \/ \A s \in Stream : ParamsOf(s).minWeight > 0
  \/ \A b \in Binding : \A i \in DOMAIN b.weights : b.weights[i] >= 0

(* The weights ws give no StripedPool more than the binding b does.        *)
Loses(ws, b) == \A i \in DOMAIN b.pools : b.pools[i] \in Striped => ws[i] <= b.weights[i]

(* The registry is ahead of the router by the plan that is being applied,  *)
(* by the binding a user is setting, or by weights the router has refused. *)
SyncedAt(s) ==
  IF cur = s
    THEN /\ user.stream # s
         /\ pc \in {"cooldown", "lookup", "write"} => reg[s] = table[s]
         /\ pc \in {"cooldown", "lookup", "write", "route"} =>
              plan.old = table[s].weights /\ Loses(plan.new, table[s])
         /\ pc \in {"write", "route"} => held.live
         /\ pc = "route" => reg[s] = [pools |-> table[s].pools, weights |-> plan.new]
         /\ pc = "mark" => table[s] = reg[s]
    ELSE IF user.stream = s THEN reg[s] = user.to
                            ELSE Accepts(reg[s].weights) => reg[s] = table[s]

Synced == \A s \in Stream \ raced : SyncedAt(s)

IInv == Types /\ Tables /\ AtStream /\ Cooling /\ Synced

-----------------------------------------------------------------------------
(* What the assumptions on the constants say *)

LEMMA ParamsAre ==
  ASSUME NEW s \in Stream
  PROVE  IsParams(ParamsOf(s))
<1>1. \A key \in DOMAIN DefaultParams : ParamsOf(s)[key] \in Nat
  BY ParamsAssumption
<1>2. /\ "minPressureDelta" \in DOMAIN DefaultParams /\ "baseStep" \in DOMAIN DefaultParams
      /\ "maxStep" \in DOMAIN DefaultParams /\ "minWeight" \in DOMAIN DefaultParams
      /\ "maxFrac" \in DOMAIN DefaultParams
  BY ParamsAssumption
<1>3. ParamsOf(s).epsRate \in Nat \ {0} /\ ParamsOf(s).paceRate \in Nat \ {0}
  BY ParamsAssumption
<1> QED
  BY <1>1, <1>2, <1>3 DEF IsParams

LEMMA BindingsAre ==
  ASSUME NEW b \in Binding
  PROVE  IsBinding(b)
BY SchedulerAssumption DEF IsBinding

(* A binding keeps the floor, being itself as low as it is.                *)
LEMMA BindingsKeepTheFloor ==
  ASSUME NEW b \in Binding, NEW s \in Stream
  PROVE  KeepsFloor(s, b.weights)
<1>1. \A i \in DOMAIN b.weights : b.weights[i] \in Int
  BY BindingsAre, BindingIs
<1>2. \A i \in DOMAIN b.weights : b.weights[i] <= b.weights[i]
  BY <1>1
<1> QED
  BY <1>2 DEF KeepsFloor

LEMMA StatsAre ==
  ASSUME NEW p \in Pool, NEW dt \in Int, NEW stat \in Stats(p, dt)
  PROVE  IsStat(stat)
<1>1. PICK load \in Load[p] : stat = Stat(p, load, dt)
  BY DEF Stats
<1>2. /\ load.depth \in Nat /\ load.before \in 0 .. Counts - 1 /\ load.now \in 0 .. Counts - 1
      /\ Counts \in Nat \ {0}
  BY <1>1, SchedulerAssumption
<1>3. Done(p, load) \in Nat
  <2>1. load.now - load.before \in Int /\ Counts \in Nat \ {0}
    BY <1>2
  <2>2. (load.now - load.before) % Counts \in Nat
    BY <2>1
  <2> QED
    BY <2>2 DEF Done
<1> QED
  BY <1>1, <1>2, <1>3 DEF Stat, IsStat

-----------------------------------------------------------------------------
(* A plan for a stream *)

LEMMA DecidedIs ==
  ASSUME NEW s \in Stream, NEW now, NEW b, IsSnapshot(now), IsBinding(b),
         KeepsFloor(s, b.weights), Decide(now, b, ParamsOf(s)) # NoPlan
  PROVE  LET made == Decide(now, b, ParamsOf(s)) IN
         /\ IsPlan(s, made)
         /\ made.old = b.weights /\ Loses(made.new, b) /\ Accepts(b.weights)
<1> DEFINE made == Decide(now, b, ParamsOf(s))
           params == ParamsOf(s)
<1>1. PICK from, to, step : Moves(made, b, params, from, to, step)
  BY ParamsAre, DecideIs
<1> HIDE DEF made
<1>2. /\ Len(b.weights) \in Nat /\ DOMAIN b.weights = 1 .. Len(b.weights)
      /\ DOMAIN b.pools = DOMAIN b.weights
      /\ \A i \in DOMAIN b.weights : b.weights[i] \in Int
      /\ b.weights \in Seq(Int)
  BY BindingIs DEF IsBinding
<1>3. /\ from \in DOMAIN b.weights /\ to \in DOMAIN b.weights /\ from # to
      /\ step \in 1 .. params.maxStep
      /\ b.weights[from] - step >= params.minWeight
      /\ step = 1 \/ step * 100 <= Total(b.weights) * params.maxFrac
      /\ b.pools[to] \notin Striped
      /\ made.old = b.weights
      /\ made.new = [b.weights EXCEPT ![from] = @ - step, ![to] = @ + step]
  BY <1>1 DEF Moves
<1> DEFINE ws == b.weights
           new == made.new
<1>4. params.maxStep \in Nat /\ params.minWeight \in Nat
  BY ParamsAre DEF IsParams
<1>5. step \in Nat \ {0}
  BY <1>3, <1>4
<1>6. /\ DOMAIN new = DOMAIN ws
      /\ new[from] = ws[from] - step /\ new[to] = ws[to] + step
      /\ \A i \in DOMAIN ws : i # from /\ i # to => new[i] = ws[i]
  BY <1>3
<1>7. ws[from] - step \in Int /\ ws[to] + step \in Int
  <2>1. ws[from] \in Int /\ ws[to] \in Int
    BY <1>2, <1>3
  <2> HIDE DEF ws
  <2> QED
    BY <1>5, <2>1
<1>8. new \in Seq(Int) /\ Len(new) = Len(ws)
  <2> DEFINE less == [ws EXCEPT ![from] = ws[from] - step]
  <2>1. less \in Seq(Int) /\ Len(less) = Len(ws)
    BY <1>2, <1>3, <1>7, ExceptSeq
  <2>2. new = [less EXCEPT ![to] = ws[to] + step]
    BY <1>3
  <2> HIDE DEF less
  <2> QED
    BY <1>2, <1>3, <1>7, <2>1, <2>2, ExceptSeq
<1>9. ws[from] - new[from] = step
  BY <1>2, <1>3, <1>5, <1>6
<1>10. IsPlan(s, made)
  <2>1. new[from] >= params.minWeight
    BY <1>3, <1>6
  <2> HIDE DEF ws, new
  <2> QED
    BY <1>2, <1>3, <1>8, <1>9, <2>1 DEF IsPlan, ws, new
<1>11. Loses(new, b)
  <2> SUFFICES ASSUME NEW i \in DOMAIN b.pools, b.pools[i] \in Striped
               PROVE  new[i] <= ws[i]
    BY DEF Loses
  <2>1. i # to /\ i \in DOMAIN ws /\ ws[i] \in Int
    BY <1>2, <1>3
  <2>2. CASE i = from
    BY <1>5, <1>6, <2>1, <2>2
  <2>3. CASE i # from
    BY <1>6, <2>1, <2>3
  <2> QED
    BY <2>2, <2>3
<1>12. Accepts(b.weights)
  <2>1. ws[from] \in Int /\ ws[from] - step >= params.minWeight
    BY <1>2, <1>3
  <2>2. ws[from] > 0
    <3> HIDE DEF ws, params
    <3> QED
      BY <1>4, <1>5, <2>1
  <2> QED
    BY <1>3, <2>2 DEF Accepts
<1> QED
  BY <1>3, <1>10, <1>11, <1>12 DEF made

LEMMA PlanIs ==
  ASSUME NEW s \in Stream, NEW made, IsPlan(s, made)
  PROVE  \E from, to \in DOMAIN made.old : \E step \in Nat \ {0} :
           /\ made.new = [made.old EXCEPT ![from] = @ - step, ![to] = @ + step]
           /\ made.new[from] >= ParamsOf(s).minWeight
           /\ made.old[from] - made.new[from] = step
           /\ DOMAIN made.old = 1 .. Len(made.old) /\ DOMAIN made.new = DOMAIN made.old
           /\ \A i \in DOMAIN made.old : made.old[i] \in Int /\ made.new[i] \in Int
<1>1. PICK from, to \in DOMAIN made.old :
        /\ made.old[from] - made.new[from] \in 1 .. ParamsOf(s).maxStep
        /\ made.new = [made.old EXCEPT ![from] = @ - (made.old[from] - made.new[from]),
                                       ![to] = @ + (made.old[from] - made.new[from])]
        /\ made.new[from] >= ParamsOf(s).minWeight
  BY DEF IsPlan
<1> DEFINE step == made.old[from] - made.new[from]
<1>2. step \in Nat \ {0}
  <2>1. ParamsOf(s).maxStep \in Nat
    BY ParamsAre DEF IsParams
  <2> HIDE DEF step
  <2>2. step \in 1 .. ParamsOf(s).maxStep
    BY <1>1 DEF step
  <2> QED
    BY <2>1, <2>2
<1>3. /\ made.old \in Seq(Int) /\ made.new \in Seq(Int) /\ Len(made.new) = Len(made.old)
  BY DEF IsPlan
<1>4. /\ DOMAIN made.old = 1 .. Len(made.old) /\ DOMAIN made.new = DOMAIN made.old
      /\ \A i \in DOMAIN made.old : made.old[i] \in Int /\ made.new[i] \in Int
  BY <1>3, ElementOfSeq, LenProperties
<1> QED
  BY <1>1, <1>2, <1>4

(* What a plan leaves behind keeps the floor too: the pool that gives      *)
(* stays above the minimum, and all others keep what they had.             *)
LEMMA PlansKeepTheFloor ==
  ASSUME NEW s \in Stream, NEW made, IsPlan(s, made)
  PROVE  KeepsFloor(s, made.new)
<1>1. PICK from, to \in DOMAIN made.old : \E step \in Nat \ {0} :
           /\ made.new = [made.old EXCEPT ![from] = @ - step, ![to] = @ + step]
           /\ made.new[from] >= ParamsOf(s).minWeight
           /\ made.old[from] - made.new[from] = step
           /\ DOMAIN made.old = 1 .. Len(made.old) /\ DOMAIN made.new = DOMAIN made.old
           /\ \A i \in DOMAIN made.old : made.old[i] \in Int /\ made.new[i] \in Int
  BY PlanIs
<1>2. PICK step \in Nat \ {0} :
        made.new = [made.old EXCEPT ![from] = @ - step, ![to] = @ + step]
  BY <1>1
<1>3. ParamsOf(s).minWeight \in Nat
  BY ParamsAre DEF IsParams
<1>4. \A i \in DOMAIN made.old : i # from => made.new[i] >= made.old[i]
  <2> SUFFICES ASSUME NEW i \in DOMAIN made.old, i # from PROVE made.new[i] >= made.old[i]
    OBVIOUS
  <2>1. made.old[i] \in Int
    BY <1>1
  <2>2. made.new[i] = made.old[i] \/ made.new[i] = made.old[i] + step
    BY <1>2
  <2> QED
    BY <2>1, <2>2
<1>5. KeepsFloor(s, made.old)
  BY DEF IsPlan
<1>6. ASSUME NEW i \in DOMAIN made.new
      PROVE  \/ made.new[i] >= ParamsOf(s).minWeight
             \/ \E b \in Binding : DOMAIN b.weights = DOMAIN made.new /\ b.weights[i] <= made.new[i]
  <2>1. CASE i = from
    BY <1>1, <2>1
  <2>2. CASE i # from
    <3>1. i \in DOMAIN made.old /\ made.new[i] >= made.old[i]
          /\ made.new[i] \in Int /\ made.old[i] \in Int
      BY <1>1, <1>4, <2>2
    <3>2. CASE made.old[i] >= ParamsOf(s).minWeight
      BY <1>3, <3>1, <3>2
    <3>3. CASE \E b \in Binding : DOMAIN b.weights = DOMAIN made.old /\ b.weights[i] <= made.old[i]
      <4>1. PICK b \in Binding : DOMAIN b.weights = DOMAIN made.old /\ b.weights[i] <= made.old[i]
        BY <3>3
      <4>2. b.weights[i] \in Int
        BY <3>1, <4>1, BindingsAre, BindingIs
      <4>3. b.weights[i] <= made.new[i]
        BY <3>1, <4>1, <4>2
      <4> QED
        BY <1>1, <4>1, <4>3
    <3> QED
      BY <1>5, <3>1, <3>2, <3>3 DEF KeepsFloor
  <2> QED
    BY <2>1, <2>2
<1> QED
  BY <1>6 DEF KeepsFloor

(* Where weights suffice, a plan leaves some pool with a positive weight,  *)
(* the giving one or the receiving one.                                    *)
LEMMA PlansAreAccepted ==
  ASSUME NEW s \in Stream, NEW made, IsPlan(s, made), WeightsSuffice
  PROVE  Accepts(made.new)
<1>1. PICK from, to \in DOMAIN made.old : \E step \in Nat \ {0} :
           /\ made.new = [made.old EXCEPT ![from] = @ - step, ![to] = @ + step]
           /\ made.new[from] >= ParamsOf(s).minWeight
           /\ made.old[from] - made.new[from] = step
           /\ DOMAIN made.old = 1 .. Len(made.old) /\ DOMAIN made.new = DOMAIN made.old
           /\ \A i \in DOMAIN made.old : made.old[i] \in Int /\ made.new[i] \in Int
  BY PlanIs
<1>2. PICK step \in Nat \ {0} :
        /\ made.new = [made.old EXCEPT ![from] = @ - step, ![to] = @ + step]
        /\ made.old[from] - made.new[from] = step
  BY <1>1
<1>3. ParamsOf(s).minWeight \in Nat
  BY ParamsAre DEF IsParams
<1>4. /\ made.new[from] \in Int /\ made.old[from] \in Int
      /\ made.new[to] \in Int /\ made.old[to] \in Int
  BY <1>1
<1>5. CASE \A t \in Stream : ParamsOf(t).minWeight > 0
  <2>1. ParamsOf(s).minWeight > 0 /\ made.new[from] >= ParamsOf(s).minWeight
    BY <1>1, <1>5
  <2>2. made.new[from] > 0
    BY <1>3, <1>4, <2>1
  <2> QED
    BY <1>1, <2>2 DEF Accepts
<1>6. CASE \A b \in Binding : \A i \in DOMAIN b.weights : b.weights[i] >= 0
  <2>1. made.old[to] >= 0
    <3>1. CASE made.old[to] >= ParamsOf(s).minWeight
      BY <1>3, <1>4, <3>1
    <3>2. CASE \E b \in Binding : DOMAIN b.weights = DOMAIN made.old /\ b.weights[to] <= made.old[to]
      <4>1. PICK b \in Binding : DOMAIN b.weights = DOMAIN made.old /\ b.weights[to] <= made.old[to]
        BY <3>2
      <4>2. b.weights[to] \in Int /\ b.weights[to] >= 0
        BY <1>6, <4>1, BindingsAre, BindingIs
      <4> QED
        BY <1>4, <4>1, <4>2
    <3>3. KeepsFloor(s, made.old)
      BY DEF IsPlan
    <3> QED
      BY <3>1, <3>2, <3>3 DEF KeepsFloor
  <2>2. from # to
    <3> SUFFICES ASSUME from = to PROVE FALSE
      OBVIOUS
    <3>1. made.new[from] = made.old[from] - step + step
      BY <1>1, <1>2
    <3> QED
      BY <1>2, <1>4, <3>1
  <2>3. made.new[to] = made.old[to] + step
    BY <1>1, <1>2, <2>2
  <2>4. made.new[to] > 0
    BY <1>4, <2>1, <2>3
  <2> QED
    BY <1>1, <2>4 DEF Accepts
<1> QED
  BY <1>5, <1>6 DEF WeightsSuffice

-----------------------------------------------------------------------------
(* The invariant holds at the start *)

LEMMA InitInv ==
  ASSUME Init
  PROVE  IInv
<1>1. \A s \in Stream : /\ reg[s] \in Binding /\ table[s] \in Binding
                        /\ reg[s] = table[s]
  BY SchedulerAssumption DEF Init
<1>2. Types
  <2>1. IsSnapshot(snap)
    BY DEF Init, IsSnapshot
  <2>2. MaxAge \in 0 .. MaxAge
    BY SchedulerAssumption
  <2> QED
    BY <2>1, <2>2 DEF Init, Types, Stages
<1>3. Tables
  <2>1. DOMAIN reg = Stream /\ DOMAIN table = Stream
    BY SchedulerAssumption DEF Init
  <2> QED
    BY <1>1, <2>1, BindingsAre, BindingsKeepTheFloor DEF Tables
<1>4. AtStream
  BY DEF Init, AtStream, Busy, NotHeld
<1>5. Cooling
  <2>1. \A s \in Stream : age[s] <= quiet[s]
    BY SchedulerAssumption DEF Init
  <2> QED
    BY <2>1 DEF Init, Cooling
<1>6. Synced
  <2>1. \A s \in Stream : cur # s /\ user.stream # s
    BY SchedulerAssumption DEF Init, NoUser
  <2> QED
    BY <1>1, <2>1 DEF Synced, SyncedAt
<1> QED
  BY <1>2, <1>3, <1>4, <1>5, <1>6 DEF IInv

-----------------------------------------------------------------------------
(* Every step keeps the types *)

LEMMA OlderIs ==
  ASSUME NEW t \in 0 .. MaxAge
  PROVE  /\ Older(t) \in 0 .. MaxAge /\ Older(t) >= t
         /\ \A u \in 0 .. MaxAge : u <= t => Older(u) <= Older(t)
BY SchedulerAssumption DEF Older

LEMMA TypesStep ==
  ASSUME IInv, [Next]_vars
  PROVE  Types'
<1>0. Types /\ AtStream
  BY DEF IInv
<1>1. CASE Pass
  <2>1. /\ age' = [s \in Stream |-> Older(age[s])] /\ quiet' = [s \in Stream |-> Older(quiet[s])]
        /\ sampled' = IF sampled = Never THEN Never ELSE Older(sampled)
        /\ UNCHANGED <<pc, todo, snap, user, raced>>
    BY <1>1 DEF Pass, tickVars, userVars
  <2>2. \A s \in Stream : age[s] \in 0 .. MaxAge /\ quiet[s] \in 0 .. MaxAge
    BY <1>0 DEF Types
  <2>3. age' \in [Stream -> 0 .. MaxAge] /\ quiet' \in [Stream -> 0 .. MaxAge]
    BY <2>1, <2>2, OlderIs
  <2>4. sampled' \in {Never} \cup 0 .. MaxAge
    <3>1. CASE sampled = Never
      BY <2>1, <3>1
    <3>2. CASE sampled # Never
      <4>1. sampled \in 0 .. MaxAge
        BY <1>0, <3>2 DEF Types
      <4>2. sampled' = Older(sampled)
        BY <2>1, <3>2
      <4> QED
        BY <4>1, <4>2, OlderIs
    <3> QED
      BY <3>1, <3>2
  <2> QED
    BY <1>0, <2>1, <2>3, <2>4 DEF Types
<1>2. CASE Sample
  <2>1. /\ snap' \in [Pool -> UNION {Stats(p, sampled) : p \in Pool}]
        /\ \A p \in Pool : snap'[p] \in Stats(p, sampled)
        /\ sampled' = 0 /\ pc' = "streams" /\ todo' = Stream
        /\ UNCHANGED <<age, quiet, user, raced>>
    BY <1>2 DEF Sample, userVars
  <2>2. sampled \in Int /\ 0 \in 0 .. MaxAge
    BY <1>0, SchedulerAssumption DEF Types, Never
  <2>3. \A p \in Pool : IsStat(snap'[p])
    BY <2>1, <2>2, StatsAre
  <2>4. IsSnapshot(snap')
    BY <2>1, <2>3 DEF IsSnapshot
  <2> QED
    BY <1>0, <2>1, <2>2, <2>4 DEF Types, Stages
<1>3. CASE EndTick
  <2>1. IsSnapshot(<<>>)
    BY DEF IsSnapshot
  <2> QED
    BY <1>0, <1>3, <2>1 DEF EndTick, Types, Stages, clockVars, userVars
<1>4. CASE Return
  BY <1>0, <1>4 DEF Return, Types, Stages, clockVars, userVars
<1>5. ASSUME NEW s \in Stream, Skip(s) PROVE Types'
  BY <1>0, <1>5 DEF Skip, Types, clockVars, userVars
<1>6. ASSUME NEW s \in Stream, DecideStream(s) PROVE Types'
  <2>1. /\ todo' = todo \ {s} /\ UNCHANGED <<snap, age, sampled, quiet, user>>
        /\ pc' = pc \/ pc' = "cooldown"
        /\ raced' = raced \/ raced' = raced \cup {s}
    BY <1>6 DEF DecideStream, clockVars
  <2> QED
    BY <1>0, <2>1 DEF Types, Stages
<1>7. CASE CheckCooldown
  BY <1>0, <1>7 DEF CheckCooldown, Leave, Goto, Types, Stages, clockVars, userVars
<1>8. CASE Lookup
  BY <1>0, <1>8 DEF Lookup, Leave, Goto, Types, Stages, clockVars, userVars
<1>9. CASE WriteWeights
  BY <1>0, <1>9 DEF WriteWeights, Goto, Types, Stages, clockVars, userVars
<1>10. CASE RouterSetMany
  <2>1. /\ pc' \in {"mark", "streams"} /\ UNCHANGED <<todo, snap, age, sampled, user, raced>>
        /\ quiet' = quiet \/ quiet' = [quiet EXCEPT ![cur] = 0]
    BY <1>10 DEF RouterSetMany, Leave, Goto, userVars
  <2>2. 0 \in 0 .. MaxAge
    BY SchedulerAssumption
  <2>3. quiet' \in [Stream -> 0 .. MaxAge]
    BY <1>0, <2>1, <2>2 DEF Types
  <2> QED
    BY <1>0, <2>1, <2>3 DEF Types, Stages
<1>11. CASE MarkApplied
  <2>1. 0 \in 0 .. MaxAge
    BY SchedulerAssumption
  <2>2. age' \in [Stream -> 0 .. MaxAge]
    BY <1>0, <1>11, <2>1 DEF MarkApplied, Types
  <2> QED
    BY <1>0, <1>11, <2>2 DEF MarkApplied, Leave, Types, Stages, userVars
<1>12. ASSUME NEW s \in Rebound, NEW b \in Binding, RegistrySet(s, b) PROVE Types'
  <2>1. s \in Stream
    BY SchedulerAssumption
  <2>2. /\ user' = [stream |-> s, to |-> b] /\ UNCHANGED <<pc, todo, snap, age, sampled, quiet>>
        /\ raced' \subseteq raced \cup {s}
    BY <1>12 DEF RegistrySet, clockVars
  <2> QED
    BY <1>0, <2>1, <2>2 DEF Types
<1>13. CASE ManualSetMany
  BY <1>0, <1>13 DEF ManualSetMany, Types, tickVars, clockVars
<1>14. CASE UNCHANGED vars
  BY <1>0, <1>14 DEF vars, tickVars, clockVars, userVars, Types
<1> QED
  BY <1>1, <1>2, <1>3, <1>4, <1>5, <1>6, <1>7, <1>8, <1>9, <1>10, <1>11, <1>12, <1>13, <1>14
  DEF Next

-----------------------------------------------------------------------------
(* Every step keeps the bindings in the tables *)

LEMMA TablesStep ==
  ASSUME IInv, [Next]_vars
  PROVE  Tables'
<1>0. Types /\ Tables /\ AtStream
  BY DEF IInv
<1>1. CASE UNCHANGED bindVars
  BY <1>0, <1>1 DEF bindVars, Tables
<1>2. ASSUME NEW s \in Stream, NEW b, IsBinding(b), KeepsFloor(s, b.weights),
             \/ reg' = [reg EXCEPT ![s] = b] /\ UNCHANGED table
             \/ table' = [table EXCEPT ![s] = b] /\ UNCHANGED reg
      PROVE  Tables'
  <2>1. DOMAIN reg' = Stream /\ DOMAIN table' = Stream
    BY <1>0, <1>2 DEF Tables
  <2>2. ASSUME NEW t \in Stream
        PROVE  /\ reg'[t] \in {reg[t], table[t]} \/ (t = s /\ reg'[t] = b)
               /\ table'[t] \in {reg[t], table[t]} \/ (t = s /\ table'[t] = b)
    BY <1>0, <1>2 DEF Tables
  <2>3. ASSUME NEW t \in Stream, NEW c \in {reg'[t], table'[t]}
        PROVE  IsBinding(c) /\ KeepsFloor(t, c.weights)
    BY <1>0, <1>2, <2>2 DEF Tables
  <2> QED
    BY <2>1, <2>3 DEF Tables
<1>3. CASE WriteWeights
  <2>1. /\ cur \in Stream /\ IsPlan(cur, plan)
        /\ DOMAIN held.pools = 1 .. Len(held.pools) /\ Len(held.pools) = Len(plan.new)
        /\ held.live => held.pools = reg[cur].pools
    BY <1>0, <1>3 DEF WriteWeights, AtStream, Busy
  <2>2. reg' = [reg EXCEPT ![cur] = Written(reg[cur])] /\ UNCHANGED table
    BY <1>3 DEF WriteWeights
  <2>3. CASE held.live
    <3> DEFINE b == [pools |-> reg[cur].pools, weights |-> plan.new]
    <3>1. Written(reg[cur]) = b
      BY <2>3 DEF Written
    <3>2. plan.new \in Seq(Int) /\ KeepsFloor(cur, plan.new)
      BY <2>1, PlansKeepTheFloor DEF IsPlan
    <3>3. IsBinding(b) /\ KeepsFloor(cur, b.weights)
      BY <2>1, <2>3, <3>2 DEF IsBinding
    <3> HIDE DEF b
    <3> QED
      BY <1>2, <2>1, <2>2, <3>1, <3>3
  <2>4. CASE ~ held.live
    <3>1. Written(reg[cur]) = reg[cur]
      BY <2>4 DEF Written
    <3>2. IsBinding(reg[cur]) /\ KeepsFloor(cur, reg[cur].weights)
      BY <1>0, <2>1 DEF Tables
    <3> QED
      BY <1>2, <2>1, <2>2, <3>1, <3>2
  <2> QED
    BY <2>3, <2>4
<1>4. CASE RouterSetMany
  <2>1. /\ cur \in Stream /\ IsPlan(cur, plan)
        /\ DOMAIN held.pools = 1 .. Len(held.pools) /\ Len(held.pools) = Len(plan.new)
    BY <1>0, <1>4 DEF RouterSetMany, AtStream, Busy
  <2> DEFINE b == [pools |-> held.pools, weights |-> plan.new]
  <2>2. /\ UNCHANGED reg
        /\ table' = table \/ table' = [table EXCEPT ![cur] = b]
    BY <1>4 DEF RouterSetMany
  <2>3. plan.new \in Seq(Int) /\ KeepsFloor(cur, plan.new)
    BY <2>1, PlansKeepTheFloor DEF IsPlan
  <2>4. IsBinding(b) /\ KeepsFloor(cur, b.weights)
    BY <2>1, <2>3 DEF IsBinding
  <2> HIDE DEF b
  <2> QED
    BY <1>1, <1>2, <2>1, <2>2, <2>4 DEF bindVars
<1>5. ASSUME NEW s \in Rebound, NEW b \in Binding, RegistrySet(s, b) PROVE Tables'
  <2>1. s \in Stream
    BY SchedulerAssumption
  <2>2. IsBinding(b) /\ KeepsFloor(s, b.weights)
    BY <2>1, BindingsAre, BindingsKeepTheFloor
  <2>3. reg' = [reg EXCEPT ![s] = b] /\ UNCHANGED table
    BY <1>5 DEF RegistrySet
  <2> QED
    BY <1>2, <2>1, <2>2, <2>3
<1>6. CASE ManualSetMany
  <2>1. user.stream \in Stream /\ user.to \in Binding
    BY <1>0, <1>6 DEF ManualSetMany, Types
  <2>2. IsBinding(user.to) /\ KeepsFloor(user.stream, user.to.weights)
    BY <2>1, BindingsAre, BindingsKeepTheFloor
  <2>3. UNCHANGED reg
        /\ (table' = table \/ table' = [table EXCEPT ![user.stream] = user.to])
    BY <1>6 DEF ManualSetMany
  <2>4. ASSUME table' = [table EXCEPT ![user.stream] = user.to] PROVE Tables'
    BY <1>2, <2>1, <2>2, <2>3, <2>4
  <2>5. ASSUME table' = table PROVE Tables'
    BY <1>1, <2>3, <2>5 DEF bindVars
  <2> QED
    BY <2>3, <2>4, <2>5
<1>7. Pass \/ Sample \/ EndTick \/ Return \/ CheckCooldown \/ Lookup \/ MarkApplied
      \/ UNCHANGED vars => UNCHANGED bindVars
  BY DEF Pass, Sample, EndTick, Return, CheckCooldown, Lookup, MarkApplied, vars
<1>8. ASSUME NEW s \in Stream, Skip(s) \/ DecideStream(s) PROVE UNCHANGED bindVars
  BY <1>8 DEF Skip, DecideStream
<1> QED
  BY <1>1, <1>3, <1>4, <1>5, <1>6, <1>7, <1>8 DEF Next

-----------------------------------------------------------------------------
(* Every step keeps the plan and what the controller holds with it *)

LEMMA AtStreamStep ==
  ASSUME IInv, [Next]_vars
  PROVE  AtStream'
<1>0. Types /\ Tables /\ AtStream
  BY DEF IInv
<1>1. CASE UNCHANGED <<tickVars, reg>>
  BY <1>0, <1>1 DEF tickVars, AtStream
<1>2. CASE Leave
  BY <1>2 DEF Leave, AtStream, Busy, NotHeld
<1>3. CASE Sample \/ EndTick \/ Return
  BY <1>0, <1>3 DEF Sample, EndTick, Return, AtStream, Busy
<1>4. ASSUME NEW s \in Stream, Skip(s) PROVE AtStream'
  BY <1>0, <1>4 DEF Skip, AtStream, Busy
<1>5. ASSUME NEW s \in Stream, DecideStream(s) PROVE AtStream'
  <2> DEFINE made == Decide(snap, reg[s], ParamsOf(s))
  <2>1. /\ pc = "streams" /\ Scheduled(s) /\ UNCHANGED held
        /\ \/ made = NoPlan /\ UNCHANGED <<pc, cur, plan>>
           \/ made # NoPlan /\ plan' = made /\ cur' = s /\ pc' = "cooldown"
    BY <1>5 DEF DecideStream
  <2>2. CASE made = NoPlan
    BY <1>0, <2>1, <2>2 DEF AtStream, Busy
  <2>3. CASE made # NoPlan
    <3>1. IsSnapshot(snap) /\ IsBinding(reg[s]) /\ KeepsFloor(s, reg[s].weights)
      BY <1>0 DEF Types, Tables
    <3>2. IsPlan(s, made)
      BY <2>3, <3>1, DecidedIs
    <3> HIDE DEF made
    <3> QED
      BY <1>0, <2>1, <2>3, <3>2 DEF AtStream, Busy
  <2> QED
    BY <2>2, <2>3
<1>6. CASE CheckCooldown
  BY <1>0, <1>2, <1>6 DEF CheckCooldown, Goto, AtStream, Busy
<1>7. CASE Lookup
  <2>1. CASE Fits(plan.new, reg[cur].pools)
    <3>1. /\ held' = [pools |-> reg[cur].pools, live |-> TRUE] /\ pc = "lookup" /\ pc' = "write"
          /\ UNCHANGED <<cur, plan, reg>>
      BY <1>7, <2>1 DEF Lookup, Goto, bindVars
    <3>2. cur \in Stream /\ Scheduled(cur) /\ IsPlan(cur, plan)
      BY <1>0, <3>1 DEF AtStream, Busy
    <3>3. IsBinding(reg[cur])
      BY <1>0, <3>2 DEF Tables
    <3>4. DOMAIN held'.pools = 1 .. Len(held'.pools) /\ Len(held'.pools) = Len(plan.new)
      BY <2>1, <3>1, <3>3 DEF IsBinding, Fits
    <3> QED
      BY <3>1, <3>2, <3>4 DEF AtStream, Busy
  <2>2. CASE ~ Fits(plan.new, reg[cur].pools)
    BY <1>2, <1>7, <2>2 DEF Lookup
  <2> QED
    BY <2>1, <2>2
<1>8. CASE WriteWeights
  <2>1. /\ pc = "write" /\ pc' = "route" /\ UNCHANGED <<cur, plan, held>>
        /\ reg' = [reg EXCEPT ![cur] = Written(reg[cur])]
    BY <1>8 DEF WriteWeights, Goto
  <2>2. /\ cur \in Stream /\ Scheduled(cur) /\ IsPlan(cur, plan)
        /\ DOMAIN held = {"pools", "live"}
        /\ DOMAIN held.pools = 1 .. Len(held.pools) /\ Len(held.pools) = Len(plan.new)
        /\ held.live => held.pools = reg[cur].pools
    BY <1>0, <2>1 DEF AtStream, Busy
  <2>3. reg'[cur].pools = reg[cur].pools
    BY <1>0, <2>1, <2>2 DEF Tables, Written
  <2> QED
    BY <2>1, <2>2, <2>3 DEF AtStream, Busy
<1>9. CASE RouterSetMany
  BY <1>0, <1>2, <1>9 DEF RouterSetMany, Goto, AtStream, Busy
<1>10. CASE MarkApplied
  BY <1>2, <1>10 DEF MarkApplied
<1>11. ASSUME NEW s \in Rebound, NEW b \in Binding, RegistrySet(s, b) PROVE AtStream'
  <2>1. /\ reg' = [reg EXCEPT ![s] = b] /\ UNCHANGED <<pc, cur, plan>>
        /\ held' = IF cur = s THEN [held EXCEPT !.live = FALSE] ELSE held
    BY <1>11 DEF RegistrySet
  <2>2. DOMAIN held = {"pools", "live"}
    BY <1>0 DEF AtStream
  <2>3. /\ DOMAIN held' = {"pools", "live"} /\ held'.pools = held.pools
        /\ cur = s => ~ held'.live
        /\ cur # s => held'.live = held.live
    BY <2>1, <2>2
  <2>4. cur # s => reg'[cur] = reg[cur] \/ cur \notin Stream
    BY <1>0, <2>1 DEF Tables
  <2> QED
    BY <1>0, <2>1, <2>3, <2>4 DEF AtStream, Busy
<1>12. CASE Pass \/ ManualSetMany
  BY <1>1, <1>12 DEF Pass, ManualSetMany, bindVars
<1>13. CASE UNCHANGED vars
  BY <1>1, <1>13 DEF vars, bindVars
<1> QED
  BY <1>3, <1>4, <1>5, <1>6, <1>7, <1>8, <1>9, <1>10, <1>11, <1>12, <1>13 DEF Next

-----------------------------------------------------------------------------
(* Every step keeps the two clocks apart by a cooldown *)

LEMMA CoolingStep ==
  ASSUME IInv, [Next]_vars
  PROVE  Cooling'
<1>0. Types /\ AtStream /\ Cooling
  BY DEF IInv
<1>1. CASE UNCHANGED <<pc, cur, age, quiet>>
  BY <1>0, <1>1 DEF Cooling
<1>2. ASSUME pc' \notin {"lookup", "write", "route"}, pc \notin Busy, UNCHANGED <<age, quiet>>
      PROVE  Cooling'
  BY <1>0, <1>2 DEF Cooling, Busy
<1>3. CASE Pass
  <2>1. /\ age' = [s \in Stream |-> Older(age[s])] /\ quiet' = [s \in Stream |-> Older(quiet[s])]
        /\ UNCHANGED <<pc, cur>>
    BY <1>3 DEF Pass, tickVars
  <2>2. \A s \in Stream : age[s] \in 0 .. MaxAge /\ quiet[s] \in 0 .. MaxAge
    BY <1>0 DEF Types
  <2>3. \A s \in Stream : age[s] <= quiet[s] => age'[s] <= quiet'[s]
    BY <2>1, <2>2, OlderIs
  <2>4. pc \in {"lookup", "write", "route"} => age'[cur] >= CooldownOf(cur)
    <3> SUFFICES ASSUME pc \in {"lookup", "write", "route"} PROVE age'[cur] >= CooldownOf(cur)
      OBVIOUS
    <3>1. cur \in Stream /\ age[cur] >= CooldownOf(cur)
      BY <1>0 DEF AtStream, Busy, Cooling
    <3>2. age'[cur] \in 0 .. MaxAge /\ age'[cur] >= age[cur]
      BY <2>1, <2>2, <3>1, OlderIs
    <3>3. CooldownOf(cur) \in 1 .. MaxAge /\ age[cur] \in 0 .. MaxAge
      BY <2>2, <3>1, AgeAssumption
    <3> QED
      BY <3>1, <3>2, <3>3
  <2> QED
    BY <1>0, <2>1, <2>3, <2>4 DEF Cooling
<1>4. CASE Sample \/ EndTick \/ Return
  BY <1>2, <1>4 DEF Sample, EndTick, Return, clockVars, Busy
<1>5. ASSUME NEW s \in Stream, Skip(s) PROVE Cooling'
  BY <1>1, <1>5 DEF Skip, clockVars
<1>6. ASSUME NEW s \in Stream, DecideStream(s) PROVE Cooling'
  <2>1. pc = "streams" /\ pc' \in {"streams", "cooldown"} /\ UNCHANGED <<age, quiet>>
    BY <1>6 DEF DecideStream, clockVars
  <2> QED
    BY <1>2, <2>1 DEF Busy
<1>7. CASE CheckCooldown
  <2>1. CASE InCooldown(cur)
    BY <1>0, <1>7, <2>1 DEF CheckCooldown, Leave, clockVars, Cooling
  <2>2. CASE ~ InCooldown(cur)
    <3>1. pc = "cooldown" /\ pc' = "lookup" /\ UNCHANGED <<cur, age, quiet>>
      BY <1>7, <2>2 DEF CheckCooldown, Goto, clockVars
    <3>2. cur \in Stream
      BY <1>0, <3>1 DEF AtStream, Busy
    <3>3. age[cur] \in 0 .. MaxAge /\ CooldownOf(cur) \in 1 .. MaxAge
      BY <1>0, <3>2, AgeAssumption DEF Types
    <3>4. age[cur] >= CooldownOf(cur)
      BY <2>2, <3>3 DEF InCooldown
    <3> QED
      BY <1>0, <3>1, <3>4 DEF Cooling
  <2> QED
    BY <2>1, <2>2
<1>8. CASE Lookup
  <2>1. pc = "lookup" /\ UNCHANGED <<age, quiet>>
        /\ \/ pc' = "write" /\ cur' = cur
           \/ pc' = "streams"
    BY <1>8 DEF Lookup, Leave, Goto, clockVars
  <2> QED
    BY <1>0, <2>1 DEF Cooling
<1>9. CASE WriteWeights
  <2>1. pc = "write" /\ pc' = "route" /\ UNCHANGED <<cur, age, quiet>>
    BY <1>9 DEF WriteWeights, Goto, clockVars
  <2> QED
    BY <1>0, <2>1 DEF Cooling
<1>10. CASE RouterSetMany
  <2>1. pc = "route" /\ UNCHANGED age
        /\ \/ pc' = "mark" /\ cur' = cur /\ quiet' = [quiet EXCEPT ![cur] = 0]
           \/ pc' = "streams" /\ UNCHANGED quiet
    BY <1>10 DEF RouterSetMany, Leave, Goto
  <2>2. \A s \in Stream : s # cur => quiet'[s] = quiet[s]
    BY <1>0, <2>1 DEF Types
  <2> QED
    BY <1>0, <2>1, <2>2 DEF Cooling
<1>11. CASE MarkApplied
  <2>1. pc = "mark" /\ pc' = "streams" /\ age' = [age EXCEPT ![cur] = 0] /\ UNCHANGED quiet
    BY <1>11 DEF MarkApplied, Leave
  <2>2. ASSUME NEW s \in Stream PROVE age'[s] <= quiet'[s]
    <3>1. CASE s = cur
      <4>1. age'[s] = 0 /\ quiet'[s] \in 0 .. MaxAge
        BY <1>0, <2>1, <3>1 DEF Types
      <4> QED
        BY <4>1
    <3>2. CASE s # cur
      <4>1. age'[s] = age[s] /\ quiet'[s] = quiet[s]
        BY <1>0, <2>1, <3>2 DEF Types
      <4> QED
        BY <1>0, <3>2, <4>1 DEF Cooling
    <3> QED
      BY <3>1, <3>2
  <2> QED
    BY <2>1, <2>2 DEF Cooling
<1>12. ASSUME NEW s \in Rebound, NEW b \in Binding, RegistrySet(s, b) PROVE Cooling'
  BY <1>1, <1>12 DEF RegistrySet, clockVars
<1>13. CASE ManualSetMany
  BY <1>1, <1>13 DEF ManualSetMany, tickVars, clockVars
<1>14. CASE UNCHANGED vars
  BY <1>1, <1>14 DEF vars, tickVars, clockVars
<1> QED
  BY <1>3, <1>4, <1>5, <1>6, <1>7, <1>8, <1>9, <1>10, <1>11, <1>12, <1>13, <1>14 DEF Next

-----------------------------------------------------------------------------
(* Every step keeps the registry and the router in step *)

LEMMA StreamIsNoUser ==
  ASSUME NEW s \in Stream
  PROVE  NoStream # s /\ NoUser.stream # s
BY SchedulerAssumption DEF NoUser

(* A plan that comes to nothing leaves the registry and the router as they *)
(* were, or the registry ahead by what the router has refused.             *)
LEMMA LeaveSynced ==
  ASSUME IInv, Leave, UNCHANGED <<bindVars, userVars>>,
         pc \in {"cooldown", "lookup"}
           \/ (pc = "route" /\ ~ Accepts(plan.new))
           \/ pc = "mark"
  PROVE  Synced'
<1>0. Tables /\ AtStream /\ Synced
  BY DEF IInv
<1>1. cur' = NoStream /\ UNCHANGED <<reg, table, user, raced>>
  BY DEF Leave, bindVars, userVars
<1>2. cur \in Stream /\ IsPlan(cur, plan)
  BY <1>0 DEF AtStream, Busy
<1>3. ASSUME NEW s \in Stream \ raced PROVE SyncedAt(s)'
  <2>1. cur' # s
    BY <1>1, StreamIsNoUser
  <2>2. SyncedAt(s)
    BY <1>0 DEF Synced
  <2>3. CASE cur # s
    BY <1>1, <2>1, <2>2, <2>3 DEF SyncedAt
  <2>4. CASE cur = s
    <3>1. IsBinding(reg[s]) /\ user.stream # s
      BY <1>0, <2>2, <2>4 DEF Tables, SyncedAt
    <3>2. CASE pc \in {"cooldown", "lookup"}
      BY <1>1, <2>1, <2>2, <2>4, <3>1, <3>2 DEF SyncedAt
    <3>3. CASE pc = "route" /\ ~ Accepts(plan.new)
      <4>1. reg[s].weights = plan.new
        BY <2>2, <2>4, <3>3 DEF SyncedAt
      <4> QED
        BY <1>1, <2>1, <3>1, <3>3, <4>1 DEF SyncedAt
    <3>4. CASE pc = "mark"
      BY <1>1, <2>1, <2>2, <2>4, <3>1, <3>4 DEF SyncedAt
    <3> QED
      BY <3>2, <3>3, <3>4
  <2> QED
    BY <2>3, <2>4
<1> QED
  BY <1>1, <1>3 DEF Synced

LEMMA SyncedStep ==
  ASSUME IInv, [Next]_vars
  PROVE  Synced'
<1>0. Types /\ Tables /\ AtStream /\ Synced
  BY DEF IInv
<1>1. CASE UNCHANGED <<pc, cur, plan, held, bindVars, userVars>>
  BY <1>0, <1>1 DEF bindVars, userVars, Synced, SyncedAt
<1>2. ASSUME pc \notin Busy, pc' \notin Busy, UNCHANGED <<cur, bindVars, userVars>>
      PROVE  Synced'
  <2>1. cur = NoStream /\ UNCHANGED <<cur, reg, table, user, raced>>
    BY <1>0, <1>2 DEF AtStream, bindVars, userVars
  <2>2. ASSUME NEW s \in Stream \ raced PROVE SyncedAt(s)'
    <3>1. cur # s
      BY <2>1, StreamIsNoUser
    <3>2. SyncedAt(s)
      BY <1>0 DEF Synced
    <3> QED
      BY <2>1, <3>1, <3>2 DEF SyncedAt
  <2> QED
    BY <2>1, <2>2 DEF Synced
<1>3. CASE Pass
  BY <1>1, <1>3 DEF Pass, tickVars
<1>4. CASE Sample \/ EndTick \/ Return
  BY <1>2, <1>4 DEF Sample, EndTick, Return, Busy
<1>5. ASSUME NEW s \in Stream, Skip(s) PROVE Synced'
  BY <1>1, <1>5 DEF Skip
<1>6. ASSUME NEW s \in Stream, DecideStream(s) PROVE Synced'
  <2> DEFINE made == Decide(snap, reg[s], ParamsOf(s))
  <2>1. /\ pc = "streams" /\ UNCHANGED <<bindVars, user>>
        /\ \/ made = NoPlan /\ UNCHANGED <<pc, cur, raced>>
           \/ /\ made # NoPlan /\ plan' = made /\ cur' = s /\ pc' = "cooldown"
              /\ raced' = IF user.stream = s THEN raced \cup {s} ELSE raced
    BY <1>6 DEF DecideStream
  <2>2. CASE made = NoPlan
    BY <1>2, <2>1, <2>2 DEF Busy, userVars
  <2>3. CASE made # NoPlan
    <3>1. cur = NoStream /\ UNCHANGED <<reg, table, user>>
      BY <1>0, <2>1 DEF AtStream, Busy, bindVars
    <3>2. IsSnapshot(snap) /\ IsBinding(reg[s]) /\ KeepsFloor(s, reg[s].weights)
          /\ IsBinding(table[s])
      BY <1>0 DEF Types, Tables
    <3>3. /\ IsPlan(s, made) /\ Loses(made.new, reg[s]) /\ Accepts(reg[s].weights)
          /\ made.old = reg[s].weights
      BY <2>3, <3>2, DecidedIs
    <3> HIDE DEF made
    <3>4. ASSUME NEW t \in Stream \ raced' PROVE SyncedAt(t)'
      <4>1. t \notin raced /\ cur # t /\ SyncedAt(t)
        BY <1>0, <2>1, <2>3, <3>1, StreamIsNoUser DEF Synced
      <4>2. CASE t # s
        BY <2>1, <2>3, <3>1, <4>1, <4>2 DEF SyncedAt
      <4>3. CASE t = s
        <5>1. user.stream # s
          BY <2>1, <2>3, <4>3
        <5>2. reg[s] = table[s]
          BY <3>3, <4>1, <4>3, <5>1 DEF SyncedAt
        <5>3. Loses(made.new, table[s]) /\ made.old = table[s].weights
          BY <3>3, <5>2
        <5> QED
          BY <2>1, <2>3, <3>1, <4>3, <5>1, <5>2, <5>3 DEF SyncedAt
      <4> QED
        BY <4>2, <4>3
    <3> QED
      BY <3>4 DEF Synced
  <2> QED
    BY <2>2, <2>3
<1>7. CASE CheckCooldown
  <2>1. UNCHANGED <<bindVars, userVars>> /\ pc = "cooldown"
    BY <1>7 DEF CheckCooldown
  <2>2. CASE Leave
    BY <2>1, <2>2, LeaveSynced
  <2>3. CASE Goto("lookup") /\ UNCHANGED held
    <3>1. pc' = "lookup" /\ UNCHANGED <<cur, plan, held, reg, table, user, raced>>
      BY <2>1, <2>3 DEF Goto, bindVars, userVars
    <3>2. ASSUME NEW s \in Stream \ raced PROVE SyncedAt(s)'
      <4>1. SyncedAt(s)
        BY <1>0 DEF Synced
      <4> QED
        BY <2>1, <3>1, <4>1 DEF SyncedAt
    <3> QED
      BY <3>1, <3>2 DEF Synced
  <2> QED
    BY <1>7, <2>2, <2>3 DEF CheckCooldown
<1>8. CASE Lookup
  <2>1. UNCHANGED <<bindVars, userVars>> /\ pc = "lookup"
    BY <1>8 DEF Lookup
  <2>2. CASE Leave
    BY <2>1, <2>2, LeaveSynced
  <2>3. CASE held' = [pools |-> reg[cur].pools, live |-> TRUE] /\ Goto("write")
    <3>1. pc' = "write" /\ held'.live /\ UNCHANGED <<cur, plan, reg, table, user, raced>>
      BY <2>1, <2>3 DEF Goto, bindVars, userVars
    <3>2. ASSUME NEW s \in Stream \ raced PROVE SyncedAt(s)'
      <4>1. SyncedAt(s)
        BY <1>0 DEF Synced
      <4> QED
        BY <2>1, <3>1, <4>1 DEF SyncedAt
    <3> QED
      BY <3>1, <3>2 DEF Synced
  <2> QED
    BY <1>8, <2>2, <2>3 DEF Lookup
<1>9. CASE WriteWeights
  <2>1. /\ pc = "write" /\ pc' = "route" /\ UNCHANGED <<cur, plan, held, table, user, raced>>
        /\ reg' = [reg EXCEPT ![cur] = Written(reg[cur])]
    BY <1>9 DEF WriteWeights, Goto, userVars
  <2>2. ASSUME NEW s \in Stream \ raced PROVE SyncedAt(s)'
    <3>1. SyncedAt(s)
      BY <1>0 DEF Synced
    <3>2. CASE cur # s
      <4>1. reg'[s] = reg[s]
        BY <1>0, <2>1, <3>2 DEF Tables
      <4> QED
        BY <2>1, <3>1, <3>2, <4>1 DEF SyncedAt
    <3>3. CASE cur = s
      <4>1. /\ user.stream # s /\ held.live
            /\ reg[s] = table[s] /\ plan.old = table[s].weights /\ Loses(plan.new, table[s])
        BY <2>1, <3>1, <3>3 DEF SyncedAt
      <4>2. reg'[s] = [pools |-> table[s].pools, weights |-> plan.new]
        BY <1>0, <2>1, <3>3, <4>1 DEF Tables, Written
      <4> QED
        BY <2>1, <3>3, <4>1, <4>2 DEF SyncedAt
    <3> QED
      BY <3>2, <3>3
  <2> QED
    BY <2>1, <2>2 DEF Synced
<1>10. CASE RouterSetMany
  <2>1. /\ pc = "route" /\ UNCHANGED <<reg, user, raced>>
        /\ cur \in Stream /\ held.live => held.pools = reg[cur].pools
    BY <1>0, <1>10 DEF RouterSetMany, userVars, AtStream, Busy
  <2>2. CASE Accepts(plan.new)
    <3>1. /\ table' = [table EXCEPT ![cur] = [pools |-> held.pools, weights |-> plan.new]]
          /\ pc' = "mark" /\ cur' = cur
      BY <1>10, <2>2 DEF RouterSetMany, Goto
    <3>2. ASSUME NEW s \in Stream \ raced PROVE SyncedAt(s)'
      <4>1. SyncedAt(s)
        BY <1>0 DEF Synced
      <4>2. CASE cur # s
        <5>1. table'[s] = table[s]
          BY <1>0, <3>1, <4>2 DEF Tables
        <5> QED
          BY <2>1, <3>1, <4>1, <4>2, <5>1 DEF SyncedAt
      <4>3. CASE cur = s
        <5>1. /\ user.stream # s /\ held.live
              /\ reg[s] = [pools |-> table[s].pools, weights |-> plan.new]
          BY <2>1, <4>1, <4>3 DEF SyncedAt
        <5>2. table'[s] = reg[s]
          BY <1>0, <2>1, <3>1, <4>3, <5>1 DEF Tables
        <5> QED
          BY <2>1, <3>1, <4>3, <5>1, <5>2 DEF SyncedAt
      <4> QED
        BY <4>2, <4>3
    <3> QED
      BY <2>1, <3>2 DEF Synced
  <2>3. CASE ~ Accepts(plan.new)
    <3>1. Leave /\ UNCHANGED <<bindVars, userVars>>
      BY <1>10, <2>3 DEF RouterSetMany, bindVars
    <3> QED
      BY <2>1, <2>3, <3>1, LeaveSynced
  <2> QED
    BY <2>2, <2>3
<1>11. CASE MarkApplied
  <2>1. Leave /\ UNCHANGED <<bindVars, userVars>> /\ pc = "mark"
    BY <1>11 DEF MarkApplied
  <2> QED
    BY <2>1, LeaveSynced
<1>12. ASSUME NEW s \in Rebound, NEW b \in Binding, RegistrySet(s, b) PROVE Synced'
  <2>1. /\ user = NoUser /\ reg' = [reg EXCEPT ![s] = b] /\ user' = [stream |-> s, to |-> b]
        /\ held' = IF cur = s THEN [held EXCEPT !.live = FALSE] ELSE held
        /\ raced' = IF cur = s THEN raced \cup {s} ELSE raced \ {s}
        /\ UNCHANGED <<pc, cur, plan, table>>
    BY <1>12 DEF RegistrySet
  <2>2. ASSUME NEW t \in Stream \ raced' PROVE SyncedAt(t)'
    <3>1. CASE t = s
      <4>1. cur # s /\ reg'[s] = b
        BY <1>0, <2>1, <3>1 DEF Tables
      <4> QED
        BY <2>1, <3>1, <4>1 DEF SyncedAt
    <3>2. CASE t # s
      <4>1. t \in Stream \ raced /\ reg'[t] = reg[t]
        BY <1>0, <2>1, <3>2 DEF Tables
      <4>2. SyncedAt(t) /\ user.stream # t /\ user'.stream # t
        BY <1>0, <2>1, <3>2, <4>1, StreamIsNoUser DEF Synced
      <4>3. cur = t => held' = held
        BY <2>1, <3>2
      <4> QED
        BY <2>1, <4>1, <4>2, <4>3 DEF SyncedAt
    <3> QED
      BY <3>1, <3>2
  <2> QED
    BY <2>2 DEF Synced
<1>13. CASE ManualSetMany
  <2>1. /\ table' = IF Accepts(user.to.weights) THEN [table EXCEPT ![user.stream] = user.to]
                                                ELSE table
        /\ user' = NoUser /\ UNCHANGED <<pc, cur, plan, held, reg, raced>>
        /\ user.stream \in Stream
    BY <1>0, <1>13 DEF ManualSetMany, tickVars, Types
  <2>2. ASSUME NEW s \in Stream \ raced PROVE SyncedAt(s)'
    <3>1. SyncedAt(s) /\ user'.stream # s
      BY <1>0, <2>1, StreamIsNoUser DEF Synced
    <3>2. CASE user.stream = s
      <4>1. cur # s /\ reg[s] = user.to
        BY <3>1, <3>2 DEF SyncedAt
      <4>2. Accepts(reg[s].weights) => table'[s] = reg[s]
        BY <1>0, <2>1, <3>2, <4>1 DEF Tables
      <4> QED
        BY <2>1, <3>1, <4>1, <4>2 DEF SyncedAt
    <3>3. CASE user.stream # s
      <4>1. table'[s] = table[s]
        BY <1>0, <2>1, <3>3 DEF Tables
      <4> QED
        BY <2>1, <3>1, <3>3, <4>1 DEF SyncedAt
    <3> QED
      BY <3>2, <3>3
  <2> QED
    BY <2>1, <2>2 DEF Synced
<1>14. CASE UNCHANGED vars
  BY <1>1, <1>14 DEF vars, tickVars
<1> QED
  BY <1>3, <1>4, <1>5, <1>6, <1>7, <1>8, <1>9, <1>10, <1>11, <1>12, <1>13, <1>14 DEF Next

THEOREM Invariance == Spec => []IInv
<1>1. Init => IInv
  BY InitInv
<1>2. IInv /\ [Next]_vars => IInv'
  BY TypesStep, TablesStep, AtStreamStep, CoolingStep, SyncedStep DEF IInv
<1> QED
  BY <1>1, <1>2, PTL DEF Spec

-----------------------------------------------------------------------------
(* The invariants the runs check *)

(* TypeOK: every variable keeps its type; registry and router hold as many *)
(* weights as pools for every stream, whatever Apply and a user have       *)
(* written through.                                                        *)
THEOREM TypeCorrect == Spec => []TypeOK
<1>1. ASSUME IInv PROVE TypeOK
  <2>0. Types /\ Tables /\ AtStream
    BY <1>1 DEF IInv
  <2>1. cur \in Stream \cup {NoStream} /\ Len(plan.old) = Len(plan.new)
    <3>1. CASE pc \in Busy
      BY <2>0, <3>1 DEF AtStream, IsPlan
    <3>2. CASE pc \notin Busy
      BY <2>0, <3>2 DEF AtStream, NoPlan
    <3> QED
      BY <3>1, <3>2
  <2>2. \A s \in Stream : \A b \in {reg[s], table[s]} :
          /\ DOMAIN b.weights = DOMAIN b.pools
          /\ \A i \in DOMAIN b.weights : b.weights[i] \in Int
    BY <2>0, BindingIs DEF Tables
  <2> QED
    BY <2>0, <2>1, <2>2 DEF Types, Tables, TypeOK
<1> QED
  BY <1>1, Invariance, PTL

(* PlanBounded: a plan of PressureRebalanceStrategy moves weight between   *)
(* two pools and loses none, within minWeight, maxStep and maxFrac.        *)
THEOREM PlanIsBounded == Spec => []PlanBounded
<1>1. ASSUME IInv PROVE PlanBounded
  <2> SUFFICES ASSUME plan # NoPlan
               PROVE  \E from, to \in DOMAIN plan.old :
                        LET step == plan.old[from] - plan.new[from] IN
                        /\ step \in 1 .. ParamsOf(cur).maxStep
                        /\ plan.new = [plan.old EXCEPT ![from] = @ - step, ![to] = @ + step]
                        /\ plan.new[from] >= ParamsOf(cur).minWeight
                        /\ step = 1 \/ step * 100 <= Total(plan.old) * ParamsOf(cur).maxFrac
    BY DEF PlanBounded
  <2>1. IsPlan(cur, plan)
    BY <1>1 DEF IInv, AtStream
  <2> QED
    BY <2>1 DEF IsPlan
<1> QED
  BY <1>1, Invariance, PTL

(* InSync: outside of Apply and of a rebinding by hand the router does     *)
(* what the registry says, unless the two overlapped or the router has     *)
(* refused what the registry holds.                                        *)
THEOREM RouterFollowsRegistry == Spec => []InSync
<1>1. IInv => InSync
  BY DEF IInv, Synced, SyncedAt, InSync
<1> QED
  BY <1>1, Invariance, PTL

(* The router has no reason to refuse what Apply has already written to    *)
(* the registry, if every minimum is positive or no binding asks for a     *)
(* negative weight: only a user's binding is ever refused.                 *)
THEOREM PlansGoThrough ==
  WeightsSuffice => (Spec => [](plan # NoPlan => Accepts(plan.new)))
<1> SUFFICES ASSUME WeightsSuffice PROVE Spec => [](plan # NoPlan => Accepts(plan.new))
  OBVIOUS
<1>1. IInv => (plan # NoPlan => Accepts(plan.new))
  BY PlansAreAccepted DEF IInv, AtStream
<1> QED
  BY <1>1, Invariance, PTL

(* CooldownKept: SetMany of a plan comes no sooner after the stream's last *)
(* one than the cooldown of the stream.                                    *)
THEOREM CooldownIsKept == Spec => CooldownKept
<1>1. ASSUME IInv, pc = "route" PROVE quiet[cur] >= CooldownOf(cur)
  <2>1. cur \in Stream /\ age[cur] >= CooldownOf(cur) /\ age[cur] <= quiet[cur]
    BY <1>1 DEF IInv, AtStream, Busy, Cooling
  <2>2. age[cur] \in 0 .. MaxAge /\ quiet[cur] \in 0 .. MaxAge /\ CooldownOf(cur) \in 1 .. MaxAge
    BY <1>1, <2>1, AgeAssumption DEF IInv, Types
  <2> QED
    BY <2>1, <2>2
<1>2. IInv => [(pc = "route" /\ pc' = "mark") => quiet[cur] >= CooldownOf(cur)]_vars
  BY <1>1
<1> QED
  BY <1>2, Invariance, PTL DEF CooldownKept

(* What a step does to the router: the controller's SetMany and a user's   *)
(* are the only ones that change it.                                       *)
LEMMA TableSteps ==
  ASSUME [Next]_vars, table' # table
  PROVE  RouterSetMany \/ ManualSetMany
<1>1. Pass \/ Sample \/ EndTick \/ Return \/ CheckCooldown \/ Lookup \/ WriteWeights \/ MarkApplied
      \/ UNCHANGED vars => UNCHANGED table
  BY DEF Pass, Sample, EndTick, Return, CheckCooldown, Lookup, WriteWeights, MarkApplied, vars,
         bindVars
<1>2. ASSUME NEW s \in Stream, Skip(s) \/ DecideStream(s) PROVE UNCHANGED table
  BY <1>2 DEF Skip, DecideStream, bindVars
<1>3. ASSUME NEW s \in Rebound, NEW b \in Binding, RegistrySet(s, b) PROVE UNCHANGED table
  BY <1>3 DEF RegistrySet
<1> QED
  BY <1>1, <1>2, <1>3 DEF Next

LEMMA SetManyIs ==
  ASSUME IInv, RouterSetMany, NEW s \in Stream, table'[s] # table[s]
  PROVE  /\ s = cur /\ pc = "route"
         /\ table'[s] = [pools |-> held.pools, weights |-> plan.new]
<1>1. DOMAIN table = Stream
  BY DEF IInv, Tables
<1>2. pc = "route"
      /\ table' \in {table, [table EXCEPT ![cur] = [pools |-> held.pools, weights |-> plan.new]]}
  BY DEF RouterSetMany
<1> QED
  BY <1>1, <1>2

(* What a step does to the registry: Apply's write through the pointer and *)
(* a user's Set are the only ones that change it.                          *)
LEMMA RegSteps ==
  ASSUME [Next]_vars, reg' # reg
  PROVE  WriteWeights \/ user' # user
<1>1. Pass \/ Sample \/ EndTick \/ Return \/ CheckCooldown \/ Lookup \/ RouterSetMany \/ MarkApplied
      \/ ManualSetMany \/ UNCHANGED vars => UNCHANGED reg
  BY DEF Pass, Sample, EndTick, Return, CheckCooldown, Lookup, RouterSetMany, MarkApplied,
         ManualSetMany, vars, bindVars
<1>2. ASSUME NEW s \in Stream, Skip(s) \/ DecideStream(s) PROVE UNCHANGED reg
  BY <1>2 DEF Skip, DecideStream, bindVars
<1>3. ASSUME NEW s \in Rebound, NEW b \in Binding, RegistrySet(s, b) PROVE user' # user
  <2>1. s \in Stream
    BY SchedulerAssumption
  <2> QED
    BY <1>3, <2>1, StreamIsNoUser DEF RegistrySet
<1> QED
  BY <1>1, <1>2, <1>3 DEF Next

LEMMA SameKeepsAbove ==
  ASSUME NEW least, NEW b, IsBinding(b)
  PROVE  KeepsAbove(least, b, b)
<1>1. \A i \in DOMAIN b.weights : b.weights[i] \in Int
  BY BindingIs
<1>2. \A i \in DOMAIN b.weights : ~ b.weights[i] < b.weights[i]
  BY <1>1
<1> QED
  BY <1>2 DEF KeepsAbove

(* A plan made from the weights of a binding takes none of them below the  *)
(* minimum: the pool that gives keeps it, and all others keep theirs.      *)
LEMMA PlansKeepAbove ==
  ASSUME NEW s \in Stream, NEW made, NEW b, IsPlan(s, made), made.old = b.weights
  PROVE  KeepsAbove(ParamsOf(s).minWeight, b, [pools |-> b.pools, weights |-> made.new])
<1>1. PICK from, to \in DOMAIN made.old : \E step \in Nat \ {0} :
           /\ made.new = [made.old EXCEPT ![from] = @ - step, ![to] = @ + step]
           /\ made.new[from] >= ParamsOf(s).minWeight
           /\ made.old[from] - made.new[from] = step
           /\ DOMAIN made.old = 1 .. Len(made.old) /\ DOMAIN made.new = DOMAIN made.old
           /\ \A i \in DOMAIN made.old : made.old[i] \in Int /\ made.new[i] \in Int
  BY PlanIs
<1>2. PICK step \in Nat \ {0} :
        made.new = [made.old EXCEPT ![from] = @ - step, ![to] = @ + step]
  BY <1>1
<1>3. ASSUME NEW i \in DOMAIN made.old, made.new[i] < made.old[i]
      PROVE  made.new[i] >= ParamsOf(s).minWeight
  <2>1. CASE i = from
    BY <1>1, <2>1
  <2>2. CASE i # from
    <3>1. made.old[i] \in Int
      BY <1>1
    <3>2. made.new[i] = made.old[i] \/ made.new[i] = made.old[i] + step
      BY <1>2, <2>2
    <3> QED
      BY <1>3, <3>1, <3>2
  <2> QED
    BY <2>1, <2>2
<1> QED
  BY <1>3 DEF KeepsAbove

(* FloorKept: what the controller writes to the registry, and then to the  *)
(* router, was decided some steps before, from weights that are still      *)
(* those of the stream, and for pools that are still its own; no pool is   *)
(* brought below minWeight, unless a user has rebound the stream at the    *)
(* same time.                                                              *)
THEOREM FloorIsKept == Spec => FloorKept
<1>1. ASSUME IInv, [Next]_vars, NEW s \in Stream \ raced, user' = user
      PROVE  /\ KeepsAbove(ParamsOf(s).minWeight, reg[s], reg'[s])
             /\ KeepsAbove(ParamsOf(s).minWeight, table[s], table'[s])
  <2>1. /\ IsBinding(reg[s]) /\ IsBinding(table[s]) /\ SyncedAt(s)
        /\ DOMAIN reg = Stream /\ DOMAIN table = Stream
    BY <1>1 DEF IInv, Tables, Synced
  <2>2. KeepsAbove(ParamsOf(s).minWeight, reg[s], reg'[s])
    <3>1. CASE reg'[s] = reg[s]
      BY <2>1, <3>1, SameKeepsAbove
    <3>2. CASE reg'[s] # reg[s]
      <4>1. WriteWeights
        BY <1>1, <3>2, RegSteps
      <4>2. pc = "write" /\ s = cur /\ reg'[s] = Written(reg[s])
        BY <2>1, <3>2, <4>1 DEF WriteWeights
      <4>3. IsPlan(s, plan)
        BY <1>1, <4>2 DEF IInv, AtStream, Busy
      <4>4. held.live /\ reg[s] = table[s] /\ plan.old = table[s].weights
        BY <2>1, <4>2 DEF SyncedAt
      <4>5. reg'[s] = [pools |-> reg[s].pools, weights |-> plan.new]
        BY <4>2, <4>4 DEF Written
      <4> QED
        BY <4>3, <4>4, <4>5, PlansKeepAbove
    <3> QED
      BY <3>1, <3>2
  <2>3. KeepsAbove(ParamsOf(s).minWeight, table[s], table'[s])
    <3>1. CASE table'[s] = table[s]
      BY <2>1, <3>1, SameKeepsAbove
    <3>2. CASE table'[s] # table[s]
      <4>1. ~ ManualSetMany
        BY <1>1 DEF ManualSetMany
      <4>2. RouterSetMany
        BY <1>1, <3>2, <4>1, TableSteps
      <4>3. s = cur /\ pc = "route" /\ table'[s] = [pools |-> held.pools, weights |-> plan.new]
        BY <1>1, <3>2, <4>2, SetManyIs
      <4>4. IsPlan(s, plan) /\ (held.live => held.pools = reg[s].pools)
        BY <1>1, <4>3 DEF IInv, AtStream, Busy
      <4>5. /\ held.live /\ plan.old = table[s].weights
            /\ reg[s] = [pools |-> table[s].pools, weights |-> plan.new]
        BY <2>1, <4>3 DEF SyncedAt
      <4>6. table'[s] = [pools |-> table[s].pools, weights |-> plan.new]
        BY <4>3, <4>4, <4>5
      <4> QED
        BY <4>4, <4>5, <4>6, PlansKeepAbove
    <3> QED
      BY <3>1, <3>2
  <2> QED
    BY <2>2, <2>3
<1>2. IInv /\ [Next]_vars =>
        [\A s \in Stream \ raced : user' = user =>
           /\ KeepsAbove(ParamsOf(s).minWeight, reg[s], reg'[s])
           /\ KeepsAbove(ParamsOf(s).minWeight, table[s], table'[s])]_vars
  BY <1>1
<1> QED
  BY <1>2, Invariance, PTL DEF FloorKept, Spec

(* StripedOnlyLoses: the controller never raises the weight of a           *)
(* StripedPool, which reports no workers.                                  *)
THEOREM StripedPoolsLose == Spec => StripedOnlyLoses
<1>1. ASSUME IInv, [Next]_vars, NEW s \in Stream \ raced, NEW i \in DOMAIN table[s].pools,
             table[s].pools[i] \in Striped, user' = user, table'[s].pools = table[s].pools
      PROVE  table'[s].weights[i] <= table[s].weights[i]
  <2>1. CASE table'[s] = table[s]
    <3>1. IsBinding(table[s])
      BY <1>1 DEF IInv, Tables
    <3>2. table[s].weights[i] \in Int
      BY <1>1, <3>1, BindingIs
    <3> QED
      BY <2>1, <3>2
  <2>2. CASE table'[s] # table[s]
    <3>1. ~ ManualSetMany
      BY <1>1 DEF ManualSetMany
    <3>2. RouterSetMany
      BY <1>1, <2>2, <3>1, TableSteps
    <3>3. s = cur /\ pc = "route" /\ table'[s].weights = plan.new
      BY <1>1, <2>2, <3>2, SetManyIs
    <3>4. Loses(plan.new, table[s])
      BY <1>1, <3>3 DEF IInv, Synced, SyncedAt
    <3> QED
      BY <1>1, <3>3, <3>4 DEF Loses
  <2> QED
    BY <2>1, <2>2
<1>2. IInv /\ [Next]_vars =>
        [\A s \in Stream \ raced : \A i \in DOMAIN table[s].pools :
           table[s].pools[i] \in Striped /\ user' = user /\ table'[s].pools = table[s].pools
             => table'[s].weights[i] <= table[s].weights[i]]_vars
  BY <1>1
<1> QED
  BY <1>2, Invariance, PTL DEF StripedOnlyLoses, Spec

(* DisabledStaysPut: the weights of a stream whose policy says so are      *)
(* never changed but by a user, whatever the default policy says.          *)
THEOREM DisabledIsLeftAlone == Spec => DisabledStaysPut
<1>1. ASSUME IInv, [Next]_vars, NEW s \in Stream \cap DOMAIN Per,
             Per[s].enabledSet, ~ Per[s].enabled, table'[s] # table[s]
      PROVE  user.stream = s /\ table'[s] = user.to
  <2>1. RouterSetMany \/ ManualSetMany
    BY <1>1, TableSteps
  <2>2. ASSUME RouterSetMany PROVE FALSE
    <3>1. s = cur /\ pc = "route"
      BY <1>1, <2>2, SetManyIs
    <3>2. Scheduled(s)
      BY <1>1, <3>1 DEF IInv, AtStream, Busy
    <3>3. PolicyOf(s).enabled = Per[s].enabled
      BY <1>1 DEF PolicyOf, Normalize, Enabled
    <3> QED
      BY <1>1, <3>2, <3>3 DEF Scheduled
  <2>3. CASE ManualSetMany
    <3>1. /\ table' \in {table, [table EXCEPT ![user.stream] = user.to]}
          /\ DOMAIN table = Stream
      BY <1>1, <2>3 DEF ManualSetMany, IInv, Tables
    <3> QED
      BY <1>1, <3>1
  <2> QED
    BY <2>1, <2>2, <2>3
<1>2. IInv /\ [Next]_vars =>
        [\A s \in Stream \cap DOMAIN Per :
           Per[s].enabledSet /\ ~ Per[s].enabled /\ table'[s] # table[s]
             => user.stream = s /\ table'[s] = user.to]_vars
  BY <1>1
<1> QED
  BY <1>2, Invariance, PTL DEF DisabledStaysPut, Spec

-----------------------------------------------------------------------------
(* Pressure is answered *)

(* The parameters let a step be taken at all.                              *)
StepsArePositive ==
  \A s \in Stream : ParamsOf(s).baseStep >= 1 /\ ParamsOf(s).maxStep >= 1

(* The one position pressed harder than all others is the hottest, the one *)
(* pressed less than all others the coolest.                               *)
LEMMA ExtremesAre ==
  ASSUME NEW press, \A i \in DOMAIN press : IsPressure(press[i]),
         NEW hot \in DOMAIN press, NEW cool \in DOMAIN press,
         \A i \in DOMAIN press \ {hot} : Above(press[hot], press[i]),
         \A i \in DOMAIN press \ {cool} : Above(press[i], press[cool])
  PROVE  Hottest(press) = hot /\ Coolest(press) = cool
<1>1. \A i, j \in DOMAIN press : Above(press[i], press[j]) => ~ Above(press[j], press[i])
  BY AboveOrders
<1>2. Hottest(press) = hot
  <2> DEFINE Best(i) == \A j \in DOMAIN press \ {i} :
               Above(press[i], press[j]) \/ (~ Above(press[j], press[i]) /\ i < j)
  <2>1. \A i \in DOMAIN press : Best(i) <=> i = hot
    BY <1>1
  <2>2. Hottest(press) = CHOOSE i \in DOMAIN press : Best(i)
    BY DEF Hottest
  <2> HIDE DEF Best
  <2> QED
    BY <2>1, <2>2
<1>3. Coolest(press) = cool
  <2> DEFINE Best(i) == \A j \in DOMAIN press \ {i} :
               Above(press[j], press[i]) \/ (~ Above(press[i], press[j]) /\ i < j)
  <2>1. \A i \in DOMAIN press : Best(i) <=> i = cool
    BY <1>1
  <2>2. Coolest(press) = CHOOSE i \in DOMAIN press : Best(i)
    BY DEF Coolest
  <2> HIDE DEF Best
  <2> QED
    BY <2>1, <2>2
<1> QED
  BY <1>2, <1>3

(* A positive step passes the limit of pace where the receiving end has as *)
(* many workers.                                                           *)
LEMMA OneIsWithinPace ==
  ASSUME NEW base \in Nat \ {0}, NEW to \in Nat, NEW from \in Nat, to >= Max({1, from})
  PROVE  WithinPace(1, base, to, from)
<1> DEFINE least == Max({1, from})
<1>1. least \in Nat
  BY MaxOfOneAnd
<1>2. to >= least
  OBVIOUS
<1> HIDE DEF least
<1>3. base * base \in Nat \ {0}
  OBVIOUS
<1> DEFINE square == base * base
<1>4. square * to >= to
  <2> HIDE DEF square
  <2>1. square \in Nat \ {0}
    BY <1>3 DEF square
  <2> QED
    BY <2>1
<1>5. square * to \in Nat
  <2> HIDE DEF square
  <2>1. square \in Nat
    BY <1>3 DEF square
  <2> QED
    BY <2>1
<1>6. 1 * 1 * least <= square * to
  <2> HIDE DEF square
  <2> QED
    BY <1>1, <1>2, <1>4, <1>5
<1> QED
  BY <1>6 DEF WithinPace, least

LEMMA Served ==
  ASSUME NEW now, NEW b, NEW params, IsSnapshot(now), IsBinding(b), IsParams(params),
         params.baseStep >= 1, params.maxStep >= 1,
         NEW press, press = Pressures(now, b, params.epsRate),
         NEW hot \in DOMAIN press, NEW cool \in DOMAIN press, hot # cool,
         \A i \in DOMAIN press \ {hot} : Above(press[hot], press[i]),
         \A i \in DOMAIN press \ {cool} : Above(press[i], press[cool]),
         Minus(press[hot], press[cool]).n
           >= params.minPressureDelta * press[hot].d * press[cool].d,
         b.weights[hot] > params.minWeight,
         Reported(b.pools[cool]) >= Max({1, Reported(b.pools[hot])})
  PROVE  /\ Decide(now, b, params) # NoPlan
         /\ Decide(now, b, params).new[hot] < b.weights[hot]
         /\ Decide(now, b, params).new[cool] > b.weights[cool]
<1> DEFINE over  == Minus(press[hot], press[cool])
           spare == over.n - params.minPressureDelta * over.d
           mult  == 1 + spare \div (params.paceRate * over.d)
           step  == Max(Allowed(params, b, hot, cool, mult))
           made  == Decide(now, b, params)
<1>1. /\ params.maxStep \in Nat /\ params.baseStep \in Nat /\ params.maxFrac \in Nat
      /\ params.minWeight \in Nat /\ params.minPressureDelta \in Nat
      /\ params.paceRate \in Nat \ {0} /\ params.epsRate \in Nat \ {0}
  BY DEF IsParams
<1>2. /\ DOMAIN press = {i \in DOMAIN b.pools : b.pools[i] \in DOMAIN now}
      /\ \A i \in DOMAIN press : IsPressure(press[i])
  BY <1>1, PressuresAre
<1>3. Hottest(press) = hot /\ Coolest(press) = cool
  BY <1>2, ExtremesAre
<1>4. /\ hot \in DOMAIN b.pools /\ b.pools[hot] \in Pool /\ hot \in DOMAIN b.weights
      /\ cool \in DOMAIN b.pools /\ b.pools[cool] \in Pool /\ cool \in DOMAIN b.weights
      /\ b.weights[hot] \in Int /\ b.weights[cool] \in Int
  BY <1>2, BindingIs DEF IsSnapshot
<1>5. over.n \in Int /\ over.d \in Nat \ {0} /\ spare >= 0 /\ spare \in Int
  <2> DEFINE hn == press[hot].n
             hd == press[hot].d
             cn == press[cool].n
             cd == press[cool].d
             delta == params.minPressureDelta
  <2>1. hn \in Nat /\ cn \in Nat /\ hd \in Nat \ {0} /\ cd \in Nat \ {0} /\ delta \in Nat
    BY <1>1, <1>2 DEF IsPressure
  <2>2. over.n = hn * cd - cn * hd /\ over.d = hd * cd
    BY DEF Minus
  <2>3. over.n >= delta * hd * cd
    OBVIOUS
  <2> HIDE DEF over, hn, hd, cn, cd, delta
  <2>4. over.n \in Int /\ over.d \in Nat \ {0}
    BY <2>1, <2>2
  <2>5. delta * hd * cd = delta * over.d /\ delta * over.d \in Nat
    BY <2>1, <2>2
  <2>6. over.n - delta * over.d >= 0 /\ over.n - delta * over.d \in Int
    BY <2>3, <2>4, <2>5
  <2> QED
    BY <2>4, <2>6 DEF delta
<1>6. mult \in Nat \ {0}
  <2> HIDE DEF over, spare
  <2>1. params.paceRate * over.d \in Nat \ {0}
    BY <1>1, <1>5
  <2>2. spare \div (params.paceRate * over.d) \in Nat
    BY <1>5, <2>1
  <2> QED
    BY <2>2
<1>7. 1 \in Allowed(params, b, hot, cool, mult)
  <2>1. WithinPace(1, mult * params.baseStep, Reported(b.pools[cool]), Reported(b.pools[hot]))
    <3> HIDE DEF mult
    <3>1. mult * params.baseStep \in Nat \ {0}
      BY <1>1, <1>6
    <3> QED
      BY <1>4, <3>1, ReportedIs, OneIsWithinPace
  <2>2. Floored(1, b.weights[hot], params.minWeight)
    BY <1>1, <1>4 DEF Floored
  <2>3. 1 <= Share(Total(b.weights), params.maxFrac)
    <3>1. Total(b.weights) \in Int
      BY TotalIs DEF IsBinding
    <3>2. Share(Total(b.weights), params.maxFrac) \in Nat \ {0}
      BY <1>1, <3>1, ShareIs
    <3> QED
      BY <3>2
  <2>4. 1 \in 0 .. params.maxStep
    BY <1>1
  <2> HIDE DEF mult
  <2> QED
    BY <2>1, <2>2, <2>3, <2>4 DEF Allowed
<1>8. step \in Nat \ {0}
  <2> HIDE DEF mult
  <2>1. mult \in Int
    BY <1>6
  <2>2. /\ step \in Allowed(params, b, hot, cool, mult)
        /\ \A n \in Allowed(params, b, hot, cool, mult) : n <= step
    BY <1>4, <2>1, StepIs
  <2> HIDE DEF step
  <2>3. 1 <= step
    BY <1>7, <2>2
  <2>4. step \in 0 .. params.maxStep
    BY <2>2 DEF Allowed
  <2> QED
    BY <1>1, <2>3, <2>4
<1>9. made = [old |-> b.weights,
              new |-> [b.weights EXCEPT ![hot] = @ - step, ![cool] = @ + step]]
  <2>1. ~(spare < 0) /\ ~(b.weights[hot] <= params.minWeight) /\ step # 0 /\ DOMAIN press # {}
    BY <1>1, <1>4, <1>5, <1>8
  <2> QED
    BY <1>3, <2>1 DEF Decide, Allowed
<1> HIDE DEF made, step
<1>10. made.old = b.weights
       /\ made.new[hot] = b.weights[hot] - step /\ made.new[cool] = b.weights[cool] + step
  BY <1>4, <1>9
<1>11. made # NoPlan
  BY <1>4, <1>10 DEF NoPlan
<1>12. made.new[hot] < b.weights[hot] /\ made.new[cool] > b.weights[cool]
  BY <1>4, <1>8, <1>10
<1> QED
  BY <1>11, <1>12 DEF made

(* PressedIsServed: where pressure asks for it and both pools allow it,    *)
(* the strategy moves weight: none of the limits, and neither of the       *)
(* roundings, cuts the step down to nothing, provided the policy's base    *)
(* and largest steps are not 0 themselves.                                 *)
THEOREM PressureIsServed == StepsArePositive => (Spec => []PressedIsServed)
<1> SUFFICES ASSUME StepsArePositive PROVE Spec => []PressedIsServed
  OBVIOUS
<1>1. ASSUME IInv, NEW s \in Stream,
             NEW hot \in DOMAIN Pressures(snap, reg[s], ParamsOf(s).epsRate),
             NEW cool \in DOMAIN Pressures(snap, reg[s], ParamsOf(s).epsRate)
      PROVE  LET old    == reg[s]
                 params == ParamsOf(s)
                 press  == Pressures(snap, old, params.epsRate)
                 made   == Decide(snap, old, params)
             IN /\ hot # cool
                /\ \A i \in DOMAIN press \ {hot} : Above(press[hot], press[i])
                /\ \A i \in DOMAIN press \ {cool} : Above(press[i], press[cool])
                /\ Minus(press[hot], press[cool]).n
                     >= params.minPressureDelta * press[hot].d * press[cool].d
                /\ old.weights[hot] > params.minWeight
                /\ Reported(old.pools[cool]) >= Max({1, Reported(old.pools[hot])})
                => /\ made # NoPlan
                   /\ made.new[hot] < old.weights[hot] /\ made.new[cool] > old.weights[cool]
  <2>1. IsSnapshot(snap) /\ IsBinding(reg[s])
    BY <1>1 DEF IInv, Types, Tables
  <2>2. IsParams(ParamsOf(s)) /\ ParamsOf(s).baseStep >= 1 /\ ParamsOf(s).maxStep >= 1
    BY ParamsAre DEF StepsArePositive
  <2> QED
    BY <2>1, <2>2, Served
<1>2. IInv => PressedIsServed
  <2> SUFFICES ASSUME IInv PROVE PressedIsServed
    OBVIOUS
  <2>1. Types
    BY DEF IInv
  <2> QED
    BY <1>1, <2>1, Zenon DEF PressedIsServed, Types
<1> QED
  BY <1>2, Invariance, PTL
=============================================================================
