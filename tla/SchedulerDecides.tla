--------------------------- MODULE SchedulerDecides --------------------------
(***************************************************************************)
(* What the functions of Scheduler compute, for any snapshot and policy:   *)
(* the lemmas on which SchedulerProofs rests.                              *)
(***************************************************************************)
EXTENDS Scheduler, WellFoundedInduction, SequenceTheorems, TLAPS

-----------------------------------------------------------------------------
(* Least and greatest elements *)

(* Induction over the numbers in the form of a set: what holds of some     *)
(* number holds of a first one.                                            *)
LEMMA Least ==
  ASSUME NEW T \in SUBSET Nat, T # {}
  PROVE  \E n \in T : \A m \in T : n <= m
<1>1. PICK n \in T : \A m \in T : <<m, n>> \notin OpToRel(<, Nat)
  BY NatLessThanWellFounded, WFMin
<1>2. \A m \in T : ~(m < n)
  BY <1>1 DEF OpToRel
<1> QED
  BY <1>2

LEMMA Greatest ==
  ASSUME NEW S \in SUBSET Int, S # {}, NEW bound \in Int, \A n \in S : n <= bound
  PROVE  /\ Max(S) \in S
         /\ \A n \in S : n <= Max(S)
<1> DEFINE T == {bound - n : n \in S}
<1>1. \A n \in S : bound - n \in Nat
  OBVIOUS
<1>2. T \in SUBSET Nat /\ T # {}
  BY <1>1
<1>3. PICK d \in T : \A e \in T : d <= e
  <2> HIDE DEF T
  <2> QED
    BY <1>2, Least
<1>4. PICK x \in S : d = bound - x
  OBVIOUS
<1>5. \A y \in S : x >= y
  BY <1>3, <1>4
<1> QED
  BY <1>5 DEF Max

LEMMA MaxOfOneAnd ==
  ASSUME NEW n \in Int
  PROVE  Max({1, n}) = IF n > 1 THEN n ELSE 1
<1>1. /\ Max({1, n}) \in {1, n}
      /\ \A m \in {1, n} : m <= Max({1, n})
  <2>1. {1, n} \in SUBSET Int /\ {1, n} # {}
    OBVIOUS
  <2>2. CASE n > 1
    <3>1. \A m \in {1, n} : m <= n
      BY <2>2
    <3> QED
      BY <2>1, <3>1, Greatest
  <2>3. CASE ~(n > 1)
    <3>1. \A m \in {1, n} : m <= 1
      BY <2>3
    <3> QED
      BY <2>1, <3>1, Greatest
  <2> QED
    BY <2>2, <2>3
<1> QED
  BY <1>1

(* The sum of a sequence of integers is an integer.                        *)
LEMMA TotalIs ==
  ASSUME NEW ws \in Seq(Int)
  PROVE  Total(ws) \in Int
<1> DEFINE Sums(f, k) == /\ f \in [0 .. k -> Int]
                         /\ \A i \in 0 .. k : f[i] = IF i = 0 THEN 0 ELSE f[i - 1] + ws[i]
           Bad == {k \in 0 .. Len(ws) : ~ \E f : Sums(f, k)}
<1>1. Len(ws) \in Nat /\ \A i \in 1 .. Len(ws) : ws[i] \in Int
  BY ElementOfSeq, LenProperties
<1>2. Bad = {}
  <2> SUFFICES ASSUME Bad # {} PROVE FALSE
    OBVIOUS
  <2>0. Bad \in SUBSET Nat
    BY <1>1
  <2>1. PICK k \in Bad : \A m \in Bad : k <= m
    <3> HIDE DEF Bad
    <3> QED
      BY <2>0, Least
  <2>2. CASE k = 0
    <3>1. Sums([i \in 0 .. 0 |-> 0], 0)
      OBVIOUS
    <3> QED
      BY <2>1, <2>2, <3>1
  <2>3. CASE k # 0
    <3>1. k \in 1 .. Len(ws) /\ k - 1 \in 0 .. Len(ws) /\ ~(k <= k - 1)
      BY <1>1, <2>0, <2>3
    <3>2. k - 1 \notin Bad
      BY <2>1, <3>1
    <3>3. PICK f : Sums(f, k - 1)
      BY <3>1, <3>2
    <3> DEFINE g == [i \in 0 .. k |-> IF i = k THEN f[k - 1] + ws[k] ELSE f[i]]
    <3>4. /\ ws[k] \in Int /\ f[k - 1] \in Int
          /\ \A i \in 0 .. k : i # k => i \in 0 .. k - 1 /\ f[i] \in Int
      BY <1>1, <3>1, <3>3
    <3>5. g \in [0 .. k -> Int]
      BY <3>4
    <3>6. \A i \in 0 .. k : i # 0 /\ i # k => i - 1 \in 0 .. k - 1 /\ i - 1 # k
      BY <3>1
    <3>7. ASSUME NEW i \in 0 .. k PROVE g[i] = IF i = 0 THEN 0 ELSE g[i - 1] + ws[i]
      <4>1. CASE i = k
        <5>1. g[k] = f[k - 1] + ws[k] /\ g[k - 1] = f[k - 1]
          BY <3>1
        <5> QED
          BY <2>3, <4>1, <5>1
      <4>2. CASE i # k
        <5>1. i \in 0 .. k - 1 /\ g[i] = f[i] /\ f[i] = IF i = 0 THEN 0 ELSE f[i - 1] + ws[i]
          BY <3>3, <3>4, <4>2
        <5>2. i # 0 => g[i - 1] = f[i - 1]
          BY <3>6, <4>2
        <5> QED
          BY <5>1, <5>2
      <4> QED
        BY <4>1, <4>2
    <3>8. Sums(g, k)
      BY <3>5, <3>7
    <3> QED
      BY <2>1, <3>8
  <2> QED
    BY <2>2, <2>3
<1>3. PICK f : Sums(f, Len(ws))
  BY <1>1, <1>2
<1> DEFINE IsSum(g) == g = [i \in 0 .. Len(ws) |-> IF i = 0 THEN 0 ELSE g[i - 1] + ws[i]]
           sum == CHOOSE g : IsSum(g)
<1>4. IsSum(f)
  BY <1>3
<1>5. IsSum(sum)
  BY <1>4
<1>6. Total(ws) = sum[Len(ws)]
  BY DEF Total
<1> DEFINE Wrong == {k \in 0 .. Len(ws) : sum[k] \notin Int}
<1>7. Wrong = {}
  <2> SUFFICES ASSUME Wrong # {} PROVE FALSE
    OBVIOUS
  <2>0. Wrong \in SUBSET Nat
    BY <1>1
  <2>1. PICK k \in Wrong : \A m \in Wrong : k <= m
    <3> HIDE DEF Wrong
    <3> QED
      BY <2>0, Least
  <2> HIDE DEF sum
  <2>2. k \in 0 .. Len(ws) /\ sum[k] = IF k = 0 THEN 0 ELSE sum[k - 1] + ws[k]
    BY <1>5
  <2>3. CASE k = 0
    BY <2>1, <2>2, <2>3
  <2>4. CASE k # 0
    <3>1. k - 1 \in 0 .. Len(ws) /\ k \in 1 .. Len(ws) /\ ~(k <= k - 1)
      BY <1>1, <2>2, <2>4
    <3>2. sum[k - 1] \in Int /\ ws[k] \in Int
      BY <1>1, <2>1, <3>1
    <3> QED
      BY <2>1, <2>2, <2>4, <3>2
  <2> QED
    BY <2>3, <2>4
<1> QED
  BY <1>1, <1>6, <1>7

-----------------------------------------------------------------------------
(* The order of pressures *)

StrictWeakOrder(R, D) ==
  /\ \A i, j \in D : <<i, j>> \in R => <<j, i>> \notin R
  /\ \A i, j, k \in D : <<i, j>> \in R => <<i, k>> \in R \/ <<k, j>> \in R

IsFirstOfBest(i, R, D) ==
  /\ i \in D
  /\ \A j \in D \ {i} : <<i, j>> \in R \/ (<<j, i>> \notin R /\ i < j)

(* Among finitely many numbers there is a first one of those that a strict *)
(* weak order puts before all others.                                      *)
LEMMA FirstOfBest ==
  ASSUME NEW n \in Nat, NEW D \in SUBSET (1 .. n), D # {}, NEW R,
         StrictWeakOrder(R, D)
  PROVE  \E i : IsFirstOfBest(i, R, D)
<1> DEFINE Best(i, j) == <<i, j>> \in R \/ (<<j, i>> \notin R /\ i < j)
           Upto(k)    == {i \in D : i <= k}
           Bad == {k \in 1 .. n : /\ Upto(k) # {}
                                  /\ ~ \E i \in Upto(k) : \A j \in Upto(k) \ {i} : Best(i, j)}
<1>1. Bad \in SUBSET Nat
  OBVIOUS
<1>2. Bad = {}
  <2> SUFFICES ASSUME Bad # {} PROVE FALSE
    OBVIOUS
  <2>1. PICK k \in Bad : \A m \in Bad : k <= m
    <3> HIDE DEF Bad
    <3> QED
      BY <1>1, Least
  <2>2. k \in 1 .. n /\ k - 1 \notin Bad
    <3>1. k \in 1 .. n /\ ~(k <= k - 1)
      OBVIOUS
    <3> HIDE DEF Bad
    <3> QED
      BY <2>1, <3>1
  <2>3. \A i \in D : i \in Nat /\ i >= 1 /\ (i <= k <=> i <= k - 1 \/ i = k)
    BY <2>2
  <2>4. k \in D
    <3> SUFFICES ASSUME k \notin D PROVE FALSE
      OBVIOUS
    <3>1. \A i \in D : i <= k <=> i <= k - 1
      BY <2>3
    <3>2. Upto(k - 1) = Upto(k)
      BY <3>1
    <3>3. PICK i \in D : i <= k - 1
      BY <3>2
    <3>4. k - 1 \in 1 .. n
      BY <2>2, <2>3, <3>3
    <3> QED
      BY <2>2, <3>2, <3>4
  <2>5. Upto(k) = Upto(k - 1) \cup {k} /\ k \notin Upto(k - 1)
    <3>1. \A i : i \in Upto(k) <=> i \in Upto(k - 1) \/ i = k
      BY <2>3, <2>4
    <3>2. ~(k <= k - 1)
      BY <2>2
    <3>3. k \notin Upto(k - 1)
      BY <3>2
    <3> HIDE DEF Upto
    <3> QED
      BY <3>1, <3>3
  <2>6. CASE Upto(k - 1) = {}
    <3>1. \A j \in Upto(k) \ {k} : Best(k, j)
      BY <2>5, <2>6
    <3> QED
      BY <2>1, <2>5, <3>1
  <2>7. CASE Upto(k - 1) # {}
    <3>0. PICK first \in D : first <= k - 1
      BY <2>7
    <3>1. k - 1 \in 1 .. n
      BY <2>2, <2>3, <3>0
    <3>2. PICK i \in Upto(k - 1) : \A j \in Upto(k - 1) \ {i} : Best(i, j)
      BY <2>2, <2>7, <3>1
    <3>3. i \in D /\ k \in D /\ i < k
      <4>1. i \in D /\ i <= k - 1
        OBVIOUS
      <4>2. i \in Nat /\ k \in Nat
        BY <2>3, <2>4, <4>1
      <4> QED
        BY <2>4, <4>1, <4>2
    <3>4. CASE <<k, i>> \in R
      <4>1. ASSUME NEW j \in Upto(k - 1) PROVE <<k, j>> \in R
        BY <3>2, <3>3, <3>4 DEF StrictWeakOrder
      <4> QED
        BY <2>1, <2>5, <4>1
    <3>5. CASE <<k, i>> \notin R
      <4>1. \A j \in Upto(k) \ {i} : Best(i, j)
        BY <2>5, <3>2, <3>3, <3>5
      <4> QED
        BY <2>1, <2>5, <3>2, <4>1
    <3> QED
      BY <3>4, <3>5
  <2> QED
    BY <2>6, <2>7
<1>3. Upto(n) = D /\ n \in 1 .. n
  <2>1. \A i \in D : i \in Nat /\ 1 <= i /\ i <= n
    OBVIOUS
  <2>2. PICK i \in D : TRUE
    OBVIOUS
  <2>3. n \in 1 .. n
    BY <2>1, <2>2
  <2> QED
    BY <2>1, <2>3
<1>4. \E i \in D : \A j \in D \ {i} : Best(i, j)
  BY <1>2, <1>3
<1> QED
  BY <1>4 DEF IsFirstOfBest

IsPressure(a) == a.n \in Nat /\ a.d \in Nat \ {0}

LEMMA Times ==
  ASSUME NEW x \in Int, NEW y \in Int, NEW z \in Nat \ {0}
  PROVE  x > y <=> x * z > y * z
OBVIOUS

LEMMA AboveIs ==
  ASSUME NEW a, NEW b, IsPressure(a), IsPressure(b)
  PROVE  Above(a, b) <=> a.n * b.d > b.n * a.d
<1>1. a.n * b.d \in Int /\ b.n * a.d \in Int
  BY DEF IsPressure
<1> QED
  BY <1>1 DEF Above, Minus

LEMMA AboveOrders ==
  ASSUME NEW a, NEW b, NEW c, IsPressure(a), IsPressure(b), IsPressure(c), Above(a, b)
  PROVE  /\ ~ Above(b, a)
         /\ Above(a, c) \/ Above(c, b)
<1>1. a.n * b.d > b.n * a.d
  BY AboveIs
<1>2. ~ Above(b, a)
  <2>1. a.n * b.d \in Int /\ b.n * a.d \in Int
    BY DEF IsPressure
  <2> QED
    BY <1>1, <2>1, AboveIs
<1>3. ASSUME ~ Above(a, c), ~ Above(c, b) PROVE FALSE
  <2>1. /\ a.n \in Nat /\ b.n \in Nat /\ c.n \in Nat
        /\ a.d \in Nat \ {0} /\ b.d \in Nat \ {0} /\ c.d \in Nat \ {0}
    BY DEF IsPressure
  <2>2. ~(a.n * c.d > c.n * a.d) /\ ~(c.n * b.d > b.n * c.d)
    BY <1>3, AboveIs
  <2> DEFINE an == a.n
             ad == a.d
             bn == b.n
             bd == b.d
             cn == c.n
             cd == c.d
  <2>3. an * bd * cd > bn * ad * cd
    BY <1>1, <2>1, Times
  <2>4. an * cd * bd <= cn * ad * bd
    BY <2>1, <2>2, Times
  <2>5. cn * bd * ad <= bn * cd * ad
    BY <2>1, <2>2, Times
  <2>6. /\ an \in Nat /\ bn \in Nat /\ cn \in Nat
        /\ ad \in Nat /\ bd \in Nat /\ cd \in Nat
    BY <2>1
  <2> HIDE DEF an, ad, bn, bd, cn, cd
  <2> QED
    BY <2>3, <2>4, <2>5, <2>6
<1> QED
  BY <1>2, <1>3

(* Hottest and Coolest choose positions that were sampled.                 *)
LEMMA Extremes ==
  ASSUME NEW n \in Nat, NEW press, DOMAIN press \subseteq 1 .. n, DOMAIN press # {},
         \A i \in DOMAIN press : IsPressure(press[i])
  PROVE  Hottest(press) \in DOMAIN press /\ Coolest(press) \in DOMAIN press
<1> DEFINE D == DOMAIN press
           Hotter == {ij \in D \X D : Above(press[ij[1]], press[ij[2]])}
           Cooler == {ij \in D \X D : Above(press[ij[2]], press[ij[1]])}
<1>1. \A i, j \in D : /\ <<i, j>> \in Hotter <=> Above(press[i], press[j])
                      /\ <<i, j>> \in Cooler <=> Above(press[j], press[i])
  OBVIOUS
<1>2. \A i, j, k \in D : Above(press[i], press[j]) =>
        /\ ~ Above(press[j], press[i])
        /\ Above(press[i], press[k]) \/ Above(press[k], press[j])
  BY AboveOrders
<1> HIDE DEF Hotter, Cooler
<1>3. StrictWeakOrder(Hotter, D)
  BY <1>1, <1>2 DEF StrictWeakOrder
<1>4. StrictWeakOrder(Cooler, D)
  BY <1>1, <1>2 DEF StrictWeakOrder
<1>5. D \in SUBSET (1 .. n) /\ D # {}
  OBVIOUS
<1> HIDE DEF D
<1>6. PICK i : IsFirstOfBest(i, Hotter, D)
  BY <1>3, <1>5, FirstOfBest
<1>7. PICK j : IsFirstOfBest(j, Cooler, D)
  BY <1>4, <1>5, FirstOfBest
<1>8. i \in D /\ \A k \in D \ {i} :
        Above(press[i], press[k]) \/ (~ Above(press[k], press[i]) /\ i < k)
  BY <1>1, <1>6 DEF IsFirstOfBest
<1>9. j \in D /\ \A k \in D \ {j} :
        Above(press[k], press[j]) \/ (~ Above(press[j], press[k]) /\ j < k)
  BY <1>1, <1>7 DEF IsFirstOfBest
<1>10. Hottest(press) \in D
  BY <1>8 DEF Hottest, D
<1>11. Coolest(press) \in D
  BY <1>9 DEF Coolest, D
<1> QED
  BY <1>10, <1>11 DEF D

-----------------------------------------------------------------------------
(* What Decide decides *)

IsStat(stat) == stat.depth \in Nat /\ stat.done \in Nat /\ stat.dt \in Nat \ {0}

IsSnapshot(now) == DOMAIN now \subseteq Pool /\ \A p \in DOMAIN now : IsStat(now[p])

IsBinding(b) ==
  /\ DOMAIN b.pools = 1 .. Len(b.pools)
  /\ b.weights \in Seq(Int) /\ Len(b.weights) = Len(b.pools)

IsParams(params) ==
  /\ params.epsRate \in Nat \ {0} /\ params.paceRate \in Nat \ {0}
  /\ {params.minPressureDelta, params.baseStep, params.maxStep, params.minWeight,
      params.maxFrac} \subseteq Nat

LEMMA BindingIs ==
  ASSUME NEW b, IsBinding(b)
  PROVE  /\ Len(b.weights) \in Nat
         /\ DOMAIN b.weights = 1 .. Len(b.weights) /\ DOMAIN b.pools = DOMAIN b.weights
         /\ \A i \in DOMAIN b.weights : b.weights[i] \in Int
BY ElementOfSeq, LenProperties DEF IsBinding

LEMMA PressuresAre ==
  ASSUME NEW now, NEW b, NEW eps \in Nat \ {0}, IsSnapshot(now)
  PROVE  LET press == Pressures(now, b, eps) IN
         /\ DOMAIN press = {i \in DOMAIN b.pools : b.pools[i] \in DOMAIN now}
         /\ \A i \in DOMAIN press : IsPressure(press[i])
<1> DEFINE press == Pressures(now, b, eps)
<1>1. ASSUME NEW stat, IsStat(stat) PROVE IsPressure(Pressure(stat, eps))
  <2>1. stat.depth \in Nat /\ stat.done \in Nat /\ stat.dt \in Nat \ {0}
    BY <1>1 DEF IsStat
  <2>2. eps * stat.dt \in Nat \ {0} /\ stat.depth * stat.dt \in Nat
    BY <2>1
  <2> QED
    BY <2>1, <2>2 DEF IsPressure, Pressure
<1>2. /\ DOMAIN press = {i \in DOMAIN b.pools : b.pools[i] \in DOMAIN now}
      /\ \A i \in DOMAIN press : press[i] = Pressure(now[b.pools[i]], eps)
  BY DEF Pressures
<1> QED
  BY <1>1, <1>2 DEF IsSnapshot

(* The limits on a step: it does not exceed the largest number that all of *)
(* them allow, and there is one, 0.                                        *)
Allowed(params, b, hot, cool, mult) ==
  {n \in 0 .. params.maxStep :
     /\ WithinPace(n, mult * params.baseStep,
                   Reported(b.pools[cool]), Reported(b.pools[hot]))
     /\ n = 0 \/ Floored(n, b.weights[hot], params.minWeight)
     /\ n <= Share(Total(b.weights), params.maxFrac)}

LEMMA ReportedIs ==
  ASSUME NEW p \in Pool
  PROVE  Reported(p) \in Nat
BY SchedulerAssumption DEF Reported

LEMMA ShareIs ==
  ASSUME NEW total \in Int, NEW frac \in Nat
  PROVE  /\ Share(total, frac) \in Nat \ {0}
         /\ \A n \in Nat : n <= Share(total, frac) => n <= 1 \/ n * 100 <= total * frac
<1> DEFINE x == total * frac
           q == x \div 100
<1>1. x \in Int
  OBVIOUS
<1> HIDE DEF x
<1>2. q \in Int /\ q * 100 <= x
  BY <1>1
<1>3. Share(total, frac) = IF q > 1 THEN q ELSE 1
  BY <1>2, MaxOfOneAnd DEF Share, x
<1> HIDE DEF q
<1>4. \A n \in Nat : n <= q => n * 100 <= x
  BY <1>1, <1>2
<1> QED
  BY <1>2, <1>3, <1>4 DEF x

LEMMA StepIs ==
  ASSUME NEW b, NEW params, IsBinding(b), IsParams(params), NEW mult \in Int,
         NEW hot \in DOMAIN b.pools, NEW cool \in DOMAIN b.pools,
         b.pools[hot] \in Pool, b.pools[cool] \in Pool
  PROVE  LET step == Max(Allowed(params, b, hot, cool, mult)) IN
         /\ step \in Allowed(params, b, hot, cool, mult)
         /\ \A n \in Allowed(params, b, hot, cool, mult) : n <= step
<1> DEFINE S == Allowed(params, b, hot, cool, mult)
<1>1. params.maxStep \in Nat /\ params.baseStep \in Nat /\ params.maxFrac \in Nat
  BY DEF IsParams
<1>2. S \in SUBSET Int /\ \A n \in S : n <= params.maxStep
  BY <1>1 DEF Allowed
<1>3. 0 \in S
  <2>1. Total(b.weights) \in Int
    BY TotalIs DEF IsBinding
  <2>2. 0 <= Share(Total(b.weights), params.maxFrac)
    <3>1. Share(Total(b.weights), params.maxFrac) \in Nat
      BY <1>1, <2>1, ShareIs
    <3> QED
      BY <3>1
  <2>3. WithinPace(0, mult * params.baseStep, Reported(b.pools[cool]), Reported(b.pools[hot]))
    <3> DEFINE to   == Reported(b.pools[cool])
               from == Reported(b.pools[hot])
               base == mult * params.baseStep
    <3>1. to \in Nat /\ from \in Nat /\ base \in Int
      BY <1>1, ReportedIs
    <3> HIDE DEF to, from, base
    <3>2. Max({1, from}) \in Nat
      BY <3>1, MaxOfOneAnd
    <3>3. base * base \in Nat
      BY <3>1
    <3>4. base * base * to \in Nat
      BY <3>1, <3>3
    <3> QED
      BY <3>2, <3>4 DEF WithinPace, to, from, base
  <2> QED
    BY <1>1, <2>2, <2>3 DEF Allowed
<1> HIDE DEF S
<1>4. Max(S) \in S /\ \A n \in S : n <= Max(S)
  <2> DEFINE m == params.maxStep
  <2>1. S \in SUBSET Int /\ S # {}
    BY <1>2, <1>3
  <2>2. m \in Int /\ \A n \in S : n <= m
    BY <1>1, <1>2
  <2> HIDE DEF m
  <2> QED
    BY <2>1, <2>2, Greatest
<1> QED
  BY <1>4 DEF S

(* A plan that moves step from one position of b to another.               *)
Moves(made, b, params, from, to, step) ==
  /\ from \in DOMAIN b.weights /\ to \in DOMAIN b.weights /\ from # to
  /\ step \in 1 .. params.maxStep
  /\ b.weights[from] - step >= params.minWeight
  /\ step = 1 \/ step * 100 <= Total(b.weights) * params.maxFrac
  /\ b.pools[to] \notin Striped
  /\ made = [old |-> b.weights,
             new |-> [b.weights EXCEPT ![from] = @ - step, ![to] = @ + step]]

LEMMA DecideIs ==
  ASSUME NEW now, NEW b, NEW params, IsSnapshot(now), IsBinding(b), IsParams(params),
         Decide(now, b, params) # NoPlan
  PROVE  \E from, to, step : Moves(Decide(now, b, params), b, params, from, to, step)
<1> DEFINE press == Pressures(now, b, params.epsRate)
           hot   == Hottest(press)
           cool  == Coolest(press)
           over  == Minus(press[hot], press[cool])
           spare == over.n - params.minPressureDelta * over.d
           mult  == 1 + spare \div (params.paceRate * over.d)
           step  == Max(Allowed(params, b, hot, cool, mult))
           made  == Decide(now, b, params)
<1>1. /\ made = [old |-> b.weights,
                 new |-> [b.weights EXCEPT ![hot] = @ - step, ![cool] = @ + step]]
      /\ DOMAIN press # {} /\ hot # cool /\ step # 0
  BY DEF Decide, Allowed
<1>2. /\ DOMAIN press = {i \in DOMAIN b.pools : b.pools[i] \in DOMAIN now}
      /\ \A i \in DOMAIN press : IsPressure(press[i])
  BY PressuresAre DEF IsParams
<1> HIDE DEF press
<1>3. /\ Len(b.pools) \in Nat /\ DOMAIN b.pools = 1 .. Len(b.pools)
      /\ DOMAIN b.weights = DOMAIN b.pools
  <2>1. Len(b.weights) \in Nat /\ DOMAIN b.weights = DOMAIN b.pools
    BY BindingIs
  <2>2. DOMAIN b.pools = 1 .. Len(b.pools) /\ Len(b.weights) = Len(b.pools)
    BY DEF IsBinding
  <2> QED
    BY <2>1, <2>2
<1>4. hot \in DOMAIN press /\ cool \in DOMAIN press
  BY <1>1, <1>2, <1>3, Extremes
<1> HIDE DEF hot, cool
<1>5. /\ hot \in DOMAIN b.pools /\ b.pools[hot] \in Pool
      /\ cool \in DOMAIN b.pools /\ b.pools[cool] \in Pool
  BY <1>2, <1>4 DEF IsSnapshot
<1>6. mult \in Int
  <2>1. /\ press[hot].n \in Nat /\ press[cool].n \in Nat
        /\ press[hot].d \in Nat \ {0} /\ press[cool].d \in Nat \ {0}
    BY <1>2, <1>4 DEF IsPressure
  <2>2. over.n \in Int /\ over.d \in Nat \ {0}
    <3>1. over.n = press[hot].n * press[cool].d - press[cool].n * press[hot].d
          /\ over.d = press[hot].d * press[cool].d
      BY DEF Minus
    <3> HIDE DEF over
    <3> QED
      BY <2>1, <3>1
  <2>3. params.minPressureDelta \in Nat /\ params.paceRate \in Nat \ {0}
    BY DEF IsParams
  <2> HIDE DEF over
  <2>4. spare \in Int /\ params.paceRate * over.d \in Nat \ {0}
    BY <2>2, <2>3
  <2> HIDE DEF spare
  <2> QED
    BY <2>4
<1> HIDE DEF mult
<1>7. step \in Allowed(params, b, hot, cool, mult)
  BY <1>5, <1>6, StepIs
<1> HIDE DEF step
<1>8. /\ params.maxStep \in Nat /\ params.baseStep \in Nat /\ params.maxFrac \in Nat
      /\ params.minWeight \in Nat
  BY DEF IsParams
<1>9. /\ step \in 1 .. params.maxStep
      /\ Floored(step, b.weights[hot], params.minWeight)
      /\ step <= Share(Total(b.weights), params.maxFrac)
      /\ WithinPace(step, mult * params.baseStep, Reported(b.pools[cool]), Reported(b.pools[hot]))
  BY <1>1, <1>7, <1>8 DEF Allowed
<1>10. b.weights[hot] - step >= params.minWeight
  <2>1. b.weights[hot] \in Int
    BY <1>3, <1>5, BindingIs
  <2> QED
    BY <1>8, <1>9, <2>1 DEF Floored
<1>11. step = 1 \/ step * 100 <= Total(b.weights) * params.maxFrac
  <2>1. Total(b.weights) \in Int
    BY TotalIs DEF IsBinding
  <2>2. step \in Nat /\ step # 0
    BY <1>8, <1>9
  <2>3. step <= 1 \/ step * 100 <= Total(b.weights) * params.maxFrac
    BY <1>8, <1>9, <2>1, <2>2, ShareIs
  <2> QED
    BY <2>2, <2>3
<1>12. b.pools[cool] \notin Striped
  <2> SUFFICES ASSUME Reported(b.pools[cool]) = 0 PROVE FALSE
    BY DEF Reported
  <2> DEFINE base == mult * params.baseStep
             from == Reported(b.pools[hot])
  <2>1. base \in Int /\ from \in Nat /\ step \in Nat \ {0}
    BY <1>5, <1>6, <1>8, <1>9, ReportedIs
  <2>2. step * step * Max({1, from}) <= base * base * 0
    BY <1>9 DEF WithinPace
  <2> HIDE DEF base, from
  <2>3. Max({1, from}) \in Nat \ {0}
    BY <2>1, MaxOfOneAnd
  <2>4. step * step \in Nat \ {0} /\ base * base \in Int
    BY <2>1
  <2>5. step * step * Max({1, from}) \in Nat \ {0} /\ base * base * 0 = 0
    BY <2>3, <2>4
  <2> QED
    BY <2>2, <2>5
<1>13. Moves(made, b, params, hot, cool, step)
  BY <1>1, <1>3, <1>5, <1>9, <1>10, <1>11, <1>12 DEF Moves
<1> HIDE DEF made
<1> QED
  BY <1>13, Zenon DEF made
=============================================================================
